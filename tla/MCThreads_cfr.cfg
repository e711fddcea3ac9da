SPECIFICATION ThreadsSpec
CONSTANTS
  Bounds = {2, 3}
  Prebuffering = 2
  MaxElems = 5
  MaxWakeups = 2
  Threads = 2
  Samples = 9
  Texts <- EveryText
  Symbols = 3
  Clips = {1, 2}
INVARIANT ReferenceIsACopy
