SPECIFICATION MainSpec
CONSTANTS
  MaxCalls = 6
  CifCounts = {2, 4}
  Stages = 2
  MaxEti = 37
  Settings <- EveryInput
  FctModulus = 10
  PhaseModulus = 4
  Cycle = 20
  MaxMissed = 9
  FileFrames <- Recording
  Kinds = {"telnet", "zmq"}
  MaxRuns = 2
  Files <- EveryFile
  RawLength = 6
  MaxRounds = 3
INVARIANTS MetadataMatchesFrame NoEmptyInput FindsTheLiving FramesOfTheFile
PROPERTIES ImplementsDelayLine StopTerminates FramesInOrder
           ConsecutiveFrames SignalEnds Recovers RemoteLives
