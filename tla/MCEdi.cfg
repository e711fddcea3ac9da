SPECIFICATION EdiSpec
CONSTANTS
  PseqModulus = 6
  Fcount = 2
  KeepBuilders = 3
  MaxPackets = 7
  Window = 4
  Networks <- EveryNetwork
  Streams <- EveryStream
  TcpBuffer = 6
  MaxBreaks = 2
  MaxTimeouts = 2
INVARIANT Realigns
PROPERTIES InOrder NoneLeftOut HalfOpenIsNoticed
CHECK_DEADLOCK FALSE
