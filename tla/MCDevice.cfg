SPECIFICATION DeviceSpec
CONSTANTS
  MaxPackets = 3
  MaxTxFrames = 3
  MaxRestarts = 1
  Clocks <- EveryClock
  CheckInterval = 2
  InitialWait = 8
  MaxGap = 2
  MaxHoldover = 2
  Margin = 1
  MuteNoTimestamps = FALSE
  MaxLost = 1
  MaxTime = 5
  MaxAhead = 2
  Values = {0, 1, 2}
  Coerce <- Even
  MaxJump = 1
  FramesMaxSizeSync = 2
  FramesMaxSizeUnsync = 1
  AbortFuture = 3
  SendMayFail = TRUE
  Offsets = {0, 2}
  RcParameters = {"muting", "synchronous"}
  MaxFrames = 3
  Instants = {3}
INVARIANTS NoSilentGap SameBurst OnAirOnTime ClocksAreTrusted SettingsAreTrue
PROPERTIES NeverBackwards DeadThreadIsNoticed StopTerminates JumpsEndTheBurst
CHECK_DEADLOCK FALSE
