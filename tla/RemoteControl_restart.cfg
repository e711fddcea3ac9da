SPECIFICATION Spec
CONSTANTS
  Kinds = {"telnet"}
  MaxRuns = 1
PROPERTY RestartsAreSafe
CHECK_DEADLOCK FALSE
