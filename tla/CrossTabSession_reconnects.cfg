SPECIFICATION FairSpec
CONSTANTS
  Me = me
  Launch = launch
  None = none
  r1 = r1
  r2 = r2
  s1 = s1
  Runs <- MCNoRun
  Steps <- MCSteps
  StepOf <- MCStepOf
  Requests = {}
  MaxCopies = 1
  MaxWire = 1
  MaxWork = 1
  MaxQuiet = 1
  MaxLapse = 0
  MaxGone = 0
  MaxMoves = 0
  Sidebars = {"closed"}
  TTLs = FALSE
PROPERTIES Reconnects
CHECK_DEADLOCK FALSE
