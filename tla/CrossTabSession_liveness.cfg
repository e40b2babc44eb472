SPECIFICATION FairSpec
CONSTANTS
  Me = me
  Launch = launch
  None = none
  r1 = r1
  r2 = r2
  s1 = s1
  Runs <- MCOneRun
  Steps <- MCSteps
  StepOf <- MCStepOf
  Requests = {}
  MaxCopies = 1
  MaxWire = 1
  MaxWork = 1
  MaxQuiet = 0
  MaxLapse = 1
  MaxGone = 1
  MaxMoves = 0
  Sidebars = {"closed"}
  TTLs = FALSE
CHECK_DEADLOCK FALSE
PROPERTIES ComesConnected PostedRunsSettle
