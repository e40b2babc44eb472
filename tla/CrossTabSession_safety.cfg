SPECIFICATION Spec
CONSTANTS
  Me = me
  Launch = launch
  None = none
  r1 = r1
  r2 = r2
  s1 = s1
  Runs <- MCOneRun
  Steps <- MCSteps
  StepOf <- MCStepOf
  Requests = {q1}
  MaxCopies = 1
  MaxWire = 1
  MaxWork = 1
  MaxQuiet = 1
  MaxLapse = 0
  MaxGone = 1
  MaxMoves = 1
  Sidebars = {"docked"}
  TTLs = TRUE
CHECK_DEADLOCK FALSE
INVARIANTS TypeOK BoundToAccepter
PROPERTIES HandOffIsRemembered KeepsPromise
