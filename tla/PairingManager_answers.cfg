SPECIFICATION Spec
CONSTANTS
  tab = tab
  reloaded = reloaded
  other = other
  l1 = l1
  l2 = l2
  None = None
  Sessions <- MCSessions
  Launches <- MCLaunches
  LaunchOf <- MCLaunchOf
  MaxCopies = 1
INVARIANTS
  TypeOK
PROPERTIES
  RejectionIsFinal
  AcceptIsAnnounced
  PromptComes
