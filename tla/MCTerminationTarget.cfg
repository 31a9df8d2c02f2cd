SPECIFICATION Spec
CONSTANTS
  Owners = {g1, g2}
  InitStages = 2
  StreamStages = 2
  CannotFail = {2}
  Reporting = {3, 4}
  NULL = NULL
INVARIANT TerminationReachesItsSession
CHECK_DEADLOCK FALSE
