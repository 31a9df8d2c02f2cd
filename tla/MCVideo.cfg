SPECIFICATION Spec
CONSTANTS
  MaxFrame = 5
  RfiEnabled = TRUE
  RfiBound = 2
  QueueBound = 2
  DropLimit = 3
  Modes <- MCModes
  MaxFailures = 2
INVARIANTS TypeOK NoBrokenReference RecoveryPending AssertionsHold
CHECK_DEADLOCK FALSE
