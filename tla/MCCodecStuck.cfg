SPECIFICATION Spec
CONSTANTS
  MaxTries = 2
  QueueLimit = 1
  HdrChanges = 0
PROPERTY RecoveryEnds
CHECK_DEADLOCK FALSE
