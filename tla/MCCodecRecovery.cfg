SPECIFICATION Spec
CONSTANTS
  MaxTries = 1
  QueueLimit = 1
  HdrChanges = 1
INVARIANTS
  TypeOK
  ExclusiveRecovery
  IdrAfterRecovery
CHECK_DEADLOCK FALSE
