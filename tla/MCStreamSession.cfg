SPECIFICATION FairSpec
CONSTANTS
  Owners = {g1, g2}
  InitStages = 2
  StreamStages = 2
  CannotFail = {2}
  Reporting = {3}
  NULL = NULL
INVARIANTS TypeOK PermitAccounting CleanStart ListenerIsOwner
PROPERTIES ImplementsExclusive StartsAndStopsEnd
CHECK_DEADLOCK FALSE
