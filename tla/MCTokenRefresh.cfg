SPECIFICATION FairSpec
CONSTANTS
  Requests = {r1, r2}
  NULL = NULL
  MaxPerHost = 3
  MaxToken = 2
INVARIANTS TypeOK SessionKept
PROPERTIES RefreshOnce EveryRequestEnds
CHECK_DEADLOCK FALSE
