SPECIFICATION FairSpec
CONSTANTS
  Requests = {r1, r2}
  NULL = NULL
  MaxPerHost = 2
  MaxToken = 2
PROPERTY EveryRequestEnds
CHECK_DEADLOCK FALSE
