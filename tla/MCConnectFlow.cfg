SPECIFICATION FairSpec
CONSTANTS
  Games = {0, 1, 2}
  MyGame = 1
  MaxSession = 2
INVARIANTS TypeOK HeartbeatFollowsUse NeverWaitsForNothing
PROPERTIES EndsOnlyByChoice ConnectEnds
CHECK_DEADLOCK FALSE
