SPECIFICATION Spec
CONSTANTS
  DataShards = 2
  FecShards = 1
  Round = 32
  NONE = NONE
  LOST = LOST
  FirstBlocks <- MCFirstBlocks
  MaxBlock = 17
  Late = 1
  MaxSkipped = 2
INVARIANTS
  TypeOK
  ValidState
  WaitIsBounded
PROPERTIES
  HandsOutInOrder
CHECK_DEADLOCK FALSE
