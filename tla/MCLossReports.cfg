SPECIFICATION FairLossSpec
CONSTANTS
  MaxFrame = 4
  RfiEnabled = TRUE
  RfiBound = 2
INVARIANTS LossTypeOK LossAccounted RangesGrow
PROPERTIES LossAnswered ThreadsExit
CHECK_DEADLOCK FALSE
