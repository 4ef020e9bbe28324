SPECIFICATION FairSpec
CONSTANTS
  Plans <- MCPlans
  IndexRange = 256
INVARIANTS
  NoFrameLost
  RxInOrder
  TxInOrder
PROPERTIES
  InterruptEnds
  DriverCatchesUp
CHECK_DEADLOCK FALSE
