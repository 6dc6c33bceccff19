SPECIFICATION FairSpec
CONSTANTS
  MaxWrites = 3
  MaxPendingWrites = 2
  MaxDisturbances = 3
INVARIANTS
  TypeOK
  AssertionsHold
  WireMatchesPipeline
  NothingLost
PROPERTIES
  ImplementsReliableWrites
  EveryWriteSettles
CHECK_DEADLOCK FALSE
