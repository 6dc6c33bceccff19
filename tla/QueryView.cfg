SPECIFICATION FairSpec
CONSTANTS
  Docs = {a, b}
  MaxLookups = 1
  Confusable = {a}
  LookupIds = {1, 2, 3}
  MaxUnread = 1
  MaxVersion = 2
  MaxDisturbances = 1
INVARIANTS
  TypeOK
  AssertionsHold
  AcksAreDue
  SyncedIsExact
  NothingMissed
  ViewFollowsDisk
  LimboIsPursued
PROPERTIES
  BecomesSynced
CHECK_DEADLOCK FALSE
