SPECIFICATION Spec
CONSTANTS
  Docs = {a, b}
  MaxLookups = 1
  Confusable = {a, b}
  LookupIds = {1, 2, 3}
  MaxUnread = 0
  MaxVersion = 2
  MaxDisturbances = 0
INVARIANTS
  NotFromCacheIsUpToDate
CHECK_DEADLOCK FALSE
