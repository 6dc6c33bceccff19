SPECIFICATION FairSpec
CONSTANTS
  Queries = {today, past}
  Gets = {a, b}
  NoQuery = NoQuery
  MaxEvents = 3
INVARIANTS
  TypeOK
  AssertionsHold
  CompletedOnce
PROPERTIES
  AnsweredInOrder
  NoCacheWhileOnline
  EveryGetAnswered
