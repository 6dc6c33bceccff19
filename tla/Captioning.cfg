SPECIFICATION Spec
CONSTANTS
  Photos = {f1, f2}
  Completed = completed
  Pages = {p1, p2, p3}
SYMMETRY Interchangeable
INVARIANT CompletedIsMemory
INVARIANT DuplicatesAreExplained
CHECK_DEADLOCK FALSE
