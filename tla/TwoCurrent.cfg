SPECIFICATION Spec
CONSTANTS
  Memories = {m1, m2}
  NoMemory = none
  Ticks = {t1, t2}
  MaxAttempts = 1
  Overlap = TRUE
SYMMETRY Interchangeable
INVARIANT AtMostOneCurrent
CHECK_DEADLOCK FALSE
