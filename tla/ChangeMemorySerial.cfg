SPECIFICATION Spec
CONSTANTS
  Memories = {m1, m2, m3}
  NoMemory = none
  Ticks = {t1, t2}
  MaxAttempts = 2
  Overlap = FALSE
INVARIANT TypeOK
INVARIANT AtMostOneCurrent
INVARIANT NeverRepeats
PROPERTY ImplementsLifecycle
CHECK_DEADLOCK FALSE
