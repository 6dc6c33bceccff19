SPECIFICATION ResetSpec
CONSTANTS
  Memories = {m1, m2}
  NoMemory = none
  Ticks = {t1, t2}
  MaxAttempts = 1
  Overlap = FALSE
  MaxResets = 2
  MaxReplies = 1
SYMMETRY Interchangeable
INVARIANT FutureIsUnseen
INVARIANT RetiredSinceReset
CHECK_DEADLOCK FALSE
