SPECIFICATION FairSpec
CONSTANTS
  Memories = {m1, m2, m3}
  NoMemory = none
  Ticks = {t1}
  MaxAttempts = 3
  Overlap = TRUE
INVARIANT RetiredWhenDrawn
INVARIANT PushFollowsBatch
PROPERTY UndisturbedRunRotates
PROPERTY EveryTaskSettles
CHECK_DEADLOCK FALSE
