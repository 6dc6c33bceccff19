SPECIFICATION FairSpec
CONSTANTS
  Memories = {m1, m2}
  NoMemory = none
  MaxFetches = 2
  MaxReveals = 2
INVARIANT TypeOK
INVARIANT NeverStranded
INVARIANT UndisturbedReveal
PROPERTY NeverBackToOlder
PROPERTY SpinnerStops
PROPERTY TapSettles
