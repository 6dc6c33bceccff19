SPECIFICATION Spec
CONSTANTS
  Memories = {m1, m2}
  NoMemory = none
  MaxFetches = 2
  MaxReveals = 2
SYMMETRY Interchangeable
INVARIANT ShownWasTapped
