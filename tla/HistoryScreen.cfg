SPECIFICATION Spec
CONSTANTS
  Memories = {m1, m2}
  NoMemory = none
  MaxFetches = 2
SYMMETRY Interchangeable
INVARIANT UpToDate
PROPERTY ShrinksOnlyOnError
