SPECIFICATION Spec
CONSTANTS
  Callers = {c1, c2}
  Covers = {u1, u2, u3}
  Sizes = {1, 2}
  MaxBytes = 2
  MaxFetches = 3
  Faults = TRUE
  None = None
SYMMETRY Symmetry
INVARIANTS
  OnlyGoodCopies
  FetchedIsFound
  QuietWithinLimit
