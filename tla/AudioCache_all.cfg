SPECIFICATION Spec
CONSTANTS
  Keys = {k1, k2}
  Callers = {c1, c2}
  Files = {f1, f2, f3}
  Sizes = {1, 2}
  MaxBytes = 2
  MaxClock = 1
  Faults = TRUE
  Damage = TRUE
  None = None
SYMMETRY Symmetry
INVARIANTS
  NoPartialHit
  LeaseProtects
  LeastRecentFirst
  SweptWithinLimit
PROPERTIES
  RecoveryExact
  StoreSpec
