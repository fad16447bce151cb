SPECIFICATION Spec
CONSTANTS
  Keys = {k1, k2}
  Callers = {c1, c2, c3}
  Files = {f1, f2, f3}
  Sizes = {1}
  MaxBytes = 1
  MaxClock = 1
  Faults = FALSE
  Damage = FALSE
  None = None
SYMMETRY Symmetry
INVARIANTS
  HitServable
