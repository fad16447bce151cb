SPECIFICATION Spec
CONSTANTS
  Requests = {r1, r2}
  Sizes = {1, 2}
  MaxTries = 3
  MaxChanges = 1
  Faults = {r1, r2}
  DiskFaults = {}
  Stalls = TRUE
  Evictions = TRUE
  None = None
SYMMETRY Symmetry
INVARIANTS
  GateExact
  CachedWhole
  ResponsesExact
