SPECIFICATION FairSpec
CONSTANTS
  Requests = {r1, r2, r3}
  Sizes = {1}
  MaxTries = 1
  MaxChanges = 0
  Faults = {r2, r3}
  DiskFaults = {r2, r3}
  Stalls = FALSE
  Evictions = TRUE
  None = None
PROPERTIES
  WaitersProceed
  FillsComplete
