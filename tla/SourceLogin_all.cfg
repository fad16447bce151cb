SPECIFICATION FairSpec
CONSTANTS
  Callers = {c1, c2}
  Keys = {k1}
  Sessions = {s1, s2}
  MaxSecrets = 2
  Faults = TRUE
  KeyFaults = FALSE
  None = None
INVARIANTS
  SavedIsIssued
  LoginIsItsKeys
  SessionReadable
PROPERTIES
  HandlersReturn
