SPECIFICATION FairSpec
CONSTANTS
  Clients = {c1, c2}
  Ids = {1, 2}
  Titles = {"x"}
  Index = Index
  MaxChanges = 1
  Faults = TRUE
  None = None
INVARIANTS
  FoldersDiffer
  ListedIsFound
PROPERTIES
  RequestsReturn
