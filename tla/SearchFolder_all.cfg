SPECIFICATION FairSpec
CONSTANTS
  Clients = {c1, c2}
  Tracks <- MCOneSong
  Title <- MCTitle
  Ids = {i1, i2, i3}
  MaxEdits = 1
  Faults = TRUE
  None = None
INVARIANTS
  StaleOnlyIfOvertaken
PROPERTIES
  WaitersReturn
