SPECIFICATION FairPageSpec
CONSTANTS
  MaxAsks = 2
  MaxPolls = 3
INVARIANTS
  PollsForOne
  SaysWhatHolds
PROPERTY EndIsShown
CHECK_DEADLOCK FALSE
