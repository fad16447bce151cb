SPECIFICATION FairDescribing
CONSTANTS
  Requests = {r1, r2}
  Lives <- MCLives
  Keep = 3
  Margin = 1
  Attempts = 2
  MaxRefreshes = 1
  MaxTime = 2
  Never = Never
  None = None
  Failed = Failed
  Differs = Differs
  Cancelled = Cancelled
INVARIANTS
  FreshIsAlive
  FreshUnlessOvertaken
  FailuresHaveCause
PROPERTY DescribeReturns
