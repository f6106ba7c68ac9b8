SPECIFICATION Spec
CONSTANTS
  FailureLimit = 3
  IssueThreshold = 2
  RetryInterval = 3
  MaxBlock = 2
  MaxOwed = 2
INVARIANTS
  RowFollowsTracker
  ConfirmedInTime
  ReturnNoticed
