SPECIFICATION FairSpec
CONSTANTS
  Delays <- BackoffSteps
  SyncTimeout = 3
  PersistInterval = 3
  MaxBlock = 2
  Wrap = 10
INVARIANTS
  AttemptsResume
  AnchorFresh
  EstimateNeverAhead
PROPERTIES
  EventuallySynced
