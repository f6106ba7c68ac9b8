SPECIFICATION FairSpec
CONSTANTS
  Pin = {alarm}
  ActiveLow = {}
  QueueDepth = 2
  DebounceTicks = 3
  TicksPerSecond = 3
  Wrap = 8
  EpochWrap = 4
  MaxBlock = 3
INVARIANTS
  LogFollowsPins
  DatedAtEdge
PROPERTIES
  OnlyStableReported
  EventuallyReported
