SPECIFICATION FairSpec
CONSTANTS
  Pin = {alarm}
  ActiveLow = {}
  QueueDepth = 2
  DebounceTicks = 2
  TicksPerSecond = 3
  Wrap = 8
  EpochWrap = 4
  MaxBlock = 4
PROPERTIES
  PulsesReconstructed
