SPECIFICATION Spec
CONSTANTS
  Pin = {a0, a5}
  NoPin = NoPin
  PulseTicks = 2
  LedInterval = 3
  MaxBlock = 3
  Wrap = 8
INVARIANTS
  PulseInTime
  LedFollowsLog
PROPERTIES
  PulseLongEnough
