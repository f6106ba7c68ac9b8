SPECIFICATION FairSpec
CONSTANTS
  Duration = {alarm, outage}
  OnlyEnd = {outage}
  Instant = {reboot, arm}
  Reboot = reboot
  Torn = Torn
  Time <- MCTime
  Cap = 1
  MaxLines = 4
  MaxId = 3
  Faults = {"open", "short", "crash", "reset", "close", "rename"}
INVARIANTS
  OneOpenPerType
  EndHasStart
  LogAgreesWithTransitions
  MonotonicLog
  NotifiedExactlyOnce
  LogShowsLatest
PROPERTIES
  RotationEnds
