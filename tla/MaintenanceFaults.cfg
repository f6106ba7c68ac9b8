SPECIFICATION Spec
CONSTANTS
  Wrap = 16
  Week = 2
  retentionWeeks = 2
  Skew <- MCSkew
  MaxTime = 9
  MaxRows = 2
  Faults = {"crash", "rotation"}
INVARIANTS
  RotationOnTime
  OldRowsGo
PROPERTIES
  RotationRecordedWhenDone
