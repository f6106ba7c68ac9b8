SPECIFICATION Spec
CONSTANTS
  u1 = u1
  u2 = u2
  k1 = k1
  k2 = k2
  NoKey = NoKey
  User = {u1, u2}
  Admin = {u1}
  Key = {k1, k2}
  MaxRetries = 1
  AggregateThreshold = 1
  MaxQueue = 1
  Faults = {}
INVARIANTS
  ScanCoversEverything
