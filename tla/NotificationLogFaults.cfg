SPECIFICATION NotifSpec
CONSTANTS
  Key = {k1, k2}
  Torn = Torn
  Time <- MCTime
  MaxLines = 5
  Faults = {"open", "short", "crash", "reset", "load", "rename"}
INVARIANTS
  ReadsLastWhole
PROPERTIES
  ImplementsRowStore
