SPECIFICATION Spec
CONSTANTS
  a = a
  b = b
  c = c
  User = {a, b, c}
  Onboarding = a
  Value = {0, 1}
  Default = 0
  Setting = {"maxRetries"}
  Persisted = {"maxRetries"}
  MaxRequests = 2
  MaxWords = 3
  Faults = {"read", "write", "nvs"}
SYMMETRY Alike
INVARIANTS
  NeverLockedOut
  PreferencesKept
  CommandsAsDocumented
PROPERTIES
  ResetLosesNothing
