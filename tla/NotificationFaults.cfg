SPECIFICATION FairSpec
CONSTANTS
  u1 = u1
  u2 = u2
  k1 = k1
  NoKey = NoKey
  User = {u1, u2}
  Admin = {u1}
  Key = {k1}
  MaxRetries = 2
  AggregateThreshold = 0
  MaxQueue = 1
  Faults = {"crash", "write", "read", "reset", "whitelist"}
INVARIANTS
  OneAttemptQueued
  AttemptsWithinLimit
  NothingForgotten
  NoResend
  PendingHasRetry
PROPERTIES
  TerminalRowsFinal
  KeepsPromise
  EventuallySettled
