SPECIFICATION NotifierSpec
CONSTANTS
  outage = outage
  reboot = reboot
  alarm = alarm
  Duration = {alarm, outage}
  OnlyEnd = {outage}
  Instant = {reboot}
  Reboot = reboot
  NetworkIssue = outage
  Torn = Torn
  Time <- MCTime
  Cap = 1
  MaxLines = 3
  MaxId = 3
  Faults = {"close", "crash", "reset"}
  u1 = u1
  NoKey = NoKey
  User = {u1}
  Admin = {}
  MaxRetries = 1
  AggregateThreshold = 3
  MaxQueue = 0
  EngineFaults = {"crash"}
INVARIANTS
  ToldOnce
  RetriesFindTheirEvent
CONSTRAINT FewSent
