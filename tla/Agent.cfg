SPECIFICATION FairSpec
CONSTANTS
  c1 = c1
  c2 = c2
  Clients = {c1, c2}
  Drainer = d
  QCap = 1
  Calls <- MCCalls
  BodyEnds = {"ok", "panic"}
  WatchEnds = {"ok", "panic"}
  Nests = {c2}
  MaxCalls = 2
INVARIANT NoLostUpdate
INVARIANT SendOrder
INVARIANT AwaitCoversSent
PROPERTY CallsFinish
PROPERTY DeadlineHonoured
CHECK_DEADLOCK FALSE
