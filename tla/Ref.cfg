SPECIFICATION FairSpec
CONSTANTS
  Clients = {c1, c2}
  Futures = {f1}
  Refs = {r1, r2}
  NoProc = noProc
  FnEnds = {"ok", "invalid", "panic"}
  WatchEnds = {"ok", "panic"}
  MaxOps = 2
INVARIANT NoLostUpdate
INVARIANT IsolatedTogether
PROPERTY CallsReturn
CHECK_DEADLOCK FALSE
