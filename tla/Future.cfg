SPECIFICATION Spec
CONSTANTS
  Clients = {c1, c2}
  Worker = w
  NoProc = noProc
  BodyEnds = {"value", "panic"}
  MaxCalls = 3
INVARIANT CancelVerdict
PROPERTY IsWriteOnce
CHECK_DEADLOCK FALSE
