SPECIFICATION DelaySpec
CONSTANTS
  Forcers = {p1, p2, p3}
  NoForcer = noProc
  FnEnds = {"value", "panic"}
  MaxDerefs = 2
INVARIANT SlowDerefsAgree
CHECK_DEADLOCK FALSE
