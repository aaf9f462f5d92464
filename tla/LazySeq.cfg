SPECIFICATION FairSpec
CONSTANTS
  Procs = {p1, p2}
  NoProc = noProc
  N = 3
  Roots = {1, 2, 3}
  BodyPanics = TRUE
  MaxCalls = 3
INVARIANT BodyOnce
INVARIANT OneHeadAgrees
PROPERTY SeqReturns
CHECK_DEADLOCK FALSE
