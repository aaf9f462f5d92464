SPECIFICATION FairSpec
CONSTANTS
  p1 = p1
  p2 = p2
  w1 = w1
  NoProc = NoProc
  Procs = {p1, p2, w1}
  Workers = {w1}
  Ops = {"send", "recv", "close", "offer", "poll", "put", "take"}
  Shapes <- MCShapes
  XOutcomes <- MCThrowing
  FlushOutcomes <- MCFlushThrowing
  MaxOps = 2
  MaxPart = 3
INVARIANT NoDuplicates
INVARIANT PromiseLatch
INVARIANT XformSerialized
INVARIANT NoDoubleClose
INVARIANT PerProducerOrder
INVARIANT SlidingKeepsNewest
INVARIANT OfferParksLate
PROPERTY NothingVanishes
PROPERTY NilOnlyWhenDrained
PROPERTY GuardedNilForever
PROPERTY CloseWakesTakers
CHECK_DEADLOCK FALSE
