SPECIFICATION PubSubFairSpec
CONSTANTS
  a = a
  b = b
  s1 = s1
  s2 = s2
  c1 = c1
  c2 = c2
  None = None
  Topics = {a, b}
  Subs = {s1, s2}
  Clients = {c1, c2}
  Buf <- MCBuf
  Cap <- MCCap
  Source <- MCSource
  Calls <- MCCalls
  Closable = {s1}
INVARIANT NothingSkipped
INVARIANT AtMostOneLate
PROPERTY ClosePropagates
CHECK_DEADLOCK FALSE
