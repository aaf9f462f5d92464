SPECIFICATION AltsFairSpec
CONSTANTS
  reader = reader
  writer = writer
  both = both
  plain = plain
  xform = xform
  promise = promise
  Procs <- MCProcs
  Chans <- MCChans
  Cap <- MCCap
  Kind <- MCKind
  Menu <- MCMenu
  Closable = {plain, xform}
  XAdds = {0, 2}
  Throws = {xform}
  NoProc = NoProc
  Closer = Closer
  MaxCalls <- MCMaxCalls
INVARIANT OnePortOnly
INVARIANT ClosedTakesNothing
PROPERTY ClosedPortReturns
CHECK_DEADLOCK FALSE
