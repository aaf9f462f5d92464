SPECIFICATION Spec
CONSTANTS
  pump = pump
  ctl1 = ctl1
  prod = prod
  cons = cons
  in1 = in1
  in2 = in2
  out = out
  change = change
  Procs <- MCProcs
  Chans <- MCChans
  Cap <- MCCap
  Kind <- MCKind
  Menu <- MCMenu
  Closable = {in1, out}
  XAdds = {0, 1}
  Throws = {}
  NoProc = NoProc
  Closer = Closer
  MaxCalls <- MCMaxCalls
  Pump = pump
  Controls = {ctl1}
  Inputs = {in1, in2}
  Out = out
  Change = change
  StateMaps <- MCStateMaps
INVARIANT NoLostSignal
CHECK_DEADLOCK FALSE
