------------------------------- MODULE MCAgent -------------------------------
(* Two clients of one agent: one awaits what both send, the other also fails   *)
(* over and reconfigures the agent.                                            *)
EXTENDS Agent

CONSTANTS c1, c2

MCCalls ==
  [p \in Clients |->
     IF p = c1 THEN <<{"send"}, {"send", "await", "awaitfor"}>>
     ELSE <<{"send", "mode", "handler"}, {"send", "restart", "clear"}>>]
==============================================================================
