-------------------------------- MODULE MCMix --------------------------------
(* A mix of an unbuffered and a buffered input, with a producer, a consumer    *)
(* and one goroutine that changes it.                                          *)
EXTENDS Mix

CONSTANTS pump, ctl1, prod, cons, in1, in2, out, change

MCProcs == {pump, ctl1, prod, cons}
MCChans == {in1, in2, out, change}
MCCap   == [c \in MCChans |-> IF c \in {in2, change} THEN 1 ELSE 0]
MCKind  == [c \in MCChans |-> "plain"]

MCMaxCalls == [p \in MCProcs |-> IF p = cons THEN 1 ELSE 2]

Rd(c) == [c |-> c, write |-> FALSE]
Wr(c) == [c |-> c, write |-> TRUE]
MCMenu == [p \in MCProcs |->
  IF p = prod THEN {[ports |-> <<Wr(in1)>>, dflt |-> FALSE],
                    [ports |-> <<Wr(in2)>>, dflt |-> FALSE]}
  ELSE IF p = cons THEN {[ports |-> <<Rd(out)>>, dflt |-> FALSE]}
  ELSE {}]

Flag(c, on, off) == [x \in {c} |-> [on |-> on, off |-> off]]
MCStateMaps == {Flag(in1, {"pause"}, {}), Flag(in1, {}, {"pause"}), Flag(in2, {"mute"}, {}),
                [c \in {in1, in2} |-> IF c = in1 THEN [on |-> {"solo"}, off |-> {}]
                                      ELSE [on |-> {"pause"}, off |-> {}]]}
==============================================================================
