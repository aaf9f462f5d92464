-------------------------------- MODULE MCAlts --------------------------------
(* Three goroutines over an unbuffered channel, one with a transducer and a      *)
(* promise-chan: a reader, a writer and one that does either, also twice on one   *)
(* channel.                                                                      *)
EXTENDS Alts

CONSTANTS reader, writer, both, plain, xform, promise

MCProcs == {reader, writer, both}
MCChans == {plain, xform, promise}
MCCap   == [c \in MCChans |-> IF c = xform THEN 1 ELSE 0]
MCKind  == [c \in MCChans |-> IF c = xform THEN "xform"
                             ELSE IF c = promise THEN "promise" ELSE "plain"]

MCMaxCalls == [p \in MCProcs |-> IF p = writer THEN 2 ELSE 1]

Rd(c) == [c |-> c, write |-> FALSE]
Wr(c) == [c |-> c, write |-> TRUE]
MCMenu == [p \in MCProcs |->
  IF p = reader THEN {[ports |-> <<Rd(plain), Rd(promise)>>, dflt |-> FALSE],
                      [ports |-> <<Rd(xform), Rd(plain)>>, dflt |-> TRUE]}
  ELSE IF p = writer THEN {[ports |-> <<Wr(plain), Wr(xform)>>, dflt |-> FALSE],
                           [ports |-> <<Wr(xform)>>, dflt |-> FALSE]}
  ELSE {[ports |-> <<Rd(plain), Wr(promise)>>, dflt |-> FALSE],
        [ports |-> <<Wr(xform), Rd(plain)>>, dflt |-> FALSE],
        [ports |-> <<Wr(plain), Rd(xform), Rd(plain), Wr(plain)>>, dflt |-> FALSE]}]
===============================================================================
