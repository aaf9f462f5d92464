-------------------------------- MODULE MCNrepl --------------------------------
(* Two connections share a session and close it; requests meet a queue of one slot. *)
EXTENDS Nrepl

CONSTANTS a, b

Do(op, s) == [op |-> op, session |-> s]
MCScript == [c \in {a, b} |->
  IF c = a THEN <<Do("clone", 0), Do("eval", 1), Do("eval", 1), Do("close", 1)>>
  ELSE <<Do("eval", 1), Do("interrupt", 1), Do("close", 1), Do("eval", 1)>>]
================================================================================
