------------------------------- MODULE MCPubSub -------------------------------
(* Two topics with two subscribers: one client subscribes and clears a topic, the *)
(* other has one channel in both and takes it out of one.                         *)
EXTENDS PubSub

CONSTANTS a, b, s1, s2, c1, c2

MCBuf    == [t \in {a, b} |-> IF t = a THEN 0 ELSE 1]
MCCap    == [c \in {s1, s2} |-> 0]
MCSource == <<a, b, a>>

Do(op, ts, c, cl) == [op |-> op, topics |-> ts, ch |-> c, close |-> cl]
MCCalls == [p \in {c1, c2} |->
  IF p = c1 THEN <<Do("sub", {a}, s1, TRUE), Do("unsub-all", {a}, None, FALSE)>>
  ELSE <<Do("sub", {a}, s2, FALSE), Do("sub", {b}, s2, TRUE), Do("unsub", {b}, s2, FALSE)>>]
===============================================================================
