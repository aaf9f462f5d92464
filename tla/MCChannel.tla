------------------------------ MODULE MCChannel ------------------------------
(* Instances of Channel for TLC. *)
EXTENDS Channel

CONSTANTS p1, p2, w1

Shape(cap, policy, xform, promise) ==
  [cap |-> cap, policy |-> policy, xform |-> xform, promise |-> promise, exh |-> xform]

\* Channels whose puts take no lock: (chan), (chan 1) and (promise-chan); and those
\* whose puts run under c.mu: with a transducer over each kind of buffer, and a
\* bare sliding buffer of two.
MCShapes == {Shape(0, "fixed", FALSE, FALSE), Shape(1, "fixed", FALSE, FALSE),
             Shape(0, "fixed", FALSE, TRUE),
             Shape(1, "fixed", TRUE, FALSE), Shape(1, "dropping", TRUE, FALSE),
             Shape(1, "sliding", TRUE, FALSE), Shape(2, "sliding", FALSE, FALSE)}

\* A transducer that filters, expands (mapcat), ends early or throws, or whose
\* ex-handler throws too; its completion may add an element, or throw.
MCThrowing == {[n |-> 0, end |-> "ok"], [n |-> 2, end |-> "ok"],
               [n |-> 1, end |-> "reduced"], [n |-> 0, end |-> "panic"],
               [n |-> 0, end |-> "throw"]}
MCFlushThrowing == {[n |-> 0, end |-> "ok"], [n |-> 1, end |-> "ok"], [n |-> 0, end |-> "throw"]}
==============================================================================
