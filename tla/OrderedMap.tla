----------------------------- MODULE OrderedMap -----------------------------
(***************************************************************************)
(* What pipeline promises, whatever its parallelism: one after the other,  *)
(* the results of each input go out in order, until there are no more      *)
(* inputs or the output is cut; only then is it done.                      *)
(***************************************************************************)
EXTENDS Naturals, Sequences

CONSTANTS K, Count   \* the inputs, and the number of results of each

VARIABLES
  at,    \* the input whose results go out
  n,     \* how many have
  out,   \* all that went out: <<input, result>>
  cut,   \* the output was closed by its reader
  done

Init == at = 1 /\ n = 0 /\ out = <<>> /\ cut = FALSE /\ done = FALSE

Emit ==
  /\ at <= K /\ n < Count[at] /\ ~cut
  /\ n' = n + 1 /\ out' = Append(out, <<at, n + 1>>)
  /\ UNCHANGED <<at, cut, done>>

NextInput ==
  /\ at <= K /\ (n = Count[at] \/ cut)
  /\ at' = at + 1 /\ n' = 0
  /\ UNCHANGED <<out, cut, done>>

Cut    == cut' = TRUE /\ UNCHANGED <<at, n, out, done>>
Finish == at = K + 1 /\ done' = TRUE /\ UNCHANGED <<at, n, out, cut>>

Spec == Init /\ [][Emit \/ NextInput \/ Cut \/ Finish]_<<at, n, out, cut, done>>
=============================================================================
