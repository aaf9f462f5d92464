------------------------------ MODULE WriteOnce ------------------------------
(***************************************************************************)
(* What a future or a promise promises: a cell that takes one outcome,     *)
(* once, whoever gets there first, and shows every reader that outcome.    *)
(***************************************************************************)
CONSTANTS Outcomes, NoOutcome

VARIABLES
  cell,   \* the outcome, or NoOutcome while pending
  seen    \* the outcomes readers have been given

Init == cell = NoOutcome /\ seen = {}

Settle == cell = NoOutcome /\ cell' \in Outcomes /\ UNCHANGED seen
Read   == cell # NoOutcome /\ seen' = seen \cup {cell} /\ UNCHANGED cell

Spec == Init /\ [][Settle \/ Read]_<<cell, seen>>
==============================================================================
