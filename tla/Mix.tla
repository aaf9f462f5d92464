--------------------------------- MODULE Mix ---------------------------------
(***************************************************************************)
(* lang.Mix (pkg/lang/chan_pump.go): a pump goroutine reads the admixed    *)
(* inputs with alts! and forwards what it reads to Out, while goroutines   *)
(* mute, pause, solo, add and remove inputs.  A change is made under m.mu  *)
(* and then signalled on Change, a channel of one slot that the pump lists *)
(* first among its ports.  Producers and consumers are callers of Alts.    *)
(***************************************************************************)
EXTENDS Alts

CONSTANTS
  Pump,       \* the goroutine NewMix starts
  Controls,   \* goroutines that change the mix
  Inputs,     \* channels that may be admixed
  Out,        \* m.out
  Change,     \* m.change
  StateMaps   \* the maps toggle is given: for some inputs, flags to set and to clear

Flags == {"mute", "pause", "solo"}

ASSUME MixAssumption ==
  /\ Pump \in Procs /\ Controls \subseteq Procs \ {Pump}
  /\ \A p \in Controls \cup {Pump} : Menu[p] = {}
  /\ Inputs \subseteq Chans /\ IsFiniteSet(Inputs) /\ Out \in Chans \ Inputs /\ Change \in Chans \ Inputs
  /\ Out # Change /\ Cap[Change] = 1 /\ Kind[Change] = "plain" /\ Kind[Out] = "plain"
  /\ Change \notin Closable
  \* Nobody else has m.change, and the inputs are read by the mix only.
  /\ \A p \in Procs : \A m \in Menu[p] : \A i \in DOMAIN m.ports :
       m.ports[i].c # Change /\ (m.ports[i].c \in Inputs => m.ports[i].write)
  /\ \A sm \in StateMaps :
       DOMAIN sm \subseteq Inputs /\ \A c \in DOMAIN sm : sm[c] \in [on : SUBSET Flags, off : SUBSET Flags]

VARIABLES
  inputs,    \* m.inputs: the channels in the mix ...
  flags,     \* ... and the flags of each
  soloMode,  \* m.soloMode
  mpc,       \* where the pump is in its loop
  forward,   \* the inputs its snapshot reads, and whether it forwards each
  ctl,       \* the controls that have changed the mix and not yet signalled
  opened     \* history: the inputs a current state has allowed to be read

mix  == <<inputs, flags, soloMode, mpc, forward, ctl, opened>>
vars == <<alts, mix>>

AnySolo == \E c \in inputs : "solo" \in flags[c]

\* Whether the state has the pump read an input, and forward what it reads.
Reads(c) ==
  /\ c \in inputs
  /\ IF AnySolo THEN "solo" \in flags[c] \/ soloMode = "mute"
     ELSE "pause" \notin flags[c]
Forwards(c) ==
  Reads(c) /\ IF AnySolo THEN "solo" \in flags[c] ELSE "mute" \notin flags[c]

\* The pump's view: what it would do with each input it would read.
View == [c \in {x \in Inputs : Reads(x)} |-> Forwards(c)]

TypeOK ==
  /\ AltsTypeOK
  /\ inputs \subseteq Inputs /\ flags \in [Inputs -> SUBSET Flags]
  /\ soloMode \in {"mute", "pause"}
  /\ mpc \in {"snapshot", "alts", "send", "stopped"}
  /\ DOMAIN forward \subseteq Inputs /\ \A c \in DOMAIN forward : forward[c] \in BOOLEAN
  /\ ctl \subseteq Controls /\ opened \subseteq Inputs

Init ==
  /\ AltsInit
  /\ inputs = {} /\ flags = [c \in Inputs |-> {}]
  /\ soloMode = "mute" /\ mpc = "snapshot"
  /\ forward = [c \in {} |-> FALSE] /\ ctl = {} /\ opened = {}
------------------------------------------------------------------------------
ReadPort(c) == [c |-> c, write |-> FALSE, v |-> <<>>]

\* Under m.mu: snapshot the states, then alts! on Change and the inputs to read,
\* which a Go map yields in any order.
Snapshot ==
  /\ mpc = "snapshot"
  /\ forward' = View
  /\ mpc' = "alts"
  /\ \E order \in [1..Cardinality(DOMAIN View) -> DOMAIN View] :
       /\ \A i, j \in DOMAIN order : order[i] = order[j] => i = j
       /\ Begin(Pump, <<ReadPort(Change)>> \o [i \in DOMAIN order |-> ReadPort(order[i])], FALSE)
  /\ UNCHANGED <<ncalls, inputs, flags, soloMode, ctl, opened>>

\* The channel and the value that alts! gave the pump.
Port == ports[Pump][res[Pump].port].c
Back == pc[Pump] = "idle"

\* A change, or a value of a muted input: once more round the loop.
Consume ==
  /\ mpc = "alts" /\ Back
  /\ Port # Change => res[Pump].ans = "value" /\ ~forward[Port]
  /\ mpc' = "snapshot"
  /\ UNCHANGED <<alts, inputs, flags, soloMode, forward, ctl, opened>>

\* The input is closed and drained: drop it from the mix.
Drop ==
  /\ mpc = "alts" /\ Back
  /\ Port # Change /\ res[Pump].ans = "nil"
  /\ inputs' = inputs \ {Port}
  /\ flags' = [flags EXCEPT ![Port] = {}]
  /\ mpc' = "snapshot"
  /\ opened' = opened \cup {c \in Inputs : Reads(c)'}
  /\ UNCHANGED <<alts, soloMode, forward, ctl>>

\* ChanSend of what was read to Out.
Forward ==
  /\ mpc = "alts" /\ Back
  /\ Port # Change /\ res[Pump].ans = "value" /\ forward[Port]
  /\ mpc' = "send"
  /\ Begin(Pump, <<[c |-> Out, write |-> TRUE, v |-> Head(res[Pump].v)]>>, FALSE)
  /\ UNCHANGED <<ncalls, inputs, flags, soloMode, forward, ctl, opened>>

\* The send has returned: false ends the pump.
Sent ==
  /\ mpc = "send" /\ Back
  /\ mpc' = IF res[Pump].ans = "true" THEN "snapshot" ELSE "stopped"
  /\ UNCHANGED <<alts, inputs, flags, soloMode, forward, ctl, opened>>

PumpStep ==
  \/ Snapshot \/ Consume \/ Drop \/ Forward \/ Sent
  \/ AltsStep(Pump) /\ UNCHANGED mix
------------------------------------------------------------------------------
(***************************************************************************)
(* The controls: change under m.mu, then signal.                           *)
(***************************************************************************)
Edit(p, ins, fl, mode) ==
  /\ p \notin ctl /\ ncalls[p] < MaxCalls[p]
  /\ ncalls' = [ncalls EXCEPT ![p] = @ + 1]
  /\ inputs' = ins /\ flags' = fl /\ soloMode' = mode
  /\ ctl' = ctl \cup {p}
  /\ opened' = opened \cup {c \in Inputs : Reads(c)'}
  /\ ports' = [ports EXCEPT ![p] =
                 <<[c |-> Change, write |-> TRUE, v |-> [by |-> p, n |-> ncalls[p] + 1, port |-> 1, part |-> 0]]>>]
  /\ UNCHANGED <<buf, closed, stepping, pc, dflt, at, res, got, shut, mpc, forward>>

Admix(p, c)    == Edit(p, inputs \cup {c}, flags, soloMode)
Unmix(p, c)    == Edit(p, inputs \ {c}, [flags EXCEPT ![c] = {}], soloMode)
UnmixAll(p)    == Edit(p, {}, [c \in Inputs |-> {}], soloMode)
SoloMode(p, m) == Edit(p, inputs, flags, m)

\* Toggle: the channels of the map are added and get its flags, in one critical
\* section.
Toggle(p, sm) ==
  Edit(p, inputs \cup DOMAIN sm,
       [c \in Inputs |-> IF c \in DOMAIN sm THEN (flags[c] \ sm[c].off) \cup sm[c].on
                         ELSE flags[c]], soloMode)

\* Mutant: the signal is given only to a pump that waits for it.
Mut_Signal(p) ==
  /\ p \in ctl
  /\ ctl' = ctl \ {p}
  /\ \/ Readers(Change) # {} /\ PutOn(p, 1, Change)
     \/ Readers(Change) = {} /\ UNCHANGED alts
  /\ UNCHANGED <<inputs, flags, soloMode, mpc, forward, opened>>

\* signal: offer! on Change.  It wakes the pump, or is pending in the one slot, or
\* another pending signal makes it superfluous.
Signal(p) ==
  /\ p \in ctl
  /\ ctl' = ctl \ {p}
  /\ \/ PutOn(p, 1, Change)
     \/ ~CanPut(Change) /\ UNCHANGED alts
  /\ UNCHANGED <<inputs, flags, soloMode, mpc, forward, opened>>

Control(p) ==
  \/ \E c \in Inputs : Admix(p, c) \/ Unmix(p, c)
  \/ UnmixAll(p)
  \/ \E m \in {"mute", "pause"} : SoloMode(p, m)
  \/ \E sm \in StateMaps : Toggle(p, sm)

Callers == Procs \ (Controls \cup {Pump})

Next ==
  \/ PumpStep
  \/ \E p \in Controls : Control(p) \/ Signal(p)
  \/ \E p \in Callers : (Call(p) \/ AltsStep(p)) /\ UNCHANGED mix
  \/ \E c \in Chans : (Close(c) \/ CloseDone(c)) /\ UNCHANGED mix

Spec == Init /\ [][Next]_vars
------------------------------------------------------------------------------
(***************************************************************************)
(* Properties, besides those of Alts.                                      *)
(***************************************************************************)

\* No change is lost: the pump never sleeps on a snapshot that a change has made
\* stale, unless the one who made it has still to signal (chan_pump.go:624-626,
\* "coalesced signals never block a caller and never get lost").
NoLostSignal ==
  (mpc = "alts" /\ pc[Pump] = "parked" /\ forward # View) => ctl # {}

\* An input that was never in a state to be read is not read, whatever the pump
\* was doing when it was added (chan_pump.go:593-597, "a channel added via toggle
\* in a target state is never read in any other state").
NeverReadUnopened == \A g \in got : g[2] \in Inputs => g[2] \in opened
==============================================================================
