------------------------------- MODULE PubSub -------------------------------
(***************************************************************************)
(* lang.Mult and lang.Pub (pkg/lang/chan_pump.go).  The pub's pump routes  *)
(* each value of its source to the channel of the value's topic, if that   *)
(* topic was ever subscribed to; one mult per topic, with a pump goroutine *)
(* of its own, sends each value to a snapshot of its taps.  Clients        *)
(* subscribe and unsubscribe meanwhile: the topic is found under p.mu and  *)
(* its mult changed under m.mu, in two steps.                              *)
(*                                                                         *)
(* A value is its position in the source.  A channel is the sequence of    *)
(* the values on it: the first ones in its buffer, the others those of     *)
(* parked senders (module Channel has the detail).                         *)
(***************************************************************************)
EXTENDS Naturals, Sequences, FiniteSets

CONSTANTS
  Topics,     \* what topic-fn may answer
  Buf,        \* what buf-fn answers for each
  Source,     \* the topics of the source's values, in order; then it is closed
  Subs,       \* channels that subscribe
  Cap,        \* the capacity of each
  Closable,   \* those their owner may close
  Clients,    \* goroutines that subscribe and unsubscribe
  Calls,      \* the calls each client makes, in order
  None        \* no channel

Values == DOMAIN Source

\* Sub and Unsub have one topic and a channel; UnsubAll clears one topic or all.
Call == {k \in [op : {"sub", "unsub", "unsub-all"}, topics : SUBSET Topics,
                ch : Subs \cup {None}, close : BOOLEAN] :
           k.op # "unsub-all" => k.ch \in Subs /\ Cardinality(k.topics) = 1}

ASSUME PubSubAssumption ==
  /\ IsFiniteSet(Topics) /\ Source \in Seq(Topics)
  /\ Buf \in [Topics -> Nat] /\ Cap \in [Subs -> Nat]
  /\ None \notin Subs /\ Closable \subseteq Subs
  /\ Calls \in [Clients -> Seq(Call)]

VARIABLES
  pump,     \* the pub's pump: "recv", "route" or "exited"
  nrecv,    \* the source's values it has received; the last is the one in hand
  topics,   \* p.topics
  tq,       \* the channel of each topic
  tclosed,  \* the topic channels closed
  mpc,      \* the mults' pumps: "loop", "snapshot" or "exited"
  mval,     \* the value each received last
  snap,     \* the taps of its snapshot still to be sent to
  to,       \* the tap it last sent to
  taps,     \* m.taps: the tapped channels ...
  closeIt,  \* ... and those tapped with close? true
  box,      \* the subscribers' channels
  shut,     \* those closed
  ncalls,   \* the calls each client has begun
  find,     \* the topics whose mults its call has still to change
  got,      \* history: the values each subscriber's channel accepted, in order
  due,      \* history: values received by the pump while it was tapped for them
  off,      \* history: the <<topic, channel>> pairs whose unsub has returned ...
  late      \* ... and the values accepted from that topic since

pubs    == <<pump, nrecv, topics, tq, tclosed>>
mults   == <<mpc, mval, snap, to>>
subs    == <<box, shut, got>>
clients == <<ncalls, find>>
pubSubVars    == <<pubs, mults, taps, closeIt, subs, clients, due, off, late>>

PubSubTypeOK ==
  /\ pump \in {"recv", "route", "exited"} /\ nrecv \in 0..Len(Source)
  /\ topics \subseteq Topics /\ tclosed \subseteq topics
  /\ \A t \in Topics : tq[t] \in Seq(Values) /\ Len(tq[t]) <= Buf[t] + 1
  /\ mpc \in [Topics -> {"loop", "snapshot", "exited"}]
  /\ mval \in [Topics -> Values \cup {0}] /\ snap \in [Topics -> SUBSET Subs]
  /\ to \in [Topics -> Subs \cup {None}]
  /\ taps \in [Topics -> SUBSET Subs] /\ closeIt \in [Topics -> SUBSET Subs]
  /\ \A c \in Subs : box[c] \in Seq(Values) /\ Len(box[c]) <= Cap[c] + Cardinality(Topics)
  /\ shut \subseteq Subs /\ \A p \in Clients : ncalls[p] \in 0..Len(Calls[p])
  /\ find \in [Clients -> SUBSET Topics]
  /\ \A c \in Subs : got[c] \in Seq(Values)
  /\ due \in [Subs -> SUBSET Values]
  /\ off \subseteq Topics \X Subs /\ late \in [Topics \X Subs -> SUBSET Values]

PubSubInit ==
  /\ pump = "recv" /\ nrecv = 0 /\ topics = {}
  /\ tq = [t \in Topics |-> <<>>] /\ tclosed = {}
  /\ mpc = [t \in Topics |-> "loop"] /\ mval = [t \in Topics |-> 0]
  /\ snap = [t \in Topics |-> {}] /\ to = [t \in Topics |-> None]
  /\ taps = [t \in Topics |-> {}] /\ closeIt = [t \in Topics |-> {}]
  /\ box = [c \in Subs |-> <<>>] /\ shut = {}
  /\ ncalls = [p \in Clients |-> 0] /\ find = [p \in Clients |-> {}]
  /\ got = [c \in Subs |-> <<>>] /\ due = [c \in Subs |-> {}]
  /\ off = {} /\ late = [x \in Topics \X Subs |-> {}]

\* A send of v has completed: v is in the buffer, or gone.
Accepted(q, cap, v) == \A i \in DOMAIN q : q[i] = v => i <= cap
MultFree(t) == to[t] # None => Accepted(box[to[t]], Cap[to[t]], mval[t])
-----------------------------------------------------------------------------
(***************************************************************************)
(* The pub's pump.                                                         *)
(***************************************************************************)
\* The send of the value before has completed.
PubFree == \A t \in topics : Accepted(tq[t], Buf[t], nrecv)

PubRecv ==
  /\ pump = "recv" /\ PubFree /\ nrecv < Len(Source)
  /\ nrecv' = nrecv + 1 /\ pump' = "route"
  /\ due' = [c \in Subs |-> IF c \in taps[Source[nrecv']] \ shut THEN due[c] \cup {nrecv'}
                            ELSE due[c]]
  /\ UNCHANGED <<topics, tq, tclosed, mults, taps, closeIt, subs, clients, off, late>>

\* Mutant: the pump exits and leaves the topics open.
Mut_PubClose ==
  /\ pump = "recv" /\ PubFree /\ nrecv = Len(Source)
  /\ pump' = "exited"
  /\ UNCHANGED <<nrecv, topics, tq, tclosed, mults, taps, closeIt, subs, clients, due, off, late>>

\* The source is closed: under p.mu, close every topic's channel.
PubClose ==
  /\ pump = "recv" /\ PubFree /\ nrecv = Len(Source)
  /\ pump' = "exited" /\ tclosed' = topics
  /\ UNCHANGED <<nrecv, topics, tq, mults, taps, closeIt, subs, clients, due, off, late>>

\* findTopic, under p.mu, and the send; a value of a topic without one is dropped.
PubRoute ==
  LET t == Source[nrecv] IN
  /\ pump = "route"
  /\ pump' = "recv"
  /\ \/ t \in topics /\ tq' = [tq EXCEPT ![t] = Append(@, nrecv)]
     \/ t \notin topics /\ UNCHANGED tq
  /\ UNCHANGED <<nrecv, topics, tclosed, mults, taps, closeIt, subs, clients, due, off, late>>

PubStep == PubRecv \/ PubClose \/ PubRoute
-----------------------------------------------------------------------------
(***************************************************************************)
(* The pump of the mult of topic t.                                        *)
(***************************************************************************)
\* The round for one value is over, and the last send of it has completed.
RoundOver(t) == mpc[t] = "loop" /\ snap[t] = {} /\ MultFree(t)

\* Receive a value; the snapshot of the taps is taken afterwards, under m.mu.
MultRecv(t) ==
  /\ t \in topics /\ RoundOver(t) /\ tq[t] # <<>>
  /\ mval' = [mval EXCEPT ![t] = Head(tq[t])]
  /\ tq' = [tq EXCEPT ![t] = Tail(@)]
  /\ mpc' = [mpc EXCEPT ![t] = "snapshot"] /\ to' = [to EXCEPT ![t] = None]
  /\ UNCHANGED <<pump, nrecv, topics, tclosed, snap, taps, closeIt, subs, clients,
                 due, off, late>>

\* Mutant: the snapshot leaves out the taps without close?.
Mut_Snapshot(t) ==
  /\ mpc[t] = "snapshot"
  /\ snap' = [snap EXCEPT ![t] = taps[t] \cap closeIt[t]]
  /\ mpc' = [mpc EXCEPT ![t] = "loop"]
  /\ UNCHANGED <<pubs, mval, to, taps, closeIt, subs, clients, due, off, late>>

Snapshot(t) ==
  /\ mpc[t] = "snapshot"
  /\ snap' = [snap EXCEPT ![t] = taps[t]]
  /\ mpc' = [mpc EXCEPT ![t] = "loop"]
  /\ UNCHANGED <<pubs, mval, to, taps, closeIt, subs, clients, due, off, late>>

\* The topic's channel is closed and drained: close the taps that asked for it.
MultClose(t) ==
  /\ RoundOver(t) /\ t \in tclosed /\ tq[t] = <<>>
  /\ mpc' = [mpc EXCEPT ![t] = "exited"]
  /\ shut' = shut \cup (taps[t] \cap closeIt[t])
  /\ due' = [c \in Subs |-> IF c \in shut' THEN {} ELSE due[c]]
  /\ UNCHANGED <<pubs, mval, snap, to, taps, closeIt, box, got, clients, off, late>>

\* ChanSend to one of the taps left, which a Go map yields in any order;
\* the pump goes on when there was room, or a taker has come.
Deliver(t, c) ==
  /\ mpc[t] = "loop" /\ MultFree(t) /\ c \in snap[t] \ shut
  /\ box' = [box EXCEPT ![c] = Append(@, mval[t])]
  /\ got' = [got EXCEPT ![c] = Append(@, mval[t])]
  /\ snap' = [snap EXCEPT ![t] = @ \ {c}]
  /\ to' = [to EXCEPT ![t] = c]
  /\ late' = IF <<t, c>> \in off THEN [late EXCEPT ![<<t, c>>] = @ \cup {mval[t]}] ELSE late
  /\ UNCHANGED <<pubs, mpc, mval, taps, closeIt, shut, clients, due, off>>

\* A closed tap refuses the value and is untapped.
DropTap(t, c) ==
  /\ mpc[t] = "loop" /\ MultFree(t) /\ c \in snap[t] \cap shut
  /\ snap' = [snap EXCEPT ![t] = @ \ {c}]
  /\ taps' = [taps EXCEPT ![t] = @ \ {c}]
  /\ UNCHANGED <<pubs, mpc, mval, to, closeIt, subs, clients, due, off, late>>

MultStep(t) ==
  \/ MultRecv(t) \/ Snapshot(t) \/ MultClose(t)
  \/ \E c \in Subs : Deliver(t, c) \/ DropTap(t, c)
-----------------------------------------------------------------------------
(***************************************************************************)
(* The clients: Sub, Unsub, UnsubAll.                                      *)
(***************************************************************************)
Current(p) == Calls[p][ncalls[p]]

\* Under p.mu: find the topics of the call; Sub makes the one it misses.
Find(p) ==
  LET k == Calls[p][ncalls[p] + 1] IN
  /\ find[p] = {} /\ ncalls[p] < Len(Calls[p])
  /\ ncalls' = [ncalls EXCEPT ![p] = @ + 1]
  /\ topics' = IF k.op = "sub" THEN topics \cup k.topics ELSE topics
  /\ find' = [find EXCEPT ![p] = k.topics \cap topics']
  /\ UNCHANGED <<pump, nrecv, tq, tclosed, mults, taps, closeIt, subs, due, off, late>>

\* Under m.mu of the mult found: Tap ...
Tap(p, t) ==
  LET c == Current(p).ch IN
  /\ t \in find[p] /\ Current(p).op = "sub"
  /\ find' = [find EXCEPT ![p] = @ \ {t}]
  /\ taps' = [taps EXCEPT ![t] = @ \cup {c}]
  /\ closeIt' = [closeIt EXCEPT ![t] = IF Current(p).close THEN @ \cup {c} ELSE @ \ {c}]
  /\ off' = off \ {<<t, c>>} /\ late' = [late EXCEPT ![<<t, c>>] = {}]
  /\ UNCHANGED <<pubs, mults, subs, ncalls, due>>

\* Mutant: the taps stay as they are.
Mut_Untap(p, t) ==
  LET cs == IF Current(p).op = "unsub" THEN {Current(p).ch} ELSE Subs IN
  /\ t \in find[p] /\ Current(p).op # "sub"
  /\ find' = [find EXCEPT ![p] = @ \ {t}]
  /\ off' = off \cup ({t} \X cs)
  /\ UNCHANGED <<pubs, mults, taps, closeIt, subs, ncalls, due, late>>

\* ... or Untap of the call's channel, or UntapAll.
Untap(p, t) ==
  LET cs == IF Current(p).op = "unsub" THEN {Current(p).ch} ELSE Subs IN
  /\ t \in find[p] /\ Current(p).op # "sub"
  /\ find' = [find EXCEPT ![p] = @ \ {t}]
  /\ taps' = [taps EXCEPT ![t] = @ \ cs]
  /\ off' = off \cup ({t} \X cs)
  /\ due' = [c \in Subs |-> IF c \in cs THEN {v \in due[c] : Source[v] # t} ELSE due[c]]
  /\ UNCHANGED <<pubs, mults, closeIt, subs, ncalls, late>>

ClientStep(p) == \E t \in Topics : Tap(p, t) \/ Untap(p, t)

\* The owner of a subscribed channel takes from it, or closes it.
Take(c) ==
  /\ box[c] # <<>>
  /\ box' = [box EXCEPT ![c] = Tail(@)]
  /\ UNCHANGED <<pubs, mults, taps, closeIt, shut, got, clients, due, off, late>>

CloseSub(c) ==
  /\ c \in Closable \ shut
  /\ shut' = shut \cup {c} /\ due' = [due EXCEPT ![c] = {}]
  /\ UNCHANGED <<pubs, mults, taps, closeIt, box, got, clients, off, late>>

PubSubNext ==
  \/ PubStep
  \/ \E t \in Topics : MultStep(t)
  \/ \E p \in Clients : Find(p) \/ ClientStep(p)
  \/ \E c \in Subs : Take(c) \/ CloseSub(c)

PubSubSpec == PubSubInit /\ [][PubSubNext]_pubSubVars

\* Go schedules the pumps and the clients inside a call; subscribers need not take.
PubSubFairSpec ==
  /\ PubSubSpec
  /\ WF_pubSubVars(PubStep)
  /\ \A t \in Topics : WF_pubSubVars(MultStep(t))
  /\ \A p \in Clients : WF_pubSubVars(ClientStep(p))
-----------------------------------------------------------------------------
(***************************************************************************)
(* Properties.                                                             *)
(***************************************************************************)

\* A value the pump received while a channel was subscribed is not lost: until
\* the channel is unsubscribed or closed it has got the value or the value is on
\* its way, on the topic's channel or in the mult's hands (chan_pump.go:415-416,
\* "every tapped channel receives every value").
NothingSkipped ==
  \A c \in Subs : \A v \in due[c] :
    LET t == Source[v] IN
    \/ \E i \in DOMAIN got[c] : got[c][i] = v
    \/ pump = "route" /\ nrecv = v /\ t \in topics
    \/ \E i \in DOMAIN tq[t] : tq[t][i] = v
    \/ mval[t] = v /\ (mpc[t] = "snapshot" \/ c \in snap[t])

\* Once unsub or unsub-all has returned, the channel gets at most one more value
\* of the topic: the one whose snapshot was taken before (chan_pump.go:446-456).
AtMostOneLate == \A x \in Topics \X Subs : Cardinality(late[x]) <= 1

\* A channel whose sub with close? returned before the pump saw the source closed
\* is closed, or was unsubscribed, if every subscriber keeps taking: a slow tap
\* holds up its mult (chan_pump.go:491-492, "When the source closes, every topic
\* channel is closed, propagating through the mults to the subscribers").  A sub
\* that finds its topic before and taps after may never see its channel closed.
ClosePropagates ==
  (\A c \in Subs : []<>(box[c] = <<>>))
    => \A t \in Topics, c \in Subs :
         (nrecv = Len(Source) /\ pump # "exited" /\ c \in taps[t] \cap closeIt[t])
           ~> (c \in shut \/ c \notin taps[t] \cap closeIt[t])
=============================================================================
