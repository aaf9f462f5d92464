---------------------------- MODULE AgentProofs ----------------------------
(***************************************************************************)
(* Agent actions are serialized and run in the order of their sending, and *)
(* await covers what was sent before it, for any number of clients, any    *)
(* queue capacity and any mix of sends, awaits, failures and restarts.     *)
(***************************************************************************)
EXTENDS Agent, TLAPS

\* A client's call other than a restart leaves the cell and the drainer alone.
LEMMA ClientKeeps ==
  ASSUME NEW p \in Clients,
         \/ Send(p) \/ Await(p) \/ AwaitForOne(p) \/ ClearDeref(p)
         \/ Enqueue(p) \/ AwaitWake(p) \/ AwaitCheck(p) \/ Deadline(p)
  PROVE  UNCHANGED <<state, err, dpc, old>>
BY DEF Send, Await, AwaitForOne, Submit, ClearDeref, Enqueue, AwaitWake, AwaitCheck,
       Deadline, cell, drain

\* A restart changes the state only of a failed agent, and never the drainer.
LEMMA RestartKeeps ==
  ASSUME NEW p \in Clients, Restart(p) \/ ClearRestart(p)
  PROVE  UNCHANGED <<dpc, old>> /\ (err \/ UNCHANGED <<state, err>>)
BY DEF Restart, ClearRestart, RestartWith, drain

\* One step keeps the value the running action was given equal to the state.
LEMMA SerialNext == NoLostUpdate /\ [Next]_vars => NoLostUpdate'
<1> SUFFICES ASSUME NoLostUpdate, [Next]_vars PROVE NoLostUpdate'
  OBVIOUS
<1> USE DEF NoLostUpdate
<1>1. CASE Take
  BY <1>1 DEF Take, Busy, cell
<1>2. CASE RunAction
  BY <1>2 DEF RunAction, cell
<1>3. CASE BodyEnd
  BY <1>3 DEF BodyEnd, cell
<1>4. CASE NestedSend
  BY <1>4 DEF NestedSend, cell
<1>5. CASE Install
  BY <1>5 DEF Install
<1>6. CASE NotifyWatches
  BY <1>6 DEF NotifyWatches, cell
<1>7. CASE RecordError
  BY <1>7 DEF RecordError, cell
<1>8. CASE RecordErrorEnd
  BY <1>8 DEF RecordErrorEnd
<1>9. ASSUME NEW p \in Clients, Invoke(p) \/ Inside(p) \/ Deadline(p) PROVE NoLostUpdate'
  <2>1. CASE Restart(p) \/ ClearRestart(p)
    BY <2>1, RestartKeeps
  <2>2. CASE SetErrorMode(p) \/ SetErrorHandler(p)
    BY <2>2 DEF SetErrorMode, SetErrorHandler, drain
  <2>3. CASE ~(Restart(p) \/ ClearRestart(p) \/ SetErrorMode(p) \/ SetErrorHandler(p))
    BY <1>9, <2>3, ClientKeeps DEF Invoke, Inside
  <2> QED
    BY <2>1, <2>2, <2>3
<1>10. CASE UNCHANGED vars
  BY <1>10 DEF vars
<1> QED
  BY <1>1, <1>2, <1>3, <1>4, <1>5, <1>6, <1>7, <1>8, <1>9, <1>10
     DEF Next, DrainStep, CallsReturn

\* No agent action's update is lost and none runs on a failed agent: from the
\* moment runAction reads the state to the moment it installs the result nobody
\* else writes it (agent.go:221-259, 363-372).
THEOREM Serialized == Spec => []NoLostUpdate
<1>1. Init => NoLostUpdate
  BY DEF Init, NoLostUpdate
<1> QED
  BY <1>1, SerialNext, PTL DEF Spec
-----------------------------------------------------------------------------
(***************************************************************************)
(* The order of the queue.                                                 *)
(***************************************************************************)

\* e was sent before f: entries of one client, of one kind of nesting, are numbered in
\* the order of their sending.
Precedes(e, f) == e.by = f.by /\ e.nested = f.nested => e.n < f.n

\* e has got as far as the queue: it is there, runs, has run or fired, or was pending
\* when an await began.
Seen(e) ==
  \/ \E i \in DOMAIN queue : e = queue[i]
  \/ \E i \in DOMAIN ran : e = ran[i]
  \/ Busy /\ e = cur
  \/ \E p \in Clients : e \in before[p]
  \/ e \in fired

\* The client has an entry ready that is not in the queue yet.
Sending(p) == pc[p] \in {"enqueue", "park"}

\* What a client sends, or waits for, is its own.
ItemInv ==
  \A p \in Clients :
    /\ pc[p] # "idle" /\ pc[p] # "clear" => item[p].by = p /\ ~item[p].nested
    /\ Sending(p) =>
         /\ item[p].n = ncalls[p] /\ item[p].kind \in {"act", "latch"}
         /\ op[p] # "send" => item[p].kind = "latch"
    /\ pc[p] \in {"latch", "check"} => item[p].kind = "latch"

\* The queue holds actions and latches; no latch runs, and none is waited for.
KindInv ==
  /\ \A i \in DOMAIN queue : queue[i].kind \in {"act", "latch"}
  /\ Busy => cur.kind = "act"
  /\ \A p \in Clients : \A e \in before[p] : e.kind # "latch"

\* Each parked goroutine is parked once; the drainer never gets out.
ParkInv ==
  /\ \A i \in DOMAIN sendq :
       IF sendq[i] \in Clients THEN pc[sendq[i]] = "park" ELSE dpc = "park"
  /\ \A i, j \in DOMAIN sendq : sendq[i] = sendq[j] => i = j

\* The run of an action has not sent to the agent yet.
MayNest ==
  \/ dpc = "start"
  \/ /\ dpc \in {"body", "install", "watch", "error", "handler", "fail"}
     /\ item[Drainer] # [cur EXCEPT !.nested = TRUE]

\* e is older than what its client has ready to send, and an entry sent by an action
\* older than the actions that may still send one.
Older(e) ==
  /\ e.by \in Clients /\ e.n <= ncalls[e.by]
  /\ Sending(e.by) => e.n < ncalls[e.by]
  /\ e.nested =>
       /\ \A j \in DOMAIN queue : (~queue[j].nested /\ queue[j].by = e.by) => e.n < queue[j].n
       /\ (MayNest /\ ~cur.nested /\ cur.by = e.by) => e.n < cur.n

\* An entry that is ready to be queued, nested ones included, is new.
FreshInv == \A e \in Entry : Seen(e) => Older(e)

\* What has run, what runs and what is queued are in the order of sending.
OrderInv ==
  /\ \A i, j \in DOMAIN ran : i < j => Precedes(ran[i], ran[j])
  /\ \A i \in DOMAIN ran, j \in DOMAIN queue : Precedes(ran[i], queue[j])
  /\ \A i, j \in DOMAIN queue : i < j => Precedes(queue[i], queue[j])
  /\ Busy => \A j \in DOMAIN queue : Precedes(cur, queue[j])
  /\ dpc = "start" => \A i \in DOMAIN ran : Precedes(ran[i], cur)

\* What an await waits for is in front of its latch, and gone once that has fired.
CoverInv ==
  \A p \in Clients :
    /\ pc[p] = "check" \/ (pc[p] = "latch" /\ item[p] \in fired) => before[p] \cap Pending = {}
    /\ pc[p] = "latch" =>
         \A j, k \in DOMAIN queue : queue[k] = item[p] /\ queue[j] \in before[p] => j < k

Inv == ItemInv /\ KindInv /\ ParkInv /\ FreshInv /\ OrderInv /\ CoverInv
-----------------------------------------------------------------------------
(***************************************************************************)
(* Type correctness.                                                       *)
(***************************************************************************)

\* The parts of the type invariant: the cell, the queue, the drainer, the clients.
TypeCell == state \in Seq(Entry) /\ err \in BOOLEAN /\ mode \in Modes /\ handler \in BOOLEAN
TypeQueue == queue \in Seq(Entry) /\ Len(queue) <= QCap
TypePark == sendq \in Seq(Senders)
TypeItem == item \in [Senders -> Entry]
TypeFired == fired \subseteq Entry
TypeDrain ==
  /\ dpc \in {"idle", "start", "body", "park", "install", "watch", "error", "handler", "fail"}
  /\ cur \in Entry /\ old \in Seq(Entry) /\ emode \in Modes
TypePc ==
  /\ pc \in [Clients -> {"idle", "enqueue", "park", "latch", "check", "clear"}]
  /\ op \in [Clients -> {"none", "send", "await", "awaitfor"}]
TypeHeld == held \in [Clients -> Seq(Entry)]
TypeExpired == expired \in [Clients -> BOOLEAN]
TypeCalls == ncalls \in [Clients -> 0..MaxCalls]
TypeBefore == before \in [Clients -> SUBSET Entry]
TypeRan == ran \in Seq(Entry)

Types ==
  /\ TypeCell /\ TypeQueue /\ TypePark /\ TypeItem /\ TypeFired /\ TypeDrain /\ TypePc
  /\ TypeHeld /\ TypeExpired /\ TypeCalls /\ TypeBefore /\ TypeRan

\* They make up the type invariant.
LEMMA TypeSplit == TypeOK <=> Types
BY DEF TypeOK, Types, TypeCell, TypeQueue, TypePark, TypeItem, TypeFired, TypeDrain, TypePc, TypeHeld,
       TypeExpired, TypeCalls, TypeBefore, TypeRan

\* What is assumed of the numbers.
LEMMA Constants == QCap \in Nat /\ QCap > 0 /\ MaxCalls \in Nat /\ Drainer \notin Clients
BY AgentAssumption

\* The fields of an entry.
LEMMA EntryFacts ==
  ASSUME NEW e \in Entry
  PROVE  e.by \in Senders /\ e.n \in Nat /\ e.nested \in BOOLEAN
BY AgentAssumption DEF Entry

\* An entry made by a sender of the agent is one.
LEMMA EntryMade ==
  ASSUME NEW k \in {"act", "latch", "none"}, NEW p \in Senders, NEW m \in Nat, m <= MaxCalls
  PROVE  [kind |-> k, by |-> p, n |-> m, nested |-> FALSE] \in Entry
BY AgentAssumption DEF Entry

\* No entry is one.
LEMMA NoEntryFacts == NoEntry \in Entry
BY AgentAssumption DEF Entry, NoEntry, Senders

\* An entry's nested one differs in nothing else.
LEMMA NestedFacts ==
  ASSUME NEW e \in Entry
  PROVE  LET f == [e EXCEPT !.nested = TRUE] IN
         f \in Entry /\ f.nested /\ f.by = e.by /\ f.n = e.n /\ f.kind = e.kind
BY DEF Entry

\* What Tail leaves of a queue.
LEMMA TailFacts ==
  ASSUME NEW S, NEW q \in Seq(S), q # <<>>
  PROVE  /\ Head(q) \in S /\ Head(q) = q[1] /\ Tail(q) \in Seq(S) /\ 1 \in DOMAIN q
         /\ Len(q) \in Nat \ {0} /\ Len(Tail(q)) = Len(q) - 1
         /\ \A k \in DOMAIN Tail(q) : k + 1 \in DOMAIN q /\ Tail(q)[k] = q[k + 1]
OBVIOUS

\* What Append adds to a queue.
LEMMA AppendFacts ==
  ASSUME NEW S, NEW q \in Seq(S), NEW x \in S
  PROVE  /\ Append(q, x) \in Seq(S) /\ Len(Append(q, x)) = Len(q) + 1 /\ Len(q) \in Nat
         /\ DOMAIN Append(q, x) = DOMAIN q \cup {Len(q) + 1} /\ DOMAIN q = 1..Len(q)
         /\ \A k \in DOMAIN q : Append(q, x)[k] = q[k]
         /\ Append(q, x)[Len(q) + 1] = x
OBVIOUS

\* What both do to it at once.
LEMMA RotateFacts ==
  ASSUME NEW S, NEW q \in Seq(S), q # <<>>, NEW x \in S
  PROVE  LET r == Append(Tail(q), x) IN
         /\ r \in Seq(S) /\ Len(r) = Len(q) /\ Len(q) \in DOMAIN r /\ r[Len(q)] = x
         /\ \A k \in DOMAIN r : \/ k < Len(q) /\ k + 1 \in DOMAIN q /\ r[k] = q[k + 1]
                                \/ k = Len(q) /\ r[k] = x
<1>1. /\ Tail(q) \in Seq(S) /\ Len(q) \in Nat \ {0} /\ Len(Tail(q)) = Len(q) - 1
      /\ \A k \in DOMAIN Tail(q) : k + 1 \in DOMAIN q /\ Tail(q)[k] = q[k + 1]
  BY TailFacts
<1>2. DOMAIN Tail(q) = 1..(Len(q) - 1)
  BY <1>1
<1> QED
  BY <1>1, <1>2, AppendFacts

\* The pending actions are entries.
LEMMA PendingType == Types => Pending \subseteq Entry
<1> SUFFICES ASSUME Types PROVE Pending \subseteq Entry
  OBVIOUS
<1>1. \A i \in DOMAIN queue : queue[i] \in Entry
  BY DEF Types, TypeQueue
<1>2. cur \in Entry
  BY DEF Types, TypeDrain
<1> QED
  BY <1>1, <1>2 DEF Pending

\* The steps of the drainer keep the types.
LEMMA DrainTypes ==
  Types /\ (DrainStep \/ CallsReturn \/ NestedSend) => Types'
<1> SUFFICES ASSUME Types, DrainStep \/ CallsReturn \/ NestedSend PROVE Types'
  OBVIOUS
<1> USE DEF Types, cell, chan, drain, client
<1>1. CASE Take
  <2> USE <1>1 DEF Take
  <2>1. /\ Head(queue) \in Entry /\ Tail(queue) \in Seq(Entry)
        /\ Len(queue) \in Nat \ {0} /\ Len(Tail(queue)) = Len(queue) - 1
    BY TailFacts DEF TypeQueue
  <2>2. TypeDrain' /\ TypeFired'
    BY <2>1 DEF TypeDrain, TypeFired
  <2>3. CASE sendq = <<>>
    <3>1. TypeQueue'
      BY <2>1, <2>3, AgentAssumption DEF TypeQueue
    <3>2. TypeCell' /\ TypePark' /\ TypeItem' /\ TypePc' /\ TypeHeld' /\ TypeExpired' /\ TypeCalls'
          /\ TypeBefore' /\ TypeRan'
      BY <2>3 DEF TypeCell, TypePark, TypeItem, TypePc, TypeHeld, TypeExpired, TypeCalls, TypeBefore,
                  TypeRan
    <3> QED
      BY <2>2, <3>1, <3>2
  <2>4. CASE sendq # <<>>
    <3>1. Head(sendq) \in Senders /\ Tail(sendq) \in Seq(Senders)
      BY <2>4, TailFacts DEF TypePark
    <3>2. item[Head(sendq)] \in Entry
      BY <3>1 DEF TypeItem
    <3>3. queue' = Append(Tail(queue), item[Head(sendq)])
      BY <2>4
    <3>4. TypeQueue'
      BY <3>2, <3>3, RotateFacts DEF TypeQueue
    <3>5. TypePark' /\ TypePc'
      BY <2>4, <3>1 DEF TypePark, TypePc
    <3>6. TypeCell' /\ TypeItem' /\ TypeHeld' /\ TypeExpired' /\ TypeCalls' /\ TypeBefore' /\ TypeRan'
      BY <2>4 DEF TypeCell, TypeItem, TypeHeld, TypeExpired, TypeCalls, TypeBefore, TypeRan
    <3> QED
      BY <2>2, <3>4, <3>5, <3>6
  <2> QED
    BY <2>3, <2>4
<1>2. CASE RunAction
  <2> USE <1>2 DEF RunAction
  <2>1. TypeDrain' /\ TypeRan'
    <3>1. CASE err
      BY <3>1 DEF TypeDrain, TypeRan
    <3>2. CASE ~err
      <4>1. Append(ran, cur) \in Seq(Entry)
        BY AppendFacts DEF TypeDrain, TypeRan
      <4> QED
        BY <3>2, <4>1 DEF TypeDrain, TypeRan, TypeCell
    <3> QED
      BY <3>1, <3>2
  <2>2. TypeCell' /\ TypeQueue' /\ TypePark' /\ TypeItem' /\ TypeFired' /\ TypePc'
    BY DEF TypeCell, TypeQueue, TypePark, TypeItem, TypeFired, TypePc
  <2>3. TypeHeld' /\ TypeExpired' /\ TypeCalls' /\ TypeBefore'
    BY DEF TypeHeld, TypeExpired, TypeCalls, TypeBefore
  <2> QED
    BY <2>1, <2>2, <2>3
<1>3. CASE Install
  <2> USE <1>3 DEF Install
  <2>1. TypeCell'
    BY AppendFacts DEF TypeCell, TypeDrain
  <2>2. TypeDrain' /\ TypeQueue' /\ TypePark' /\ TypeItem' /\ TypeFired' /\ TypePc'
    BY DEF TypeDrain, TypeQueue, TypePark, TypeItem, TypeFired, TypePc
  <2>3. TypeHeld' /\ TypeExpired' /\ TypeCalls' /\ TypeBefore' /\ TypeRan'
    BY DEF TypeHeld, TypeExpired, TypeCalls, TypeBefore, TypeRan
  <2> QED
    BY <2>1, <2>2, <2>3
<1>4. CASE RecordError \/ CallsReturn
  <2>0. UNCHANGED <<state, mode, handler, queue, sendq, item, fired, pc, op, held, expired, ncalls,
                    before, ran, cur, old>>
    BY <1>4 DEF RecordError, CallsReturn, BodyEnd, NotifyWatches, RecordErrorEnd
  <2>1. TypeCell'
    BY <1>4, <2>0 DEF RecordError, CallsReturn, BodyEnd, NotifyWatches, RecordErrorEnd, TypeCell
  <2>2. TypeDrain'
    BY <1>4, <2>0 DEF RecordError, CallsReturn, BodyEnd, NotifyWatches, RecordErrorEnd, TypeDrain,
                      TypeCell
  <2>3. TypeQueue' /\ TypePark' /\ TypeItem' /\ TypeFired' /\ TypePc'
    BY <2>0 DEF TypeQueue, TypePark, TypeItem, TypeFired, TypePc
  <2>4. TypeHeld' /\ TypeExpired' /\ TypeCalls' /\ TypeBefore' /\ TypeRan'
    BY <2>0 DEF TypeHeld, TypeExpired, TypeCalls, TypeBefore, TypeRan
  <2> QED
    BY <2>1, <2>2, <2>3, <2>4
<1>5. CASE NestedSend
  <2> USE <1>5 DEF NestedSend
  <2>1. TypeItem' /\ item'[Drainer] \in Entry
    BY NestedFacts DEF TypeItem, TypeDrain, Senders
  <2>2. TypeQueue' /\ TypePark'
    <3>1. CASE Len(queue) < QCap
      <4>1. queue' = Append(queue, item'[Drainer]) /\ sendq' = sendq
        BY <3>1
      <4> QED
        BY <2>1, <3>1, <4>1, AppendFacts, Constants DEF TypeQueue, TypePark
    <3>2. CASE ~(Len(queue) < QCap)
      <4>1. queue' = queue /\ sendq' = Append(sendq, Drainer) /\ Drainer \in Senders
        BY <3>2 DEF Senders
      <4> QED
        BY <4>1, AppendFacts DEF TypeQueue, TypePark
    <3> QED
      BY <3>1, <3>2
  <2>3. TypeCell' /\ TypeDrain' /\ TypeFired' /\ TypePc'
    BY DEF TypeCell, TypeDrain, TypeFired, TypePc
  <2>4. TypeHeld' /\ TypeExpired' /\ TypeCalls' /\ TypeBefore' /\ TypeRan'
    BY DEF TypeHeld, TypeExpired, TypeCalls, TypeBefore, TypeRan
  <2> QED
    BY <2>1, <2>2, <2>3, <2>4
<1> QED
  BY <1>1, <1>2, <1>3, <1>4, <1>5 DEF DrainStep

\* The calls of the clients keep the types.
LEMMA InvokeTypes == ASSUME NEW p \in Clients PROVE Types /\ Invoke(p) => Types'
<1> SUFFICES ASSUME Types, Invoke(p) PROVE Types'
  OBVIOUS
<1> USE DEF Types, cell, chan, drain, client
<1>0. p \in Senders
  BY DEF Senders
<1>1. \A o : Begin(p, o) => TypeCalls' /\ ncalls[p] + 1 \in Nat /\ ncalls[p] + 1 <= MaxCalls
  BY AgentAssumption DEF Begin, TypeCalls
<1>2. ASSUME NEW o \in {"send", "await", "awaitfor"}, NEW k \in {"act", "latch"}, Submit(p, o, k)
      PROVE  Types'
  <2> USE <1>2 DEF Submit
  <2>1. TypeCalls' /\ ncalls[p] + 1 \in Nat /\ ncalls[p] + 1 <= MaxCalls
    BY <1>1
  <2>2. TypePc'
    BY DEF TypePc
  <2>3. TypeItem'
    BY <1>0, <2>1, EntryMade DEF TypeItem
  <2>4. TypeBefore'
    BY PendingType DEF TypeBefore
  <2>5. TypeCell' /\ TypeQueue' /\ TypePark' /\ TypeFired' /\ TypeDrain'
    BY DEF TypeCell, TypeQueue, TypePark, TypeFired, TypeDrain
  <2>6. TypeHeld' /\ TypeExpired' /\ TypeRan'
    BY DEF TypeHeld, TypeExpired, TypeRan
  <2> QED
    BY <2>1, <2>2, <2>3, <2>4, <2>5, <2>6
<1>3. CASE Restart(p)
  <2> USE <1>3 DEF Restart
  <2>1. TypeCalls' /\ ncalls[p] + 1 \in Nat /\ ncalls[p] + 1 <= MaxCalls
    BY <1>1
  <2>2. <<[kind |-> "none", by |-> p, n |-> ncalls[p] + 1, nested |-> FALSE]>> \in Seq(Entry)
    BY <1>0, <2>1, EntryMade
  <2>3. TypeCell'
    BY <2>2 DEF TypeCell, RestartWith
  <2>4. TypeQueue' /\ TypePark' /\ TypeItem' /\ TypeFired' /\ TypeDrain' /\ TypePc'
    BY DEF TypeQueue, TypePark, TypeItem, TypeFired, TypeDrain, TypePc
  <2>5. TypeHeld' /\ TypeExpired' /\ TypeBefore' /\ TypeRan'
    BY DEF TypeHeld, TypeExpired, TypeBefore, TypeRan
  <2> QED
    BY <2>1, <2>3, <2>4, <2>5
<1>4. CASE ClearDeref(p) \/ SetErrorMode(p) \/ SetErrorHandler(p)
  <2> USE <1>4 DEF ClearDeref, SetErrorMode, SetErrorHandler
  <2>1. TypeCalls'
    BY <1>1
  <2>2. TypeHeld' /\ TypePc'
    BY DEF TypeHeld, TypePc, TypeCell
  <2>3. TypeCell'
    BY DEF TypeCell
  <2>4. TypeQueue' /\ TypePark' /\ TypeItem' /\ TypeFired' /\ TypeDrain'
    BY DEF TypeQueue, TypePark, TypeItem, TypeFired, TypeDrain
  <2>5. TypeExpired' /\ TypeBefore' /\ TypeRan'
    BY DEF TypeExpired, TypeBefore, TypeRan
  <2> QED
    BY <2>1, <2>2, <2>3, <2>4, <2>5
<1> QED
  BY <1>2, <1>3, <1>4 DEF Invoke, Send, Await, AwaitForOne

\* The steps inside the calls keep the types.
LEMMA InsideTypes == ASSUME NEW p \in Clients PROVE Types /\ (Inside(p) \/ Deadline(p)) => Types'
<1> SUFFICES ASSUME Types, Inside(p) \/ Deadline(p) PROVE Types'
  OBVIOUS
<1> USE DEF Types, cell, chan, drain, client
<1>0. p \in Senders
  BY DEF Senders
<1>1. CASE Enqueue(p)
  <2> USE <1>1 DEF Enqueue
  <2>1. item[p] \in Entry
    BY <1>0 DEF TypeItem
  <2>2. TypeQueue' /\ TypePark'
    <3>1. CASE Len(queue) < QCap
      <4>1. queue' = Append(queue, item[p]) /\ sendq' = sendq
        BY <3>1
      <4> QED
        BY <2>1, <3>1, <4>1, AppendFacts, Constants DEF TypeQueue, TypePark
    <3>2. CASE ~(Len(queue) < QCap)
      <4>1. queue' = queue /\ sendq' = Append(sendq, p)
        BY <3>2
      <4> QED
        BY <1>0, <4>1, AppendFacts DEF TypeQueue, TypePark
    <3> QED
      BY <3>1, <3>2
  <2>3. TypePc'
    BY DEF TypePc
  <2>4. TypeCell' /\ TypeItem' /\ TypeFired' /\ TypeDrain'
    BY DEF TypeCell, TypeItem, TypeFired, TypeDrain
  <2>5. TypeHeld' /\ TypeExpired' /\ TypeCalls' /\ TypeBefore' /\ TypeRan'
    BY DEF TypeHeld, TypeExpired, TypeCalls, TypeBefore, TypeRan
  <2> QED
    BY <2>2, <2>3, <2>4, <2>5
<1>2. CASE AwaitWake(p) \/ AwaitCheck(p)
  <2> USE <1>2 DEF AwaitWake, AwaitCheck, Return
  <2>1. TypeItem' /\ TypeFired'
    BY <1>0, NoEntryFacts DEF TypeItem, TypeFired
  <2>2. TypePc'
    BY DEF TypePc
  <2>3. TypeExpired' /\ TypeBefore'
    BY DEF TypeExpired, TypeBefore
  <2>4. TypeCell' /\ TypeQueue' /\ TypePark' /\ TypeDrain'
    BY DEF TypeCell, TypeQueue, TypePark, TypeDrain
  <2>5. TypeHeld' /\ TypeCalls' /\ TypeRan'
    BY DEF TypeHeld, TypeCalls, TypeRan
  <2> QED
    BY <2>1, <2>2, <2>3, <2>4, <2>5
<1>3. CASE ClearRestart(p) \/ Deadline(p)
  <2> USE <1>3 DEF ClearRestart, Deadline, RestartWith
  <2>1. TypeCell' /\ TypeHeld'
    <3>1. held[p] \in Seq(Entry) /\ <<>> \in Seq(Entry)
      BY DEF TypeHeld
    <3> QED
      BY <3>1 DEF TypeCell, TypeHeld
  <2>2. TypePc' /\ TypeExpired'
    BY DEF TypePc, TypeExpired
  <2>3. TypeQueue' /\ TypePark' /\ TypeItem' /\ TypeFired' /\ TypeDrain'
    BY DEF TypeQueue, TypePark, TypeItem, TypeFired, TypeDrain
  <2>4. TypeCalls' /\ TypeBefore' /\ TypeRan'
    BY DEF TypeCalls, TypeBefore, TypeRan
  <2> QED
    BY <2>1, <2>2, <2>3, <2>4
<1> QED
  BY <1>1, <1>2, <1>3 DEF Inside

\* The types hold at the start.
LEMMA InitTypes == Init => Types
<1> SUFFICES ASSUME Init PROVE Types
  OBVIOUS
<1>1. NoEntry \in Entry /\ <<>> \in Seq(Entry)
  BY NoEntryFacts
<1>2. TypeCell
  BY <1>1 DEF Init, TypeCell
<1>3. TypeDrain
  BY <1>1 DEF Init, TypeDrain, Modes
<1>4. TypeQueue /\ TypePark
  BY AgentAssumption DEF Init, TypeQueue, TypePark
<1>5. TypeItem /\ TypeFired /\ TypePc /\ TypeRan
  BY <1>1 DEF Init, TypeItem, TypeFired, TypePc, TypeRan
<1>6. TypeHeld /\ TypeExpired /\ TypeCalls /\ TypeBefore
  BY AgentAssumption DEF Init, TypeHeld, TypeExpired, TypeCalls, TypeBefore
<1> QED
  BY <1>2, <1>3, <1>4, <1>5, <1>6 DEF Types

\* Every step keeps them.
LEMMA TypesNext == Types /\ [Next]_vars => Types'
<1>1. Types /\ UNCHANGED vars => Types'
  BY DEF vars, Types, TypeCell, TypeQueue, TypePark, TypeItem, TypeFired, TypeDrain, TypePc, TypeHeld,
         TypeExpired, TypeCalls, TypeBefore, TypeRan
<1> QED
  BY <1>1, DrainTypes, InvokeTypes, InsideTypes DEF Next

\* Type correctness of an agent, whose queue never holds more than its capacity.
THEOREM TypeCorrect == Spec => []TypeOK
BY InitTypes, TypesNext, TypeSplit, PTL DEF Spec
-----------------------------------------------------------------------------
(***************************************************************************)
(* Every step keeps the order.                                             *)
(***************************************************************************)

\* The elements of the queue and of the history are entries.
LEMMA Elements ==
  ASSUME Types
  PROVE  /\ \A i \in DOMAIN queue : queue[i] \in Entry /\ i \in Nat
         /\ \A i \in DOMAIN ran : ran[i] \in Entry /\ i \in Nat
         /\ cur \in Entry /\ (\A p \in Clients : item[p] \in Entry /\ before[p] \subseteq Entry)
         /\ fired \subseteq Entry /\ (\A p \in Clients : ncalls[p] \in Nat)
<1>1. /\ \A i \in DOMAIN queue : queue[i] \in Entry /\ i \in Nat
      /\ \A i \in DOMAIN ran : ran[i] \in Entry /\ i \in Nat
  BY DEF Types, TypeQueue, TypeRan
<1>2. \A p \in Clients : ncalls[p] \in Nat
  BY Constants DEF Types, TypeCalls
<1> QED
  BY <1>1, <1>2 DEF Types, TypeDrain, TypeItem, TypeBefore, TypeFired, Senders

\* What a client is about to queue has not been there.
LEMMA NotSeen ==
  ASSUME Types, Inv, NEW p \in Clients, Sending(p)
  PROVE  ~Seen(item[p]) /\ item[p] \in Entry
<1>1. item[p] \in Entry /\ ncalls[p] \in Nat
  BY Elements
<1>2. item[p].by = p /\ item[p].n = ncalls[p]
  BY DEF Inv, ItemInv, Sending
<1> QED
  BY <1>1, <1>2 DEF Inv, FreshInv, Older

\* The drainer goes on with the entry it runs, or is through with it.
LEMMA DrainerQuiet ==
  ASSUME Types, Inv, Types',
         UNCHANGED <<queue, sendq, item, fired, cur, pc, op, ncalls, before, ran>>,
         dpc \notin {"idle", "park"}, dpc' \in {"idle", "install", "watch", "error", "handler", "fail"}
  PROVE  Inv'
<1>1. ItemInv' /\ KindInv' /\ ParkInv'
  BY DEF Inv, ItemInv, KindInv, ParkInv, Sending, Busy
<1>2. \A e : Seen(e)' => Seen(e)
  BY DEF Seen, Busy
<1>3. FreshInv'
  <2>1. MayNest' => MayNest
    BY DEF MayNest, Types, TypeDrain
  <2>2. \A e : Older(e) => Older(e)'
    BY <2>1 DEF Older, Sending
  <2> QED
    BY <1>2, <2>2 DEF Inv, FreshInv
<1>4. OrderInv'
  BY DEF Inv, OrderInv, Busy, Precedes
<1>5. Pending' \subseteq Pending
  BY DEF Pending, Busy
<1>6. CoverInv'
  BY <1>5 DEF Inv, CoverInv
<1> QED
  BY <1>1, <1>3, <1>4, <1>6 DEF Inv

\* A client begins or ends a call that sends nothing.
LEMMA ClientQuiet ==
  ASSUME Types, Inv, Types', NEW p \in Clients,
         UNCHANGED <<queue, sendq, item, fired, dpc, cur, op, before, ran>>,
         \A q \in Clients : q # p => pc'[q] = pc[q] /\ ncalls'[q] = ncalls[q],
         pc'[p] = pc[p] \/ (pc[p] \in {"idle", "clear"} /\ pc'[p] \in {"idle", "clear"}),
         ncalls'[p] = ncalls[p] \/ (pc[p] = "idle" /\ ncalls'[p] = ncalls[p] + 1)
  PROVE  Inv'
<1>1. \A q \in Clients : Sending(q)' => Sending(q) /\ ncalls'[q] = ncalls[q]
  BY DEF Sending
<1>2. \A q \in Clients : ncalls[q] <= ncalls'[q] /\ ncalls[q] \in Nat /\ ncalls'[q] \in Nat
  BY Elements
<1>3. ItemInv'
  BY <1>1 DEF Inv, ItemInv, Sending
<1>4. KindInv' /\ OrderInv'
  BY DEF Inv, KindInv, OrderInv, Busy, Precedes
<1>5. ParkInv'
  BY DEF Inv, ParkInv
<1>6. \A e : Seen(e)' => Seen(e)
  BY DEF Seen, Busy
<1>7. FreshInv'
  <2> SUFFICES ASSUME NEW e \in Entry, Seen(e)' PROVE Older(e)'
    BY DEF FreshInv
  <2>1. Older(e) /\ e.n \in Nat
    BY <1>6, EntryFacts DEF Inv, FreshInv
  <2> QED
    BY <1>1, <1>2, <2>1 DEF Older, MayNest
<1>8. CoverInv'
  BY DEF Inv, CoverInv, Pending, Busy
<1> QED
  BY <1>3, <1>4, <1>5, <1>7, <1>8 DEF Inv

\* The steps that only go on.
LEMMA QuietSteps ==
  ASSUME Types, Inv, Types'
  PROVE  /\ (BodyEnd \/ Install \/ NotifyWatches \/ RecordError \/ RecordErrorEnd) => Inv'
         /\ \A p \in Clients :
              (\/ Restart(p) \/ ClearDeref(p) \/ ClearRestart(p) \/ SetErrorMode(p)
               \/ SetErrorHandler(p) \/ Deadline(p)) => Inv'
         /\ UNCHANGED vars => Inv'
<1> USE DEF cell, chan, drain, client
<1>1. (BodyEnd \/ Install \/ NotifyWatches \/ RecordError \/ RecordErrorEnd) => Inv'
  <2> SUFFICES ASSUME BodyEnd \/ Install \/ NotifyWatches \/ RecordError \/ RecordErrorEnd PROVE Inv'
    OBVIOUS
  <2>1. UNCHANGED <<queue, sendq, item, fired, cur, pc, op, ncalls, before, ran>>
    BY DEF BodyEnd, Install, NotifyWatches, RecordError, RecordErrorEnd
  <2>2. dpc \notin {"idle", "park"} /\ dpc' \in {"idle", "install", "watch", "error", "handler", "fail"}
    BY DEF BodyEnd, Install, NotifyWatches, RecordError, RecordErrorEnd
  <2> QED
    BY <2>1, <2>2, DrainerQuiet
<1>2. ASSUME NEW p \in Clients,
             \/ Restart(p) \/ ClearDeref(p) \/ ClearRestart(p) \/ SetErrorMode(p)
             \/ SetErrorHandler(p) \/ Deadline(p)
      PROVE  Inv'
  <2>1. UNCHANGED <<queue, sendq, item, fired, dpc, cur, op, before, ran>>
    BY <1>2 DEF Restart, ClearDeref, ClearRestart, SetErrorMode, SetErrorHandler, Deadline
  <2>2. /\ \A q \in Clients : q # p => pc'[q] = pc[q] /\ ncalls'[q] = ncalls[q]
        /\ pc'[p] = pc[p] \/ (pc[p] \in {"idle", "clear"} /\ pc'[p] \in {"idle", "clear"})
        /\ ncalls'[p] = ncalls[p] \/ (pc[p] = "idle" /\ ncalls'[p] = ncalls[p] + 1)
    BY <1>2 DEF Restart, ClearDeref, ClearRestart, SetErrorMode, SetErrorHandler, Deadline, Begin,
                Types, TypePc, TypeCalls
  <2> QED
    BY <2>1, <2>2, ClientQuiet
<1>3. ASSUME UNCHANGED vars PROVE Inv'
  <2> USE <1>3 DEF vars, Inv
  <2>1. ItemInv' /\ KindInv' /\ ParkInv' /\ OrderInv'
    BY DEF ItemInv, KindInv, ParkInv, OrderInv, Sending, Busy, Precedes
  <2>2. \A e : (Seen(e)' => Seen(e)) /\ (Older(e) => Older(e)')
    BY DEF Seen, Older, MayNest, Sending, Busy
  <2>3. FreshInv'
    BY <2>2 DEF FreshInv
  <2>4. CoverInv'
    BY DEF CoverInv, Pending, Busy
  <2> QED
    BY <2>1, <2>3, <2>4
<1> QED
  BY <1>1, <1>2, <1>3
\* A client makes an entry ready.
LEMMA SubmitInv ==
  ASSUME Types, Inv, Types', NEW p \in Clients, NEW o \in {"send", "await", "awaitfor"},
         NEW k \in {"act", "latch"}, k = "act" <=> o = "send", Submit(p, o, k)
  PROVE  Inv'
<1> USE DEF cell, chan, drain, client
<1>0. /\ pc[p] = "idle" /\ ncalls'[p] = ncalls[p] + 1 /\ ncalls[p] \in Nat
      /\ \A q \in Clients : q # p => ncalls'[q] = ncalls[q]
      /\ UNCHANGED <<queue, sendq, fired, dpc, cur, ran>>
  BY Elements DEF Submit, Begin, Types, TypeCalls
<1>1. CASE err
  <2>1. UNCHANGED <<pc, op, item, before>>
    BY <1>1 DEF Submit
  <2> QED
    BY <1>0, <2>1, ClientQuiet
<1>2. CASE ~err
  <2>1. /\ pc'[p] = "enqueue" /\ op'[p] = o
        /\ item'[p].kind = k /\ item'[p].by = p /\ item'[p].n = ncalls'[p] /\ item'[p].nested = FALSE
        /\ before'[p] \subseteq Pending /\ item'[Drainer] = item[Drainer]
        /\ \A q \in Clients : q # p => /\ pc'[q] = pc[q] /\ op'[q] = op[q]
                                       /\ item'[q] = item[q] /\ before'[q] = before[q]
    BY <1>0, <1>2, Constants DEF Submit, Types, TypePc, TypeItem, TypeBefore, Senders
  <2>2. \A e \in Pending : e \in Entry /\ e.kind = "act" /\ Seen(e)
    BY PendingType, Elements DEF Pending, Seen, Inv, KindInv
  <2>3. ItemInv'
    BY <1>0, <2>1 DEF Inv, ItemInv, Sending
  <2>4. KindInv'
    BY <1>0, <2>1, <2>2 DEF Inv, KindInv, Busy
  <2>5. ParkInv'
    BY <1>0, <2>1 DEF Inv, ParkInv
  <2>6. \A e : Seen(e)' => Seen(e)
    BY <1>0, <2>1, <2>2 DEF Seen, Busy
  <2>7. FreshInv'
    <3> SUFFICES ASSUME NEW e \in Entry, Seen(e)' PROVE Older(e)'
      BY DEF FreshInv
    <3>1. Older(e) /\ e.n \in Nat
      BY <2>6, EntryFacts DEF Inv, FreshInv
    <3> QED
      BY <1>0, <2>1, <3>1 DEF Older, MayNest, Sending
  <2>8. OrderInv'
    BY <1>0 DEF Inv, OrderInv, Busy, Precedes
  <2>9. CoverInv'
    BY <1>0, <2>1 DEF Inv, CoverInv, Pending, Busy
  <2> QED
    BY <2>3, <2>4, <2>5, <2>7, <2>8, <2>9 DEF Inv
<1> QED
  BY <1>1, <1>2

\* runAction's first critical section.
LEMMA RunActionInv == ASSUME Types, Inv, Types', RunAction PROVE Inv'
<1> USE DEF cell, chan, drain, client
<1>0. /\ dpc = "start" /\ UNCHANGED <<queue, sendq, item, fired, cur, pc, op, ncalls, before>>
  BY DEF RunAction
<1>1. CASE err
  BY <1>0, <1>1, DrainerQuiet DEF RunAction
<1>2. CASE ~err
  <2>1. dpc' = "body" /\ ran' = Append(ran, cur)
    BY <1>2 DEF RunAction
  <2>2. /\ DOMAIN ran' = DOMAIN ran \cup {Len(ran) + 1} /\ ran'[Len(ran) + 1] = cur
        /\ \A i \in DOMAIN ran : ran'[i] = ran[i] /\ i < Len(ran) + 1 /\ i \in Nat
        /\ Len(ran) \in Nat
    BY <2>1, AppendFacts DEF Types, TypeRan, TypeDrain
  <2>3. ItemInv' /\ KindInv' /\ ParkInv'
    BY <1>0, <2>1 DEF Inv, ItemInv, KindInv, ParkInv, Sending, Busy
  <2>4. \A e : Seen(e)' => Seen(e)
    BY <1>0, <2>1, <2>2 DEF Seen, Busy
  <2>5. FreshInv'
    BY <1>0, <2>1, <2>4 DEF Inv, FreshInv, Older, MayNest, Sending
  <2>6. OrderInv'
    <3>1. \A i, j \in DOMAIN ran' : i < j => Precedes(ran'[i], ran'[j])
      BY <1>0, <2>2 DEF Inv, OrderInv
    <3>2. \A i \in DOMAIN ran', j \in DOMAIN queue : Precedes(ran'[i], queue[j])
      BY <1>0, <2>2 DEF Inv, OrderInv, Busy
    <3>3. \A i, j \in DOMAIN queue : i < j => Precedes(queue[i], queue[j])
      BY DEF Inv, OrderInv
    <3>4. \A j \in DOMAIN queue : Precedes(cur, queue[j])
      BY <1>0 DEF Inv, OrderInv, Busy
    <3> QED
      BY <1>0, <2>1, <3>1, <3>2, <3>3, <3>4 DEF OrderInv, Precedes
  <2>7. CoverInv'
    BY <1>0, <2>1 DEF Inv, CoverInv, Pending, Busy
  <2> QED
    BY <2>3, <2>5, <2>6, <2>7 DEF Inv
<1> QED
  BY <1>1, <1>2

\* An await wakes, or one returns.
LEMMA AwaitInv ==
  ASSUME Types, Inv, Types', NEW p \in Clients, AwaitWake(p) \/ AwaitCheck(p)
  PROVE  Inv'
<1> USE DEF cell, chan, drain, client
<1>0. /\ UNCHANGED <<queue, sendq, dpc, cur, ncalls, ran>> /\ fired' \subseteq fired
      /\ pc[p] \in {"latch", "check"}
      /\ \A q \in Clients : q # p => /\ pc'[q] = pc[q] /\ op'[q] = op[q]
                                     /\ item'[q] = item[q] /\ before'[q] = before[q]
      /\ item'[Drainer] = item[Drainer] /\ before'[p] \subseteq before[p]
      /\ \/ pc'[p] = "idle"
         \/ pc[p] = "latch" /\ pc'[p] = "check" /\ item[p] \in fired /\ UNCHANGED <<item, before>>
  BY Constants DEF AwaitWake, AwaitCheck, Return, Types, TypePc, TypeItem, TypeBefore, Senders
<1>1. ItemInv'
  BY <1>0 DEF Inv, ItemInv, Sending
<1>2. KindInv' /\ OrderInv'
  BY <1>0 DEF Inv, KindInv, OrderInv, Busy, Precedes
<1>3. ParkInv'
  BY <1>0 DEF Inv, ParkInv
<1>4. \A e : Seen(e)' => Seen(e)
  BY <1>0 DEF Seen, Busy
<1>5. FreshInv'
  BY <1>0, <1>4 DEF Inv, FreshInv, Older, MayNest, Sending
<1>6. CoverInv'
  BY <1>0 DEF Inv, CoverInv, Pending, Busy
<1> QED
  BY <1>1, <1>2, <1>3, <1>5, <1>6 DEF Inv
\* A client's entry gets into the queue, or the client parks.
LEMMA EnqueueInv == ASSUME Types, Inv, Types', NEW p \in Clients, Enqueue(p) PROVE Inv'
<1> USE DEF cell, chan, drain, client
<1>0. /\ pc[p] = "enqueue" /\ UNCHANGED <<item, fired, dpc, cur, ncalls, before, ran>>
      /\ \A q \in Clients : q # p => pc'[q] = pc[q] /\ op'[q] = op[q]
      /\ ncalls[p] \in Nat /\ Sending(p)
  BY Elements DEF Enqueue, Types, TypePc, Sending
<1>1. CASE ~(Len(queue) < QCap)
  <2>1. queue' = queue /\ op' = op /\ sendq' = Append(sendq, p) /\ pc'[p] = "park"
    BY <1>1 DEF Enqueue, Types, TypePc
  <2>2. /\ DOMAIN sendq' = DOMAIN sendq \cup {Len(sendq) + 1} /\ sendq'[Len(sendq) + 1] = p
        /\ \A i \in DOMAIN sendq : sendq'[i] = sendq[i]
    BY <2>1, AppendFacts DEF Types, TypePark, Senders
  <2>3. ParkInv'
    BY <1>0, <2>1, <2>2 DEF Inv, ParkInv
  <2>4. ItemInv'
    BY <1>0, <2>1 DEF Inv, ItemInv, Sending
  <2>5. KindInv' /\ OrderInv'
    BY <1>0, <2>1 DEF Inv, KindInv, OrderInv, Busy, Precedes
  <2>6. \A e : Seen(e)' => Seen(e)
    BY <1>0, <2>1 DEF Seen, Busy
  <2>7. FreshInv'
    BY <1>0, <2>1, <2>6 DEF Inv, FreshInv, Older, MayNest, Sending
  <2>8. CoverInv'
    BY <1>0, <2>1 DEF Inv, CoverInv, Pending, Busy
  <2> QED
    BY <2>3, <2>4, <2>5, <2>7, <2>8 DEF Inv
<1>2. CASE Len(queue) < QCap
  <2>1. queue' = Append(queue, item[p]) /\ sendq' = sendq /\ pc'[p] \in {"idle", "latch"}
        /\ (pc'[p] = "latch" => op[p] # "send")
    BY <1>2 DEF Enqueue, Types, TypePc
  <2>2. /\ item[p] \in Entry /\ item[p].by = p /\ item[p].n = ncalls[p] /\ ~item[p].nested
        /\ item[p].kind \in {"act", "latch"} /\ ~Seen(item[p])
    BY <1>0, NotSeen DEF Inv, ItemInv
  <2>3. /\ DOMAIN queue' = DOMAIN queue \cup {Len(queue) + 1} /\ queue'[Len(queue) + 1] = item[p]
        /\ \A i \in DOMAIN queue : queue'[i] = queue[i] /\ i < Len(queue) + 1 /\ i \in Nat
        /\ Len(queue) \in Nat
    BY <2>1, <2>2, AppendFacts DEF Types, TypeQueue
  <2>4. ItemInv'
    BY <1>0, <2>1 DEF Inv, ItemInv, Sending
  <2>5. KindInv'
    BY <1>0, <2>2, <2>3 DEF Inv, KindInv, Busy
  <2>6. ParkInv'
    BY <1>0, <2>1 DEF Inv, ParkInv
  <2>7. \A e : Seen(e)' => Seen(e) \/ e = item[p]
    BY <1>0, <2>3 DEF Seen, Busy
  <2>8. \A e \in Entry : Seen(e) /\ e.by = p => e.n < ncalls[p]
    BY <1>0 DEF Inv, FreshInv, Older
  <2>9. FreshInv'
    <3> SUFFICES ASSUME NEW e \in Entry, Seen(e)' PROVE Older(e)'
      BY DEF FreshInv
    <3>1. CASE e = item[p]
      BY <1>0, <2>1, <2>2, <3>1 DEF Older, Sending
    <3>2. CASE Seen(e)
      <4>1. Older(e)
        BY <3>2 DEF Inv, FreshInv
      <4>2. e.by = p => e.n < ncalls[p]
        BY <2>8, <3>2
      <4> QED
        BY <1>0, <2>1, <2>2, <2>3, <4>1, <4>2 DEF Older, MayNest, Sending
    <3> QED
      BY <2>7, <3>1, <3>2
  <2>10. OrderInv'
    <3>1. \A i \in DOMAIN ran, j \in DOMAIN queue' : Precedes(ran[i], queue'[j])
      <4>1. \A i \in DOMAIN ran : ran[i] \in Entry /\ Seen(ran[i])
        BY Elements DEF Seen
      <4> QED
        BY <2>2, <2>3, <2>8, <4>1 DEF Inv, OrderInv, Precedes
    <3>2. \A i, j \in DOMAIN queue' : i < j => Precedes(queue'[i], queue'[j])
      <4>1. \A i \in DOMAIN queue : queue[i] \in Entry /\ Seen(queue[i])
        BY Elements DEF Seen
      <4> QED
        BY <2>2, <2>3, <2>8, <4>1 DEF Inv, OrderInv, Precedes
    <3>3. Busy => \A j \in DOMAIN queue' : Precedes(cur, queue'[j])
      <4>1. Busy => cur \in Entry /\ Seen(cur)
        BY Elements DEF Seen
      <4> QED
        BY <2>2, <2>3, <2>8, <4>1 DEF Inv, OrderInv, Precedes
    <3> QED
      BY <1>0, <3>1, <3>2, <3>3 DEF Inv, OrderInv, Busy, Precedes
  <2>11. \A q \in Clients : item[p] \notin before[q]
    BY <2>2 DEF Seen
  <2>12. Pending' \subseteq Pending \cup {item[p]}
    BY <1>0, <2>3 DEF Pending, Busy
  <2>13. CoverInv'
    <3> SUFFICES ASSUME NEW q \in Clients
                 PROVE  /\ pc'[q] = "check" \/ (pc'[q] = "latch" /\ item[q] \in fired)
                             => before[q] \cap Pending' = {}
                        /\ pc'[q] = "latch" =>
                             \A j, k \in DOMAIN queue' :
                               queue'[k] = item[q] /\ queue'[j] \in before[q] => j < k
      BY <1>0 DEF CoverInv
    <3>1. CASE q = p
      BY <1>0, <2>1, <2>2, <2>3, <2>11, <3>1 DEF Seen
    <3>2. CASE q # p
      <4>1. pc'[q] = pc[q]
        BY <1>0, <3>2
      <4>2. pc[q] = "latch" => item[q] # item[p]
        BY <2>2, <3>2 DEF Inv, ItemInv
      <4> QED
        BY <2>3, <2>11, <2>12, <4>1, <4>2 DEF Inv, CoverInv
    <3> QED
      BY <3>1, <3>2
  <2> QED
    BY <2>4, <2>5, <2>6, <2>9, <2>10, <2>13 DEF Inv
<1> QED
  BY <1>1, <1>2

\* The running action, a watch or the handler sends to the agent, or parks the drainer
\* for good.
LEMMA NestedSendInv == ASSUME Types, Inv, Types', NestedSend PROVE Inv'
<1> USE DEF cell, chan, drain, client
<1> DEFINE x == [cur EXCEPT !.nested = TRUE]
<1>0. /\ dpc \in {"body", "watch", "handler"} /\ ~cur.nested /\ MayNest /\ Busy
      /\ UNCHANGED <<fired, cur, pc, op, ncalls, before, ran>>
      /\ item'[Drainer] = x /\ (\A q \in Clients : item'[q] = item[q])
  BY Constants DEF NestedSend, MayNest, Busy, Types, TypeItem, Senders
<1>1. x \in Entry /\ x.nested /\ x.by = cur.by /\ x.n = cur.n /\ x.kind = cur.kind /\ cur \in Entry
  BY NestedFacts DEF Types, TypeDrain
<1>2. cur.n \in Nat /\ Seen(cur) /\ Older(cur)
  BY <1>0, <1>1, EntryFacts DEF Seen, Inv, FreshInv
<1>3. \A e \in Entry : Seen(e) /\ e.nested /\ e.by = cur.by => e.n < cur.n
  BY <1>0 DEF Inv, FreshInv, Older
<1>4. ItemInv'
  BY <1>0 DEF Inv, ItemInv, Sending
<1> HIDE DEF x
<1>5. CASE ~(Len(queue) < QCap)
  <2>1. queue' = queue /\ sendq' = Append(sendq, Drainer) /\ dpc' = "park"
    BY <1>5 DEF NestedSend
  <2>2. /\ DOMAIN sendq' = DOMAIN sendq \cup {Len(sendq) + 1} /\ sendq'[Len(sendq) + 1] = Drainer
        /\ \A i \in DOMAIN sendq : sendq'[i] = sendq[i]
    BY <2>1, AppendFacts DEF Types, TypePark, Senders
  <2>3. ParkInv'
    BY <1>0, <2>1, <2>2, Constants DEF Inv, ParkInv
  <2>4. KindInv' /\ OrderInv'
    BY <1>0, <2>1 DEF Inv, KindInv, OrderInv, Busy, Precedes
  <2>5. \A e : Seen(e)' => Seen(e)
    BY <1>0, <2>1 DEF Seen, Busy
  <2>6. FreshInv'
    BY <1>0, <2>1, <2>5 DEF Inv, FreshInv, Older, MayNest, Sending
  <2>7. CoverInv'
    BY <1>0, <2>1 DEF Inv, CoverInv, Pending, Busy
  <2> QED
    BY <1>4, <2>3, <2>4, <2>6, <2>7 DEF Inv
<1>6. CASE Len(queue) < QCap
  <2>1. queue' = Append(queue, x) /\ sendq' = sendq /\ dpc' = dpc
    BY <1>0, <1>6 DEF NestedSend
  <2>2. /\ DOMAIN queue' = DOMAIN queue \cup {Len(queue) + 1} /\ queue'[Len(queue) + 1] = x
        /\ \A i \in DOMAIN queue : queue'[i] = queue[i] /\ i < Len(queue) + 1 /\ i \in Nat
        /\ Len(queue) \in Nat
    BY <1>1, <2>1, AppendFacts DEF Types, TypeQueue
  <2>3. KindInv'
    BY <1>0, <1>1, <2>1, <2>2 DEF Inv, KindInv, Busy
  <2>4. ParkInv'
    BY <1>0, <2>1 DEF Inv, ParkInv
  <2>5. \A e : Seen(e)' => Seen(e) \/ e = x
    BY <1>0, <2>1, <2>2 DEF Seen, Busy
  <2>6. ~MayNest'
    BY <1>0, <2>1 DEF MayNest, x
  <2>7. FreshInv'
    <3> SUFFICES ASSUME NEW e \in Entry, Seen(e)' PROVE Older(e)'
      BY DEF FreshInv
    <3>1. CASE e = x
      <4>1. \A j \in DOMAIN queue : (~queue[j].nested /\ queue[j].by = cur.by) => cur.n < queue[j].n
        <5>1. \A j \in DOMAIN queue : queue[j].nested \in BOOLEAN
          BY Elements, EntryFacts
        <5>2. cur.nested = FALSE
          BY <1>0, <1>1, EntryFacts
        <5> QED
          BY <1>0, <5>1, <5>2 DEF Inv, OrderInv, Precedes
      <4> QED
        BY <1>0, <1>1, <1>2, <2>2, <2>6, <3>1, <4>1 DEF Older, Sending
    <3>2. CASE Seen(e)
      <4>1. Older(e)
        BY <3>2 DEF Inv, FreshInv
      <4> QED
        BY <1>0, <1>1, <2>2, <2>6, <4>1 DEF Older, Sending
    <3> QED
      BY <2>5, <3>1, <3>2
  <2>8. OrderInv'
    <3>0. \A e \in Entry : Seen(e) => Precedes(e, x)
      BY <1>1, <1>3, EntryFacts DEF Precedes
    <3>1. \A i \in DOMAIN ran, j \in DOMAIN queue' : Precedes(ran[i], queue'[j])
      <4>1. \A i \in DOMAIN ran : ran[i] \in Entry /\ Seen(ran[i])
        BY Elements DEF Seen
      <4> QED
        BY <2>2, <3>0, <4>1 DEF Inv, OrderInv
    <3>2. \A i, j \in DOMAIN queue' : i < j => Precedes(queue'[i], queue'[j])
      <4>1. \A i \in DOMAIN queue : queue[i] \in Entry /\ Seen(queue[i])
        BY Elements DEF Seen
      <4> QED
        BY <2>2, <3>0, <4>1 DEF Inv, OrderInv
    <3>3. \A j \in DOMAIN queue' : Precedes(cur, queue'[j])
      BY <1>0, <1>1, <1>2, <2>2, <3>0 DEF Inv, OrderInv
    <3> QED
      BY <1>0, <2>1, <3>1, <3>2, <3>3 DEF Inv, OrderInv, Busy, Precedes
  <2>9. \A q \in Clients : x \notin before[q]
    BY <1>1, <1>2, <1>3 DEF Seen
  <2>10. Pending' \subseteq Pending \cup {x}
    BY <1>0, <2>1, <2>2 DEF Pending, Busy
  <2>11. CoverInv'
    <3> SUFFICES ASSUME NEW q \in Clients
                 PROVE  /\ pc[q] = "check" \/ (pc[q] = "latch" /\ item[q] \in fired)
                             => before[q] \cap Pending' = {}
                        /\ pc[q] = "latch" =>
                             \A j, k \in DOMAIN queue' :
                               queue'[k] = item[q] /\ queue'[j] \in before[q] => j < k
      BY <1>0 DEF CoverInv
    <3>1. pc[q] = "latch" => item[q] # x
      BY <1>1 DEF Inv, ItemInv
    <3> QED
      BY <2>2, <2>9, <2>10, <3>1 DEF Inv, CoverInv
  <2> QED
    BY <1>4, <2>3, <2>4, <2>7, <2>8, <2>11 DEF Inv
<1> QED
  BY <1>5, <1>6
\* The drainer takes an entry: what is queued moves up, and a parked client's entry
\* comes in behind it.
LEMMA TakeFacts ==
  ASSUME Types, Inv, Take
  PROVE  /\ Head(queue) = queue[1] /\ 1 \in DOMAIN queue /\ queue[1] \in Entry
         /\ \/ /\ sendq = <<>> /\ UNCHANGED <<sendq, pc, op>>
               /\ \A k \in DOMAIN queue' :
                    k \in Nat /\ k + 1 \in DOMAIN queue /\ k + 1 > 1 /\ queue'[k] = queue[k + 1]
            \/ \E s \in Clients :
                 /\ pc[s] = "park" /\ Sending(s)
                 /\ pc'[s] = (IF op[s] = "send" THEN "idle" ELSE "latch")
                 /\ \A q \in Clients : q # s => pc'[q] = pc[q] /\ op'[q] = op[q]
                 /\ \A i \in DOMAIN sendq' :
                      i + 1 \in DOMAIN sendq /\ sendq'[i] = sendq[i + 1] /\ sendq'[i] # s /\ i \in Nat
                 /\ \A k \in DOMAIN queue' :
                      /\ k \in Nat
                      /\ \/ k < Len(queue) /\ k + 1 \in DOMAIN queue /\ k + 1 > 1
                            /\ queue'[k] = queue[k + 1]
                         \/ k = Len(queue) /\ queue'[k] = item[s]
<1>1. queue \in Seq(Entry) /\ queue # <<>> /\ sendq \in Seq(Senders) /\ dpc = "idle"
  BY DEF Take, Types, TypeQueue, TypePark, Busy
<1>2. Head(queue) = queue[1] /\ 1 \in DOMAIN queue /\ queue[1] \in Entry
  BY <1>1, TailFacts
<1>3. CASE sendq = <<>>
  <2>1. queue' = Tail(queue) /\ UNCHANGED <<sendq, pc, op>>
    BY <1>3 DEF Take
  <2>2. \A k \in DOMAIN Tail(queue) : k \in Nat /\ k + 1 > 1
    BY <1>1
  <2> QED
    BY <1>1, <1>2, <1>3, <2>1, <2>2, TailFacts
<1>4. CASE sendq # <<>>
  <2> DEFINE s == Head(sendq)
  <2>1. /\ s = sendq[1] /\ 1 \in DOMAIN sendq
        /\ \A i \in DOMAIN Tail(sendq) : i + 1 \in DOMAIN sendq /\ Tail(sendq)[i] = sendq[i + 1]
    BY <1>1, <1>4, TailFacts
  <2>2. s \in Clients /\ pc[s] = "park"
    BY <1>1, <2>1 DEF Inv, ParkInv
  <2>3. /\ sendq' = Tail(sendq) /\ queue' = Append(Tail(queue), item[s])
        /\ pc' = [pc EXCEPT ![s] = IF op[s] = "send" THEN "idle" ELSE "latch"]
        /\ op' = [op EXCEPT ![s] = IF op[s] = "send" THEN "none" ELSE op[s]]
    BY <1>4 DEF Take
  <2>4. item[s] \in Entry
    BY <2>2, Elements
  <2> HIDE DEF s
  <2>5. \A k \in DOMAIN queue' : \/ k < Len(queue) /\ k + 1 \in DOMAIN queue /\ queue'[k] = queue[k + 1]
                                 \/ k = Len(queue) /\ queue'[k] = item[s]
    <3>1. \A k \in DOMAIN Append(Tail(queue), item[s]) :
            \/ k < Len(queue) /\ k + 1 \in DOMAIN queue /\ Append(Tail(queue), item[s])[k] = queue[k + 1]
            \/ k = Len(queue) /\ Append(Tail(queue), item[s])[k] = item[s]
      BY <1>1, <2>4, RotateFacts, Zenon
    <3>2. queue' = Append(Tail(queue), item[s])
      BY <2>3
    <3> QED
      BY <3>1, <3>2, Zenon
  <2>6. \A k \in DOMAIN queue' : k \in Nat /\ k + 1 > 1
    <3>1. Tail(queue) \in Seq(Entry)
      BY <1>1, TailFacts
    <3>2. queue' \in Seq(Entry)
      BY <2>3, <2>4, <3>1, AppendFacts
    <3> QED
      BY <3>2
  <2>7. \A i \in DOMAIN Tail(sendq) : i \in Nat /\ i + 1 # 1
    BY <1>1, <1>4
  <2>8. \A i \in DOMAIN sendq' :
          i + 1 \in DOMAIN sendq /\ sendq'[i] = sendq[i + 1] /\ sendq'[i] # s /\ i \in Nat
    BY <2>1, <2>3, <2>7 DEF Inv, ParkInv
  <2>9. pc'[s] = (IF op[s] = "send" THEN "idle" ELSE "latch")
        /\ \A q \in Clients : q # s => pc'[q] = pc[q] /\ op'[q] = op[q]
    BY <2>2, <2>3 DEF Types, TypePc
  <2>10. Sending(s)
    BY <2>2 DEF Sending
  <2> QED
    BY <1>2, <2>2, <2>5, <2>6, <2>8, <2>9, <2>10
<1> QED
  BY <1>3, <1>4

\* The drainer takes an entry.
LEMMA TakeInv == ASSUME Types, Inv, Types', Take PROVE Inv'
<1> USE DEF cell, chan, drain, client
<1> DEFINE h == queue[1]
<1>0. /\ dpc = "idle" /\ ~Busy /\ cur' = h /\ h \in Entry /\ 1 \in DOMAIN queue
      /\ UNCHANGED <<item, ncalls, before, ran>>
      /\ h.kind \in {"act", "latch"}
      /\ \/ h.kind = "latch" /\ dpc' = "idle" /\ fired' = fired \cup {h}
         \/ h.kind = "act" /\ dpc' = "start" /\ fired' = fired
  BY TakeFacts DEF Take, Busy, Inv, KindInv
<1>1. PICK new \in Clients \cup {Drainer} :
        /\ \A q \in Clients : q # new => pc'[q] = pc[q] /\ op'[q] = op[q]
        /\ new \in Clients =>
             /\ pc[new] = "park" /\ Sending(new)
             /\ pc'[new] = (IF op[new] = "send" THEN "idle" ELSE "latch")
        /\ \A k \in DOMAIN queue' :
             /\ k \in Nat
             /\ \/ k + 1 \in DOMAIN queue /\ k + 1 > 1 /\ queue'[k] = queue[k + 1]
                   /\ (new \in Clients => k < Len(queue))
                \/ new \in Clients /\ k = Len(queue) /\ queue'[k] = item[new]
        /\ \/ sendq' = sendq /\ new = Drainer /\ sendq = <<>>
           \/ \A i \in DOMAIN sendq' :
                i + 1 \in DOMAIN sendq /\ sendq'[i] = sendq[i + 1] /\ sendq'[i] # new /\ i \in Nat
  BY TakeFacts, Constants
<1>2. new \in Clients =>
        /\ item[new] \in Entry /\ item[new].by = new /\ item[new].n = ncalls[new] /\ ~item[new].nested
        /\ item[new].kind \in {"act", "latch"} /\ ~Seen(item[new])
        /\ (op[new] # "send" => item[new].kind = "latch")
        /\ \A e \in Entry : Seen(e) /\ e.by = new => e.n < ncalls[new]
  <2> SUFFICES ASSUME new \in Clients
               PROVE  /\ item[new] \in Entry /\ item[new].by = new /\ item[new].n = ncalls[new]
                      /\ ~item[new].nested
                      /\ item[new].kind \in {"act", "latch"} /\ ~Seen(item[new])
                      /\ (op[new] # "send" => item[new].kind = "latch")
                      /\ \A e \in Entry : Seen(e) /\ e.by = new => e.n < ncalls[new]
    OBVIOUS
  <2>1. Sending(new) /\ pc[new] = "park"
    BY <1>1
  <2>2. item[new] \in Entry /\ ~Seen(item[new])
    BY <2>1, NotSeen
  <2>3. \A e \in Entry : Seen(e) /\ e.by = new => e.n < ncalls[new]
    BY <2>1 DEF Inv, FreshInv, Older
  <2> QED
    BY <2>1, <2>2, <2>3 DEF Inv, ItemInv
<1>3. /\ \A i \in DOMAIN queue : queue[i] \in Entry /\ Seen(queue[i]) /\ i \in Nat
      /\ \A i \in DOMAIN ran : ran[i] \in Entry /\ Seen(ran[i])
  BY Elements DEF Seen
<1> HIDE DEF h
<1>4. h = queue[1]
  BY DEF h
<1>5. ItemInv'
  BY <1>0, <1>1, <1>2 DEF Inv, ItemInv, Sending
<1>6. KindInv'
  <2>1. \A k \in DOMAIN queue' : queue'[k].kind \in {"act", "latch"}
    BY <1>1, <1>2 DEF Inv, KindInv
  <2> QED
    BY <1>0, <2>1 DEF Inv, KindInv, Busy
<1>7. ParkInv'
  <2>1. CASE sendq' = sendq /\ sendq = <<>>
    BY <2>1 DEF ParkInv
  <2>2. CASE \A i \in DOMAIN sendq' :
               i + 1 \in DOMAIN sendq /\ sendq'[i] = sendq[i + 1] /\ sendq'[i] # new /\ i \in Nat
    <3>1. \A i \in DOMAIN sendq : sendq[i] \in Clients /\ pc[sendq[i]] = "park"
      BY <1>0 DEF Inv, ParkInv
    <3>2. \A i \in DOMAIN sendq' : sendq'[i] \in Clients /\ pc'[sendq'[i]] = "park"
      BY <1>1, <2>2, <3>1
    <3>3. \A i, j \in DOMAIN sendq' : sendq'[i] = sendq'[j] => i + 1 = j + 1
      BY <2>2 DEF Inv, ParkInv
    <3>4. \A i, j \in DOMAIN sendq' : sendq'[i] = sendq'[j] => i = j
      BY <2>2, <3>3
    <3> QED
      BY <3>2, <3>4 DEF ParkInv
  <2> QED
    BY <1>1, <2>1, <2>2
<1>8. \A e : Seen(e)' => Seen(e) \/ (new \in Clients /\ e = item[new])
  <2>1. Seen(h)
    BY <1>0, <1>3, <1>4
  <2>2. \A e : (\E k \in DOMAIN queue' : e = queue'[k]) => Seen(e) \/ (new \in Clients /\ e = item[new])
    BY <1>1, <1>3
  <2> QED
    BY <1>0, <2>1, <2>2 DEF Seen
<1>9. FreshInv'
  <2> SUFFICES ASSUME NEW e \in Entry, Seen(e)' PROVE Older(e)'
    BY DEF FreshInv
  <2>1. CASE new \in Clients /\ e = item[new]
    <3>1. ncalls[new] \in Nat /\ ~Sending(new)'
      BY <1>1, <2>1, Elements DEF Sending
    <3> QED
      BY <1>0, <1>2, <2>1, <3>1 DEF Older
  <2>2. CASE Seen(e)
    <3>1. Older(e)
      BY <2>2 DEF Inv, FreshInv
    <3>2. e.by = new => e.n < ncalls[e.by]
      BY <1>2, <2>2, <3>1 DEF Older
    <3>3. Sending(e.by)' => Sending(e.by)
      BY <1>1, <3>1 DEF Older, Sending
    <3>4. \A j \in DOMAIN queue' :
            e.nested /\ ~queue'[j].nested /\ queue'[j].by = e.by => e.n < queue'[j].n
      BY <1>1, <1>2, <3>1, <3>2 DEF Older
    <3>5. e.nested /\ MayNest' /\ ~cur'.nested /\ cur'.by = e.by => e.n < cur'.n
      BY <1>0, <1>4, <3>1 DEF Older
    <3> QED
      BY <1>0, <3>1, <3>3, <3>4, <3>5 DEF Older
  <2> QED
    BY <1>8, <2>1, <2>2
<1>10. OrderInv'
  <2>0. \A e \in Entry : Seen(e) /\ new \in Clients => Precedes(e, item[new])
    BY <1>2 DEF Precedes
  <2>1. \A i \in DOMAIN ran, j \in DOMAIN queue' : Precedes(ran[i], queue'[j])
    BY <1>1, <1>3, <2>0 DEF Inv, OrderInv
  <2>2. \A i, j \in DOMAIN queue' : i < j => Precedes(queue'[i], queue'[j])
    <3> SUFFICES ASSUME NEW i \in DOMAIN queue', NEW j \in DOMAIN queue', i < j
                 PROVE  Precedes(queue'[i], queue'[j])
      OBVIOUS
    <3>0. i \in Nat /\ j \in Nat /\ Len(queue) \in Nat
      BY <1>1 DEF Types, TypeQueue
    <3>1. CASE queue'[j] = queue[j + 1] /\ j + 1 \in DOMAIN queue
      <4>1. queue'[i] = queue[i + 1] /\ i + 1 \in DOMAIN queue
        <5>1. j + 1 <= Len(queue)
          BY <3>1 DEF Types, TypeQueue
        <5> QED
          BY <1>1, <3>0, <5>1
      <4> QED
        BY <3>0, <3>1, <4>1 DEF Inv, OrderInv
    <3>2. CASE new \in Clients /\ j = Len(queue) /\ queue'[j] = item[new]
      <4>1. queue'[i] = queue[i + 1] /\ i + 1 \in DOMAIN queue
        BY <1>1, <3>0, <3>2
      <4> QED
        BY <1>3, <2>0, <3>2, <4>1
    <3> QED
      BY <1>1, <3>1, <3>2
  <2>3. \A j \in DOMAIN queue' : Precedes(h, queue'[j])
    BY <1>0, <1>1, <1>3, <1>4, <2>0 DEF Inv, OrderInv
  <2>4. \A i \in DOMAIN ran : Precedes(ran[i], h)
    BY <1>0, <1>4 DEF Inv, OrderInv
  <2>5. \A i, j \in DOMAIN ran : i < j => Precedes(ran[i], ran[j])
    BY DEF Inv, OrderInv
  <2> QED
    BY <1>0, <2>1, <2>2, <2>3, <2>4, <2>5 DEF OrderInv, Precedes
<1>11. CoverInv'
  <2> SUFFICES ASSUME NEW q \in Clients
               PROVE  /\ pc'[q] = "check" \/ (pc'[q] = "latch" /\ item[q] \in fired')
                           => before[q] \cap Pending' = {}
                      /\ pc'[q] = "latch" =>
                           \A j, k \in DOMAIN queue' :
                             queue'[k] = item[q] /\ queue'[j] \in before[q] => j < k
    BY <1>0 DEF CoverInv
  <2>1. new \in Clients => item[new] \notin before[q]
    BY <1>2 DEF Seen
  <2>2. CASE q = new
    <3>1. new \in Clients /\ pc'[q] # "check" /\ item[q] # h /\ item[q] \notin fired
      BY <1>0, <1>1, <1>2, <1>3, <1>4, <2>2 DEF Seen
    <3>2. item[q] \notin fired'
      BY <1>0, <3>1
    <3>3. \A k \in DOMAIN queue' : queue'[k] = item[q] => k = Len(queue)
      BY <1>1, <1>2, <1>3, <2>2, <3>1
    <3>4. \A j \in DOMAIN queue' : queue'[j] \in before[q] => j < Len(queue)
      BY <1>1, <2>1, <2>2, <3>1
    <3> QED
      BY <3>1, <3>2, <3>3, <3>4
  <2>3. CASE q # new
    <3>0. pc'[q] = pc[q]
      BY <1>1, <2>3
    <3>1. pc[q] = "latch" /\ new \in Clients => item[q] # item[new]
      BY <1>2, <2>3 DEF Inv, ItemInv
    <3>2. pc[q] = "latch" =>
            \A j, k \in DOMAIN queue' : queue'[k] = item[q] /\ queue'[j] \in before[q] => j < k
      <4> SUFFICES ASSUME pc[q] = "latch", NEW j \in DOMAIN queue', NEW k \in DOMAIN queue',
                          queue'[k] = item[q], queue'[j] \in before[q]
                   PROVE  j < k
        OBVIOUS
      <4>1. queue[k + 1] = item[q] /\ k + 1 \in DOMAIN queue /\ k \in Nat
        BY <1>1, <3>1
      <4>2. queue[j + 1] \in before[q] /\ j + 1 \in DOMAIN queue /\ j \in Nat
        BY <1>1, <2>1
      <4>3. j + 1 < k + 1
        BY <4>1, <4>2 DEF Inv, CoverInv
      <4> QED
        BY <4>1, <4>2, <4>3
    <3>3. CASE pc[q] = "check" \/ (pc[q] = "latch" /\ item[q] \in fired)
      <4>1. before[q] \cap Pending = {}
        BY <3>3 DEF Inv, CoverInv
      <4>2. Pending' \subseteq Pending \cup (IF new \in Clients THEN {item[new]} ELSE {})
        <5>1. ASSUME NEW k \in DOMAIN queue', queue'[k].kind = "act"
              PROVE  queue'[k] \in Pending \cup (IF new \in Clients THEN {item[new]} ELSE {})
          BY <1>1, <5>1 DEF Pending
        <5>2. Busy' => cur' \in Pending
          BY <1>0, <1>4 DEF Pending, Busy
        <5> QED
          BY <5>1, <5>2 DEF Pending
      <4> QED
        BY <2>1, <3>0, <3>2, <4>1, <4>2
    <3>4. CASE pc[q] = "latch" /\ item[q] \in fired' /\ item[q] \notin fired
      <4>1. item[q] = h /\ ~Busy'
        BY <1>0, <3>4 DEF Busy
      <4>2. \A k \in DOMAIN queue : k > 1 => queue[k] \notin before[q]
        BY <1>0, <1>3, <1>4, <3>4, <4>1 DEF Inv, CoverInv
      <4>3. \A k \in DOMAIN queue' : queue'[k] \notin before[q]
        BY <1>1, <2>1, <4>2
      <4>4. before[q] \cap Pending' = {}
        BY <4>1, <4>3 DEF Pending
      <4> QED
        BY <3>0, <3>2, <3>4, <4>4
    <3> QED
      BY <3>0, <3>2, <3>3, <3>4
  <2> QED
    BY <2>2, <2>3
<1> QED
  BY <1>5, <1>6, <1>7, <1>9, <1>10, <1>11 DEF Inv

\* The inductive invariant holds at the start and is kept by every step.
THEOREM Invariance == Spec => [](Types /\ Inv)
<1>1. Init => Types /\ Inv
  <2> SUFFICES ASSUME Init PROVE Types /\ Inv
    OBVIOUS
  <2>1. Types
    BY InitTypes
  <2>2. ItemInv /\ KindInv /\ ParkInv
    BY DEF Init, ItemInv, KindInv, ParkInv, Sending, Busy
  <2>3. \A e : ~Seen(e)
    BY DEF Init, Seen, Busy
  <2>4. OrderInv /\ CoverInv
    BY DEF Init, OrderInv, CoverInv, Busy
  <2> QED
    BY <2>1, <2>2, <2>3, <2>4 DEF Inv, FreshInv
<1>2. Types /\ Inv /\ [Next]_vars => (Types /\ Inv)'
  <2> SUFFICES ASSUME Types, Inv, [Next]_vars PROVE Types' /\ Inv'
    OBVIOUS
  <2>1. Types'
    BY TypesNext
  <2>2. CASE DrainStep \/ CallsReturn \/ NestedSend
    BY <2>1, <2>2, TakeInv, RunActionInv, QuietSteps, NestedSendInv DEF DrainStep, CallsReturn
  <2>3. ASSUME NEW p \in Clients, Invoke(p) \/ Inside(p) \/ Deadline(p) PROVE Inv'
    <3>1. CASE Send(p) \/ Await(p) \/ AwaitForOne(p)
      BY <2>1, <3>1, SubmitInv DEF Send, Await, AwaitForOne
    <3> QED
      BY <2>1, <2>3, <3>1, QuietSteps, EnqueueInv, AwaitInv DEF Invoke, Inside
  <2>4. CASE UNCHANGED vars
    BY <2>1, <2>4, QuietSteps
  <2> QED
    BY <2>1, <2>2, <2>3, <2>4 DEF Next
<1> QED
  BY <1>1, <1>2, PTL DEF Spec

\* The actions of a client run in the order it sent them, and so do the actions they
\* send, whatever parks, fails, restarts or is dropped in between (agent.go:195-196).
THEOREM RunInSendOrder == Spec => []SendOrder
<1>1. Types /\ Inv => SendOrder
  BY DEF Inv, OrderInv, Precedes, SendOrder
<1> QED
  BY <1>1, Invariance, PTL

\* When the latch of an await has fired, every action sent before the await began has
\* run or been dropped, whoever sent it (agent.go:300-302).
THEOREM AwaitIsBarrier == Spec => []AwaitCoversSent
<1>1. Types /\ Inv => AwaitCoversSent
  BY DEF Inv, CoverInv, AwaitCoversSent
<1> QED
  BY <1>1, Invariance, PTL
=============================================================================
