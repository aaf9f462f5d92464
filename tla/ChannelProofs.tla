---------------------------- MODULE ChannelProofs ----------------------------
(***************************************************************************)
(* Proofs about Channel, for any number of goroutines and any kind of      *)
(* channel (the shape): an inductive invariant IInv, and from it type      *)
(* correctness, the serialization of the transducer, the single firing of  *)
(* c.done, and what a take that answers nil promises.  Then, each with an  *)
(* invariant of its own: promise-chans are latches, only a late element of *)
(* an offer parks, no element is in two places or vanishes, and those of   *)
(* one producer keep their order.                                          *)
(***************************************************************************)
EXTENDS Channel, TLAPS

\* No step changes what kind of channel this is.
ShapeKept ==
  /\ shape' = shape /\ Cap' = Cap /\ Policy' = Policy
  /\ HasXform' = HasXform /\ Promise' = Promise /\ Guarded' = Guarded

\* A goroutine is inside bufferAdd, or about to call it or just back.
Adding(p) == pc[p] \in {"add", "park", "evict", "readd"}

\* A queue q holds each of its goroutines once, and all of them are, by f, in
\* the given state.
Parked(f, q, state) ==
  /\ q \in Seq(Procs)
  /\ \A i \in 1..Len(q) : f[q[i]] = state
  /\ \A i, j \in 1..Len(q) : q[i] = q[j] => i = j

QueueInv == Parked(pc, sendq, "park") /\ Parked(pc, recvq, "wait")

\* A goroutine about to send has something to send.
TodoAt(p) ==
  (pc[p] \in {"try", "park", "evict", "readd"} \/ (pc[p] = "born" /\ op[p] = "send"))
    => todo[p] # <<>>

\* Which call a goroutine is in, from where it is, and the other way round.
OpAt(p) ==
  /\ Adding(p) => op[p] \in {"send", "offer", "put", "close"}
  /\ op[p] = "recv" => pc[p] \in {"born", "select", "wait", "drain", "await"}
  /\ pc[p] \in {"select", "wait", "drain", "await"} => op[p] = "recv"
  /\ pc[p] = "born" => op[p] \in {"send", "recv"}
  /\ pc[p] = "try" => op[p] \in {"offer", "put"}

\* Where a goroutine can be on which kind of channel.
ShapeAt(p) ==
  /\ pc[p] = "try" => ~Guarded
  /\ pc[p] \in {"evict", "readd"} => Policy = "sliding"
  /\ pc[p] = "park" => Policy = "fixed"
  /\ pc[p] = "await" => Promise
  /\ (Adding(p) \/ pc[p] \in {"try", "select", "wait", "drain"}) => ~Promise
  /\ pc[p] = "drain" => done
  /\ Adding(p) /\ op[p] = "close" => HasXform

\* The lock discipline of a guarded channel.
LockAt(p) ==
  Guarded /\ Adding(p) =>
    /\ mu = p
    /\ closed => op[p] = "close"
    /\ op[p] = "close" => closed /\ ~done

ProcInv == \A p \in Procs : TodoAt(p) /\ OpAt(p) /\ ShapeAt(p) /\ LockAt(p)

\* A promise-chan has no queue, and only a promise-chan latches a value.
LatchInv ==
  /\ Promise => buf = <<>> /\ sendq = <<>>
  /\ ~Promise => ~delivered
  /\ ~delivered => pval = <<>>

\* c.done fires once, and on a guarded channel after the last element.
DoneInv ==
  /\ ~crashed
  /\ done => closed \/ delivered
  /\ Guarded /\ sawNil => done /\ buf = <<>> /\ sendq = <<>>

\* A sliding put that has evicted finds room; it never discards what it adds.
SlideInv ==
  /\ \A p \in Procs : pc[p] = "readd" => Len(buf) < Cap
  /\ rejected = {}

IInv == TypeOK /\ QueueInv /\ ProcInv /\ LatchInv /\ DoneInv /\ SlideInv
------------------------------------------------------------------------------
\* What a removal from the front and an addition at the back of a sequence do.
LEMMA TailFacts ==
  ASSUME NEW S, NEW s \in Seq(S), s # <<>>
  PROVE  /\ Head(s) \in S
         /\ s[1] = Head(s)
         /\ Tail(s) \in Seq(S)
         /\ Len(s) \in Nat /\ Len(s) > 0
         /\ Len(Tail(s)) = Len(s) - 1
         /\ \A i \in 1..Len(Tail(s)) : Tail(s)[i] = s[i + 1]
OBVIOUS

LEMMA AppendFacts ==
  ASSUME NEW S, NEW s \in Seq(S), NEW e \in S
  PROVE  /\ Append(s, e) \in Seq(S)
         /\ Append(s, e) # <<>>
         /\ Len(s) \in Nat
         /\ Len(Append(s, e)) = Len(s) + 1
         /\ \A i \in 1..Len(Append(s, e)) :
              Append(s, e)[i] = IF i = Len(s) + 1 THEN e ELSE s[i]
OBVIOUS

LEMMA EmptyFacts ==
  /\ \A S : <<>> \in Seq(S)
  /\ Len(<<>>) = 0
OBVIOUS

\* The longest waiting goroutine leaves a queue, or none does, or one joins it.
LEMMA ParkedTail ==
  ASSUME NEW f, NEW g, NEW q, NEW state, Parked(f, q, state), q # <<>>,
         \A x \in Procs : f[x] = state /\ x # Head(q) => g[x] = state
  PROVE  Head(q) \in Procs /\ f[Head(q)] = state /\ Parked(g, Tail(q), state)
<1>1. q \in Seq(Procs) BY DEF Parked
<1>2. /\ Head(q) \in Procs /\ q[1] = Head(q) /\ Tail(q) \in Seq(Procs)
      /\ Len(q) \in Nat /\ Len(q) > 0 /\ Len(Tail(q)) = Len(q) - 1
      /\ \A i \in 1..Len(Tail(q)) : Tail(q)[i] = q[i + 1]
  BY <1>1, TailFacts
<1>3. \A i \in 1..Len(Tail(q)) :
        /\ i + 1 \in 1..Len(q) /\ i + 1 # 1
        /\ q[i + 1] \in Procs /\ q[i + 1] # q[1] /\ f[q[i + 1]] = state
  BY <1>1, <1>2 DEF Parked
<1>4. \A i \in 1..Len(Tail(q)) : g[Tail(q)[i]] = state
  BY <1>2, <1>3
<1>5. \A i, j \in 1..Len(Tail(q)) : Tail(q)[i] = Tail(q)[j] => i = j
  BY <1>2, <1>3 DEF Parked
<1> QED BY <1>2, <1>4, <1>5 DEF Parked

LEMMA ParkedKeep ==
  ASSUME NEW f, NEW g, NEW q, NEW state, Parked(f, q, state),
         \A x \in Procs : f[x] = state => g[x] = state
  PROVE  Parked(g, q, state)
BY DEF Parked

LEMMA ParkedAppend ==
  ASSUME NEW f, NEW g, NEW q, NEW state, NEW p \in Procs, Parked(f, q, state),
         f[p] # state, g[p] = state,
         \A x \in Procs : f[x] = state => g[x] = state
  PROVE  Parked(g, Append(q, p), state)
<1>1. q \in Seq(Procs) BY DEF Parked
<1>2. /\ Append(q, p) \in Seq(Procs) /\ Len(q) \in Nat /\ Len(Append(q, p)) = Len(q) + 1
      /\ \A i \in 1..Len(Append(q, p)) : Append(q, p)[i] = IF i = Len(q) + 1 THEN p ELSE q[i]
  BY <1>1, AppendFacts
<1>3. \A i \in 1..Len(q) : q[i] \in Procs /\ q[i] # p /\ g[q[i]] = state
  BY <1>1 DEF Parked
<1> QED BY <1>2, <1>3 DEF Parked

\* What the type invariant says of the variables most steps touch.
LEMMA Types ==
  ASSUME IInv
  PROVE  /\ buf \in Seq(Elem) /\ Len(buf) \in Nat /\ Len(buf) <= Cap /\ Cap \in Nat
         /\ taken \in Seq(Elem) /\ todo \in [Procs -> Seq(Elem)]
         /\ sendq \in Seq(Procs) /\ recvq \in Seq(Procs)
         /\ pc \in [Procs -> PCs] /\ op \in [Procs -> OpNames] /\ res \in [Procs -> Results]
         /\ end \in [Procs -> Ends] /\ nops \in [Procs -> 0..MaxOps]
         /\ NoProc \notin Procs /\ Workers \subseteq Procs
         /\ (Guarded => Cap > 0) /\ (Promise => ~Guarded) /\ (HasXform => Guarded)
<1>1. shape \in ChanShape BY ChannelAssumption DEF IInv, TypeOK
<1>2. Cap \in Nat /\ (Guarded => Cap > 0) /\ (Promise => ~Guarded) /\ (HasXform => Guarded)
  BY <1>1 DEF ChanShape, Cap, Policy, HasXform, Promise, Guarded
<1> QED BY <1>2, ChannelAssumption DEF IInv, TypeOK

LEMMA SendStep ==
  ASSUME IInv, ShapeKept, NEW p \in Procs, GoSend(p),
         pc[p] \in {"try", "add", "readd"}, todo[p] # <<>>,
         UNCHANGED <<done, closed, mu, latch, end, nops, crashed>>
  PROVE  IInv'
<1> USE DEF ShapeKept
<1> DEFINE r == Head(recvq)
<1> USE Types
<1>1. Head(todo[p]) \in Elem /\ Tail(todo[p]) \in Seq(Elem)
  BY TailFacts
<1>2. /\ CanSend /\ UNCHANGED <<sendq, lost, rejected, sawNil>>
      /\ todo' = [todo EXCEPT ![p] = Tail(todo[p])]
  BY DEF GoSend
<1>3. todo' \in [Procs -> Seq(Elem)] BY <1>1, <1>2
<1>4. ~Promise /\ (Guarded => ~done /\ ~sawNil)
  BY DEF IInv, ProcInv, ShapeAt, OpAt, LockAt, DoneInv, LatchInv, Adding
<1>5. CASE recvq # <<>>
  <2>1. /\ recvq' = Tail(recvq) /\ taken' = Append(taken, Head(todo[p]))
        /\ pc' = [pc EXCEPT ![p] = "add", ![r] = "idle"]
        /\ op' = [op EXCEPT ![r] = "none"]
        /\ res' = [res EXCEPT ![r] = "value"]
        /\ buf' = buf
    BY <1>5 DEF GoSend
  <2>2. Head(recvq) \in Procs /\ pc[Head(recvq)] = "wait" /\ Parked(pc, Tail(recvq), "wait")
    BY <1>5, ParkedTail DEF IInv, QueueInv
  <2>3. r \in Procs /\ pc[r] = "wait" /\ recvq' \in Seq(Procs)
    BY <2>1, <2>2 DEF Parked
  <2>4. r # p /\ op[r] = "recv" BY <2>3 DEF IInv, ProcInv, OpAt
  <2>5. TypeOK'
    <3>1. taken' \in Seq(Elem) BY <1>1, <2>1, AppendFacts
    <3>2. pc' \in [Procs -> PCs] BY <2>1, <2>3 DEF PCs
    <3>3. op' \in [Procs -> OpNames] BY <2>1 DEF OpNames
    <3>4. res' \in [Procs -> Results] BY <2>1 DEF Results
    <3> QED BY <1>2, <1>3, <2>1, <2>3, <3>1, <3>2, <3>3, <3>4 DEF IInv, TypeOK, latch
  <2>6. QueueInv'
    <3>1. Parked(pc', sendq, "park")
      BY <2>1, <2>3, <2>4, ParkedKeep DEF IInv, QueueInv
    <3>2. Parked(pc', Tail(recvq), "wait")
      BY <1>5, <2>1, <2>4, ParkedTail DEF IInv, QueueInv
    <3> QED BY <1>2, <2>1, <3>1, <3>2 DEF QueueInv
  <2>7. ProcInv'
    <3> SUFFICES ASSUME NEW q \in Procs PROVE (TodoAt(q) /\ OpAt(q) /\ ShapeAt(q) /\ LockAt(q))'
      BY DEF ProcInv
    <3>1. TodoAt(q)' BY <1>2, <2>1, <2>3, <2>4 DEF IInv, ProcInv, TodoAt
    <3>2. OpAt(q)' BY <2>1, <2>3, <2>4 DEF IInv, ProcInv, OpAt, Adding
    <3>3. ShapeAt(q)' BY <2>1, <2>3, <2>4 DEF IInv, ProcInv, ShapeAt, OpAt, Adding
    <3>4. LockAt(q)' BY <2>1, <2>3, <2>4 DEF IInv, ProcInv, LockAt, ShapeAt, Adding
    <3> QED BY <3>1, <3>2, <3>3, <3>4
  <2>8. LatchInv' BY <1>4, <2>1 DEF IInv, LatchInv, latch
  <2>9. DoneInv' BY <1>2, <1>4, <2>1 DEF IInv, DoneInv, latch
  <2>10. SlideInv' BY <1>2, <2>1, <2>3, <2>4 DEF IInv, SlideInv
  <2> QED BY <2>5, <2>6, <2>7, <2>8, <2>9, <2>10 DEF IInv
<1>6. CASE recvq = <<>>
  <2>1. /\ buf' = Append(buf, Head(todo[p])) /\ Len(buf) < Cap
        /\ pc' = [pc EXCEPT ![p] = "add"]
        /\ UNCHANGED <<recvq, taken, op, res>>
    BY <1>6 DEF GoSend, CanSend
  <2>2. TypeOK'
    <3>1. buf' \in Seq(Elem) /\ Len(buf') <= Cap BY <1>1, <2>1, AppendFacts
    <3>2. pc' \in [Procs -> PCs] BY <2>1 DEF PCs
    <3> QED BY <1>2, <1>3, <2>1, <3>1, <3>2 DEF IInv, TypeOK, latch
  <2>3. QueueInv' BY <1>2, <2>1, ParkedKeep DEF IInv, QueueInv
  <2>4. ProcInv'
    <3> SUFFICES ASSUME NEW q \in Procs PROVE (TodoAt(q) /\ OpAt(q) /\ ShapeAt(q) /\ LockAt(q))'
      BY DEF ProcInv
    <3>1. TodoAt(q)' BY <1>2, <2>1 DEF IInv, ProcInv, TodoAt
    <3>2. OpAt(q)' BY <2>1 DEF IInv, ProcInv, OpAt, Adding
    <3>3. ShapeAt(q)' BY <2>1 DEF IInv, ProcInv, ShapeAt, OpAt, Adding
    <3>4. LockAt(q)' BY <2>1 DEF IInv, ProcInv, LockAt, ShapeAt, Adding
    <3> QED BY <3>1, <3>2, <3>3, <3>4
  <2>5. LatchInv' BY <1>4 DEF IInv, LatchInv, latch
  <2>6. DoneInv' BY <1>2, <1>4, <2>1 DEF IInv, DoneInv, latch
  <2>7. SlideInv'
    <3>1. \A q \in Procs : pc'[q] # "readd"
      BY <2>1 DEF IInv, ProcInv, LockAt, ShapeAt, Adding, Guarded
    <3> QED BY <1>2, <3>1 DEF IInv, SlideInv
  <2> QED BY <2>2, <2>3, <2>4, <2>5, <2>6, <2>7 DEF IInv
<1> QED BY <1>5, <1>6

\* A Go channel receive keeps the invariant, whichever call makes it.
LEMMA RecvStep ==
  ASSUME IInv, ShapeKept, NEW p \in Procs, GoRecv(p),
         pc[p] \in {"idle", "select", "drain"} \/ (pc[p] = "born" /\ op[p] = "recv"),
         nops' \in [Procs -> 0..MaxOps],
         UNCHANGED <<done, closed, mu, latch, end, crashed>>
  PROVE  IInv'
<1> USE DEF ShapeKept
<1> DEFINE h == Head(sendq)
<1> USE Types
<1>1. /\ CanRecv /\ UNCHANGED <<recvq, lost, rejected, sawNil>>
      /\ taken' = Append(taken, Front) /\ buf' = BufAfterRecv
      /\ op' = [op EXCEPT ![p] = "none"] /\ res' = [res EXCEPT ![p] = "value"]
  BY DEF GoRecv
<1>2. ~Promise /\ ~(Guarded /\ sawNil)
  BY <1>1 DEF IInv, LatchInv, DoneInv, CanRecv
<1>3. op' \in [Procs -> OpNames] /\ res' \in [Procs -> Results]
  BY <1>1 DEF OpNames, Results
<1>4. CASE sendq = <<>>
  <2>1. /\ sendq' = <<>> /\ todo' = todo /\ pc' = [pc EXCEPT ![p] = "idle"]
        /\ buf # <<>> /\ buf' = Tail(buf) /\ taken' = Append(taken, Head(buf))
    BY <1>1, <1>4 DEF GoRecv, Released, BufAfterRecv, CanRecv, Front
  <2>2. /\ Head(buf) \in Elem /\ buf' \in Seq(Elem)
        /\ Len(buf') \in Nat /\ Len(buf') < Len(buf)
    BY <2>1, TailFacts
  <2>3. TypeOK'
    <3>1. taken' \in Seq(Elem) BY <2>1, <2>2, AppendFacts
    <3>2. pc' \in [Procs -> PCs] BY <2>1 DEF PCs
    <3>3. Len(buf') <= Cap' BY <2>2
    <3> QED BY <1>1, <1>3, <1>4, <2>1, <2>2, <3>1, <3>2, <3>3 DEF IInv, TypeOK, latch
  <2>4. QueueInv' BY <1>1, <1>4, <2>1, ParkedKeep DEF IInv, QueueInv
  <2>5. ProcInv'
    <3> SUFFICES ASSUME NEW q \in Procs PROVE (TodoAt(q) /\ OpAt(q) /\ ShapeAt(q) /\ LockAt(q))'
      BY DEF ProcInv
    <3>1. TodoAt(q)' BY <1>1, <2>1 DEF IInv, ProcInv, TodoAt
    <3>2. OpAt(q)' BY <1>1, <2>1 DEF IInv, ProcInv, OpAt, Adding
    <3>3. ShapeAt(q)' BY <1>1, <2>1 DEF IInv, ProcInv, ShapeAt, Adding
    <3>4. LockAt(q)' BY <1>1, <2>1 DEF IInv, ProcInv, LockAt, Adding
    <3> QED BY <3>1, <3>2, <3>3, <3>4
  <2>6. LatchInv' BY <1>2 DEF IInv, LatchInv, latch
  <2>7. DoneInv' BY <1>1, <1>2 DEF IInv, DoneInv, latch
  <2>8. SlideInv' BY <1>1, <2>1, <2>2 DEF IInv, SlideInv
  <2> QED BY <2>3, <2>4, <2>5, <2>6, <2>7, <2>8 DEF IInv
<1>5. CASE sendq # <<>>
  <2>1. /\ sendq' = Tail(sendq)
        /\ pc' = [[pc EXCEPT ![h] = "add"] EXCEPT ![p] = "idle"]
        /\ todo' = [todo EXCEPT ![h] = Tail(todo[h])]
    BY <1>5 DEF GoRecv, Released
  <2>2. Head(sendq) \in Procs /\ pc[Head(sendq)] = "park" /\ Parked(pc, Tail(sendq), "park")
    BY <1>5, ParkedTail DEF IInv, QueueInv
  <2>3. h \in Procs /\ pc[h] = "park" /\ sendq' \in Seq(Procs)
    BY <2>1, <2>2 DEF Parked
  <2>4. h # p /\ todo[h] # <<>> /\ Policy = "fixed"
    BY <2>3 DEF IInv, ProcInv, TodoAt, ShapeAt
  <2>5. Head(todo[h]) \in Elem /\ Tail(todo[h]) \in Seq(Elem)
    BY <2>3, <2>4, TailFacts
  <2>6. Front \in Elem /\ buf' \in Seq(Elem) /\ Len(buf') <= Cap
    <3>1. CASE buf = <<>> BY <1>1, <1>5, <2>5, <3>1 DEF Front, BufAfterRecv
    <3>2. CASE buf # <<>>
      <4>1. buf' = Append(Tail(buf), Head(todo[h])) /\ Front = Head(buf)
        BY <1>1, <1>5, <3>2 DEF Front, BufAfterRecv
      <4>2. /\ Head(buf) \in Elem /\ Tail(buf) \in Seq(Elem)
            /\ Len(Tail(buf)) = Len(buf) - 1
        BY <3>2, TailFacts
      <4> QED BY <2>5, <4>1, <4>2, AppendFacts
    <3> QED BY <3>1, <3>2
  <2>7. TypeOK'
    <3>1. taken' \in Seq(Elem) BY <1>1, <2>6, AppendFacts
    <3>2. pc' \in [Procs -> PCs] BY <2>1, <2>3 DEF PCs
    <3>3. todo' \in [Procs -> Seq(Elem)] BY <2>1, <2>5
    <3> QED BY <1>1, <1>3, <2>3, <2>6, <3>1, <3>2, <3>3 DEF IInv, TypeOK, latch
  <2>8. QueueInv'
    <3>1. \A x \in Procs : pc[x] = "wait" => pc'[x] = "wait"
      BY <2>1, <2>3
    <3>2. \A x \in Procs : pc[x] = "park" /\ x # Head(sendq) => pc'[x] = "park"
      BY <2>1, <2>3
    <3>3. Parked(pc', recvq, "wait") BY <3>1, ParkedKeep DEF IInv, QueueInv
    <3>4. Parked(pc', Tail(sendq), "park") BY <1>5, <3>2, ParkedTail DEF IInv, QueueInv
    <3> QED BY <1>1, <2>1, <3>3, <3>4 DEF QueueInv
  <2>9. ProcInv'
    <3> SUFFICES ASSUME NEW q \in Procs PROVE (TodoAt(q) /\ OpAt(q) /\ ShapeAt(q) /\ LockAt(q))'
      BY DEF ProcInv
    <3>1. TodoAt(q)' BY <1>1, <2>1, <2>3, <2>4 DEF IInv, ProcInv, TodoAt
    <3>2. OpAt(q)' BY <1>1, <2>1, <2>3, <2>4 DEF IInv, ProcInv, OpAt, Adding
    <3>3. ShapeAt(q)' BY <1>1, <2>1, <2>3, <2>4 DEF IInv, ProcInv, ShapeAt, Adding
    <3>4. LockAt(q)' BY <1>1, <2>1, <2>3, <2>4 DEF IInv, ProcInv, LockAt, Adding
    <3> QED BY <3>1, <3>2, <3>3, <3>4
  <2>10. LatchInv' BY <1>2 DEF IInv, LatchInv, latch
  <2>11. DoneInv' BY <1>1, <1>2 DEF IInv, DoneInv, latch
  <2>12. SlideInv' BY <1>1, <2>1, <2>3, <2>4 DEF IInv, SlideInv, ProcInv, ShapeAt
  <2> QED BY <2>7, <2>8, <2>9, <2>10, <2>11, <2>12 DEF IInv
<1> QED BY <1>4, <1>5

\* A step that leaves c.ch and c.done alone and moves only the
\* goroutines M, none of them parked, to where they may be.
LocalMove(M) ==
  /\ UNCHANGED <<buf, sendq, recvq, done, delivered, pval, crashed>>
  /\ closed' \in BOOLEAN /\ (closed => closed')
  /\ pc' \in [Procs -> PCs] /\ op' \in [Procs -> OpNames] /\ todo' \in [Procs -> Seq(Elem)]
  /\ end' \in [Procs -> Ends] /\ nops' \in [Procs -> 0..MaxOps] /\ res' \in [Procs -> Results]
  /\ mu' \in Procs \cup {NoProc} /\ taken' \in Seq(Elem) /\ lost' \subseteq Elem /\ rejected' = {}
  /\ sawNil' \in BOOLEAN /\ (Guarded /\ sawNil' => done /\ buf = <<>> /\ sendq = <<>>)
  /\ \A q \in M : pc[q] \notin {"park", "wait"} /\ pc'[q] # "readd"
  /\ \A q \in M : TodoAt(q)' /\ OpAt(q)' /\ ShapeAt(q)' /\ LockAt(q)'
  /\ \A q \in Procs \ M : pc'[q] = pc[q] /\ op'[q] = op[q] /\ todo'[q] = todo[q]
  /\ \A q \in Procs \ M : Guarded /\ Adding(q) => mu' = mu /\ closed' = closed

LEMMA LocalStep ==
  ASSUME IInv, ShapeKept, NEW M \in SUBSET Procs, LocalMove(M)
  PROVE  IInv'
<1> USE DEF ShapeKept
<1> USE Types DEF LocalMove
<1>1. TypeOK' BY DEF IInv, TypeOK
<1>2. QueueInv'
  <2>1. \A x \in Procs : (pc[x] = "wait" => pc'[x] = "wait") /\ (pc[x] = "park" => pc'[x] = "park")
    OBVIOUS
  <2> QED BY <2>1, ParkedKeep DEF IInv, QueueInv
<1>3. ProcInv'
  <2>1. ASSUME NEW q \in Procs \ M PROVE TodoAt(q)' /\ OpAt(q)' /\ ShapeAt(q)' /\ LockAt(q)'
    BY <2>1 DEF IInv, ProcInv, TodoAt, OpAt, ShapeAt, LockAt, Adding
  <2> QED BY <2>1 DEF ProcInv
<1>4. LatchInv' /\ DoneInv' BY DEF IInv, LatchInv, DoneInv
<1>5. SlideInv' BY DEF IInv, SlideInv
<1> QED BY <1>1, <1>2, <1>3, <1>4, <1>5 DEF IInv

\* close(c.done) keeps the invariant when it comes once and, on a guarded
\* channel, from the only goroutine that may still be adding.
LEMMA CloseStep ==
  ASSUME IInv, ShapeKept, NEW p \in Procs, CloseDone(p), ~done,
         pc[p] \notin {"park", "wait"},
         \A q \in Procs \ {p} : Guarded => ~Adding(q),
         UNCHANGED <<buf, sendq, taken, lost, rejected, sawNil>>,
         op' \in [Procs -> OpNames], todo' \in [Procs -> Seq(Elem)],
         end' \in [Procs -> Ends], nops' \in [Procs -> 0..MaxOps], res' \in [Procs -> Results],
         mu' \in Procs \cup {NoProc}, closed' \in BOOLEAN, delivered' \in BOOLEAN,
         pval' \in Seq(Elem), closed' \/ delivered', LatchInv',
         op'[p] # "recv",
         \A q \in Procs \ {p} : op'[q] = op[q] /\ todo'[q] = todo[q]
  PROVE  IInv'
<1> USE DEF ShapeKept
<1> USE Types
<1>1. /\ done' = TRUE /\ crashed' = (crashed \/ done) /\ recvq' = <<>>
      /\ pc' = [q \in Procs |-> IF q = p THEN "idle"
                                 ELSE IF pc[q] = "wait" THEN "drain" ELSE pc[q]]
  BY DEF CloseDone
<1>2. crashed' = FALSE BY <1>1 DEF IInv, DoneInv, TypeOK
<1>3. TypeOK'
  <2>1. pc' \in [Procs -> PCs] BY <1>1 DEF PCs
  <2>2. recvq' \in Seq(Procs) BY <1>1
  <2> QED BY <1>1, <1>2, <2>1, <2>2 DEF IInv, TypeOK
<1>4. QueueInv'
  <2>1. \A x \in Procs : pc[x] = "park" => pc'[x] = "park" BY <1>1
  <2>2. Parked(pc', sendq, "park") BY <2>1, ParkedKeep DEF IInv, QueueInv
  <2>3. Parked(pc', <<>>, "wait") BY DEF Parked
  <2> QED BY <1>1, <2>2, <2>3 DEF QueueInv
<1>5. ProcInv'
  <2> SUFFICES ASSUME NEW q \in Procs PROVE (TodoAt(q) /\ OpAt(q) /\ ShapeAt(q) /\ LockAt(q))'
    BY DEF ProcInv
  <2>1. CASE q = p
    BY <1>1, <2>1 DEF TodoAt, OpAt, ShapeAt, LockAt, Adding
  <2>2. CASE q # p
    <3>1. TodoAt(q) /\ OpAt(q) /\ ShapeAt(q) BY DEF IInv, ProcInv
    <3>2. TodoAt(q)' BY <1>1, <2>2, <3>1 DEF TodoAt
    <3>3. OpAt(q)' BY <1>1, <2>2, <3>1 DEF OpAt, Adding
    <3>4. ShapeAt(q)' BY <1>1, <2>2, <3>1 DEF ShapeAt, Adding
    <3>5. LockAt(q)' BY <1>1, <2>2 DEF LockAt, Adding
    <3> QED BY <3>2, <3>3, <3>4, <3>5
  <2> QED BY <2>1, <2>2
<1>6. DoneInv' BY <1>1, <1>2 DEF IInv, DoneInv
<1>7. SlideInv' BY <1>1 DEF IInv, SlideInv
<1> QED BY <1>3, <1>4, <1>5, <1>6, <1>7 DEF IInv

\* Entering a call.
LEMMA EnterFacts ==
  ASSUME IInv, NEW p \in Procs, NEW o, Enter(p, o)
  PROVE  /\ pc[p] \in {"idle", "born"} /\ (pc[p] = "born" => op[p] = o)
         /\ nops' \in [Procs -> 0..MaxOps]
         /\ pc[p] = "idle" => nops[p] + 1 \in 0..MaxOps
BY Types, ChannelAssumption DEF Enter

LEMMA ArgType ==
  ASSUME IInv, NEW p \in Procs, NEW o, Enter(p, o), o \in {"send", "offer", "put"}
  PROVE  Arg(p) \in Elem
<1> USE Types, EnterFacts, ChannelAssumption
<1>1. CASE pc[p] = "born"
  <2>1. todo[p] # <<>> BY <1>1 DEF IInv, ProcInv, OpAt, TodoAt
  <2> QED BY <1>1, <2>1, TailFacts DEF Arg
<1>2. CASE pc[p] = "idle" BY <1>2 DEF Arg, Elem
<1> QED BY <1>1, <1>2

\* The transducer hands on a sequence of elements.
LEMMA EmittedType ==
  ASSUME NEW e \in Elem, NEW base \in {0, MaxPart}, NEW o \in XOutcomes \cup FlushOutcomes
  PROVE  Emitted(e, base, o) \in Seq(Elem) /\ Ending(o) \in Ends
<1> DEFINE k == o.n + (IF o.end = "panic" /\ shape.exh THEN 1 ELSE 0)
<1>1. /\ MaxPart \in Nat /\ o.n \in Nat /\ o.n + 1 <= MaxPart
      /\ o.end \in {"ok", "reduced", "panic", "throw"}
  BY ChannelAssumption DEF Outcome
<1>2. k \in Nat /\ k <= MaxPart BY <1>1
<1>3. \A i \in 1..k : [e EXCEPT !.part = base + i] \in Elem
  <2> SUFFICES ASSUME NEW i \in 1..k PROVE [e EXCEPT !.part = base + i] \in Elem
    OBVIOUS
  <2>1. base + i \in 0..2 * MaxPart BY <1>1, <1>2
  <2> QED BY <2>1 DEF Elem
<1> DEFINE f(i) == [e EXCEPT !.part = base + i]
<1>4. [i \in 1..k |-> f(i)] \in Seq(Elem)
  <2>1. \A i \in 1..k : f(i) \in Elem BY <1>3
  <2> HIDE DEF f, k
  <2> QED BY <1>2, <2>1
<1> QED BY <1>1, <1>4 DEF Emitted, Ending, Ends

\* The same for one goroutine p, which goes to v in call o with t left to add.
SoloMove(p, v, o, t) ==
  /\ UNCHANGED <<buf, sendq, recvq, done, delivered, pval, rejected, crashed>>
  /\ closed' \in BOOLEAN /\ (closed => closed')
  /\ pc' = [pc EXCEPT ![p] = v]
  /\ op' = [op EXCEPT ![p] = o]
  /\ todo' = [todo EXCEPT ![p] = t]
  /\ end' \in [Procs -> Ends] /\ nops' \in [Procs -> 0..MaxOps] /\ res' \in [Procs -> Results]
  /\ mu' \in Procs \cup {NoProc} /\ taken' \in Seq(Elem) /\ lost' \subseteq Elem
  /\ sawNil' \in BOOLEAN /\ (Guarded /\ sawNil' => done /\ buf = <<>> /\ sendq = <<>>)
  /\ mu \in {NoProc, p} \/ (mu' = mu /\ closed' = closed)

LEMMA SoloStep ==
  ASSUME IInv, ShapeKept, NEW p \in Procs, NEW v \in PCs \ {"readd"}, NEW o \in OpNames, NEW t \in Seq(Elem),
         pc[p] \notin {"park", "wait"}, SoloMove(p, v, o, t),
         TodoAt(p)' /\ OpAt(p)' /\ ShapeAt(p)' /\ LockAt(p)'
  PROVE  IInv'
<1> USE DEF ShapeKept
<1> USE Types
<1>1. rejected' = {} BY DEF IInv, SlideInv, SoloMove
<1>2. /\ pc' \in [Procs -> PCs] /\ op' \in [Procs -> OpNames] /\ todo' \in [Procs -> Seq(Elem)]
      /\ pc'[p] # "readd"
      /\ \A q \in Procs \ {p} : pc'[q] = pc[q] /\ op'[q] = op[q] /\ todo'[q] = todo[q]
  BY DEF SoloMove
<1>3. \A q \in Procs \ {p} : Guarded /\ Adding(q) => mu' = mu /\ closed' = closed
  BY DEF IInv, ProcInv, LockAt, SoloMove
<1>4. \A q \in {p} : /\ pc[q] \notin {"park", "wait"} /\ pc'[q] # "readd"
                     /\ TodoAt(q)' /\ OpAt(q)' /\ ShapeAt(q)' /\ LockAt(q)'
  BY <1>2
<1>5. LocalMove({p}) BY <1>1, <1>2, <1>3, <1>4 DEF SoloMove, LocalMove
<1> QED BY <1>5, LocalStep

\* What a call that has not touched the Go channel yet leaves alone.
Frame == UNCHANGED <<buf, sendq, recvq, done, closed, delivered, pval,
                     taken, lost, rejected, sawNil, crashed>>

\* The history variables are as they should be.
LEMMA HistoryTypes ==
  ASSUME IInv
  PROVE  /\ lost \subseteq Elem /\ sawNil \in BOOLEAN /\ closed \in BOOLEAN
         /\ mu \in Procs \cup {NoProc}
         /\ Guarded /\ sawNil => done /\ buf = <<>> /\ sendq = <<>>
BY DEF IInv, TypeOK, DoneInv

\* A goroutine that has returned is where it may be.
LEMMA IdleAt ==
  ASSUME NEW p \in Procs, pc'[p] = "idle", op'[p] # "recv"
  PROVE  TodoAt(p)' /\ OpAt(p)' /\ ShapeAt(p)' /\ LockAt(p)'
BY DEF TodoAt, OpAt, ShapeAt, LockAt, Adding

LEMMA ReturnInv ==
  ASSUME IInv, ShapeKept, NEW p \in Procs, NEW r \in Results, pc[p] \notin {"park", "wait"}, Return(p, r),
         UNCHANGED <<buf, sendq, recvq, done, closed, delivered, pval, lost, rejected, crashed,
                     mu, end>>,
         nops' \in [Procs -> 0..MaxOps], taken' \in Seq(Elem),
         sawNil' \in BOOLEAN, Guarded /\ sawNil' => done /\ buf = <<>> /\ sendq = <<>>
  PROVE  IInv'
<1> USE DEF ShapeKept
<1> USE Types, HistoryTypes
<1>1. SoloMove(p, "idle", "none", <<>>)
  BY DEF Return, SoloMove
<1>2. pc'[p] = "idle" /\ op'[p] = "none" BY <1>1 DEF SoloMove
<1>3. TodoAt(p)' /\ OpAt(p)' /\ ShapeAt(p)' /\ LockAt(p)' BY <1>2, IdleAt
<1>4. "idle" \in PCs \ {"readd"} /\ "none" \in OpNames BY DEF PCs, OpNames
<1> QED BY <1>1, <1>3, <1>4, EmptyFacts, SoloStep

LEMMA LockedPutInv ==
  ASSUME IInv, ShapeKept, NEW p \in Procs, NEW o \in {"send", "offer", "put"}, NEW e \in Elem,
         Guarded, ~Promise, ~closed, mu = NoProc, pc[p] \in {"idle", "born"},
         LockedPut(p, o, e), Frame, nops' \in [Procs -> 0..MaxOps]
  PROVE  IInv'
<1> USE DEF ShapeKept
<1> USE Types, HistoryTypes
<1>1. PICK t \in Seq(Elem), d \in Ends :
        todo' = [todo EXCEPT ![p] = t] /\ end' = [end EXCEPT ![p] = d]
  <2>1. CASE HasXform
    <3>1. PICK x \in XOutcomes :
            /\ todo' = [todo EXCEPT ![p] = Emitted(e, 0, x)]
            /\ end' = [end EXCEPT ![p] = Ending(x)]
      BY <2>1 DEF LockedPut
    <3>2. Emitted(e, 0, x) \in Seq(Elem) /\ Ending(x) \in Ends BY EmittedType
    <3> QED BY <3>1, <3>2
  <2>2. CASE ~HasXform
    <3>1. todo' = [todo EXCEPT ![p] = <<e>>] /\ end' = [end EXCEPT ![p] = "ok"]
      BY <2>2 DEF LockedPut
    <3>2. <<e>> \in Seq(Elem) /\ "ok" \in Ends BY DEF Ends
    <3> QED BY <3>1, <3>2
  <2> QED BY <2>1, <2>2
<1>2. SoloMove(p, "add", o, t)
  BY <1>1 DEF LockedPut, SoloMove, Frame
<1>3. pc'[p] = "add" /\ op'[p] = o /\ mu' = p /\ closed' = FALSE
  BY <1>2 DEF SoloMove, LockedPut, Frame
<1>4. TodoAt(p)' /\ OpAt(p)' /\ ShapeAt(p)' /\ LockAt(p)'
  BY <1>3 DEF TodoAt, OpAt, ShapeAt, LockAt, Adding
<1>5. "add" \in PCs \ {"readd"} /\ o \in OpNames BY DEF PCs, OpNames
<1> QED BY <1>2, <1>4, <1>5, SoloStep

LEMMA UnlockedPutInv ==
  ASSUME IInv, ShapeKept, NEW p \in Procs, NEW o \in {"send", "offer", "put"}, NEW e \in Elem,
         NEW next \in {"add", "try"}, next = "try" => o # "send",
         ~Guarded, ~Promise, pc[p] \in {"idle", "born"},
         UnlockedPut(p, o, e, next), Frame, nops' \in [Procs -> 0..MaxOps]
  PROVE  IInv'
<1> USE DEF ShapeKept
<1> USE Types, HistoryTypes
<1>1. <<e>> \in Seq(Elem) /\ <<e>> # <<>> OBVIOUS
<1>2. SoloMove(p, next, o, <<e>>)
  BY <1>1 DEF UnlockedPut, SoloMove, Frame
<1>3. pc'[p] = next /\ op'[p] = o /\ todo'[p] = <<e>> BY <1>2 DEF SoloMove
<1>4. TodoAt(p)' /\ OpAt(p)' /\ ShapeAt(p)' /\ LockAt(p)'
  BY <1>1, <1>3 DEF TodoAt, OpAt, ShapeAt, LockAt, Adding
<1>5. next \in PCs \ {"readd"} /\ o \in OpNames BY DEF PCs, OpNames
<1> QED BY <1>1, <1>2, <1>4, <1>5, SoloStep

LEMMA WouldBlockInv ==
  ASSUME IInv, ShapeKept, NEW p \in Procs, NEW o, NEW e \in Elem, pc[p] \in {"idle", "born", "try"},
         WouldBlock(p, o, e), Frame, UNCHANGED <<mu, end>>, nops' \in [Procs -> 0..MaxOps]
  PROVE  IInv'
<1> USE DEF ShapeKept
<1> USE Types, HistoryTypes
<1>1. CASE o = "offer" /\ Return(p, "nil")
  <2>1. "nil" \in Results BY DEF Results
  <2> QED BY <1>1, <2>1, ReturnInv DEF Frame
<1>2. CASE ~(o = "offer" /\ Return(p, "nil"))
  <2>1. PICK w \in Workers :
          /\ pc[w] = "unborn"
          /\ pc' = [pc EXCEPT ![p] = "idle", ![w] = "born"]
          /\ op' = [op EXCEPT ![p] = "none", ![w] = "send"]
          /\ todo' = [todo EXCEPT ![p] = <<>>, ![w] = <<e>>]
          /\ res' = [res EXCEPT ![p] = "true"]
    BY <1>2 DEF WouldBlock
  <2>2. w \in Procs /\ w # p BY <2>1
  <2>3. <<>> \in Seq(Elem) /\ <<e>> \in Seq(Elem) /\ <<e>> # <<>> OBVIOUS
  <2>4. /\ pc'[p] = "idle" /\ pc'[w] = "born" /\ op'[p] = "none" /\ op'[w] = "send"
        /\ todo'[w] = <<e>>
    BY <2>1, <2>2
  <2>5. TodoAt(p)' /\ OpAt(p)' /\ ShapeAt(p)' /\ LockAt(p)' BY <2>4, IdleAt
  <2>6. TodoAt(w)' /\ OpAt(w)' /\ ShapeAt(w)' /\ LockAt(w)'
    BY <2>3, <2>4 DEF TodoAt, OpAt, ShapeAt, LockAt, Adding
  <2>7. LocalMove({p, w})
    <3>1. pc' \in [Procs -> PCs] /\ op' \in [Procs -> OpNames] /\ res' \in [Procs -> Results]
      BY <2>1 DEF PCs, OpNames, Results
    <3>2. todo' \in [Procs -> Seq(Elem)] BY <2>1, <2>3
    <3>3. \A q \in {p, w} : pc[q] \notin {"park", "wait"} /\ pc'[q] # "readd" BY <2>1, <2>4
    <3>4. \A q \in {p, w} : TodoAt(q)' /\ OpAt(q)' /\ ShapeAt(q)' /\ LockAt(q)' BY <2>5, <2>6
    <3>5. \A q \in Procs \ {p, w} : pc'[q] = pc[q] /\ op'[q] = op[q] /\ todo'[q] = todo[q]
      BY <2>1
    <3>6. rejected' = {} BY DEF Frame, IInv, SlideInv
    <3> QED BY <3>1, <3>2, <3>3, <3>4, <3>5, <3>6 DEF LocalMove, Frame
  <2> QED BY <2>2, <2>7, LocalStep
<1> QED BY <1>1, <1>2

------------------------------------------------------------------------------
\* Every step keeps the invariant: one lemma per operation of the channel.
LEMMA ChanSendInv ==
  ASSUME IInv, ShapeKept, NEW p \in Procs, ChanSend(p)
  PROVE  IInv'
<1> USE DEF ShapeKept
<1>1. ~Promise /\ Enter(p, "send") /\ mu = NoProc /\ Frame
  BY DEF ChanSend, goChan, latch, history, Frame
<1>2. pc[p] \in {"idle", "born"} /\ nops' \in [Procs -> 0..MaxOps] /\ Arg(p) \in Elem
  BY <1>1, EnterFacts, ArgType
<1>3. CASE closed /\ Return(p, "false") /\ UNCHANGED <<mu, end>>
  <2>1. "false" \in Results BY DEF Results
  <2> QED BY <1>1, <1>2, <1>3, <2>1, Types, HistoryTypes, ReturnInv DEF Frame
<1>4. CASE ~Guarded /\ UnlockedPut(p, "send", Arg(p), "add")
  BY <1>1, <1>2, <1>4, UnlockedPutInv
<1>5. CASE ~closed /\ Guarded /\ LockedPut(p, "send", Arg(p))
  BY <1>1, <1>2, <1>5, LockedPutInv
<1> QED BY <1>3, <1>4, <1>5 DEF ChanSend, Guarded

LEMMA ChanOfferInv ==
  ASSUME IInv, ShapeKept, NEW p \in Procs, NEW o, ChanOffer(p, o)
  PROVE  IInv'
<1> USE DEF ShapeKept
<1>1. /\ o \in {"offer", "put"} /\ ~Promise /\ Enter(p, o) /\ mu = NoProc /\ Frame
  BY DEF ChanOffer, goChan, latch, history, Frame
<1>2. pc[p] \in {"idle", "born"} /\ nops' \in [Procs -> 0..MaxOps] /\ Arg(p) \in Elem
  BY <1>1, EnterFacts, ArgType
<1>3. CASE closed /\ Return(p, "false") /\ UNCHANGED <<mu, end>>
  <2>1. "false" \in Results BY DEF Results
  <2> QED BY <1>1, <1>2, <1>3, <2>1, Types, HistoryTypes, ReturnInv DEF Frame
<1>4. CASE ~Guarded /\ UnlockedPut(p, o, Arg(p), "try")
  BY <1>1, <1>2, <1>4, UnlockedPutInv
<1>5. CASE ~closed /\ Guarded /\ LockedPut(p, o, Arg(p))
  BY <1>1, <1>2, <1>5, LockedPutInv
<1>6. CASE WouldBlock(p, o, Arg(p)) /\ UNCHANGED <<mu, end>>
  BY <1>1, <1>2, <1>6, WouldBlockInv
<1> QED BY <1>3, <1>4, <1>5, <1>6 DEF ChanOffer, Guarded

LEMMA OfferTryInv ==
  ASSUME IInv, ShapeKept, NEW p \in Procs, OfferTry(p)
  PROVE  IInv'
<1> USE DEF ShapeKept
<1>1. /\ pc[p] = "try" /\ UNCHANGED <<done, closed, mu, latch, end, nops, crashed>>
  BY DEF OfferTry
<1>2. todo[p] # <<>> BY <1>1 DEF IInv, ProcInv, TodoAt
<1>3. Head(todo[p]) \in Elem BY <1>2, Types, TailFacts
<1>4. CASE GoSend(p) BY <1>1, <1>2, <1>4, SendStep
<1>5. CASE WouldBlock(p, op[p], Head(todo[p])) /\ UNCHANGED <<goChan, history>>
  <2>1. Frame BY <1>1, <1>5 DEF Frame, goChan, history, latch
  <2> QED BY <1>1, <1>3, <1>5, <2>1, Types, WouldBlockInv
<1> QED BY <1>4, <1>5 DEF OfferTry

LEMMA BufferAddInv ==
  ASSUME IInv, ShapeKept, NEW p \in Procs, BufferAdd(p)
  PROVE  IInv'
<1> USE DEF ShapeKept
<1> USE Types, HistoryTypes
<1>1. /\ pc[p] = "add" /\ todo[p] # <<>>
      /\ UNCHANGED <<done, closed, mu, latch, end, nops, crashed>>
  BY DEF BufferAdd
<1>2. TodoAt(p) /\ OpAt(p) /\ ShapeAt(p) /\ LockAt(p) BY DEF IInv, ProcInv
<1>3. CASE GoSend(p) BY <1>1, <1>3, SendStep
<1>4. CASE /\ Policy = "fixed" /\ sendq' = Append(sendq, p)
           /\ pc' = [pc EXCEPT ![p] = "park"]
           /\ UNCHANGED <<buf, recvq, todo, op, res, history>>
  <2>1. TypeOK'
    <3>1. pc' \in [Procs -> PCs] BY <1>4 DEF PCs
    <3>2. sendq' \in Seq(Procs) BY <1>4, AppendFacts
    <3> QED BY <1>1, <1>4, <3>1, <3>2 DEF IInv, TypeOK, latch, history
  <2>2. QueueInv'
    <3>1. Parked(pc', Append(sendq, p), "park")
      BY <1>1, <1>4, ParkedAppend DEF IInv, QueueInv
    <3>2. Parked(pc', recvq, "wait")
      BY <1>1, <1>4, ParkedKeep DEF IInv, QueueInv
    <3> QED BY <1>4, <3>1, <3>2 DEF QueueInv
  <2>3. ProcInv'
    <3> SUFFICES ASSUME NEW q \in Procs PROVE (TodoAt(q) /\ OpAt(q) /\ ShapeAt(q) /\ LockAt(q))'
      BY DEF ProcInv
    <3>1. TodoAt(q) /\ OpAt(q) /\ ShapeAt(q) /\ LockAt(q) BY DEF IInv, ProcInv
    <3> QED BY <1>1, <1>4, <3>1 DEF TodoAt, OpAt, ShapeAt, LockAt, Adding
  <2>4. ~Promise /\ ~(Guarded /\ sawNil)
    BY <1>1, <1>2 DEF IInv, ShapeAt, OpAt, LockAt, Adding, DoneInv, LatchInv
  <2>5. LatchInv' /\ DoneInv'
    BY <1>1, <1>4, <2>4 DEF IInv, LatchInv, DoneInv, latch, history
  <2>6. SlideInv' BY <1>4 DEF IInv, SlideInv, history
  <2> QED BY <2>1, <2>2, <2>3, <2>5, <2>6 DEF IInv
<1>5. CASE /\ lost' = lost \cup {Head(todo[p])} /\ todo' = [todo EXCEPT ![p] = Tail(@)]
           /\ UNCHANGED <<goChan, pc, op, res, taken, rejected, sawNil>>
  <2>1. Head(todo[p]) \in Elem /\ Tail(todo[p]) \in Seq(Elem) BY <1>1, TailFacts
  <2>2. SoloMove(p, "add", op[p], Tail(todo[p]))
    BY <1>1, <1>5, <2>1 DEF SoloMove, goChan, latch
  <2>3. TodoAt(p)' /\ OpAt(p)' /\ ShapeAt(p)' /\ LockAt(p)'
    BY <1>1, <1>2, <1>5 DEF TodoAt, OpAt, ShapeAt, LockAt, Adding
  <2>4. "add" \in PCs \ {"readd"} BY DEF PCs
  <2> QED BY <1>1, <2>1, <2>2, <2>3, <2>4, SoloStep
<1>6. CASE /\ Policy = "sliding" /\ pc' = [pc EXCEPT ![p] = "evict"]
           /\ UNCHANGED <<goChan, todo, op, res, history>>
  <2>1. SoloMove(p, "evict", op[p], todo[p])
    BY <1>1, <1>6 DEF SoloMove, goChan, latch, history
  <2>2. TodoAt(p)' /\ OpAt(p)' /\ ShapeAt(p)' /\ LockAt(p)'
    BY <1>1, <1>2, <1>6 DEF TodoAt, OpAt, ShapeAt, LockAt, Adding
  <2>3. "evict" \in PCs \ {"readd"} BY DEF PCs
  <2> QED BY <1>1, <2>1, <2>2, <2>3, SoloStep
<1> QED BY <1>3, <1>4, <1>5, <1>6 DEF BufferAdd

LEMMA SlideEvictInv ==
  ASSUME IInv, ShapeKept, NEW p \in Procs, SlideEvict(p)
  PROVE  IInv'
<1> USE DEF ShapeKept
<1> USE Types, HistoryTypes
<1>1. /\ pc[p] = "evict" /\ pc' = [pc EXCEPT ![p] = "readd"]
      /\ UNCHANGED <<sendq, recvq, done, closed, mu, delivered, pval, op, todo, end, nops,
                     taken, rejected, sawNil, res, crashed>>
  BY DEF SlideEvict, latch
<1>2. TodoAt(p) /\ OpAt(p) /\ ShapeAt(p) /\ LockAt(p) /\ Guarded
  BY <1>1 DEF IInv, ProcInv, ShapeAt, Guarded
<1>3. Cap > 0 /\ ~Promise /\ ~done /\ ~sawNil
  BY <1>1, <1>2, Types DEF Guarded, Adding, ShapeAt, OpAt, LockAt, IInv, DoneInv, LatchInv
<1>4. /\ buf' \in Seq(Elem) /\ Len(buf') < Cap /\ lost' \subseteq Elem
  <2>1. CASE buf = <<>>
    <3>1. buf' = buf /\ lost' = lost BY <2>1 DEF SlideEvict
    <3> QED BY <1>3, <2>1, <3>1, EmptyFacts
  <2>2. CASE buf # <<>>
    <3>1. buf' = Tail(buf) /\ lost' = lost \cup {Head(buf)} BY <2>2 DEF SlideEvict
    <3>2. Head(buf) \in Elem /\ Tail(buf) \in Seq(Elem) /\ Len(Tail(buf)) = Len(buf) - 1
      BY <2>2, TailFacts
    <3> QED BY <3>1, <3>2
  <2> QED BY <2>1, <2>2
<1>5. TypeOK'
  <2>1. pc' \in [Procs -> PCs] BY <1>1 DEF PCs
  <2>2. Len(buf') <= Cap BY <1>4
  <2> QED BY <1>1, <1>4, <2>1, <2>2 DEF IInv, TypeOK
<1>6. QueueInv' BY <1>1, ParkedKeep DEF IInv, QueueInv
<1>7. ProcInv'
  <2> SUFFICES ASSUME NEW q \in Procs PROVE (TodoAt(q) /\ OpAt(q) /\ ShapeAt(q) /\ LockAt(q))'
    BY DEF ProcInv
  <2>1. TodoAt(q) /\ OpAt(q) /\ ShapeAt(q) /\ LockAt(q) BY DEF IInv, ProcInv
  <2> QED BY <1>1, <2>1 DEF TodoAt, OpAt, ShapeAt, LockAt, Adding
<1>8. LatchInv' /\ DoneInv' BY <1>1, <1>3 DEF IInv, LatchInv, DoneInv
<1>9. SlideInv' BY <1>1, <1>4 DEF IInv, SlideInv
<1> QED BY <1>5, <1>6, <1>7, <1>8, <1>9 DEF IInv

LEMMA SlideReaddInv ==
  ASSUME IInv, ShapeKept, NEW p \in Procs, SlideReadd(p)
  PROVE  IInv'
<1> USE DEF ShapeKept
<1>1. pc[p] = "readd" /\ UNCHANGED <<done, closed, mu, latch, end, nops, crashed>>
  BY DEF SlideReadd
<1>2. todo[p] # <<>> BY <1>1 DEF IInv, ProcInv, TodoAt
<1>3. CanSend BY <1>1 DEF IInv, SlideInv, CanSend
<1>4. GoSend(p) BY <1>3 DEF SlideReadd
<1> QED BY <1>1, <1>2, <1>4, SendStep

LEMMA PutReturnInv ==
  ASSUME IInv, ShapeKept, NEW p \in Procs, PutReturn(p)
  PROVE  IInv'
<1> USE DEF ShapeKept
<1> USE Types, HistoryTypes
<1>1. /\ pc[p] = "add" /\ todo[p] = <<>> /\ op[p] \in {"send", "offer", "put"}
      /\ mu' = (IF mu = p /\ end[p] # "throw" THEN NoProc ELSE mu)
      /\ res' = [res EXCEPT ![p] = IF end[p] = "throw" THEN "panic" ELSE "true"]
      /\ Frame /\ UNCHANGED <<todo, end, nops>>
  BY DEF PutReturn, Frame, goChan, latch, history
<1>2. res' \in [Procs -> Results] /\ mu' \in Procs \cup {NoProc} BY <1>1 DEF Results
<1>3. mu \in {NoProc, p} \/ mu' = mu BY <1>1
<1>4. CASE end[p] = "reduced"
  <2>1. pc' = [pc EXCEPT ![p] = "close"] /\ UNCHANGED op BY <1>4 DEF PutReturn
  <2>2. SoloMove(p, "close", op[p], todo[p])
    BY <1>1, <1>2, <1>3, <2>1 DEF SoloMove, Frame
  <2>3. TodoAt(p)' /\ OpAt(p)' /\ ShapeAt(p)' /\ LockAt(p)'
    BY <1>1, <2>1 DEF TodoAt, OpAt, ShapeAt, LockAt, Adding
  <2>4. "close" \in PCs \ {"readd"} BY DEF PCs
  <2> QED BY <1>1, <2>2, <2>3, <2>4, SoloStep
<1>5. CASE end[p] # "reduced"
  <2>1. pc' = [pc EXCEPT ![p] = "idle"] /\ op' = [op EXCEPT ![p] = "none"] BY <1>5 DEF PutReturn
  <2>2. SoloMove(p, "idle", "none", todo[p])
    BY <1>1, <1>2, <1>3, <2>1 DEF SoloMove, Frame
  <2>3. TodoAt(p)' /\ OpAt(p)' /\ ShapeAt(p)' /\ LockAt(p)' BY <2>1, IdleAt
  <2>4. "idle" \in PCs \ {"readd"} /\ "none" \in OpNames BY DEF PCs, OpNames
  <2> QED BY <1>1, <2>2, <2>3, <2>4, SoloStep
<1> QED BY <1>4, <1>5

LEMMA FlushReturnInv ==
  ASSUME IInv, ShapeKept, NEW p \in Procs, FlushReturn(p)
  PROVE  IInv'
<1> USE DEF ShapeKept
<1> USE Types, HistoryTypes
<1>1. /\ pc[p] = "add" /\ op[p] = "close" /\ mu' = NoProc
      /\ op' = [op EXCEPT ![p] = "none"]
      /\ UNCHANGED <<buf, sendq, closed, delivered, pval, todo, end, nops, taken, lost,
                     rejected, sawNil>>
  BY DEF FlushReturn, latch, history
<1>2. /\ TodoAt(p) /\ OpAt(p) /\ ShapeAt(p) /\ LockAt(p) /\ HasXform /\ Guarded
      /\ mu = p /\ closed /\ ~done
  BY <1>1 DEF IInv, ProcInv, ShapeAt, LockAt, Adding, Guarded
<1>3. CASE CloseDone(p) /\ UNCHANGED res
  <2>1. \A q \in Procs \ {p} : Guarded => ~Adding(q) BY <1>2 DEF IInv, ProcInv, LockAt
  <2>2. op' \in [Procs -> OpNames] /\ op'[p] # "recv"
        /\ \A q \in Procs \ {p} : op'[q] = op[q] /\ todo'[q] = todo[q]
    BY <1>1 DEF OpNames
  <2>3. LatchInv' BY <1>1 DEF IInv, LatchInv
  <2>4. delivered' \in BOOLEAN /\ pval' \in Seq(Elem) /\ closed' = TRUE
    BY <1>1, <1>2 DEF IInv, TypeOK
  <2> QED BY <1>1, <1>2, <1>3, <2>1, <2>2, <2>3, <2>4, CloseStep
<1>4. CASE /\ pc' = [pc EXCEPT ![p] = "idle"] /\ res' = [res EXCEPT ![p] = "panic"]
           /\ UNCHANGED <<recvq, done, crashed>>
  <2>1. res' \in [Procs -> Results] BY <1>4 DEF Results
  <2>2. SoloMove(p, "idle", "none", todo[p])
    BY <1>1, <1>2, <1>4, <2>1 DEF SoloMove
  <2>3. TodoAt(p)' /\ OpAt(p)' /\ ShapeAt(p)' /\ LockAt(p)' BY <1>1, <1>4, IdleAt
  <2>4. "idle" \in PCs \ {"readd"} /\ "none" \in OpNames BY DEF PCs, OpNames
  <2> QED BY <1>1, <2>2, <2>3, <2>4, SoloStep
<1> QED BY <1>3, <1>4 DEF FlushReturn

LEMMA CloseLockedInv ==
  ASSUME IInv, ShapeKept, NEW p \in Procs, NEW n \in 0..MaxOps, CloseLocked(p, n),
         pc[p] \in {"idle", "born", "close"},
         nops' \in [Procs -> 0..MaxOps], res' \in [Procs -> Results]
  PROVE  IInv'
<1> USE DEF ShapeKept
<1> USE Types, HistoryTypes
<1>1. /\ mu = NoProc /\ closed' = TRUE
      /\ op' = [op EXCEPT ![p] = IF ~closed /\ HasXform THEN "close" ELSE "none"]
      /\ UNCHANGED <<buf, sendq, delivered, pval, taken, lost, rejected, sawNil>>
  BY DEF CloseLocked, latch, history
<1>2. \A q \in Procs : Guarded => ~Adding(q) BY <1>1 DEF IInv, ProcInv, LockAt
<1>3. ~closed /\ ~(Promise /\ delivered) => ~done BY DEF IInv, DoneInv, LatchInv
<1>4. CASE ~closed /\ HasXform
  <2>1. /\ mu' = p /\ pc' = [pc EXCEPT ![p] = "add"] /\ UNCHANGED <<recvq, done, crashed>>
    BY <1>4 DEF CloseLocked
  <2>2. PICK x \in FlushOutcomes :
          /\ todo' = [todo EXCEPT ![p] = Emitted([by |-> p, n |-> n, part |-> 0], MaxPart, x)]
          /\ end' = [end EXCEPT ![p] = Ending(x)]
    BY <1>4 DEF CloseLocked
  <2>3. [by |-> p, n |-> n, part |-> 0] \in Elem BY ChannelAssumption DEF Elem
  <2> DEFINE t == Emitted([by |-> p, n |-> n, part |-> 0], MaxPart, x)
  <2>4. t \in Seq(Elem) /\ Ending(x) \in Ends BY <2>3, EmittedType
  <2>5. op' = [op EXCEPT ![p] = "close"] BY <1>1, <1>4
  <2> HIDE DEF t
  <2>6. SoloMove(p, "add", "close", t)
    BY <1>1, <2>1, <2>2, <2>4, <2>5 DEF SoloMove, t
  <2>7. ~done /\ ~Promise BY <1>3, <1>4, Types
  <2>8. TodoAt(p)' /\ OpAt(p)' /\ ShapeAt(p)' /\ LockAt(p)'
    BY <1>1, <1>4, <2>1, <2>5, <2>7 DEF TodoAt, OpAt, ShapeAt, LockAt, Adding, Guarded
  <2>9. "add" \in PCs \ {"readd"} /\ "close" \in OpNames BY DEF PCs, OpNames
  <2> QED BY <2>4, <2>6, <2>8, <2>9, SoloStep
<1>5. CASE closed \/ ~HasXform
  <2>1. op' = [op EXCEPT ![p] = "none"] /\ UNCHANGED <<mu, todo, end>>
    BY <1>1, <1>5 DEF CloseLocked
  <2>2. CASE closed \/ (Promise /\ delivered)
    <3>1. pc' = [pc EXCEPT ![p] = "idle"] /\ UNCHANGED <<recvq, done, crashed>>
      BY <1>5, <2>2 DEF CloseLocked
    <3>2. SoloMove(p, "idle", "none", todo[p])
      BY <1>1, <2>1, <3>1 DEF SoloMove
    <3>3. TodoAt(p)' /\ OpAt(p)' /\ ShapeAt(p)' /\ LockAt(p)' BY <2>1, <3>1, IdleAt
    <3>4. "idle" \in PCs \ {"readd"} /\ "none" \in OpNames BY DEF PCs, OpNames
    <3> QED BY <3>2, <3>3, <3>4, SoloStep
  <2>3. CASE ~(closed \/ (Promise /\ delivered))
    <3>1. CloseDone(p) BY <1>5, <2>3 DEF CloseLocked
    <3>2. op' \in [Procs -> OpNames] /\ op'[p] # "recv"
          /\ \A q \in Procs \ {p} : op'[q] = op[q] /\ todo'[q] = todo[q]
      BY <2>1 DEF OpNames
    <3>3. LatchInv' BY <1>1 DEF IInv, LatchInv
    <3>4. delivered' \in BOOLEAN /\ pval' \in Seq(Elem) BY <1>1 DEF IInv, TypeOK
    <3> QED BY <1>1, <1>2, <1>3, <2>1, <2>3, <3>1, <3>2, <3>3, <3>4, CloseStep
  <2> QED BY <2>2, <2>3
<1> QED BY <1>4, <1>5

LEMMA ChanCloseInv ==
  ASSUME IInv, ShapeKept, NEW p \in Procs, ChanClose(p)
  PROVE  IInv'
<1> USE DEF ShapeKept
<1>1. Enter(p, "close") /\ CloseLocked(p, nops[p] + 1) /\ res' = [res EXCEPT ![p] = "nil"]
  BY DEF ChanClose
<1>2. /\ pc[p] \in {"idle", "born"} /\ (pc[p] = "born" => op[p] = "close")
      /\ nops' \in [Procs -> 0..MaxOps] /\ (pc[p] = "idle" => nops[p] + 1 \in 0..MaxOps)
  BY <1>1, EnterFacts
<1>3. pc[p] = "idle" BY <1>2 DEF IInv, ProcInv, OpAt
<1>4. res' \in [Procs -> Results] BY <1>1, Types DEF Results
<1> QED BY <1>1, <1>2, <1>3, <1>4, CloseLockedInv

LEMMA ReducedCloseInv ==
  ASSUME IInv, ShapeKept, NEW p \in Procs, ReducedClose(p)
  PROVE  IInv'
BY Types, CloseLockedInv DEF ReducedClose

LEMMA ChanRecvInv ==
  ASSUME IInv, ShapeKept, NEW p \in Procs, ChanRecv(p)
  PROVE  IInv'
<1> USE DEF ShapeKept
<1> USE Types, HistoryTypes
<1>1. Enter(p, "recv") /\ UNCHANGED <<done, closed, mu, delivered, pval, end, crashed>>
  BY DEF ChanRecv, latch
<1>2. /\ pc[p] \in {"idle", "born"} /\ (pc[p] = "born" => op[p] = "recv")
      /\ nops' \in [Procs -> 0..MaxOps]
  BY <1>1, EnterFacts
<1>3. CASE GoRecv(p) BY <1>1, <1>2, <1>3, RecvStep DEF latch
<1>4. CASE /\ pc' = [pc EXCEPT ![p] = IF Promise THEN "await" ELSE "select"]
           /\ op' = [op EXCEPT ![p] = "recv"]
           /\ UNCHANGED <<goChan, todo, res, history>>
  <2> DEFINE v == IF Promise THEN "await" ELSE "select"
  <2>1. SoloMove(p, v, "recv", todo[p])
    BY <1>1, <1>2, <1>4 DEF SoloMove, goChan, history
  <2>2. TodoAt(p)' /\ OpAt(p)' /\ ShapeAt(p)' /\ LockAt(p)'
    BY <1>4 DEF TodoAt, OpAt, ShapeAt, LockAt, Adding
  <2>3. v \in PCs \ {"readd"} /\ "recv" \in OpNames BY DEF PCs, OpNames
  <2> QED BY <1>2, <2>1, <2>2, <2>3, SoloStep
<1> QED BY <1>3, <1>4 DEF ChanRecv

LEMMA RecvSelectInv ==
  ASSUME IInv, ShapeKept, NEW p \in Procs, RecvSelect(p)
  PROVE  IInv'
<1> USE DEF ShapeKept
<1> USE Types, HistoryTypes
<1>1. pc[p] = "select" /\ UNCHANGED <<done, closed, mu, delivered, pval, end, nops, crashed>>
  BY DEF RecvSelect, latch
<1>2. op[p] = "recv" /\ ~Promise BY <1>1 DEF IInv, ProcInv, OpAt, ShapeAt
<1>3. CASE GoRecv(p) BY <1>1, <1>3, RecvStep DEF latch
<1>4. CASE done /\ pc' = [pc EXCEPT ![p] = "drain"] /\ UNCHANGED <<goChan, todo, op, res, history>>
  <2>1. SoloMove(p, "drain", op[p], todo[p])
    BY <1>1, <1>4 DEF SoloMove, goChan, history
  <2>2. TodoAt(p)' /\ OpAt(p)' /\ ShapeAt(p)' /\ LockAt(p)'
    BY <1>1, <1>2, <1>4 DEF TodoAt, OpAt, ShapeAt, LockAt, Adding
  <2>3. "drain" \in PCs \ {"readd"} BY DEF PCs
  <2> QED BY <1>1, <2>1, <2>2, <2>3, SoloStep
<1>5. CASE /\ recvq' = Append(recvq, p) /\ pc' = [pc EXCEPT ![p] = "wait"]
           /\ UNCHANGED <<buf, sendq, todo, op, res, history>>
  <2>1. TypeOK'
    <3>1. pc' \in [Procs -> PCs] BY <1>5 DEF PCs
    <3>2. recvq' \in Seq(Procs) BY <1>5, AppendFacts
    <3> QED BY <1>1, <1>5, <3>1, <3>2 DEF IInv, TypeOK, history
  <2>2. QueueInv'
    <3>1. Parked(pc', Append(recvq, p), "wait")
      BY <1>1, <1>5, ParkedAppend DEF IInv, QueueInv
    <3>2. Parked(pc', sendq, "park")
      BY <1>1, <1>5, ParkedKeep DEF IInv, QueueInv
    <3> QED BY <1>5, <3>1, <3>2 DEF QueueInv
  <2>3. ProcInv'
    <3> SUFFICES ASSUME NEW q \in Procs PROVE (TodoAt(q) /\ OpAt(q) /\ ShapeAt(q) /\ LockAt(q))'
      BY DEF ProcInv
    <3>1. TodoAt(q) /\ OpAt(q) /\ ShapeAt(q) /\ LockAt(q) BY DEF IInv, ProcInv
    <3> QED BY <1>1, <1>2, <1>5, <3>1 DEF TodoAt, OpAt, ShapeAt, LockAt, Adding
  <2>4. LatchInv' /\ DoneInv' BY <1>1, <1>5 DEF IInv, LatchInv, DoneInv, history
  <2>5. SlideInv' BY <1>5 DEF IInv, SlideInv, history
  <2> QED BY <2>1, <2>2, <2>3, <2>4, <2>5 DEF IInv
<1> QED BY <1>3, <1>4, <1>5 DEF RecvSelect

LEMMA RecvDrainInv ==
  ASSUME IInv, ShapeKept, NEW p \in Procs, RecvDrain(p)
  PROVE  IInv'
<1> USE DEF ShapeKept
<1> USE Types, HistoryTypes
<1>1. pc[p] = "drain" /\ UNCHANGED <<done, closed, mu, delivered, pval, end, nops, crashed>>
  BY DEF RecvDrain, latch
<1>2. done BY <1>1 DEF IInv, ProcInv, ShapeAt
<1>3. CASE GoRecv(p) BY <1>1, <1>3, RecvStep DEF latch
<1>4. CASE /\ ~CanRecv /\ Return(p, "nil") /\ sawNil' = TRUE
           /\ UNCHANGED <<goChan, taken, lost, rejected>>
  <2>1. "nil" \in Results BY DEF Results
  <2>2. buf = <<>> /\ sendq = <<>> BY <1>4 DEF CanRecv
  <2> QED BY <1>1, <1>2, <1>4, <2>1, <2>2, ReturnInv DEF goChan
<1> QED BY <1>3, <1>4 DEF RecvDrain

LEMMA LatchedType ==
  ASSUME IInv
  PROVE  taken \o pval \in Seq(Elem)
BY DEF IInv, TypeOK

LEMMA PromiseRecvInv ==
  ASSUME IInv, ShapeKept, NEW p \in Procs, PromiseRecv(p)
  PROVE  IInv'
<1> USE DEF ShapeKept
<1> USE Types, HistoryTypes, LatchedType
<1>1. /\ pc[p] = "await" /\ taken' = taken \o pval /\ sawNil' = (sawNil \/ pval = <<>>)
      /\ UNCHANGED <<buf, sendq, recvq, done, closed, mu, delivered, pval, end, nops, lost,
                     rejected, crashed>>
  BY DEF PromiseRecv, goChan, latch
<1>2. ~Guarded BY <1>1, Types DEF IInv, ProcInv, ShapeAt, Guarded
<1>3. PICK r \in Results : Return(p, r) BY DEF PromiseRecv, Results
<1> QED BY <1>1, <1>2, <1>3, ReturnInv

LEMMA ChanPollInv ==
  ASSUME IInv, ShapeKept, NEW p \in Procs, ChanPoll(p)
  PROVE  IInv'
<1> USE DEF ShapeKept
<1> USE Types, HistoryTypes, LatchedType
<1>1. Enter(p, "poll") /\ UNCHANGED <<done, closed, mu, delivered, pval, end, crashed>>
  BY DEF ChanPoll, latch
<1>2. pc[p] = "idle" /\ nops' \in [Procs -> 0..MaxOps]
  <2>1. OpAt(p) BY DEF IInv, ProcInv
  <2>2. /\ pc[p] \in {"idle", "born"} /\ (pc[p] = "born" => op[p] = "poll")
        /\ nops' \in [Procs -> 0..MaxOps]
    BY <1>1, EnterFacts
  <2> QED BY <2>1, <2>2 DEF OpAt
<1>3. "value" \in Results /\ "nil" \in Results BY DEF Results
<1>4. CASE GoRecv(p) BY <1>1, <1>2, <1>4, RecvStep DEF latch
<1>5. CASE /\ Return(p, "value") /\ taken' = taken \o pval
           /\ UNCHANGED <<goChan, lost, rejected, sawNil>>
  BY <1>1, <1>2, <1>3, <1>5, ReturnInv DEF goChan
<1>6. CASE Return(p, "nil") /\ UNCHANGED <<goChan, history>>
  BY <1>1, <1>2, <1>3, <1>6, ReturnInv DEF goChan, history
<1> QED BY <1>4, <1>5, <1>6 DEF ChanPoll

LEMMA PromisePutInv ==
  ASSUME IInv, ShapeKept, NEW p \in Procs, PromisePut(p)
  PROVE  IInv'
<1> USE DEF ShapeKept
<1> USE Types, HistoryTypes
<1>1. /\ Promise /\ mu = NoProc
      /\ UNCHANGED <<buf, sendq, closed, mu, end, taken, lost, rejected, sawNil>>
  BY DEF PromisePut, history
<1>2. PICK o \in {"send", "offer", "put"} : Enter(p, o) BY DEF PromisePut
<1>3. pc[p] \in {"idle", "born"} /\ nops' \in [Procs -> 0..MaxOps] /\ Arg(p) \in Elem
      /\ op[p] # "recv"
  BY <1>2, EnterFacts, ArgType DEF IInv, ProcInv, OpAt
<1>4. CASE closed \/ delivered
  <2>1. /\ Return(p, IF closed THEN "false" ELSE "true")
        /\ UNCHANGED <<recvq, done, delivered, pval, crashed>>
    BY <1>4 DEF PromisePut, latch
  <2>2. (IF closed THEN "false" ELSE "true") \in Results BY DEF Results
  <2> QED BY <1>1, <1>3, <2>1, <2>2, ReturnInv
<1>5. CASE ~(closed \/ delivered)
  <2>1. /\ delivered' = TRUE /\ pval' = <<Arg(p)>> /\ CloseDone(p)
        /\ res' = [res EXCEPT ![p] = "true"] /\ UNCHANGED <<op, todo>>
    BY <1>5 DEF PromisePut
  <2>2. ~done /\ ~Guarded BY <1>1, <1>5, Types DEF IInv, DoneInv, Guarded
  <2>3. LatchInv' BY <1>1, <2>1 DEF IInv, LatchInv
  <2>4. pval' \in Seq(Elem) /\ res' \in [Procs -> Results] BY <1>3, <2>1 DEF Results
  <2> QED BY <1>1, <1>3, <2>1, <2>2, <2>3, <2>4, CloseStep
<1> QED BY <1>4, <1>5

LEMMA ChanTakeAsyncInv ==
  ASSUME IInv, ShapeKept, NEW p \in Procs, ChanTakeAsync(p)
  PROVE  IInv'
<1> USE DEF ShapeKept
<1> USE Types, HistoryTypes
<1>1. /\ Enter(p, "take") /\ res' = [res EXCEPT ![p] = "nil"] /\ Frame
      /\ UNCHANGED <<mu, todo, end>>
  BY DEF ChanTakeAsync, Frame, goChan, latch, history
<1>2. PICK w \in Workers : /\ pc[w] = "unborn" /\ pc' = [pc EXCEPT ![w] = "born"]
                           /\ op' = [op EXCEPT ![w] = "recv"]
  BY DEF ChanTakeAsync
<1>3. w \in Procs /\ nops' \in [Procs -> 0..MaxOps] BY <1>1, EnterFacts
<1>4. res' \in [Procs -> Results] BY <1>1 DEF Results
<1>5. SoloMove(w, "born", "recv", todo[w])
  BY <1>1, <1>2, <1>3, <1>4 DEF SoloMove, Frame
<1>6. TodoAt(w)' /\ OpAt(w)' /\ ShapeAt(w)' /\ LockAt(w)'
  BY <1>2, <1>3 DEF TodoAt, OpAt, ShapeAt, LockAt, Adding
<1>7. "born" \in PCs \ {"readd"} /\ "recv" \in OpNames BY DEF PCs, OpNames
<1> QED BY <1>2, <1>3, <1>5, <1>6, <1>7, SoloStep

------------------------------------------------------------------------------
LEMMA InitInv == Init => IInv
<1> SUFFICES ASSUME Init PROVE IInv
  OBVIOUS
<1> USE ChannelAssumption DEF Init
<1>1. TypeOK
  <2>1. buf \in Seq(Elem) /\ Len(buf) <= Cap BY DEF ChanShape, Cap
  <2>2. /\ sendq \in Seq(Procs) /\ recvq \in Seq(Procs)
        /\ pval \in Seq(Elem) /\ taken \in Seq(Elem)
    OBVIOUS
  <2>3. pc \in [Procs -> PCs] BY DEF PCs
  <2>4. op \in [Procs -> OpNames] /\ res \in [Procs -> Results] /\ end \in [Procs -> Ends]
    BY DEF OpNames, Results, Ends
  <2>5. todo \in [Procs -> Seq(Elem)] OBVIOUS
  <2>6. nops \in [Procs -> 0..MaxOps] OBVIOUS
  <2> QED BY <2>1, <2>2, <2>3, <2>4, <2>5, <2>6 DEF TypeOK
<1>2. QueueInv BY DEF QueueInv, Parked
<1>3. ProcInv BY DEF ProcInv, TodoAt, OpAt, ShapeAt, LockAt, Adding
<1>4. LatchInv /\ DoneInv /\ SlideInv BY DEF LatchInv, DoneInv, SlideInv
<1> QED BY <1>1, <1>2, <1>3, <1>4 DEF IInv

LEMMA NextInv == IInv /\ [Next]_vars => IInv'
<1> SUFFICES ASSUME IInv, [Next]_vars PROVE IInv'
  OBVIOUS
<1>0. ASSUME UNCHANGED shape PROVE ShapeKept
  BY <1>0 DEF ShapeKept, Cap, Policy, HasXform, Promise, Guarded
<1>1. CASE UNCHANGED vars
  BY <1>0, <1>1 DEF vars, IInv, TypeOK, QueueInv, Parked, ProcInv, TodoAt, OpAt, ShapeAt, LockAt,
              Adding, LatchInv, DoneInv, SlideInv, ShapeKept
<1>2. ASSUME NEW p \in Procs, Call(p), UNCHANGED shape PROVE IInv'
  BY <1>0, <1>2, ChanSendInv, ChanOfferInv, ChanCloseInv, ChanRecvInv, ChanPollInv, PromisePutInv,
     ChanTakeAsyncInv DEF Call
<1>3. ASSUME NEW p \in Procs, Step(p), UNCHANGED shape PROVE IInv'
  BY <1>0, <1>3, OfferTryInv, BufferAddInv, SlideEvictInv, SlideReaddInv, PutReturnInv,
     ReducedCloseInv, FlushReturnInv, RecvSelectInv, RecvDrainInv, PromiseRecvInv DEF Step
<1> QED BY <1>1, <1>2, <1>3 DEF Next

\* The invariant holds throughout, for every channel and any goroutines.
THEOREM Invariance == Spec => []IInv
BY InitInv, NextInv, PTL DEF Spec

\* The types of a channel: what is buffered, parked or taken are elements, and the
\* buffer never holds more than its capacity, whatever expansions, evictions, offers
\* and completions meet (chan.go:151-231, 287-357).
THEOREM TypeCorrect == Spec => []TypeOK
<1>1. IInv => TypeOK BY DEF IInv
<1> QED BY <1>1, Invariance, PTL

\* c.mu serializes the transducer, and close! ends it: whoever is inside is
\* alone there, and once closed is set it is the completion that runs.
THEOREM Serialized == Spec => []XformSerialized
<1>1. IInv => XformSerialized
  BY Types DEF IInv, ProcInv, LockAt, Adding, Guarded, XformSerialized, InXform
<1> QED BY <1>1, Invariance, PTL

\* No schedule of close!, reduced puts and promise-chan puts closes c.done twice.
THEOREM DoneClosedOnce == Spec => []NoDoubleClose
<1>1. IInv => NoDoubleClose BY DEF IInv, DoneInv, NoDoubleClose
<1> QED BY <1>1, Invariance, PTL

\* A sliding buffer never discards the element being put.
THEOREM SlidingAdmits == Spec => []SlidingAdmitsNewest
<1>1. IInv => SlidingAdmitsNewest BY DEF IInv, SlideInv, SlidingAdmitsNewest
<1> QED BY <1>1, Invariance, PTL

\* On a guarded channel a send after the end is impossible: it needs c.mu, and
\* close! set c.closed under it before any take could see nil.
LEMMA GuardedEnd ==
  ASSUME IInv, Guarded, sawNil, Next
  PROVE  taken' = taken
<1>1. done /\ closed /\ ~Promise /\ ~CanRecv
  BY Types DEF IInv, DoneInv, LatchInv, CanRecv, Guarded
<1>2. \A p \in Procs : ~Adding(p) /\ pc[p] \notin {"try", "await"}
  BY <1>1 DEF IInv, ProcInv, LockAt, OpAt, ShapeAt
<1>3. \A p \in Procs : ~GoRecv(p) BY <1>1 DEF GoRecv
<1>4. ASSUME NEW p \in Procs, Call(p) PROVE taken' = taken
  BY <1>1, <1>3, <1>4 DEF Call, ChanSend, ChanOffer, ChanClose, CloseLocked, ChanRecv, ChanPoll,
     PromisePut, ChanTakeAsync, history
<1>5. ASSUME NEW p \in Procs, Step(p) PROVE taken' = taken
  BY <1>1, <1>2, <1>3, <1>5 DEF Step, OfferTry, BufferAdd, SlideEvict, SlideReadd, PutReturn,
     ReducedClose, CloseLocked, FlushReturn, RecvSelect, RecvDrain, PromiseRecv, history, Adding
<1> QED BY <1>4, <1>5 DEF Next

\* Nil is for ever on every channel whose puts run under c.mu (a plain
\* channel's put sends after it has let c.mu go, chan.go:202).
THEOREM GuardedEndsInNil == Spec => GuardedNilForever
<1>1. IInv /\ [Next]_vars => [Guarded /\ sawNil => taken' = taken]_vars
  BY GuardedEnd DEF vars
<1> QED BY <1>1, Invariance, PTL DEF Spec, GuardedNilForever

\* When a take of goroutine p answers nil in this step.
AnswersNil(p) == op[p] = "recv" /\ pc[p] # "idle" /\ pc'[p] = "idle" /\ res'[p] = "nil"

LEMMA NilStep ==
  ASSUME IInv, Next, NEW p \in Procs, AnswersNil(p)
  PROVE  done /\ buf = <<>> /\ sendq = <<>> /\ pval = <<>>
<1> USE Types
<1>1. /\ pc[p] \in {"born", "select", "wait", "drain", "await"} /\ op[p] = "recv"
      /\ pc'[p] = "idle" /\ res'[p] = "nil"
  BY DEF AnswersNil, IInv, ProcInv, OpAt
<1>2. \A q \in Procs : ~GoRecv(q) \/ q # p BY <1>1 DEF GoRecv
<1>3. ASSUME NEW q \in Procs, GoRecv(q) PROVE FALSE
  BY <1>1, <1>2, <1>3 DEF GoRecv, Released, IInv, QueueInv, Parked
<1>4. ASSUME NEW q \in Procs, GoSend(q) PROVE FALSE
  BY <1>1, <1>4 DEF GoSend
<1>5. ASSUME NEW q \in Procs, Call(q) PROVE FALSE
  <2>1. \A o : Enter(q, o) => o = "recv" \/ q # p BY <1>1 DEF Enter
  <2>2. ASSUME NEW r, Return(q, r), q # p PROVE FALSE BY <1>1, <2>2 DEF Return
  <2>3. ASSUME CloseDone(q), q # p PROVE FALSE BY <1>1, <2>3 DEF CloseDone
  <2>4. CASE ChanSend(q)
    BY <1>1, <2>1, <2>2, <2>4 DEF ChanSend, UnlockedPut, LockedPut
  <2>5. ASSUME NEW o \in {"offer", "put"}, ChanOffer(q, o) PROVE FALSE
    BY <1>1, <2>1, <2>2, <2>5 DEF ChanOffer, UnlockedPut, LockedPut, WouldBlock
  <2>6. CASE ChanClose(q)
    BY <1>1, <2>1, <2>3, <2>6 DEF ChanClose, CloseLocked
  <2>7. CASE ChanRecv(q) BY <1>1, <1>3, <2>7 DEF ChanRecv
  <2>8. CASE ChanPoll(q) BY <1>1, <1>3, <2>1, <2>2, <2>8 DEF ChanPoll
  <2>9. CASE PromisePut(q) BY <1>1, <2>1, <2>2, <2>3, <2>9 DEF PromisePut
  <2>10. CASE ChanTakeAsync(q) BY <1>1, <2>10 DEF ChanTakeAsync
  <2> QED BY <1>5, <2>4, <2>5, <2>6, <2>7, <2>8, <2>9, <2>10 DEF Call
<1>6. ASSUME NEW q \in Procs, Step(q), ~RecvDrain(q), ~PromiseRecv(q) PROVE FALSE
  <2>1. OpAt(q) BY DEF IInv, ProcInv
  <2>2. CASE OfferTry(q)
    <3>1. q # p BY <1>1, <2>1, <2>2 DEF OfferTry, OpAt
    <3> QED BY <1>1, <1>4, <2>2, <3>1 DEF OfferTry, WouldBlock, Return
  <2>3. CASE BufferAdd(q) BY <1>1, <1>4, <2>3 DEF BufferAdd
  <2>4. CASE SlideEvict(q) BY <1>1, <2>4 DEF SlideEvict
  <2>5. CASE SlideReadd(q) BY <1>1, <1>4, <2>5 DEF SlideReadd
  <2>6. CASE PutReturn(q) BY <1>1, <2>6 DEF PutReturn
  <2>7. CASE ReducedClose(q)
    BY <1>1, <2>7 DEF ReducedClose, CloseLocked, CloseDone
  <2>8. CASE FlushReturn(q)
    BY <1>1, <2>8 DEF FlushReturn, CloseDone
  <2>9. CASE RecvSelect(q) BY <1>1, <1>3, <2>9 DEF RecvSelect
  <2> QED BY <1>6, <2>2, <2>3, <2>4, <2>5, <2>6, <2>7, <2>8, <2>9 DEF Step
<1>7. ASSUME NEW q \in Procs, RecvDrain(q)
      PROVE  done /\ buf = <<>> /\ sendq = <<>> /\ pval = <<>>
  <2>1. ~CanRecv /\ pc[q] = "drain" BY <1>3, <1>7 DEF RecvDrain
  <2>2. done /\ ~Promise BY <2>1 DEF IInv, ProcInv, ShapeAt
  <2> QED BY <2>1, <2>2 DEF CanRecv, IInv, LatchInv
<1>8. ASSUME NEW q \in Procs, PromiseRecv(q)
      PROVE  done /\ buf = <<>> /\ sendq = <<>> /\ pval = <<>>
  <2>1. q = p BY <1>1, <1>8 DEF PromiseRecv, Return
  <2>2. done /\ pc[q] = "await" /\ pval = <<>> BY <1>1, <1>8, <2>1 DEF PromiseRecv, Return
  <2>3. Promise BY <2>2 DEF IInv, ProcInv, ShapeAt
  <2> QED BY <2>2, <2>3 DEF IInv, LatchInv
<1> QED BY <1>5, <1>6, <1>7, <1>8 DEF Next

\* A take answers nil only at the true end of the channel: c.done has fired and
\* neither the buffer, nor a parked put, nor the latch holds anything.
THEOREM NilMeansDrained == Spec => NilOnlyWhenDrained
<1>1. IInv /\ [Next]_vars =>
        [\A p \in Procs :
           (op[p] = "recv" /\ pc[p] # "idle" /\ pc'[p] = "idle" /\ res'[p] = "nil")
             => done /\ buf = <<>> /\ sendq = <<>> /\ pval = <<>>]_vars
  BY NilStep DEF AnswersNil
<1> QED BY <1>1, Invariance, PTL DEF Spec, NilOnlyWhenDrained

------------------------------------------------------------------------------
(***************************************************************************)
(* The latch of a promise-chan.                                            *)
(***************************************************************************)

\* What a promise-chan has given its takers is what it has latched.
PromiseInv ==
  Promise => /\ \A i \in 1..Len(taken) : pval = <<taken[i]>>
             /\ sawNil => done /\ pval = <<>>
             /\ pval = <<>> \/ \E e \in Elem : pval = <<e>>

\* The three things a step can do to a promise-chan: nothing its takers see,
\* hand the latch to one of them, or latch the first put.
LEMMA PromiseSteps ==
  ASSUME IInv, Promise, Next
  PROVE  \/ UNCHANGED <<taken, sawNil, pval>> /\ (done => done')
         \/ /\ taken' = taken \o pval /\ UNCHANGED <<pval, done>> /\ done
            /\ sawNil' \in {sawNil, sawNil \/ pval = <<>>}
         \/ /\ ~done /\ pval = <<>> /\ \E e \in Elem : pval' = <<e>>
            /\ UNCHANGED <<taken, sawNil>>
<1> USE Types, HistoryTypes
<1>1. /\ buf = <<>> /\ sendq = <<>> /\ (~delivered => pval = <<>>)
      /\ ~CanRecv
  BY DEF IInv, LatchInv, CanRecv
<1>2. \A p \in Procs : ~GoRecv(p) BY <1>1 DEF GoRecv
<1>3. \A p \in Procs : ~Adding(p) /\ pc[p] \notin {"try", "select", "wait", "drain"}
  BY DEF IInv, ProcInv, ShapeAt
<1>4. PICK p \in Procs : Call(p) \/ Step(p) BY DEF Next
<1>5. CASE ChanSend(p) BY <1>5 DEF ChanSend
<1>6. CASE \E o \in {"offer", "put"} : ChanOffer(p, o) BY <1>6 DEF ChanOffer
<1>7. ASSUME NEW n, CloseLocked(p, n) PROVE UNCHANGED <<taken, sawNil, pval>> /\ (done => done')
  BY <1>7 DEF CloseLocked, CloseDone, latch, history
<1>8. CASE ChanRecv(p) BY <1>2, <1>8 DEF ChanRecv, latch, history
<1>9. CASE ChanPoll(p)
  <2>1. CASE /\ done /\ taken' = taken \o pval /\ UNCHANGED sawNil
    BY <1>9, <2>1 DEF ChanPoll, latch
  <2>2. CASE UNCHANGED <<goChan, history>> BY <1>9, <2>2 DEF ChanPoll, latch, history
  <2> QED BY <1>2, <1>9, <2>1, <2>2 DEF ChanPoll
<1>10. CASE PromisePut(p)
  <2>1. CASE closed \/ delivered BY <1>10, <2>1 DEF PromisePut, latch, history
  <2>2. CASE ~(closed \/ delivered)
    <3>1. pval' = <<Arg(p)>> /\ UNCHANGED <<taken, sawNil>> BY <1>10, <2>2 DEF PromisePut, history
    <3>2. ~done /\ pval = <<>> BY <1>1, <2>2 DEF IInv, DoneInv
    <3>3. Arg(p) \in Elem BY <1>10, ArgType DEF PromisePut
    <3> QED BY <3>1, <3>2, <3>3
  <2> QED BY <2>1, <2>2
<1>11. CASE ChanTakeAsync(p) BY <1>11 DEF ChanTakeAsync, latch, history
<1>12. CASE PromiseRecv(p) BY <1>12 DEF PromiseRecv, latch
<1>13. CASE PutReturn(p) \/ FlushReturn(p) \/ OfferTry(p) \/ BufferAdd(p) \/ SlideEvict(p) \/ SlideReadd(p)
            \/ RecvSelect(p) \/ RecvDrain(p)
  BY <1>3, <1>13 DEF PutReturn, FlushReturn, OfferTry, BufferAdd, SlideEvict, SlideReadd, RecvSelect, RecvDrain, Adding
<1>14. CASE ChanClose(p) \/ ReducedClose(p) BY <1>7, <1>14 DEF ChanClose, ReducedClose
<1> QED BY <1>4, <1>5, <1>6, <1>8, <1>9, <1>10, <1>11, <1>12, <1>13, <1>14 DEF Call, Step

LEMMA PromiseNext ==
  ASSUME IInv, PromiseInv, [Next]_vars
  PROVE  PromiseInv'
<1>1. CASE UNCHANGED vars BY <1>1 DEF PromiseInv, vars, Promise
<1>2. CASE Next
  <2>1. Promise' = Promise BY <1>2 DEF Next, Promise
  <2> SUFFICES ASSUME Promise PROVE PromiseInv' BY <2>1 DEF PromiseInv
  <2>2. taken \in Seq(Elem) BY Types
  <2>3. CASE UNCHANGED <<taken, sawNil, pval>> /\ (done => done')
    BY <2>3 DEF PromiseInv
  <2>4. CASE /\ taken' = taken \o pval /\ UNCHANGED <<pval, done>> /\ done
             /\ sawNil' \in {sawNil, sawNil \/ pval = <<>>}
    <3>1. CASE pval = <<>>
      <4>1. taken' = taken BY <2>2, <2>4, <3>1
      <4> QED BY <2>4, <3>1, <4>1 DEF PromiseInv
    <3>2. CASE pval # <<>>
      <4>1. PICK e \in Elem : pval = <<e>> BY <3>2 DEF PromiseInv
      <4>2. taken' = Append(taken, e) BY <2>2, <2>4, <4>1
      <4>3. \A i \in 1..Len(taken') : taken'[i] = IF i = Len(taken) + 1 THEN e ELSE taken[i]
        BY <2>2, <4>2, AppendFacts
      <4>4. Len(taken') = Len(taken) + 1 /\ Len(taken) \in Nat BY <2>2, <4>2, AppendFacts
      <4>5. \A i \in 1..Len(taken') : pval = <<taken'[i]>>
        BY <4>1, <4>3, <4>4 DEF PromiseInv
      <4>6. ~sawNil' BY <2>4, <3>2 DEF PromiseInv
      <4> QED BY <2>4, <4>1, <4>5, <4>6 DEF PromiseInv
    <3> QED BY <3>1, <3>2
  <2>5. CASE /\ ~done /\ pval = <<>> /\ \E e \in Elem : pval' = <<e>>
             /\ UNCHANGED <<taken, sawNil>>
    <3>1. 1..Len(taken) = {} /\ ~sawNil BY <2>2, <2>5 DEF PromiseInv
    <3> QED BY <2>5, <3>1 DEF PromiseInv
  <2> QED BY <1>2, <2>3, <2>4, <2>5, PromiseSteps
<1> QED BY <1>1, <1>2

\* A promise-chan is a latch, for every interleaving of puts, offers, close!,
\* takes and polls: its takers all got the one value, or all nil.
THEOREM PromiseIsLatch == Spec => []PromiseLatch
<1>1. Init => PromiseInv BY DEF Init, PromiseInv
<1>2. IInv /\ PromiseInv => PromiseLatch
  <2> SUFFICES ASSUME IInv, PromiseInv, Promise
               PROVE  /\ \A i \in DOMAIN taken : taken[i] = taken[1]
                      /\ ~(sawNil /\ taken # <<>>)
    BY DEF PromiseLatch
  <2>1. taken \in Seq(Elem) /\ DOMAIN taken = 1..Len(taken) /\ Len(taken) \in Nat
    BY Types
  <2>2. \A i \in 1..Len(taken) : pval = <<taken[i]>> /\ 1 \in 1..Len(taken)
    BY <2>1 DEF PromiseInv
  <2>3. \A i \in 1..Len(taken) : taken[i] = taken[1]
    BY <2>2
  <2>4. sawNil => taken = <<>>
    <3>1. sawNil => pval = <<>> BY DEF PromiseInv
    <3>2. sawNil => 1..Len(taken) = {} BY <2>2, <3>1
    <3>3. sawNil => Len(taken) = 0
      <4>1. Len(taken) # 0 => 1 \in 1..Len(taken) BY <2>1
      <4> QED BY <3>2, <4>1
    <3>4. \A t \in Seq(Elem) : Len(t) = 0 => t = <<>> OBVIOUS
    <3> QED BY <2>1, <3>3, <3>4
  <2> QED BY <2>1, <2>3, <2>4
<1> QED BY <1>1, <1>2, PromiseNext, Invariance, PTL DEF Spec

------------------------------------------------------------------------------
(***************************************************************************)
(* Where an offer may park.                                                *)
(***************************************************************************)

\* What is left of an offer: on a plain channel nothing once it has been sent; with
\* a transducer the elements from the k-th on, and room for the first of all.
OfferAt(p) ==
  op[p] = "offer" =>
    /\ pc[p] = "try" => Len(todo[p]) = 1
    /\ Adding(p) /\ ~Guarded => todo[p] = <<>>
    /\ Adding(p) /\ HasXform /\ Policy = "fixed" =>
         /\ \A i \in 1..Len(todo[p]) : todo[p][i].part >= i
         /\ todo[p] # <<>> => Head(todo[p]).part > 1 \/ (pc[p] = "add" /\ Len(buf) < Cap)

OfferInv == \A p \in Procs : OfferAt(p)

\* A goroutine that is not in offer!, or whose offer! is where it was and finds no
\* less room, is fine.
LEMMA OfferKept ==
  ASSUME ShapeKept, NEW q \in Procs, OfferAt(q),
         \/ op'[q] # "offer"
         \/ ~Adding(q)' /\ pc'[q] # "try"
         \/ /\ op'[q] = op[q] /\ pc'[q] = pc[q] /\ todo'[q] = todo[q]
            /\ Adding(q) /\ HasXform /\ Policy = "fixed" => buf' = buf \/ Len(buf') < Cap
  PROVE  OfferAt(q)'
<1> USE DEF ShapeKept
<1>1. CASE op'[q] # "offer" BY <1>1 DEF OfferAt
<1>2. CASE ~Adding(q)' /\ pc'[q] # "try" BY <1>2 DEF OfferAt
<1>3. CASE /\ op'[q] = op[q] /\ pc'[q] = pc[q] /\ todo'[q] = todo[q]
           /\ Adding(q) /\ HasXform /\ Policy = "fixed" => buf' = buf \/ Len(buf') < Cap
  BY <1>3 DEF OfferAt, Adding
<1> QED BY <1>1, <1>2, <1>3

LEMMA LenZero ==
  ASSUME NEW S, NEW s \in Seq(S), Len(s) = 0
  PROVE  s = <<>>
OBVIOUS

\* Once its first element is gone an offer has none, or none but later ones.
LEMMA OfferSent ==
  ASSUME IInv, ShapeKept, NEW q \in Procs, OfferAt(q), Adding(q) \/ pc[q] = "try",
         todo[q] # <<>>, op'[q] = op[q], pc'[q] = "add", todo'[q] = Tail(todo[q])
  PROVE  OfferAt(q)'
<1> USE DEF ShapeKept
<1> SUFFICES ASSUME op[q] = "offer" PROVE OfferAt(q)'
  BY DEF OfferAt
<1>1. /\ todo[q] \in Seq(Elem) /\ Tail(todo[q]) \in Seq(Elem)
      /\ Len(todo[q]) \in Nat /\ Len(Tail(todo[q])) = Len(todo[q]) - 1
      /\ \A i \in 1..Len(Tail(todo[q])) : Tail(todo[q])[i] = todo[q][i + 1]
  BY Types, TailFacts
<1>2. pc[q] = "try" => ~Guarded BY DEF IInv, ProcInv, ShapeAt
<1>3. ~Guarded => todo'[q] = <<>>
  <2>1. CASE Adding(q) BY <2>1 DEF OfferAt
  <2>2. CASE pc[q] = "try"
    <3>1. Len(todo[q]) = 1 BY <2>2 DEF OfferAt
    <3>2. Len(Tail(todo[q])) = 0 BY <1>1, <3>1
    <3>3. Tail(todo[q]) = <<>> BY <1>1, <3>2, LenZero
    <3> QED BY <3>3
  <2> QED BY <2>1, <2>2
<1>4. CASE HasXform /\ Policy = "fixed"
  <2>1. Guarded /\ Adding(q) BY <1>2, <1>4 DEF Guarded
  <2>2. \A i \in 1..Len(todo[q]) : todo[q][i].part >= i BY <1>4, <2>1 DEF OfferAt
  <2>3. \A i \in 1..Len(todo'[q]) : todo'[q][i] \in Elem /\ todo'[q][i].part >= i + 1
    BY <1>1, <2>2
  <2>4. \A i \in 1..Len(todo'[q]) : todo'[q][i].part \in Nat
    BY <2>3, ChannelAssumption DEF Elem
  <2>5. todo'[q] # <<>> => 1 \in 1..Len(todo'[q]) /\ Head(todo'[q]) = todo'[q][1]
    BY <1>1, TailFacts
  <2>6. ASSUME todo'[q] # <<>> PROVE Head(todo'[q]).part > 1
    <3>1. 1 \in 1..Len(todo'[q]) /\ Head(todo'[q]) = todo'[q][1] BY <2>5, <2>6
    <3>2. todo'[q][1].part \in Nat /\ todo'[q][1].part >= 1 + 1 BY <2>3, <2>4, <3>1
    <3> QED BY <3>1, <3>2
  <2> QED BY <2>1, <2>3, <2>4, <2>6 DEF OfferAt
<1>5. CASE ~(HasXform /\ Policy = "fixed") BY <1>3, <1>5 DEF OfferAt
<1> QED BY <1>4, <1>5

\* On a guarded channel whoever adds is alone.
LEMMA AddsAlone ==
  ASSUME IInv, Guarded, NEW p \in Procs, NEW q \in Procs, Adding(p), Adding(q)
  PROVE  p = q
BY DEF IInv, ProcInv, LockAt

LEMMA OfferSend ==
  ASSUME IInv, ShapeKept, OfferInv, NEW p \in Procs, GoSend(p),
         pc[p] \in {"try", "add", "readd"}, todo[p] # <<>>
  PROVE  OfferInv'
<1> USE DEF ShapeKept
<1> USE Types
<1> SUFFICES ASSUME NEW q \in Procs PROVE OfferAt(q)' BY DEF OfferInv
<1>1. OfferAt(q) BY DEF OfferInv
<1>2. pc[p] = "try" => ~Guarded BY DEF IInv, ProcInv, ShapeAt
<1>3. recvq # <<>> => Head(recvq) \in Procs /\ pc[Head(recvq)] = "wait"
  <2>1. Parked(pc, recvq, "wait") BY DEF IInv, QueueInv
  <2>2. recvq # <<>> => Head(recvq) \in Procs /\ recvq[1] = Head(recvq) /\ 1 \in 1..Len(recvq)
    BY TailFacts
  <2> QED BY <2>1, <2>2 DEF Parked
<1>4. todo' = [todo EXCEPT ![p] = Tail(todo[p])] BY DEF GoSend
<1>5. CASE q = p
  <2>1. op'[p] = op[p] /\ pc'[p] = "add" /\ todo'[p] = Tail(todo[p])
    BY <1>3, <1>4 DEF GoSend
  <2> QED BY <1>1, <1>5, <2>1, OfferSent DEF Adding
<1>6. CASE q # p
  <2>1. Adding(q) => ~(HasXform /\ Policy = "fixed")
    BY <1>2, <1>6, AddsAlone DEF Guarded, Adding
  <2>2. CASE recvq # <<>> /\ q = Head(recvq)
    BY <1>1, <2>2, OfferKept DEF GoSend
  <2>3. CASE ~(recvq # <<>> /\ q = Head(recvq))
    <3>1. op'[q] = op[q] /\ pc'[q] = pc[q] /\ todo'[q] = todo[q]
      BY <1>3, <1>4, <1>6, <2>3 DEF GoSend
    <3> QED BY <1>1, <2>1, <3>1, OfferKept
  <2> QED BY <2>2, <2>3
<1> QED BY <1>5, <1>6

LEMMA OfferRecv ==
  ASSUME IInv, ShapeKept, OfferInv, NEW p \in Procs, GoRecv(p), pc[p] # "park"
  PROVE  OfferInv'
<1> USE DEF ShapeKept
<1> USE Types
<1> DEFINE h == Head(sendq)
<1> SUFFICES ASSUME NEW q \in Procs PROVE OfferAt(q)' BY DEF OfferInv
<1>1. OfferAt(q) BY DEF OfferInv
<1>2. CASE q = p
  <2>1. op'[q] = "none" BY <1>2 DEF GoRecv
  <2> QED BY <1>1, <2>1, OfferKept
<1>3. CASE q # p /\ sendq = <<>>
  <2>1. /\ op'[q] = op[q] /\ pc'[q] = pc[q] /\ todo'[q] = todo[q] /\ buf # <<>> /\ buf' = Tail(buf)
    BY <1>3 DEF GoRecv, Released, BufAfterRecv, CanRecv
  <2>2. Len(buf') < Cap BY <2>1, TailFacts
  <2> QED BY <1>1, <2>1, <2>2, OfferKept
<1>4. CASE q # p /\ sendq # <<>>
  <2>1. h \in Procs /\ pc[h] = "park" /\ todo[h] # <<>>
    <3>1. Parked(pc, sendq, "park") BY DEF IInv, QueueInv
    <3>2. Head(sendq) \in Procs /\ pc[Head(sendq)] = "park"
          /\ Parked(pc, Tail(sendq), "park")
      BY <1>4, <3>1, ParkedTail
    <3> QED BY <3>2 DEF IInv, ProcInv, TodoAt
  <2>2. /\ pc' = [[pc EXCEPT ![h] = "add"] EXCEPT ![p] = "idle"]
        /\ todo' = [todo EXCEPT ![h] = Tail(todo[h])] /\ op'[q] = op[q]
    BY <1>4 DEF GoRecv, Released
  <2>3. CASE q = h
    <3>1. op'[q] = op[q] /\ pc'[q] = "add" /\ todo'[q] = Tail(todo[q])
      BY <1>4, <2>2, <2>3
    <3> QED BY <1>1, <2>1, <2>3, <3>1, OfferSent DEF Adding
  <2>4. CASE q # h
    <3>1. Adding(q) => ~HasXform BY <2>1, <2>4, AddsAlone DEF Adding, Guarded
    <3>2. pc'[q] = pc[q] /\ todo'[q] = todo[q] BY <1>4, <2>2, <2>4
    <3> QED BY <1>1, <2>2, <3>1, <3>2, OfferKept
  <2> QED BY <2>3, <2>4
<1> QED BY <1>2, <1>3, <1>4

\* The transducer's elements are numbered from one.
LEMMA EmittedParts ==
  ASSUME NEW e \in Elem, NEW x \in XOutcomes
  PROVE  \A i \in 1..Len(Emitted(e, 0, x)) : Emitted(e, 0, x)[i].part >= i
<1> DEFINE k == x.n + (IF x.end = "panic" /\ shape.exh THEN 1 ELSE 0)
<1>1. x.n \in Nat /\ MaxPart \in Nat BY ChannelAssumption DEF Outcome
<1>2. k \in Nat BY <1>1
<1>3. \A i \in Nat : [e EXCEPT !.part = 0 + i].part = i BY DEF Elem
<1> DEFINE f(i) == [e EXCEPT !.part = 0 + i]
<1>4. Emitted(e, 0, x) = [i \in 1..k |-> f(i)] BY DEF Emitted
<1>5. \A i \in Nat : f(i).part = i BY <1>3
<1> HIDE DEF f, k
<1>6. Len([i \in 1..k |-> f(i)]) = k BY <1>2
<1> QED BY <1>2, <1>4, <1>5, <1>6

LEMMA OfferEnters ==
  ASSUME IInv, ShapeKept, OfferInv, NEW p \in Procs, NEW o, ChanOffer(p, o)
  PROVE  OfferInv'
<1> USE DEF ShapeKept
<1> USE Types
<1> SUFFICES ASSUME NEW q \in Procs PROVE OfferAt(q)' BY DEF OfferInv
<1>1. OfferAt(q) BY DEF OfferInv
<1>2. Arg(p) \in Elem /\ o \in {"offer", "put"} BY ArgType DEF ChanOffer
<1>3. buf' = buf BY DEF ChanOffer, goChan
<1>4. CASE closed /\ Return(p, "false")
  BY <1>1, <1>3, <1>4, OfferKept DEF Return
<1>5. CASE WouldBlock(p, o, Arg(p))
  BY <1>1, <1>3, <1>5, OfferKept DEF WouldBlock, Return
<1>6. CASE Policy = "fixed" /\ ~HasXform /\ UnlockedPut(p, o, Arg(p), "try")
  <2>1. CASE q # p BY <1>1, <1>3, <1>6, <2>1, OfferKept DEF UnlockedPut
  <2>2. CASE q = p
    <3>1. pc'[q] = "try" /\ todo'[q] = <<Arg(p)>> BY <1>6, <2>2 DEF UnlockedPut
    <3>2. Len(todo'[q]) = 1 BY <3>1
    <3> QED BY <3>1, <3>2 DEF OfferAt, Adding
  <2> QED BY <2>1, <2>2
<1>7. CASE HasXform /\ Len(buf) < Cap /\ LockedPut(p, o, Arg(p))
  <2>1. CASE q # p BY <1>1, <1>3, <1>7, <2>1, OfferKept DEF LockedPut
  <2>2. CASE q = p
    <3>1. PICK x \in XOutcomes : todo' = [todo EXCEPT ![p] = Emitted(Arg(p), 0, x)]
      BY <1>7 DEF LockedPut
    <3>2. pc'[q] = "add" /\ todo'[q] = Emitted(Arg(p), 0, x) BY <1>7, <2>2, <3>1 DEF LockedPut
    <3>3. \A i \in 1..Len(todo'[q]) : todo'[q][i].part >= i BY <1>2, <3>2, EmittedParts
    <3> QED BY <1>3, <1>7, <3>2, <3>3 DEF OfferAt, Adding, Guarded
  <2> QED BY <2>1, <2>2
<1>8. CASE Policy # "fixed" /\ LockedPut(p, o, Arg(p))
  <2>1. CASE q # p
    <3>1. pc'[q] = pc[q] /\ op'[q] = op[q] /\ todo'[q] = todo[q]
      BY <1>8, <2>1 DEF LockedPut
    <3> QED BY <1>1, <1>3, <3>1, OfferKept
  <2>2. CASE q = p BY <1>8, <2>2 DEF LockedPut, OfferAt, Adding, Guarded
  <2> QED BY <2>1, <2>2
<1> QED BY <1>4, <1>5, <1>6, <1>7, <1>8 DEF ChanOffer

LEMMA OfferNext ==
  ASSUME IInv, OfferInv, [Next]_vars
  PROVE  OfferInv'
<1>1. CASE UNCHANGED vars
  BY <1>1 DEF OfferInv, OfferAt, vars, Adding, Guarded, HasXform, Policy, Cap
<1>2. CASE Next
  <2> USE Types
  <2>0. ShapeKept BY <1>2 DEF Next, ShapeKept, Cap, Policy, HasXform, Promise, Guarded
  <2> USE <2>0
  <2>1. PICK p \in Procs : Call(p) \/ Step(p) BY <1>2 DEF Next
  <2>2. \A q \in Procs : OfferAt(q) BY DEF OfferInv
  <2>3. TodoAt(p) /\ OpAt(p) /\ ShapeAt(p) BY DEF IInv, ProcInv
  <2>4. CASE ChanSend(p)
    BY <2>2, <2>4, OfferKept DEF ChanSend, Return, UnlockedPut, LockedPut, goChan, OfferInv
  <2>5. CASE \E o \in {"offer", "put"} : ChanOffer(p, o) BY <2>5, OfferEnters
  <2>6. ASSUME NEW n, CloseLocked(p, n) PROVE OfferInv'
    <3>1. \A q \in Procs : op'[q] = op[q] \/ op'[q] # "offer" BY <2>6 DEF CloseLocked
    <3>2. op'[p] # "offer" BY <2>6 DEF CloseLocked
    <3>3. \A q \in Procs : q = p \/ todo'[q] = todo[q] BY <2>6 DEF CloseLocked
    <3>4. \A q \in Procs : q = p \/ pc'[q] = pc[q] \/ pc'[q] = "drain"
      BY <2>6 DEF CloseLocked, CloseDone
    <3>5. buf' = buf BY <2>6 DEF CloseLocked
    <3> QED BY <2>2, <3>1, <3>2, <3>3, <3>4, <3>5, OfferKept DEF OfferInv, Adding
  <2>7. CASE ChanRecv(p) \/ ChanPoll(p) \/ RecvSelect(p) \/ RecvDrain(p)
    <3>1. CASE GoRecv(p)
      <4>1. pc[p] # "park" BY <2>7 DEF ChanRecv, ChanPoll, Enter, RecvSelect, RecvDrain
      <4> QED BY <3>1, <4>1, OfferRecv
    <3>2. CASE ~GoRecv(p)
      <4>1. /\ \A q \in Procs : q # p => pc'[q] = pc[q] /\ op'[q] = op[q] /\ todo'[q] = todo[q]
            /\ pc'[p] \in {"idle", "await", "select", "drain", "wait"} /\ buf' = buf
        BY <2>7, <3>2 DEF ChanRecv, ChanPoll, RecvSelect, RecvDrain, Return, goChan
      <4> QED BY <2>2, <4>1, OfferKept DEF OfferInv, Adding
    <3> QED BY <3>1, <3>2
  <2>8. CASE PromisePut(p) \/ PromiseRecv(p)
    <3>1. Promise /\ buf' = buf BY <2>3, <2>8 DEF PromisePut, PromiseRecv, ShapeAt, goChan
    <3>2. ~Guarded /\ ~Guarded' BY <3>1, Types DEF ShapeKept
    <3>3. \A q \in Procs : ~Adding(q) /\ pc[q] # "try" BY <3>1 DEF IInv, ProcInv, ShapeAt
    <3>4. \A q \in Procs : pc'[q] \in {pc[q], "idle", "drain"}
      BY <2>8 DEF PromisePut, PromiseRecv, Return, CloseDone
    <3> QED BY <2>2, <3>3, <3>4, OfferKept DEF OfferInv, Adding
  <2>9. CASE ChanTakeAsync(p)
    BY <2>2, <2>9, OfferKept DEF ChanTakeAsync, goChan, OfferInv
  <2>10. CASE OfferTry(p)
    <3>1. CASE GoSend(p) BY <2>3, <2>10, <3>1, OfferSend DEF OfferTry, TodoAt
    <3>2. CASE WouldBlock(p, op[p], Head(todo[p])) /\ buf' = buf
      BY <2>2, <3>2, OfferKept DEF WouldBlock, Return, OfferInv
    <3> QED BY <2>10, <3>1, <3>2 DEF OfferTry, goChan
  <2>11. CASE BufferAdd(p)
    <3>1. pc[p] = "add" /\ todo[p] # <<>> BY <2>11 DEF BufferAdd
    <3>2. CASE GoSend(p) BY <3>1, <3>2, OfferSend
    <3>3. CASE /\ ~CanSend /\ pc' = [pc EXCEPT ![p] = "park"]
               /\ UNCHANGED <<buf, todo, op>>
      <4> SUFFICES ASSUME NEW q \in Procs PROVE OfferAt(q)' BY DEF OfferInv
      <4>1. CASE q # p BY <2>2, <3>3, <4>1, OfferKept
      <4>2. CASE q = p
        <5>1. ~(Len(buf) < Cap) BY <3>3 DEF CanSend
        <5> QED BY <2>2, <3>1, <3>3, <4>2, <5>1 DEF OfferAt, Adding, ShapeKept
      <4> QED BY <4>1, <4>2
    <3>4. CASE Policy # "fixed" /\ ~GoSend(p)
      <4> SUFFICES ASSUME NEW q \in Procs PROVE OfferAt(q)' BY DEF OfferInv
      <4>1. CASE q # p
        BY <2>2, <2>11, <3>4, <4>1, OfferKept DEF BufferAdd, goChan
      <4>2. CASE q = p
        <5>1. Guarded /\ pc'[q] \in {"add", "evict"}
          BY <2>11, <3>1, <3>4, <4>2 DEF Guarded, BufferAdd
        <5> QED BY <3>4, <5>1 DEF OfferAt, Adding, ShapeKept
      <4> QED BY <4>1, <4>2
    <3> QED BY <2>11, <3>2, <3>3, <3>4 DEF BufferAdd
  <2>12. CASE SlideEvict(p)
    <3>1. Policy = "sliding" /\ Guarded /\ pc' = [pc EXCEPT ![p] = "readd"] /\ UNCHANGED <<op, todo>>
      BY <2>3, <2>12 DEF SlideEvict, ShapeAt, Guarded
    <3> SUFFICES ASSUME NEW q \in Procs PROVE OfferAt(q)' BY DEF OfferInv
    <3>2. pc'[q] # "try" \/ (pc'[q] = pc[q] /\ op'[q] = op[q] /\ todo'[q] = todo[q]) BY <3>1
    <3> QED BY <2>2, <3>1, <3>2 DEF OfferAt, ShapeKept
  <2>13. CASE SlideReadd(p)
    <3>1. GoSend(p) /\ pc[p] = "readd" BY <2>13 DEF SlideReadd, IInv, SlideInv, CanSend
    <3> QED BY <2>3, <3>1, OfferSend DEF TodoAt
  <2>14. CASE PutReturn(p) \/ FlushReturn(p)
    <3>1. /\ buf' = buf /\ todo' = todo /\ pc'[p] \in {"idle", "close"}
          /\ \A q \in Procs : q # p => op'[q] = op[q] /\ pc'[q] \in {pc[q], "drain"}
      BY <2>14 DEF PutReturn, FlushReturn, CloseDone, goChan
    <3> QED BY <2>2, <3>1, OfferKept DEF OfferInv, Adding
  <2>15. CASE ChanClose(p) \/ ReducedClose(p) BY <2>6, <2>15 DEF ChanClose, ReducedClose
  <2> QED BY <2>1, <2>4, <2>5, <2>7, <2>8, <2>9, <2>10, <2>11, <2>12, <2>13, <2>14, <2>15
          DEF Call, Step
<1> QED BY <1>1, <1>2

\* An offer! that parks its caller has passed its first element on: the caller
\* holds c.mu on a later element of an expanding transducer, never otherwise.
THEOREM OffersParkLate == Spec => []OfferParksLate
<1>1. Init => OfferInv BY DEF Init, OfferInv, OfferAt
<1>2. IInv /\ OfferInv => OfferParksLate
  <2> SUFFICES ASSUME IInv, OfferInv, NEW p \in Procs, op[p] = "offer", pc[p] = "park"
               PROVE  HasXform /\ mu = p /\ Head(todo[p]).part > 1
    BY DEF OfferParksLate
  <2>1. Policy = "fixed" /\ todo[p] # <<>> /\ Adding(p)
    BY DEF IInv, ProcInv, ShapeAt, TodoAt, Adding
  <2>2. OfferAt(p) BY DEF OfferInv
  <2>3. Guarded BY <2>1, <2>2 DEF OfferAt
  <2>4. HasXform BY <2>1, <2>3 DEF Guarded
  <2>5. mu = p BY <2>1, <2>3 DEF IInv, ProcInv, LockAt
  <2> QED BY <2>1, <2>2, <2>4, <2>5 DEF OfferAt
<1> QED BY <1>1, <1>2, OfferNext, Invariance, PTL DEF Spec

------------------------------------------------------------------------------
(***************************************************************************)
(* The elements and where they are: what moving one does.                  *)
(***************************************************************************)

\* No element occurs twice in s; the elements of one producer are in order in s;
\* and everything in S is older than anything of that producer in T.
Once(s) == \A i, j \in 1..Len(s) : s[i] = s[j] => i = j
Sorted(s) == \A i, j \in 1..Len(s) : i < j /\ s[i].by = s[j].by => Earlier(s[i], s[j])
Below(S, T) == \A d \in S, e \in T : d.by = e.by => Earlier(d, e)

\* The elements there are, when t was taken, b is buffered, d is still to be added
\* and l was discarded.
Contents(t, b, d, l) ==
  Range(t) \cup Range(b) \cup l \cup UNION {Range(d[p]) : p \in Procs}

\* Each of them is in one place.
Apart(t, b, d, l) ==
  /\ Once(t) /\ Once(b)
  /\ \A e \in Range(t) : e \notin Range(b) /\ e \notin l
  /\ \A e \in Range(b) : e \notin l
  /\ \A p \in Procs : /\ Once(d[p])
                      /\ \A e \in Range(d[p]) :
                           /\ e \notin Range(t) /\ e \notin Range(b) /\ e \notin l
                           /\ \A q \in Procs : e \in Range(d[q]) => q = p

\* The elements of each producer move on in the order it made them, v of them
\* having been evicted.
Ordered(t, b, d, v) ==
  /\ Sorted(t) /\ Sorted(b) /\ Below(Range(t), Range(b)) /\ Below(v, Range(b))
  /\ \A p \in Procs : /\ \A e \in Range(d[p]) : e.by = p
                      /\ Sorted(d[p])
                      /\ Below(Range(t), Range(d[p])) /\ Below(Range(b), Range(d[p]))
                      /\ Below(v, Range(d[p]))

\* The elements of s are p's, and newer than all of p's that went before.
Follows(p, s, t, b, v) ==
  /\ Sorted(s) /\ \A e \in Range(s) : e.by = p
  /\ Below(Range(t), Range(s)) /\ Below(Range(b), Range(s)) /\ Below(v, Range(s))

LEMMA InContents ==
  ASSUME NEW t, NEW b, NEW d, NEW l, NEW e
  PROVE  e \in Contents(t, b, d, l) <=> \/ e \in Range(t) \/ e \in Range(b) \/ e \in l
                                        \/ \E p \in Procs : e \in Range(d[p])
BY DEF Contents

LEMMA RangeSeq ==
  ASSUME NEW S, NEW s \in Seq(S)
  PROVE  /\ Len(s) \in Nat /\ Range(s) \subseteq S
         /\ \A x : x \in Range(s) <=> \E i \in 1..Len(s) : s[i] = x
<1>1. DOMAIN s = 1..Len(s) /\ Len(s) \in Nat OBVIOUS
<1>2. \A i \in 1..Len(s) : s[i] \in S OBVIOUS
<1> QED BY <1>1, <1>2 DEF Range

LEMMA TailContents ==
  ASSUME NEW S, NEW s \in Seq(S), s # <<>>
  PROVE  /\ Head(s) \in S /\ Tail(s) \in Seq(S)
         /\ Range(s) = Range(Tail(s)) \cup {Head(s)}
         /\ Once(s) => Once(Tail(s)) /\ Head(s) \notin Range(Tail(s))
         /\ Sorted(s) => Sorted(Tail(s)) /\ Below({Head(s)}, Range(Tail(s)))
<1>1. /\ Head(s) \in S /\ s[1] = Head(s) /\ Tail(s) \in Seq(S)
      /\ Len(s) \in Nat /\ Len(s) > 0 /\ Len(Tail(s)) = Len(s) - 1
      /\ \A i \in 1..Len(Tail(s)) : Tail(s)[i] = s[i + 1]
  BY TailFacts
<1>2. \A i \in 1..Len(Tail(s)) : i + 1 \in 1..Len(s) /\ 1 < i + 1 /\ Tail(s)[i] = s[i + 1]
  BY <1>1
<1>3. \A i \in 1..Len(s) : i # 1 => i - 1 \in 1..Len(Tail(s)) /\ Tail(s)[i - 1] = s[i]
  BY <1>1
<1>4. 1 \in 1..Len(s) BY <1>1
<1>5. \A x : x \in Range(s) <=> \E i \in 1..Len(s) : s[i] = x BY RangeSeq
<1>6. \A x : x \in Range(Tail(s)) <=> \E i \in 1..Len(Tail(s)) : Tail(s)[i] = x
  BY <1>1, RangeSeq
<1>7. Range(s) = Range(Tail(s)) \cup {Head(s)}
  <2>1. \A x \in Range(s) : x \in Range(Tail(s)) \cup {Head(s)}
    BY <1>1, <1>3, <1>5, <1>6
  <2>2. Head(s) \in Range(s) BY <1>1, <1>4, <1>5
  <2>3. \A x \in Range(Tail(s)) : x \in Range(s) BY <1>2, <1>5, <1>6
  <2> QED BY <2>1, <2>2, <2>3
<1>8. ASSUME Once(s) PROVE Once(Tail(s)) /\ Head(s) \notin Range(Tail(s))
  <2>1. \A i \in 1..Len(Tail(s)) : s[i + 1] # s[1] BY <1>2, <1>4, <1>8 DEF Once
  <2>2. Head(s) \notin Range(Tail(s)) BY <1>1, <1>2, <1>6, <2>1
  <2>3. \A i, j \in 1..Len(Tail(s)) : Tail(s)[i] = Tail(s)[j] => i + 1 = j + 1
    BY <1>2, <1>8 DEF Once
  <2>4. \A i, j \in 1..Len(Tail(s)) : i + 1 = j + 1 => i = j BY <1>1
  <2> QED BY <2>2, <2>3, <2>4 DEF Once
<1>9. ASSUME Sorted(s) PROVE Sorted(Tail(s)) /\ Below({Head(s)}, Range(Tail(s)))
  <2>1. \A i, j \in 1..Len(Tail(s)) : i < j => i + 1 < j + 1 BY <1>1
  <2>2. Sorted(Tail(s)) BY <1>2, <1>9, <2>1 DEF Sorted
  <2>3. \A i \in 1..Len(Tail(s)) : s[1].by = s[i + 1].by => Earlier(s[1], s[i + 1])
    BY <1>2, <1>4, <1>9 DEF Sorted
  <2> QED BY <1>1, <1>2, <1>6, <2>2, <2>3 DEF Below
<1> QED BY <1>1, <1>7, <1>8, <1>9

LEMMA AppendContents ==
  ASSUME NEW s \in Seq(Elem), NEW e \in Elem
  PROVE  /\ Append(s, e) \in Seq(Elem)
         /\ Range(Append(s, e)) = Range(s) \cup {e}
         /\ Once(s) /\ e \notin Range(s) => Once(Append(s, e))
         /\ Sorted(s) /\ Below(Range(s), {e}) => Sorted(Append(s, e))
<1> DEFINE a == Append(s, e)
<1>1. /\ a \in Seq(Elem) /\ Len(s) \in Nat /\ Len(a) = Len(s) + 1
      /\ \A i \in 1..Len(a) : a[i] = IF i = Len(s) + 1 THEN e ELSE s[i]
  BY AppendFacts
<1>2. \A x : x \in Range(s) <=> \E i \in 1..Len(s) : s[i] = x BY RangeSeq
<1>3. \A x : x \in Range(a) <=> \E i \in 1..Len(a) : a[i] = x BY <1>1, RangeSeq
<1> HIDE DEF a
<1>4. /\ Len(s) + 1 \in 1..Len(a) /\ a[Len(s) + 1] = e
      /\ \A i \in 1..Len(s) : i \in 1..Len(a) /\ a[i] = s[i] /\ i < Len(s) + 1
      /\ \A i \in 1..Len(a) : i = Len(s) + 1 \/ i \in 1..Len(s)
  BY <1>1
<1>5. Range(a) = Range(s) \cup {e} BY <1>2, <1>3, <1>4
<1>6. Once(s) /\ e \notin Range(s) => Once(a)
  <2> SUFFICES ASSUME Once(s), e \notin Range(s), NEW i \in 1..Len(a), NEW j \in 1..Len(a), a[i] = a[j]
               PROVE  i = j
    BY DEF Once
  <2>1. CASE i = Len(s) + 1 BY <1>2, <1>4, <2>1
  <2>2. CASE i \in 1..Len(s) BY <1>2, <1>4, <2>2 DEF Once
  <2> QED BY <1>4, <2>1, <2>2
<1>7. Sorted(s) /\ Below(Range(s), {e}) => Sorted(a)
  <2> SUFFICES ASSUME Sorted(s), Below(Range(s), {e}), NEW i \in 1..Len(a), NEW j \in 1..Len(a), i < j,
                      a[i].by = a[j].by
               PROVE  Earlier(a[i], a[j])
    BY DEF Sorted
  <2>1. i \in 1..Len(s) BY <1>1, <1>4
  <2>2. a[i] = s[i] /\ s[i] \in Range(s) BY <1>2, <1>4, <2>1
  <2>3. CASE j = Len(s) + 1
    <3>1. a[j] = e BY <1>4, <2>3
    <3> QED BY <2>2, <3>1 DEF Below
  <2>4. CASE j \in 1..Len(s) BY <1>4, <2>1, <2>2, <2>4 DEF Sorted
  <2> QED BY <1>4, <2>3, <2>4
<1> QED BY <1>1, <1>5, <1>6, <1>7 DEF a

LEMMA SmallContents ==
  ASSUME NEW e
  PROVE  /\ Range(<<>>) = {} /\ Once(<<>>) /\ Sorted(<<>>)
         /\ Range(<<e>>) = {e} /\ Once(<<e>>) /\ Sorted(<<e>>)
BY DEF Range, Once, Sorted
------------------------------------------------------------------------------
\* A taker gets the oldest buffered element.
LEMMA TakeContents ==
  ASSUME NEW t \in Seq(Elem), NEW b \in Seq(Elem), NEW d \in [Procs -> Seq(Elem)], NEW l, NEW v, b # <<>>
  PROVE  /\ Append(t, Head(b)) \in Seq(Elem) /\ Tail(b) \in Seq(Elem)
         /\ Contents(Append(t, Head(b)), Tail(b), d, l) \subseteq Contents(t, b, d, l)
         /\ Apart(t, b, d, l) => Apart(Append(t, Head(b)), Tail(b), d, l)
         /\ Ordered(t, b, d, v) => Ordered(Append(t, Head(b)), Tail(b), d, v)
<1> DEFINE x == Head(b)
           u == Append(t, x)
           c == Tail(b)
<1>1. /\ x \in Elem /\ c \in Seq(Elem) /\ Range(b) = Range(c) \cup {x}
      /\ Once(b) => Once(c) /\ x \notin Range(c)
      /\ Sorted(b) => Sorted(c) /\ Below({x}, Range(c))
  BY TailContents
<1>2. /\ u \in Seq(Elem) /\ Range(u) = Range(t) \cup {x}
      /\ Once(t) /\ x \notin Range(t) => Once(u)
      /\ Sorted(t) /\ Below(Range(t), {x}) => Sorted(u)
  <2>1. x \in Elem BY <1>1
  <2>2. ASSUME NEW e \in Elem
        PROVE  /\ Append(t, e) \in Seq(Elem) /\ Range(Append(t, e)) = Range(t) \cup {e}
               /\ Once(t) /\ e \notin Range(t) => Once(Append(t, e))
               /\ Sorted(t) /\ Below(Range(t), {e}) => Sorted(Append(t, e))
    BY AppendContents
  <2> HIDE DEF x, c
  <2> QED BY <2>1, <2>2, Zenon
<1> HIDE DEF x, u, c
<1>3. Contents(u, c, d, l) \subseteq Contents(t, b, d, l) BY <1>1, <1>2 DEF Contents
<1>4. Apart(t, b, d, l) => Apart(u, c, d, l) BY <1>1, <1>2 DEF Apart
<1>5. Ordered(t, b, d, v) => Ordered(u, c, d, v) BY <1>1, <1>2 DEF Ordered, Below
<1> QED BY <1>1, <1>2, <1>3, <1>4, <1>5 DEF x, u, c

\* The first element p has still to add: it goes to the buffer, to a waiting
\* taker past an empty buffer, or is discarded.
LEMMA SendContents ==
  ASSUME NEW t \in Seq(Elem), NEW b \in Seq(Elem), NEW d \in [Procs -> Seq(Elem)], NEW l,
         NEW v, NEW p \in Procs, d[p] # <<>>,
         NEW f \in [Procs -> Seq(Elem)], f[p] = Tail(d[p]), \A q \in Procs : q # p => f[q] = d[q]
  PROVE  /\ Append(b, Head(d[p])) \in Seq(Elem)
         /\ Contents(t, Append(b, Head(d[p])), f, l) \subseteq Contents(t, b, d, l)
         /\ Apart(t, b, d, l) => Apart(t, Append(b, Head(d[p])), f, l)
         /\ Ordered(t, b, d, v) => Ordered(t, Append(b, Head(d[p])), f, v)
<1> DEFINE x == Head(d[p])
           a == Append(b, x)
<1>0. d[p] \in Seq(Elem) OBVIOUS
<1>1. /\ x \in Elem /\ Tail(d[p]) \in Seq(Elem) /\ Range(d[p]) = Range(Tail(d[p])) \cup {x}
      /\ Once(d[p]) => Once(Tail(d[p])) /\ x \notin Range(Tail(d[p]))
      /\ Sorted(d[p]) => Sorted(Tail(d[p])) /\ Below({x}, Range(Tail(d[p])))
  BY <1>0, TailContents
<1>2. /\ a \in Seq(Elem) /\ Range(a) = Range(b) \cup {x}
      /\ Once(b) /\ x \notin Range(b) => Once(a)
      /\ Sorted(b) /\ Below(Range(b), {x}) => Sorted(a)
  <2>1. x \in Elem BY <1>1
  <2>2. ASSUME NEW e \in Elem
        PROVE  /\ Append(b, e) \in Seq(Elem) /\ Range(Append(b, e)) = Range(b) \cup {e}
               /\ Once(b) /\ e \notin Range(b) => Once(Append(b, e))
               /\ Sorted(b) /\ Below(Range(b), {e}) => Sorted(Append(b, e))
    BY AppendContents
  <2> HIDE DEF x
  <2> QED BY <2>1, <2>2, Zenon
<1> HIDE DEF x, a
<1>3. f \in [Procs -> Seq(Elem)] /\ f[p] = Tail(d[p]) /\ \A q \in Procs : q # p => f[q] = d[q]
  BY <1>1
<1>4. Contents(t, a, f, l) \subseteq Contents(t, b, d, l)
  <2>1. \A y : (\E q \in Procs : y \in Range(d[q]))
                 <=> (y = x \/ \E q \in Procs : y \in Range(f[q]))
    BY <1>1, <1>3
  <2>2. ASSUME NEW y PROVE y \in Contents(t, a, f, l) <=> y \in Contents(t, b, d, l)
    <3>1. y \in Contents(t, a, f, l) <=> \/ y \in Range(t) \/ y \in Range(a) \/ y \in l
                                         \/ \E q \in Procs : y \in Range(f[q])
      BY InContents
    <3>2. y \in Contents(t, b, d, l) <=> \/ y \in Range(t) \/ y \in Range(b) \/ y \in l
                                         \/ \E q \in Procs : y \in Range(d[q])
      BY InContents
    <3>3. y \in Range(a) <=> y \in Range(b) \/ y = x BY <1>2
    <3>4. (\E q \in Procs : y \in Range(d[q])) <=> (y = x \/ \E q \in Procs : y \in Range(f[q]))
      BY <2>1
    <3> QED BY <3>1, <3>2, <3>3, <3>4
  <2> QED BY <2>2
<1>5. Apart(t, b, d, l) => Apart(t, a, f, l) BY <1>1, <1>2, <1>3 DEF Apart
<1>6. Ordered(t, b, d, v) => Ordered(t, a, f, v) BY <1>1, <1>2, <1>3 DEF Ordered, Below
<1> QED BY <1>2, <1>3, <1>4, <1>5, <1>6 DEF x, a

LEMMA PassContents ==
  ASSUME NEW t \in Seq(Elem), NEW d \in [Procs -> Seq(Elem)], NEW l,
         NEW v, NEW p \in Procs, d[p] # <<>>,
         NEW f \in [Procs -> Seq(Elem)], f[p] = Tail(d[p]), \A q \in Procs : q # p => f[q] = d[q]
  PROVE  /\ Contents(Append(t, Head(d[p])), <<>>, f, l) \subseteq Contents(t, <<>>, d, l)
         /\ Apart(t, <<>>, d, l) => Apart(Append(t, Head(d[p])), <<>>, f, l)
         /\ Ordered(t, <<>>, d, v) => Ordered(Append(t, Head(d[p])), <<>>, f, v)
<1> DEFINE b == <<Head(d[p])>>
<1>1. d[p] \in Seq(Elem) /\ Head(d[p]) \in Elem BY TailFacts
<1>2. b \in Seq(Elem) /\ b # <<>> /\ Head(b) = Head(d[p]) /\ Tail(b) = <<>> /\ b = Append(<<>>, Head(d[p]))
  BY <1>1
<1>3. <<>> \in Seq(Elem) OBVIOUS
<1> HIDE DEF b
<1>4. /\ Contents(t, b, f, l) \subseteq Contents(t, <<>>, d, l)
      /\ Apart(t, <<>>, d, l) => Apart(t, b, f, l)
      /\ Ordered(t, <<>>, d, v) => Ordered(t, b, f, v)
  <2> DEFINE g == Append(<<>>, Head(d[p]))
  <2>1. /\ Contents(t, g, f, l) \subseteq Contents(t, <<>>, d, l)
        /\ Apart(t, <<>>, d, l) => Apart(t, g, f, l)
        /\ Ordered(t, <<>>, d, v) => Ordered(t, g, f, v)
    BY <1>3, SendContents
  <2>2. g = b BY <1>2
  <2> HIDE DEF g
  <2> QED BY <2>1, <2>2
<1>5. /\ Contents(Append(t, Head(b)), Tail(b), f, l) \subseteq Contents(t, b, f, l)
      /\ Apart(t, b, f, l) => Apart(Append(t, Head(b)), Tail(b), f, l)
      /\ Ordered(t, b, f, v) => Ordered(Append(t, Head(b)), Tail(b), f, v)
  <2>1. b \in Seq(Elem) /\ b # <<>> BY <1>2
  <2>2. Contents(Append(t, Head(b)), Tail(b), f, l) \subseteq Contents(t, b, f, l) BY <2>1, TakeContents
  <2>3. Apart(t, b, f, l) => Apart(Append(t, Head(b)), Tail(b), f, l) BY <2>1, TakeContents
  <2>4. Ordered(t, b, f, v) => Ordered(Append(t, Head(b)), Tail(b), f, v) BY <2>1, TakeContents
  <2> QED BY <2>2, <2>3, <2>4
<1> QED BY <1>2, <1>4, <1>5

LEMMA DropContents ==
  ASSUME NEW t \in Seq(Elem), NEW b \in Seq(Elem), NEW d \in [Procs -> Seq(Elem)], NEW l,
         NEW v, NEW p \in Procs, d[p] # <<>>,
         NEW f \in [Procs -> Seq(Elem)], f[p] = Tail(d[p]), \A q \in Procs : q # p => f[q] = d[q]
  PROVE  /\ Contents(t, b, f, l \cup {Head(d[p])}) \subseteq Contents(t, b, d, l)
         /\ Apart(t, b, d, l) => Apart(t, b, f, l \cup {Head(d[p])})
         /\ Ordered(t, b, d, v) => Ordered(t, b, f, v)
<1> DEFINE x == Head(d[p])
           m == l \cup {x}
<1>0. d[p] \in Seq(Elem) OBVIOUS
<1>1. /\ x \in Elem /\ Tail(d[p]) \in Seq(Elem) /\ Range(d[p]) = Range(Tail(d[p])) \cup {x}
      /\ Once(d[p]) => Once(Tail(d[p])) /\ x \notin Range(Tail(d[p]))
      /\ Sorted(d[p]) => Sorted(Tail(d[p])) /\ Below({x}, Range(Tail(d[p])))
  BY <1>0, TailContents
<1>2. \A y : y \in m <=> y \in l \/ y = x OBVIOUS
<1> HIDE DEF x, m
<1>3. f \in [Procs -> Seq(Elem)] /\ f[p] = Tail(d[p]) /\ \A q \in Procs : q # p => f[q] = d[q]
  BY <1>1
<1>4. Contents(t, b, f, m) \subseteq Contents(t, b, d, l)
  <2>1. \A y : (\E q \in Procs : y \in Range(d[q]))
                 <=> (y = x \/ \E q \in Procs : y \in Range(f[q]))
    BY <1>1, <1>3
  <2>2. ASSUME NEW y PROVE y \in Contents(t, b, f, m) <=> y \in Contents(t, b, d, l)
    <3>1. y \in Contents(t, b, f, m) <=> \/ y \in Range(t) \/ y \in Range(b) \/ y \in m
                                         \/ \E q \in Procs : y \in Range(f[q])
      BY InContents
    <3>2. y \in Contents(t, b, d, l) <=> \/ y \in Range(t) \/ y \in Range(b) \/ y \in l
                                         \/ \E q \in Procs : y \in Range(d[q])
      BY InContents
    <3> QED BY <1>2, <2>1, <3>1, <3>2
  <2> QED BY <2>2
<1>5. Apart(t, b, d, l) => Apart(t, b, f, m) BY <1>1, <1>2, <1>3 DEF Apart
<1>6. Ordered(t, b, d, v) => Ordered(t, b, f, v) BY <1>1, <1>3 DEF Ordered, Below
<1> QED BY <1>4, <1>5, <1>6 DEF x, m

\* A sliding buffer discards its oldest element.
LEMMA EvictContents ==
  ASSUME NEW t \in Seq(Elem), NEW b \in Seq(Elem), NEW d \in [Procs -> Seq(Elem)], NEW l, NEW v, b # <<>>
  PROVE  /\ Contents(t, Tail(b), d, l \cup {Head(b)}) \subseteq Contents(t, b, d, l)
         /\ Apart(t, b, d, l) => Apart(t, Tail(b), d, l \cup {Head(b)})
         /\ Ordered(t, b, d, l) => Ordered(t, Tail(b), d, l \cup {Head(b)})
<1> DEFINE x == Head(b)
           c == Tail(b)
           m == l \cup {x}
<1>1. /\ x \in Elem /\ c \in Seq(Elem) /\ Range(b) = Range(c) \cup {x}
      /\ Once(b) => Once(c) /\ x \notin Range(c)
      /\ Sorted(b) => Sorted(c) /\ Below({x}, Range(c))
  BY TailContents
<1>2. \A y : y \in m <=> y \in l \/ y = x OBVIOUS
<1> HIDE DEF x, c, m
<1>3. Contents(t, c, d, m) \subseteq Contents(t, b, d, l) BY <1>1, <1>2 DEF Contents
<1>4. Apart(t, b, d, l) => Apart(t, c, d, m) BY <1>1, <1>2 DEF Apart
<1>5. Ordered(t, b, d, l) => Ordered(t, c, d, m) BY <1>1, <1>2 DEF Ordered, Below
<1> QED BY <1>3, <1>4, <1>5 DEF x, c, m

\* Goroutine p is given the elements of s, which nobody else has, to add.
LEMMA GiveContents ==
  ASSUME NEW t \in Seq(Elem), NEW b \in Seq(Elem), NEW d \in [Procs -> Seq(Elem)], NEW l,
         NEW p \in Procs, NEW s \in Seq(Elem), Once(s),
         NEW f \in [Procs -> Seq(Elem)], f[p] = s, \A q \in Procs : q # p => f[q] = d[q],
         \A e \in Range(s) : /\ e \notin Range(t) /\ e \notin Range(b) /\ e \notin l
                             /\ \A q \in Procs : e \in Range(d[q]) => q = p
  PROVE  /\ \A e \in Contents(t, b, f, l) : e \in Contents(t, b, d, l) \/ e \in Range(s)
         /\ Apart(t, b, d, l) => Apart(t, b, f, l)
<1>1. f \in [Procs -> Seq(Elem)] /\ f[p] = s /\ \A q \in Procs : q # p => f[q] = d[q]
  OBVIOUS
<1>2. ASSUME NEW e \in Contents(t, b, f, l) PROVE e \in Contents(t, b, d, l) \/ e \in Range(s)
  <2>1. e \in Contents(t, b, f, l) <=> \/ e \in Range(t) \/ e \in Range(b) \/ e \in l
                                       \/ \E q \in Procs : e \in Range(f[q])
    BY InContents
  <2>2. e \in Contents(t, b, d, l) <=> \/ e \in Range(t) \/ e \in Range(b) \/ e \in l
                                       \/ \E q \in Procs : e \in Range(d[q])
    BY InContents
  <2> QED BY <1>1, <2>1, <2>2
<1>3. Apart(t, b, d, l) => Apart(t, b, f, l) BY <1>1 DEF Apart
<1> QED BY <1>2, <1>3

\* All the elements there are, and those a sliding buffer has evicted.
Known == Contents(taken, buf, todo, lost)
Evicted == IF Policy = "sliding" THEN lost ELSE {}

\* A goroutine that holds the one value of a put it has not begun to add.
Lone(p) == pc[p] = "try" \/ (pc[p] = "born" /\ op[p] = "send")

\* d comes from the same put as e (and not from the transducer's completion).
Twin(d, e) == d.by = e.by /\ d.n = e.n /\ d.part <= MaxPart

\* Only a goroutine in a put or close! has elements to add, and a put that has not
\* begun has left no trace but its value.
TaskAt(p) ==
  /\ ~Lone(p) /\ ~Adding(p) => todo[p] = <<>>
  /\ Lone(p) => \E e \in Elem : /\ todo[p] = <<e>> /\ e.part = 0
                                /\ \A d \in Known : Twin(d, e) => d = e

\* Elements come from calls already made, and the completion's from close!.
AgeInv == \A e \in Known : e.n <= nops[e.by] /\ (e.part > MaxPart => closed)

ApartInv == Apart(taken, buf, todo, lost)
TaskInv  == \A p \in Procs : TaskAt(p)
OrderInv == Ordered(taken, buf, todo, Evicted)

\* A taker parks only on an empty buffer.
WaitInv  == recvq # <<>> => buf = <<>>

\* Goroutines that put! and take! spawn are workers.
BornInv  == \A p \in Procs : pc[p] = "born" => p \in Workers

KeepInv == ApartInv /\ TaskInv /\ AgeInv /\ (NoHandOff => OrderInv) /\ WaitInv /\ BornInv

\* q's business is what it was.
Continues(q) ==
  /\ todo'[q] = todo[q]
  /\ Lone(q)' => Lone(q)
  /\ Lone(q) \/ Adding(q) => Lone(q)' \/ Adding(q)'

\* Calls are only added, close! is for good, and no goroutine is unborn.
Onward ==
  /\ \A q \in Procs : nops[q] <= nops'[q]
  /\ nops' \in [Procs -> 0..MaxOps]
  /\ closed => closed'
  /\ \A q \in Procs : /\ pc'[q] = "unborn" => pc[q] = "unborn"
                      /\ pc'[q] = "born" => pc[q] = "born" \/ q \in Workers

LEMMA OnwardFacts ==
  ASSUME KeepInv, Onward
  PROVE  (NoHandOff' => NoHandOff) /\ BornInv'
BY ChannelAssumption DEF NoHandOff, Onward, KeepInv, BornInv

LEMMA KnownTypes ==
  ASSUME IInv
  PROVE  /\ Known \subseteq Elem /\ MaxPart \in Nat /\ MaxOps \in Nat
         /\ \A e \in Elem : e.by \in Procs /\ e.n \in Nat /\ e.part \in Nat
<1>1. MaxPart \in Nat /\ MaxOps \in Nat BY ChannelAssumption
<1>2. \A e \in Elem : e.by \in Procs /\ e.n \in Nat /\ e.part \in Nat
  BY <1>1 DEF Elem
<1>3. ASSUME NEW e \in Known PROVE e \in Elem
  <2>1. \/ e \in Range(taken) \/ e \in Range(buf) \/ e \in lost
        \/ \E p \in Procs : e \in Range(todo[p])
    BY <1>3, InContents DEF Known
  <2>2. Range(taken) \subseteq Elem BY Types, RangeSeq
  <2>3. Range(buf) \subseteq Elem BY Types, RangeSeq
  <2>4. \A p \in Procs : todo[p] \in Seq(Elem) BY Types
  <2>5. \A p \in Procs : Range(todo[p]) \subseteq Elem BY <2>4, RangeSeq
  <2>6. lost \subseteq Elem BY HistoryTypes
  <2> QED BY <2>1, <2>2, <2>3, <2>5, <2>6
<1> QED BY <1>1, <1>2, <1>3

LEMMA TaskKept ==
  ASSUME NEW q \in Procs, TaskAt(q), Continues(q), NEW S,
         \A d \in Known' : d \in Known \/ d \in S,
         \A e \in Elem : Lone(q) /\ todo[q] = <<e>> => \A d \in S : ~Twin(d, e)
  PROVE  TaskAt(q)'
<1>1. ~Lone(q)' /\ ~Adding(q)' => todo'[q] = <<>> BY DEF TaskAt, Continues
<1>2. ASSUME Lone(q)'
      PROVE  \E e \in Elem : /\ todo'[q] = <<e>> /\ e.part = 0
                             /\ \A d \in Known' : Twin(d, e) => d = e
  <2>1. Lone(q) /\ todo'[q] = todo[q] BY <1>2 DEF Continues
  <2>2. PICK e \in Elem : /\ todo[q] = <<e>> /\ e.part = 0
                          /\ \A d \in Known : Twin(d, e) => d = e
    BY <2>1 DEF TaskAt
  <2>3. \A d \in Known' : Twin(d, e) => d = e BY <2>1, <2>2
  <2> QED BY <2>1, <2>2, <2>3
<1> QED BY <1>1, <1>2 DEF TaskAt

LEMMA TaskDone ==
  ASSUME NEW q \in Procs, Adding(q)' \/ (todo'[q] = <<>> /\ ~Lone(q)')
  PROVE  TaskAt(q)'
BY DEF TaskAt, Lone, Adding

LEMMA AgeKept ==
  ASSUME IInv, AgeInv, Onward, NEW S \in SUBSET Elem,
         \A d \in Known' : d \in Known \/ d \in S,
         \A d \in S : d.n <= nops'[d.by] /\ (d.part > MaxPart => closed')
  PROVE  AgeInv'
<1> SUFFICES ASSUME NEW e \in Known' PROVE e.n <= nops'[e.by] /\ (e.part > MaxPart => closed')
  BY DEF AgeInv
<1>1. CASE e \in S BY <1>1
<1>2. CASE e \in Known
  <2>1. e.by \in Procs /\ e.n \in Nat BY <1>2, KnownTypes
  <2>2. nops[e.by] \in Nat /\ nops'[e.by] \in Nat /\ nops[e.by] <= nops'[e.by]
    BY <2>1, Types, KnownTypes DEF Onward
  <2>3. e.n <= nops[e.by] /\ (e.part > MaxPart => closed) BY <1>2 DEF AgeInv
  <2> QED BY <2>1, <2>2, <2>3 DEF Onward
<1> QED BY <1>1, <1>2

\* Elements only move: what is left to prove of a step that makes none.
LEMMA MoveKeeps ==
  ASSUME IInv, KeepInv, Onward,
         Known' \subseteq Known, ApartInv', NoHandOff => OrderInv', WaitInv',
         \A q \in Procs : Continues(q) \/ Adding(q)' \/ (todo'[q] = <<>> /\ ~Lone(q)')
  PROVE  KeepInv'
<1>1. AgeInv'
  <2>1. {} \in SUBSET Elem /\ (\A d \in Known' : d \in Known \/ d \in {})
        /\ (\A d \in {} : d.n <= nops'[d.by] /\ (d.part > MaxPart => closed'))
    OBVIOUS
  <2>2. AgeInv BY DEF KeepInv
  <2> QED BY <2>1, <2>2, AgeKept
<1>2. ASSUME NEW q \in Procs PROVE TaskAt(q)'
  <2>1. CASE Continues(q)
    <3>1. TaskAt(q) BY DEF KeepInv, TaskInv
    <3> DEFINE S == {}
    <3>2. /\ \A d \in Known' : d \in Known \/ d \in S
          /\ \A e \in Elem : Lone(q) /\ todo[q] = <<e>> => \A d \in S : ~Twin(d, e)
      OBVIOUS
    <3> HIDE DEF S
    <3> QED BY <2>1, <3>1, <3>2, TaskKept
  <2>2. CASE ~Continues(q) BY <2>2, TaskDone
  <2> QED BY <2>1, <2>2
<1> QED BY <1>1, <1>2, OnwardFacts DEF KeepInv, TaskInv

\* A Go channel send moves one element on.
LEMMA SendKeeps ==
  ASSUME IInv, ShapeKept, KeepInv, Onward, NEW p \in Procs, GoSend(p),
         pc[p] \in {"try", "add", "readd"}, todo[p] # <<>>
  PROVE  KeepInv'
<1> USE Types
<1>1. /\ todo' = [todo EXCEPT ![p] = Tail(todo[p])] /\ lost' = lost
  BY DEF GoSend
<1>2. Evicted' = Evicted BY <1>1 DEF Evicted, ShapeKept
<1>3. Tail(todo[p]) \in Seq(Elem) BY TailFacts
<1>4. /\ todo' \in [Procs -> Seq(Elem)] /\ todo'[p] = Tail(todo[p])
      /\ \A q \in Procs : q # p => todo'[q] = todo[q]
  BY <1>1, <1>3
<1>5. CASE recvq # <<>>
  <2>1. /\ recvq' = Tail(recvq) /\ taken' = Append(taken, Head(todo[p])) /\ buf' = buf
        /\ pc' = [pc EXCEPT ![p] = "add", ![Head(recvq)] = "idle"]
        /\ op' = [op EXCEPT ![Head(recvq)] = "none"]
    BY <1>5 DEF GoSend
  <2>2. Head(recvq) \in Procs /\ pc[Head(recvq)] = "wait" /\ Parked(pc, Tail(recvq), "wait")
    BY <1>5, ParkedTail DEF IInv, QueueInv
  <2>3. buf = <<>> BY <1>5 DEF KeepInv, WaitInv
  <2>4. /\ Contents(taken', <<>>, todo', lost) \subseteq Contents(taken, <<>>, todo, lost)
        /\ Apart(taken, <<>>, todo, lost) => Apart(taken', <<>>, todo', lost)
        /\ Ordered(taken, <<>>, todo, Evicted) => Ordered(taken', <<>>, todo', Evicted)
    BY <1>4, <2>1, PassContents
  <2>5. Known' \subseteq Known BY <1>1, <2>1, <2>3, <2>4 DEF Known
  <2>6. ApartInv' BY <1>1, <2>1, <2>3, <2>4 DEF ApartInv, KeepInv
  <2>7. NoHandOff => OrderInv' BY <1>2, <2>1, <2>3, <2>4 DEF OrderInv, KeepInv
  <2>8. WaitInv' BY <2>1, <2>3 DEF WaitInv
  <2>9. ASSUME NEW q \in Procs PROVE Continues(q) \/ Adding(q)'
    BY <1>4, <2>1, <2>2 DEF Continues, Lone, Adding
  <2> QED BY <2>5, <2>6, <2>7, <2>8, <2>9, MoveKeeps
<1>6. CASE recvq = <<>>
  <2>1. /\ buf' = Append(buf, Head(todo[p])) /\ pc' = [pc EXCEPT ![p] = "add"]
        /\ UNCHANGED <<recvq, taken, op>>
    BY <1>6 DEF GoSend
  <2>2. /\ Contents(taken, buf', todo', lost) \subseteq Contents(taken, buf, todo, lost)
        /\ Apart(taken, buf, todo, lost) => Apart(taken, buf', todo', lost)
        /\ Ordered(taken, buf, todo, Evicted) => Ordered(taken, buf', todo', Evicted)
    BY <1>4, <2>1, SendContents
  <2>3. Known' \subseteq Known BY <1>1, <2>1, <2>2 DEF Known
  <2>4. ApartInv' BY <1>1, <2>1, <2>2 DEF ApartInv, KeepInv
  <2>5. NoHandOff => OrderInv' BY <1>2, <2>1, <2>2 DEF OrderInv, KeepInv
  <2>6. WaitInv' BY <1>6, <2>1 DEF WaitInv
  <2>7. ASSUME NEW q \in Procs PROVE Continues(q) \/ Adding(q)'
    BY <1>4, <2>1 DEF Continues, Lone, Adding
  <2> QED BY <2>3, <2>4, <2>5, <2>6, <2>7, MoveKeeps
<1> QED BY <1>5, <1>6

\* A Go channel receive moves one element on, or two: the one it takes and the
\* one that a parked sender puts in its place.
LEMMA RecvKeeps ==
  ASSUME IInv, ShapeKept, KeepInv, Onward, NEW p \in Procs, GoRecv(p),
         pc[p] \in {"idle", "select", "drain"} \/ (pc[p] = "born" /\ op[p] = "recv")
  PROVE  KeepInv'
<1> USE Types
<1> DEFINE h == Head(sendq)
<1>1. /\ CanRecv /\ UNCHANGED <<recvq, lost>>
      /\ taken' = Append(taken, Front) /\ buf' = BufAfterRecv
      /\ op' = [op EXCEPT ![p] = "none"]
  BY DEF GoRecv
<1>2. Evicted' = Evicted BY <1>1 DEF Evicted, ShapeKept
<1>3. CASE sendq = <<>>
  <2>1. /\ todo' = todo /\ pc' = [pc EXCEPT ![p] = "idle"]
        /\ buf # <<>> /\ buf' = Tail(buf) /\ taken' = Append(taken, Head(buf))
    BY <1>1, <1>3 DEF GoRecv, Released, BufAfterRecv, CanRecv, Front
  <2>2. /\ Contents(taken', buf', todo, lost) \subseteq Contents(taken, buf, todo, lost)
        /\ Apart(taken, buf, todo, lost) => Apart(taken', buf', todo, lost)
        /\ Ordered(taken, buf, todo, Evicted) => Ordered(taken', buf', todo, Evicted)
    BY <2>1, TakeContents
  <2>3. Known' \subseteq Known BY <1>1, <2>1, <2>2 DEF Known
  <2>4. ApartInv' BY <1>1, <2>1, <2>2 DEF ApartInv, KeepInv
  <2>5. NoHandOff => OrderInv' BY <1>2, <2>1, <2>2 DEF OrderInv, KeepInv
  <2>6. WaitInv' BY <1>1, <2>1 DEF KeepInv, WaitInv
  <2>7. ASSUME NEW q \in Procs PROVE Continues(q)
    BY <1>1, <2>1 DEF Continues, Lone, Adding
  <2> QED BY <2>3, <2>4, <2>5, <2>6, <2>7, MoveKeeps
<1>4. CASE sendq # <<>>
  <2>1. /\ pc' = [[pc EXCEPT ![h] = "add"] EXCEPT ![p] = "idle"]
        /\ todo' = [todo EXCEPT ![h] = Tail(todo[h])]
    BY <1>4 DEF GoRecv, Released
  <2>2. h \in Procs /\ pc[h] = "park" /\ todo[h] # <<>>
    <3>1. Parked(pc, sendq, "park") BY DEF IInv, QueueInv
    <3>2. Head(sendq) \in Procs /\ pc[Head(sendq)] = "park" /\ Parked(pc, Tail(sendq), "park")
      BY <1>4, <3>1, ParkedTail
    <3> QED BY <3>2 DEF IInv, ProcInv, TodoAt
  <2>3. Tail(todo[h]) \in Seq(Elem) BY <2>2, TailFacts
  <2>4. /\ todo' \in [Procs -> Seq(Elem)] /\ todo'[h] = Tail(todo[h])
        /\ \A q \in Procs : q # h => todo'[q] = todo[q]
    BY <2>1, <2>2, <2>3
  <2> HIDE DEF h
  <2>5. /\ Contents(taken', buf', todo', lost) \subseteq Contents(taken, buf, todo, lost)
        /\ Apart(taken, buf, todo, lost) => Apart(taken', buf', todo', lost)
        /\ Ordered(taken, buf, todo, Evicted) => Ordered(taken', buf', todo', Evicted)
    <3>1. CASE buf = <<>>
      <4>1. taken' = Append(taken, Head(todo[h])) /\ buf' = <<>>
        BY <1>1, <1>4, <3>1 DEF Front, BufAfterRecv, h
      <4>2. /\ Contents(taken', <<>>, todo', lost) \subseteq Contents(taken, <<>>, todo, lost)
            /\ Apart(taken, <<>>, todo, lost) => Apart(taken', <<>>, todo', lost)
            /\ Ordered(taken, <<>>, todo, Evicted) => Ordered(taken', <<>>, todo', Evicted)
        BY <2>2, <2>4, <4>1, PassContents
      <4> QED BY <3>1, <4>1, <4>2
    <3>2. CASE buf # <<>>
      <4>1. taken' = Append(taken, Head(buf)) /\ buf' = Append(Tail(buf), Head(todo[h]))
        BY <1>1, <1>4, <3>2 DEF Front, BufAfterRecv, h
      <4> DEFINE c == Tail(buf)
      <4>2. /\ taken' \in Seq(Elem) /\ c \in Seq(Elem)
            /\ Contents(taken', c, todo, lost) \subseteq Contents(taken, buf, todo, lost)
            /\ Apart(taken, buf, todo, lost) => Apart(taken', c, todo, lost)
            /\ Ordered(taken, buf, todo, Evicted) => Ordered(taken', c, todo, Evicted)
        BY <3>2, <4>1, TakeContents
      <4> HIDE DEF c
      <4>3. /\ Contents(taken', Append(c, Head(todo[h])), todo', lost) \subseteq Contents(taken', c, todo, lost)
            /\ Apart(taken', c, todo, lost) => Apart(taken', Append(c, Head(todo[h])), todo', lost)
            /\ Ordered(taken', c, todo, Evicted) => Ordered(taken', Append(c, Head(todo[h])), todo', Evicted)
        BY <2>2, <2>4, <4>2, SendContents
      <4>4. buf' = Append(c, Head(todo[h])) BY <4>1 DEF c
      <4> QED BY <4>2, <4>3, <4>4
    <3> QED BY <3>1, <3>2
  <2>6. Known' \subseteq Known BY <1>1, <2>5 DEF Known
  <2>7. ApartInv' BY <1>1, <2>5 DEF ApartInv, KeepInv
  <2>8. NoHandOff => OrderInv' BY <1>2, <2>5 DEF OrderInv, KeepInv
  <2>9. WaitInv' BY <1>1 DEF KeepInv, WaitInv, BufAfterRecv
  <2>10. ASSUME NEW q \in Procs PROVE Continues(q) \/ Adding(q)'
    <3>1. p # h BY <2>2
    <3>2. CASE q = h BY <2>1, <2>2, <3>1, <3>2 DEF Adding
    <3>3. CASE q # h BY <1>1, <2>1, <2>4, <3>3 DEF Continues, Lone, Adding
    <3> QED BY <3>2, <3>3
  <2> QED BY <2>6, <2>7, <2>8, <2>9, <2>10, MoveKeeps
<1> QED BY <1>3, <1>4

\* A step that moves no element but may give up some.
LEMMA QuietKeeps ==
  ASSUME IInv, ShapeKept, KeepInv, Onward, UNCHANGED <<taken, buf, lost>>,
         todo' \in [Procs -> Seq(Elem)],
         \A q \in Procs : Continues(q) \/ (todo'[q] = <<>> /\ ~Lone(q)'),
         recvq' # <<>> => recvq # <<>> \/ buf = <<>>
  PROVE  KeepInv'
<1>1. Evicted' = Evicted BY DEF Evicted, ShapeKept
<1>2. \A q \in Procs : todo'[q] = todo[q] \/ todo'[q] = <<>> BY DEF Continues
<1>3. Range(<<>>) = {} /\ Once(<<>>) /\ Sorted(<<>>) BY SmallContents
<1>4. Known' \subseteq Known
  <2> SUFFICES ASSUME NEW e \in Known' PROVE e \in Known OBVIOUS
  <2>1. e \in Contents(taken, buf, todo', lost) BY DEF Known
  <2>2. \/ e \in Range(taken) \/ e \in Range(buf) \/ e \in lost
        \/ \E p \in Procs : e \in Range(todo'[p])
    BY <2>1, InContents
  <2>3. \/ e \in Range(taken) \/ e \in Range(buf) \/ e \in lost
        \/ \E p \in Procs : e \in Range(todo[p])
    BY <1>2, <1>3, <2>2
  <2> QED BY <2>3, InContents DEF Known
<1>5. ApartInv'
  <2>1. Apart(taken, buf, todo, lost) BY DEF KeepInv, ApartInv
  <2>2. Apart(taken, buf, todo', lost) BY <1>2, <1>3, <2>1 DEF Apart
  <2> QED BY <2>2 DEF ApartInv
<1>6. NoHandOff => OrderInv'
  <2>1. Ordered(taken, buf, todo, Evicted) => Ordered(taken, buf, todo', Evicted)
    BY <1>2, <1>3 DEF Ordered, Below
  <2> QED BY <1>1, <2>1 DEF OrderInv, KeepInv
<1>7. WaitInv' BY DEF KeepInv, WaitInv
<1> QED BY <1>4, <1>5, <1>6, <1>7, MoveKeeps

\* Goroutine p is given the elements of s to add: they are new, or p had them.
LEMMA GiveKeeps ==
  ASSUME IInv, ShapeKept, KeepInv, Onward, NEW p \in Procs, NEW s \in Seq(Elem), Once(s),
         UNCHANGED <<taken, buf, lost, recvq>>, todo' \in [Procs -> Seq(Elem)], todo'[p] = s,
         \A q \in Procs : q # p => todo'[q] = todo[q],
         \A e \in Range(s) : /\ e \in Known => e \in Range(todo[p])
                             /\ e.n <= nops'[e.by] /\ (e.part > MaxPart => closed'),
         NoHandOff' => Follows(p, s, taken, buf, Evicted),
         (\A d \in Known' : d \in Known \/ d \in Range(s)) => TaskAt(p)',
         \A q \in Procs \ {p} : /\ Continues(q)
                                /\ \A e \in Elem : Lone(q) /\ todo[q] = <<e>>
                                     => \A d \in Range(s) : ~Twin(d, e)
  PROVE  KeepInv'
<1> USE Types
<1>1. Evicted' = Evicted BY DEF Evicted, ShapeKept
<1>2. /\ todo' \in [Procs -> Seq(Elem)] /\ todo'[p] = s
      /\ \A q \in Procs : q # p => todo'[q] = todo[q]
  OBVIOUS
<1>3. Apart(taken, buf, todo, lost) BY DEF KeepInv, ApartInv
<1>4. ASSUME NEW e \in Range(s)
      PROVE  /\ e \notin Range(taken) /\ e \notin Range(buf) /\ e \notin lost
             /\ \A q \in Procs : e \in Range(todo[q]) => q = p
  <2>1. CASE e \in Known BY <1>3, <2>1 DEF Apart
  <2>2. CASE e \notin Known
    <3>1. ~ \/ e \in Range(taken) \/ e \in Range(buf) \/ e \in lost
            \/ \E q \in Procs : e \in Range(todo[q])
      BY <2>2, InContents DEF Known
    <3> QED BY <3>1
  <2> QED BY <2>1, <2>2
<1>5. /\ \A e \in Contents(taken, buf, todo', lost) : e \in Contents(taken, buf, todo, lost) \/ e \in Range(s)
      /\ Apart(taken, buf, todo, lost) => Apart(taken, buf, todo', lost)
      /\ Ordered(taken, buf, todo, Evicted) /\ Follows(p, s, taken, buf, Evicted)
           => Ordered(taken, buf, todo', Evicted)
  <2>1. /\ taken \in Seq(Elem) /\ buf \in Seq(Elem) /\ todo \in [Procs -> Seq(Elem)] OBVIOUS
  <2> DEFINE g == todo'
  <2>2. /\ g \in [Procs -> Seq(Elem)] /\ g[p] = s /\ \A q \in Procs : q # p => g[q] = todo[q]
    BY <1>2
  <2> HIDE DEF g
  <2>3. \A e \in Contents(taken, buf, g, lost) : e \in Contents(taken, buf, todo, lost) \/ e \in Range(s)
    BY <1>4, <2>1, <2>2, GiveContents
  <2>4. Apart(taken, buf, todo, lost) => Apart(taken, buf, g, lost)
    BY <1>4, <2>1, <2>2, GiveContents
  <2>5. Ordered(taken, buf, todo, Evicted) /\ Follows(p, s, taken, buf, Evicted)
           => Ordered(taken, buf, g, Evicted)
    BY <2>2 DEF Ordered, Follows
  <2> QED BY <2>3, <2>4, <2>5 DEF g
<1>6. \A d \in Known' : d \in Known \/ d \in Range(s) BY <1>5 DEF Known
<1>7. ApartInv' BY <1>3, <1>5 DEF ApartInv
<1>8. NoHandOff' => OrderInv' BY <1>1, <1>5, OnwardFacts DEF OrderInv, KeepInv
<1>9. WaitInv' BY DEF KeepInv, WaitInv
<1>10. AgeInv'
  <2>1. Range(s) \in SUBSET Elem BY RangeSeq
  <2> DEFINE S == Range(s)
  <2>2. /\ \A d \in Known' : d \in Known \/ d \in S
        /\ \A d \in S : d.n <= nops'[d.by] /\ (d.part > MaxPart => closed')
        /\ S \in SUBSET Elem /\ AgeInv
    BY <1>6, <2>1 DEF KeepInv
  <2> HIDE DEF S
  <2> QED BY <2>2, AgeKept
<1>11. ASSUME NEW q \in Procs, q # p PROVE TaskAt(q)'
  <2> DEFINE S == Range(s)
  <2>1. /\ \A d \in Known' : d \in Known \/ d \in S
        /\ \A e \in Elem : Lone(q) /\ todo[q] = <<e>> => \A d \in S : ~Twin(d, e)
        /\ Continues(q) /\ TaskAt(q)
    BY <1>6, <1>11 DEF KeepInv, TaskInv
  <2> HIDE DEF S
  <2> QED BY <2>1, TaskKept
<1> QED BY <1>6, <1>7, <1>8, <1>9, <1>10, <1>11, OnwardFacts DEF KeepInv, TaskInv

\* What the elements of a client's new call look like to the rest.
LEMMA NewCall ==
  ASSUME IInv, KeepInv, NEW p \in Procs, NEW e \in Elem, e.by = p,
         \/ e.n = nops[p] + 1
         \/ e.n = nops[p] /\ e.part > MaxPart /\ ~closed
  PROVE  /\ e \notin Known
         /\ \A d \in Known : d.by = p => Earlier(d, e)
<1>1. /\ nops[p] \in Nat /\ MaxPart \in Nat /\ Known \subseteq Elem
      /\ \A d \in Elem : d.by \in Procs /\ d.n \in Nat /\ d.part \in Nat
  BY Types, KnownTypes
<1>2. \A d \in Known : d.n <= nops[d.by] /\ (d.part > MaxPart => closed) BY DEF KeepInv, AgeInv
<1>3. e \notin Known BY <1>1, <1>2
<1>4. ASSUME NEW d \in Known, d.by = p PROVE Earlier(d, e)
  <2>1. d \in Elem /\ d.n <= nops[p] /\ (d.part > MaxPart => closed) BY <1>1, <1>2, <1>4
  <2>2. d.n \in Nat /\ e.n \in Nat /\ d.part \in Nat /\ e.part \in Nat BY <1>1, <2>1
  <2> QED BY <1>1, <2>1, <2>2 DEF Earlier
<1> QED BY <1>3, <1>4

LEMMA InKnown ==
  /\ Range(taken) \subseteq Known /\ Range(buf) \subseteq Known /\ Evicted \subseteq Known
  /\ \A q \in Procs : Range(todo[q]) \subseteq Known
<1>1. ASSUME NEW e, \/ e \in Range(taken) \/ e \in Range(buf) \/ e \in lost
                    \/ \E p \in Procs : e \in Range(todo[p])
      PROVE  e \in Known
  BY <1>1, InContents DEF Known
<1> QED BY <1>1 DEF Evicted

\* The value a lone goroutine holds.
LEMMA LoneFacts ==
  ASSUME IInv, KeepInv, NEW q \in Procs, Lone(q), NEW e \in Elem, todo[q] = <<e>>
  PROVE  /\ e \in Known /\ e.part = 0 /\ e.n <= nops[e.by] /\ e \in Range(todo[q])
         /\ \A d \in Known : Twin(d, e) => d = e
<1>1. TaskAt(q) BY DEF KeepInv, TaskInv
<1>2. PICK x \in Elem : /\ todo[q] = <<x>> /\ x.part = 0
                        /\ \A d \in Known : Twin(d, x) => d = x
  BY <1>1 DEF TaskAt
<1>3. x = e BY <1>2
<1>4. e \in Range(todo[q]) BY SmallContents
<1>5. e \in Known BY <1>4, InKnown
<1> QED BY <1>2, <1>3, <1>4, <1>5 DEF KeepInv, AgeInv

\* A new call of a client p, or the completion that a reduced put runs.
LEMMA NewCallKeeps ==
  ASSUME IInv, ShapeKept, KeepInv, Onward, NEW p \in Procs, NEW w \in Procs, NEW s \in Seq(Elem),
         Once(s), Sorted(s),
         UNCHANGED <<taken, buf, lost, recvq>>, todo' \in [Procs -> Seq(Elem)], todo'[w] = s,
         \A q \in Procs : q # w => todo'[q] = todo[q],
         \A e \in Range(s) : /\ e.by = p /\ e.n <= nops'[p] /\ (e.part > MaxPart => closed')
                             /\ \/ e.n = nops[p] + 1
                                \/ e.n = nops[p] /\ e.part > MaxPart /\ ~closed,
         w = p \/ ~NoHandOff',
         (\A d \in Known' : d \in Known \/ d \in Range(s)) => TaskAt(w)',
         \A q \in Procs \ {w} : Continues(q)
  PROVE  KeepInv'
<1>1. Range(s) \subseteq Elem BY RangeSeq
<1>2. ASSUME NEW e \in Range(s)
      PROVE  e \notin Known /\ \A d \in Known : d.by = p => Earlier(d, e)
  BY <1>1, NewCall
<1>3. Follows(p, s, taken, buf, Evicted)
  <2>1. \A d \in Known, e \in Range(s) : d.by = e.by => Earlier(d, e) BY <1>2
  <2> QED BY <2>1, InKnown DEF Follows, Below
<1>4. ASSUME NEW q \in Procs \ {w}, NEW e \in Elem, Lone(q), todo[q] = <<e>>, NEW d \in Range(s)
      PROVE  ~Twin(d, e)
  <2>1. e.n <= nops[e.by] BY <1>4, LoneFacts
  <2>2. nops[p] \in Nat /\ MaxPart \in Nat /\ d.part \in Nat /\ d.by = p
    BY <1>1, Types, KnownTypes
  <2> QED BY <2>1, <2>2 DEF Twin
<1>5. \A e \in Range(s) : /\ e \in Known => e \in Range(todo[w])
                          /\ e.n <= nops'[e.by] /\ (e.part > MaxPart => closed')
  BY <1>2
<1>6. NoHandOff' => Follows(w, s, taken, buf, Evicted) BY <1>3
<1> QED BY <1>4, <1>5, <1>6, GiveKeeps

\* A spawned goroutine begins the put it was spawned for.
LEMMA WorkerKeeps ==
  ASSUME IInv, ShapeKept, KeepInv, Onward, NEW p \in Procs, NEW s \in Seq(Elem),
         Once(s), Lone(p), pc[p] = "born", pc'[p] # "unborn", Adding(p)',
         UNCHANGED <<taken, buf, lost, recvq>>, todo' \in [Procs -> Seq(Elem)], todo'[p] = s,
         \A q \in Procs : q # p => todo'[q] = todo[q],
         \A e \in Range(s) : Twin(e, Head(todo[p])),
         \A q \in Procs \ {p} : Continues(q)
  PROVE  KeepInv'
<1> USE Types, KnownTypes
<1>1. PICK x \in Elem : todo[p] = <<x>> BY DEF KeepInv, TaskInv, TaskAt
<1>2. /\ x \in Known /\ x.part = 0 /\ x.n <= nops[x.by] /\ x \in Range(todo[p])
      /\ \A d \in Known : Twin(d, x) => d = x
  BY <1>1, LoneFacts
<1>3. Range(s) \subseteq Elem /\ \A e \in Range(s) : Twin(e, x) BY <1>1, RangeSeq
<1>4. \A e \in Range(s) : /\ e \in Known => e \in Range(todo[p])
                          /\ e.n <= nops'[e.by] /\ (e.part > MaxPart => closed')
  <2>1. nops[x.by] \in Nat /\ nops'[x.by] \in Nat /\ nops[x.by] <= nops'[x.by] /\ x.n \in Nat
    BY DEF Onward
  <2> SUFFICES ASSUME NEW e \in Range(s)
               PROVE  /\ e \in Known => e \in Range(todo[p])
                      /\ e.n <= nops'[e.by] /\ (e.part > MaxPart => closed')
    OBVIOUS
  <2>2. Twin(e, x) /\ e \in Elem /\ e.part \in Nat BY <1>3
  <2>3. e \in Known => e \in Range(todo[p]) BY <1>2, <2>2
  <2>4. e.by = x.by /\ e.n = x.n /\ e.part <= MaxPart BY <2>2 DEF Twin
  <2> HIDE Types, KnownTypes
  <2>5. x.n <= nops'[x.by] BY <1>2, <2>1
  <2>6. e.n <= nops'[e.by] BY <2>4, <2>5
  <2>7. MaxPart \in Nat BY ChannelAssumption
  <2>8. ~(e.part > MaxPart) BY <2>2, <2>4, <2>7
  <2> QED BY <2>3, <2>6, <2>8
<1>5. ~NoHandOff'
  <2>1. p \in Workers BY DEF KeepInv, BornInv
  <2> QED BY <2>1 DEF NoHandOff
<1>6. ASSUME NEW q \in Procs \ {p}, NEW e \in Elem, Lone(q), todo[q] = <<e>>, NEW d \in Range(s)
      PROVE  ~Twin(d, e)
  <2>1. e \in Known /\ e.part = 0 /\ e \in Range(todo[q]) BY <1>6, LoneFacts
  <2>2. Twin(d, x) BY <1>3
  <2>3. SUFFICES ASSUME Twin(d, e) PROVE FALSE OBVIOUS
  <2>4. Twin(e, x) BY <2>1, <2>2, <2>3 DEF Twin
  <2>5. e = x BY <1>2, <2>1, <2>4
  <2> QED BY <1>2, <2>1, <2>5 DEF KeepInv, ApartInv, Apart
<1>7. TaskAt(p)' BY TaskDone
<1> QED BY <1>4, <1>5, <1>6, <1>7, GiveKeeps

\* put! leaves its value to a goroutine w.
LEMMA HandOffKeeps ==
  ASSUME IInv, ShapeKept, KeepInv, Onward, NEW p \in Procs, NEW w \in Workers, NEW e \in Elem,
         UNCHANGED <<taken, buf, lost, recvq, nops>>, pc[p] = "try", pc[w] = "unborn",
         e = Head(todo[p]), todo'[p] = <<>>, todo'[w] = <<e>>,
         \A q \in Procs : q # p /\ q # w => todo'[q] = todo[q],
         pc' = [pc EXCEPT ![p] = "idle", ![w] = "born"],
         op' = [op EXCEPT ![p] = "none", ![w] = "send"]
  PROVE  KeepInv'
<1> USE Types
<1>1. w \in Procs /\ w # p OBVIOUS
<1>2. Lone(p) BY DEF Lone
<1>3. TaskAt(p) BY DEF KeepInv, TaskInv
<1>4. todo[p] = <<e>> BY <1>2, <1>3 DEF TaskAt
<1>5. /\ e \in Known /\ e.part = 0 /\ e \in Range(todo[p])
      /\ \A d \in Known : Twin(d, e) => d = e
  BY <1>2, <1>4, LoneFacts
<1>6. /\ todo'[p] = <<>> /\ todo'[w] = <<e>>
      /\ \A q \in Procs : q # p /\ q # w => todo'[q] = todo[q]
  BY <1>1
<1>7. Range(todo'[p]) = {} /\ Once(todo'[p]) /\ Range(todo'[w]) = {e} /\ Once(todo'[w])
  BY <1>6, SmallContents
<1>8. Known' \subseteq Known
  <2> SUFFICES ASSUME NEW d \in Known' PROVE d \in Known OBVIOUS
  <2>1. d \in Contents(taken, buf, todo', lost) BY DEF Known
  <2>2. \/ d \in Range(taken) \/ d \in Range(buf) \/ d \in lost
        \/ \E q \in Procs : d \in Range(todo'[q])
    BY <2>1, InContents
  <2>3. \/ d \in Range(taken) \/ d \in Range(buf) \/ d \in lost
        \/ \E q \in Procs : d \in Range(todo[q])
    BY <1>5, <1>6, <1>7, <2>2
  <2> QED BY <2>3, InContents DEF Known
<1>9. ApartInv'
  <2>1. Apart(taken, buf, todo, lost) BY DEF KeepInv, ApartInv
  <2>2. \A q \in Procs : e \in Range(todo[q]) => q = p BY <1>5, <2>1 DEF Apart
  <2>3. \A q \in Procs : \A d \in Range(todo'[q]) :
          (q = w /\ d = e) \/ (q # w /\ q # p /\ d \in Range(todo[q]))
    <3> SUFFICES ASSUME NEW q \in Procs, NEW d \in Range(todo'[q])
                 PROVE  (q = w /\ d = e) \/ (q # w /\ q # p /\ d \in Range(todo[q]))
      OBVIOUS
    <3>1. CASE q = w BY <1>7, <3>1
    <3>2. CASE q = p BY <1>7, <3>2
    <3>3. CASE q # w /\ q # p BY <1>6, <3>3
    <3> QED BY <3>1, <3>2, <3>3
  <2>4. \A q \in Procs : Once(todo'[q]) BY <1>6, <1>7, <2>1 DEF Apart
  <2>5. \A q \in Procs : \A d \in Range(todo'[q]) :
          /\ d \notin Range(taken) /\ d \notin Range(buf) /\ d \notin lost
          /\ \A r \in Procs : d \in Range(todo'[r]) => r = q
    <3> SUFFICES ASSUME NEW q \in Procs, NEW d \in Range(todo'[q])
                 PROVE  /\ d \notin Range(taken) /\ d \notin Range(buf) /\ d \notin lost
                        /\ \A r \in Procs : d \in Range(todo'[r]) => r = q
      OBVIOUS
    <3>1. CASE q = w /\ d = e
      <4>1. d \notin Range(taken) /\ d \notin Range(buf) /\ d \notin lost
        BY <1>5, <2>1, <3>1 DEF Apart
      <4> QED BY <2>2, <2>3, <3>1, <4>1
    <3>2. CASE q # w /\ q # p /\ d \in Range(todo[q])
      <4>1. /\ d \notin Range(taken) /\ d \notin Range(buf) /\ d \notin lost
            /\ \A r \in Procs : d \in Range(todo[r]) => r = q
        BY <2>1, <3>2 DEF Apart
      <4> QED BY <2>2, <2>3, <3>2, <4>1
    <3> QED BY <2>3, <3>1, <3>2
  <2>6. Apart(taken, buf, todo', lost) BY <2>1, <2>4, <2>5 DEF Apart
  <2> QED BY <2>6 DEF ApartInv
<1>10. ~NoHandOff' BY <1>1 DEF NoHandOff
<1>11. WaitInv' BY DEF KeepInv, WaitInv
<1>12. AgeInv'
  <2>1. \A d \in Known : d.n <= nops[d.by] /\ (d.part > MaxPart => closed) BY DEF KeepInv, AgeInv
  <2> QED BY <1>8, <2>1 DEF AgeInv, Onward
<1>13. ASSUME NEW q \in Procs PROVE TaskAt(q)'
  <2>1. CASE q = p BY <1>1, <1>6, <2>1, TaskDone DEF Lone
  <2>2. CASE q = w
    <3>1. Lone(q)' /\ todo'[q] = <<e>> BY <1>1, <1>6, <2>2 DEF Lone
    <3> QED BY <1>5, <1>8, <3>1 DEF TaskAt
  <2>3. CASE q # p /\ q # w
    <3> DEFINE S == {}
    <3>1. /\ \A d \in Known' : d \in Known \/ d \in S
          /\ \A x \in Elem : Lone(q) /\ todo[q] = <<x>> => \A d \in S : ~Twin(d, x)
      BY <1>8
    <3>2. Continues(q) /\ TaskAt(q)
      BY <1>6, <2>3 DEF Continues, Lone, Adding, KeepInv, TaskInv
    <3> HIDE DEF S
    <3> QED BY <3>1, <3>2, TaskKept
  <2> QED BY <2>1, <2>2, <2>3
<1> QED BY <1>9, <1>10, <1>11, <1>12, <1>13, OnwardFacts DEF KeepInv, TaskInv

\* What the transducer hands on: the elements of one call, each once, in order.
LEMMA EmittedContents ==
  ASSUME NEW e \in Elem, NEW base \in {0, MaxPart}, NEW o \in XOutcomes \cup FlushOutcomes
  PROVE  /\ Once(Emitted(e, base, o)) /\ Sorted(Emitted(e, base, o))
         /\ \A x \in Range(Emitted(e, base, o)) :
              x.by = e.by /\ x.n = e.n /\ base < x.part /\ x.part <= base + MaxPart
<1> DEFINE k == o.n + (IF o.end = "panic" /\ shape.exh THEN 1 ELSE 0)
<1>1. MaxPart \in Nat /\ o.n \in Nat /\ o.n + 1 <= MaxPart
  BY ChannelAssumption DEF Outcome
<1>2. k \in Nat /\ k <= MaxPart /\ base \in Nat BY <1>1
<1>3. \A i \in 1..k : /\ [e EXCEPT !.part = base + i].by = e.by
                      /\ [e EXCEPT !.part = base + i].n = e.n
                      /\ [e EXCEPT !.part = base + i].part = base + i
  BY DEF Elem
<1> DEFINE f(i) == [e EXCEPT !.part = base + i]
           s == Emitted(e, base, o)
<1>4. s = [i \in 1..k |-> f(i)] BY DEF Emitted
<1>5. \A i \in 1..k : f(i).by = e.by /\ f(i).n = e.n /\ f(i).part = base + i BY <1>3
<1>6. s \in Seq(Elem) BY EmittedType
<1> HIDE DEF f, k, s
<1>7. Len(s) = k /\ \A i \in 1..k : s[i] = f(i) BY <1>2, <1>4
<1>8. \A i \in 1..k : s[i].by = e.by /\ s[i].n = e.n /\ s[i].part = base + i BY <1>5, <1>7
<1>9. Once(s)
  <2>1. ASSUME NEW i \in 1..k, NEW j \in 1..k, s[i] = s[j] PROVE i = j
    <3>1. base + i = base + j BY <1>8, <2>1
    <3> QED BY <1>2, <3>1
  <2> QED BY <1>7, <2>1 DEF Once
<1>10. Sorted(s)
  <2>1. ASSUME NEW i \in 1..k, NEW j \in 1..k, i < j PROVE Earlier(s[i], s[j])
    <3>1. s[i].n = s[j].n /\ s[i].part = base + i /\ s[j].part = base + j BY <1>8
    <3> QED BY <1>2, <2>1, <3>1 DEF Earlier
  <2> QED BY <1>7, <2>1 DEF Sorted
<1>11. ASSUME NEW x \in Range(s)
       PROVE  x.by = e.by /\ x.n = e.n /\ base < x.part /\ x.part <= base + MaxPart
  <2>1. PICK i \in 1..Len(s) : s[i] = x BY <1>6, RangeSeq
  <2> QED BY <1>2, <1>1, <1>7, <1>8, <2>1
<1> QED BY <1>9, <1>10, <1>11 DEF s

\* Calls are only added, close! is for good, goroutines are born once and for all.
LEMMA OnwardNext ==
  ASSUME IInv, IInv', Next
  PROVE  Onward
<1> USE Types
<1>0. nops' \in [Procs -> 0..MaxOps] BY DEF IInv, TypeOK
<1>1. PICK p \in Procs : Call(p) \/ Step(p) BY DEF Next
<1> DEFINE Born == \A q \in Procs : /\ pc'[q] = "unborn" => pc[q] = "unborn"
                                    /\ pc'[q] = "born" => pc[q] = "born" \/ q \in Workers
<1> DEFINE Late == nops' = nops \/ nops' = [nops EXCEPT ![p] = nops[p] + 1]
<1>2. ASSUME Late PROVE \A q \in Procs : nops[q] <= nops'[q]
  <2>1. \A q \in Procs : nops[q] \in Nat BY KnownTypes
  <2>2. CASE nops' = nops BY <2>1, <2>2
  <2>3. CASE nops' = [nops EXCEPT ![p] = nops[p] + 1]
    <3> SUFFICES ASSUME NEW q \in Procs PROVE nops[q] <= nops'[q] OBVIOUS
    <3>1. nops'[q] = IF q = p THEN nops[q] + 1 ELSE nops[q] BY <2>3
    <3>2. nops[q] \in Nat BY <2>1
    <3> HIDE Types
    <3> QED BY <3>1, <3>2
  <2> QED BY <1>2, <2>2, <2>3
<1>3. \A o : Enter(p, o) => Late BY DEF Enter
<1>4. \A r : Return(p, r) => Born BY DEF Return
<1>5. CloseDone(p) => Born BY DEF CloseDone
<1>6. GoSend(p) => Born
  <2>1. recvq # <<>> => Head(recvq) \in Procs BY TailFacts
  <2>2. ASSUME recvq # <<>>, GoSend(p) PROVE Born BY <2>1, <2>2 DEF GoSend
  <2>3. ASSUME recvq = <<>>, GoSend(p) PROVE Born BY <2>3 DEF GoSend
  <2> QED BY <2>2, <2>3
<1>7. GoRecv(p) => Born
  <2>1. sendq # <<>> => Head(sendq) \in Procs BY TailFacts
  <2> QED BY <2>1 DEF GoRecv, Released
<1>8. ASSUME NEW v \in {"add", "try", "park", "evict", "readd", "idle", "close", "await", "select", "drain", "wait"},
             pc' = [pc EXCEPT ![p] = v]
      PROVE  Born
  BY <1>8
<1>9. \A o, e : WouldBlock(p, o, e) => Born
  <2> SUFFICES ASSUME NEW o, NEW e, WouldBlock(p, o, e) PROVE Born OBVIOUS
  <2>1. CASE Return(p, "nil") BY <1>4, <2>1
  <2>2. CASE \E w \in Workers : pc[w] = "unborn" /\ pc' = [pc EXCEPT ![p] = "idle", ![w] = "born"]
    BY <2>2
  <2> QED BY <2>1, <2>2 DEF WouldBlock
<1>10. ASSUME NEW n, CloseLocked(p, n) PROVE Born /\ closed'
  BY <1>5, <1>8, <1>10 DEF CloseLocked
<1>11. CASE ChanSend(p)
  <2>1. Born BY <1>4, <1>8, <1>11 DEF ChanSend, UnlockedPut, LockedPut
  <2>2. Late /\ closed' = closed BY <1>3, <1>11 DEF ChanSend
  <2> QED BY <1>0, <1>2, <2>1, <2>2 DEF Onward
<1>12. ASSUME NEW o \in {"offer", "put"}, ChanOffer(p, o) PROVE Onward
  <2>1. Born BY <1>4, <1>8, <1>9, <1>12 DEF ChanOffer, UnlockedPut, LockedPut
  <2>2. Late /\ closed' = closed BY <1>3, <1>12 DEF ChanOffer
  <2> QED BY <1>0, <1>2, <2>1, <2>2 DEF Onward
<1>13. CASE ChanClose(p)
  <2>1. Born /\ closed' BY <1>10, <1>13 DEF ChanClose
  <2>2. Late BY <1>3, <1>13 DEF ChanClose
  <2> QED BY <1>0, <1>2, <2>1, <2>2 DEF Onward
<1>14. CASE ChanRecv(p)
  <2>1. Born BY <1>7, <1>8, <1>14 DEF ChanRecv
  <2>2. Late /\ closed' = closed BY <1>3, <1>14 DEF ChanRecv
  <2> QED BY <1>0, <1>2, <2>1, <2>2 DEF Onward
<1>15. CASE ChanPoll(p)
  <2>1. Born BY <1>4, <1>7, <1>15 DEF ChanPoll
  <2>2. Late /\ closed' = closed BY <1>3, <1>15 DEF ChanPoll
  <2> QED BY <1>0, <1>2, <2>1, <2>2 DEF Onward
<1>16. CASE PromisePut(p)
  <2>1. Born BY <1>4, <1>5, <1>16 DEF PromisePut
  <2>2. Late /\ closed' = closed BY <1>3, <1>16 DEF PromisePut
  <2> QED BY <1>0, <1>2, <2>1, <2>2 DEF Onward
<1>17. CASE ChanTakeAsync(p)
  <2>1. Born BY <1>17 DEF ChanTakeAsync
  <2>2. Late /\ closed' = closed BY <1>3, <1>17 DEF ChanTakeAsync
  <2> QED BY <1>0, <1>2, <2>1, <2>2 DEF Onward
<1>18. CASE ReducedClose(p)
  <2>1. Born /\ closed' BY <1>10, <1>18 DEF ReducedClose
  <2>2. Late BY <1>18 DEF ReducedClose
  <2> QED BY <1>0, <1>2, <2>1, <2>2 DEF Onward
<1>19. CASE OfferTry(p) \/ BufferAdd(p) \/ SlideEvict(p) \/ SlideReadd(p)
  <2>1. ASSUME OfferTry(p) PROVE Born BY <1>6, <1>9, <2>1 DEF OfferTry
  <2>2. ASSUME BufferAdd(p) PROVE Born BY <1>6, <1>8, <2>2 DEF BufferAdd
  <2>3. ASSUME SlideEvict(p) PROVE Born BY <1>8, <2>3 DEF SlideEvict
  <2>4. ASSUME SlideReadd(p) PROVE Born BY <1>6, <1>8, <2>4 DEF SlideReadd
  <2>5. Born BY <1>19, <2>1, <2>2, <2>3, <2>4
  <2>6. Late /\ closed' = closed BY <1>19 DEF OfferTry, BufferAdd, SlideEvict, SlideReadd
  <2> QED BY <1>0, <1>2, <2>5, <2>6 DEF Onward
<1>20. CASE PutReturn(p) \/ FlushReturn(p)
  <2>1. ASSUME PutReturn(p) PROVE Born BY <1>8, <2>1 DEF PutReturn
  <2>2. ASSUME FlushReturn(p) PROVE Born BY <1>5, <1>8, <2>2 DEF FlushReturn
  <2>3. Born BY <1>20, <2>1, <2>2
  <2>4. Late /\ closed' = closed BY <1>20 DEF PutReturn, FlushReturn
  <2> QED BY <1>0, <1>2, <2>3, <2>4 DEF Onward
<1>21. CASE RecvSelect(p) \/ RecvDrain(p) \/ PromiseRecv(p)
  <2>1. ASSUME RecvSelect(p) PROVE Born BY <1>7, <1>8, <2>1 DEF RecvSelect
  <2>2. ASSUME RecvDrain(p) PROVE Born BY <1>4, <1>7, <2>2 DEF RecvDrain
  <2>3. ASSUME PromiseRecv(p) PROVE Born BY <1>4, <2>3 DEF PromiseRecv
  <2>4. Born BY <1>21, <2>1, <2>2, <2>3
  <2>5. Late /\ closed' = closed BY <1>21 DEF RecvSelect, RecvDrain, PromiseRecv
  <2> QED BY <1>0, <1>2, <2>4, <2>5 DEF Onward
<1> QED BY <1>1, <1>11, <1>12, <1>13, <1>14, <1>15, <1>16, <1>17, <1>18, <1>19, <1>20, <1>21
        DEF Call, Step

LEMMA TodoNext ==
  ASSUME IInv'
  PROVE  todo' \in [Procs -> Seq(Elem)] /\ nops' \in [Procs -> 0..MaxOps]
BY DEF IInv, TypeOK

\* A goroutine that enters a put brings a value of its own, new to the channel, or
\* the one it was spawned with.
LEMMA PutEnters ==
  ASSUME IInv, KeepInv, NEW p \in Procs, NEW o \in {"send", "offer", "put"}, Enter(p, o)
  PROVE  \/ /\ pc[p] = "idle" /\ todo[p] = <<>> /\ nops'[p] = nops[p] + 1
            /\ Arg(p) \in Elem /\ Arg(p).by = p /\ Arg(p).n = nops[p] + 1 /\ Arg(p).part = 0
         \/ /\ pc[p] = "born" /\ Lone(p) /\ o = "send"
            /\ Arg(p) = Head(todo[p]) /\ Arg(p) \in Elem /\ Arg(p).part = 0
<1> USE Types
<1>1. TaskAt(p) /\ OpAt(p) BY DEF KeepInv, TaskInv, IInv, ProcInv
<1>2. Arg(p) \in Elem BY ArgType
<1>3. CASE pc[p] = "idle"
  <2>1. Arg(p) = [by |-> p, n |-> nops[p] + 1, part |-> 0] BY <1>3 DEF Arg
  <2>2. todo[p] = <<>> BY <1>1, <1>3 DEF TaskAt, Lone, Adding
  <2>3. nops'[p] = nops[p] + 1 BY <1>3 DEF Enter
  <2> QED BY <1>2, <1>3, <2>1, <2>2, <2>3
<1>4. CASE pc[p] = "born"
  <2>1. op[p] = o /\ o = "send" BY <1>1, <1>4 DEF Enter, OpAt
  <2>2. Lone(p) /\ Arg(p) = Head(todo[p]) BY <1>4, <2>1 DEF Lone, Arg
  <2>3. PICK e \in Elem : todo[p] = <<e>> /\ e.part = 0 BY <1>1, <2>2 DEF TaskAt
  <2>4. Head(todo[p]) = e BY <2>3
  <2> QED BY <1>2, <1>4, <2>1, <2>2, <2>3, <2>4
<1> QED BY <1>3, <1>4 DEF Enter

\* The elements s of a put of the value e.
FromPut(s, e) ==
  /\ s \in Seq(Elem) /\ Once(s) /\ Sorted(s)
  /\ \A x \in Range(s) : x.by = e.by /\ x.n = e.n /\ x.part <= MaxPart

LEMMA OneFromPut ==
  ASSUME NEW e \in Elem, e.part = 0
  PROVE  FromPut(<<e>>, e)
BY SmallContents, ChannelAssumption DEF FromPut

\* A put that begins to add keeps the invariant.
LEMMA PutKeeps ==
  ASSUME IInv, IInv', ShapeKept, KeepInv, Onward, NEW p \in Procs, NEW o \in {"send", "offer", "put"},
         Enter(p, o), NEW v \in {"add", "try"}, v = "try" => o # "send", NEW s,
         FromPut(s, Arg(p)), v = "try" => s = <<Arg(p)>>,
         pc' = [pc EXCEPT ![p] = v], op' = [op EXCEPT ![p] = o], todo' = [todo EXCEPT ![p] = s],
         UNCHANGED <<taken, buf, lost, recvq, closed>>
  PROVE  KeepInv'
<1> USE Types, TodoNext
<1>1. /\ s \in Seq(Elem) /\ Once(s) /\ Sorted(s)
      /\ \A x \in Range(s) : x.by = Arg(p).by /\ x.n = Arg(p).n /\ x.part <= MaxPart
  BY DEF FromPut
<1>2. todo'[p] = s /\ \A q \in Procs : q # p => todo'[q] = todo[q] OBVIOUS
<1>3. \A q \in Procs \ {p} : Continues(q) BY <1>2 DEF Continues, Lone, Adding
<1>4. /\ MaxPart \in Nat /\ Range(s) \subseteq Elem
      /\ \A x \in Range(s) : x.part \in Nat
  BY <1>1, RangeSeq, KnownTypes
<1>5. CASE /\ pc[p] = "idle" /\ todo[p] = <<>> /\ nops'[p] = nops[p] + 1
           /\ Arg(p) \in Elem /\ Arg(p).by = p /\ Arg(p).n = nops[p] + 1 /\ Arg(p).part = 0
  <2>1. \A e \in Range(s) : /\ e.by = p /\ e.n <= nops'[p] /\ (e.part > MaxPart => closed')
                            /\ \/ e.n = nops[p] + 1
                               \/ e.n = nops[p] /\ e.part > MaxPart /\ ~closed
    <3>1. nops'[p] \in Nat BY KnownTypes
    <3> QED BY <1>1, <1>4, <1>5, <3>1
  <2>2. ASSUME \A d \in Known' : d \in Known \/ d \in Range(s) PROVE TaskAt(p)'
    <3>1. CASE v = "add" BY <3>1, TaskDone DEF Adding
    <3>2. CASE v = "try"
      <4>1. s = <<Arg(p)>> /\ Range(s) = {Arg(p)} BY <3>2, SmallContents
      <4>2. \A d \in Known : d.n <= nops[d.by] BY DEF KeepInv, AgeInv
      <4>3. nops[p] \in Nat BY KnownTypes
      <4>4. \A d \in Known : ~Twin(d, Arg(p)) BY <1>5, <4>2, <4>3 DEF Twin
      <4>5. \A d \in Known' : Twin(d, Arg(p)) => d = Arg(p) BY <2>2, <4>1, <4>4
      <4>6. ~Adding(p)' /\ Lone(p)' BY <3>2 DEF Adding, Lone
      <4> QED BY <1>2, <1>5, <4>1, <4>5, <4>6 DEF TaskAt
    <3> QED BY <3>1, <3>2
  <2> QED BY <1>1, <1>2, <1>3, <2>1, <2>2, NewCallKeeps
<1>6. CASE /\ pc[p] = "born" /\ Lone(p) /\ o = "send" /\ Arg(p) = Head(todo[p])
  <2>1. v = "add" /\ Adding(p)' /\ pc'[p] # "unborn" BY <1>6 DEF Adding
  <2>2. \A e \in Range(s) : Twin(e, Head(todo[p])) BY <1>1, <1>6 DEF Twin
  <2> QED BY <1>1, <1>2, <1>3, <1>6, <2>1, <2>2, WorkerKeeps
<1> QED BY <1>5, <1>6, PutEnters

LEMMA LockedPutKeeps ==
  ASSUME IInv, IInv', ShapeKept, KeepInv, Onward, NEW p \in Procs, NEW o \in {"send", "offer", "put"},
         Enter(p, o), LockedPut(p, o, Arg(p)), UNCHANGED <<taken, buf, lost, recvq, closed>>
  PROVE  KeepInv'
<1>1. Arg(p) \in Elem /\ Arg(p).part = 0 BY PutEnters
<1>2. PICK s : todo' = [todo EXCEPT ![p] = s] /\ FromPut(s, Arg(p))
  <2>1. CASE HasXform
    <3>1. PICK x \in XOutcomes : todo' = [todo EXCEPT ![p] = Emitted(Arg(p), 0, x)]
      BY <2>1 DEF LockedPut
    <3>2. /\ Once(Emitted(Arg(p), 0, x)) /\ Sorted(Emitted(Arg(p), 0, x))
          /\ \A y \in Range(Emitted(Arg(p), 0, x)) :
               y.by = Arg(p).by /\ y.n = Arg(p).n /\ 0 < y.part /\ y.part <= 0 + MaxPart
      BY <1>1, EmittedContents
    <3>3. Emitted(Arg(p), 0, x) \in Seq(Elem) BY <1>1, EmittedType
    <3>4. 0 + MaxPart = MaxPart BY KnownTypes
    <3>5. FromPut(Emitted(Arg(p), 0, x), Arg(p)) BY <3>2, <3>3, <3>4 DEF FromPut
    <3> QED BY <3>1, <3>5
  <2>2. CASE ~HasXform
    <3>1. todo' = [todo EXCEPT ![p] = <<Arg(p)>>] BY <2>2 DEF LockedPut
    <3> QED BY <1>1, <3>1, OneFromPut
  <2> QED BY <2>1, <2>2
<1>3. pc' = [pc EXCEPT ![p] = "add"] /\ op' = [op EXCEPT ![p] = o] BY DEF LockedPut
<1> QED BY <1>2, <1>3, PutKeeps

LEMMA UnlockedPutKeeps ==
  ASSUME IInv, IInv', ShapeKept, KeepInv, Onward, NEW p \in Procs, NEW o \in {"send", "offer", "put"},
         Enter(p, o), NEW v \in {"add", "try"}, v = "try" => o # "send",
         UnlockedPut(p, o, Arg(p), v), UNCHANGED <<taken, buf, lost, recvq, closed>>
  PROVE  KeepInv'
<1>1. Arg(p) \in Elem /\ Arg(p).part = 0 BY PutEnters
<1>2. FromPut(<<Arg(p)>>, Arg(p)) BY <1>1, OneFromPut
<1>3. /\ pc' = [pc EXCEPT ![p] = v] /\ op' = [op EXCEPT ![p] = o]
      /\ todo' = [todo EXCEPT ![p] = <<Arg(p)>>]
  BY DEF UnlockedPut
<1> DEFINE s == <<Arg(p)>>
<1>4. FromPut(s, Arg(p)) /\ todo' = [todo EXCEPT ![p] = s] /\ s = <<Arg(p)>> BY <1>2, <1>3
<1> HIDE DEF s
<1> QED BY <1>3, <1>4, PutKeeps

\* A call returns having moved nothing.
LEMMA ReturnKeeps ==
  ASSUME IInv, IInv', ShapeKept, KeepInv, Onward, NEW p \in Procs, NEW r, Return(p, r),
         UNCHANGED <<taken, buf, lost, recvq>>
  PROVE  KeepInv'
<1> USE Types, TodoNext
<1>1. \A q \in Procs : Continues(q) \/ (todo'[q] = <<>> /\ ~Lone(q)')
  BY DEF Return, Continues, Lone, Adding
<1> QED BY <1>1, QuietKeeps

\* A put! that cannot go on leaves its value to a goroutine.
LEMMA WouldBlockKeeps ==
  ASSUME IInv, IInv', ShapeKept, KeepInv, Onward, NEW p \in Procs, NEW o, NEW e,
         \/ pc[p] = "try" /\ e = Head(todo[p]) /\ UNCHANGED nops
         \/ o \in {"offer", "put"} /\ Enter(p, o) /\ e = Arg(p),
         WouldBlock(p, o, e), UNCHANGED <<taken, buf, lost, recvq, closed>>
  PROVE  KeepInv'
<1> USE Types, TodoNext
<1>1. CASE o = "offer" /\ Return(p, "nil") BY <1>1, ReturnKeeps
<1>2. CASE ~(o = "offer" /\ Return(p, "nil"))
  <2>1. PICK w \in Workers :
          /\ pc[w] = "unborn"
          /\ pc' = [pc EXCEPT ![p] = "idle", ![w] = "born"]
          /\ op' = [op EXCEPT ![p] = "none", ![w] = "send"]
          /\ todo' = [todo EXCEPT ![p] = <<>>, ![w] = <<e>>]
    BY <1>2 DEF WouldBlock
  <2>2. w \in Procs /\ w # p BY <2>1 DEF Enter
  <2>3. /\ todo'[p] = <<>> /\ todo'[w] = <<e>>
        /\ \A q \in Procs : q # p /\ q # w => todo'[q] = todo[q]
    BY <2>1, <2>2
  <2>4. CASE pc[p] = "try" /\ e = Head(todo[p]) /\ UNCHANGED nops
    <3>1. todo[p] # <<>> BY <2>4 DEF IInv, ProcInv, TodoAt
    <3>2. e \in Elem BY <2>4, <3>1, TailFacts
    <3> QED BY <2>1, <2>3, <2>4, <3>2, HandOffKeeps
  <2>5. CASE o \in {"offer", "put"} /\ Enter(p, o) /\ e = Arg(p)
    <3>1. /\ pc[p] = "idle" /\ todo[p] = <<>> /\ nops'[p] = nops[p] + 1
          /\ e \in Elem /\ e.by = p /\ e.n = nops[p] + 1 /\ e.part = 0
      BY <2>5, PutEnters
    <3> DEFINE s == <<e>>
    <3>2. s \in Seq(Elem) /\ Once(s) /\ Sorted(s) /\ Range(s) = {e} BY <3>1, SmallContents
    <3>3. todo'[w] = s /\ \A q \in Procs : q # w => todo'[q] = todo[q] BY <2>2, <2>3, <3>1
    <3>4. ASSUME \A d \in Known' : d \in Known \/ d \in Range(s) PROVE TaskAt(w)'
      <4>1. \A d \in Known : d.n <= nops[d.by] BY DEF KeepInv, AgeInv
      <4>2. nops[p] \in Nat BY KnownTypes
      <4>3. \A d \in Known : ~Twin(d, e) BY <3>1, <4>1, <4>2 DEF Twin
      <4>4. \A d \in Known' : Twin(d, e) => d = e BY <3>2, <3>4, <4>3
      <4>5. ~Adding(w)' /\ Lone(w)' BY <2>1, <2>2 DEF Adding, Lone
      <4> QED BY <2>3, <3>1, <4>4, <4>5 DEF TaskAt
    <3>5. ~NoHandOff' BY <2>1, <2>2 DEF NoHandOff
    <3>6. \A q \in Procs \ {w} : Continues(q)
      BY <2>1, <2>2, <3>1, <3>3 DEF Continues, Lone, Adding
    <3>7. \A x \in Range(s) : /\ x.by = p /\ x.n <= nops'[p] /\ (x.part > MaxPart => closed')
                              /\ \/ x.n = nops[p] + 1
                                 \/ x.n = nops[p] /\ x.part > MaxPart /\ ~closed
      <4>1. nops'[p] \in Nat /\ MaxPart \in Nat BY KnownTypes
      <4>2. \A x \in Range(s) : x = e BY <3>2
      <4>3. nops'[p] = nops[p] + 1 /\ e.n = nops[p] + 1 BY <3>1
      <4>4. e.by = p /\ e.n <= nops'[p] /\ ~(e.part > MaxPart) /\ e.n = nops[p] + 1
        <5> HIDE Types, TodoNext
        <5> QED BY <3>1, <4>1, <4>3
      <4> HIDE DEF s
      <4> QED BY <4>2, <4>4
    <3> HIDE DEF s
    <3> QED BY <2>2, <3>2, <3>3, <3>4, <3>5, <3>6, <3>7, NewCallKeeps
  <2> QED BY <2>4, <2>5
<1> QED BY <1>1, <1>2

\* close! gives its caller what the transducer's completion adds, or nothing.
LEMMA CloseLockedKeeps ==
  ASSUME IInv, IInv', ShapeKept, KeepInv, Onward, NEW p \in Procs, NEW n, n = nops'[p],
         n = nops[p] + 1 \/ n = nops[p], pc[p] \in {"idle", "close"}, CloseLocked(p, n)
  PROVE  KeepInv'
<1> USE Types, TodoNext
<1>1. CASE ~closed /\ HasXform
  <2>1. /\ UNCHANGED <<taken, buf, lost, recvq>> /\ closed' = TRUE
        /\ pc' = [pc EXCEPT ![p] = "add"] /\ op' = [op EXCEPT ![p] = "close"]
    BY <1>1 DEF CloseLocked, history
  <2> DEFINE e == [by |-> p, n |-> n, part |-> 0]
  <2>2. e \in Elem /\ e.by = p /\ e.n = n
    <3>1. n \in 0..MaxOps OBVIOUS
    <3>2. 0 \in 0..2 * MaxPart BY KnownTypes
    <3> QED BY <3>1, <3>2 DEF Elem
  <2>3. PICK x \in FlushOutcomes : todo' = [todo EXCEPT ![p] = Emitted(e, MaxPart, x)]
    BY <1>1 DEF CloseLocked
  <2> HIDE DEF e
  <2> DEFINE s == Emitted(e, MaxPart, x)
  <2>4. /\ Once(s) /\ Sorted(s)
        /\ \A y \in Range(s) : y.by = p /\ y.n = n /\ MaxPart < y.part
    BY <2>2, EmittedContents
  <2>5. s \in Seq(Elem) BY <2>2, EmittedType
  <2>6. todo'[p] = s /\ \A q \in Procs : q # p => todo'[q] = todo[q] BY <2>3
  <2> HIDE DEF s
  <2>7. Range(s) \subseteq Elem BY <2>5, RangeSeq
  <2>8. \A y \in Range(s) : /\ y.by = p /\ y.n <= nops'[p] /\ (y.part > MaxPart => closed')
                            /\ \/ y.n = nops[p] + 1
                               \/ y.n = nops[p] /\ y.part > MaxPart /\ ~closed
    <3> SUFFICES ASSUME NEW y \in Range(s)
                 PROVE  /\ y.by = p /\ y.n <= nops'[p] /\ (y.part > MaxPart => closed')
                        /\ \/ y.n = nops[p] + 1
                           \/ y.n = nops[p] /\ y.part > MaxPart /\ ~closed
      OBVIOUS
    <3>1. y.by = p /\ y.n = n /\ MaxPart < y.part /\ y.part \in Nat /\ MaxPart \in Nat
      BY <2>4, <2>7, KnownTypes
    <3>2. nops'[p] \in Nat BY KnownTypes
    <3> HIDE Types, TodoNext
    <3> QED BY <1>1, <2>1, <3>1, <3>2
  <2>9. TaskAt(p)' BY <2>1, TaskDone DEF Adding
  <2>10. \A q \in Procs \ {p} : Continues(q) BY <2>1, <2>6 DEF Continues, Lone, Adding
  <2> QED BY <2>1, <2>4, <2>5, <2>6, <2>8, <2>9, <2>10, NewCallKeeps
<1>2. CASE ~(~closed /\ HasXform)
  <2>1. /\ UNCHANGED <<taken, buf, lost, todo>> /\ op' = [op EXCEPT ![p] = "none"]
    BY <1>2 DEF CloseLocked, history
  <2>2. /\ pc'[p] = "idle" /\ (recvq' = recvq \/ recvq' = <<>>)
        /\ \A q \in Procs : q # p => pc'[q] = pc[q] \/ (pc[q] = "wait" /\ pc'[q] = "drain")
    BY <1>2 DEF CloseLocked, CloseDone
  <2>3. \A q \in Procs : Continues(q)
    BY <2>1, <2>2 DEF Continues, Lone, Adding
  <2> QED BY <2>1, <2>2, <2>3, QuietKeeps
<1> QED BY <1>1, <1>2

\* A dropping buffer that is full discards the new element.
LEMMA DropKeeps ==
  ASSUME IInv, IInv', ShapeKept, KeepInv, Onward, NEW p \in Procs, pc[p] = "add", todo[p] # <<>>,
         Policy = "dropping", lost' = lost \cup {Head(todo[p])},
         todo' = [todo EXCEPT ![p] = Tail(todo[p])], UNCHANGED <<taken, buf, recvq, pc, op>>
  PROVE  KeepInv'
<1> USE Types, TodoNext
<1>1. todo'[p] = Tail(todo[p]) /\ \A q \in Procs : q # p => todo'[q] = todo[q] OBVIOUS
<1>2. Evicted' = Evicted BY DEF Evicted, ShapeKept
<1>3. /\ Contents(taken, buf, todo', lost') \subseteq Contents(taken, buf, todo, lost)
      /\ Apart(taken, buf, todo, lost) => Apart(taken, buf, todo', lost')
      /\ Ordered(taken, buf, todo, Evicted) => Ordered(taken, buf, todo', Evicted)
  <2>1. PICK f \in [Procs -> Seq(Elem)] : f = todo' OBVIOUS
  <2>2. f[p] = Tail(todo[p]) /\ \A q \in Procs : q # p => f[q] = todo[q] BY <1>1, <2>1
  <2>3. Contents(taken, buf, f, lost \cup {Head(todo[p])}) \subseteq Contents(taken, buf, todo, lost)
    BY <2>2, DropContents
  <2>4. Apart(taken, buf, todo, lost) => Apart(taken, buf, f, lost \cup {Head(todo[p])})
    BY <2>2, DropContents
  <2>5. Ordered(taken, buf, todo, Evicted) => Ordered(taken, buf, f, Evicted)
    BY <2>2, DropContents
  <2> QED BY <2>1, <2>3, <2>4, <2>5, Zenon
<1>4. Known' \subseteq Known BY <1>3 DEF Known
<1>5. ApartInv' BY <1>3 DEF ApartInv, KeepInv
<1>6. NoHandOff => OrderInv' BY <1>2, <1>3 DEF OrderInv, KeepInv
<1>7. WaitInv' BY DEF WaitInv, KeepInv
<1>8. \A q \in Procs : Continues(q) \/ Adding(q)'
  BY <1>1 DEF Continues, Lone, Adding
<1> QED BY <1>4, <1>5, <1>6, <1>7, <1>8, MoveKeeps

\* A sliding buffer that is full discards its oldest element.
LEMMA SlideEvictKeeps ==
  ASSUME IInv, ShapeKept, KeepInv, Onward, NEW p \in Procs, SlideEvict(p)
  PROVE  KeepInv'
<1> USE Types
<1>1. /\ pc[p] = "evict" /\ pc' = [pc EXCEPT ![p] = "readd"]
      /\ UNCHANGED <<taken, recvq, todo, op>>
      /\ IF buf = <<>> THEN UNCHANGED <<buf, lost>>
         ELSE buf' = Tail(buf) /\ lost' = lost \cup {Head(buf)}
  BY DEF SlideEvict
<1>2. Policy = "sliding" BY <1>1 DEF IInv, ProcInv, ShapeAt
<1>3. \A q \in Procs : Continues(q) BY <1>1 DEF Continues, Lone, Adding
<1>4. CASE buf = <<>> BY <1>1, <1>3, <1>4, QuietKeeps
<1>5. CASE buf # <<>>
  <2>1. Evicted = lost /\ Evicted' = lost' BY <1>2 DEF Evicted, ShapeKept
  <2>2. /\ Contents(taken, buf', todo, lost') \subseteq Contents(taken, buf, todo, lost)
        /\ Apart(taken, buf, todo, lost) => Apart(taken, buf', todo, lost')
        /\ Ordered(taken, buf, todo, lost) => Ordered(taken, buf', todo, lost')
    <3>1. Contents(taken, Tail(buf), todo, lost \cup {Head(buf)}) \subseteq Contents(taken, buf, todo, lost)
      BY <1>5, EvictContents
    <3>2. Apart(taken, buf, todo, lost) => Apart(taken, Tail(buf), todo, lost \cup {Head(buf)})
      BY <1>5, EvictContents
    <3>3. Ordered(taken, buf, todo, lost) => Ordered(taken, Tail(buf), todo, lost \cup {Head(buf)})
      BY <1>5, EvictContents
    <3>4. buf' = Tail(buf) /\ lost' = lost \cup {Head(buf)} BY <1>1, <1>5
    <3> QED BY <3>1, <3>2, <3>3, <3>4, Zenon
  <2>3. Known' \subseteq Known BY <1>1, <2>2 DEF Known
  <2>4. ApartInv' BY <1>1, <2>2 DEF ApartInv, KeepInv
  <2>5. NoHandOff => OrderInv' BY <1>1, <2>1, <2>2 DEF OrderInv, KeepInv
  <2>6. WaitInv' BY <1>1, <1>5 DEF WaitInv, KeepInv
  <2> QED BY <1>3, <2>3, <2>4, <2>5, <2>6, MoveKeeps
<1> QED BY <1>4, <1>5

LEMMA BufferAddKeeps ==
  ASSUME IInv, IInv', ShapeKept, KeepInv, Onward, NEW p \in Procs, BufferAdd(p)
  PROVE  KeepInv'
<1> USE Types, TodoNext
<1>1. pc[p] = "add" /\ todo[p] # <<>> BY DEF BufferAdd
<1>2. CASE GoSend(p) BY <1>1, <1>2, SendKeeps
<1>3. ASSUME NEW v \in {"park", "evict"}, pc' = [pc EXCEPT ![p] = v],
             UNCHANGED <<taken, buf, lost, recvq, todo, op>>
      PROVE  KeepInv'
  <2>1. \A q \in Procs : Continues(q) BY <1>1, <1>3 DEF Continues, Lone, Adding
  <2> QED BY <1>3, <2>1, QuietKeeps
<1>4. CASE /\ Policy = "dropping" /\ lost' = lost \cup {Head(todo[p])}
           /\ todo' = [todo EXCEPT ![p] = Tail(todo[p])] /\ UNCHANGED <<taken, buf, recvq, pc, op>>
  BY <1>1, <1>4, DropKeeps
<1>5. \/ GoSend(p)
      \/ pc' = [pc EXCEPT ![p] = "park"] /\ UNCHANGED <<taken, buf, lost, recvq, todo, op>>
      \/ pc' = [pc EXCEPT ![p] = "evict"] /\ UNCHANGED <<taken, buf, lost, recvq, todo, op>>
      \/ /\ Policy = "dropping" /\ lost' = lost \cup {Head(todo[p])}
         /\ todo' = [todo EXCEPT ![p] = Tail(todo[p])] /\ UNCHANGED <<taken, buf, recvq, pc, op>>
  BY DEF BufferAdd, goChan, history
<1> QED BY <1>2, <1>3, <1>4, <1>5

LEMMA SlideReaddKeeps ==
  ASSUME IInv, ShapeKept, KeepInv, Onward, NEW p \in Procs, SlideReadd(p)
  PROVE  KeepInv'
<1>1. pc[p] = "readd" BY DEF SlideReadd
<1>2. todo[p] # <<>> /\ Len(buf) < Cap BY <1>1 DEF IInv, ProcInv, TodoAt, SlideInv
<1>3. GoSend(p) BY <1>2 DEF SlideReadd, CanSend
<1> QED BY <1>1, <1>2, <1>3, SendKeeps

LEMMA OfferTryKeeps ==
  ASSUME IInv, IInv', ShapeKept, KeepInv, Onward, NEW p \in Procs, OfferTry(p)
  PROVE  KeepInv'
<1>1. pc[p] = "try" BY DEF OfferTry
<1>2. todo[p] # <<>> BY <1>1 DEF IInv, ProcInv, TodoAt
<1>3. CASE GoSend(p) BY <1>1, <1>2, <1>3, SendKeeps
<1>4. CASE ~GoSend(p)
  <2> DEFINE o == op[p]
             e == Head(todo[p])
  <2>1. WouldBlock(p, o, e) /\ UNCHANGED <<taken, buf, lost, recvq, closed, nops>>
    BY <1>4 DEF OfferTry, goChan, history
  <2>2. e = Head(todo[p]) OBVIOUS
  <2> HIDE DEF o, e
  <2> QED BY <1>1, <2>1, <2>2, WouldBlockKeeps
<1> QED BY <1>3, <1>4

\* Every call keeps the invariant of a channel that is no promise-chan,
LEMMA CallKeeps ==
  ASSUME IInv, IInv', ShapeKept, ~Promise, KeepInv, Onward, NEW p \in Procs, Call(p)
  PROVE  KeepInv'
<1> USE Types, TodoNext
<1>0. OpAt(p) BY DEF IInv, ProcInv
<1>1. CASE ChanSend(p)
  <2>1. Enter(p, "send") /\ UNCHANGED <<taken, buf, lost, recvq, closed>>
    BY <1>1 DEF ChanSend, goChan, history
  <2>2. CASE Return(p, "false") BY <2>1, <2>2, ReturnKeeps
  <2>3. CASE UnlockedPut(p, "send", Arg(p), "add") BY <2>1, <2>3, UnlockedPutKeeps
  <2>4. CASE LockedPut(p, "send", Arg(p)) BY <2>1, <2>4, LockedPutKeeps
  <2> QED BY <1>1, <2>2, <2>3, <2>4 DEF ChanSend
<1>2. ASSUME NEW o \in {"offer", "put"}, ChanOffer(p, o) PROVE KeepInv'
  <2>1. Enter(p, o) /\ UNCHANGED <<taken, buf, lost, recvq, closed>>
    BY <1>2 DEF ChanOffer, goChan, history
  <2>2. CASE Return(p, "false") BY <2>1, <2>2, ReturnKeeps
  <2>3. CASE UnlockedPut(p, o, Arg(p), "try") BY <2>1, <2>3, UnlockedPutKeeps
  <2>4. CASE LockedPut(p, o, Arg(p)) BY <2>1, <2>4, LockedPutKeeps
  <2>5. CASE WouldBlock(p, o, Arg(p))
    <3> DEFINE e == Arg(p)
    <3>1. e = Arg(p) /\ WouldBlock(p, o, e) BY <2>5
    <3> HIDE DEF e
    <3> QED BY <2>1, <3>1, WouldBlockKeeps
  <2> QED BY <1>2, <2>2, <2>3, <2>4, <2>5 DEF ChanOffer
<1>3. CASE ChanClose(p)
  <2>1. Enter(p, "close") /\ CloseLocked(p, nops[p] + 1) BY <1>3 DEF ChanClose
  <2>2. pc[p] = "idle" /\ nops'[p] = nops[p] + 1 BY <1>0, <2>1 DEF Enter, OpAt
  <2> DEFINE n == nops[p] + 1
  <2>3. n = nops'[p] /\ n = nops[p] + 1 /\ CloseLocked(p, n) BY <2>1, <2>2
  <2> HIDE DEF n
  <2> QED BY <2>2, <2>3, CloseLockedKeeps
<1>4. CASE ChanRecv(p)
  <2>1. pc[p] = "idle" \/ (pc[p] = "born" /\ op[p] = "recv") BY <1>4 DEF ChanRecv, Enter
  <2>2. CASE GoRecv(p) BY <2>1, <2>2, RecvKeeps
  <2>3. CASE ~GoRecv(p)
    <3>1. /\ pc' = [pc EXCEPT ![p] = "select"] /\ op' = [op EXCEPT ![p] = "recv"]
          /\ UNCHANGED <<taken, buf, lost, recvq, todo>>
      BY <1>4, <2>3 DEF ChanRecv, goChan, history
    <3>2. \A q \in Procs : Continues(q) BY <2>1, <3>1 DEF Continues, Lone, Adding
    <3> QED BY <3>1, <3>2, QuietKeeps
  <2> QED BY <2>2, <2>3
<1>5. CASE ChanPoll(p)
  <2>1. pc[p] = "idle" BY <1>0, <1>5 DEF ChanPoll, Enter, OpAt
  <2>2. CASE GoRecv(p) BY <2>1, <2>2, RecvKeeps
  <2>3. CASE ~GoRecv(p)
    <3>1. Return(p, "nil") /\ UNCHANGED <<taken, buf, lost, recvq>>
      BY <1>5, <2>3 DEF ChanPoll, goChan, history
    <3> QED BY <3>1, ReturnKeeps
  <2> QED BY <2>2, <2>3
<1>6. CASE PromisePut(p) BY <1>6 DEF PromisePut
<1>7. CASE ChanTakeAsync(p)
  <2>1. UNCHANGED <<taken, buf, lost, recvq, todo>>
    BY <1>7 DEF ChanTakeAsync, goChan, history
  <2>2. PICK w \in Workers : /\ pc[w] = "unborn" /\ pc' = [pc EXCEPT ![w] = "born"]
                             /\ op' = [op EXCEPT ![w] = "recv"]
    BY <1>7 DEF ChanTakeAsync
  <2>3. \A q \in Procs : Continues(q) BY <2>1, <2>2 DEF Continues, Lone, Adding
  <2> QED BY <2>1, <2>3, QuietKeeps
<1> QED BY <1>1, <1>2, <1>3, <1>4, <1>5, <1>6, <1>7 DEF Call

\* and so does every step inside a call.
LEMMA StepKeeps ==
  ASSUME IInv, IInv', ShapeKept, ~Promise, KeepInv, Onward, NEW p \in Procs, Step(p)
  PROVE  KeepInv'
<1> USE Types, TodoNext
<1>1. CASE PutReturn(p)
  <2>1. /\ pc[p] = "add" /\ todo[p] = <<>> /\ UNCHANGED <<taken, buf, lost, recvq, todo>>
        /\ \/ pc' = [pc EXCEPT ![p] = "close"] /\ op' = op
           \/ pc' = [pc EXCEPT ![p] = "idle"] /\ op' = [op EXCEPT ![p] = "none"]
    BY <1>1 DEF PutReturn, goChan, history
  <2>2. \A q \in Procs : Continues(q) \/ (todo'[q] = <<>> /\ ~Lone(q)')
    BY <2>1 DEF Continues, Lone, Adding
  <2> QED BY <2>1, <2>2, QuietKeeps
<1>2. CASE ReducedClose(p)
  <2>1. pc[p] = "close" /\ CloseLocked(p, nops[p]) /\ nops' = nops BY <1>2 DEF ReducedClose
  <2> DEFINE n == nops[p]
  <2>2. n = nops'[p] /\ n = nops[p] /\ CloseLocked(p, n) BY <2>1
  <2> HIDE DEF n
  <2> QED BY <2>1, <2>2, CloseLockedKeeps
<1>3. CASE FlushReturn(p)
  <2>1. /\ pc[p] = "add" /\ todo[p] = <<>> /\ UNCHANGED <<taken, buf, lost, todo>>
        /\ op' = [op EXCEPT ![p] = "none"]
    BY <1>3 DEF FlushReturn, history
  <2>2. /\ pc'[p] = "idle" /\ (recvq' = recvq \/ recvq' = <<>>)
        /\ \A q \in Procs : q # p => pc'[q] = pc[q] \/ (pc[q] = "wait" /\ pc'[q] = "drain")
    BY <1>3 DEF FlushReturn, CloseDone
  <2>3. \A q \in Procs : Continues(q) \/ (todo'[q] = <<>> /\ ~Lone(q)')
    BY <2>1, <2>2 DEF Continues, Lone, Adding
  <2> QED BY <2>1, <2>2, <2>3, QuietKeeps
<1>4. CASE RecvSelect(p)
  <2>1. pc[p] = "select" BY <1>4 DEF RecvSelect
  <2>2. CASE GoRecv(p) BY <2>1, <2>2, RecvKeeps
  <2>3. CASE ~GoRecv(p)
    <3>1. /\ pc' = [pc EXCEPT ![p] = "drain"] \/ pc' = [pc EXCEPT ![p] = "wait"]
          /\ UNCHANGED <<taken, buf, lost, todo, op>>
          /\ recvq' = recvq \/ buf = <<>>
      BY <1>4, <2>3 DEF RecvSelect, goChan, history, CanRecv
    <3>2. \A q \in Procs : Continues(q) BY <2>1, <3>1 DEF Continues, Lone, Adding
    <3> QED BY <3>1, <3>2, QuietKeeps
  <2> QED BY <2>2, <2>3
<1>5. CASE RecvDrain(p)
  <2>1. pc[p] = "drain" BY <1>5 DEF RecvDrain
  <2>2. CASE GoRecv(p) BY <2>1, <2>2, RecvKeeps
  <2>3. CASE ~GoRecv(p)
    <3>1. Return(p, "nil") /\ UNCHANGED <<taken, buf, lost, recvq>>
      BY <1>5, <2>3 DEF RecvDrain, goChan
    <3> QED BY <3>1, ReturnKeeps
  <2> QED BY <2>2, <2>3
<1>6. CASE PromiseRecv(p)
  BY <1>6 DEF PromiseRecv, IInv, ProcInv, ShapeAt
<1> QED BY <1>1, <1>2, <1>3, <1>4, <1>5, <1>6,
           OfferTryKeeps, BufferAddKeeps, SlideEvictKeeps, SlideReaddKeeps DEF Step

\* The elements of a channel that is no promise-chan are all in their place.
ContentInv == ~Promise => KeepInv

LEMMA ContentInit == Init => ContentInv
<1> SUFFICES ASSUME Init PROVE KeepInv
  BY DEF ContentInv
<1>1. /\ taken = <<>> /\ buf = <<>> /\ lost = {} /\ recvq = <<>>
      /\ \A p \in Procs : todo[p] = <<>> /\ pc[p] \in {"unborn", "idle"}
  BY DEF Init
<1>2. Range(<<>>) = {} /\ Once(<<>>) /\ Sorted(<<>>) BY SmallContents
<1>3. ASSUME NEW e \in Known PROVE FALSE
  <2>1. \/ e \in Range(taken) \/ e \in Range(buf) \/ e \in lost
        \/ \E p \in Procs : e \in Range(todo[p])
    BY <1>3, InContents DEF Known
  <2> QED BY <1>1, <1>2, <2>1
<1>4. ApartInv BY <1>1, <1>2 DEF ApartInv, Apart
<1>5. OrderInv BY <1>1, <1>2 DEF OrderInv, Ordered, Below, Evicted
<1>6. TaskInv BY <1>1 DEF TaskInv, TaskAt, Lone
<1>7. AgeInv BY <1>3 DEF AgeInv
<1>8. WaitInv /\ BornInv BY <1>1 DEF WaitInv, BornInv
<1> QED BY <1>4, <1>5, <1>6, <1>7, <1>8 DEF KeepInv

LEMMA ContentNext == IInv /\ ContentInv /\ [Next]_vars => ContentInv'
<1> SUFFICES ASSUME IInv, ContentInv, [Next]_vars PROVE ContentInv'
  OBVIOUS
<1>1. IInv' BY NextInv
<1>2. CASE UNCHANGED vars
  BY <1>2 DEF vars, ContentInv, Promise, KeepInv, ApartInv, TaskInv, TaskAt, Lone, Adding, Known,
              Contents, AgeInv, NoHandOff, OrderInv, Evicted, Policy, WaitInv, BornInv
<1>3. ASSUME Next, ~Promise' PROVE KeepInv'
  <2>1. PICK p \in Procs : Call(p) \/ Step(p) BY <1>3 DEF Next
  <2>2. ShapeKept BY <1>3 DEF Next, ShapeKept, Cap, Policy, HasXform, Promise, Guarded
  <2>3. Onward BY <1>1, <1>3, OnwardNext
  <2>4. ~Promise /\ KeepInv BY <1>3, <2>2 DEF ShapeKept, ContentInv
  <2> QED BY <1>1, <2>1, <2>2, <2>3, <2>4, CallKeeps, StepKeeps
<1> QED BY <1>2, <1>3 DEF ContentInv

\* That holds throughout.
THEOREM ContentInvariance == Spec => []ContentInv
<1>1. IInv /\ ContentInv /\ [Next]_vars => ContentInv' BY ContentNext
<1> QED BY <1>1, ContentInit, Invariance, PTL DEF Spec

\* Each element is in at most one place: nothing is delivered twice, and nothing that
\* was taken or discarded is still buffered or still to be added.
THEOREM EachElementOnce == Spec => []NoDuplicates
<1>1. ASSUME IInv, ContentInv PROVE NoDuplicates
  <2> SUFFICES ASSUME ~Promise PROVE NoDuplicates
    BY DEF NoDuplicates
  <2>1. Apart(taken, buf, todo, lost) BY <1>1 DEF ContentInv, KeepInv, ApartInv
  <2>2. DOMAIN taken = 1..Len(taken) /\ DOMAIN buf = 1..Len(buf) BY <1>1, Types
  <2>3. /\ \A i, j \in DOMAIN taken : i # j => taken[i] # taken[j]
        /\ \A i, j \in DOMAIN buf : i # j => buf[i] # buf[j]
    BY <2>1, <2>2 DEF Apart, Once
  <2>4. Range(taken) \cap (Range(buf) \cup lost) = {} /\ Range(buf) \cap lost = {}
    BY <2>1 DEF Apart
  <2>5. ASSUME NEW p \in Procs
        PROVE  /\ Range(todo[p]) \cap (Range(taken) \cup Range(buf) \cup lost) = {}
               /\ \A q \in Procs \ {p} : Range(todo[p]) \cap Range(todo[q]) = {}
    BY <2>1 DEF Apart
  <2> QED BY <2>3, <2>4, <2>5 DEF NoDuplicates
<1> QED BY <1>1, Invariance, ContentInvariance, PTL

\* While no put! has left a value to a goroutine of its own, the elements one
\* goroutine puts are taken in the order it put them.
THEOREM ProducersKeepOrder == Spec => []PerProducerOrder
<1>1. ASSUME IInv, ContentInv PROVE PerProducerOrder
  <2>1. DOMAIN taken = 1..Len(taken) BY <1>1, Types
  <2> QED BY <1>1, <2>1 DEF ContentInv, KeepInv, OrderInv, Ordered, Sorted, PerProducerOrder
<1> QED BY <1>1, Invariance, ContentInvariance, PTL

\* A sliding buffer keeps the newest: what it evicts is older than anything of that
\* producer it still holds.
THEOREM SlidingKeeps == Spec => []SlidingKeepsNewest
<1>1. ASSUME IInv, ContentInv PROVE SlidingKeepsNewest
  <2> SUFFICES ASSUME Policy = "sliding" PROVE SlidingKeepsNewest
    BY DEF SlidingKeepsNewest
  <2>1. SlidingAdmitsNewest BY <1>1 DEF IInv, SlideInv, SlidingAdmitsNewest
  <2>2. ~Promise
    <3>1. shape \in ChanShape BY <1>1, ChannelAssumption DEF IInv, TypeOK
    <3> QED BY <3>1 DEF ChanShape, Policy, Promise
  <2>3. Evicted = lost BY DEF Evicted
  <2>4. \A i \in DOMAIN buf : buf[i] \in Range(buf) BY DEF Range
  <2>5. NoHandOff => Below(lost, Range(buf))
    BY <1>1, <2>2, <2>3 DEF ContentInv, KeepInv, OrderInv, Ordered
  <2> QED BY <2>1, <2>4, <2>5 DEF SlidingKeepsNewest, Below
<1> QED BY <1>1, Invariance, ContentInvariance, PTL
------------------------------------------------------------------------------
(***************************************************************************)
(* Nothing vanishes.                                                       *)
(***************************************************************************)

\* What one step may do to the elements the channel has accepted.
Conserves ==
  /\ Accepted \subseteq Accepted' \cup Range(taken') \cup lost'
  /\ Policy = "fixed" => lost' = lost

LEMMA InAccepted ==
  ASSUME NEW e
  PROVE  e \in Accepted <=> e \in Range(buf) \/ \E q \in Procs : Adding(q) /\ e \in Range(todo[q])
BY DEF Accepted, Adding

LEMMA InAcceptedNext ==
  ASSUME NEW e
  PROVE  e \in Accepted' <=> e \in Range(buf') \/ \E q \in Procs : Adding(q)' /\ e \in Range(todo'[q])
BY DEF Accepted, Adding

\* A step that moves no element.
LEMMA QuietConserves ==
  ASSUME UNCHANGED <<buf, lost>>,
         \A q \in Procs : Adding(q) => todo[q] = <<>> \/ (Adding(q)' /\ todo'[q] = todo[q])
  PROVE  Conserves
<1>1. Range(<<>>) = {} BY SmallContents
<1>2. \A e : e \in Accepted => e \in Accepted' BY <1>1, InAccepted, InAcceptedNext
<1> QED BY <1>2 DEF Conserves

\* A Go channel send: the element goes to a parked taker or to the buffer.
LEMMA SendConserves ==
  ASSUME IInv, NEW p \in Procs, GoSend(p), pc[p] \in {"try", "add", "readd"}, todo[p] # <<>>
  PROVE  Conserves
<1> USE Types
<1> DEFINE x == Head(todo[p])
<1>1. x \in Elem /\ Range(todo[p]) = Range(Tail(todo[p])) \cup {x}
  <2>1. todo[p] \in Seq(Elem) OBVIOUS
  <2> QED BY <2>1, TailContents
<1>2. todo' = [todo EXCEPT ![p] = Tail(todo[p])] /\ lost' = lost
  BY DEF GoSend
<1>3. todo'[p] = Tail(todo[p]) /\ \A q \in Procs : q # p => todo'[q] = todo[q]
  BY <1>2
<1>4. Range(buf) \subseteq Range(buf') /\ x \in Range(buf') \cup Range(taken')
  <2>1. CASE recvq # <<>>
    <3>1. buf' = buf /\ taken' = Append(taken, x) BY <2>1 DEF GoSend
    <3>2. taken \in Seq(Elem) OBVIOUS
    <3>3. Range(Append(taken, x)) = Range(taken) \cup {x} BY <1>1, <3>2, AppendContents
    <3> QED BY <3>1, <3>3
  <2>2. CASE recvq = <<>>
    <3>1. buf' = Append(buf, x) BY <2>2 DEF GoSend
    <3>2. buf \in Seq(Elem) OBVIOUS
    <3>3. Range(Append(buf, x)) = Range(buf) \cup {x} BY <1>1, <3>2, AppendContents
    <3> QED BY <3>1, <3>3
  <2> QED BY <2>1, <2>2
<1>5. ASSUME NEW q \in Procs, Adding(q) PROVE Adding(q)'
  <2>1. CASE recvq # <<>>
    <3>1. Head(recvq) \in Procs /\ pc[Head(recvq)] = "wait" /\ Parked(pc, Tail(recvq), "wait")
      BY <2>1, ParkedTail DEF IInv, QueueInv
    <3>2. pc' = [pc EXCEPT ![p] = "add", ![Head(recvq)] = "idle"] BY <2>1 DEF GoSend
    <3>3. Head(recvq) # p /\ Head(recvq) # q BY <1>5, <3>1 DEF Adding
    <3> QED BY <1>5, <3>1, <3>2, <3>3 DEF Adding
  <2>2. CASE recvq = <<>>
    <3>1. pc' = [pc EXCEPT ![p] = "add"] BY <2>2 DEF GoSend
    <3> QED BY <1>5, <3>1 DEF Adding
  <2> QED BY <2>1, <2>2
<1> HIDE DEF x
<1>6. ASSUME NEW e, e \in Accepted PROVE e \in Accepted' \cup Range(taken')
  <2>1. CASE e \in Range(buf) BY <1>4, <2>1, InAcceptedNext
  <2>2. ASSUME NEW q \in Procs, Adding(q), e \in Range(todo[q]) PROVE e \in Accepted' \cup Range(taken')
    <3>1. CASE q = p BY <1>1, <1>3, <1>4, <1>5, <2>2, <3>1, InAcceptedNext
    <3>2. CASE q # p BY <1>3, <1>5, <2>2, <3>2, InAcceptedNext
    <3> QED BY <3>1, <3>2
  <2> QED BY <1>6, <2>1, <2>2, InAccepted
<1> QED BY <1>2, <1>6 DEF Conserves

\* A Go channel receive: the front is taken, a parked sender's element takes its place.
LEMMA RecvConserves ==
  ASSUME IInv, NEW p \in Procs, GoRecv(p), ~Adding(p)
  PROVE  Conserves
<1> USE Types
<1> DEFINE h == Head(sendq)
<1>1. /\ CanRecv /\ lost' = lost
      /\ taken' = Append(taken, Front) /\ buf' = BufAfterRecv
  BY DEF GoRecv
<1>2. CASE sendq = <<>>
  <2>1. /\ todo' = todo /\ pc' = [pc EXCEPT ![p] = "idle"]
        /\ buf # <<>> /\ buf' = Tail(buf) /\ taken' = Append(taken, Head(buf))
    BY <1>1, <1>2 DEF GoRecv, Released, BufAfterRecv, CanRecv, Front
  <2>2. buf \in Seq(Elem) /\ taken \in Seq(Elem) OBVIOUS
  <2>3. Head(buf) \in Elem /\ Range(buf) = Range(Tail(buf)) \cup {Head(buf)} BY <2>1, <2>2, TailContents
  <2>4. Range(taken') = Range(taken) \cup {Head(buf)} BY <2>1, <2>2, <2>3, AppendContents
  <2>5. \A q \in Procs : Adding(q) => Adding(q)' BY <2>1 DEF Adding
  <2>6. \A e : e \in Accepted => e \in Accepted' \/ e \in Range(taken')
    BY <2>1, <2>3, <2>4, <2>5, InAccepted, InAcceptedNext
  <2> QED BY <1>1, <2>6 DEF Conserves
<1>3. CASE sendq # <<>>
  <2>1. /\ pc' = [[pc EXCEPT ![h] = "add"] EXCEPT ![p] = "idle"]
        /\ todo' = [todo EXCEPT ![h] = Tail(todo[h])]
    BY <1>3 DEF GoRecv, Released
  <2>2. h \in Procs /\ pc[h] = "park" /\ todo[h] # <<>>
    <3>1. Parked(pc, sendq, "park") BY DEF IInv, QueueInv
    <3>2. Head(sendq) \in Procs /\ pc[Head(sendq)] = "park" /\ Parked(pc, Tail(sendq), "park")
      BY <1>3, <3>1, ParkedTail
    <3> QED BY <3>2 DEF IInv, ProcInv, TodoAt
  <2> HIDE DEF h
  <2> DEFINE x == Head(todo[h])
  <2>3. x \in Elem /\ Range(todo[h]) = Range(Tail(todo[h])) \cup {x}
    <3>1. todo[h] \in Seq(Elem) BY <2>2
    <3> QED BY <2>2, <3>1, TailContents
  <2>4. todo'[h] = Tail(todo[h]) /\ \A q \in Procs : q # h => todo'[q] = todo[q]
    BY <2>1, <2>2
  <2>5. \A q \in Procs : Adding(q) => Adding(q)'
    BY <2>1, <2>2 DEF Adding
  <2>6. /\ x \in Range(buf') \cup Range(taken')
        /\ \A e : e \in Range(buf) => e \in Range(buf') \cup Range(taken')
    <3>0. buf \in Seq(Elem) /\ taken \in Seq(Elem) OBVIOUS
    <3>1. CASE buf = <<>>
      <4>1. taken' = Append(taken, x) BY <1>1, <1>3, <3>1 DEF Front, h
      <4>2. Range(taken') = Range(taken) \cup {x} BY <2>3, <3>0, <4>1, AppendContents
      <4>3. Range(buf) = {} BY <3>1, SmallContents
      <4> QED BY <4>2, <4>3
    <3>2. CASE buf # <<>>
      <4>1. taken' = Append(taken, Head(buf)) /\ buf' = Append(Tail(buf), x)
        BY <1>1, <1>3, <3>2 DEF Front, BufAfterRecv, h
      <4>2. Head(buf) \in Elem /\ Tail(buf) \in Seq(Elem) /\ Range(buf) = Range(Tail(buf)) \cup {Head(buf)}
        BY <3>0, <3>2, TailContents
      <4>3. Range(taken') = Range(taken) \cup {Head(buf)} BY <3>0, <4>1, <4>2, AppendContents
      <4>4. Range(buf') = Range(Tail(buf)) \cup {x} BY <2>3, <4>1, <4>2, AppendContents
      <4> QED BY <4>2, <4>3, <4>4
    <3> QED BY <3>1, <3>2
  <2> HIDE DEF x
  <2>7. ASSUME NEW e, e \in Accepted PROVE e \in Accepted' \cup Range(taken')
    <3>1. CASE e \in Range(buf) BY <2>6, <3>1, InAcceptedNext
    <3>2. ASSUME NEW q \in Procs, Adding(q), e \in Range(todo[q]) PROVE e \in Accepted' \cup Range(taken')
      <4>1. CASE q = h BY <2>3, <2>4, <2>5, <2>6, <3>2, <4>1, InAcceptedNext
      <4>2. CASE q # h BY <2>4, <2>5, <3>2, <4>2, InAcceptedNext
      <4> QED BY <4>1, <4>2
    <3> QED BY <2>7, <3>1, <3>2, InAccepted
  <2> QED BY <1>1, <2>7 DEF Conserves
<1> QED BY <1>2, <1>3

\* bufferAdd, at each of its steps.
LEMMA AddConserves ==
  ASSUME IInv, NEW p \in Procs, BufferAdd(p) \/ SlideEvict(p) \/ SlideReadd(p)
  PROVE  Conserves
<1> USE Types
<1>0. /\ pc[p] \in {"add", "evict", "readd"} /\ todo[p] # <<>>
      /\ pc[p] \in {"evict", "readd"} => Policy = "sliding"
  BY DEF BufferAdd, SlideEvict, SlideReadd, IInv, ProcInv, TodoAt, ShapeAt
<1>1. CASE GoSend(p) /\ pc[p] \in {"add", "readd"} BY <1>0, <1>1, SendConserves
<1>2. CASE UNCHANGED <<buf, todo, lost>> /\ pc' \in {[pc EXCEPT ![p] = "park"], [pc EXCEPT ![p] = "evict"],
                                                     [pc EXCEPT ![p] = "readd"]}
  <2>1. \A q \in Procs : Adding(q) => Adding(q)' BY <1>2 DEF Adding
  <2> QED BY <1>2, <2>1, QuietConserves
<1>3. CASE /\ Policy # "fixed" /\ lost' = lost \cup {Head(todo[p])} /\ buf' = buf
           /\ todo' = [todo EXCEPT ![p] = Tail(todo[p])]
           /\ \A q \in Procs : Adding(q) => Adding(q)'
  <2>1. todo[p] \in Seq(Elem) OBVIOUS
  <2>2. Range(todo[p]) = Range(Tail(todo[p])) \cup {Head(todo[p])} BY <1>0, <2>1, TailContents
  <2>3. todo'[p] = Tail(todo[p]) /\ \A q \in Procs : q # p => todo'[q] = todo[q] BY <1>3
  <2>4. ASSUME NEW e, e \in Accepted PROVE e \in Accepted' \cup lost'
    <3>1. CASE e \in Range(buf) BY <1>3, <3>1, InAcceptedNext
    <3>2. ASSUME NEW q \in Procs, Adding(q), e \in Range(todo[q]) PROVE e \in Accepted' \cup lost'
      <4>1. CASE q = p BY <1>3, <2>2, <2>3, <3>2, <4>1, InAcceptedNext
      <4>2. CASE q # p BY <1>3, <2>3, <3>2, <4>2, InAcceptedNext
      <4> QED BY <4>1, <4>2
    <3> QED BY <2>4, <3>1, <3>2, InAccepted
  <2> QED BY <1>3, <2>4 DEF Conserves
<1>4. CASE SlideEvict(p) /\ buf # <<>>
  <2>1. /\ buf' = Tail(buf) /\ lost' = lost \cup {Head(buf)} /\ todo' = todo
        /\ pc' = [pc EXCEPT ![p] = "readd"] /\ pc[p] = "evict"
    BY <1>4 DEF SlideEvict
  <2>2. buf \in Seq(Elem) OBVIOUS
  <2>3. Range(buf) = Range(Tail(buf)) \cup {Head(buf)} BY <1>4, <2>2, TailContents
  <2>4. \A q \in Procs : Adding(q) => Adding(q)' BY <2>1 DEF Adding
  <2>5. \A e : e \in Accepted => e \in Accepted' \cup lost'
    BY <2>1, <2>3, <2>4, InAccepted, InAcceptedNext
  <2> QED BY <1>0, <2>1, <2>5 DEF Conserves
<1>5. CASE BufferAdd(p)
  <2>1. CASE ~CanSend /\ Policy = "dropping"
    <3>1. lost' = lost \cup {Head(todo[p])} /\ buf' = buf /\ todo' = [todo EXCEPT ![p] = Tail(todo[p])] /\ pc' = pc
      BY <1>5, <2>1 DEF BufferAdd, GoSend, goChan
    <3>2. \A q \in Procs : Adding(q) => Adding(q)' BY <3>1 DEF Adding
    <3> QED BY <1>3, <2>1, <3>1, <3>2
  <2>2. CASE ~CanSend /\ Policy # "dropping"
    BY <1>2, <1>5, <2>2 DEF BufferAdd, GoSend, goChan, history
  <2>3. CASE CanSend
    BY <1>1, <1>5, <2>3 DEF BufferAdd
  <2> QED BY <2>1, <2>2, <2>3
<1>6. CASE SlideEvict(p) /\ buf = <<>>
  BY <1>2, <1>6 DEF SlideEvict
<1>7. CASE SlideReadd(p)
  <2>1. CASE ~CanSend
    <3>1. /\ lost' = lost \cup {Head(todo[p])} /\ buf' = buf /\ todo' = [todo EXCEPT ![p] = Tail(todo[p])]
          /\ pc' = [pc EXCEPT ![p] = "add"] /\ pc[p] = "readd"
      BY <1>7, <2>1 DEF SlideReadd, GoSend, goChan
    <3>2. \A q \in Procs : Adding(q) => Adding(q)' BY <3>1 DEF Adding
    <3> QED BY <1>0, <1>3, <3>1, <3>2
  <2>2. CASE CanSend BY <1>1, <1>7, <2>2 DEF SlideReadd
  <2> QED BY <2>1, <2>2
<1> QED BY <1>4, <1>5, <1>6, <1>7

\* The other steps leave alone what is accepted.
LEMMA OtherConserves ==
  ASSUME IInv, NEW p \in Procs, Call(p) \/ Step(p),
         ~(BufferAdd(p) \/ SlideEvict(p) \/ SlideReadd(p)), ~(OfferTry(p) /\ GoSend(p)),
         ~((ChanRecv(p) \/ RecvSelect(p) \/ RecvDrain(p) \/ ChanPoll(p)) /\ GoRecv(p))
  PROVE  Conserves
<1> USE Types
<1>1. ASSUME NEW o, Enter(p, o) PROVE pc[p] \in {"idle", "born"}
  BY <1>1 DEF Enter
<1>2. ASSUME pc[p] \in {"idle", "born", "try", "select", "drain", "await"},
             NEW r, Return(p, r), UNCHANGED <<buf, lost>>
      PROVE  Conserves
  <2>1. \A q \in Procs : Adding(q) => Adding(q)' /\ todo'[q] = todo[q]
    BY <1>2 DEF Adding, Return
  <2> QED BY <1>2, <2>1, QuietConserves
<1>3. ASSUME NEW o, NEW e, WouldBlock(p, o, e), pc[p] \in {"idle", "born", "try"}, UNCHANGED <<buf, lost>>
      PROVE  Conserves
  <2>1. CASE Return(p, "nil") BY <1>2, <1>3, <2>1
  <2>2. CASE ~Return(p, "nil")
    <3>1. PICK w \in Workers : /\ pc[w] = "unborn" /\ pc' = [pc EXCEPT ![p] = "idle", ![w] = "born"]
                               /\ todo' = [todo EXCEPT ![p] = <<>>, ![w] = <<e>>]
      BY <1>3, <2>2 DEF WouldBlock
    <3>2. w \in Procs BY ChannelAssumption
    <3>3. \A q \in Procs : Adding(q) => Adding(q)' /\ todo'[q] = todo[q]
      BY <1>3, <3>1, <3>2 DEF Adding
    <3> QED BY <1>3, <3>3, QuietConserves
  <2> QED BY <2>1, <2>2
<1>4. ASSUME pc[p] \in {"idle", "born"}, NEW o, NEW e, NEW next \in {"add", "try"},
             LockedPut(p, o, e) \/ UnlockedPut(p, o, e, next), UNCHANGED <<buf, lost>>
      PROVE  Conserves
  <2>1. \A q \in Procs : Adding(q) => Adding(q)' /\ todo'[q] = todo[q]
    BY <1>4 DEF Adding, LockedPut, UnlockedPut
  <2> QED BY <1>4, <2>1, QuietConserves
<1>5. ASSUME NEW n, CloseLocked(p, n), pc[p] \in {"idle", "born", "close"} PROVE Conserves
  <2>1. UNCHANGED <<buf, lost>> BY <1>5 DEF CloseLocked, history
  <2>2. \A q \in Procs : Adding(q) => Adding(q)' /\ todo'[q] = todo[q]
    BY <1>5 DEF CloseLocked, CloseDone, Adding
  <2> QED BY <2>1, <2>2, QuietConserves
<1>6. CASE ChanSend(p)
  <2>1. pc[p] \in {"idle", "born"} /\ UNCHANGED <<buf, lost>> BY <1>1, <1>6 DEF ChanSend, goChan, history
  <2> QED BY <1>2, <1>4, <1>6, <2>1 DEF ChanSend
<1>7. ASSUME NEW o \in {"offer", "put"}, ChanOffer(p, o) PROVE Conserves
  <2>1. pc[p] \in {"idle", "born"} /\ UNCHANGED <<buf, lost>> BY <1>1, <1>7 DEF ChanOffer, goChan, history
  <2> QED BY <1>2, <1>3, <1>4, <1>7, <2>1 DEF ChanOffer
<1>8. CASE ChanClose(p) BY <1>1, <1>5, <1>8 DEF ChanClose
<1>9. CASE ChanRecv(p) \/ ChanTakeAsync(p)
  <2>1. UNCHANGED <<buf, lost, todo>> BY <1>9 DEF ChanRecv, ChanTakeAsync, goChan, history
  <2>2. \A q \in Procs : Adding(q) => Adding(q)'
    BY <1>1, <1>9 DEF ChanRecv, ChanTakeAsync, Adding
  <2> QED BY <2>1, <2>2, QuietConserves
<1>10. CASE ChanPoll(p)
  <2>1. pc[p] \in {"idle", "born"} /\ UNCHANGED <<buf, lost>> BY <1>1, <1>10 DEF ChanPoll, goChan, history
  <2> QED BY <1>2, <1>10, <2>1 DEF ChanPoll
<1>11. CASE PromisePut(p)
  <2>1. pc[p] \in {"idle", "born"} /\ UNCHANGED <<buf, lost>> BY <1>1, <1>11 DEF PromisePut, history
  <2>2. CASE closed \/ delivered BY <1>2, <1>11, <2>1, <2>2 DEF PromisePut
  <2>3. CASE ~(closed \/ delivered)
    <3>1. todo' = todo /\ CloseDone(p) BY <1>11, <2>3 DEF PromisePut
    <3>2. \A q \in Procs : Adding(q) => Adding(q)' BY <2>1, <3>1 DEF CloseDone, Adding
    <3> QED BY <2>1, <3>1, <3>2, QuietConserves
  <2> QED BY <2>2, <2>3
<1>12. CASE OfferTry(p)
  <2>1. pc[p] = "try" /\ UNCHANGED <<buf, lost>> BY <1>12 DEF OfferTry, goChan, history
  <2> QED BY <1>3, <1>12, <2>1 DEF OfferTry
<1>13. CASE PutReturn(p) \/ FlushReturn(p)
  <2>1. pc[p] = "add" /\ todo[p] = <<>> /\ UNCHANGED <<buf, lost, todo>>
    BY <1>13 DEF PutReturn, FlushReturn, goChan, history
  <2>2. \A q \in Procs : Adding(q) /\ q # p => Adding(q)'
    BY <1>13 DEF PutReturn, FlushReturn, CloseDone, Adding
  <2> QED BY <2>1, <2>2, QuietConserves
<1>14. CASE ReducedClose(p) BY <1>5, <1>14 DEF ReducedClose
<1>15. CASE RecvSelect(p)
  <2>1. UNCHANGED <<buf, lost, todo>> /\ pc[p] = "select" BY <1>15 DEF RecvSelect, goChan, history
  <2>2. \A q \in Procs : Adding(q) => Adding(q)' BY <1>15, <2>1 DEF RecvSelect, Adding
  <2> QED BY <2>1, <2>2, QuietConserves
<1>16. CASE RecvDrain(p) \/ PromiseRecv(p)
  <2>1. UNCHANGED <<buf, lost>> /\ pc[p] \in {"drain", "await"} BY <1>16 DEF RecvDrain, PromiseRecv, goChan
  <2> QED BY <1>2, <1>16, <2>1 DEF RecvDrain, PromiseRecv
<1> QED BY <1>6, <1>7, <1>8, <1>9, <1>10, <1>11, <1>12, <1>13, <1>14, <1>15, <1>16 DEF Call, Step

\* An element that a put or a completion has begun to add stays with the channel until
\* a take returns it or a dropping or sliding buffer discards it, with any number of
\* goroutines and any transducer.
THEOREM Conserved == Spec => NothingVanishes
<1>1. ASSUME IInv, [Next]_vars PROVE [Conserves]_vars
  <2>1. SUFFICES ASSUME Next PROVE Conserves BY <1>1
  <2>2. PICK p \in Procs : Call(p) \/ Step(p) BY <2>1 DEF Next
  <2>3. CASE BufferAdd(p) \/ SlideEvict(p) \/ SlideReadd(p) BY <1>1, <2>3, AddConserves
  <2>4. CASE OfferTry(p) /\ GoSend(p)
    <3>1. pc[p] = "try" /\ todo[p] # <<>> BY <1>1, <2>4 DEF OfferTry, IInv, ProcInv, TodoAt
    <3> QED BY <1>1, <2>4, <3>1, SendConserves
  <2>5. CASE (ChanRecv(p) \/ RecvSelect(p) \/ RecvDrain(p) \/ ChanPoll(p)) /\ GoRecv(p)
    <3>1. ~Adding(p) BY <2>5 DEF ChanRecv, RecvSelect, RecvDrain, ChanPoll, Enter, Adding
    <3> QED BY <1>1, <2>5, <3>1, RecvConserves
  <2> QED BY <1>1, <2>2, <2>3, <2>4, <2>5, OtherConserves
<1>2. [][Conserves]_vars => NothingVanishes BY PTL DEF NothingVanishes, Conserves
<1> QED BY <1>1, <1>2, Invariance, PTL DEF Spec
==============================================================================
