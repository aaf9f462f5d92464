------------------------------ MODULE RefProofs ------------------------------
(***************************************************************************)
(* Ref: no update is lost, whatever futures a transaction is conveyed to,  *)
(* and a transaction is isolated when no earlier one's future is running   *)
(* as it begins, for any number of goroutines, futures and refs.           *)
(***************************************************************************)
EXTENDS Ref, TLAPS

\* The part of the state a step of one goroutine may be judged by.
RefTyped ==
  /\ mtx \in [Refs -> Procs \cup {NoProc}] /\ val \in [Refs -> Nat]
  /\ swaps \in [Procs -> Seq(Swap)]

\* The swaps of p hold their refs' mutexes, were given the refs' present values
\* and are of different refs.
SwapOf(p) ==
  /\ \A i \in DOMAIN swaps[p] :
       mtx[swaps[p][i].ref] = p /\ swaps[p][i].old = val[swaps[p][i].ref]
  /\ \A i, j \in DOMAIN swaps[p] : swaps[p][i].ref = swaps[p][j].ref => i = j

\* The inductive invariant behind NoLostUpdate.
SwapInv == RefTyped /\ \A p \in Procs : SwapOf(p)

\* The swaps of a sequence are swaps.
LEMMA SwapAt ==
  ASSUME NEW s \in Seq(Swap), NEW i \in DOMAIN s
  PROVE  s[i] \in Swap /\ s[i].ref \in Refs /\ s[i].old \in Nat
<1>1. s[i] \in Swap
  OBVIOUS
<1> QED
  BY <1>1 DEF Swap

\* What a sequence of swaps is once its last one is taken off.
LEMMA Popped ==
  ASSUME NEW s \in Seq(Swap), s # <<>>, NEW t, t = SubSeq(s, 1, Len(s) - 1)
  PROVE  /\ t \in Seq(Swap) /\ DOMAIN t \subseteq DOMAIN s
         /\ Len(s) \in DOMAIN s /\ Len(s) \notin DOMAIN t
         /\ s[Len(s)] \in Swap
         /\ \A i \in DOMAIN t : t[i] = s[i]
OBVIOUS

\* Steps that touch no mutex, value or swap preserve it.
LEMMA SwapKept ==
  ASSUME SwapInv, UNCHANGED <<mtx, val, swaps>>
  PROVE  SwapInv'
BY DEF SwapInv, RefTyped, SwapOf

\* The last swap of p is taken off, and its ref either stays as it is or is let
\* go, with a new value or the old.
LEMMA SwapPopped ==
  ASSUME SwapInv, NEW p \in Procs, swaps[p] # <<>>, Pop(p),
         \/ UNCHANGED <<mtx, val>>
         \/ /\ mtx' = [mtx EXCEPT ![Top(p).ref] = NoProc]
            /\ val' \in [Refs -> Nat]
            /\ \A r \in Refs : r # Top(p).ref => val'[r] = val[r]
  PROVE  SwapInv'
<1> DEFINE s == swaps[p]
           t == SubSeq(s, 1, Len(s) - 1)
<1>1. s \in Seq(Swap) /\ s # <<>>
  BY DEF SwapInv, RefTyped
<1>2. /\ t \in Seq(Swap) /\ DOMAIN t \subseteq DOMAIN s
      /\ Len(s) \in DOMAIN s /\ Len(s) \notin DOMAIN t
      /\ s[Len(s)] \in Swap
      /\ \A i \in DOMAIN t : t[i] = s[i]
  <2> HIDE DEF s
  <2> QED
    BY <1>1, Popped
<1>3. Top(p) = s[Len(s)] /\ Top(p).ref \in Refs /\ mtx[Top(p).ref] = p
  BY <1>2 DEF Top, SwapInv, SwapOf, Swap
<1>4. swaps' = [swaps EXCEPT ![p] = t]
  BY DEF Pop
<1> HIDE DEF t
<1>5. RefTyped'
  BY <1>2, <1>3, <1>4, RefAssumption DEF SwapInv, RefTyped
<1>6. SwapOf(p)'
  <2>1. swaps'[p] = t
    BY <1>4 DEF SwapInv, RefTyped
  <2>2. ASSUME NEW i \in DOMAIN t
        PROVE  mtx'[t[i].ref] = p /\ t[i].old = val'[t[i].ref]
    <3>1. /\ i \in DOMAIN s /\ t[i] = s[i] /\ i # Len(s) /\ s[i].ref \in Refs
          /\ mtx[s[i].ref] = p /\ s[i].old = val[s[i].ref]
      <4>1. i \in DOMAIN s /\ t[i] = s[i] /\ i # Len(s)
        BY <1>2, <2>2
      <4>2. s[i].ref \in Refs
        BY <1>1, <4>1, SwapAt
      <4> QED
        BY <4>1, <4>2 DEF SwapInv, SwapOf
    <3>2. s[i].ref # Top(p).ref
      BY <1>2, <1>3, <3>1 DEF SwapInv, SwapOf
    <3> QED
      BY <3>1, <3>2, <1>3 DEF SwapInv, RefTyped
  <2>3. \A i, j \in DOMAIN t : t[i].ref = t[j].ref => i = j
    BY <1>2 DEF SwapInv, SwapOf
  <2> QED
    BY <2>1, <2>2, <2>3 DEF SwapOf
<1>7. ASSUME NEW q \in Procs, q # p PROVE SwapOf(q)'
  <2>1. swaps'[q] = swaps[q] /\ SwapOf(q) /\ swaps[q] \in Seq(Swap)
    BY <1>4, <1>7 DEF SwapInv, RefTyped
  <2>2. ASSUME NEW i \in DOMAIN swaps[q]
        PROVE  mtx'[swaps[q][i].ref] = q /\ swaps[q][i].old = val'[swaps[q][i].ref]
    <3>1. swaps[q][i].ref \in Refs /\ swaps[q][i].ref # Top(p).ref
      BY <1>3, <1>7, <2>1, SwapAt DEF SwapOf
    <3> QED
      BY <1>3, <2>1, <3>1 DEF SwapInv, RefTyped, SwapOf
  <2> QED
    BY <2>1, <2>2 DEF SwapOf
<1> QED
  BY <1>5, <1>6, <1>7 DEF SwapInv

\* It holds initially.
LEMMA SwapInit == Init => SwapInv
BY RefAssumption DEF Init, SwapInv, RefTyped, SwapOf, Procs

\* Every step preserves it.
LEMMA SwapNext ==
  SwapInv /\ [Next]_vars => SwapInv'
<1> SUFFICES ASSUME SwapInv, [Next]_vars PROVE SwapInv'
  OBVIOUS
<1>1. ASSUME NEW p \in Procs,
             RunInTransaction(p) \/ EndTransaction(p) \/ DerefReturn(p)
               \/ NotifyWatches(p) \/ Catch(p)
      PROVE SwapInv'
  BY <1>1, SwapKept
  DEF RunInTransaction, EndTransaction, DerefReturn, NotifyWatches, Catch
<1>2. ASSUME NEW p \in Procs, NEW f \in Futures, AgentSubmit(p, f) PROVE SwapInv'
  BY <1>2, SwapKept DEF AgentSubmit
<1>3. ASSUME NEW p \in Procs, NEW r \in Refs, Deref(p, r) \/ TxSwap(p, r) PROVE SwapInv'
  BY <1>3, SwapKept DEF Deref, TxSwap
<1>4. ASSUME NEW p \in Procs, SwapLock(p) PROVE SwapInv'
  <2>1. PICK r \in Refs : /\ mtx[r] = NoProc
                          /\ mtx' = [mtx EXCEPT ![r] = p]
                          /\ swaps' = [swaps EXCEPT ![p] = Append(@, [ref |-> r, old |-> val[r]])]
    BY <1>4 DEF SwapLock, Got
  <2> DEFINE w == [ref |-> r, old |-> val[r]]
             s == swaps[p]
  <2>2. val' = val /\ w \in Swap /\ s \in Seq(Swap) /\ w.ref = r /\ w.old = val[r]
    BY <1>4 DEF SwapLock, SwapInv, RefTyped, Swap
  <2>3. swaps'[p] = Append(s, w) /\ \A q \in Procs : q # p => swaps'[q] = swaps[q]
    BY <2>1 DEF SwapInv, RefTyped
  <2> HIDE DEF w, s
  <2>4. /\ Append(s, w) \in Seq(Swap)
        /\ DOMAIN Append(s, w) = DOMAIN s \cup {Len(s) + 1} /\ Len(s) + 1 \notin DOMAIN s
        /\ \A i \in DOMAIN s : Append(s, w)[i] = s[i]
        /\ Append(s, w)[Len(s) + 1] = w
    BY <2>2
  <2>5. RefTyped'
    BY <2>1, <2>2, <2>4 DEF SwapInv, RefTyped, w, s
  <2>6. ASSUME NEW q \in Procs, NEW i \in DOMAIN swaps[q]
        PROVE  /\ swaps[q][i].ref \in Refs /\ swaps[q][i].ref # r
               /\ mtx'[swaps[q][i].ref] = q /\ swaps[q][i].old = val'[swaps[q][i].ref]
    <3>1. /\ swaps[q][i].ref \in Refs /\ mtx[swaps[q][i].ref] = q
          /\ swaps[q][i].old = val[swaps[q][i].ref]
      <4>1. swaps[q] \in Seq(Swap)
        BY DEF SwapInv, RefTyped
      <4> QED
        BY <2>6, <4>1, SwapAt DEF SwapInv, SwapOf
    <3>2. q # NoProc
      BY RefAssumption DEF Procs
    <3> QED
      BY <2>1, <2>2, <3>1, <3>2 DEF SwapInv, RefTyped
  <2>7. ASSUME NEW q \in Procs, q # p PROVE SwapOf(q)'
    BY <2>3, <2>6, <2>7 DEF SwapInv, SwapOf
  <2>8. SwapOf(p)'
    <3>1. mtx'[w.ref] = p /\ w.old = val'[w.ref]
      BY <2>1, <2>2 DEF SwapInv, RefTyped
    <3>2. ASSUME NEW i \in DOMAIN s
          PROVE  s[i].ref # w.ref /\ mtx'[s[i].ref] = p /\ s[i].old = val'[s[i].ref]
      BY <2>2, <2>6 DEF s
    <3>3. \A i, j \in DOMAIN s : s[i].ref = s[j].ref => i = j
      BY DEF SwapInv, SwapOf, s
    <3> QED
      BY <2>3, <2>4, <3>1, <3>2, <3>3 DEF SwapOf
  <2> QED
    BY <2>5, <2>7, <2>8 DEF SwapInv
<1>5. ASSUME NEW p \in Procs, FnEnd(p) PROVE SwapInv'
  <2>1. swaps[p] # <<>> /\ Pop(p)
    BY <1>5 DEF FnEnd
  <2>2. Top(p).old + 1 \in Nat /\ Top(p).ref \in Refs
    <3>1. swaps[p] \in Seq(Swap)
      BY DEF SwapInv, RefTyped
    <3>2. swaps[p][Len(swaps[p])] \in Swap
      BY <2>1, <3>1, Popped
    <3> QED
      BY <3>2 DEF Top, Swap
  <2>3. PICK e \in FnEnds :
          /\ val' = IF e = "ok" THEN [val EXCEPT ![Top(p).ref] = Top(p).old + 1] ELSE val
          /\ mtx' = IF e = "panic" THEN mtx ELSE [mtx EXCEPT ![Top(p).ref] = NoProc]
    BY <1>5, Zenon DEF FnEnd
  <2>4. \/ UNCHANGED <<mtx, val>>
        \/ /\ mtx' = [mtx EXCEPT ![Top(p).ref] = NoProc]
           /\ val' \in [Refs -> Nat]
           /\ \A r \in Refs : r # Top(p).ref => val'[r] = val[r]
    BY <2>2, <2>3 DEF SwapInv, RefTyped
  <2> QED
    BY <2>1, <2>4, SwapPopped
<1>6. ASSUME NEW p \in Procs, Unwind(p) PROVE SwapInv'
  BY <1>6, SwapPopped DEF Unwind
<1>7. CASE UNCHANGED vars
  BY <1>7, SwapKept DEF vars
<1> QED
  BY <1>1, <1>2, <1>3, <1>4, <1>5, <1>6, <1>7 DEF Next, Step

\* alter never installs a result computed from a value that is no longer the
\* ref's, also when conveyed futures alter without holding stmMtx, or functions
\* alter further refs: r.mtx alone sees to it (ref.go:121-136).
THEOREM NoUpdateLost ==
  Spec => []NoLostUpdate
<1>1. SwapInv => NoLostUpdate
  BY DEF SwapInv, SwapOf, NoLostUpdate
<1>2. Init => SwapInv
  BY SwapInit
<1>3. SwapInv /\ [Next]_vars => SwapInv'
  BY SwapNext
<1> QED
  BY <1>1, <1>2, <1>3, PTL DEF Spec

RefAt == {"unborn", "idle", "body", "deref", "swap", "watch", "unwind", "finished"}

\* What each variable of the refs holds, apart from what SwapInv says.
RefRest ==
  /\ stm \in Procs \cup {NoProc} /\ mark \in [Procs -> BOOLEAN]
  /\ pc \in [Procs -> RefAt]
  /\ want \in [Procs -> SUBSET Refs] /\ nops \in [Procs -> 0..MaxOps]
  /\ joined \subseteq Procs /\ alone \in BOOLEAN /\ view \in [Refs -> Nat]

\* Every step preserves these types.
LEMMA RefRestNext ==
  SwapInv /\ RefRest /\ [Next]_vars => RefRest'
<1> SUFFICES ASSUME SwapInv, RefRest, [Next]_vars PROVE RefRest'
  OBVIOUS
<1> USE DEF Goto, Got, RefAt
<1>0. ASSUME NEW p \in Procs, nops[p] < MaxOps PROVE nops[p] + 1 \in 0..MaxOps
  <2>1. nops[p] \in Nat /\ MaxOps \in Nat
    BY RefAssumption DEF RefRest
  <2> QED
    BY <1>0, <2>1
<1>1. ASSUME NEW p \in Procs, RunInTransaction(p) PROVE RefRest'
  BY <1>1 DEF RunInTransaction, NoneRunning, RefRest, SwapInv, RefTyped
<1>2. ASSUME NEW p \in Procs, EndTransaction(p) PROVE RefRest'
  BY <1>2 DEF EndTransaction, RefRest
<1>3. ASSUME NEW p \in Procs, NEW f \in Futures, AgentSubmit(p, f) PROVE RefRest'
  <2>1. f \in Procs
    BY DEF Procs
  <2> QED
    BY <1>3, <2>1 DEF AgentSubmit, RefRest
<1>4. ASSUME NEW p \in Procs, NEW r \in Refs, Deref(p, r) \/ TxSwap(p, r) PROVE RefRest'
  BY <1>0, <1>4 DEF Deref, TxSwap, Op, RefRest
<1>5. ASSUME NEW p \in Procs, DerefReturn(p) PROVE RefRest'
  BY <1>5 DEF DerefReturn, RefRest
<1>6. ASSUME NEW p \in Procs, SwapLock(p) PROVE RefRest'
  BY <1>6 DEF SwapLock, RefRest
<1>7. ASSUME NEW p \in Procs, NotifyWatches(p) \/ Catch(p) \/ Unwind(p) PROVE RefRest'
  BY <1>7 DEF NotifyWatches, Catch, Unwind, RefRest
<1>8. ASSUME NEW p \in Procs, FnEnd(p) PROVE RefRest'
  <2>1. Top(p).old + 1 \in Nat
    <3>1. swaps[p] \in Seq(Swap) /\ swaps[p] # <<>>
      BY <1>8 DEF SwapInv, RefTyped, FnEnd
    <3>2. swaps[p][Len(swaps[p])] \in Swap
      BY <3>1, Popped
    <3> QED
      BY <3>2 DEF Top, Swap
  <2>2. PICK e \in FnEnds :
          /\ pc' = [pc EXCEPT ![p] = IF e = "ok" THEN "watch" ELSE "unwind"]
          /\ view' = IF e = "ok" /\ p \in joined
                     THEN [view EXCEPT ![Top(p).ref] = Top(p).old + 1] ELSE view
    BY <1>8, Zenon DEF FnEnd
  <2> QED
    BY <1>8, <2>1, <2>2 DEF FnEnd, RefRest
<1>9. CASE UNCHANGED vars
  BY <1>9 DEF vars, RefRest
<1> QED
  BY <1>1, <1>2, <1>3, <1>4, <1>5, <1>6, <1>7, <1>8, <1>9 DEF Next, Step

\* Among the clients only the holder of stmMtx is marked and inside a transaction,
\* and a future is marked from its birth.  When the running transaction began
\* alone, the futures at work are its own, and it knows every update.
Together ==
  /\ \A p \in Clients : /\ mark[p] => stm = p
                        /\ pc[p] \notin {"idle", "deref"} => mark[p]
  /\ \A f \in Futures : pc[f] # "idle" /\ (pc[f] = "unborn" \/ mark[f])
  /\ stm # NoProc => stm \in Clients /\ stm \in joined
  /\ stm # NoProc /\ alone =>
       /\ \A f \in Futures : pc[f] \in {"unborn", "finished"} \/ f \in joined
       /\ view = val

\* The inductive invariant behind IsolatedTogether.
IsoInv == SwapInv /\ RefRest /\ Together

\* Every step preserves it.
LEMMA IsoNext ==
  IsoInv /\ [Next]_vars => IsoInv'
<1> SUFFICES ASSUME IsoInv, [Next]_vars PROVE Together'
  BY SwapNext, RefRestNext DEF IsoInv
<1> USE RefAssumption DEF IsoInv, Together, Goto, Procs
<1>0. /\ pc \in [Procs -> RefAt] /\ mark \in [Procs -> BOOLEAN]
      /\ stm \in Procs \cup {NoProc} /\ alone \in BOOLEAN
  BY DEF RefRest
<1>1. ASSUME NEW p \in Procs, RunInTransaction(p) PROVE Together'
  <2>1. p \in Clients
    BY <1>1 DEF RunInTransaction
  <2>2. \A q \in Procs : q # p => pc'[q] = pc[q] /\ mark'[q] = mark[q]
    BY <1>0, <1>1 DEF RunInTransaction
  <2>3. pc'[p] = "body" /\ mark'[p]
    BY <1>0, <1>1 DEF RunInTransaction
  <2> QED
    BY <1>1, <2>1, <2>2, <2>3 DEF RunInTransaction, NoneRunning
<1>2. ASSUME NEW p \in Procs, EndTransaction(p) PROVE Together'
  <2>0. pc[p] \in {"body", "unwind"} /\ UNCHANGED <<val, view, alone>>
    BY <1>2 DEF EndTransaction
  <2>1. CASE p \in Futures
    <3>1. pc' = [pc EXCEPT ![p] = "finished"] /\ UNCHANGED <<stm, mark, joined>>
      BY <1>2, <2>1 DEF EndTransaction
    <3>2. pc'[p] = "finished" /\ \A q \in Procs : q # p => pc'[q] = pc[q]
      BY <1>0, <3>1
    <3> QED
      BY <2>0, <2>1, <3>1, <3>2
  <2>2. CASE p \notin Futures
    <3>1. /\ pc' = [pc EXCEPT ![p] = "idle"] /\ stm' = NoProc
          /\ mark' = [mark EXCEPT ![p] = FALSE]
      BY <1>2, <2>2 DEF EndTransaction
    <3>2. /\ pc'[p] = "idle" /\ ~mark'[p]
          /\ \A q \in Procs : q # p => pc'[q] = pc[q] /\ mark'[q] = mark[q]
      BY <1>0, <3>1
    <3>3. stm = p
      BY <2>0, <2>2
    <3> QED
      BY <2>2, <3>1, <3>2, <3>3
  <2> QED
    BY <2>1, <2>2
<1>3. ASSUME NEW p \in Procs, NEW r \in Refs, Deref(p, r) \/ TxSwap(p, r) PROVE Together'
  BY <1>0, <1>3 DEF Deref, TxSwap, Op
<1>4. ASSUME NEW p \in Procs, DerefReturn(p) PROVE Together'
  <2>1. /\ pc'[p] = (IF mark[p] THEN "body" ELSE "idle")
        /\ \A q \in Procs : q # p => pc'[q] = pc[q]
        /\ UNCHANGED <<stm, mark, val, joined, alone, view>> /\ pc[p] = "deref"
    BY <1>0, <1>4 DEF DerefReturn
  <2> QED
    BY <2>1
<1>5. ASSUME NEW p \in Procs,
             SwapLock(p) \/ NotifyWatches(p) \/ Catch(p) \/ Unwind(p)
      PROVE  Together'
  BY <1>0, <1>5 DEF SwapLock, NotifyWatches, Catch, Unwind
<1>6. ASSUME NEW p \in Procs, FnEnd(p) PROVE Together'
  <2>1. PICK e \in FnEnds :
          /\ pc' = [pc EXCEPT ![p] = IF e = "ok" THEN "watch" ELSE "unwind"]
          /\ val' = IF e = "ok" THEN [val EXCEPT ![Top(p).ref] = Top(p).old + 1] ELSE val
          /\ view' = IF e = "ok" /\ p \in joined
                     THEN [view EXCEPT ![Top(p).ref] = Top(p).old + 1] ELSE view
    BY <1>6, Zenon DEF FnEnd
  <2>2. pc[p] = "body" /\ UNCHANGED <<stm, mark, joined, alone>>
    BY <1>6 DEF FnEnd
  <2>3. /\ pc'[p] \in {"watch", "unwind"}
        /\ \A q \in Procs : q # p => pc'[q] = pc[q]
    BY <1>0, <2>1
  <2>4. ASSUME stm # NoProc, alone PROVE view' = val'
    <3>1. p \in joined
      BY <2>2, <2>4
    <3> QED
      BY <2>1, <2>4, <3>1
  <2> QED
    BY <2>2, <2>3, <2>4
<1>7. ASSUME NEW p \in Procs, NEW f \in Futures, AgentSubmit(p, f) PROVE Together'
  <2>1. /\ pc[p] = "body" /\ pc[f] = "unborn" /\ pc' = [pc EXCEPT ![f] = "body"]
        /\ mark' = [mark EXCEPT ![f] = mark[p]]
        /\ joined' = (IF p \in joined THEN joined \cup {f} ELSE joined)
        /\ UNCHANGED <<stm, val, view, alone>>
    BY <1>7 DEF AgentSubmit
  <2>2. /\ pc'[f] = "body" /\ mark'[f] = mark[p] /\ mark[p]
        /\ \A q \in Procs : q # f => pc'[q] = pc[q] /\ mark'[q] = mark[q]
    BY <1>0, <2>1
  <2>3. ASSUME stm # NoProc, alone PROVE p \in joined
    BY <2>1, <2>3
  <2> QED
    BY <2>1, <2>2, <2>3
<1>8. CASE UNCHANGED vars
  BY <1>8 DEF vars
<1> QED
  BY <1>1, <1>2, <1>3, <1>4, <1>5, <1>6, <1>7, <1>8 DEF Next, Step

\* A transaction that begins while no future of an earlier one is running is
\* isolated until it ends, for any number of goroutines, futures and refs
\* (ref.go:85-97).
THEOREM TransactionsIsolated ==
  Spec => []IsolatedTogether
<1>1. Init => IsoInv
  <2> SUFFICES ASSUME Init PROVE IsoInv
    OBVIOUS
  <2>1. RefRest
    BY RefAssumption DEF Init, RefRest, RefAt, Procs
  <2>2. Together
    BY RefAssumption DEF Init, Together, Procs
  <2> QED
    BY <2>1, <2>2, SwapInit DEF IsoInv
<1>2. IsoInv => IsolatedTogether
  BY DEF IsoInv, Together, Isolated, IsolatedTogether
<1>3. IsoInv /\ [Next]_vars => IsoInv'
  BY IsoNext
<1> QED
  BY <1>1, <1>2, <1>3, PTL DEF Spec

\* The types: alter's function runs under the mutex of its ref, and of every ref
\* around it (ref.go:121-136).
THEOREM RefTypes ==
  Spec => []TypeOK
<1>1. Init => SwapInv /\ RefRest
  <2> SUFFICES ASSUME Init PROVE SwapInv /\ RefRest
    OBVIOUS
  <2>1. RefRest
    BY RefAssumption DEF Init, RefRest, RefAt, Procs
  <2> QED
    BY <2>1, SwapInit
<1>2. SwapInv /\ [Next]_vars => SwapInv'
  BY SwapNext
<1>3. SwapInv /\ RefRest /\ [Next]_vars => RefRest'
  BY RefRestNext
<1>4. SwapInv /\ RefRest => TypeOK
  BY DEF SwapInv, RefTyped, SwapOf, RefRest, RefAt, TypeOK
<1> QED
  BY <1>1, <1>2, <1>3, <1>4, PTL DEF Spec
=============================================================================
