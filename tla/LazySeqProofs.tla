---------------------------- MODULE LazySeqProofs ----------------------------
(***************************************************************************)
(* The body of a lazy cell returns once, for any number of goroutines that *)
(* enter a chain of any length at any of its cells, whatever bodies panic; *)
(* and goroutines that share one head, no body panicking, all find the seq *)
(* behind it.                                                              *)
(***************************************************************************)
EXTENDS LazySeq, FiniteSetTheorems, TLAPS

\* A goroutine runs a body only of a cell that still has one, under its lock.
BodyAt(p) ==
  /\ pc[p] \in {"realize", "body"} => ls[p] \in Cells
  /\ pc[p] = "body" => fn[ls[p]] /\ realizeMtx[ls[p]] = p

\* A cell that still has its body has not seen it return.
CellAt(c) == (fn[c] => runs[c] = 0) /\ runs[c] \in 0..1

\* The inductive invariant behind BodyOnce.
IInv ==
  /\ fn = [c \in Cells |-> fn[c]] /\ runs = [c \in Cells |-> runs[c]]
  /\ realizeMtx = [c \in Cells |-> realizeMtx[c]]
  /\ pc = [p \in Procs |-> pc[p]] /\ ls = [p \in Procs |-> ls[p]]
  /\ cell \in [Procs -> Cells]
  /\ \A p \in Procs : BodyAt(p)
  /\ \A c \in Cells : CellAt(c)

USE LazySeqAssumption

\* It holds initially.
LEMMA IInvInit == Init => IInv
BY DEF Init, IInv, BodyAt, CellAt, Cells

\* A step that runs no body and takes or leaves no realizeMtx preserves it.
LEMMA Quiet ==
  ASSUME IInv, NEW p \in Procs, UNCHANGED <<fn, runs, realizeMtx>>,
         cell' \in [Procs -> Cells],
         pc' = [pc EXCEPT ![p] = pc'[p]], ls' = [ls EXCEPT ![p] = ls'[p]],
         pc'[p] # "body", pc'[p] = "realize" => ls'[p] \in Cells
  PROVE  IInv'
<1>1. ASSUME NEW q \in Procs PROVE BodyAt(q)'
  BY DEF IInv, BodyAt
<1> QED
  BY <1>1 DEF IInv, CellAt

\* Every step preserves it.
LEMMA IInvNext == IInv /\ [Next]_vars => IInv'
<1> SUFFICES ASSUME IInv, [Next]_vars PROVE IInv'
  OBVIOUS
<1>1. ASSUME NEW p \in Procs, NEW c \in Roots, Seq(p, c) PROVE IInv'
  BY <1>1, Quiet DEF Seq, IInv, Cells
<1>2. ASSUME NEW p \in Procs, SeqLock(p) PROVE IInv'
  BY <1>2, Quiet DEF SeqLock, IInv
<1>3. ASSUME NEW p \in Procs, Realize(p) PROVE IInv'
  <2>1. CASE fn[ls[p]]
    <3>1. /\ ls[p] \in Cells /\ realizeMtx[ls[p]] = NoProc
          /\ realizeMtx' = [realizeMtx EXCEPT ![ls[p]] = p]
          /\ pc' = [pc EXCEPT ![p] = "body"]
          /\ UNCHANGED <<fn, ls, cell, runs>>
      BY <1>3, <2>1 DEF Realize, IInv, BodyAt
    <3>2. ASSUME NEW q \in Procs PROVE BodyAt(q)'
      <4>1. CASE q = p
        BY <2>1, <3>1, <4>1 DEF IInv, BodyAt
      <4>2. CASE q # p
        BY <3>1, <4>2 DEF IInv, BodyAt
      <4> QED
        BY <4>1, <4>2
    <3> QED
      BY <3>1, <3>2 DEF IInv, CellAt
  <2>2. CASE ~fn[ls[p]]
    BY <1>3, <2>2, Quiet DEF Realize, Realized, IInv
  <2> QED
    BY <2>1, <2>2
<1>4. ASSUME NEW p \in Procs, BodyReturn(p) PROVE IInv'
  <2> DEFINE c == ls[p]
  <2>1. /\ c \in Cells /\ fn[c] /\ realizeMtx[c] = p /\ runs[c] = 0
        /\ fn' = [fn EXCEPT ![c] = FALSE] /\ runs' = [runs EXCEPT ![c] = @ + 1]
        /\ realizeMtx' = [realizeMtx EXCEPT ![c] = NoProc]
        /\ UNCHANGED cell
    BY <1>4 DEF BodyReturn, IInv, BodyAt, CellAt
  <2>2. /\ pc' = [pc EXCEPT ![p] = pc'[p]] /\ pc'[p] \in {"unwrap", "walk"}
        /\ ls' = [ls EXCEPT ![p] = ls'[p]]
    BY <1>4 DEF BodyReturn, Realized, IInv
  <2>3. ASSUME NEW q \in Procs PROVE BodyAt(q)'
    <3>1. CASE q = p
      BY <2>2, <3>1 DEF BodyAt
    <3>2. CASE q # p
      <4>1. pc'[q] = pc[q] /\ ls'[q] = ls[q] /\ BodyAt(q)
        BY <2>2, <3>2 DEF IInv
      <4>2. pc[q] = "body" => ls[q] # c
        BY <2>1, <4>1, <3>2 DEF BodyAt
      <4> QED
        BY <2>1, <4>1, <4>2 DEF BodyAt, IInv
    <3> QED
      BY <3>1, <3>2
  <2>4. ASSUME NEW d \in Cells PROVE CellAt(d)'
    BY <2>1 DEF IInv, CellAt
  <2> QED
    BY <2>1, <2>2, <2>3, <2>4 DEF IInv
<1>5. ASSUME NEW p \in Procs, BodyPanic(p) PROVE IInv'
  <2>1. /\ ls[p] \in Cells /\ realizeMtx[ls[p]] = p
        /\ realizeMtx' = [realizeMtx EXCEPT ![ls[p]] = NoProc]
        /\ pc' = [pc EXCEPT ![p] = "idle"] /\ UNCHANGED <<fn, runs, cell, ls>>
    BY <1>5 DEF BodyPanic, IInv, BodyAt
  <2>2. ASSUME NEW q \in Procs PROVE BodyAt(q)'
    <3>1. CASE q = p
      BY <2>1, <3>1 DEF IInv, BodyAt
    <3>2. CASE q # p
      <4>1. pc'[q] = pc[q] /\ BodyAt(q)
        BY <2>1, <3>2 DEF IInv
      <4>2. pc[q] = "body" => ls[q] # ls[p]
        BY <2>1, <3>2, <4>1 DEF BodyAt
      <4> QED
        BY <2>1, <4>1, <4>2 DEF IInv, BodyAt
    <3> QED
      BY <3>1, <3>2
  <2> QED
    BY <2>1, <2>2 DEF IInv, CellAt
<1>6. ASSUME NEW p \in Procs, Unwrap(p) PROVE IInv'
  BY <1>6, Quiet DEF Unwrap, Return, IInv
<1>7. ASSUME NEW p \in Procs, Walk(p) PROVE IInv'
  BY <1>7, Quiet DEF Walk, Return, IInv
<1>8. CASE UNCHANGED vars
  BY <1>8 DEF vars, history, IInv, BodyAt, CellAt
<1> QED
  BY <1>1, <1>2, <1>3, <1>4, <1>5, <1>6, <1>7, <1>8 DEF Next, Step

\* No body of a lazy cell returns twice: realizeMtx and the clearing of s.fn see
\* to it (lazyseq.go:97-109).
THEOREM BodyReturnsOnce == Spec => []BodyOnce
<1>1. IInv => BodyOnce
  BY DEF IInv, CellAt, BodyOnce
<1> QED
  BY <1>1, IInvInit, IInvNext, PTL DEF Spec

\* Type correctness needs to know where a goroutine runs a body.
LEMMA TypeNext == TypeOK /\ IInv /\ [Next]_vars => TypeOK'
<1> SUFFICES ASSUME TypeOK, IInv, [Next]_vars PROVE TypeOK'
  OBVIOUS
<1> USE DEF TypeOK
<1>0. /\ Nil \in Values /\ Val \in Values /\ Nil \in {Nil, Val} /\ Val \in {Nil, Val}
      /\ \A c \in Cells : c \in Values /\ c + 1 \in Values
      /\ \A v \in Values : v \in Cells \/ v \in {Nil, Val}
  BY DEF Values, Cells, Nil, Val
<1>1. ASSUME NEW p \in Procs, NEW c \in Roots, Seq(p, c) PROVE TypeOK'
  <2>1. c \in Cells BY DEF Cells
  <2>2. ncalls' \in [Procs -> 0..MaxCalls] BY <1>1 DEF Seq
  <2> QED BY <1>1, <2>1, <2>2 DEF Seq
<1>2. ASSUME NEW p \in Procs, SeqLock(p) PROVE TypeOK'
  BY <1>0, <1>2 DEF SeqLock, history
<1>3. ASSUME NEW p \in Procs, Realize(p) PROVE TypeOK'
  <2>1. ls[p] \in Cells BY <1>3 DEF Realize, IInv, BodyAt
  <2>2. (IF sv[ls[p]] # Nil THEN sv[ls[p]] ELSE seq[ls[p]]) \in Values BY <1>0, <2>1
  <2> QED BY <1>3, <2>1, <2>2 DEF Realize, Realized, history
<1>4. ASSUME NEW p \in Procs, BodyReturn(p) PROVE TypeOK'
  <2>1. ls[p] \in Cells /\ ls[p] + 1 \in Values BY <1>0, <1>4 DEF BodyReturn, IInv, BodyAt
  <2>2. runs' \in [Cells -> Nat] BY <1>4, <2>1 DEF BodyReturn
  <2> QED BY <1>4, <2>1, <2>2 DEF BodyReturn, Realized, history
<1>5. ASSUME NEW p \in Procs, BodyPanic(p) PROVE TypeOK'
  BY <1>5 DEF BodyPanic
<1>6. ASSUME NEW p \in Procs, Unwrap(p) PROVE TypeOK'
  BY <1>0, <1>6 DEF Unwrap, Return
<1>7. ASSUME NEW p \in Procs, Walk(p) PROVE TypeOK'
  BY <1>0, <1>7 DEF Walk, Return
<1>8. CASE UNCHANGED vars
  BY <1>8 DEF vars, history
<1> QED BY <1>1, <1>2, <1>3, <1>4, <1>5, <1>6, <1>7, <1>8 DEF Next, Step

\* The types of a chain: realize and the loop of Seq step only to cells of the chain,
\* and a cell's seq, once found, is the value behind it or nil (lazyseq.go:97-131).
THEOREM TypeCorrect == Spec => []TypeOK
<1>1. ASSUME Init PROVE TypeOK
  <2>1. 1 \in Cells /\ Nil \in Values /\ 0 \in 0..MaxCalls BY DEF Cells, Values, Nil
  <2> QED BY <1>1, <2>1 DEF Init, TypeOK
<1> QED BY <1>1, IInvInit, TypeNext, IInvNext, PTL DEF Spec
------------------------------------------------------------------------------
\* A goroutine holds the seqMtx of the cell whose Seq it runs.
Inside(p) == pc[p] \in {"realize", "body", "unwrap", "walk"}

\* A cell nobody has looked into, and one whose seq has been found.
Fresh(c) == fn[c] /\ sv[c] = Nil
Spent(c) == ~fn[c] /\ sv[c] = Nil /\ seq[c] = Val

OwnAt(p) ==
  /\ pc[p] # "idle" => cell[p] \in entered
  /\ Inside(p) => seqMtx[cell[p]] = p

\* How far the goroutine inside Seq of the head has come: it realizes the head,
\* unwraps it, or is on its way down the cells behind it.
WalkAt(p) ==
  Inside(p) =>
    \/ pc[p] = "realize" /\ ls[p] = cell[p] /\ (Fresh(cell[p]) \/ Spent(cell[p]))
    \/ pc[p] = "body" /\ ls[p] = cell[p] /\ Fresh(cell[p])
    \/ pc[p] = "unwrap" /\ ~fn[cell[p]] /\ (sv[cell[p]] = cell[p] + 1 \/ Spent(cell[p]))
    \/ /\ pc[p] \in {"realize", "body", "walk"} /\ ls[p] \in cell[p] + 1..N + 1
       /\ ~fn[cell[p]] /\ sv[cell[p]] = Nil

\* A cell behind the head keeps what its body returned; the head, when nobody is
\* inside its Seq, is untouched or knows its seq.
SvAt(c) ==
  /\ c \notin entered => Fresh(c) \/ (~fn[c] /\ sv[c] = c + 1)
  /\ c \in entered /\ (\A p \in Procs : Inside(p) => cell[p] # c) => Fresh(c) \/ Spent(c)

OneHead == (\A c, d \in entered : c = d) /\ ~panicked

\* The inductive invariant behind OneHeadAgrees.
HeadInv ==
  OneHead => /\ \A p \in Procs : OwnAt(p) /\ WalkAt(p)
             /\ \A c \in Cells : SvAt(c)
             /\ entered = {} => \A c \in Cells : fn[c]
             /\ Nil \notin got

\* A step of the only goroutine inside.
LEMMA AloneInside ==
  ASSUME TypeOK, OneHead, HeadInv, NEW p \in Procs, Inside(p)
  PROVE  /\ cell[p] \in entered /\ entered = {cell[p]}
         /\ \A q \in Procs : q # p => ~Inside(q)
<1>1. \A q \in Procs : OwnAt(q) BY DEF HeadInv
<1>2. cell[p] \in entered /\ seqMtx[cell[p]] = p BY <1>1 DEF OwnAt, Inside
<1>3. entered = {cell[p]} BY <1>2 DEF OneHead
<1>4. ASSUME NEW q \in Procs, q # p, Inside(q) PROVE FALSE
  <2>1. cell[q] \in entered /\ seqMtx[cell[q]] = q BY <1>1, <1>4 DEF OwnAt, Inside
  <2> QED BY <1>2, <1>3, <1>4, <2>1
<1> QED BY <1>2, <1>3, <1>4

\* What such a step must see to: where it leaves itself and the cells.
LEMMA InsideStep ==
  ASSUME TypeOK, OneHead, HeadInv, NEW p \in Procs, Inside(p), cell' = cell, entered' = entered,
         pc' = [pc EXCEPT ![p] = pc'[p]], seqMtx' = [seqMtx EXCEPT ![cell[p]] = seqMtx'[cell[p]]],
         pc'[p] # "idle" => Inside(p)' /\ seqMtx'[cell[p]] = p /\ WalkAt(p)',
         pc'[p] = "idle" => Fresh(cell[p])' \/ Spent(cell[p])',
         \A c \in Cells : c # cell[p] => Fresh(c)' \/ (~fn'[c] /\ sv'[c] = c + 1),
         Nil \notin got'
  PROVE  HeadInv'
<1> SUFFICES /\ \A q \in Procs : OwnAt(q)' /\ WalkAt(q)'
             /\ \A c \in Cells : SvAt(c)'
  BY AloneInside DEF HeadInv
<1>1. /\ entered = {cell[p]} /\ cell[p] \in Cells
      /\ \A q \in Procs : q # p => ~Inside(q)
  BY AloneInside DEF TypeOK
<1>2. \A q \in Procs : q # p => pc'[q] = pc[q] /\ ~Inside(q)' BY <1>1 DEF Inside, TypeOK
<1>3. ASSUME NEW q \in Procs PROVE OwnAt(q)' /\ WalkAt(q)'
  <2>1. CASE q = p
    <3>1. pc'[p] = "idle" => ~Inside(p)' BY DEF Inside
    <3> QED BY <1>1, <2>1, <3>1 DEF OwnAt, WalkAt
  <2>2. CASE q # p
    <3>1. pc'[q] # "idle" => cell[q] \in entered BY <1>2, <2>2 DEF HeadInv, OwnAt
    <3> QED BY <1>2, <2>2, <3>1 DEF OwnAt, WalkAt
  <2> QED BY <2>1, <2>2
<1>4. ASSUME NEW c \in Cells PROVE SvAt(c)'
  <2>1. CASE c # cell[p] BY <1>1, <2>1 DEF SvAt
  <2>2. CASE c = cell[p]
    <3>1. pc'[p] # "idle" => ~(\A q \in Procs : Inside(q)' => cell'[q] # c) BY <2>2
    <3> QED BY <1>1, <2>2, <3>1 DEF SvAt
  <2> QED BY <2>1, <2>2
<1> QED BY <1>3, <1>4

LEMMA HeadNext == TypeOK /\ IInv /\ HeadInv /\ [Next]_vars => HeadInv'
<1> SUFFICES ASSUME TypeOK, IInv, HeadInv, [Next]_vars, OneHead' PROVE HeadInv'
  BY DEF HeadInv
<1> USE DEF TypeOK
<1>0. /\ N \in Nat /\ Nil = 0 /\ Val = N + 1 /\ Cells = 1..N BY DEF Nil, Val, Cells
<1>1. OneHead
  <2>1. entered \subseteq entered' /\ (panicked => panicked')
    BY DEF Next, Step, Seq, SeqLock, Realize, BodyReturn, BodyPanic, Unwrap, Walk, vars, history
  <2> QED BY <2>1 DEF OneHead
<1>2. /\ \A p \in Procs : OwnAt(p) /\ WalkAt(p)
      /\ \A c \in Cells : SvAt(c)
      /\ entered = {} => \A c \in Cells : fn[c]
      /\ Nil \notin got
  BY <1>1 DEF HeadInv
<1>3. ASSUME NEW p \in Procs, NEW c \in Roots, Seq(p, c) PROVE HeadInv'
  <2>1. /\ pc[p] = "idle" /\ pc' = [pc EXCEPT ![p] = "lock"] /\ cell' = [cell EXCEPT ![p] = c]
        /\ entered' = entered \cup {c} /\ UNCHANGED <<fn, sv, seq, seqMtx, ls, got>>
    BY <1>3 DEF Seq
  <2>2. c \in Cells /\ entered' = {c}
    <3>1. c \in Cells BY <1>0
    <3>2. \A d \in entered' : d = c BY <2>1 DEF OneHead
    <3> QED BY <2>1, <3>1, <3>2
  <2>3. \A q \in Procs : Inside(q)' <=> Inside(q) BY <2>1 DEF Inside
  <2>4. \A q \in Procs : Inside(q) => q # p BY <2>1 DEF Inside
  <2>5. ASSUME NEW q \in Procs PROVE OwnAt(q)' /\ WalkAt(q)'
    <3>1. CASE q = p BY <2>1, <2>3, <2>4, <3>1 DEF OwnAt, WalkAt
    <3>2. CASE q # p
      <4>1. OwnAt(q) /\ WalkAt(q) /\ pc'[q] = pc[q] /\ cell'[q] = cell[q] BY <1>2, <2>1, <3>2
      <4> QED BY <2>1, <4>1 DEF OwnAt, WalkAt, Inside, Fresh, Spent
    <3> QED BY <3>1, <3>2
  <2>6. ASSUME NEW d \in Cells PROVE SvAt(d)'
    <3>1. CASE entered = {}
      <4>1. Fresh(d) BY <1>2, <3>1 DEF SvAt, Fresh
      <4> QED BY <2>1, <4>1 DEF SvAt, Fresh
    <3>2. CASE entered # {}
      <4>1. entered' = entered BY <2>1, <2>2, <3>2
      <4>2. ASSUME \A q \in Procs : Inside(q)' => cell'[q] # d
            PROVE  \A q \in Procs : Inside(q) => cell[q] # d
        BY <2>1, <2>3, <2>4, <4>2
      <4> QED BY <1>2, <2>1, <4>1, <4>2 DEF SvAt, Fresh, Spent
    <3> QED BY <3>1, <3>2
  <2> QED BY <1>2, <2>1, <2>2, <2>5, <2>6 DEF HeadInv
<1>4. ASSUME NEW p \in Procs, SeqLock(p) PROVE HeadInv'
  <2> DEFINE h == cell[p]
  <2>1. /\ pc[p] = "lock" /\ pc' = [pc EXCEPT ![p] = "realize"] /\ cell' = cell
        /\ seqMtx[h] = NoProc /\ seqMtx' = [seqMtx EXCEPT ![h] = p]
        /\ ls' = [ls EXCEPT ![p] = h]
        /\ entered' = entered /\ UNCHANGED <<fn, sv, seq, got>>
    BY <1>4 DEF SeqLock, history
  <2>2. h \in entered /\ entered = {h} /\ h \in Cells
    <3>1. h \in entered /\ h \in Cells BY <1>2, <2>1 DEF OwnAt
    <3>2. \A d \in entered : d = h BY <1>1, <3>1 DEF OneHead
    <3> HIDE DEF h, TypeOK
    <3> QED BY <3>1, <3>2
  <2>3. \A q \in Procs : ~Inside(q)
    <3> SUFFICES ASSUME NEW q \in Procs, Inside(q) PROVE FALSE OBVIOUS
    <3>1. cell[q] = h /\ seqMtx[cell[q]] = q BY <1>2, <2>2 DEF OwnAt, Inside
    <3> QED BY <2>1, <3>1
  <2>4. Fresh(h) \/ Spent(h) BY <1>2, <2>2, <2>3 DEF SvAt
  <2>5. Inside(p)' /\ \A q \in Procs : q # p => ~Inside(q)' BY <2>1, <2>3 DEF Inside
  <2>6. ASSUME NEW q \in Procs PROVE OwnAt(q)' /\ WalkAt(q)'
    <3>1. CASE q = p
      BY <2>1, <2>2, <2>4, <3>1 DEF OwnAt, WalkAt, Fresh, Spent
    <3>2. CASE q # p BY <1>2, <2>1, <2>5, <3>2 DEF OwnAt, WalkAt
    <3> QED BY <3>1, <3>2
  <2>7. ASSUME NEW d \in Cells PROVE SvAt(d)'
    <3>1. CASE d = h BY <2>1, <2>2, <2>5, <3>1 DEF SvAt
    <3>2. CASE d # h BY <1>2, <2>1, <2>2, <3>2 DEF SvAt, Fresh
    <3> QED BY <3>1, <3>2
  <2> QED BY <1>2, <2>1, <2>2, <2>6, <2>7 DEF HeadInv
<1>5. ASSUME NEW p \in Procs, Inside(p)
      PROVE  /\ cell[p] \in Cells /\ WalkAt(p) /\ seqMtx[cell[p]] = p
             /\ \A c \in Cells : c # cell[p] => Fresh(c) \/ (~fn[c] /\ sv[c] = c + 1)
  <2>1. entered = {cell[p]} BY <1>1, <1>5, AloneInside
  <2> QED BY <1>2, <1>5, <2>1 DEF SvAt, OwnAt
<1>6. ASSUME NEW p \in Procs, Realize(p) PROVE HeadInv'
  <2> DEFINE h == cell[p]
  <2>1. Inside(p) /\ pc[p] = "realize" BY <1>6 DEF Realize, Inside
  <2>2. /\ UNCHANGED <<cell, entered, seqMtx, fn, sv, seq, got>>
        /\ pc' = [pc EXCEPT ![p] = pc'[p]] /\ pc'[p] \in {"body", "unwrap", "walk"}
    BY <1>6 DEF Realize, Realized, history
  <2>3. ls[p] \in Cells BY <2>1 DEF IInv, BodyAt
  <2>4. WalkAt(p)'
    <3>1. \/ ls[p] = h /\ (Fresh(h) \/ Spent(h))
          \/ ls[p] \in h + 1..N + 1 /\ ~fn[h] /\ sv[h] = Nil
      BY <1>5, <2>1 DEF WalkAt
    <3>2. CASE fn[ls[p]]
      <4>1. pc'[p] = "body" /\ ls' = ls BY <1>6, <3>2 DEF Realize
      <4> QED BY <2>2, <3>1, <3>2, <4>1 DEF WalkAt, Fresh, Spent
    <3>3. CASE ~fn[ls[p]] /\ ls[p] = h
      <4>1. pc'[p] = "unwrap" BY <1>6, <3>3 DEF Realize, Realized
      <4>2. Spent(h)
        <5>1. h \in Cells BY <1>5, <2>1
        <5>2. ~(h \in h + 1..N + 1) BY <1>0, <5>1
        <5> QED BY <3>1, <3>3, <5>2 DEF Fresh
      <4> QED BY <2>2, <4>1, <4>2 DEF WalkAt, Spent
    <3>4. CASE ~fn[ls[p]] /\ ls[p] # h
      <4>1. sv[ls[p]] = ls[p] + 1 BY <1>5, <2>1, <2>3, <3>4 DEF Fresh
      <4>2. sv[ls[p]] # Nil BY <1>0, <2>3, <4>1
      <4>3. pc'[p] = "walk" /\ ls'[p] = ls[p] + 1
        BY <1>6, <3>4, <4>1, <4>2 DEF Realize, Realized
      <4>4. h \in Cells BY <1>5, <2>1
      <4>5. ls'[p] \in h + 1..N + 1 BY <1>0, <2>3, <3>1, <3>4, <4>3, <4>4
      <4> QED BY <2>2, <3>1, <3>4, <4>3, <4>5 DEF WalkAt
    <3> QED BY <3>2, <3>3, <3>4
  <2>5. Inside(p)' /\ pc'[p] # "idle" BY <2>2 DEF Inside
  <2>6. \A c \in Cells : c # h => Fresh(c)' \/ (~fn'[c] /\ sv'[c] = c + 1)
    BY <1>5, <2>1, <2>2 DEF Fresh
  <2>7. seqMtx' = [seqMtx EXCEPT ![h] = seqMtx'[h]] /\ seqMtx'[h] = p BY <1>5, <2>1, <2>2
  <2> QED BY <1>1, <1>2, <2>1, <2>2, <2>4, <2>5, <2>6, <2>7, InsideStep
<1>7. ASSUME NEW p \in Procs, BodyReturn(p) PROVE HeadInv'
  <2> DEFINE h == cell[p]
             c == ls[p]
  <2>1. Inside(p) /\ pc[p] = "body" BY <1>7 DEF BodyReturn, Inside
  <2>2. c \in Cells /\ fn[c] BY <2>1 DEF IInv, BodyAt
  <2>3. h \in Cells BY <1>5, <2>1
  <2>4. /\ UNCHANGED <<cell, entered, seqMtx, seq, got>>
        /\ sv' = [sv EXCEPT ![c] = c + 1] /\ fn' = [fn EXCEPT ![c] = FALSE]
        /\ pc' = [pc EXCEPT ![p] = pc'[p]] /\ pc'[p] \in {"unwrap", "walk"}
    BY <1>7 DEF BodyReturn, Realized, history
  <2>5. \/ c = h /\ Fresh(h)
        \/ c \in h + 1..N + 1 /\ ~fn[h] /\ sv[h] = Nil
    BY <1>5, <2>1 DEF WalkAt
  <2>6. WalkAt(p)'
    <3>1. CASE c = h
      <4>1. pc'[p] = "unwrap" BY <1>7, <3>1 DEF BodyReturn, Realized
      <4>2. ~fn'[h] /\ sv'[h] = h + 1 BY <2>3, <2>4, <3>1
      <4> QED BY <2>4, <4>1, <4>2 DEF WalkAt
    <3>2. CASE c # h
      <4>1. pc'[p] = "walk" /\ ls'[p] = c + 1 BY <1>7, <3>2 DEF BodyReturn, Realized
      <4>2. c + 1 \in h + 1..N + 1 BY <1>0, <2>2, <2>3, <2>5, <3>2
      <4>3. ~fn'[h] /\ sv'[h] = Nil BY <2>3, <2>4, <2>5, <3>2
      <4> QED BY <2>4, <4>1, <4>2, <4>3 DEF WalkAt
    <3> QED BY <3>1, <3>2
  <2>7. Inside(p)' /\ pc'[p] # "idle" BY <2>4 DEF Inside
  <2>8. \A d \in Cells : d # h => Fresh(d)' \/ (~fn'[d] /\ sv'[d] = d + 1)
    BY <1>5, <2>1, <2>2, <2>4 DEF Fresh
  <2>9. seqMtx' = [seqMtx EXCEPT ![h] = seqMtx'[h]] /\ seqMtx'[h] = p BY <1>5, <2>1, <2>4
  <2> HIDE DEF c
  <2> QED BY <1>1, <1>2, <2>1, <2>4, <2>6, <2>7, <2>8, <2>9, InsideStep
<1>8. ASSUME NEW p \in Procs, BodyPanic(p) PROVE HeadInv'
  BY <1>8 DEF BodyPanic, HeadInv, OneHead
<1>9. ASSUME NEW p \in Procs, Unwrap(p) PROVE HeadInv'
  <2> DEFINE h == cell[p]
  <2>1. Inside(p) /\ pc[p] = "unwrap" BY <1>9 DEF Unwrap, Inside
  <2>2. h \in Cells /\ ~fn[h] /\ (sv[h] = h + 1 \/ Spent(h)) BY <1>5, <2>1 DEF WalkAt
  <2>3. UNCHANGED <<cell, entered, fn, seq>> BY <1>9 DEF Unwrap
  <2>4. CASE sv[h] = Nil
    <3>1. Spent(h) /\ seq[h] # Nil BY <1>0, <2>2, <2>4 DEF Spent
    <3>2. /\ sv' = sv /\ seqMtx' = [seqMtx EXCEPT ![h] = NoProc]
          /\ pc' = [pc EXCEPT ![p] = "idle"] /\ got' = got \cup {seq[h]}
      BY <1>9, <2>4 DEF Unwrap, Return
    <3>3. /\ pc'[p] = "idle" /\ pc' = [pc EXCEPT ![p] = pc'[p]]
          /\ seqMtx' = [seqMtx EXCEPT ![h] = seqMtx'[h]]
      BY <2>2, <3>2
    <3>4. Spent(h)' /\ Nil \notin got' BY <1>2, <2>3, <3>1, <3>2 DEF Spent
    <3>5. \A c \in Cells : c # h => Fresh(c)' \/ (~fn'[c] /\ sv'[c] = c + 1)
      BY <1>5, <2>1, <2>3, <3>2 DEF Fresh
    <3> QED BY <1>1, <2>1, <2>3, <3>3, <3>4, <3>5, InsideStep
  <2>5. CASE sv[h] # Nil
    <3>1. sv[h] = h + 1 BY <2>2, <2>5 DEF Spent
    <3>2. /\ sv' = [sv EXCEPT ![h] = Nil] /\ ls'[p] = h + 1
          /\ pc' = [pc EXCEPT ![p] = "walk"] /\ UNCHANGED <<seqMtx, got>>
      BY <1>9, <2>5, <3>1 DEF Unwrap
    <3>3. h + 1 \in h + 1..N + 1 BY <1>0, <2>2
    <3>4. WalkAt(p)' BY <2>2, <2>3, <3>2, <3>3 DEF WalkAt
    <3>5. /\ pc'[p] = "walk" /\ pc' = [pc EXCEPT ![p] = pc'[p]] /\ Inside(p)'
          /\ seqMtx' = [seqMtx EXCEPT ![h] = seqMtx'[h]] /\ seqMtx'[h] = p
      BY <1>5, <2>1, <2>2, <3>2 DEF Inside
    <3>6. \A c \in Cells : c # h => Fresh(c)' \/ (~fn'[c] /\ sv'[c] = c + 1)
      BY <1>5, <2>1, <2>3, <3>2 DEF Fresh
    <3> QED BY <1>1, <1>2, <2>1, <2>3, <3>2, <3>4, <3>5, <3>6, InsideStep
  <2> QED BY <2>4, <2>5
<1>10. ASSUME NEW p \in Procs, Walk(p) PROVE HeadInv'
  <2> DEFINE h == cell[p]
  <2>1. Inside(p) /\ pc[p] = "walk" BY <1>10 DEF Walk, Inside
  <2>2. /\ h \in Cells /\ ls[p] \in h + 1..N + 1 /\ ~fn[h] /\ sv[h] = Nil
    BY <1>5, <2>1 DEF WalkAt
  <2>3. UNCHANGED <<cell, entered, fn, sv, ls>> BY <1>10 DEF Walk
  <2>4. \A c \in Cells : c # h => Fresh(c)' \/ (~fn'[c] /\ sv'[c] = c + 1)
    BY <1>5, <2>1, <2>3 DEF Fresh
  <2>5. CASE ls[p] \in Cells
    <3>1. pc' = [pc EXCEPT ![p] = "realize"] /\ UNCHANGED <<seqMtx, got>>
      BY <1>10, <2>5 DEF Walk
    <3>2. /\ pc'[p] = "realize" /\ pc' = [pc EXCEPT ![p] = pc'[p]] /\ Inside(p)'
          /\ seqMtx' = [seqMtx EXCEPT ![h] = seqMtx'[h]] /\ seqMtx'[h] = p
      BY <1>5, <2>1, <2>2, <3>1 DEF Inside
    <3>3. WalkAt(p)' BY <2>2, <2>3, <3>2 DEF WalkAt
    <3> QED BY <1>1, <1>2, <2>1, <2>3, <2>4, <3>1, <3>2, <3>3, InsideStep
  <2>6. CASE ls[p] \notin Cells
    <3>1. ls[p] = Val /\ ls[p] # Nil BY <1>0, <2>2, <2>6
    <3>2. /\ seq' = [seq EXCEPT ![h] = ls[p]] /\ seqMtx' = [seqMtx EXCEPT ![h] = NoProc]
          /\ pc' = [pc EXCEPT ![p] = "idle"] /\ got' = got \cup {ls[p]}
      BY <1>10, <2>6 DEF Walk, Return
    <3>3. /\ pc'[p] = "idle" /\ pc' = [pc EXCEPT ![p] = pc'[p]]
          /\ seqMtx' = [seqMtx EXCEPT ![h] = seqMtx'[h]]
      BY <2>2, <3>2
    <3>4. Spent(h)' /\ Nil \notin got' BY <1>2, <2>2, <2>3, <3>1, <3>2 DEF Spent
    <3> QED BY <1>1, <2>1, <2>3, <2>4, <3>3, <3>4, InsideStep
  <2> QED BY <2>5, <2>6
<1>11. CASE UNCHANGED vars
  BY <1>11 DEF vars, history, HeadInv, OneHead, OwnAt, WalkAt, SvAt, Inside, Fresh, Spent
<1> QED BY <1>3, <1>4, <1>6, <1>7, <1>8, <1>9, <1>10, <1>11 DEF Next, Step

\* Goroutines that enter a chain at its head alone all find the seq at its end, if
\* no body panics: whoever is first empties s.sv under seqMtx and leaves s.seq for
\* the rest (lazyseq.go:111-131).
THEOREM HeadsAgree == Spec => []OneHeadAgrees
<1>1. Init => HeadInv
  BY DEF Init, HeadInv, OwnAt, WalkAt, SvAt, Inside, Fresh
<1>2. ASSUME TypeOK, HeadInv PROVE OneHeadAgrees
  <2> SUFFICES ASSUME Cardinality(entered) <= 1, ~panicked PROVE Nil \notin got
    BY DEF OneHeadAgrees
  <2>1. IsFiniteSet(1..N) BY FS_Interval
  <2>2. IsFiniteSet(entered)
    <3>1. entered \subseteq 1..N BY <1>2 DEF TypeOK
    <3> QED BY <2>1, <3>1, FS_Subset
  <2>3. Cardinality(entered) \in Nat BY <2>2, FS_CardinalityType
  <2>4. Cardinality(entered) = 0 \/ Cardinality(entered) = 1 BY <2>3
  <2>5. entered = {} \/ \E x : entered = {x} BY <2>2, <2>4, FS_EmptySet, FS_Singleton
  <2>6. OneHead BY <2>5 DEF OneHead
  <2> QED BY <1>2, <2>6 DEF HeadInv
<1> QED BY <1>1, <1>2, IInvInit, IInvNext, TypeCorrect, HeadNext, PTL DEF Spec
==============================================================================
