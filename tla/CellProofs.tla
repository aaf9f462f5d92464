----------------------------- MODULE CellProofs -----------------------------
(***************************************************************************)
(* The cells goroutines settle once, for any number of goroutines.         *)
(*   Future: it implements WriteOnce: its body and its cancellers settle   *)
(*     it once and every deref meets that outcome.                         *)
(*   Delay: its body is not run again once it has returned, and the derefs *)
(*     that went through the mutex agree, although the fields are tested   *)
(*     outside the mutex.                                                  *)
(***************************************************************************)
EXTENDS Future, Delay, TLAPS
-----------------------------------------------------------------------------
(***************************************************************************)
(* Future.                                                                 *)
(***************************************************************************)
\* Inside f.settle.Do: only one goroutine, only before f.done is closed.
InsideAt(p) ==
  /\ pc[p] \in {"mark", "write", "close"} <=> inside = p
  /\ pc[p] \in {"enter", "mark", "write", "close"} => out[p] \in Outcomes
  /\ pc[p] = "close" => res = out[p]
  /\ pc[p] = "idle" => p # Worker
  /\ p # Worker => out[p] = "cancel"
  /\ pc[p] \in {"write", "close"} => (cancelled <=> p # Worker)
  /\ pc[p] = "mark" => p # Worker /\ ~cancelled

\* What a Future state satisfies between any two steps.
FutureInv ==
  /\ \A p \in Procs : InsideAt(p)
  /\ inside \in Procs \cup {NoProc}
  /\ pc = [p \in Procs |-> pc[p]] /\ out = [p \in Procs |-> out[p]]
  /\ inside # NoProc => ~done /\ once
  /\ once /\ inside = NoProc => done
  /\ ~once => ~done /\ ~cancelled
  /\ ~done => won = {} /\ beaten = {}
  /\ CancelVerdict
  /\ done => res \in Outcomes

USE DEF Procs, Outcomes

\* The invariant holds when AgentSubmit has started the body.
LEMMA FutureInit == Init => FutureInv
<1> SUFFICES ASSUME Init PROVE FutureInv
  OBVIOUS
<1>1. ASSUME NEW p \in Procs PROVE InsideAt(p)
  BY FutureAssumption DEF Init, InsideAt
<1>2. CancelVerdict
  BY DEF Init, CancelVerdict
<1> QED
  BY <1>1, <1>2 DEF Init, FutureInv

\* It is preserved by every step of the body, the cancellers and the derefs.
LEMMA FutureNext == FutureInv /\ [Next]_vars => FutureInv'
<1> SUFFICES ASSUME FutureInv, [Next]_vars PROVE FutureInv'
  OBVIOUS
<1> USE FutureAssumption
<1>1. CASE BodyEnd
  BY <1>1 DEF BodyEnd, FutureInv, InsideAt, CancelVerdict
<1>2. ASSUME NEW p \in Procs, SettleDo(p) PROVE FutureInv'
  BY <1>2 DEF SettleDo, FutureInv, InsideAt, CancelVerdict
<1>3. ASSUME NEW p \in Procs, SetCancelled(p) PROVE FutureInv'
  BY <1>3 DEF SetCancelled, FutureInv, InsideAt, CancelVerdict
<1>4. ASSUME NEW p \in Procs, WriteRes(p) PROVE FutureInv'
  BY <1>4 DEF WriteRes, FutureInv, InsideAt, CancelVerdict
<1>5. ASSUME NEW p \in Procs, CloseDone(p) PROVE FutureInv'
  <2>1. \A q \in Procs : InsideAt(q)'
    BY <1>5 DEF CloseDone, FutureInv, InsideAt
  <2>2. ~done /\ won = {} /\ res = out[p] /\ (cancelled <=> p # Worker)
    BY <1>5 DEF CloseDone, FutureInv, InsideAt
  <2>3. won' = IF p = Worker THEN {} ELSE {p}
    BY <1>5, <2>2 DEF CloseDone
  <2>4. CancelVerdict'
    BY <1>5, <2>2, <2>3 DEF CloseDone, FutureInv, InsideAt, CancelVerdict
  <2> QED
    BY <1>5, <2>1, <2>4 DEF CloseDone, FutureInv, InsideAt
<1>6. ASSUME NEW p \in Clients, Cancel(p) PROVE FutureInv'
  BY <1>6 DEF Cancel, Begin, FutureInv, InsideAt, CancelVerdict
<1>7. ASSUME NEW p \in Clients, Deref(p) PROVE FutureInv'
  BY <1>7 DEF Deref, Begin, FutureInv, InsideAt, CancelVerdict
<1>8. ASSUME NEW p \in Clients, DerefReturn(p) PROVE FutureInv'
  BY <1>8 DEF DerefReturn, FutureInv, InsideAt, CancelVerdict
<1>9. ASSUME NEW p \in Clients, DerefWithTimeout(p) PROVE FutureInv'
  BY <1>9 DEF DerefWithTimeout, FutureInv, InsideAt, CancelVerdict
<1>10. CASE UNCHANGED vars
  BY <1>10 DEF vars, FutureInv, InsideAt, CancelVerdict
<1> QED
  BY <1>1, <1>2, <1>3, <1>4, <1>5, <1>6, <1>7, <1>8, <1>9, <1>10 DEF Next, Settling

\* Every step of the future is a step of the write-once cell or leaves it alone:
\* closing f.done settles it, a deref that returns reads it.
LEMMA StepImplements ==
  FutureInv /\ [Next]_vars => [Once!Settle \/ Once!Read]_<<IF done THEN res ELSE "none", seen>>
<1> SUFFICES ASSUME FutureInv, [Next]_vars
             PROVE  [Once!Settle \/ Once!Read]_<<IF done THEN res ELSE "none", seen>>
  OBVIOUS
<1> USE FutureAssumption
<1>1. CASE BodyEnd
  BY <1>1 DEF BodyEnd
<1>2. ASSUME NEW p \in Procs, SettleDo(p) \/ SetCancelled(p)
      PROVE  UNCHANGED <<done, res, seen>>
  BY <1>2 DEF SettleDo, SetCancelled
<1>3. ASSUME NEW p \in Procs, WriteRes(p)
      PROVE  ~done /\ ~done' /\ seen' = seen
  BY <1>3 DEF WriteRes, FutureInv, InsideAt, CancelVerdict
<1>4. ASSUME NEW p \in Procs, CloseDone(p)
      PROVE  ~done /\ done' /\ res' \in Outcomes /\ seen' = seen
  BY <1>4 DEF CloseDone, FutureInv, InsideAt, CancelVerdict
<1>5. ASSUME NEW p \in Clients, Cancel(p) \/ Deref(p)
      PROVE  UNCHANGED <<done, res, seen>>
  BY <1>5 DEF Cancel, Deref
<1>6. ASSUME NEW p \in Clients, DerefReturn(p) \/ DerefWithTimeout(p)
      PROVE  /\ UNCHANGED <<done, res>>
             /\ seen' = seen \/ (done /\ seen' = seen \cup {res})
  BY <1>6 DEF DerefReturn, DerefWithTimeout
<1>7. CASE UNCHANGED vars
  BY <1>7 DEF vars
<1> QED
  BY <1>1, <1>2, <1>3, <1>4, <1>5, <1>6, <1>7
     DEF Next, Settling, Once!Settle, Once!Read, FutureInv

\* f.done closes once, on one outcome, and every deref, timed or not, meets it,
\* however the body and any number of future-cancels race (agent.go:103-130).
THEOREM ImplementsWriteOnce == Spec => IsWriteOnce
<1>1. Init => Once!Init
  BY DEF Init, Once!Init
<1> QED
  BY <1>1, FutureInit, FutureNext, StepImplements, PTL DEF Spec, IsWriteOnce, Once!Spec

\* What future-cancel answers is the truth for any number of goroutines: at most
\* one cancel wins, a winner leaves the future realized and cancelled, a loser
\* finds it realized (agent.go:115-130).
THEOREM CancelAnswers == Spec => []CancelVerdict
<1>1. FutureInv => CancelVerdict
  BY DEF FutureInv
<1> QED
  BY <1>1, FutureInit, FutureNext, PTL DEF Spec

\* What each variable holds.
FutureCell ==
  /\ res \in Outcomes \cup {"none"} /\ done \in BOOLEAN /\ cancelled \in BOOLEAN /\ once \in BOOLEAN
  /\ inside \in Procs \cup {NoProc}
FutureProcs ==
  /\ out \in [Procs -> Outcomes \cup {"none"}]
  /\ pc \in [Procs -> {"idle", "body", "enter", "mark", "write", "close", "deref", "timed", "finished"}]
  /\ ncalls \in [Clients -> 0..MaxCalls]
FuturePast == won \subseteq Clients /\ beaten \subseteq Clients /\ seen \subseteq Outcomes

LEMMA FutureParts == TypeOK <=> FutureCell /\ FutureProcs /\ FuturePast
BY DEF TypeOK, FutureCell, FutureProcs, FuturePast

\* A call counts, within the bound.
LEMMA CallCounts ==
  ASSUME FutureProcs, NEW p \in Clients, NEW next \in {"enter", "deref", "timed"}, Begin(p, next)
  PROVE  ncalls' \in [Clients -> 0..MaxCalls] /\ pc' = [pc EXCEPT ![p] = next]
<1>1. ncalls[p] \in Nat /\ MaxCalls \in Nat /\ ncalls[p] < MaxCalls
  BY FutureAssumption DEF FutureProcs, Begin
<1>2. ncalls[p] + 1 \in 0..MaxCalls
  BY <1>1
<1> QED
  BY <1>2 DEF FutureProcs, Begin

\* Every step of a future keeps the types.
LEMMA FutureTypesNext == FutureInv /\ TypeOK /\ [Next]_vars => TypeOK'
<1> SUFFICES ASSUME FutureInv, FutureCell, FutureProcs, FuturePast, [Next]_vars
             PROVE  FutureCell' /\ FutureProcs' /\ FuturePast'
  BY DEF TypeOK, FutureCell, FutureProcs, FuturePast
<1> USE FutureAssumption
<1>1. CASE BodyEnd
  BY <1>1 DEF BodyEnd, FutureCell, FutureProcs, FuturePast
<1>2. ASSUME NEW p \in Procs, SettleDo(p) PROVE FutureCell' /\ FutureProcs' /\ FuturePast'
  BY <1>2 DEF SettleDo, FutureCell, FutureProcs, FuturePast
<1>3. ASSUME NEW p \in Procs, SetCancelled(p) PROVE FutureCell' /\ FutureProcs' /\ FuturePast'
  BY <1>3 DEF SetCancelled, FutureCell, FutureProcs, FuturePast
<1>4. ASSUME NEW p \in Procs, WriteRes(p) PROVE FutureCell' /\ FutureProcs' /\ FuturePast'
  BY <1>4 DEF WriteRes, FutureCell, FutureProcs, FuturePast
<1>5. ASSUME NEW p \in Procs, CloseDone(p) PROVE FutureCell' /\ FutureProcs' /\ FuturePast'
  BY <1>5 DEF CloseDone, FutureCell, FutureProcs, FuturePast
<1>6. ASSUME NEW p \in Clients, Cancel(p) \/ Deref(p) PROVE FutureCell' /\ FutureProcs' /\ FuturePast'
  <2>1. /\ UNCHANGED <<res, done, cancelled, once, inside, out, won, beaten, seen>>
        /\ \E next \in {"enter", "deref", "timed"} : Begin(p, next)
    BY <1>6 DEF Cancel, Deref
  <2>2. ncalls' \in [Clients -> 0..MaxCalls]
        /\ \E next \in {"enter", "deref", "timed"} : pc' = [pc EXCEPT ![p] = next]
    BY <2>1, CallCounts
  <2> QED
    BY <2>1, <2>2 DEF FutureCell, FutureProcs, FuturePast
<1>7. ASSUME NEW p \in Clients, DerefReturn(p) \/ DerefWithTimeout(p)
      PROVE  FutureCell' /\ FutureProcs' /\ FuturePast'
  <2>1. /\ UNCHANGED <<res, done, cancelled, once, inside, out, ncalls, won, beaten>>
        /\ pc' = [pc EXCEPT ![p] = "idle"]
        /\ seen' = seen \/ (done /\ seen' = seen \cup {res})
    BY <1>7 DEF DerefReturn, DerefWithTimeout
  <2>2. done => res \in Outcomes
    BY DEF FutureInv
  <2> QED
    BY <2>1, <2>2 DEF FutureCell, FutureProcs, FuturePast
<1>8. CASE UNCHANGED vars
  BY <1>8 DEF vars, FutureCell, FutureProcs, FuturePast
<1> QED
  BY <1>1, <1>2, <1>3, <1>4, <1>5, <1>6, <1>7, <1>8 DEF Next, Settling

\* The types; a deref never meets a future without an outcome (agent.go:103-130).
THEOREM FutureTypes == Spec => []TypeOK
<1>1. Init => TypeOK
  <2> SUFFICES ASSUME Init PROVE TypeOK
    OBVIOUS
  <2>1. ncalls \in [Clients -> 0..MaxCalls]
    BY FutureAssumption DEF Init
  <2>2. out \in [Procs -> Outcomes \cup {"none"}]
    BY DEF Init, Outcomes
  <2>3. pc \in [Procs -> {"idle", "body", "enter", "mark", "write", "close",
                          "deref", "timed", "finished"}]
    BY DEF Init
  <2>4. /\ res \in Outcomes \cup {"none"} /\ inside \in Procs \cup {NoProc}
        /\ won \subseteq Clients /\ beaten \subseteq Clients /\ seen \subseteq Outcomes
    BY DEF Init
  <2>5. done \in BOOLEAN /\ cancelled \in BOOLEAN /\ once \in BOOLEAN
    BY DEF Init
  <2> QED
    BY <2>1, <2>2, <2>3, <2>4, <2>5 DEF TypeOK
<1> QED
  BY <1>1, FutureInit, FutureNext, FutureTypesNext, PTL DEF Spec
-----------------------------------------------------------------------------
(***************************************************************************)
(* Delay.                                                                  *)
(***************************************************************************)
\* Who runs the body holds the mutex, and the delay still has it.
DelayBodyAt(p) ==
  /\ at[p] \in {"body", "unlock"} => owner = p
  /\ at[p] = "body" => fn

\* A delay whose body was run has a value or an exception: one of them is there when
\* a goroutine leaves the mutex.
DelaySlowAt(p) == at[p] \in {"unlock", "slow"} => val \/ exception

\* What the derefs through the mutex have got: a value only while no run of
\* the body has panicked, and then never again a run that could.
DelayGotInv ==
  \A g \in got : g.way = "slow" =>
    \/ g.end = "value" /\ ~exception /\ val
    \/ g.end = "panic" /\ exception

DelayInv ==
  /\ at \in [Forcers -> {"idle", "realize", "lock", "body", "unlock", "fast", "slow"}]
  /\ val \in BOOLEAN /\ exception \in BOOLEAN /\ fn \in BOOLEAN
  /\ fn <=> ~val
  /\ \A p \in Forcers : DelayBodyAt(p) /\ DelaySlowAt(p)
  /\ DelayGotInv

\* It holds initially.
LEMMA DelayStart == DelayInit => DelayInv
BY DelayAssumption DEF DelayInit, DelayInv, DelayBodyAt, DelaySlowAt, DelayGotInv

\* Every step preserves it.
LEMMA DelayStep ==
  DelayInv /\ [DelayNext]_delayVars => DelayInv'
<1> USE DelayAssumption
<1> SUFFICES ASSUME DelayInv, [DelayNext]_delayVars PROVE DelayInv'
  OBVIOUS
<1>1. ASSUME NEW p \in Forcers, DelayDeref(p) PROVE DelayInv'
  BY <1>1 DEF DelayDeref, DelayInv, DelayBodyAt, DelaySlowAt, DelayGotInv
<1>2. ASSUME NEW p \in Forcers, Realize(p) PROVE DelayInv'
  BY <1>2 DEF Realize, DelayInv, DelayBodyAt, DelaySlowAt, DelayGotInv
<1>3. ASSUME NEW p \in Forcers, Lock(p) PROVE DelayInv'
  BY <1>3 DEF Lock, DelayInv, DelayBodyAt, DelaySlowAt, DelayGotInv
<1>4. ASSUME NEW p \in Forcers, FnEnd(p) PROVE DelayInv'
  <2>1. /\ fn /\ ~val /\ owner = p /\ owner' = owner /\ got' = got
        /\ at' = [at EXCEPT ![p] = "unlock"]
        /\ \/ val' = TRUE /\ fn' = FALSE /\ exception' = exception
           \/ val' = val /\ fn' = fn /\ exception' = TRUE
    BY <1>4 DEF FnEnd, DelayInv, DelayBodyAt
  <2>2. ASSUME NEW q \in Forcers PROVE DelayBodyAt(q)' /\ DelaySlowAt(q)'
    <3>1. CASE q = p
      BY <2>1, <3>1 DEF DelayInv, DelayBodyAt, DelaySlowAt
    <3>2. CASE q # p
      BY <2>1, <3>2 DEF DelayInv, DelayBodyAt, DelaySlowAt
    <3> QED
      BY <3>1, <3>2
  <2>3. DelayGotInv'
    <3>1. ASSUME NEW g \in got, g.way = "slow" PROVE g.end = "panic" /\ exception
      BY <2>1, <3>1, Zenon DEF DelayInv, DelayGotInv
    <3>2. exception => exception'
      <4>1. CASE exception' = exception
        BY <4>1
      <4>2. CASE exception' = TRUE
        BY <4>2
      <4> QED
        BY <2>1, <4>1, <4>2
    <3> QED
      BY <2>1, <3>1, <3>2, Zenon DEF DelayGotInv
  <2>4. /\ val' \in BOOLEAN /\ exception' \in BOOLEAN /\ fn' \in BOOLEAN
        /\ fn' <=> ~val'
    <3>1. CASE val' = TRUE /\ fn' = FALSE /\ exception' = exception
      BY <3>1 DEF DelayInv
    <3>2. CASE val' = val /\ fn' = fn /\ exception' = TRUE
      BY <3>2 DEF DelayInv
    <3> QED
      BY <2>1, <3>1, <3>2
  <2>5. at' \in [Forcers -> {"idle", "realize", "lock", "body", "unlock", "fast", "slow"}]
    BY <2>1 DEF DelayInv
  <2> QED
    BY <2>2, <2>3, <2>4, <2>5 DEF DelayInv
<1>5. ASSUME NEW p \in Forcers, Unlock(p) PROVE DelayInv'
  BY <1>5 DEF Unlock, DelayInv, DelayBodyAt, DelaySlowAt, DelayGotInv
<1>6. ASSUME NEW p \in Forcers, Read(p) PROVE DelayInv'
  BY <1>6 DEF Read, DelayInv, DelayBodyAt, DelaySlowAt, DelayGotInv
<1>7. CASE UNCHANGED delayVars
  BY <1>7 DEF delayVars, DelayInv, DelayBodyAt, DelaySlowAt, DelayGotInv
<1> QED
  BY <1>1, <1>2, <1>3, <1>4, <1>5, <1>6, <1>7 DEF DelayNext, Step

\* The derefs that went through the mutex all get the value or all raise a panic
\* (delay.go:46-56).
THEOREM SlowAgree ==
  DelaySpec => []SlowDerefsAgree
<1>1. DelayInv => SlowDerefsAgree
  BY DEF DelayInv, DelayGotInv, SlowDerefsAgree
<1>2. DelayInit => DelayInv
  BY DelayStart
<1>3. DelayInv /\ [DelayNext]_delayVars => DelayInv'
  BY DelayStep
<1> QED
  BY <1>1, <1>2, <1>3, PTL DEF DelaySpec

\* A body that has returned is never run again, whoever was waiting for the mutex
\* when it did (delay.go:32-44).
THEOREM RunsNoMore ==
  DelaySpec => NoRunAfterReturn
<1>1. DelayInv /\ [DelayNext]_delayVars => [~fn => runs' = runs]_delayVars
  BY DEF DelayInv, DelayBodyAt, DelayNext, Step, DelayDeref, Realize, Lock, FnEnd, Unlock, Read, delayVars
<1>2. DelayInit => DelayInv
  BY DelayStart
<1>3. DelayInv /\ [DelayNext]_delayVars => DelayInv'
  BY DelayStep
<1> QED
  BY <1>1, <1>2, <1>3, PTL DEF DelaySpec, NoRunAfterReturn

\* What each variable of a delay holds, apart from what DelayInv says.
DelayRest ==
  /\ mtx \in BOOLEAN /\ owner \in Forcers \cup {NoForcer}
  /\ nderefs \in [Forcers -> 0..MaxDerefs] /\ runs \in Nat
  /\ got \subseteq [way : {"fast", "slow"}, end : {"value", "nil", "panic"}]

LEMMA DelayRestNext ==
  DelayInv /\ DelayRest /\ [DelayNext]_delayVars => DelayRest'
<1> SUFFICES ASSUME DelayInv, DelayRest, [DelayNext]_delayVars PROVE DelayRest'
  OBVIOUS
<1>1. ASSUME NEW p \in Forcers, DelayDeref(p) PROVE DelayRest'
  <2>1. nderefs[p] \in Nat /\ MaxDerefs \in Nat /\ nderefs[p] < MaxDerefs
    BY <1>1, DelayAssumption DEF DelayRest, DelayDeref
  <2>2. nderefs[p] + 1 \in 0..MaxDerefs
    BY <2>1
  <2> QED
    BY <1>1, <2>2 DEF DelayDeref, DelayRest
<1>2. ASSUME NEW p \in Forcers, Realize(p) PROVE DelayRest'
  BY <1>2 DEF Realize, DelayRest
<1>3. ASSUME NEW p \in Forcers, Lock(p) PROVE DelayRest'
  BY <1>3 DEF Lock, DelayRest
<1>4. ASSUME NEW p \in Forcers, FnEnd(p) PROVE DelayRest'
  <2>1. runs' = runs + 1 /\ nderefs' = nderefs /\ got' = got /\ owner' = owner
    BY <1>4 DEF FnEnd
  <2>2. mtx' = FALSE \/ mtx' = mtx
    BY <1>4 DEF FnEnd
  <2>3. runs' \in Nat
    BY <2>1 DEF DelayRest
  <2>4. mtx' \in BOOLEAN
    BY <2>2, Zenon DEF DelayRest
  <2> QED
    BY <2>1, <2>3, <2>4, Zenon DEF DelayRest
<1>5. ASSUME NEW p \in Forcers, Unlock(p) PROVE DelayRest'
  BY <1>5 DEF Unlock, DelayRest
<1>6. ASSUME NEW p \in Forcers, Read(p) PROVE DelayRest'
  BY <1>6 DEF Read, DelayRest
<1>7. CASE UNCHANGED delayVars
  BY <1>7 DEF delayVars, DelayRest
<1> QED
  BY <1>1, <1>2, <1>3, <1>4, <1>5, <1>6, <1>7 DEF DelayNext, Step

\* The types: the body is run, and left, by the holder of *d.mtx (delay.go:26-44).
THEOREM DelayTypes ==
  DelaySpec => []DelayTypeOK
<1>1. DelayInit => DelayInv /\ DelayRest
  BY DelayStart, DelayAssumption DEF DelayInit, DelayRest
<1>2. DelayInv /\ [DelayNext]_delayVars => DelayInv'
  BY DelayStep
<1>3. DelayInv /\ DelayRest /\ [DelayNext]_delayVars => DelayRest'
  BY DelayRestNext
<1>4. DelayInv /\ DelayRest => DelayTypeOK
  BY DEF DelayInv, DelayBodyAt, DelayRest, DelayTypeOK
<1> QED
  BY <1>1, <1>2, <1>3, <1>4, PTL DEF DelaySpec
=============================================================================
