-------------------------------- MODULE Future --------------------------------
(***************************************************************************)
(* One lang.future (pkg/lang/agent.go): the goroutine AgentSubmit starts   *)
(* runs the body and settles the future with its outcome, while other      *)
(* goroutines deref it, deref it with a timeout and cancel it.  Body and   *)
(* cancellers race for one sync.Once (external): the first to enter it     *)
(* writes the outcome and closes f.done, the others wait for it to leave.  *)
(***************************************************************************)
EXTENDS Naturals

CONSTANTS
  Clients,   \* goroutines that hold the future
  Worker,    \* the goroutine AgentSubmit starts
  NoProc,    \* nobody is inside the Once
  BodyEnds,  \* how the body may end
  MaxCalls   \* bound: calls per client

ASSUME FutureAssumption ==
  /\ Worker \notin Clients /\ NoProc \notin Clients \cup {Worker}
  /\ BodyEnds \subseteq {"value", "panic"} /\ MaxCalls \in Nat

VARIABLES
  res,        \* f.res: "none", the body's value, its panic or the cancellation
  done,       \* f.done is closed
  cancelled,  \* f.cancelled
  once,       \* f.settle has run
  inside,     \* the goroutine inside f.settle.Do
  out,        \* the outcome each goroutine would settle with
  pc,         \* where each goroutine is
  ncalls,     \* calls each client has made
  won,        \* history: clients whose Cancel returned true
  beaten,     \* history: clients whose Cancel returned false
  seen        \* history: the outcomes derefs have met

vars == <<res, done, cancelled, once, inside, out, pc, ncalls, won, beaten, seen>>

Procs    == Clients \cup {Worker}
Outcomes == {"value", "panic", "cancel"}

TypeOK ==
  /\ res \in Outcomes \cup {"none"} /\ out \in [Procs -> Outcomes \cup {"none"}]
  /\ done \in BOOLEAN /\ cancelled \in BOOLEAN /\ once \in BOOLEAN
  /\ inside \in Procs \cup {NoProc}
  /\ pc \in [Procs -> {"idle", "body", "enter", "mark", "write", "close",
                       "deref", "timed", "finished"}]
  /\ ncalls \in [Clients -> 0..MaxCalls]
  /\ won \subseteq Clients /\ beaten \subseteq Clients
  /\ seen \subseteq Outcomes

\* AgentSubmit has started the body.
Init ==
  /\ res = "none" /\ done = FALSE /\ cancelled = FALSE
  /\ once = FALSE /\ inside = NoProc
  /\ out = [p \in Procs |-> IF p = Worker THEN "none" ELSE "cancel"]
  /\ pc = [p \in Procs |-> IF p = Worker THEN "body" ELSE "idle"]
  /\ ncalls = [p \in Clients |-> 0]
  /\ won = {} /\ beaten = {} /\ seen = {}

Begin(p, next) ==
  /\ pc[p] = "idle" /\ ncalls[p] < MaxCalls
  /\ ncalls' = [ncalls EXCEPT ![p] = @ + 1]
  /\ pc' = [pc EXCEPT ![p] = next]
-------------------------------------------------------------------------------
\* The body returns, or panics and is recovered; settleWith comes next.
BodyEnd ==
  /\ pc[Worker] = "body"
  /\ \E e \in BodyEnds : out' = [out EXCEPT ![Worker] = e]
  /\ pc' = [pc EXCEPT ![Worker] = "enter"]
  /\ UNCHANGED <<res, done, cancelled, once, inside, ncalls, won, beaten, seen>>

\* Mutant: Cancel raises the flag before it tries to settle.
Mut_Cancel(p) ==
  /\ Begin(p, "enter")
  /\ cancelled' = TRUE
  /\ UNCHANGED <<res, done, once, inside, out, won, beaten, seen>>

Cancel(p) ==
  /\ Begin(p, "enter")
  /\ UNCHANGED <<res, done, cancelled, once, inside, out, won, beaten, seen>>

\* f.settle.Do: the first caller enters, a later one returns false once the
\* first has left.
SettleDo(p) ==
  /\ pc[p] = "enter" /\ inside = NoProc
  /\ IF once
     THEN /\ pc' = [pc EXCEPT ![p] = IF p = Worker THEN "finished" ELSE "idle"]
          /\ beaten' = beaten \cup ({p} \ {Worker})
          /\ UNCHANGED <<inside, once>>
     ELSE /\ inside' = p /\ once' = TRUE
          /\ pc' = [pc EXCEPT ![p] = IF p = Worker THEN "write" ELSE "mark"]
          /\ UNCHANGED beaten
  /\ UNCHANGED <<res, done, cancelled, out, ncalls, won, seen>>

\* Cancel's f.cancelled = true, which future-cancelled? reads without a lock.
SetCancelled(p) ==
  /\ pc[p] = "mark"
  /\ cancelled' = TRUE
  /\ pc' = [pc EXCEPT ![p] = "write"]
  /\ UNCHANGED <<res, done, once, inside, out, ncalls, won, beaten, seen>>

\* Mutant: f.done is closed before the outcome is written.
Mut_WriteRes(p) ==
  /\ pc[p] = "write"
  /\ done' = TRUE
  /\ pc' = [pc EXCEPT ![p] = "close"]
  /\ UNCHANGED <<res, cancelled, once, inside, out, ncalls, won, beaten, seen>>

WriteRes(p) ==
  /\ pc[p] = "write"
  /\ res' = out[p]
  /\ pc' = [pc EXCEPT ![p] = "close"]
  /\ UNCHANGED <<done, cancelled, once, inside, out, ncalls, won, beaten, seen>>

\* close(f.done); the Once is left and the caller answers true.
CloseDone(p) ==
  /\ pc[p] = "close"
  /\ done' = TRUE
  /\ inside' = NoProc
  /\ pc' = [pc EXCEPT ![p] = IF p = Worker THEN "finished" ELSE "idle"]
  /\ won' = won \cup ({p} \ {Worker})
  /\ UNCHANGED <<res, cancelled, once, out, ncalls, beaten, seen>>

Deref(p) ==
  /\ \E next \in {"deref", "timed"} : Begin(p, next)
  /\ UNCHANGED <<res, done, cancelled, once, inside, out, won, beaten, seen>>

\* Deref and Get wait for f.done; a *futurePanic is re-raised.
DerefReturn(p) ==
  /\ pc[p] = "deref" /\ done
  /\ seen' = seen \cup {res}
  /\ pc' = [pc EXCEPT ![p] = "idle"]
  /\ UNCHANGED <<res, done, cancelled, once, inside, out, ncalls, won, beaten>>

\* DerefWithTimeout and GetWithTimeout return f.res as it is, or time out.
DerefWithTimeout(p) ==
  /\ pc[p] = "timed"
  /\ \/ done /\ seen' = seen \cup {res}
     \/ UNCHANGED seen
  /\ pc' = [pc EXCEPT ![p] = "idle"]
  /\ UNCHANGED <<res, done, cancelled, once, inside, out, ncalls, won, beaten>>
-------------------------------------------------------------------------------
Settling(p) == SettleDo(p) \/ SetCancelled(p) \/ WriteRes(p) \/ CloseDone(p)

Next ==
  \/ BodyEnd
  \/ \E p \in Procs : Settling(p)
  \/ \E p \in Clients : Cancel(p) \/ Deref(p) \/ DerefReturn(p) \/ DerefWithTimeout(p)

Spec == Init /\ [][Next]_vars
-------------------------------------------------------------------------------
\* The future is a write-once cell: body and cancellers settle it once, and all
\* derefs, timed or not, meet that one outcome (agent.go:48-51, 103-130).
Once == INSTANCE WriteOnce WITH Outcomes <- Outcomes, NoOutcome <- "none",
                               cell <- IF done THEN res ELSE "none", seen <- seen
IsWriteOnce == Once!Spec

\* future-cancel's answer is the truth: true means that the future is realized,
\* cancelled and throws; false that it is realized and, unless another cancel
\* won, not cancelled; one cancel wins (agent.go:115-120).
CancelVerdict ==
  /\ won # {} => done /\ cancelled /\ res = "cancel"
  /\ beaten # {} => done
  /\ (done /\ cancelled) => res = "cancel" /\ \E p \in Clients : won = {p}
  /\ (done /\ ~cancelled) => won = {}
===============================================================================
