--------------------------------- MODULE Ref ---------------------------------
(***************************************************************************)
(* STM-lite refs (pkg/lang/ref.go): dosync takes one global mutex, stmMtx, *)
(* and binds the dynamic var -in-transaction for its body; alter, ref-set  *)
(* and commute demand that binding and mutate the ref in place under its   *)
(* own mutex, which they hold while they call the user's function.  The    *)
(* binding is conveyed into the futures the body starts (AgentSubmit,      *)
(* pkg/lang/agent.go), and a future may outlive its dosync.                *)
(***************************************************************************)
EXTENDS Naturals, Sequences, FiniteSets

CONSTANTS
  Clients,   \* goroutines that run transactions
  Futures,   \* goroutines that transactions may start
  Refs,
  NoProc,    \* a mutex is free
  FnEnds,    \* what alter's function and the validator may do
  WatchEnds, \* how notifying the watches may end
  MaxOps     \* bound: ref operations per goroutine

ASSUME RefAssumption ==
  /\ Refs # {}
  /\ Clients \cap Futures = {} /\ NoProc \notin Clients \cup Futures
  /\ FnEnds \subseteq {"ok", "invalid", "panic"}
  /\ WatchEnds \subseteq {"ok", "panic"} /\ MaxOps \in Nat

Procs == Clients \cup Futures

VARIABLES
  stm,    \* who holds stmMtx
  mark,   \* -in-transaction as each goroutine sees it
  mtx,    \* who holds each ref's mutex
  val,    \* r.state, as the number of updates installed
  pc,     \* where each goroutine is
  want,   \* the ref whose mutex it waits for, if any
  swaps,  \* the txSwaps whose function it runs, the innermost last
  nops,   \* ref operations it has made
  joined, \* history: the goroutines that belong to the running transaction
  alone,  \* history: no earlier transaction's future was running when it began
  view    \* history: the refs as the running transaction knows them

vars == <<stm, mark, mtx, val, pc, want, swaps, nops, joined, alone, view>>

\* A txSwap that holds its ref's mutex, and the value its function was given.
Swap == [ref : Refs, old : Nat]

TypeOK ==
  /\ stm \in Procs \cup {NoProc} /\ mark \in [Procs -> BOOLEAN]
  /\ mtx \in [Refs -> Procs \cup {NoProc}] /\ val \in [Refs -> Nat]
  /\ pc \in [Procs -> {"unborn", "idle", "body", "deref", "swap", "watch", "unwind",
                       "finished"}]
  /\ want \in [Procs -> SUBSET Refs] /\ swaps \in [Procs -> Seq(Swap)]
  /\ \A p \in Procs : \A i \in DOMAIN swaps[p] : mtx[swaps[p][i].ref] = p
  /\ nops \in [Procs -> 0..MaxOps]
  /\ joined \subseteq Procs /\ alone \in BOOLEAN /\ view \in [Refs -> Nat]

Init ==
  /\ stm = NoProc /\ mark = [p \in Procs |-> FALSE]
  /\ mtx = [r \in Refs |-> NoProc] /\ val = [r \in Refs |-> 0]
  /\ pc = [p \in Procs |-> IF p \in Clients THEN "idle" ELSE "unborn"]
  /\ want = [p \in Procs |-> {}] /\ swaps = [p \in Procs |-> <<>>]
  /\ nops = [p \in Procs |-> 0]
  /\ joined = {} /\ alone = TRUE /\ view = val

Goto(p, next) == pc' = [pc EXCEPT ![p] = next]

Top(p) == swaps[p][Len(swaps[p])]
Pop(p) == swaps' = [swaps EXCEPT ![p] = SubSeq(@, 1, Len(@) - 1)]

\* No future is at work.
NoneRunning == \A f \in Futures : pc[f] \in {"unborn", "finished"}

\* p begins an operation on r.
Op(p, r, next) ==
  /\ nops[p] < MaxOps
  /\ nops' = [nops EXCEPT ![p] = @ + 1]
  /\ want' = [want EXCEPT ![p] = {r}]
  /\ Goto(p, next)
\* The mutex of r, which p waits for, is free.
Got(p, r) ==
  /\ r \in want[p] /\ mtx[r] = NoProc
  /\ want' = [want EXCEPT ![p] = {}]
------------------------------------------------------------------------------
\* Mutant: a nested or conveyed mark is not looked for, nor is the lock taken.
Mut_RunInTransaction(p) ==
  /\ pc[p] = "idle" /\ nops[p] < MaxOps
  /\ stm' = IF stm = NoProc THEN p ELSE stm
  /\ mark' = [mark EXCEPT ![p] = TRUE]
  /\ joined' = {p} /\ alone' = NoneRunning /\ view' = val
  /\ Goto(p, "body")
  /\ UNCHANGED <<mtx, val, want, swaps, nops>>

\* An outermost dosync.  (One inside a transaction just runs its body.)
RunInTransaction(p) ==
  /\ pc[p] = "idle" /\ nops[p] < MaxOps /\ stm = NoProc
  /\ stm' = p
  /\ mark' = [mark EXCEPT ![p] = TRUE]
  /\ joined' = {p} /\ alone' = NoneRunning /\ view' = val
  /\ Goto(p, "body")
  /\ UNCHANGED <<mtx, val, want, swaps, nops>>

\* The body returns or a panic leaves it: the mark is popped and the lock let
\* go.  A conveyed body ends with its goroutine, whose frame keeps the mark.
EndTransaction(p) ==
  /\ pc[p] \in {"body", "unwind"} /\ swaps[p] = <<>>
  /\ IF p \in Futures
     THEN Goto(p, "finished") /\ UNCHANGED <<stm, mark, joined>>
     ELSE /\ Goto(p, "idle")
          /\ stm' = NoProc /\ mark' = [mark EXCEPT ![p] = FALSE] /\ joined' = {}
  /\ UNCHANGED <<mtx, val, want, swaps, nops, alone, view>>

\* AgentSubmit inside a transaction conveys its bindings.
AgentSubmit(p, f) ==
  /\ pc[p] = "body" /\ pc[f] = "unborn"
  /\ mark' = [mark EXCEPT ![f] = mark[p]]
  /\ joined' = IF p \in joined THEN joined \cup {f} ELSE joined
  /\ Goto(f, "body")
  /\ UNCHANGED <<stm, mtx, val, want, swaps, nops, alone, view>>

\* deref, outside a transaction, in a body (where ensure does the same) or in
\* alter's function.
Deref(p, r) ==
  /\ pc[p] \in {"idle", "body"}
  /\ Op(p, r, "deref")
  /\ UNCHANGED <<stm, mark, mtx, val, swaps, joined, alone, view>>

\* Mutant: deref takes the transaction lock too, which its own transaction holds.
Mut_DerefReturn(p) ==
  /\ pc[p] = "deref" /\ stm = NoProc /\ \E r \in Refs : Got(p, r)
  /\ Goto(p, IF mark[p] THEN "body" ELSE "idle")
  /\ UNCHANGED <<stm, mark, mtx, val, swaps, nops, joined, alone, view>>

DerefReturn(p) ==
  /\ pc[p] = "deref" /\ \E r \in Refs : Got(p, r)
  /\ Goto(p, IF mark[p] THEN "body" ELSE "idle")
  /\ UNCHANGED <<stm, mark, mtx, val, swaps, nops, joined, alone, view>>

\* txSwap: alter, commute and ref-set, in the body or in the function of another
\* txSwap, which holds its own ref's mutex meanwhile.
TxSwap(p, r) ==
  /\ pc[p] = "body" /\ mark[p]
  /\ Op(p, r, "swap")
  /\ UNCHANGED <<stm, mark, mtx, val, swaps, joined, alone, view>>

\* Mutant: the function runs before the lock is taken again to install.
Mut_SwapLock(p) ==
  /\ pc[p] = "swap"
  /\ \E r \in Refs :
       /\ Got(p, r)
       /\ swaps' = [swaps EXCEPT ![p] = Append(@, [ref |-> r, old |-> val[r]])]
  /\ Goto(p, "body")
  /\ UNCHANGED <<stm, mark, mtx, val, nops, joined, alone, view>>

SwapLock(p) ==
  /\ pc[p] = "swap"
  /\ \E r \in Refs :
       /\ Got(p, r)
       /\ mtx' = [mtx EXCEPT ![r] = p]
       /\ swaps' = [swaps EXCEPT ![p] = Append(@, [ref |-> r, old |-> val[r]])]
  /\ Goto(p, "body")
  /\ UNCHANGED <<stm, mark, val, nops, joined, alone, view>>

\* The function returns and the validator accepts (install, unlock, go on to
\* the watches) or rejects (unlock, throw); a panic of either leaves txSwap
\* with the mutex locked.
FnEnd(p) ==
  /\ pc[p] = "body" /\ swaps[p] # <<>>
  /\ \E e \in FnEnds : LET r == Top(p).ref  new == Top(p).old + 1 IN
       /\ Goto(p, IF e = "ok" THEN "watch" ELSE "unwind")
       /\ val' = IF e = "ok" THEN [val EXCEPT ![r] = new] ELSE val
       /\ view' = IF e = "ok" /\ p \in joined THEN [view EXCEPT ![r] = new] ELSE view
       /\ mtx' = IF e = "panic" THEN mtx ELSE [mtx EXCEPT ![r] = NoProc]
  /\ Pop(p)
  /\ UNCHANGED <<stm, mark, want, nops, joined, alone>>

NotifyWatches(p) ==
  /\ pc[p] = "watch"
  /\ \E e \in WatchEnds : Goto(p, IF e = "ok" THEN "body" ELSE "unwind")
  /\ UNCHANGED <<stm, mark, mtx, val, want, swaps, nops, joined, alone, view>>

\* What txSwap threw is caught by the code that called it,
Catch(p) ==
  /\ pc[p] = "unwind"
  /\ Goto(p, "body")
  /\ UNCHANGED <<stm, mark, mtx, val, want, swaps, nops, joined, alone, view>>

\* or goes on through the function of an outer txSwap, whose mutex stays locked.
Unwind(p) ==
  /\ pc[p] = "unwind" /\ swaps[p] # <<>>
  /\ Pop(p)
  /\ UNCHANGED <<stm, mark, mtx, val, pc, want, nops, joined, alone, view>>
------------------------------------------------------------------------------
Step(p) ==
  \/ DerefReturn(p) \/ SwapLock(p) \/ FnEnd(p) \/ NotifyWatches(p)
  \/ Catch(p) \/ Unwind(p) \/ EndTransaction(p)

Next == \E p \in Procs :
  \/ RunInTransaction(p) \/ Step(p)
  \/ \E r \in Refs : Deref(p, r) \/ TxSwap(p, r)
  \/ \E f \in Futures : AgentSubmit(p, f)

Spec == Init /\ [][Next]_vars

\* Go schedules every runnable goroutine, and the user's functions end.
FairSpec == Spec /\ \A p \in Procs : WF_vars(Step(p))
------------------------------------------------------------------------------
\* A transaction knows the refs: while it holds stmMtx they are as it found them
\* but for the updates made in it, by its body or by futures the body started
\* ("THE transaction lock: dosync bodies serialize on it", ref.go:40; alter and
\* ref-set "mutate in place under the global lock", ADR 0038).
Isolated == stm # NoProc => view = val

\* That holds, to its end, for a transaction that begins while no future started
\* in an earlier one is still running, however many futures it shares its mark
\* with itself and whatever they do (ref.go:85-97).
IsolatedTogether == alone => Isolated

\* No update is lost: the value alter's function was given is still the ref's
\* when its result is installed, also between goroutines that share a conveyed
\* transaction and hold no lock in common but the ref's own, and across the
\* updates the function itself makes (ref.go:121-136).
NoLostUpdate ==
  \A p \in Procs : \A i \in DOMAIN swaps[p] : swaps[p][i].old = val[swaps[p][i].ref]

\* What can keep a goroutine waiting for a ref for ever: a mutex that a panic
\* left locked, and functions of txSwaps that wait for the refs of one another
\* (or one for its own).
Abandoned ==
  \E r \in Refs : /\ mtx[r] # NoProc
                  /\ \A i \in DOMAIN swaps[mtx[r]] : swaps[mtx[r]][i].ref # r
Deadlocked ==
  \E ps \in SUBSET Procs :
    ps # {} /\ \A p \in ps : \E r \in want[p] : mtx[r] \in ps

\* Nothing else does: a deref returns, and a transaction that has got stmMtx ends
\* and lets it go, also past rejected values, panicking watches, functions that
\* alter other refs and conveyed futures that take the same refs (ref.go:90-136).
CallsReturn ==
  \A p \in Clients : (pc[p] # "idle") ~> (pc[p] = "idle" \/ Abandoned \/ Deadlocked)
==============================================================================
