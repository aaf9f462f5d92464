-------------------------------- MODULE Delay --------------------------------
(***************************************************************************)
(* One lang.Delay (pkg/lang/delay.go), forced by several goroutines.       *)
(* realize runs the body under *d.mtx, but Deref reads d.mtx, d.exception  *)
(* and d.val without it.  A goroutine that has not been through the mutex  *)
(* races with realize's stores: each field may read as stored or as it was *)
(* before the store (the Go memory model, external).                       *)
(***************************************************************************)
EXTENDS Naturals

CONSTANTS
  Forcers,   \* goroutines that force the delay
  NoForcer,  \* the mutex is free
  FnEnds,    \* how a run of the body may end
  MaxDerefs  \* bound: derefs per goroutine

ASSUME DelayAssumption ==
  /\ NoForcer \notin Forcers /\ MaxDerefs \in Nat
  /\ FnEnds \subseteq {"value", "panic"}

VARIABLES
  val,        \* d.val # nil
  exception,  \* d.exception # nil
  fn,         \* d.fn # nil
  mtx,        \* d.mtx # nil
  owner,      \* the goroutine that holds *d.mtx
  at,         \* where each goroutine is
  nderefs,    \* derefs it has made
  runs,       \* history: completed runs of the body
  got         \* history: how derefs have ended, by the way they came

delayVars == <<val, exception, fn, mtx, owner, at, nderefs, runs, got>>

DelayTypeOK ==
  /\ val \in BOOLEAN /\ exception \in BOOLEAN /\ fn \in BOOLEAN /\ mtx \in BOOLEAN
  /\ owner \in Forcers \cup {NoForcer}
  /\ at \in [Forcers -> {"idle", "realize", "lock", "body", "unlock", "fast", "slow"}]
  /\ nderefs \in [Forcers -> 0..MaxDerefs]
  /\ \A p \in Forcers : at[p] \in {"body", "unlock"} => owner = p
  /\ runs \in Nat
  /\ got \subseteq [way : {"fast", "slow"}, end : {"value", "nil", "panic"}]

DelayInit ==
  /\ val = FALSE /\ exception = FALSE /\ fn = TRUE /\ mtx = TRUE
  /\ owner = NoForcer
  /\ at = [p \in Forcers |-> "idle"]
  /\ nderefs = [p \in Forcers |-> 0]
  /\ runs = 0 /\ got = {}
------------------------------------------------------------------------------
\* Delay.Deref looks at d.mtx: a realized delay goes straight to its value.
DelayDeref(p) ==
  /\ at[p] = "idle" /\ nderefs[p] < MaxDerefs
  /\ nderefs' = [nderefs EXCEPT ![p] = @ + 1]
  /\ \E m \in {mtx, TRUE} : at' = [at EXCEPT ![p] = IF m THEN "realize" ELSE "fast"]
  /\ UNCHANGED <<val, exception, fn, mtx, owner, runs, got>>

\* realize looks at it again.
Realize(p) ==
  /\ at[p] = "realize"
  /\ \E m \in {mtx, TRUE} : at' = [at EXCEPT ![p] = IF m THEN "lock" ELSE "fast"]
  /\ UNCHANGED <<val, exception, fn, mtx, owner, nderefs, runs, got>>

\* It locks, and runs the body unless another goroutine has run it meanwhile.
Lock(p) ==
  /\ at[p] = "lock" /\ owner = NoForcer
  /\ IF fn
     THEN owner' = p /\ at' = [at EXCEPT ![p] = "body"]
     ELSE at' = [at EXCEPT ![p] = "slow"] /\ UNCHANGED owner
  /\ UNCHANGED <<val, exception, fn, mtx, nderefs, runs, got>>

\* Mutant: a run that returns clears the panic of an earlier one.
Mut_FnEnd(p) ==
  /\ at[p] = "body"
  /\ runs' = runs + 1
  /\ \/ /\ "value" \in FnEnds
        /\ val' = TRUE /\ fn' = FALSE /\ mtx' = FALSE /\ exception' = FALSE
     \/ "panic" \in FnEnds /\ exception' = TRUE /\ UNCHANGED <<val, fn, mtx>>
  /\ at' = [at EXCEPT ![p] = "unlock"]
  /\ UNCHANGED <<owner, nderefs, got>>

\* The body returns, and d.val, d.fn and d.mtx are stored, or it panics, and
\* the deferred recover stores d.exception.
FnEnd(p) ==
  /\ at[p] = "body"
  /\ runs' = runs + 1
  /\ \/ /\ "value" \in FnEnds
        /\ val' = TRUE /\ fn' = FALSE /\ mtx' = FALSE /\ UNCHANGED exception
     \/ "panic" \in FnEnds /\ exception' = TRUE /\ UNCHANGED <<val, fn, mtx>>
  /\ at' = [at EXCEPT ![p] = "unlock"]
  /\ UNCHANGED <<owner, nderefs, got>>

\* The deferred unlock.
Unlock(p) ==
  /\ at[p] = "unlock"
  /\ owner' = NoForcer
  /\ at' = [at EXCEPT ![p] = "slow"]
  /\ UNCHANGED <<val, exception, fn, mtx, nderefs, runs, got>>

\* Delay.Deref's last reads, d.exception first.  A goroutine that was in the mutex
\* sees what was stored before; one that was not may miss either store.
Read(p) ==
  /\ at[p] \in {"fast", "slow"}
  /\ \E x \in {exception, exception /\ at[p] = "slow"}, v \in {val, val /\ at[p] = "slow"} :
       got' = got \cup {[way |-> at[p],
                         end |-> IF x THEN "panic" ELSE IF v THEN "value" ELSE "nil"]}
  /\ at' = [at EXCEPT ![p] = "idle"]
  /\ UNCHANGED <<val, exception, fn, mtx, owner, nderefs, runs>>
------------------------------------------------------------------------------
Step(p) == Realize(p) \/ Lock(p) \/ FnEnd(p) \/ Unlock(p) \/ Read(p)

DelayNext == \E p \in Forcers : DelayDeref(p) \/ Step(p)

DelaySpec == DelayInit /\ [][DelayNext]_delayVars
------------------------------------------------------------------------------
\* A body that has returned is not run again, however many goroutines found the
\* delay unrealized and queued for the lock meanwhile: "the body runs at most
\* once (memoized)" (core.clj:1618).  A body that panicked is run again by the
\* next deref, because realize leaves d.fn in place (delay.go:26-44).
NoRunAfterReturn == [][~fn => runs' = runs]_delayVars

\* The derefs that went through the mutex agree: all of them get the value, or
\* all raise a panic, also when a later run of the body has returned after an
\* earlier one panicked (delay.go:46-55); none reads an unset value.
SlowDerefsAgree ==
  LET ends == {g.end : g \in {h \in got : h.way = "slow"}}
  IN  ends \in {{}, {"value"}, {"panic"}}
==============================================================================
