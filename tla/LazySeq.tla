------------------------------- MODULE LazySeq -------------------------------
(***************************************************************************)
(* A chain of lang.LazySeq cells (pkg/lang/lazyseq.go): the body of cell c *)
(* returns cell c + 1, the body of the last one a non-empty seq, as nested *)
(* lazy-seq, concat and filter calls build them.  Goroutines call Seq on   *)
(* the cells they hold.  A cell has two mutexes: realizeMtx guards running *)
(* the body, seqMtx the unwrapping of the chain behind it.                 *)
(***************************************************************************)
EXTENDS Naturals, FiniteSets

CONSTANTS
  Procs,      \* goroutines that walk the sequence
  NoProc,     \* a mutex is free
  N,          \* cells in the chain
  Roots,      \* the cells the goroutines hold
  BodyPanics, \* a body may panic
  MaxCalls    \* bound: Seq calls per goroutine

ASSUME LazySeqAssumption ==
  /\ NoProc \notin Procs
  /\ N \in Nat \ {0} /\ Roots \subseteq 1..N
  /\ BodyPanics \in BOOLEAN /\ MaxCalls \in Nat

Cells  == 1..N
Nil    == 0
Val    == N + 1        \* the seq at the end of the chain
Values == 0..N + 1

VARIABLES
  fn,          \* s.fn # nil
  sv,          \* s.sv
  seq,         \* s.seq
  realizeMtx,  \* who holds s.realizeMtx
  seqMtx,      \* who holds s.seqMtx
  pc,          \* where each goroutine is
  cell,        \* the cell whose Seq it runs
  ls,          \* the local variable ls of Seq
  ncalls,      \* calls it has made
  runs,        \* history: runs of each body
  entered,     \* history: the cells Seq was called on,
  panicked,    \* whether a body has panicked,
  got          \* and what Seq calls have returned

history == <<entered, panicked, got>>
vars    == <<fn, sv, seq, realizeMtx, seqMtx, pc, cell, ls, ncalls, runs, history>>

TypeOK ==
  /\ fn \in [Cells -> BOOLEAN] /\ sv \in [Cells -> Values]
  /\ seq \in [Cells -> {Nil, Val}]
  /\ realizeMtx \in [Cells -> Procs \cup {NoProc}]
  /\ seqMtx \in [Cells -> Procs \cup {NoProc}]
  /\ pc \in [Procs -> {"idle", "lock", "realize", "body", "unwrap", "walk"}]
  /\ cell \in [Procs -> Cells] /\ ls \in [Procs -> Values]
  /\ ncalls \in [Procs -> 0..MaxCalls]
  /\ runs \in [Cells -> Nat]
  /\ entered \subseteq Roots /\ panicked \in BOOLEAN /\ got \subseteq {Nil, Val}

Init ==
  /\ fn = [c \in Cells |-> TRUE]
  /\ sv = [c \in Cells |-> Nil]
  /\ seq = [c \in Cells |-> Nil]
  /\ realizeMtx = [c \in Cells |-> NoProc]
  /\ seqMtx = [c \in Cells |-> NoProc]
  /\ pc = [p \in Procs |-> "idle"]
  /\ cell = [p \in Procs |-> 1]
  /\ ls = [p \in Procs |-> Nil]
  /\ ncalls = [p \in Procs |-> 0]
  /\ runs = [c \in Cells |-> 0]
  /\ entered = {} /\ panicked = FALSE /\ got = {}
------------------------------------------------------------------------------
\* Seq is called on a cell.
Seq(p, c) ==
  /\ pc[p] = "idle" /\ ncalls[p] < MaxCalls
  /\ ncalls' = [ncalls EXCEPT ![p] = @ + 1]
  /\ cell' = [cell EXCEPT ![p] = c]
  /\ pc' = [pc EXCEPT ![p] = "lock"]
  /\ entered' = entered \cup {c}
  /\ UNCHANGED <<fn, sv, seq, realizeMtx, seqMtx, ls, runs, panicked, got>>

\* Mutant: the lock is not taken.
Mut_SeqLock(p) ==
  /\ pc[p] = "lock"
  /\ ls' = [ls EXCEPT ![p] = cell[p]]
  /\ pc' = [pc EXCEPT ![p] = "realize"]
  /\ UNCHANGED <<fn, sv, seq, realizeMtx, seqMtx, cell, ncalls, runs, history>>

\* s.seqMtx.Lock(), and on to s.realize().
SeqLock(p) ==
  /\ pc[p] = "lock" /\ seqMtx[cell[p]] = NoProc
  /\ seqMtx' = [seqMtx EXCEPT ![cell[p]] = p]
  /\ ls' = [ls EXCEPT ![p] = cell[p]]
  /\ pc' = [pc EXCEPT ![p] = "realize"]
  /\ UNCHANGED <<fn, sv, seq, realizeMtx, cell, ncalls, runs, history>>

\* realize of cell ls[p] returns r: to Seq's own realize, which ignores it, or
\* to its loop over the chain.
Realized(p, r) ==
  IF ls[p] = cell[p]
  THEN pc' = [pc EXCEPT ![p] = "unwrap"] /\ UNCHANGED ls
  ELSE pc' = [pc EXCEPT ![p] = "walk"] /\ ls' = [ls EXCEPT ![p] = r]

\* Mutant: the body is run without the lock.
Mut_Realize(p) ==
  /\ pc[p] = "realize"
  /\ LET c == ls[p] IN
     IF fn[c]
     THEN pc' = [pc EXCEPT ![p] = "body"] /\ UNCHANGED <<realizeMtx, ls>>
     ELSE Realized(p, IF sv[c] # Nil THEN sv[c] ELSE seq[c]) /\ UNCHANGED realizeMtx
  /\ UNCHANGED <<fn, sv, seq, seqMtx, cell, ncalls, runs, history>>

\* realize takes s.realizeMtx and runs the body of a cell that still has one.
Realize(p) ==
  /\ pc[p] = "realize" /\ realizeMtx[ls[p]] = NoProc
  /\ LET c == ls[p] IN
     IF fn[c]
     THEN /\ realizeMtx' = [realizeMtx EXCEPT ![c] = p]
          /\ pc' = [pc EXCEPT ![p] = "body"]
          /\ UNCHANGED ls
     ELSE Realized(p, IF sv[c] # Nil THEN sv[c] ELSE seq[c]) /\ UNCHANGED realizeMtx
  /\ UNCHANGED <<fn, sv, seq, seqMtx, cell, ncalls, runs, history>>

\* The body returns the next cell, or the seq at the end of the chain.
BodyReturn(p) ==
  /\ pc[p] = "body"
  /\ LET c == ls[p] IN
     /\ sv' = [sv EXCEPT ![c] = c + 1]
     /\ fn' = [fn EXCEPT ![c] = FALSE]
     /\ runs' = [runs EXCEPT ![c] = @ + 1]
     /\ realizeMtx' = [realizeMtx EXCEPT ![c] = NoProc]
     /\ Realized(p, c + 1)
  /\ UNCHANGED <<seq, seqMtx, cell, ncalls, history>>

\* Mutant: realize has no deferred unlock.
Mut_BodyPanic(p) ==
  /\ BodyPanics /\ pc[p] = "body"
  /\ seqMtx' = [seqMtx EXCEPT ![cell[p]] = NoProc]
  /\ pc' = [pc EXCEPT ![p] = "idle"]
  /\ UNCHANGED <<fn, sv, seq, realizeMtx, cell, ls, ncalls, runs, history>>

\* The body panics through realize and Seq; the deferred unlocks run.
BodyPanic(p) ==
  /\ BodyPanics /\ pc[p] = "body"
  /\ realizeMtx' = [realizeMtx EXCEPT ![ls[p]] = NoProc]
  /\ seqMtx' = [seqMtx EXCEPT ![cell[p]] = NoProc]
  /\ pc' = [pc EXCEPT ![p] = "idle"]
  /\ panicked' = TRUE
  /\ UNCHANGED <<fn, sv, seq, cell, ls, ncalls, runs, entered, got>>

\* Seq unlocks s.seqMtx and returns r.
Return(p, r) ==
  /\ seqMtx' = [seqMtx EXCEPT ![cell[p]] = NoProc]
  /\ got' = got \cup {r}
  /\ pc' = [pc EXCEPT ![p] = "idle"]

\* After its own realize, Seq returns s.seq when s.sv is nil, and otherwise
\* takes s.sv out of the cell: both under s.seqMtx alone.
Unwrap(p) ==
  /\ pc[p] = "unwrap"
  /\ LET c == cell[p] IN
     IF sv[c] = Nil
     THEN Return(p, seq[c]) /\ UNCHANGED <<sv, ls>>
     ELSE /\ ls' = [ls EXCEPT ![p] = sv[c]]
          /\ sv' = [sv EXCEPT ![c] = Nil]
          /\ pc' = [pc EXCEPT ![p] = "walk"]
          /\ UNCHANGED <<seqMtx, got>>
  /\ UNCHANGED <<fn, seq, realizeMtx, cell, ncalls, runs, entered, panicked>>

\* The loop: realize the next cell, or keep what the chain ends with in s.seq.
Walk(p) ==
  /\ pc[p] = "walk"
  /\ IF ls[p] \in Cells
     THEN pc' = [pc EXCEPT ![p] = "realize"] /\ UNCHANGED <<seq, seqMtx, got>>
     ELSE seq' = [seq EXCEPT ![cell[p]] = ls[p]] /\ Return(p, ls[p])
  /\ UNCHANGED <<fn, sv, realizeMtx, cell, ls, ncalls, runs, entered, panicked>>
------------------------------------------------------------------------------
Step(p) ==
  \/ SeqLock(p) \/ Realize(p) \/ BodyReturn(p) \/ BodyPanic(p)
  \/ Unwrap(p) \/ Walk(p)

Next == \E p \in Procs : Step(p) \/ \E c \in Roots : Seq(p, c)

Spec == Init /\ [][Next]_vars

\* Go schedules every runnable goroutine, and bodies end.
FairSpec == Spec /\ \A p \in Procs : WF_vars(Step(p))
------------------------------------------------------------------------------
\* "fn runs at most once" (design/02-data-structures.md:330): goroutines that
\* enter the chain at different cells run no body twice.
BodyOnce == \A c \in Cells : runs[c] <= 1

\* Goroutines that share the head of a sequence, and it alone, all find what is in
\* it, as long as no body panics: "realization must be goroutine-safe"
\* (design/02-data-structures.md:328).  Both provisos are needed: a goroutine that
\* holds a later cell takes s.sv out of it under seqMtx, which realize of the
\* one before does not take, and a body that panics further down leaves s.sv nil
\* and s.seq unset (lazyseq.go:97-131).
OneHeadAgrees == Cardinality(entered) <= 1 /\ ~panicked => Nil \notin got

\* Every Seq returns, whatever cells the goroutines enter at and whatever bodies
\* panic: the two mutexes of a cell and those of its successors never lock up.
SeqReturns == \A p \in Procs : (pc[p] # "idle") ~> (pc[p] = "idle")
==============================================================================
