------------------------------ MODULE ToolProofs ------------------------------
(***************************************************************************)
(* The tools around the runtime, for any number of processes and clients.  *)
(*   Deps: without cache clean the dependency cache and the lock files are *)
(*     sound, whatever races and whoever is killed; a pin that is not      *)
(*     stale is never replaced, also while the cache is cleaned.           *)
(*   Nrepl: a client that has read "done" finds its session idle, and each *)
(*     connection has at most one send parked on a session's queue.        *)
(***************************************************************************)
EXTENDS Deps, Nrepl, FiniteSetTheorems, TLAPS

-------------------------------------------------------------------------------
(***************************************************************************)
(* Deps.                                                                   *)
(***************************************************************************)
\* A build has loaded one pin at most.  One that updates has resolved a pin that is
\* not stale to its commit; a build that writes the lock does update, and found the
\* hash its commit was pinned to.
PinAt(p) ==
  /\ \A i, m \in have[p] : i = m
  /\ pc[p] \in Running \ {"resolve"} /\ update[p] =>
       \A k \in have[p] : Stale(k, set[p]) \/ k.commit = commit[p]
  /\ pc[p] \in {"write", "rewrite"} =>
       update[p] /\ \A k \in have[p] : k.commit = commit[p] => k.hash = hash[p]

\* Before any clean, what it writes is the hash of a complete tree.
GoodAt(p) == pc[p] \in {"write", "rewrite"} => hash[p] = "good"

\* The parts of the type invariant.
TypeFiles ==
  /\ project \in [Procs -> Projects] /\ lock \in [Projects -> {"absent", "written", "torn"}]
  /\ pin \in [Projects -> Pin]
  /\ build \in [Projects -> Decl] /\ decl \in [Projects -> Decl]
TypeCache ==
  /\ tree \in [Commits -> {"absent", "partial", "full"}]
  /\ mirror \in {"absent", "dir", "empty", "full"}
  /\ flock \in [Commits -> Procs \cup {NoProc}]
TypePc == pc \in [Procs -> Running \cup {"idle", "ok", "failed"}]
TypeRead ==
  /\ set \in [Procs -> Decl] /\ update \in [Procs -> BOOLEAN]
  /\ have \in [Procs -> SUBSET Pin] /\ commit \in [Procs -> Commits]
  /\ hash \in [Procs -> {"good", "bad"}]
TypeClean ==
  /\ cleaners \subseteq Cleaners /\ clean \subseteq Cleaners /\ cleaned \in BOOLEAN
  /\ orphans \subseteq Projects /\ crashes \in 0..MaxCrashes

\* They make it up.
LEMMA TypeParts == TypeOK <=> TypeFiles /\ TypeCache /\ TypePc /\ TypeRead /\ TypeClean
BY DEF TypeOK, TypeFiles, TypeCache, TypePc, TypeRead, TypeClean

\* The inductive invariant behind CacheSound and PinHolds.
DepsInv ==
  /\ TypeOK
  /\ clean # {} => cleaned
  /\ CacheSound
  /\ \A p \in Procs : PinAt(p) /\ (~cleaned => GoodAt(p))

\* A declared ref is resolved by a ref of the repository.
LEMMA RefOfRef ==
  ASSUME NEW ref \in Refs \cup {NoRef}
  PROVE  RefOf(ref) \in Refs
BY DepsAssumption DEF RefOf

\* It holds initially.
LEMMA DepsInit == Init => DepsInv
<1> SUFFICES ASSUME Init PROVE DepsInv
  OBVIOUS
<1>0. PICK s \in Starts :
        /\ project = s.project /\ cleaners = s.cleaners
        /\ lock = [j \in Projects |-> IF j \in s.old THEN "written" ELSE "absent"]
        /\ pin = [j \in Projects |-> LET ref == RefOf(s.ref[j]) IN
                    [commit |-> CHOOSE k \in Names[ref] : TRUE, hash |-> "good",
                     ref |-> ref, old |-> TRUE]]
        /\ decl = [j \in Projects |-> [ref |-> s.ref[j], rest |-> 0]] /\ build = decl
        /\ set = [p \in Procs |-> decl[project[p]]]
        /\ commit = [p \in Procs |-> pin[project[p]].commit]
  BY Zenon DEF Init
<1>1. TypeOK
  <2>1. s.project \in [Procs -> Projects] /\ s.ref \in [Projects -> Refs \cup {NoRef}]
    BY DepsAssumption
  <2>2. ASSUME NEW j \in Projects PROVE pin[j] \in Pin /\ decl[j] \in Decl
    <3>1. s.ref[j] \in Refs \cup {NoRef} /\ RefOf(s.ref[j]) \in Refs
      BY <2>1, RefOfRef
    <3>2. (CHOOSE k \in Names[RefOf(s.ref[j])] : TRUE) \in Commits
      <4> DEFINE n == Names[RefOf(s.ref[j])]
      <4>1. n \subseteq Commits /\ n # {}
        <5>1. n \in (SUBSET Commits) \ {{}}
          BY <3>1, DepsAssumption
        <5> QED
          BY <5>1
      <4>2. \E k : k \in n
        <5> HIDE DEF n
        <5> QED
          BY <4>1
      <4>3. (CHOOSE k \in n : TRUE) \in n
        BY <4>2, Zenon
      <4> QED
        BY <4>1, <4>3
    <3>3. pin[j] = [commit |-> CHOOSE k \in Names[RefOf(s.ref[j])] : TRUE, hash |-> "good",
                    ref |-> RefOf(s.ref[j]), old |-> TRUE]
      BY <1>0
    <3> QED
      BY <1>0, <3>1, <3>2, <3>3 DEF Pin, Decl
  <2>3. TypeFiles
    <3>1. DOMAIN pin = Projects /\ pin = [j \in Projects |-> pin[j]]
      BY <1>0
    <3>2. decl = [j \in Projects |-> decl[j]] /\ build = decl
      BY <1>0
    <3>3. pin \in [Projects -> Pin] /\ decl \in [Projects -> Decl]
      BY <2>2, <3>1, <3>2
    <3>4. project \in [Procs -> Projects] /\ lock \in [Projects -> {"absent", "written", "torn"}]
      BY <1>0, <2>1
    <3> QED
      BY <3>2, <3>3, <3>4 DEF TypeFiles
  <2>4. TypeCache
    BY DEF Init, TypeCache
  <2>5. TypePc
    BY DEF Init, TypePc
  <2>6. TypeRead
    <3>1. ASSUME NEW p \in Procs PROVE decl[project[p]] \in Decl /\ pin[project[p]].commit \in Commits
      BY <2>3 DEF TypeFiles, Pin
    <3>2. set \in [Procs -> Decl] /\ commit \in [Procs -> Commits]
      BY <1>0, <3>1
    <3> QED
      BY <3>2 DEF Init, TypeRead
  <2>7. TypeClean
    <3>1. MaxCrashes \in Nat
      BY DepsAssumption
    <3>2. clean = {} /\ cleaned = FALSE /\ orphans = {} /\ crashes = 0
      BY DEF Init
    <3>3. crashes \in 0..MaxCrashes
      BY <3>1, <3>2
    <3>4. cleaners \subseteq Cleaners
      BY <1>0, DepsAssumption
    <3> QED
      BY <3>2, <3>3, <3>4 DEF TypeClean
  <2> QED
    BY <2>3, <2>4, <2>5, <2>6, <2>7, TypeParts
<1>2. CacheSound
  <2>1. \A k \in Commits : tree[k] # "partial"
    BY DEF Init
  <2>2. \A j \in Projects : lock[j] # "torn" /\ pin[j].hash = "good"
    BY <1>0
  <2> QED
    BY <2>1, <2>2 DEF CacheSound
<1>3. clean = {} /\ \A p \in Procs : PinAt(p) /\ GoodAt(p)
  BY DEF Init, PinAt, GoodAt, Running
<1> QED
  BY <1>1, <1>2, <1>3 DEF DepsInv

\* A build has a project and a commit.
LEMMA WantFacts ==
  ASSUME TypeOK, NEW p \in Procs
  PROVE  project[p] \in Projects /\ commit[p] \in Commits
BY DEF TypeOK

\* A step of p that writes no lock and leaves the trees complete: the lock files
\* stay as good as they were.
LEMMA Onward ==
  ASSUME DepsInv, TypeOK', NEW p \in Procs,
         \A q \in Procs \ {p} : pc'[q] = pc[q], pc'[p] # "rewrite",
         pc[p] # "rewrite" \/ project[p] \in orphans', orphans \subseteq orphans',
         UNCHANGED <<lock, pin, project, clean, cleaned>>,
         ~cleaned => \A k \in Commits : tree'[k] # "partial",
         PinAt(p)', ~cleaned => GoodAt(p)',
         \A q \in Procs \ {p} : /\ have'[q] = have[q] /\ hash'[q] = hash[q]
                                /\ commit'[q] = commit[q] /\ set'[q] = set[q]
                                /\ update'[q] = update[q]
  PROVE  DepsInv'
<1>1. \A q \in Procs : PinAt(q)' /\ (~cleaned => GoodAt(q)')
  BY DEF DepsInv, PinAt, GoodAt
<1>2. CacheSound'
  <2> SUFFICES ASSUME ~cleaned, NEW j \in Projects, lock[j] = "torn"
               PROVE  j \in orphans' \/ \E q \in Procs : project[q] = j /\ pc'[q] = "rewrite"
    BY DEF DepsInv, CacheSound
  <2>1. CASE j \in orphans
    BY <2>1
  <2>2. ASSUME NEW q \in Procs, project[q] = j, pc[q] = "rewrite"
        PROVE  j \in orphans' \/ pc'[q] = "rewrite"
    BY <2>2
  <2> QED
    BY <2>1, <2>2 DEF DepsInv, CacheSound
<1> QED
  BY <1>1, <1>2 DEF DepsInv

\* Every step is of the types.
LEMMA TypeNext == TypeOK /\ [Next]_vars => TypeOK'
<1> SUFFICES ASSUME TypeFiles, TypeCache, TypePc, TypeRead, TypeClean, [Next]_vars
             PROVE  TypeFiles' /\ TypeCache' /\ TypePc' /\ TypeRead' /\ TypeClean'
  BY TypeParts DEF TypeOK, TypeFiles, TypeCache, TypePc, TypeRead, TypeClean
<1>0. TypeOK
  BY TypeParts
<1> USE DEF Go, Free, Fail, cache, files, read, other, cases
<1>1. /\ UNCHANGED <<project, files>> => TypeFiles'
      /\ UNCHANGED cache => TypeCache'
      /\ UNCHANGED pc => TypePc'
      /\ UNCHANGED <<read, commit, hash>> => TypeRead'
      /\ UNCHANGED <<cleaners, clean, cleaned, orphans, crashes>> => TypeClean'
  BY DEF TypeFiles, TypeCache, TypePc, TypeRead, TypeClean
<1>2. ASSUME NEW p \in Procs, NEW to \in Running \cup {"idle", "ok", "failed"}, Go(p, to) PROVE TypePc'
  BY <1>2 DEF TypePc
<1>3. ASSUME NEW p \in Procs, Free(p) PROVE flock' \in [Commits -> Procs \cup {NoProc}]
  BY <1>3 DEF TypeCache
<1>4. ASSUME NEW p \in Procs, Load(p) PROVE TypePc' /\ TypeRead'
  <2>1. project[p] \in Projects
    BY <1>0, WantFacts
  <2>2. pin[project[p]] \in Pin /\ decl[project[p]] \in Decl
    BY <2>1 DEF TypeFiles
  <2>3. TypePc'
    BY <1>4, <1>2 DEF Load, Running
  <2>4. /\ set' \in [Procs -> Decl] /\ have' \in [Procs -> SUBSET Pin]
        /\ UNCHANGED <<commit, hash>>
    BY <1>4, <2>2 DEF Load, TypeRead
  <2>5. update' \in [Procs -> BOOLEAN]
    <3>1. \/ update' = update
          \/ \E b \in BOOLEAN : update' = [update EXCEPT ![p] = b]
      BY <1>4 DEF Load
    <3> QED
      BY <3>1 DEF TypeRead
  <2> QED
    BY <2>3, <2>4, <2>5 DEF TypeRead
<1>5. ASSUME NEW p \in Procs, Build(p)
      PROVE  TypeFiles' /\ TypeCache' /\ TypePc' /\ TypeRead' /\ TypeClean'
  <2>1. project[p] \in Projects /\ commit[p] \in Commits
    BY <1>0, WantFacts
  <2>2. TypePc'
    BY <1>2, <1>5 DEF Build, Resolve, Stat, Flock, Recheck, Mirror, CloneDir, CloneInit, CloneFill,
                      Extract, Publish, Verify, Truncate, Rewrite, Running
  <2>0. CASE Resolve(p)
    <3>1. ASSUME NEW k \in have[p] PROVE k.commit \in Commits
      BY DEF TypeRead, Pin
    <3>2. Names[RefOf(set[p].ref)] \subseteq Commits
      <4>1. set[p].ref \in Refs \cup {NoRef}
        BY DEF TypeRead, Decl
      <4> QED
        BY <4>1, RefOfRef, DepsAssumption
    <3>3. commit' \in [Procs -> Commits]
      BY <2>0, <3>1, <3>2 DEF Resolve, TypeRead
    <3>4. TypeRead'
      BY <2>0, <3>3 DEF Resolve, TypeRead
    <3> QED
      BY <1>1, <2>2, <2>0, <3>4 DEF Resolve
  <2>3. CASE Stat(p)
    BY <1>1, <2>2, <2>3 DEF Stat
  <2>4. CASE Flock(p) \/ Recheck(p)
    <3>1. TypeCache'
      BY <1>3, <2>1, <2>4 DEF Flock, Recheck, TypeCache
    <3> QED
      BY <1>1, <2>2, <2>4, <3>1 DEF Flock, Recheck
  <2>5. CASE Mirror(p) \/ CloneDir(p) \/ CloneInit(p) \/ CloneFill(p)
    <3>1. mirror' \in {"absent", "dir", "empty", "full"} /\ tree' = tree
      BY <2>5 DEF Mirror, CloneDir, CloneInit, CloneFill, TypeCache
    <3>2. flock' \in [Commits -> Procs \cup {NoProc}]
      BY <1>3, <2>5 DEF Mirror, CloneDir, CloneInit, CloneFill, TypeCache
    <3>3. TypeCache'
      BY <3>1, <3>2 DEF TypeCache
    <3> QED
      BY <1>1, <2>2, <2>5, <3>3 DEF Mirror, CloneDir, CloneInit, CloneFill
  <2>6. CASE Extract(p) \/ Publish(p)
    <3>1. flock' \in [Commits -> Procs \cup {NoProc}] /\ mirror' = mirror
      BY <1>3, <2>6 DEF Extract, Publish, TypeCache
    <3>2. tree' \in [Commits -> {"absent", "partial", "full"}]
      BY <2>1, <2>6 DEF Extract, Publish, TypeCache
    <3>3. TypeCache'
      BY <3>1, <3>2 DEF TypeCache
    <3> QED
      BY <1>1, <2>2, <2>6, <3>3 DEF Extract, Publish
  <2>7. CASE Verify(p)
    <3>1. TypeRead'
      BY <2>7 DEF Verify, TypeRead
    <3> QED
      BY <1>1, <2>2, <2>7, <3>1 DEF Verify
  <2>8. CASE Truncate(p)
    <3>1. TypeFiles'
      BY <2>1, <2>8 DEF Truncate, TypeFiles
    <3> QED
      BY <1>1, <2>2, <2>8, <3>1 DEF Truncate
  <2>9. CASE Rewrite(p)
    <3>1. /\ hash[p] \in {"good", "bad"} /\ set[p] \in Decl /\ set[p].ref \in Refs \cup {NoRef}
      BY DEF TypeRead, Decl
    <3>2. [commit |-> commit[p], hash |-> hash[p],
           ref |-> RefOf(set[p].ref), old |-> FALSE] \in Pin
      BY <2>1, <3>1, RefOfRef DEF Pin
    <3>3. TypeFiles'
      BY <2>1, <2>9, <3>1, <3>2 DEF Rewrite, TypeFiles
    <3>4. TypeClean'
      BY <2>9 DEF Rewrite, TypeClean
    <3> QED
      BY <1>1, <2>2, <2>9, <3>3, <3>4 DEF Rewrite
  <2> QED
    BY <1>5, <2>0, <2>3, <2>4, <2>5, <2>6, <2>7, <2>8, <2>9 DEF Build
<1>6. ASSUME NEW p \in Procs, Edit(p)
      PROVE  TypeFiles' /\ TypeCache' /\ TypePc' /\ TypeRead' /\ TypeClean'
  <2>1. TypeFiles'
    <3>1. PICK e \in Edits : decl' = [decl EXCEPT ![project[p]] = [ref |-> e[2], rest |-> 1]]
      BY <1>6, Zenon DEF Edit
    <3>2. [ref |-> e[2], rest |-> 1] \in Decl
      BY DepsAssumption DEF Decl
    <3>3. decl' \in [Projects -> Decl]
      <4>1. decl \in [Projects -> Decl] /\ project[p] \in Projects
        BY <1>0, WantFacts DEF TypeFiles
      <4> QED
        BY <3>1, <3>2, <4>1
    <3>4. UNCHANGED <<project, lock, pin, build>>
      BY <1>6 DEF Edit
    <3> QED
      BY <3>3, <3>4 DEF TypeFiles
  <2>2. TypePc'
    BY <1>6 DEF Edit, TypePc
  <2> QED
    BY <1>1, <1>6, <2>1, <2>2 DEF Edit
<1>7. ASSUME NEW p \in Procs, Kill(p)
      PROVE  TypeFiles' /\ TypeCache' /\ TypePc' /\ TypeRead' /\ TypeClean'
  <2>1. TypeCache' /\ TypePc'
    BY <1>2, <1>3, <1>7 DEF Kill, TypeCache
  <2>2. TypeClean'
    <3>1. crashes' \in 0..MaxCrashes
      BY <1>7, DepsAssumption DEF Kill, TypeClean
    <3>2. orphans' \subseteq Projects /\ UNCHANGED <<cleaners, clean, cleaned>>
      BY <1>0, <1>7, WantFacts DEF Kill, TypeClean
    <3> QED
      BY <3>1, <3>2 DEF TypeClean
  <2> QED
    BY <1>1, <1>7, <2>1, <2>2 DEF Kill
<1>8. ASSUME NEW c \in Cleaners, CleanBegin(c) \/ CleanTree(c) \/ CleanRest(c) \/ CleanEnd(c)
      PROVE  TypeFiles' /\ TypeCache' /\ TypePc' /\ TypeRead' /\ TypeClean'
  <2>1. TypeFiles' /\ TypePc' /\ TypeRead'
    BY <1>1, <1>8 DEF CleanBegin, CleanTree, CleanRest, CleanEnd
  <2>2. TypeClean'
    BY <1>8 DEF CleanBegin, CleanTree, CleanRest, CleanEnd, TypeClean
  <2>3. ASSUME CleanTree(c) PROVE TypeCache'
    BY <2>3 DEF CleanTree, TypeCache
  <2>4. ASSUME CleanRest(c) PROVE TypeCache'
    BY <2>4 DEF CleanRest, TypeCache
  <2>5. ASSUME CleanBegin(c) \/ CleanEnd(c) PROVE TypeCache'
    BY <1>1, <2>5 DEF CleanBegin, CleanEnd
  <2>6. TypeCache'
    BY <1>8, <2>3, <2>4, <2>5
  <2> QED
    BY <2>1, <2>2, <2>6
<1>9. ASSUME NEW p \in Procs, Load(p)
      PROVE  TypeFiles' /\ TypeCache' /\ TypePc' /\ TypeRead' /\ TypeClean'
  BY <1>1, <1>4, <1>9 DEF Load
<1>10. CASE UNCHANGED vars
  BY <1>1, <1>10 DEF vars
<1> QED
  BY <1>5, <1>6, <1>7, <1>8, <1>9, <1>10 DEF Next

\* Every step preserves the invariant.
LEMMA DepsNext == DepsInv /\ [Next]_vars => DepsInv'
<1> SUFFICES ASSUME DepsInv, [Next]_vars PROVE DepsInv'
  OBVIOUS
<1>0. TypeOK /\ TypeOK' /\ DOMAIN pc = Procs
  BY TypeNext DEF DepsInv, TypeOK
<1> USE DEF Go, Free, Fail, cache, files, read, other, cases
<1>1. ASSUME NEW p \in Procs, Load(p) PROVE DepsInv'
  <2>1. pc[p] = "idle" /\ pc'[p] \in {"failed", "resolve"} /\ \A q \in Procs \ {p} : pc'[q] = pc[q]
    BY <1>0, <1>1 DEF Load
  <2>2. \A q \in Procs \ {p} : /\ have'[q] = have[q] /\ hash'[q] = hash[q]
                               /\ commit'[q] = commit[q] /\ set'[q] = set[q]
                               /\ update'[q] = update[q]
    BY <1>0, <1>1 DEF Load, TypeOK
  <2>3. UNCHANGED <<lock, pin, tree, project, clean, cleaned, orphans>>
    BY <1>1 DEF Load
  <2>4. PinAt(p)' /\ GoodAt(p)'
    <3>1. \A i, m \in have'[p] : i = m
      <4>1. \/ have' = have
            \/ have' = [have EXCEPT ![p] = {}]
            \/ have' = [have EXCEPT ![p] = {pin[project[p]]}]
        BY <1>1 DEF Load
      <4> QED
        BY <1>0, <4>1 DEF DepsInv, PinAt, TypeOK
    <3> QED
      BY <2>1, <3>1 DEF PinAt, GoodAt, Running
  <2>5. ~cleaned => \A k \in Commits : tree'[k] # "partial"
    BY <2>3 DEF DepsInv, CacheSound
  <2> QED
    BY <1>0, <2>1, <2>2, <2>3, <2>4, <2>5, Onward
<1>2. ASSUME NEW p \in Procs, Build(p) PROVE DepsInv'
  <2>1. project[p] \in Projects /\ commit[p] \in Commits
    BY <1>0, WantFacts
  <2>2. ASSUME pc[p] \in Running \ {"resolve", "rewrite"},
               \A q \in Procs \ {p} : pc'[q] = pc[q], pc'[p] \notin {"write", "rewrite"},
               UNCHANGED <<lock, pin, read, commit, hash, other>>,
               ~cleaned => \A k \in Commits : tree'[k] # "partial"
        PROVE  DepsInv'
    <3>1. PinAt(p)' /\ GoodAt(p)'
      BY <2>2 DEF DepsInv, PinAt, GoodAt
    <3>2. UNCHANGED <<lock, pin, project, clean, cleaned, orphans, have, hash, commit, set, update>>
      BY <2>2
    <3> QED
      BY <1>0, <2>2, <3>1, <3>2, Onward
  <2>3. ~cleaned => \A k \in Commits : tree[k] # "partial"
    BY DEF DepsInv, CacheSound
  <2>10. CASE Resolve(p)
    <3>1. /\ pc[p] = "resolve" /\ pc'[p] \in {"stat", "failed"}
          /\ \A q \in Procs \ {p} : pc'[q] = pc[q]
          /\ UNCHANGED <<lock, pin, tree, have, hash, set, update, project, clean, cleaned, orphans>>
      BY <1>0, <2>10 DEF Resolve
    <3>2. \A q \in Procs \ {p} : commit'[q] = commit[q]
      BY <1>0, <2>10 DEF Resolve, TypeOK
    <3>3. ASSUME pc'[p] # "failed", update[p], NEW k \in have[p]
          PROVE  Stale(k, set[p]) \/ k.commit = commit'[p]
      <4>0. \A i, m \in have[p] : i = m
        BY DEF DepsInv, PinAt
      <4> QED
        BY <1>0, <2>10, <3>3, <4>0 DEF Resolve, TypeOK, pinIsCurrent
    <3>4. PinAt(p)' /\ GoodAt(p)'
      BY <3>1, <3>3 DEF DepsInv, PinAt, GoodAt, Running
    <3> QED
      BY <1>0, <2>3, <3>1, <3>2, <3>4, Onward
  <2>4. CASE Stat(p) \/ Flock(p) \/ Recheck(p) \/ Extract(p)
    <3>1. pc[p] \in Running \ {"resolve", "rewrite"} /\ UNCHANGED <<lock, pin, tree, read, commit, hash, other>>
      BY <2>4 DEF Stat, Flock, Recheck, Extract, Running
    <3>2. pc'[p] \in {"hash", "flock", "recheck", "mirror", "publish", "failed"}
          /\ \A q \in Procs \ {p} : pc'[q] = pc[q]
      BY <1>0, <2>4 DEF Stat, Flock, Recheck, Extract
    <3> QED
      BY <2>2, <2>3, <3>1, <3>2
  <2>5. CASE Mirror(p) \/ CloneDir(p) \/ CloneInit(p) \/ CloneFill(p)
    <3>1. pc[p] \in Running \ {"resolve", "rewrite"} /\ UNCHANGED <<lock, pin, tree, read, commit, hash, other>>
      BY <2>5 DEF Mirror, CloneDir, CloneInit, CloneFill, Running
    <3>2. pc'[p] \in {"mkdir", "init", "fill", "extract", "failed"}
          /\ \A q \in Procs \ {p} : pc'[q] = pc[q]
      BY <1>0, <2>5 DEF Mirror, CloneDir, CloneInit, CloneFill
    <3> QED
      BY <2>2, <2>3, <3>1, <3>2
  <2>6. CASE Publish(p)
    <3>1. ~cleaned => \A k \in Commits : tree'[k] # "partial"
      BY <1>0, <2>3, <2>6 DEF Publish, TypeOK
    <3>2. pc[p] \in Running \ {"resolve", "rewrite"} /\ UNCHANGED <<lock, pin, read, commit, hash, other>>
      BY <2>6 DEF Publish, Running
    <3>3. pc'[p] \in {"hash", "failed"} /\ \A q \in Procs \ {p} : pc'[q] = pc[q]
      BY <1>0, <2>6 DEF Publish
    <3> QED
      BY <2>2, <3>1, <3>2, <3>3
  <2>7. CASE Verify(p)
    <3>1. pc[p] = "hash"
          /\ UNCHANGED <<lock, pin, tree, read, commit, other>>
      BY <2>7 DEF Verify
    <3>2. pc'[p] \in {"write", "ok", "failed"} /\ \A q \in Procs \ {p} : pc'[q] = pc[q]
      BY <1>0, <2>7 DEF Verify
    <3>3. ASSUME pc'[p] = "write"
          PROVE  /\ update[p] /\ \A k \in have[p] : k.commit = commit[p] => k.hash = hash'[p]
                 /\ ~cleaned => hash'[p] = "good"
      <4> DEFINE h == IF tree[commit[p]] = "full" THEN "good" ELSE "bad"
      <4>1. /\ tree[commit[p]] # "absent" /\ \A k \in have[p] : k.commit = commit[p] => k.hash = h
            /\ hash' = [hash EXCEPT ![p] = h]
            /\ pc'[p] = IF update[p] THEN "write" ELSE "ok"
        BY <1>0, <2>7, <3>3 DEF Verify
      <4>2. tree[commit[p]] \in {"absent", "partial", "full"} /\ p \in DOMAIN hash
        BY <1>0, <2>1 DEF TypeOK
      <4>3. hash'[p] = h
        BY <4>1, <4>2
      <4> QED
        BY <2>1, <2>3, <3>3, <4>1, <4>2, <4>3
    <3>4. \A q \in Procs \ {p} : hash'[q] = hash[q]
      BY <1>0, <2>7 DEF Verify, TypeOK
    <3>5. pc[p] \in Running \ {"resolve"}
      BY <3>1 DEF Running
    <3>6. PinAt(p)' /\ (~cleaned => GoodAt(p)')
      BY <3>1, <3>2, <3>3, <3>5 DEF DepsInv, PinAt, GoodAt
    <3> QED
      BY <1>0, <2>3, <3>1, <3>2, <3>4, <3>6, Onward
  <2>8. CASE Truncate(p)
    <3>1. /\ pc[p] = "write" /\ pc'[p] = "rewrite" /\ \A q \in Procs \ {p} : pc'[q] = pc[q]
          /\ lock' = [lock EXCEPT ![project[p]] = "torn"]
          /\ UNCHANGED <<pin, tree, read, commit, hash, other>>
      BY <1>0, <2>8 DEF Truncate, TypeOK
    <3>2. CacheSound'
      BY <1>0, <2>1, <3>1 DEF DepsInv, CacheSound, TypeOK
    <3>3. \A q \in Procs : PinAt(q)' /\ (~cleaned => GoodAt(q)')
      BY <3>1 DEF DepsInv, PinAt, GoodAt, Running
    <3> QED
      BY <1>0, <3>1, <3>2, <3>3 DEF DepsInv
  <2>9. CASE Rewrite(p)
    <3>1. /\ pc[p] = "rewrite" /\ pc'[p] = "ok" /\ \A q \in Procs \ {p} : pc'[q] = pc[q]
          /\ lock' = [lock EXCEPT ![project[p]] = "written"]
          /\ pin' = [pin EXCEPT ![project[p]] = [commit |-> commit[p], hash |-> hash[p],
                                                 ref |-> RefOf(set[p].ref), old |-> FALSE]]
          /\ orphans' = orphans \ {project[p]}
          /\ UNCHANGED <<tree, read, commit, hash, project, clean, cleaned>>
      BY <1>0, <2>9 DEF Rewrite, TypeOK
    <3>2. ~cleaned => hash[p] = "good"
      BY <3>1 DEF DepsInv, GoodAt
    <3>3. CacheSound'
      <4> SUFFICES ASSUME ~cleaned, NEW j \in Projects
                   PROVE  /\ lock'[j] = "written" => pin'[j].hash = "good"
                          /\ lock'[j] = "torn" => \/ j \in orphans'
                                                  \/ \E q \in Procs : project[q] = j /\ pc'[q] = "rewrite"
        BY <2>3, <3>1 DEF CacheSound
      <4>1. CASE j = project[p]
        BY <1>0, <3>1, <3>2, <4>1 DEF TypeOK
      <4>2. CASE j # project[p]
        <5>1. lock'[j] = lock[j] /\ pin'[j] = pin[j] /\ (j \in orphans' <=> j \in orphans)
          BY <1>0, <3>1, <4>2 DEF TypeOK
        <5>2. ASSUME NEW q \in Procs, project[q] = j, pc[q] = "rewrite" PROVE pc'[q] = "rewrite"
          BY <3>1, <4>2, <5>2
        <5> QED
          BY <5>1, <5>2 DEF DepsInv, CacheSound
      <4> QED
        BY <4>1, <4>2
    <3>4. \A q \in Procs : PinAt(q)' /\ (~cleaned => GoodAt(q)')
      BY <3>1 DEF DepsInv, PinAt, GoodAt, Running
    <3> QED
      BY <1>0, <3>1, <3>3, <3>4 DEF DepsInv
  <2> QED
    BY <1>2, <2>4, <2>5, <2>6, <2>7, <2>8, <2>9, <2>10 DEF Build
<1>3. ASSUME NEW p \in Procs, Edit(p) \/ Kill(p) PROVE DepsInv'
  <2>1. /\ Go(p, "idle") /\ UNCHANGED <<lock, pin, tree, read, commit, hash, project, clean, cleaned>>
        /\ pc[p] # "rewrite" \/ project[p] \in orphans'
        /\ orphans \subseteq orphans'
    BY <1>3 DEF Edit, Kill
  <2>2. pc'[p] = "idle" /\ \A q \in Procs \ {p} : pc'[q] = pc[q]
    BY <1>0, <2>1
  <2>3. PinAt(p)' /\ GoodAt(p)'
    BY <2>1, <2>2 DEF DepsInv, PinAt, GoodAt, Running
  <2>4. ~cleaned => \A k \in Commits : tree'[k] # "partial"
    BY <2>1 DEF DepsInv, CacheSound
  <2> QED
    BY <1>0, <2>1, <2>2, <2>3, <2>4, Onward
<1>4. ASSUME NEW c \in Cleaners, CleanBegin(c) \/ CleanTree(c) \/ CleanRest(c) \/ CleanEnd(c)
      PROVE  DepsInv'
  <2>1. UNCHANGED <<pc, read, commit, hash>>
    BY <1>4 DEF CleanBegin, CleanTree, CleanRest, CleanEnd
  <2>2. cleaned'
    BY <1>4 DEF CleanBegin, CleanTree, CleanRest, CleanEnd, DepsInv
  <2>3. \A q \in Procs : PinAt(q)'
    BY <2>1 DEF DepsInv, PinAt
  <2> QED
    BY <1>0, <2>2, <2>3 DEF DepsInv, CacheSound
<1>5. CASE UNCHANGED vars
  BY <1>0, <1>5 DEF vars, DepsInv, CacheSound, PinAt, GoodAt
<1> QED
  BY <1>1, <1>2, <1>3, <1>4, <1>5 DEF Next

\* Type correctness of the processes, the cache and the lock files.
THEOREM DepsTypes == Spec => []TypeOK
<1>1. DepsInv => TypeOK
  BY DEF DepsInv
<1> QED
  BY <1>1, DepsInit, DepsNext, PTL DEF Spec

\* For any number of projects, commits, builds and kills: as long as no cache clean
\* has begun, every entry of the cache is a complete tree, every lock file pins a
\* good hash, and it is torn only by a writer at work or killed before it wrote.
THEOREM CacheIsSound == Spec => []CacheSound
<1>1. DepsInv => CacheSound
  BY DEF DepsInv
<1> QED
  BY <1>1, DepsInit, DepsNext, PTL DEF Spec

\* No build replaces a pin that is not stale, nor the hash of one it keeps the commit
\* of, whatever the refs name upstream and while any number of cleaners take the
\* cache away under it.
THEOREM PinsHold == Spec => PinHolds
<1>1. DepsInv /\ [Next]_vars
        => [\A p \in Procs : pc[p] = "rewrite" /\ pc'[p] = "ok" =>
              \A k \in have[p] : LET new == pin'[project[p]] IN
                IF new.commit = k.commit THEN new.hash = k.hash ELSE Stale(k, set[p])]_vars
  <2> SUFFICES ASSUME DepsInv, Next, NEW p \in Procs,
                      pc[p] = "rewrite", pc'[p] = "ok", NEW k \in have[p]
               PROVE  IF pin'[project[p]].commit = k.commit
                      THEN pin'[project[p]].hash = k.hash ELSE Stale(k, set[p])
    OBVIOUS
  <2>0. TypeOK
    BY DEF DepsInv
  <2> USE DEF Go, Free, Fail
  <2>1. ASSUME NEW q \in Procs, Load(q) \/ Build(q) \/ Edit(q) \/ Kill(q)  PROVE q = p
    <3>1. PICK to : Go(q, to)
      BY <2>1 DEF Load, Build, Edit, Kill, Resolve, Stat, Flock, Recheck, Mirror, CloneDir,
                  CloneInit, CloneFill, Extract, Publish, Verify, Truncate, Rewrite
    <3> QED
      BY <2>0, <3>1 DEF TypeOK
  <2>2. ASSUME NEW c \in Cleaners, CleanBegin(c) \/ CleanTree(c) \/ CleanRest(c) \/ CleanEnd(c)
        PROVE  FALSE
    BY <2>2 DEF CleanBegin, CleanTree, CleanRest, CleanEnd
  <2>3. Load(p) \/ Build(p) \/ Edit(p) \/ Kill(p)
    BY <2>1, <2>2 DEF Next
  <2>4. Rewrite(p)
    <3>1. ~Load(p) /\ ~Edit(p)
      BY DEF Load, Edit
    <3>2. ~Kill(p)
      BY <2>0 DEF Kill, TypeOK
    <3> QED
      BY <2>3, <3>1, <3>2 DEF Build, Resolve, Stat, Flock, Recheck, Mirror, CloneDir, CloneInit,
                              CloneFill, Extract, Publish, Verify, Truncate
  <2>5. pin'[project[p]].commit = commit[p] /\ pin'[project[p]].hash = hash[p]
    <3>1. project[p] \in Projects /\ DOMAIN pin = Projects
      BY <2>0, WantFacts DEF TypeOK
    <3> QED
      BY <2>4, <3>1 DEF Rewrite
  <2>6. /\ Stale(k, set[p]) \/ k.commit = commit[p]
        /\ k.commit = commit[p] => k.hash = hash[p]
    BY DEF DepsInv, PinAt, Running
  <2> QED
    BY <2>5, <2>6
<1> QED
  BY <1>1, DepsInit, DepsNext, PTL DEF Spec, PinHolds
-------------------------------------------------------------------------------
(***************************************************************************)
(* Nrepl.                                                                  *)
(***************************************************************************)
\* What is on a queue, and that nothing is on it twice.
Items(q) == {q[i] : i \in DOMAIN q}
Distinct(q) == \A i, j \in DOMAIN q : q[i] = q[j] => i = j

\* What joins a queue is new to it or makes it hold a thing twice.
LEMMA AppendItems ==
  ASSUME NEW S, NEW q \in Seq(S), NEW x \in S
  PROVE  /\ Append(q, x) \in Seq(S) /\ Items(Append(q, x)) = Items(q) \cup {x}
         /\ Distinct(q) /\ x \notin Items(q) => Distinct(Append(q, x))
<1> DEFINE a == Append(q, x)
<1>1. /\ a \in Seq(S) /\ Len(q) \in Nat /\ DOMAIN q = 1..Len(q) /\ DOMAIN a = 1..(Len(q) + 1)
      /\ \A i \in 1..Len(q) : a[i] = q[i]
      /\ a[Len(q) + 1] = x
  OBVIOUS
<1> HIDE DEF a
<1>2. \A i \in DOMAIN a : i \in DOMAIN q \/ i = Len(q) + 1
  BY <1>1
<1>3. Len(q) + 1 \in DOMAIN a /\ Len(q) + 1 \notin DOMAIN q /\ \A i \in DOMAIN q : i \in DOMAIN a /\ a[i] = q[i]
  BY <1>1
<1>4. Items(a) = Items(q) \cup {x}
  BY <1>1, <1>2, <1>3 DEF Items
<1>5. Distinct(q) /\ x \notin Items(q) => Distinct(a)
  BY <1>1, <1>2, <1>3 DEF Items, Distinct
<1> QED
  BY <1>1, <1>4, <1>5 DEF a

\* The head leaves a queue.
LEMMA TailItems ==
  ASSUME NEW S, NEW q \in Seq(S), q # <<>>
  PROVE  /\ Tail(q) \in Seq(S) /\ Head(q) \in Items(q) /\ Items(Tail(q)) \subseteq Items(q)
         /\ Distinct(q) => Distinct(Tail(q)) /\ Head(q) \notin Items(Tail(q))
<1> DEFINE t == Tail(q)
<1>1. /\ t \in Seq(S) /\ Len(q) \in Nat /\ Len(q) > 0 /\ DOMAIN q = 1..Len(q)
      /\ DOMAIN t = 1..(Len(q) - 1) /\ Head(q) = q[1]
      /\ \A i \in 1..(Len(q) - 1) : t[i] = q[i + 1]
  OBVIOUS
<1> HIDE DEF t
<1>2. 1 \in DOMAIN q /\ \A i \in DOMAIN t : i + 1 \in DOMAIN q /\ i + 1 # 1 /\ t[i] = q[i + 1]
  BY <1>1
<1>3. Head(q) \in Items(q) /\ Items(t) \subseteq Items(q)
  BY <1>1, <1>2 DEF Items
<1>4. ASSUME Distinct(q) PROVE Distinct(t) /\ Head(q) \notin Items(t)
  <2>1. \A i, j \in DOMAIN t : t[i] = t[j] => i + 1 = j + 1
    BY <1>2, <1>4 DEF Distinct
  <2>2. \A i \in DOMAIN t : i \in Nat
    BY <1>1
  <2>3. Distinct(t)
    BY <2>1, <2>2 DEF Distinct
  <2>4. \A i \in DOMAIN t : t[i] # q[1]
    BY <1>2, <1>4 DEF Distinct
  <2> QED
    BY <1>1, <2>3, <2>4 DEF Items
<1> QED
  BY <1>1, <1>3, <1>4 DEF t

\* A connection has a message in hand that it has neither answered nor queued.
InHand(c) == cpc[c] \in {"deliver", "close", "queue"}

\* m is a message that was read and is not in hand any more.
Settled(m) ==
  \E c \in Conns, n \in Nat : m = <<c, n>> /\ n <= nread[c] /\ (InHand(c) => n < nread[c])

NreplTypes ==
  /\ made \in Nat /\ nread \in [Conns -> Nat] /\ DOMAIN cpc = Conns
  /\ reqs \in [Sessions -> Seq(Conns \X Nat)]
  /\ DOMAIN spc = Sessions /\ DOMAIN cur = Sessions /\ busy \in [Sessions -> BOOLEAN]

\* A request is on one queue, once, and unanswered; so is the one a session has in
\* hand, which is on no queue.
Queues ==
  \A s \in Sessions :
    /\ Distinct(reqs[s])
    /\ \A m \in Items(reqs[s]) : m \notin answered /\ Settled(m)
    /\ \A u \in Sessions : u # s => Items(reqs[s]) \cap Items(reqs[u]) = {}
Hands ==
  \A s \in Sessions : cur[s] # NoReq =>
    /\ cur[s] \notin answered /\ Settled(cur[s])
    /\ \A u \in Sessions : cur[s] \notin Items(reqs[u]) /\ (u # s => cur[u] # cur[s])
Answers == \A m \in answered : Settled(m)

\* A session at work has a request; it is busy only while it runs one.
Working ==
  \A s \in Sessions :
    /\ spc[s] \in {"take", "run", "reply"} => cur[s] # NoReq
    /\ busy[s] => spc[s] = "run"
    /\ s > made => spc[s] = "none"

\* The inductive invariant behind DoneThenIdle.
NreplInv == NreplTypes /\ Queues /\ Hands /\ Answers /\ Working

\* It holds initially.
LEMMA NreplStart == NreplInit => NreplInv
<1> SUFFICES ASSUME NreplInit PROVE NreplInv
  OBVIOUS
<1>1. NreplTypes
  BY DEF NreplInit, NreplTypes
<1>2. Queues
  BY DEF NreplInit, Queues, Items, Distinct
<1>3. Hands /\ Answers /\ Working
  BY DEF NreplInit, Hands, Answers, Working
<1> QED
  BY <1>1, <1>2, <1>3 DEF NreplInv

\* A message stays settled: connections only read on, and what they have in hand
\* then is new.
Reads ==
  \A c \in Conns : /\ nread'[c] \in Nat /\ nread[c] <= nread'[c]
                   /\ InHand(c)' => InHand(c) \/ nread[c] < nread'[c]
LEMMA StaysSettled ==
  ASSUME NreplTypes, Reads, NEW m, Settled(m)
  PROVE  Settled(m)'
<1>1. PICK c \in Conns, n \in Nat : m = <<c, n>> /\ n <= nread[c] /\ (InHand(c) => n < nread[c])
  BY DEF Settled
<1>2. nread[c] \in Nat /\ nread'[c] \in Nat /\ nread[c] <= nread'[c]
      /\ (InHand(c)' => InHand(c) \/ nread[c] < nread'[c])
  BY DEF NreplTypes, Reads
<1>3. n <= nread'[c] /\ (InHand(c)' => n < nread'[c])
  BY <1>1, <1>2
<1> QED
  BY <1>1, <1>3 DEF Settled

\* A message in hand is not settled.
LEMMA InHandNew ==
  ASSUME NreplTypes, NEW c \in Conns, InHand(c)
  PROVE  ~Settled(<<c, nread[c]>>)
<1>1. nread[c] \in Nat
  BY DEF NreplTypes
<1>2. \A d \in Conns, n \in Nat : <<c, nread[c]>> = <<d, n>> => d = c /\ n = nread[c]
  OBVIOUS
<1> QED
  BY <1>1, <1>2 DEF Settled

\* The requests stay where they are and what is answered was in hand.
LEMMA RequestsKept ==
  ASSUME NreplInv, Reads, reqs' = reqs, cur' = cur,
         \A m \in answered' : m \in answered \/ (~Settled(m) /\ Settled(m)')
  PROVE  Queues' /\ Hands' /\ Answers'
<1>1. \A m : Settled(m) => Settled(m)' /\ (m \in answered' => m \in answered)
  BY StaysSettled DEF NreplInv
<1>2. Queues'
  <2>1. \A s \in Sessions : Distinct(reqs[s])'
    BY DEF NreplInv, Queues, Distinct
  <2>2. \A s \in Sessions : Items(reqs[s])' = Items(reqs[s])
    BY DEF Items
  <2> QED
    BY <1>1, <2>1, <2>2 DEF NreplInv, Queues
<1>3. Hands'
  <2>1. \A s \in Sessions : Items(reqs[s])' = Items(reqs[s])
    BY DEF Items
  <2> QED
    BY <1>1, <2>1 DEF NreplInv, Hands
<1>4. Answers'
  BY <1>1 DEF NreplInv, Answers
<1> QED
  BY <1>2, <1>3, <1>4

\* The connection replies: its message was in hand and is settled.
LEMMA Replies ==
  ASSUME NreplInv, NEW c \in Conns, InHand(c), Reply(c)
  PROVE  /\ nread' \in [Conns -> Nat] /\ DOMAIN cpc' = Conns
         /\ Reads
         /\ \A m \in answered' : m \in answered \/ (~Settled(m) /\ Settled(m)')
<1>1. nread' = nread /\ nread \in [Conns -> Nat] /\ DOMAIN cpc' = Conns
      /\ cpc'[c] = "read" /\ \A d \in Conns \ {c} : cpc'[d] = cpc[d]
  BY DEF NreplInv, NreplTypes, Reply
<1>2. \A d \in Conns : InHand(d)' => InHand(d) /\ d # c
  BY <1>1 DEF InHand
<1>3. Reads
  BY <1>1, <1>2 DEF Reads
<1>4. ~Settled(<<c, nread[c]>>)
  BY InHandNew DEF NreplInv
<1>5. Settled(<<c, nread[c]>>)'
  <2>1. nread'[c] \in Nat /\ nread[c] \in Nat /\ nread[c] <= nread'[c]
    BY <1>1
  <2>2. ~InHand(c)'
    BY <1>2
  <2> QED
    BY <1>1, <2>1, <2>2 DEF Settled
<1>6. answered' = answered \cup {<<c, nread[c]>>}
  BY DEF Reply, Id
<1> QED
  BY <1>1, <1>3, <1>4, <1>5, <1>6

\* A new session has a goroutine and nothing to do.
LEMMA SessionMade ==
  ASSUME NreplInv, NewSession
  PROVE  /\ made' \in Nat /\ reqs' = reqs /\ cur' = cur /\ busy' = busy
         /\ DOMAIN spc' = Sessions /\ Working'
<1>1. /\ made' = made + 1 /\ made \in Nat /\ reqs' = reqs /\ cur' = cur /\ busy' = busy
      /\ made + 1 \in Sessions
  BY DEF NreplInv, NreplTypes, NewSession
<1>2. /\ DOMAIN spc' = Sessions /\ spc'[made + 1] = "select"
      /\ \A s \in Sessions : s # made + 1 => spc'[s] = spc[s]
  BY <1>1 DEF NreplInv, NreplTypes, NewSession
<1>3. ASSUME NEW s \in Sessions
      PROVE  /\ spc'[s] \in {"take", "run", "reply"} => cur'[s] # NoReq
             /\ busy'[s] => spc'[s] = "run"
             /\ s > made' => spc'[s] = "none"
  <2>1. CASE s = made + 1
    <3>1. s > made /\ ~(s > made + 1)
      BY <1>1, <2>1
    <3>2. spc[s] = "none" /\ ~busy[s]
      BY <1>1, <2>1, <3>1 DEF NreplInv, Working
    <3> QED
      BY <1>1, <1>2, <2>1, <3>1, <3>2
  <2>2. CASE s # made + 1
    <3>1. s \in Nat /\ (s > made + 1 => s > made)
      BY <1>1 DEF Sessions
    <3> QED
      BY <1>1, <1>2, <2>2, <3>1 DEF NreplInv, Working
  <2> QED
    BY <2>1, <2>2
<1>4. Working'
  BY <1>3 DEF Working
<1> QED
  BY <1>1, <1>2, <1>4

\* Sessions and their work untouched.
LEMMA WorkKept ==
  ASSUME NreplInv, made' = made, spc' = spc, cur' = cur, busy' = busy
  PROVE  Working'
BY DEF NreplInv, Working

\* A connection that holds its message, or puts down one it has queued, reads nothing.
LEMMA HandsKept ==
  ASSUME NreplInv, nread' = nread, NEW c \in Conns, InHand(c) \/ ~InHand(c)',
         \A d \in Conns \ {c} : cpc'[d] = cpc[d]
  PROVE  Reads
<1>1. \A d \in Conns : InHand(d)' => InHand(d)
  BY DEF InHand
<1>2. \A d \in Conns : nread[d] \in Nat
  BY DEF NreplInv, NreplTypes
<1> QED
  BY <1>1, <1>2 DEF Reads

\* The steps of a connection.
LEMMA ReadStep ==
  ASSUME NreplInv, NEW c \in Conns, Read(c)
  PROVE  NreplInv'
<1>1. /\ nread \in [Conns -> Nat] /\ nread' = [nread EXCEPT ![c] = @ + 1]
      /\ DOMAIN cpc = Conns /\ cpc' = [cpc EXCEPT ![c] = "deliver"]
      /\ UNCHANGED <<made, reqs, spc, busy, cur, answered>>
  BY DEF NreplInv, NreplTypes, Read, sess, work
<1>2. NreplTypes'
  BY <1>1 DEF NreplInv, NreplTypes
<1>3. Reads
  <2>1. \A d \in Conns : d # c => nread'[d] = nread[d] /\ cpc'[d] = cpc[d]
    BY <1>1
  <2>2. nread'[c] = nread[c] + 1
    BY <1>1
  <2>3. ASSUME NEW d \in Conns
        PROVE  /\ nread'[d] \in Nat /\ nread[d] <= nread'[d]
               /\ InHand(d)' => InHand(d) \/ nread[d] < nread'[d]
    <3>1. CASE d = c
      BY <1>1, <2>2, <3>1
    <3>2. CASE d # c
      BY <1>1, <2>1, <3>2 DEF InHand
    <3> QED
      BY <3>1, <3>2
  <2> QED
    BY <2>3 DEF Reads
<1>4. Queues' /\ Hands' /\ Answers'
  BY <1>1, <1>3, RequestsKept
<1>5. Working'
  BY <1>1, WorkKept
<1> QED
  BY <1>2, <1>4, <1>5 DEF NreplInv

LEMMA CloneStep ==
  ASSUME NreplInv, NEW c \in Conns, Clone(c)
  PROVE  NreplInv'
<1>1. InHand(c) /\ Reply(c) /\ NewSession
  BY DEF Clone, InHand
<1>2. /\ made' \in Nat /\ reqs' = reqs /\ cur' = cur /\ busy' = busy
      /\ DOMAIN spc' = Sessions /\ Working'
  BY <1>1, SessionMade
<1>3. /\ nread' \in [Conns -> Nat] /\ DOMAIN cpc' = Conns /\ Reads
      /\ \A m \in answered' : m \in answered \/ (~Settled(m) /\ Settled(m)')
  BY <1>1, Replies
<1>4. NreplTypes'
  BY <1>2, <1>3 DEF NreplInv, NreplTypes
<1>5. Queues' /\ Hands' /\ Answers'
  BY <1>2, <1>3, RequestsKept
<1> QED
  BY <1>2, <1>4, <1>5 DEF NreplInv

LEMMA AnswerStep ==
  ASSUME NreplInv, NEW c \in Conns, Answer(c) \/ CloseQuit(c)
  PROVE  NreplInv'
<1>1. InHand(c) /\ Reply(c) /\ UNCHANGED <<made, reqs, spc, busy, cur>>
  BY DEF Answer, CloseQuit, sess, work, InHand
<1>2. /\ nread' \in [Conns -> Nat] /\ DOMAIN cpc' = Conns /\ Reads
      /\ \A m \in answered' : m \in answered \/ (~Settled(m) /\ Settled(m)')
  BY <1>1, Replies
<1>3. NreplTypes'
  BY <1>1, <1>2 DEF NreplInv, NreplTypes
<1>4. Queues' /\ Hands' /\ Answers'
  BY <1>1, <1>2, RequestsKept
<1>5. Working'
  BY <1>1, WorkKept
<1> QED
  BY <1>3, <1>4, <1>5 DEF NreplInv

LEMMA CloseFindStep ==
  ASSUME NreplInv, NEW c \in Conns, CloseFind(c) \/ Queued(c)
  PROVE  NreplInv'
<1>1. /\ DOMAIN cpc' = Conns /\ \A d \in Conns \ {c} : cpc'[d] = cpc[d]
      /\ UNCHANGED <<made, nread, reqs, spc, busy, cur, answered>>
  BY DEF NreplInv, NreplTypes, CloseFind, Queued, sess, work
<1>2. InHand(c) \/ ~InHand(c)'
  BY DEF NreplInv, NreplTypes, CloseFind, Queued, InHand
<1>3. NreplTypes'
  BY <1>1 DEF NreplInv, NreplTypes
<1>4. Reads
  BY <1>1, <1>2, HandsKept
<1>5. Queues' /\ Hands' /\ Answers'
  BY <1>1, <1>4, RequestsKept
<1>6. Working'
  BY <1>1, WorkKept
<1> QED
  BY <1>3, <1>5, <1>6 DEF NreplInv

LEMMA LookupStep ==
  ASSUME NreplInv, NEW c \in Conns, Lookup(c)
  PROVE  NreplInv'
<1>1. /\ DOMAIN cpc' = Conns /\ \A d \in Conns \ {c} : cpc'[d] = cpc[d]
      /\ UNCHANGED <<nread, answered>> /\ InHand(c)
      /\ UNCHANGED <<made, reqs, spc, busy, cur>> \/ NewSession
  BY DEF NreplInv, NreplTypes, Lookup, sess, work, InHand
<1>2. /\ made' \in Nat /\ reqs' = reqs /\ cur' = cur /\ busy' = busy
      /\ DOMAIN spc' = Sessions /\ Working'
  <2>1. CASE UNCHANGED <<made, reqs, spc, busy, cur>>
    <3>1. Working'
      BY <2>1, WorkKept
    <3> QED
      BY <2>1, <3>1 DEF NreplInv, NreplTypes
  <2>2. CASE NewSession
    BY <2>2, SessionMade
  <2> QED
    BY <1>1, <2>1, <2>2
<1>3. NreplTypes'
  BY <1>1, <1>2 DEF NreplInv, NreplTypes
<1>4. Reads
  BY <1>1, HandsKept
<1>5. Queues' /\ Hands' /\ Answers'
  BY <1>1, <1>2, <1>4, RequestsKept
<1> QED
  BY <1>2, <1>3, <1>5 DEF NreplInv

\* The message that joins a queue was in hand, so it is on no other and unanswered.
LEMMA QueueStep ==
  ASSUME NreplInv, NEW c \in Conns, Queue(c)
  PROVE  NreplInv'
<1>0. PICK x, s : x = <<c, nread[c]>> /\ s = target[c]
  OBVIOUS
<1>1. /\ DOMAIN cpc' = Conns /\ \A d \in Conns \ {c} : cpc'[d] = cpc[d]
      /\ InHand(c) /\ ~InHand(c)'
      /\ UNCHANGED <<made, nread, spc, busy, cur, answered>>
  BY DEF NreplInv, NreplTypes, Queue, sess, InHand
<1>2. reqs' = [reqs EXCEPT ![s] = Append(reqs[s], x)]
  BY <1>0 DEF Queue, Id
<1>3. Reads
  BY <1>1, HandsKept
<1>4. nread[c] \in Nat /\ reqs \in [Sessions -> Seq(Conns \X Nat)] /\ x \in Conns \X Nat
  BY <1>0 DEF NreplInv, NreplTypes
<1>5. ~Settled(x) /\ Settled(x)'
  <2>1. ~Settled(x)
    BY <1>0, <1>1, InHandNew DEF NreplInv
  <2>2. nread[c] <= nread'[c]
    BY <1>1, <1>4
  <2>3. Settled(x)'
    BY <1>0, <1>1, <1>4, <2>2 DEF Settled
  <2> QED
    BY <2>1, <2>3
<1>6. \A m : Settled(m) => Settled(m)' /\ m # x
  BY <1>3, <1>5, StaysSettled DEF NreplInv
<1>7. \A u \in Sessions : x \notin Items(reqs[u])
  BY <1>5 DEF NreplInv, Queues
<1>8. \A u \in Sessions : x # cur[u] \/ cur[u] = NoReq
  BY <1>5 DEF NreplInv, Hands
<1>9. ASSUME NEW u \in Sessions
      PROVE  /\ reqs'[u] \in Seq(Conns \X Nat) /\ Distinct(reqs'[u])
             /\ Items(reqs'[u]) = IF u = s THEN Items(reqs[u]) \cup {x} ELSE Items(reqs[u])
  <2>1. reqs[u] \in Seq(Conns \X Nat) /\ Distinct(reqs[u])
    BY <1>4 DEF NreplInv, Queues
  <2>2. CASE u = s
    <3>1. reqs'[u] = Append(reqs[u], x)
      BY <1>2, <1>4, <2>2
    <3>2. /\ Append(reqs[u], x) \in Seq(Conns \X Nat)
          /\ Items(Append(reqs[u], x)) = Items(reqs[u]) \cup {x}
          /\ Distinct(Append(reqs[u], x))
      BY <1>4, <1>7, <2>1, AppendItems
    <3> QED
      BY <2>2, <3>1, <3>2
  <2>3. CASE u # s
    <3>1. reqs'[u] = reqs[u]
      BY <1>2, <1>4, <2>3
    <3> QED
      BY <2>1, <2>3, <3>1
  <2> QED
    BY <2>2, <2>3
<1>10. \A u \in Sessions : \A m \in Items(reqs'[u]) : m \in Items(reqs[u]) \/ (m = x /\ u = s)
  BY <1>9
<1>11. NreplTypes'
  <2>1. reqs' \in [Sessions -> Seq(Conns \X Nat)]
    BY <1>2, <1>4, <1>9
  <2> QED
    BY <1>1, <2>1 DEF NreplInv, NreplTypes
<1>12. Queues'
  <2>1. ASSUME NEW u \in Sessions, NEW m \in Items(reqs'[u])
        PROVE  m \notin answered' /\ Settled(m)'
    BY <1>1, <1>5, <1>6, <1>10 DEF NreplInv, Queues, Answers
  <2>2. ASSUME NEW u \in Sessions, NEW w \in Sessions, w # u
        PROVE  Items(reqs'[u]) \cap Items(reqs'[w]) = {}
    BY <1>7, <1>10, <2>2 DEF NreplInv, Queues
  <2>3. \A u \in Sessions : Distinct(reqs[u])' /\ Items(reqs[u])' = Items(reqs'[u])
    BY <1>9 DEF Distinct, Items
  <2> QED
    BY <2>1, <2>2, <2>3 DEF Queues
<1>13. Hands'
  <2>1. \A u \in Sessions : Items(reqs[u])' = Items(reqs'[u])
    BY DEF Items
  <2> QED
    BY <1>1, <1>6, <1>8, <1>10, <2>1 DEF NreplInv, Hands
<1>14. Answers'
  BY <1>1, <1>6 DEF NreplInv, Answers
<1>15. Working'
  BY <1>1, WorkKept
<1> QED
  BY <1>11, <1>12, <1>13, <1>14, <1>15 DEF NreplInv

\* Steps of a session read no message and settle none.
LEMMA SessionReads ==
  ASSUME NreplInv, nread' = nread, cpc' = cpc
  PROVE  Reads
<1>1. \A d \in Conns : InHand(d)' = InHand(d)
  BY DEF InHand
<1>2. \A d \in Conns : nread[d] \in Nat
  BY DEF NreplInv, NreplTypes
<1> QED
  BY <1>1, <1>2 DEF Reads

\* The head of the queue is in the session's hands.
LEMMA TakeStep ==
  ASSUME NreplInv, NEW s \in Sessions, Take(s)
  PROVE  NreplInv'
<1>0. PICK x : x = Head(reqs[s])
  OBVIOUS
<1>1. /\ UNCHANGED <<made, nread, cpc, busy, answered>>
      /\ cur' = [cur EXCEPT ![s] = x] /\ reqs' = [reqs EXCEPT ![s] = Tail(reqs[s])]
      /\ spc' = [spc EXCEPT ![s] = "take"] /\ reqs[s] # <<>> /\ spc[s] = "select"
  BY <1>0 DEF Take, sess, conns
<1>2. /\ reqs \in [Sessions -> Seq(Conns \X Nat)] /\ reqs[s] \in Seq(Conns \X Nat)
      /\ DOMAIN spc = Sessions /\ DOMAIN cur = Sessions
  BY DEF NreplInv, NreplTypes
<1>3. Reads
  BY <1>1, SessionReads
<1>4. \A m : Settled(m) => Settled(m)'
  BY <1>3, StaysSettled DEF NreplInv
<1>5. /\ Tail(reqs[s]) \in Seq(Conns \X Nat) /\ x \in Items(reqs[s])
      /\ Items(Tail(reqs[s])) \subseteq Items(reqs[s])
      /\ Distinct(Tail(reqs[s])) /\ x \notin Items(Tail(reqs[s]))
  <2>1. Distinct(reqs[s])
    BY DEF NreplInv, Queues
  <2> QED
    BY <1>0, <1>1, <1>2, <2>1, TailItems
<1>6. reqs'[s] = Tail(reqs[s]) /\ \A u \in Sessions : u # s => reqs'[u] = reqs[u]
  BY <1>1, <1>2
<1>7. /\ cur'[s] = x /\ spc'[s] = "take"
      /\ \A u \in Sessions : u # s => cur'[u] = cur[u] /\ spc'[u] = spc[u]
  BY <1>1, <1>2
<1>8. x # NoReq
  <2>1. PICK i \in DOMAIN reqs[s] : x = reqs[s][i]
    BY <1>5 DEF Items
  <2>2. x \in Conns \X Nat
    BY <1>2, <2>1
  <2>3. PICK d \in Conns, n \in Nat : x = <<d, n>>
    BY <2>2
  <2> QED
    BY <2>3 DEF NoReq
<1>9. ASSUME NEW u \in Sessions
      PROVE  /\ Items(reqs'[u]) \subseteq Items(reqs[u]) /\ Distinct(reqs'[u])
             /\ x \notin Items(reqs'[u]) /\ reqs'[u] \in Seq(Conns \X Nat)
  <2>1. CASE u = s
    BY <1>5, <1>6, <2>1
  <2>2. CASE u # s
    <3>1. x \notin Items(reqs[u]) /\ Distinct(reqs[u]) /\ reqs[u] \in Seq(Conns \X Nat)
      BY <1>2, <1>5, <2>2 DEF NreplInv, Queues
    <3> QED
      BY <1>6, <2>2, <3>1
  <2> QED
    BY <2>1, <2>2
<1>10. \A u \in Sessions : Distinct(reqs[u])' /\ Items(reqs[u])' = Items(reqs'[u])
  BY <1>9 DEF Distinct, Items
<1>11. NreplTypes'
  <2>1. reqs' \in [Sessions -> Seq(Conns \X Nat)]
    BY <1>1, <1>2, <1>9
  <2> QED
    BY <1>1, <1>2, <2>1 DEF NreplInv, NreplTypes
<1>12. Queues'
  BY <1>1, <1>4, <1>9, <1>10 DEF NreplInv, Queues
<1>13. x \notin answered' /\ Settled(x)'
  BY <1>1, <1>4, <1>5 DEF NreplInv, Queues
<1>14. \A u \in Sessions : cur[u] # NoReq =>
         cur[u] # x /\ \A w \in Sessions : cur[u] \notin Items(reqs'[w])
  BY <1>5, <1>9 DEF NreplInv, Hands
<1>15. Hands'
  <2>1. ASSUME NEW u \in Sessions, cur'[u] # NoReq
        PROVE  /\ cur'[u] \notin answered' /\ Settled(cur[u])'
               /\ \A w \in Sessions : cur'[u] \notin Items(reqs'[w]) /\ (w # u => cur'[w] # cur'[u])
    <3>1. CASE u = s
      <4>1. \A w \in Sessions : w # u => cur'[w] # x
        BY <1>7, <1>8, <1>14, <3>1
      <4> QED
        BY <1>7, <1>9, <1>13, <3>1, <4>1
    <3>2. CASE u # s
      <4>1. cur'[u] = cur[u] /\ cur[u] # NoReq
        BY <1>7, <2>1, <3>2
      <4>2. cur[u] \notin answered /\ Settled(cur[u]) /\ \A w \in Sessions : w # u => cur[w] # cur[u]
        BY <4>1 DEF NreplInv, Hands
      <4>3. \A w \in Sessions : w # u => cur'[w] # cur[u]
        BY <1>7, <1>14, <4>1, <4>2
      <4>4. Settled(cur[u])'
        BY <1>4, <4>1, <4>2
      <4> QED
        BY <1>1, <1>14, <4>1, <4>2, <4>3, <4>4
    <3> QED
      BY <3>1, <3>2
  <2> QED
    BY <1>10, <2>1 DEF Hands
<1>16. Answers'
  BY <1>1, <1>4 DEF NreplInv, Answers
<1>17. Working'
  <2>1. ASSUME NEW u \in Sessions
        PROVE  /\ spc'[u] \in {"take", "run", "reply"} => cur'[u] # NoReq
               /\ busy'[u] => spc'[u] = "run"
               /\ u > made' => spc'[u] = "none"
    BY <1>1, <1>7, <1>8 DEF NreplInv, Working
  <2> QED
    BY <2>1 DEF Working
<1> QED
  BY <1>11, <1>12, <1>15, <1>16, <1>17 DEF NreplInv

\* The session moves on with what it has in hand.
LEMMA WorkStep ==
  ASSUME NreplInv, NEW s \in Sessions, Quit(s) \/ SetBusy(s) \/ ClearBusy(s)
  PROVE  NreplInv'
<1>1. UNCHANGED <<made, nread, cpc, reqs, cur, answered>>
  BY DEF Quit, SetBusy, ClearBusy, sess, conns
<1>2. /\ DOMAIN spc' = Sessions /\ busy' \in [Sessions -> BOOLEAN]
      /\ \A u \in Sessions : u # s => spc'[u] = spc[u] /\ busy'[u] = busy[u]
  BY DEF NreplInv, NreplTypes, Quit, SetBusy, ClearBusy
<1>3. NreplTypes'
  BY <1>1, <1>2 DEF NreplInv, NreplTypes
<1>4. Queues' /\ Hands' /\ Answers'
  <2>1. Reads
    BY <1>1, SessionReads
  <2> QED
    BY <1>1, <2>1, RequestsKept
<1>5. /\ spc[s] # "none"
      /\ spc'[s] \in {"take", "run", "reply"} => spc[s] \in {"take", "run", "reply"}
      /\ busy'[s] => spc'[s] = "run"
  BY DEF NreplInv, NreplTypes, Working, Quit, SetBusy, ClearBusy
<1>6. ASSUME NEW u \in Sessions
      PROVE  /\ spc'[u] \in {"take", "run", "reply"} => cur'[u] # NoReq
             /\ busy'[u] => spc'[u] = "run"
  <2>1. CASE u = s
    BY <1>1, <1>5, <2>1 DEF NreplInv, Working
  <2>2. CASE u # s
    BY <1>1, <1>2, <2>2 DEF NreplInv, Working
  <2> QED
    BY <2>1, <2>2
<1>7. \A u \in Sessions : u > made' => spc'[u] = "none"
  BY <1>1, <1>2, <1>5 DEF NreplInv, Working
<1>8. Working'
  BY <1>6, <1>7 DEF Working
<1> QED
  BY <1>3, <1>4, <1>8 DEF NreplInv

\* The last reply: what was in hand is answered, and was on no queue.
LEMMA SendDoneStep ==
  ASSUME NreplInv, NEW s \in Sessions, SendDone(s)
  PROVE  NreplInv'
<1>1. /\ UNCHANGED <<made, nread, cpc, reqs, busy>> /\ answered' = answered \cup {cur[s]}
      /\ cur' = [cur EXCEPT ![s] = NoReq] /\ spc' = [spc EXCEPT ![s] = "select"]
      /\ spc[s] = "reply"
  BY DEF SendDone, sess, conns
<1>2. DOMAIN spc = Sessions /\ DOMAIN cur = Sessions
  BY DEF NreplInv, NreplTypes
<1>3. /\ cur'[s] = NoReq /\ spc'[s] = "select"
      /\ \A u \in Sessions : u # s => cur'[u] = cur[u] /\ spc'[u] = spc[u]
  BY <1>1, <1>2
<1>4. \A m : Settled(m) => Settled(m)'
  <2>1. Reads
    BY <1>1, SessionReads
  <2> QED
    BY <2>1, StaysSettled DEF NreplInv
<1>5. cur[s] # NoReq /\ Settled(cur[s])
  BY <1>1 DEF NreplInv, Working, Hands
<1>6. \A u \in Sessions : cur[s] \notin Items(reqs[u]) /\ (u # s => cur[u] # cur[s])
  BY <1>5 DEF NreplInv, Hands
<1>7. \A u \in Sessions : Items(reqs[u])' = Items(reqs[u]) /\ (Distinct(reqs[u]) => Distinct(reqs[u])')
  BY <1>1 DEF Items, Distinct
<1>8. NreplTypes'
  BY <1>1, <1>2 DEF NreplInv, NreplTypes
<1>9. Queues'
  BY <1>1, <1>4, <1>6, <1>7 DEF NreplInv, Queues
<1>10. Hands'
  BY <1>1, <1>3, <1>4, <1>6, <1>7 DEF NreplInv, Hands
<1>11. Answers'
  BY <1>1, <1>4, <1>5 DEF NreplInv, Answers
<1>12. Working'
  <2>1. \A u \in Sessions : /\ spc'[u] \in {"take", "run", "reply"} => cur'[u] # NoReq
                            /\ busy'[u] => spc'[u] = "run"
    BY <1>1, <1>3 DEF NreplInv, Working
  <2>2. \A u \in Sessions : u > made' => spc'[u] = "none"
    BY <1>1, <1>3 DEF NreplInv, Working
  <2> QED
    BY <2>1, <2>2 DEF Working
<1> QED
  BY <1>8, <1>9, <1>10, <1>11, <1>12 DEF NreplInv

\* Every step keeps the invariant.
LEMMA NreplStep == NreplInv /\ [NreplNext]_nreplVars => NreplInv'
<1> SUFFICES ASSUME NreplInv, [NreplNext]_nreplVars PROVE NreplInv'
  OBVIOUS
<1>1. ASSUME NEW c \in Conns, Read(c) PROVE NreplInv'
  BY <1>1, ReadStep
<1>2. ASSUME NEW c \in Conns, ConnStep(c) PROVE NreplInv'
  BY <1>2, CloneStep, AnswerStep, CloseFindStep, LookupStep, QueueStep DEF ConnStep
<1>3. ASSUME NEW s \in Sessions, SessionStep(s) PROVE NreplInv'
  BY <1>3, TakeStep, WorkStep, SendDoneStep DEF SessionStep
<1>4. CASE UNCHANGED nreplVars
  <2>1. UNCHANGED <<made, nread, cpc, reqs, spc, busy, cur, answered>>
    BY <1>4 DEF nreplVars, sess, conns, work
  <2>2. NreplTypes'
    BY <2>1 DEF NreplInv, NreplTypes
  <2>3. Reads
    BY <2>1, SessionReads
  <2>4. Queues' /\ Hands' /\ Answers'
    BY <2>1, <2>3, RequestsKept
  <2>5. Working'
    BY <2>1, WorkKept
  <2> QED
    BY <2>2, <2>4, <2>5 DEF NreplInv
<1> QED
  BY <1>1, <1>2, <1>3, <1>4 DEF NreplNext

\* A client that has read "done" for all it gave a session finds the session idle
\* (server.go:203-206), whatever the connections send and however they race: a busy
\* session holds a request that is not answered, and nobody else can answer it.
THEOREM DoneMeansIdle == NreplSpec => []DoneThenIdle
<1>1. NreplInit => NreplInv
  BY NreplStart
<1>2. NreplInv /\ [NreplNext]_nreplVars => NreplInv'
  BY NreplStep
<1>3. NreplInv => DoneThenIdle
  <2> SUFFICES ASSUME NreplInv, NEW s \in Sessions, busy[s] PROVE ~(Given(s) \subseteq answered)
    BY DEF DoneThenIdle
  <2>1. cur[s] # NoReq
    BY DEF NreplInv, Working
  <2>2. cur[s] \notin answered
    BY <2>1 DEF NreplInv, Hands
  <2>3. cur[s] \in Given(s)
    BY <2>1 DEF Given
  <2> QED
    BY <2>2, <2>3
<1> QED
  BY <1>1, <1>2, <1>3, PTL DEF NreplSpec

\* What the variables of the server hold, apart from what NreplInv says.  A
\* connection has looked up a session that was made.
SessTypes ==
  /\ made \in Sessions \cup {0} /\ sessions \subseteq Started /\ quit \subseteq Started
  /\ target \in [Conns -> Started \cup {0}]
PlaceTypes ==
  /\ cpc \in [Conns -> {"read", "deliver", "close", "queue", "parked"}]
  /\ spc \in [Sessions -> {"none", "select", "take", "run", "reply", "gone"}]
ReadSome == \A c \in Conns : nread[c] <= Len(Script[c])

\* The requests past a queue's capacity are sends of connections parked on it.
Parked ==
  \A s \in Sessions : \A i \in DOMAIN reqs[s] : i > QCap =>
    \E c \in Conns : cpc[c] = "parked" /\ target[c] = s /\ reqs[s][i] = <<c, nread[c]>>

\* The invariant behind the bound of the queues.
QueueInv == SessTypes /\ PlaceTypes /\ ReadSome /\ Parked

\* What the script of a connection holds.
LEMMA Messages ==
  /\ MaxSessions \in Nat /\ QCap \in Nat
  /\ \A c \in Conns : Len(Script[c]) \in Nat
BY NreplAssumption

\* It holds initially.
LEMMA QueueInit == NreplInit => QueueInv
<1> SUFFICES ASSUME NreplInit PROVE QueueInv
  OBVIOUS
<1>1. SessTypes /\ PlaceTypes
  BY DEF NreplInit, SessTypes, PlaceTypes, Started
<1>2. ReadSome
  BY Messages DEF NreplInit, ReadSome
<1>3. Parked
  BY DEF NreplInit, Parked
<1> QED
  BY <1>1, <1>2, <1>3 DEF QueueInv

\* A session is made: the ones that were stay started.
LEMMA StartedGrows ==
  ASSUME NreplInv, SessTypes, NewSession
  PROVE  /\ made' \in Sessions /\ made' \in Started' /\ Started \subseteq Started'
         /\ sessions' \subseteq Started' /\ quit' \subseteq Started'
<1>1. /\ made \in Nat /\ made' = made + 1 /\ made' \in Sessions
      /\ sessions' = sessions \cup {made'} /\ quit' = quit
  BY DEF NreplInv, NreplTypes, NewSession
<1>2. Started = 1..made /\ Started' = 1..made'
  BY DEF Started
<1>3. made' \in Started' /\ Started \subseteq Started'
  BY <1>1, <1>2
<1> QED
  BY <1>1, <1>3 DEF SessTypes

LEMMA SessTypesNext ==
  NreplInv /\ SessTypes /\ [NreplNext]_nreplVars => SessTypes'
<1> SUFFICES ASSUME NreplInv, SessTypes, [NreplNext]_nreplVars PROVE SessTypes'
  OBVIOUS
<1>1. ASSUME NEW c \in Conns, Clone(c) PROVE SessTypes'
  <2>1. NewSession /\ target' = target
    BY <1>1 DEF Clone
  <2> QED
    BY <2>1, StartedGrows DEF SessTypes
<1>2. ASSUME NEW c \in Conns, CloseFind(c) PROVE SessTypes'
  <2>1. made' = made /\ quit' = quit /\ sessions' \subseteq sessions
    BY <1>2 DEF CloseFind
  <2>2. \E t \in Started \cup {0} : target' = [target EXCEPT ![c] = t]
    BY <1>2 DEF CloseFind, SessTypes
  <2> QED
    BY <2>1, <2>2 DEF SessTypes, Started
<1>3. ASSUME NEW c \in Conns, CloseQuit(c) PROVE SessTypes'
  <2>1. /\ made' = made /\ sessions' = sessions /\ target' = target
        /\ quit' = quit \cup ({target[c]} \ {0})
    BY <1>3 DEF CloseQuit
  <2> QED
    BY <2>1 DEF SessTypes, Started
<1>4. ASSUME NEW c \in Conns, Lookup(c) PROVE SessTypes'
  <2>1. CASE Msg(c).session \in sessions /\ UNCHANGED sess
             /\ target' = [target EXCEPT ![c] = Msg(c).session]
    <3>1. \E t \in Started : target' = [target EXCEPT ![c] = t]
      BY <2>1 DEF SessTypes
    <3> QED
      BY <2>1, <3>1 DEF SessTypes, Started, sess
  <2>2. CASE NewSession /\ target' = [target EXCEPT ![c] = made']
    <3>1. /\ made' \in Sessions /\ made' \in Started' /\ Started \subseteq Started'
          /\ sessions' \subseteq Started' /\ quit' \subseteq Started'
      BY <2>2, StartedGrows
    <3>2. target' \in [Conns -> Started' \cup {0}]
      BY <2>2, <3>1 DEF SessTypes
    <3> QED
      BY <3>1, <3>2 DEF SessTypes
  <2> QED
    BY <1>4, <2>1, <2>2 DEF Lookup
<1>5. CASE UNCHANGED <<made, sessions, quit, target>>
  BY <1>5 DEF SessTypes, Started
<1>6. ASSUME NEW c \in Conns, Read(c) \/ Answer(c) \/ Queue(c) \/ Queued(c)
      PROVE  UNCHANGED <<made, sessions, quit, target>>
  BY <1>6 DEF Read, Answer, Queue, Queued, sess
<1>7. ASSUME NEW s \in Sessions, SessionStep(s)
      PROVE  UNCHANGED <<made, sessions, quit, target>>
  BY <1>7 DEF SessionStep, Take, Quit, SetBusy, ClearBusy, SendDone, sess, conns
<1>8. UNCHANGED nreplVars => UNCHANGED <<made, sessions, quit, target>>
  BY DEF nreplVars, sess, conns
<1> QED
  BY <1>1, <1>2, <1>3, <1>4, <1>5, <1>6, <1>7, <1>8 DEF NreplNext, ConnStep

LEMMA PlaceTypesNext ==
  NreplInv /\ PlaceTypes /\ [NreplNext]_nreplVars => PlaceTypes'
<1> SUFFICES ASSUME NreplInv, PlaceTypes, [NreplNext]_nreplVars PROVE PlaceTypes'
  OBVIOUS
<1>1. ASSUME NEW c \in Conns, Read(c) \/ ConnStep(c) PROVE PlaceTypes'
  <2>1. \E x \in {"read", "deliver", "close", "queue", "parked"} : cpc' = [cpc EXCEPT ![c] = x]
    BY <1>1 DEF Read, ConnStep, Clone, CloseFind, CloseQuit, Answer, Lookup, Queue, Queued, Reply
  <2>2. spc' = spc \/ NewSession
    BY <1>1 DEF Read, ConnStep, Clone, CloseFind, CloseQuit, Answer, Lookup, Queue, Queued, work
  <2>3. spc' = spc \/ spc' = [spc EXCEPT ![made'] = "select"]
    BY <2>2 DEF NewSession
  <2> QED
    BY <2>1, <2>3 DEF PlaceTypes
<1>2. ASSUME NEW s \in Sessions, SessionStep(s) PROVE PlaceTypes'
  <2>1. cpc' = cpc /\ \E x \in {"take", "gone", "run", "reply", "select"} : spc' = [spc EXCEPT ![s] = x]
    BY <1>2 DEF SessionStep, Take, Quit, SetBusy, ClearBusy, SendDone, conns
  <2> QED
    BY <2>1 DEF PlaceTypes
<1>3. CASE UNCHANGED nreplVars
  BY <1>3 DEF nreplVars, conns, work, PlaceTypes
<1> QED
  BY <1>1, <1>2, <1>3 DEF NreplNext

LEMMA ReadSomeNext ==
  NreplInv /\ ReadSome /\ [NreplNext]_nreplVars => ReadSome'
<1> SUFFICES ASSUME NreplInv, ReadSome, [NreplNext]_nreplVars PROVE ReadSome'
  OBVIOUS
<1>1. ASSUME NEW c \in Conns, Read(c) PROVE ReadSome'
  <2>1. /\ nread \in [Conns -> Nat] /\ nread[c] < Len(Script[c])
        /\ nread' = [nread EXCEPT ![c] = nread[c] + 1]
    BY <1>1 DEF Read, NreplInv, NreplTypes
  <2>2. nread[c] + 1 <= Len(Script[c])
    BY <2>1, Messages
  <2> QED
    BY <2>1, <2>2 DEF ReadSome
<1>2. ASSUME NEW c \in Conns, ConnStep(c) PROVE nread' = nread
  BY <1>2 DEF ConnStep, Clone, CloseFind, CloseQuit, Answer, Lookup, Queue, Queued, Reply
<1>3. ASSUME NEW s \in Sessions, SessionStep(s) PROVE nread' = nread
  BY <1>3 DEF SessionStep, Take, Quit, SetBusy, ClearBusy, SendDone, conns
<1>4. UNCHANGED nreplVars => nread' = nread
  BY DEF nreplVars, conns
<1>5. CASE nread' = nread
  BY <1>5 DEF ReadSome
<1> QED
  BY <1>1, <1>2, <1>3, <1>4, <1>5 DEF NreplNext

\* The queues are as they were and so is every parked connection.
LEMMA ParkedKept ==
  ASSUME Parked, reqs' = reqs,
         \A c \in Conns : cpc[c] = "parked" =>
           cpc'[c] = "parked" /\ target'[c] = target[c] /\ nread'[c] = nread[c]
  PROVE  Parked'
BY DEF Parked

\* A send joins the queue, and its connection parks.
LEMMA ParkedQueue ==
  ASSUME NreplInv, SessTypes, PlaceTypes, Parked, NEW c \in Conns, Queue(c)
  PROVE  Parked'
<1>0. PICK x, t : x = <<c, nread[c]>> /\ t = target[c]
  OBVIOUS
<1>1. /\ cpc[c] = "queue" /\ cpc'[c] = "parked" /\ UNCHANGED <<nread, target>>
      /\ \A d \in Conns \ {c} : cpc'[d] = cpc[d]
      /\ reqs' = [reqs EXCEPT ![t] = Append(reqs[t], x)]
  BY <1>0 DEF Queue, PlaceTypes, Id
<1>2. reqs \in [Sessions -> Seq(Conns \X Nat)] /\ x \in Conns \X Nat
  BY <1>0 DEF NreplInv, NreplTypes
<1>3. ASSUME NEW s \in Sessions, NEW i \in DOMAIN reqs'[s], i > QCap
      PROVE  \E d \in Conns : cpc'[d] = "parked" /\ target'[d] = s /\ reqs'[s][i] = <<d, nread'[d]>>
  <2>1. CASE i \in DOMAIN reqs[s] /\ reqs'[s][i] = reqs[s][i]
    <3>1. PICK d \in Conns : cpc[d] = "parked" /\ target[d] = s /\ reqs[s][i] = <<d, nread[d]>>
      BY <1>3, <2>1 DEF Parked
    <3>2. cpc'[d] = "parked"
      BY <1>1, <3>1
    <3> QED
      BY <1>1, <2>1, <3>1, <3>2
  <2>2. CASE s = t /\ reqs'[s][i] = x
    BY <1>0, <1>1, <2>2
  <2>3. CASE s # t
    <3>1. reqs'[s] = reqs[s]
      BY <1>1, <1>2, <2>3
    <3> QED
      BY <1>3, <2>1, <3>1
  <2>4. CASE s = t
    <3>1. reqs'[s] = Append(reqs[s], x) /\ reqs[s] \in Seq(Conns \X Nat)
      BY <1>1, <1>2, <2>4
    <3>2. /\ Len(reqs[s]) \in Nat /\ DOMAIN reqs[s] = 1..Len(reqs[s])
          /\ DOMAIN reqs'[s] = 1..(Len(reqs[s]) + 1)
          /\ \A j \in 1..Len(reqs[s]) : reqs'[s][j] = reqs[s][j]
          /\ reqs'[s][Len(reqs[s]) + 1] = x
      BY <1>2, <3>1
    <3>3. i \in 1..Len(reqs[s]) \/ i = Len(reqs[s]) + 1
      BY <3>2
    <3> QED
      BY <2>1, <2>2, <2>4, <3>2, <3>3
  <2> QED
    BY <2>3, <2>4
<1> QED
  BY <1>3 DEF Parked

\* A connection goes on: its send is within the capacity.
LEMMA ParkedQueued ==
  ASSUME PlaceTypes, Parked, NreplInv, NEW c \in Conns, Queued(c)
  PROVE  Parked'
<1>1. /\ UNCHANGED <<nread, target, reqs>> /\ \A d \in Conns \ {c} : cpc'[d] = cpc[d]
      /\ \A i \in DOMAIN reqs[target[c]] : reqs[target[c]][i] = <<c, nread[c]>> => i <= QCap
  BY DEF Queued, PlaceTypes, work, Id
<1>2. ASSUME NEW s \in Sessions, NEW i \in DOMAIN reqs[s], i > QCap
      PROVE  \E d \in Conns : cpc'[d] = "parked" /\ target'[d] = s /\ reqs[s][i] = <<d, nread'[d]>>
  <2>1. PICK d \in Conns : cpc[d] = "parked" /\ target[d] = s /\ reqs[s][i] = <<d, nread[d]>>
    BY <1>2 DEF Parked
  <2>2. i \in Nat
    BY DEF NreplInv, NreplTypes
  <2>3. d # c
    <3> SUFFICES ASSUME d = c PROVE FALSE
      OBVIOUS
    <3>1. i <= QCap
      BY <1>1, <2>1
    <3> QED
      BY <1>2, <2>2, <3>1, Messages
  <2> QED
    BY <1>1, <2>1, <2>3
<1> QED
  BY <1>1, <1>2 DEF Parked

\* A request leaves the queue and all others move up.
LEMMA ParkedTake ==
  ASSUME NreplInv, Parked, NEW s \in Sessions, Take(s)
  PROVE  Parked'
<1>1. /\ UNCHANGED <<nread, cpc, target>> /\ reqs[s] # <<>>
      /\ reqs' = [reqs EXCEPT ![s] = Tail(reqs[s])]
      /\ reqs \in [Sessions -> Seq(Conns \X Nat)]
  BY DEF Take, conns, NreplInv, NreplTypes
<1>2. ASSUME NEW u \in Sessions, NEW i \in DOMAIN reqs'[u], i > QCap
      PROVE  \E d \in Conns : cpc[d] = "parked" /\ target[d] = u /\ reqs'[u][i] = <<d, nread[d]>>
  <2>1. CASE u = s
    <3>1. reqs'[u] = Tail(reqs[u]) /\ reqs[u] \in Seq(Conns \X Nat) /\ reqs[u] # <<>>
      BY <1>1, <2>1
    <3>2. /\ Len(reqs[u]) \in Nat /\ DOMAIN reqs[u] = 1..Len(reqs[u])
          /\ DOMAIN reqs'[u] = 1..(Len(reqs[u]) - 1)
          /\ \A j \in 1..(Len(reqs[u]) - 1) : reqs'[u][j] = reqs[u][j + 1]
      BY <3>1
    <3>3. i + 1 \in DOMAIN reqs[u] /\ i + 1 > QCap /\ reqs'[u][i] = reqs[u][i + 1]
      BY <1>2, <3>2, Messages
    <3> QED
      BY <3>3 DEF Parked
  <2>2. CASE u # s
    <3>1. reqs'[u] = reqs[u]
      BY <1>1, <2>2
    <3> QED
      BY <1>2, <3>1 DEF Parked
  <2> QED
    BY <2>1, <2>2
<1>3. nread' = nread /\ cpc' = cpc /\ target' = target
  BY <1>1
<1> QED
  BY <1>2, <1>3 DEF Parked

LEMMA ParkedNext ==
  NreplInv /\ QueueInv /\ [NreplNext]_nreplVars => Parked'
<1> SUFFICES ASSUME NreplInv, QueueInv, [NreplNext]_nreplVars PROVE Parked'
  OBVIOUS
<1>0. Parked /\ SessTypes /\ PlaceTypes
  BY DEF QueueInv
<1>1. ASSUME NEW c \in Conns, Read(c) \/ Clone(c) \/ CloseFind(c) \/ CloseQuit(c) \/ Answer(c) \/ Lookup(c)
      PROVE  Parked'
  <2>1. cpc[c] # "parked" /\ reqs' = reqs
    BY <1>1 DEF Read, Clone, CloseFind, CloseQuit, Answer, Lookup, NewSession, work
  <2>2. \A d \in Conns \ {c} : cpc'[d] = cpc[d]
    BY <1>0, <1>1 DEF PlaceTypes, Read, Clone, CloseFind, CloseQuit, Answer, Lookup, Reply
  <2>3. \A d \in Conns \ {c} : nread'[d] = nread[d]
    BY <1>1 DEF NreplInv, NreplTypes, Read, Clone, CloseFind, CloseQuit, Answer, Lookup, Reply
  <2>4. \A d \in Conns \ {c} : target'[d] = target[d]
    BY <1>0, <1>1 DEF SessTypes, Read, Clone, CloseFind, CloseQuit, Answer, Lookup
  <2> QED
    BY <1>0, <2>1, <2>2, <2>3, <2>4, ParkedKept
<1>2. ASSUME NEW c \in Conns, Queue(c) PROVE Parked'
  BY <1>0, <1>2, ParkedQueue
<1>3. ASSUME NEW c \in Conns, Queued(c) PROVE Parked'
  BY <1>0, <1>3, ParkedQueued
<1>4. ASSUME NEW s \in Sessions, Take(s) PROVE Parked'
  BY <1>0, <1>4, ParkedTake
<1>5. ASSUME NEW s \in Sessions, Quit(s) \/ SetBusy(s) \/ ClearBusy(s) \/ SendDone(s) PROVE Parked'
  <2>1. UNCHANGED <<reqs, cpc, target, nread>>
    BY <1>5 DEF Quit, SetBusy, ClearBusy, SendDone, conns
  <2> QED
    BY <1>0, <2>1, ParkedKept
<1>6. CASE UNCHANGED nreplVars
  <2>1. UNCHANGED <<reqs, cpc, target, nread>>
    BY <1>6 DEF nreplVars, conns, work
  <2> QED
    BY <1>0, <2>1, ParkedKept
<1> QED
  BY <1>1, <1>2, <1>3, <1>4, <1>5, <1>6 DEF NreplNext, ConnStep, SessionStep

\* The positions past a queue's capacity map one to one to parked connections.
LEMMA QueueBound ==
  ASSUME NreplInv, Parked, NEW s \in Sessions
  PROVE  Len(reqs[s]) <= QCap + Cardinality(Conns)
<1> DEFINE q == reqs[s]
           P == (QCap + 1)..Len(q)
<1>1. q \in Seq(Conns \X Nat) /\ Len(q) \in Nat /\ DOMAIN q = 1..Len(q) /\ QCap \in Nat
  BY Messages DEF NreplInv, NreplTypes
<1>2. IsFiniteSet(Conns) /\ Cardinality(Conns) \in Nat
  BY NreplAssumption, FS_CardinalityType
<1>3. \A i \in P : i \in DOMAIN q /\ i > QCap
  BY <1>1
<1>4. \A i \in P : \E c \in Conns : q[i] = <<c, nread[c]>>
  BY <1>3 DEF Parked
<1>5. PICK f \in [P -> Conns] : \A i \in P : q[i] = <<f[i], nread[f[i]]>>
  <2> DEFINE g == [i \in P |-> CHOOSE c \in Conns : q[i] = <<c, nread[c]>>]
  <2>1. \A i \in P : g[i] \in Conns /\ q[i] = <<g[i], nread[g[i]]>>
    BY <1>4
  <2>2. g \in [P -> Conns]
    BY <2>1
  <2> QED
    BY <2>1, <2>2
<1>6. \A i, j \in P : f[i] = f[j] => i = j
  <2>1. Distinct(q)
    BY DEF NreplInv, Queues
  <2> QED
    BY <1>3, <1>5, <2>1 DEF Distinct
<1>7. f \in Injection(P, Conns)
  BY <1>5, <1>6 DEF Injection, IsInjective
<1>8. Cardinality(P) <= Cardinality(Conns)
  <2> HIDE DEF P
  <2> QED
    BY <1>2, <1>7, FS_Injection
<1>9. Cardinality(P) = IF QCap + 1 > Len(q) THEN 0 ELSE Len(q) - (QCap + 1) + 1
  <2>1. QCap + 1 \in Int /\ Len(q) \in Int
    BY <1>1
  <2> HIDE DEF q
  <2> QED
    BY <2>1, FS_Interval
<1> HIDE DEF P, q
<1>10. Len(q) <= QCap + Cardinality(Conns)
  BY <1>1, <1>2, <1>8, <1>9
<1> QED
  BY <1>10 DEF q

\* The types: connections look up and close sessions that were made, and no more
\* sends wait for a session than its queue holds and there are connections, since a
\* connection whose send is parked reads nothing (server.go:109-124, 300-302).
THEOREM NreplTypeCorrect == NreplSpec => []NreplTypeOK
<1>1. NreplInv /\ QueueInv /\ [NreplNext]_nreplVars => QueueInv'
  BY SessTypesNext, PlaceTypesNext, ReadSomeNext, ParkedNext DEF QueueInv
<1>2. NreplInv /\ QueueInv => NreplTypeOK
  <2> SUFFICES ASSUME NreplInv, QueueInv PROVE NreplTypeOK
    OBVIOUS
  <2>1. \A s \in Sessions : Len(reqs[s]) <= QCap + Cardinality(Conns)
    BY QueueBound DEF QueueInv
  <2>2. \A c \in Conns : nread[c] \in 0..Len(Script[c])
    BY Messages DEF QueueInv, ReadSome, NreplInv, NreplTypes
  <2>3. answered \subseteq Conns \X Nat
    BY DEF NreplInv, Answers, Settled
  <2>4. Started \subseteq Sessions
    BY Messages DEF Started, Sessions, QueueInv, SessTypes
  <2>5. target \in [Conns -> Sessions \cup {0}]
    BY <2>4 DEF QueueInv, SessTypes
  <2>6. /\ made \in Sessions \cup {0} /\ sessions \subseteq Started /\ quit \subseteq Started
        /\ cpc \in [Conns -> {"read", "deliver", "close", "queue", "parked"}]
        /\ spc \in [Sessions -> {"none", "select", "take", "run", "reply", "gone"}]
        /\ busy \in [Sessions -> BOOLEAN]
    BY Zenon DEF QueueInv, SessTypes, PlaceTypes, NreplInv, NreplTypes
  <2> QED
    BY <2>1, <2>2, <2>3, <2>5, <2>6 DEF NreplTypeOK
<1> QED
  BY <1>1, <1>2, NreplStart, NreplStep, QueueInit, PTL DEF NreplSpec
===============================================================================
