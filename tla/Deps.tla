-------------------------------- MODULE Deps --------------------------------
(***************************************************************************)
(* Fetching and pinning a git dependency (pkg/deps, called by              *)
(* pkg/build): the project's lock file build.lock.edn, the global cache of *)
(* source trees and the bare mirror they are extracted from, used by       *)
(* several cljgo processes at once, each of which may be killed at any     *)
(* step, while `cljgo cache clean` may run.                                *)
(*                                                                         *)
(* All processes depend on one repository.  A tree is "full" (what the     *)
(* commit holds), "partial" or "absent", its hash is good or bad           *)
(* accordingly.  git is external: a clone makes the directory, then a      *)
(* repository without commits, then fills it.                              *)
(***************************************************************************)
EXTENDS Naturals

CONSTANTS
  Procs,      \* processes
  Projects,   \* projects they build
  Commits,    \* commits of the repository
  Refs,       \* its branches and tags, HEAD among them
  HEAD,
  Names,      \* the commits each of them names upstream, at one time or another
  NoRef,      \* a dependency is declared without :ref
  Edits,      \* how a declared ref may be changed: pairs of the old and the new
  Starts,     \* who builds what, how it is declared, which locks are old, who cleans:
              \* the cases
  Cleaners,   \* processes that clean the cache instead
  NoProc,
  MaxCrashes  \* bound: processes killed

\* The declared set: the ref asked for, and the other dependencies, by number
\* (bound: they change once).
Decl == [ref : Refs \cup {NoRef}, rest : 0..1]

\* An entry of the lock file; an old one has no :decl/hash, the others have the
\* hash of a declaration with their ref.
Pin == [commit : Commits, hash : {"good", "bad"}, ref : Refs, old : BOOLEAN]

ASSUME DepsAssumption ==
  /\ NoProc \notin Procs \cup Cleaners /\ Procs \cap Cleaners = {}
  /\ HEAD \in Refs /\ NoRef \notin Refs
  /\ Starts \subseteq [project : [Procs -> Projects], ref : [Projects -> Refs \cup {NoRef}],
                       old : SUBSET Projects, cleaners : SUBSET Cleaners]
  /\ Names \in [Refs -> (SUBSET Commits) \ {{}}]
  /\ Edits \subseteq (Refs \cup {NoRef}) \X (Refs \cup {NoRef}) /\ MaxCrashes \in Nat

VARIABLES
  project,   \* the project each process builds
  lock,      \* each project's lock file: "absent", "written" or "torn" ...
  pin,       \* ... the entry it has for the dependency ...
  build,     \* ... and the declared set it was written for (:build/hash)
  decl,      \* each project's declared set
  tree,      \* the cache entry of each commit
  mirror,    \* the bare mirror: "absent", "dir", "empty" or "full"
  flock,     \* the holder of each commit's lock file
  pc,        \* where each process is
  set,       \* the declared set it read
  update,    \* it will write the lock
  have,      \* the entry it loaded, if any
  commit,    \* the commit it resolved the dependency to
  hash,      \* the tree hash it computed
  cleaners,  \* the processes that clean the cache
  clean,     \* those of them at work
  cleaned,   \* history: a clean has begun
  orphans,   \* history: projects whose lock's writer was killed before it wrote
  crashes    \* processes killed so far

vars == <<project, lock, pin, build, decl, tree, mirror, flock, pc, set, update,
          have, commit, hash, cleaners, clean, cleaned, orphans, crashes>>

Running == {"resolve", "stat", "flock", "recheck", "mirror", "mkdir", "init", "fill",
            "extract", "publish", "hash", "write", "rewrite"}

TypeOK ==
  /\ project \in [Procs -> Projects] /\ lock \in [Projects -> {"absent", "written", "torn"}]
  /\ pin \in [Projects -> Pin]
  /\ build \in [Projects -> Decl] /\ decl \in [Projects -> Decl]
  /\ tree \in [Commits -> {"absent", "partial", "full"}]
  /\ mirror \in {"absent", "dir", "empty", "full"}
  /\ flock \in [Commits -> Procs \cup {NoProc}]
  /\ pc \in [Procs -> Running \cup {"idle", "ok", "failed"}]
  /\ set \in [Procs -> Decl] /\ update \in [Procs -> BOOLEAN]
  /\ have \in [Procs -> SUBSET Pin] /\ commit \in [Procs -> Commits]
  /\ hash \in [Procs -> {"good", "bad"}]
  /\ cleaners \subseteq Cleaners /\ clean \subseteq Cleaners /\ cleaned \in BOOLEAN
  /\ orphans \subseteq Projects /\ crashes \in 0..MaxCrashes

\* The ref a declaration is resolved by and locked under.
RefOf(ref) == IF ref = NoRef THEN HEAD ELSE ref

Init ==
  /\ \E s \in Starts :
       /\ project = s.project /\ cleaners = s.cleaners
       /\ lock = [j \in Projects |-> IF j \in s.old THEN "written" ELSE "absent"]
       /\ pin = [j \in Projects |-> LET ref == RefOf(s.ref[j]) IN
                [commit |-> CHOOSE k \in Names[ref] : TRUE, hash |-> "good",
                 ref |-> ref, old |-> TRUE]]
       /\ decl = [j \in Projects |-> [ref |-> s.ref[j], rest |-> 0]] /\ build = decl
       /\ set = [p \in Procs |-> decl[project[p]]]
       /\ commit = [p \in Procs |-> pin[project[p]].commit]
  /\ tree = [k \in Commits |-> "absent"] /\ mirror = "absent"
  /\ flock = [k \in Commits |-> NoProc]
  /\ pc = [p \in Procs |-> "idle"] /\ have = [p \in Procs |-> {}]
  /\ update = [p \in Procs |-> FALSE] /\ hash = [p \in Procs |-> "bad"]
  /\ clean = {} /\ cleaned = FALSE /\ orphans = {} /\ crashes = 0
-----------------------------------------------------------------------------
Go(p, to) == pc' = [pc EXCEPT ![p] = to]
Free(p)   == flock' = [k \in Commits |-> IF flock[k] = p THEN NoProc ELSE flock[k]]
cache == <<tree, mirror, flock>>
files == <<lock, pin, build, decl>>
read  == <<set, update, have>>
cases == <<project, cleaners>>
other == <<cases, clean, cleaned, orphans, crashes>>

\* A build starts: LoadLock fails on a torn file; the lock is to be written when
\* there is none or the declared set has moved.
Load(p) ==
  LET j == project[p] IN
  /\ pc[p] = "idle"
  /\ \/ lock[j] = "torn" /\ Go(p, "failed") /\ UNCHANGED read
     \/ /\ lock[j] # "torn" /\ Go(p, "resolve")
        /\ have' = [have EXCEPT ![p] = IF lock[j] = "absent" THEN {} ELSE {pin[j]}]
        /\ set' = [set EXCEPT ![p] = decl[j]]
        /\ update' = [update EXCEPT ![p] = lock[j] = "absent" \/ build[j] # decl[j]]
  /\ UNCHANGED <<files, cache, commit, hash, other>>

\* Under an update an entry without :decl/hash, or whose :decl/hash is not the
\* declaration's, is stale.  The hash is of the ref resolved by, so that it never is
\* that of a declaration without :ref.
Stale(k, d) == k.old \/ k.ref # d.ref

\* Mutant: every pin is reconsidered under an update.
Mut_pinIsCurrent(p, k) == ~update[p]

pinIsCurrent(p, k) == ~update[p] \/ ~Stale(k, set[p])

\* The identity is that of a current pin, which must agree with the declaration and
\* declare no capability that is denied, or else what the ref names upstream now;
\* the remote may fail to answer.
Resolve(p) ==
  /\ pc[p] = "resolve"
  /\ \/ \E k \in have[p] : /\ pinIsCurrent(p, k) /\ set[p].ref \in {NoRef, k.ref}
                           /\ commit' = [commit EXCEPT ![p] = k.commit]
        /\ Go(p, "stat")
     \/ /\ \A k \in have[p] : ~pinIsCurrent(p, k)
        /\ \E k \in Names[RefOf(set[p].ref)] : commit' = [commit EXCEPT ![p] = k]
        /\ Go(p, "stat")
     \/ Go(p, "failed") /\ UNCHANGED commit
  /\ UNCHANGED <<files, cache, read, hash, other>>

\* materialize: an entry that is there is used; else the commit's lock is taken
\* and the cache looked at again.
Stat(p) ==
  /\ pc[p] = "stat"
  /\ Go(p, IF tree[commit[p]] # "absent" THEN "hash" ELSE "flock")
  /\ UNCHANGED <<files, cache, read, commit, hash, other>>

Flock(p) ==
  /\ pc[p] = "flock" /\ flock[commit[p]] = NoProc
  /\ flock' = [flock EXCEPT ![commit[p]] = p] /\ Go(p, "recheck")
  /\ UNCHANGED <<files, tree, mirror, read, commit, hash, other>>

Recheck(p) ==
  /\ pc[p] = "recheck"
  /\ \/ tree[commit[p]] # "absent" /\ Go(p, "hash") /\ Free(p)
     \/ tree[commit[p]] = "absent" /\ Go(p, "mirror") /\ UNCHANGED flock
  /\ UNCHANGED <<files, tree, mirror, read, commit, hash, other>>

\* A step that fails ends the build; the deferred unlock runs.
Fail(p) == Go(p, "failed") /\ Free(p)

\* The mirror, which is not under the lock of the other commits: cloned when there
\* is none; fetched, when it lacks the commit, if it got as far as being a
\* repository.
Mirror(p) ==
  /\ pc[p] = "mirror"
  /\ \/ mirror = "absent" /\ Go(p, "mkdir") /\ UNCHANGED <<mirror, flock>>
     \/ mirror = "dir" /\ Fail(p) /\ UNCHANGED mirror
     \/ mirror = "empty" /\ mirror' = "full" /\ Go(p, "extract") /\ UNCHANGED flock
     \/ mirror = "full" /\ Go(p, "extract") /\ UNCHANGED <<mirror, flock>>
  /\ UNCHANGED <<files, tree, read, commit, hash, other>>

\* git clone: the directory must not exist ...
CloneDir(p) ==
  /\ pc[p] = "mkdir"
  /\ \/ mirror = "absent" /\ mirror' = "dir" /\ Go(p, "init") /\ UNCHANGED flock
     \/ mirror # "absent" /\ Fail(p) /\ UNCHANGED mirror
  /\ UNCHANGED <<files, tree, read, commit, hash, other>>

\* ... and must stay: a clean can take it away.
CloneInit(p) ==
  /\ pc[p] = "init"
  /\ \/ mirror = "dir" /\ mirror' = "empty" /\ Go(p, "fill") /\ UNCHANGED flock
     \/ mirror # "dir" /\ Fail(p) /\ UNCHANGED mirror
  /\ UNCHANGED <<files, tree, read, commit, hash, other>>

CloneFill(p) ==
  /\ pc[p] = "fill"
  /\ \/ mirror \in {"empty", "full"} /\ mirror' = "full" /\ Go(p, "extract") /\ UNCHANGED flock
     \/ mirror \in {"absent", "dir"} /\ Fail(p) /\ UNCHANGED mirror
  /\ UNCHANGED <<files, tree, read, commit, hash, other>>

\* Mutant: the tree is extracted in place.
Mut_Extract(p) ==
  /\ pc[p] = "extract" /\ mirror = "full"
  /\ tree' = [tree EXCEPT ![commit[p]] = "partial"]
  /\ Go(p, "publish") /\ UNCHANGED <<files, mirror, flock, read, commit, hash, other>>

\* git archive, untar into a temporary directory, and make it read-only.
Extract(p) ==
  /\ pc[p] = "extract"
  /\ \/ mirror = "full" /\ Go(p, "publish") /\ UNCHANGED flock
     \/ mirror # "full" /\ Fail(p)
  /\ UNCHANGED <<files, tree, mirror, read, commit, hash, other>>

\* publishAtomically: rename, over an entry a clean has emptied too.  For an entry
\* that is there the extracted tree, read-only by now, is removed, which fails but
\* for root.  A clean may also have taken the temporary directory away.
Publish(p) ==
  LET k == commit[p] IN
  /\ pc[p] = "publish"
  /\ \/ tree[k] # "full" /\ tree' = [tree EXCEPT ![k] = "full"] /\ Go(p, "hash")
     \/ tree[k] # "absent" /\ UNCHANGED tree /\ (Go(p, "hash") \/ Go(p, "failed"))
     \/ clean # {} /\ UNCHANGED tree /\ Go(p, "failed")
  /\ Free(p)
  /\ UNCHANGED <<files, mirror, read, commit, hash, other>>

\* TreeHash, compared with the lock's when that pins the same commit; then finishGit,
\* which may find no manifest or a capability that is denied.
Verify(p) ==
  LET h == IF tree[commit[p]] = "full" THEN "good" ELSE "bad" IN
  /\ pc[p] = "hash"
  /\ \/ /\ tree[commit[p]] # "absent" /\ \A k \in have[p] : k.commit = commit[p] => k.hash = h
        /\ hash' = [hash EXCEPT ![p] = h]
        /\ Go(p, IF update[p] THEN "write" ELSE "ok")
     \/ Go(p, "failed") /\ UNCHANGED hash
  /\ UNCHANGED <<files, cache, read, commit, other>>

\* WriteLock: os.WriteFile truncates the file ...
Truncate(p) ==
  /\ pc[p] = "write"
  /\ lock' = [lock EXCEPT ![project[p]] = "torn"] /\ Go(p, "rewrite")
  /\ UNCHANGED <<pin, build, decl, cache, read, commit, hash, other>>

\* ... and writes it.
Rewrite(p) ==
  LET j == project[p] IN
  /\ pc[p] = "rewrite"
  /\ lock' = [lock EXCEPT ![j] = "written"]
  /\ pin' = [pin EXCEPT ![j] = [commit |-> commit[p], hash |-> hash[p],
                                ref |-> RefOf(set[p].ref), old |-> FALSE]]
  /\ build' = [build EXCEPT ![j] = set[p]]
  /\ orphans' = orphans \ {j}
  /\ Go(p, "ok")
  /\ UNCHANGED <<decl, cache, read, commit, hash, cases, clean, cleaned, crashes>>

Build(p) ==
  \/ Resolve(p) \/ Stat(p) \/ Flock(p) \/ Recheck(p) \/ Mirror(p) \/ CloneDir(p) \/ CloneInit(p)
  \/ CloneFill(p) \/ Extract(p) \/ Publish(p) \/ Verify(p) \/ Truncate(p) \/ Rewrite(p)

\* The project declares other dependencies, or another ref of this one; its build is
\* run again.
Edit(p) ==
  LET j == project[p] IN
  /\ pc[p] \in {"idle", "ok"} /\ decl[j].rest = 0
  /\ \E e \in Edits : e[1] = decl[j].ref /\ decl' = [decl EXCEPT ![j] = [ref |-> e[2], rest |-> 1]]
  /\ Go(p, "idle")
  /\ UNCHANGED <<lock, pin, build, cache, read, commit, hash, other>>

\* Mutant: the lock file outlives its holder.
Mut_Kill(p) ==
  /\ pc[p] \in Running /\ crashes < MaxCrashes
  /\ crashes' = crashes + 1 /\ Go(p, "idle")
  /\ orphans' = IF pc[p] = "rewrite" THEN orphans \cup {project[p]} ELSE orphans
  /\ UNCHANGED <<cases, files, cache, read, commit, hash, clean, cleaned>>

\* A process is killed: the kernel drops its flock, everything else stays.
\* The build may be run again.
Kill(p) ==
  /\ pc[p] \in Running /\ crashes < MaxCrashes
  /\ crashes' = crashes + 1 /\ Go(p, "idle") /\ Free(p)
  /\ orphans' = IF pc[p] = "rewrite" THEN orphans \cup {project[p]} ELSE orphans
  /\ UNCHANGED <<cases, files, tree, mirror, read, commit, hash, clean, cleaned>>

-----------------------------------------------------------------------------
\* CacheClean takes no lock: RemoveAll removes the trees file by file, the mirror
\* and the lock files, whose holders keep a lock no one else meets.
CleanBegin(c) ==
  /\ c \in cleaners \ clean /\ ~cleaned
  /\ clean' = clean \cup {c} /\ cleaned' = TRUE
  /\ UNCHANGED <<files, cache, pc, read, commit, hash, cases, orphans, crashes>>

CleanTree(c) ==
  /\ c \in clean
  /\ \E k \in Commits :
       /\ tree[k] # "absent"
       /\ tree' = [tree EXCEPT ![k] = IF @ = "full" THEN "partial" ELSE "absent"]
  /\ UNCHANGED <<files, mirror, flock, pc, read, commit, hash, other>>

CleanRest(c) ==
  /\ c \in clean
  /\ \/ mirror' = (IF mirror = "absent" THEN "absent" ELSE "dir") /\ UNCHANGED flock
     \/ mirror' = "absent" /\ UNCHANGED flock
     \/ flock' = [k \in Commits |-> NoProc] /\ UNCHANGED mirror
  /\ UNCHANGED <<files, tree, pc, read, commit, hash, other>>

CleanEnd(c) ==
  /\ c \in clean /\ \A k \in Commits : tree[k] # "partial"
  /\ clean' = clean \ {c}
  /\ UNCHANGED <<files, cache, pc, read, commit, hash, cases, cleaned, orphans,
                 crashes>>

Next ==
  \/ \E p \in Procs : Load(p) \/ Build(p) \/ Edit(p) \/ Kill(p)
  \/ \E c \in Cleaners : CleanBegin(c) \/ CleanTree(c) \/ CleanRest(c) \/ CleanEnd(c)

Spec == Init /\ [][Next]_vars

\* The operating system runs every process; people need not start or clean anything.
FairSpec == Spec /\ \A p \in Procs : WF_vars(Build(p))
-----------------------------------------------------------------------------
(***************************************************************************)
(* Properties.                                                             *)
(***************************************************************************)

\* Without cache clean, whatever races and whatever is killed at whatever step: an
\* entry of the cache is a complete tree, and a lock file pins its hash; it is torn
\* only by a writer at work, or by one killed before it wrote (resolve.go:484-486,
\* "flock around the fetch, atomic rename to publish, immutable once published";
\* lock.go:195-198).
CacheSound ==
  ~cleaned =>
    /\ \A k \in Commits : tree[k] # "partial"
    /\ \A j \in Projects :
         /\ lock[j] = "written" => pin[j].hash = "good"
         /\ lock[j] = "torn" =>
              j \in orphans \/ \E p \in Procs : project[p] = j /\ pc[p] = "rewrite"

\* A pin is kept: a build that rewrites the lock, its declared set having moved,
\* writes the commit and the hash it loaded, whatever the ref names upstream by then
\* and although the cache may be cleaned under it, unless it loaded a stale entry;
\* and that it replaces only for another commit, never by another hash of the same
\* (declhash.go:61-69, resolve.go:410-466).
PinHolds ==
  [][\A p \in Procs : pc[p] = "rewrite" /\ pc'[p] = "ok" =>
       \A k \in have[p] : LET new == pin'[project[p]] IN
         IF new.commit = k.commit THEN new.hash = k.hash ELSE Stale(k, set[p])]_vars

\* A killed process does not hold up the others: every build ends, in success or an
\* error (lock_unix.go:14-15, "flock is released by the OS on process death, so a
\* crashed resolver cannot wedge the cache").
BuildsEnd == \A p \in Procs : (pc[p] \in Running) ~> (pc[p] \notin Running)
=============================================================================
