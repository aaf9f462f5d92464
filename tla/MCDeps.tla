------------------------------- MODULE MCDeps -------------------------------
(* Two builds, of one project or of two projects that need different commits of *)
(* the same repository, with a clean, a crash and a HEAD that moves.            *)
EXTENDS Deps

CONSTANTS p1, p2, j1, j2, k1, k2, tag, stable, main, cleaner

Start(pp1, pp2, r1, r2, oldLocks, who) ==
  [project |-> [p \in {p1, p2} |-> IF p = p1 THEN pp1 ELSE pp2],
   ref |-> [j \in {j1, j2} |-> IF j = j1 THEN r1 ELSE r2], old |-> oldLocks,
   cleaners |-> who]

\* HEAD and main move, the others do not.
MCNames == [r \in {HEAD, tag, stable, main} |-> IF r \in {HEAD, main} THEN {k1, k2} ELSE {k2}]

\* One project, declared with a ref or without, with an old lock or none, and two
\* projects with their own refs; the cache is cleaned in two of the cases.
MCStarts ==
  {Start(j1, j1, tag, tag, {}, {}), Start(j1, j1, NoRef, tag, {}, {}),
   Start(j1, j1, tag, tag, {j1}, {}), Start(j1, j2, HEAD, tag, {}, {}),
   Start(j1, j1, stable, stable, {}, {cleaner}), Start(j1, j2, main, main, {}, {cleaner})}

\* The declared set moves, and with it the ref or not; that of main does not.
MCEdits  == {<<tag, tag>>, <<tag, HEAD>>, <<NoRef, NoRef>>, <<HEAD, HEAD>>, <<stable, stable>>}
=============================================================================
