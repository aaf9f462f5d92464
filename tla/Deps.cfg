SPECIFICATION FairSpec
CONSTANTS
  p1 = p1
  p2 = p2
  j1 = j1
  j2 = j2
  k1 = k1
  k2 = k2
  tag = tag
  stable = stable
  main = main
  HEAD = HEAD
  NoRef = NoRef
  NoProc = NoProc
  Procs = {p1, p2}
  Projects = {j1, j2}
  Commits = {k1, k2}
  Refs = {HEAD, tag, stable, main}
  Names <- MCNames
  Edits <- MCEdits
  Starts <- MCStarts
  cleaner = cleaner
  Cleaners = {cleaner}
  MaxCrashes = 1
INVARIANT CacheSound
PROPERTY PinHolds
PROPERTY BuildsEnd
CHECK_DEADLOCK FALSE
