SPECIFICATION FairSpec
CONSTANTS
  p1 = p1
  p2 = p2
  out = out
  other = other
  Procs = {p1, p2}
  Dirs <- MCDirs
  Out = out
  Other = other
  Names = {f1, f2}
  Timed = {f2}
  None = None
  MaxEvents = 1
  MaxAlone = 2
  MaxSilent = 2
CHECK_DEADLOCK FALSE
INVARIANTS
  VerifiedAtRescan
  VerifiedAtFinalScan
  BoundSourceIsUsed
PROPERTIES
  StagedIsImmutable
  ImplementsPromise
  SomeRunPublishes

