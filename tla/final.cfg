SPECIFICATION FairSpec
CONSTANTS
  Procs = {p1, p2}
  Versions = {v1, v2}
  Cells = {x1, x2, x3}
  None = None
  MaxCrashes = 3
INVARIANTS
  OnePublication
  EvaluationsAccounted
PROPERTIES
  LabelsOpenedUnderGuard
  ImplementsPromise
  LockIsReleased
  StartedIsPublished
