SPECIFICATION Spec
CONSTANTS
  Procs = {p1, p2}
  Versions = {v1}
  Cells = {x1, x2}
  None = None
  MaxCrashes = 1
INVARIANT CellsEvaluatedOnce
