SPECIFICATION Spec
CONSTANTS
  p1 = p1
  p2 = p2
  out = out
  other = other
  Procs = {p1, p2}
  Dirs <- MCDirs
  Out = out
  Other = other
  Names = {f1, f2}
  Timed = {f2}
  None = None
  MaxEvents = 0
  MaxAlone = 0
  MaxSilent = 2
CHECK_DEADLOCK FALSE
PROPERTY PublishedIsImmutable
