SPECIFICATION Spec
CONSTANTS
  CallIds = {1, 2, 3}
  AttemptIds = {1, 2}
  None = None
  Usages <- MCUsages
  LocalCounts <- MCNoCounts
  GeneratedCounts <- MCNoCounts
  ToolIds = {t1, t2, t3}
  MaxToolsPerReply = 2
  MaxTurns = 2
  MaxInteractions = 2
  MaxActions = 1
  MaxCallTools = 2
  Runs = {r1, r2}
  Tasks = {1, 2}
  NoRun = NoRun
  Limits <- MCLimits
  MaxMembers = 4
  Replays = {p1, p2}
  Versions = {older, newer}
  Lengths <- MCLengths
  MaxReplays = 2
  NoFile = NoFile
  Sources <- MCOpenHands
  Written = newer
SYMMETRY Symmetry
CHECK_DEADLOCK FALSE
INVARIANT TasksAreYieldedOnce
