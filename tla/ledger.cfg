SPECIFICATION Spec
CONSTANTS
  CallIds = {1, 2, 3, 4, 5}
  AttemptIds = {1, 2}
  None = None
  Usages <- MCUsages
  LocalCounts <- MCLocalCounts
  GeneratedCounts <- MCGenerated
  ToolTypes <- MCNoCounts
  ActionKeys <- MCNoCounts
  MaxToolEvents = 1
  MaxCheckpoints = 1
CONSTRAINT Shape
CHECK_DEADLOCK FALSE
INVARIANTS
  GenerationSplitsCall
  ReducerFollowsTrajectory
  ClosedOutputsAreLabels
  ErrorRoundsAreTrailing
  MissingUsageCancels
  DeductIsExact
  FinishedIsUncensored
PROPERTY ClosedLedgerIsFinal
