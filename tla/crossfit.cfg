SPECIFICATION Spec
CONSTANTS
  a = a
  b = b
  c = c
  d = d
  t1 = t1
  t2 = t2
  t3 = t3
  t4 = t4
  Tasks <- MCTasks
  OuterFolds = 6
  InnerFolds = 3
  Cohorts <- MCCohorts
SYMMETRY MCSymmetry
CHECK_DEADLOCK FALSE
INVARIANTS
  NothingSeesItsTest
  RefusedOnlyIfSmall
  UnplannedOnlyIfCrowded
