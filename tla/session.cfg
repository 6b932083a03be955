SPECIFICATION Spec
CONSTANTS
  None = None
  TaskPre <- MCTaskPre
  SeedForecast = 3
  Rounds <- MCRounds
  Residuals <- MCResiduals
  PredictFailures = {"model", "calibrator"}
  SinkFails = TRUE
  MaxPoints = 4
INVARIANTS
  OnlyFailuresBreakStep
  SinkSeesTrueNumbers
  ForecastFollowsVisibleSpend
PROPERTIES
  OutOfStepIsFinal
  ImplementsSession
CHECK_DEADLOCK FALSE
