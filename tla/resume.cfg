CONSTANTS
    Runners = {r1}
    NumFolds = 2
    MaxEpochs = 3
    Patience = 2
    Infinity = 3
    Losses <- MCLosses
    MaxCrashes = 2
    None = None
SPECIFICATION LiveSpec
INVARIANTS LoneRunnerNeverRaises
PROPERTIES ImplementsTraining RunPublishes
