CONSTANTS
    Runners = {r1, r2}
    NumFolds = 1
    MaxEpochs = 3
    Patience = 1
    Infinity = 3
    Losses <- MCLosses
    MaxCrashes = 1
    None = None
SYMMETRY Symmetry
SPECIFICATION Spec
INVARIANTS GenerationsAreTrue ResumeIsTransparent
