SPECIFICATION Spec
CONSTANTS
    Terminal = {t1, t2}
    MaxScripts = 4
    MaxFaults = 2
SYMMETRY Symmetry
CHECK_DEADLOCK FALSE
INVARIANTS
    StartIsTruthful
    StopIsComplete
    CodesTellTheState
