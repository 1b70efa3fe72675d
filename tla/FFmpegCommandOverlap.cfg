CONSTANTS
    r1 = r1
    r2 = r2
    Runs <- TwoRuns
    Listeners <- TwoRuns
    Serial = FALSE
    Faults <- Overlap
    MaxPackets = 1
    MaxSignals = 4
SYMMETRY Symmetry
SPECIFICATION Spec
PROPERTIES
    ImplementsCalls
CHECK_DEADLOCK FALSE
