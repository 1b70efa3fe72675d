CONSTANTS
    r1 = r1
    r2 = r2
    Runs <- TwoRuns
    Listeners <- TwoRuns
    Serial = TRUE
    Faults <- Exists
    MaxPackets = 1
    MaxSignals = 0
SPECIFICATION Spec
INVARIANTS
    PreciousFilesKept
CHECK_DEADLOCK FALSE
