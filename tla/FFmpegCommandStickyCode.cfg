CONSTANTS
    r1 = r1
    r2 = r2
    Runs <- TwoRuns
    Listeners <- TwoRuns
    Serial = TRUE
    Faults <- WriteFails
    MaxPackets = 1
    MaxSignals = 0
SPECIFICATION Spec
INVARIANTS
    ExitCodeAsFFmpeg
CHECK_DEADLOCK FALSE
