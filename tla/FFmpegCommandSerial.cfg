CONSTANTS
    r1 = r1
    r2 = r2
    Runs <- TwoRuns
    Listeners <- OneRun
    Serial = TRUE
    Faults <- AllFaults
    MaxPackets = 2
    MaxSignals = 1
SPECIFICATION FairSpec
INVARIANTS
    TypeOK
    CleanBetweenRuns
    ZeroMeansFinished
    ReturnCodeOrigin
    ExitNeverReturns
PROPERTIES
    AnsweredUnlessDead
CHECK_DEADLOCK FALSE
