CONSTANTS
    MaxFiles = 2
    thread_queue_size = 1
    NonBlocking = {1}
    RateEmu = {0}
    Loops <- LoopFirst
    MaxPackets = 3
    Abort = TRUE
    InitFails = TRUE
SPECIFICATION FairSpec
INVARIANTS
    TypeOK
    PacketsAccounted
    NoThreadWithoutQueue
    NoBothAsleep
PROPERTIES
    InputProgress
    ImplementsFeed
    InputsEnd
CHECK_DEADLOCK FALSE
