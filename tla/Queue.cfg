CONSTANTS
    t1 = t1
    t2 = t2
    t3 = t3
    Threads <- ThreeThreads
    Capacity = 2
    MaxSends = 5
SPECIFICATION FairSpec
INVARIANTS
    TypeOK
    NoLostReceiver
    NoLostSender
    QueueIsRestOfSent
PROPERTIES
    ImplementsChannel
    ReceiversServed
CHECK_DEADLOCK FALSE
