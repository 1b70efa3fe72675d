CONSTANTS
    Files = {0, 1}
    Streams <- TheStreams
    FileOf <- TheFileOf
    nb_output_streams = 3
    Copied = {2}
    Source <- TheSource
    Inputs <- TheInputs
    Step <- TheStep
    Limits <- TheLimits
    Delay = 1
    MaxPackets = 3
    MaxChanges = 1
SPECIFICATION FairSpec
INVARIANTS
    TypeOK
    NoOutputGivenUp
    FramesInOrder
    EndsReachGraphs
    AllDelivered
PROPERTIES
    LoopProgress
    LoopEnds
CHECK_DEADLOCK FALSE
