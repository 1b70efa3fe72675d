CONSTANTS
    NbStreams = 2
    Encoded <- FirstStream
    Video <- FirstStream
    Checked <- BothStreams
    Strict = 1
    max_frames <- Frames
    InitialSize = 1
    max_muxing_queue_size = 2
    Times <- SomeTimes
    NoPts = NoPts
    Rescale <- Rescaling
    Coarse <- SecondStream
    Durations <- SomeSizes
    Samples <- InSamples
    Lowest <- LowSamples
    Highest <- HighSamples
    FromSamples <- OfSamples
    MaxPackets <- Bounds
SPECIFICATION Spec
INVARIANTS
    TypeOK
    NonePassedOver
    MonotoneDts
    PtsNotBeforeDts
    TimesKept
    LimitExact
    FailureStopsAll
CHECK_DEADLOCK FALSE
