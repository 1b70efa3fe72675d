CONSTANTS
    Formats <- TheFormats
    Readers <- TheReaders
    Slots = 2
    MaxPackets = 4
SPECIFICATION Spec
INVARIANTS
    ZeroMeansDecoded
CHECK_DEADLOCK FALSE
