CONSTANTS
    a1 = a1
    a2 = a2
    a3 = a3
    p1 = p1
    p2 = p2
    p3 = p3
    Assets <- ThreeAssets
    Files <- ThreePaths
    Target <- Shared
    Lists <- SomeLists
    Faults <- AllFaults
    MaxVersion = 2
    MaxKills = 2
SPECIFICATION Spec
INVARIANTS
    TypeOK
    FalseMeansUntouched
    CopiedUnlessDisturbed
PROPERTIES
    OnlyMissingWritten
