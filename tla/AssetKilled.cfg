CONSTANTS
    a1 = a1
    a2 = a2
    a3 = a3
    p1 = p1
    p2 = p2
    p3 = p3
    Assets <- ThreeAssets
    Files <- ThreePaths
    Target <- Distinct
    Lists <- NoLists
    Faults <- NoFaults
    MaxVersion = 1
    MaxKills = 1
SPECIFICATION Spec
INVARIANTS
    TrueMeansCopied
