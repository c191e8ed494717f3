SPECIFICATION FairSpec
CONSTANTS
    None = None
    Torn = Torn
    Initial = Initial
    n1 = n1
    n2 = n2
    d1 = d1
    d2 = d2
    v1 = v1
    v2 = v2
    v3 = v3
    Nodes = {n1, n2}
    Dirs = {d1, d2}
    Volumes = {v1, v2, v3}
    Under <- DefaultPaths
    Placements <- FourPlacements
    CreateRoot = TRUE
    AllowDefault = TRUE
    MaxCrashes = 1
    MaxEdits = 1
INVARIANTS
    NodeTypeOK
    KidNamesKey
PROPERTIES
    PairIsKept
    ServesUnlessStranded
