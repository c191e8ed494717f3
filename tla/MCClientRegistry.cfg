SPECIFICATION Spec
CONSTANTS
    None = None
    s1 = s1
    MaxId = 3
    Seeded = {2}
    SeedSecret <- OneSecret
    SeedName <- OneName
    Secrets = {s1, s2, s3}
    Redirects = {ra, rb}
    IdText <- ThreeIds
    Names <- TwoNames
    Terms <- OneTerm
    Threads = {t1, t2}
    Walkers = {t1}
    DefaultPageSize = 1
    MaxPageSize = 2
    Sizes = {0}
    MaxUpdates = 1
SYMMETRY RegistrySymmetry
INVARIANTS
    TypeOK
    RegisteredOnce
    AcceptedIsCurrent
    WalkIsComplete
PROPERTIES
    SearchIsLiteral
