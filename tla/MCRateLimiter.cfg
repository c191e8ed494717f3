SPECIFICATION FairSpec
CONSTANTS
    Keys = {k1, k2}
    Max = 2
    Duration = 2
    None = None
    MaxTime = 5
INVARIANTS
    LimiterInv
    SlidingWindow
PROPERTY
    QuietKeysAreForgotten
