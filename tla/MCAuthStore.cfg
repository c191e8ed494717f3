SPECIFICATION FairStoreSpec
CONSTANTS
    None = None
    Requests = {r1, r2}
    Codes = {c1, c2}
    p1 = p1
    p2 = p2
    Terms <- TwoTerms
    Users = {u1}
    Devices = {dev1}
    Tokens = {tok1}
    AuthRequestTTL = 2
    AuthCodeTTL = 1
    MaxTime = 3
INVARIANTS
    TypeOK
    OneGrantPerRequest
PROPERTIES
    LiveRequestLeavesForCause
    GrantSpec
    ExpiredStateIsRemoved
