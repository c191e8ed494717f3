SPECIFICATION RPSpec
CONSTANTS
    None = None
    Users = {u1, u2}
    Clients = {rp}
    Tokens = {j1, j2}
    Threads = {t1, t2}
    Levels = {l1}
    SessionTTL = 1
    AccessTTL = 1
    MaxTime = 1
    MaxEdits = 1
    Browsers = {b1, b2}
    Transactions = {x1, x2, x3}
    Codes = {k1}
    RP = rp
    FlowTTL = 1
    CodeTTL = 1
SYMMETRY RPSymmetry
INVARIANTS
    RPTypeOK
    LoginIsOwn
    OneLoginPerCode
PROPERTIES
    BoundCodesAreSpentAtHome
CHECK_DEADLOCK FALSE
