SPECIFICATION Spec
CONSTANTS
    None = None
    Users = {u1}
    Clients = {c1}
    Tokens = {j1, j2}
    Threads = {t1, t2}
    Levels = {l1, l6}
    SessionTTL = 1
    AccessTTL = 1
    MaxTime = 1
    MaxEdits = 1
SYMMETRY SessionsSymmetry
INVARIANTS
    TypeOK
    RevokedStaysRevoked
    LogoutMeansLoggedOut
    AnswersAreFresh
