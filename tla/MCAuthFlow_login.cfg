SPECIFICATION Spec
CONSTANTS
    u1 = u1
    u2 = u2
    e1 = e1
    e2 = e2
    p1 = p1
    ka = ka
    None = None
    Console = Console
    Requests = {r1}
    Codes = {c1}
    Terms <- PlainTerms
    Users = {u1, u2}
    Devices = {d1, d2}
    Tokens = {k1}
    Parties = {p1, Console}
    Challenges = {}
    Emails = {e1, e2, e3}
    Browsers = {b1, b2}
    Threads = {t1}
    Admins = {u1}
    InitialEmail <- TwoAddresses
    AuthRequestTTL = 2
    AuthCodeTTL = 1
    EmailTokenTTL = 1
    MaxTime = 0
    MaxEdits = 2
SYMMETRY FlowSymmetry
INVARIANTS
    FlowTypeOK
    TrustIsEarned
    SessionNeedsPassword
