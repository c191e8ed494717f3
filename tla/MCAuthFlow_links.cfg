SPECIFICATION Spec
CONSTANTS
    u1 = u1
    u2 = u2
    e1 = e1
    e2 = e2
    p1 = p1
    ka = ka
    None = None
    Console = Console
    Requests = {r1}
    Codes = {c1}
    Terms <- PlainTerms
    Users = {u1}
    Devices = {d1, d2}
    Tokens = {k1, k2}
    Parties = {p1, Console}
    Challenges = {}
    Emails = {e1, e2}
    Browsers = {b1, b2}
    Threads = {t1, t2}
    Admins = {}
    InitialEmail <- OneAddress
    AuthRequestTTL = 2
    AuthCodeTTL = 1
    EmailTokenTTL = 1
    MaxTime = 0
    MaxEdits = 1
SYMMETRY FlowSymmetry
INVARIANTS
    TrustIsEarned
    LinkHonouredOnce
    FormerLinksStayDead
PROPERTIES
    ClearsOwnBinding
