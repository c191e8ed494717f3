SPECIFICATION Spec
CONSTANTS
    u1 = u1
    u2 = u2
    e1 = e1
    e2 = e2
    p1 = p1
    ka = ka
    None = None
    Console = Console
    Requests = {r1}
    Codes = {c1}
    Terms <- PKCETerms
    Users = {u1, u2}
    Devices = {d1}
    Tokens = {k1}
    Parties = {p1, p2, Console}
    Challenges = {ka, kb}
    Emails = {e1, e2, e3}
    Browsers = {b1}
    Threads = {t1, t2}
    Admins = {}
    InitialEmail <- TwoAddresses
    AuthRequestTTL = 1
    AuthCodeTTL = 1
    EmailTokenTTL = 1
    MaxTime = 1
    MaxEdits = 1
SYMMETRY FlowSymmetry
PROPERTIES
    StoreSpec
    CodeNeedsVerifiedDevice
    RedeemedByItsParty
