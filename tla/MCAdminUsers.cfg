SPECIFICATION Spec
CONSTANTS
    root = root
    u1 = u1
    u2 = u2
    n0 = n0
    n1 = n1
    m0 = m0
    m1 = m1
    None = None
    Users = {root, u1, u2}
    Threads = {t1, t2}
    KnownRoles = {1, 4, 6}
    AdminRole = 4
    RootRole = 6
    Names = {n0, n1, n2}
    Mails = {m0, m1, m2}
    InitialUsers <- SmallTable
    MaxWrites = 2
SYMMETRY ThreadSymmetry
INVARIANTS
    AdminInv
    UniqueIdentities
PROPERTIES
    GuardedWrites
    NoLostEdit
    RootsNeverChange
