---------------------------- MODULE MCAdminUsers ----------------------------
(* A small instance of AdminUsers for TLC: a root account, an account that *)
(* is an administrator at first, and a third that has yet to be created.   *)
(* One name and address are free until it is, so that names can move.      *)
EXTENDS AdminUsers, TLC

CONSTANTS root, u1, u2, n0, n1, m0, m1

Seeded(role, name, mail) ==
    [role |-> role, name |-> name, mail |-> mail, stamp |-> 0, live |-> TRUE]

SmallTable ==
    root :> Seeded(RootRole, n0, m0) @@ u1 :> Seeded(AdminRole, n1, m1)
        @@ u2 :> None

ThreadSymmetry == Permutations(Threads)
=============================================================================
