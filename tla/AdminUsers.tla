----------------------------- MODULE AdminUsers -----------------------------
(***************************************************************************)
(* The account administration of the admin console (controller/admin.go    *)
(* behind middleware.RequireRole, and model/user.go of FGF-idP): operators *)
(* who create, edit, promote, demote and delete accounts, each other's     *)
(* included, at the same time.                                             *)
(*                                                                         *)
(* A request reads the caller's role, then the target's row, decides on    *)
(* both, and writes if the row's role and updated_at are still what it     *)
(* read.  Thread t holds in h[t] what its request has read; one database   *)
(* statement or transaction per step.  The session and the trusted device  *)
(* that RequireRole also wants are AuthFlow's subject: here any live       *)
(* account may call.  What an address change does to devices, requests and *)
(* codes is AuthFlow's ChangeEmail.                                        *)
(***************************************************************************)
EXTENDS Naturals

CONSTANTS
    Users,              \* account ids
    Threads,            \* requests that may run at the same time
    KnownRoles,         \* the levels IsKnownRole accepts
    AdminRole, RootRole,
    Names, Mails,       \* usernames and addresses, in lower case
    InitialUsers,       \* the table before the first request
    None,               \* no row, no value
    MaxWrites           \* bound: how often a row is created or updated

Row == [role : KnownRoles, name : Names, mail : Mails,
        stamp : Nat,    \* updated_at, the time of the last write
        live : BOOLEAN] \* deleted_at is NULL

\* What a request asks for; None is a field it does not mention.
Ask == [op : {"create", "profile", "role", "delete"},
        role : KnownRoles \cup {None},
        name : Names \cup {None},
        mail : Mails \cup {None}]

\* The bodies the handlers accept: a creation names everything (without a
\* role it means the common one), an edit of the profile at least one column.
Asks ==
    {ask \in Ask :
        /\ (ask.role # None) <=> (ask.op \in {"create", "role"})
        /\ ask.op = "create" => ask.name # None /\ ask.mail # None
        /\ ask.op = "profile" => ask.name # None \/ ask.mail # None
        /\ ask.op \in {"role", "delete"} => ask.name = None /\ ask.mail = None}

Identified(table) ==
    \A u, v \in Users :
        u # v /\ table[u] # None /\ table[v] # None =>
            table[u].name # table[v].name /\ table[u].mail # table[v].mail

ASSUME AdminAssumption ==
    /\ KnownRoles \subseteq Nat
    /\ AdminRole \in KnownRoles /\ RootRole \in KnownRoles
    /\ \A role \in KnownRoles : role <= RootRole
    /\ InitialUsers \in [Users -> Row \cup {None}]
    /\ Identified(InitialUsers)
    /\ \A u \in Users : InitialUsers[u] # None => InitialUsers[u].stamp = 0
    /\ MaxWrites \in Nat
    /\ None \notin Nat \cup Names \cup Mails \cup Row \cup Ask \cup Users

VARIABLES
    users,              \* table users
    now,                \* the clock, which moves on from write to write
    h                   \* the running requests

vars == <<users, now, h>>

Points == {"idle", "create", "load", "write"}

Handler ==
    [at : Points,
     actor : Users \cup {None},
     role : KnownRoles \cup {None},       \* the caller's, as GetRole read it
     target : Users \cup {None},
     seen : Row \cup {None},              \* the target's row, as read
     ask : Ask \cup {None}]

Idle == [at |-> "idle", actor |-> None, role |-> None, target |-> None,
         seen |-> None, ask |-> None]

TypeOK ==
    /\ users \in [Users -> Row \cup {None}]
    /\ now \in Nat
    /\ h \in [Threads -> Handler]

Init ==
    /\ users = InitialUsers
    /\ now = 0
    /\ h = [t \in Threads |-> Idle]

Live(u) == users[u] # None /\ users[u].live

Finish(t) == h' = [h EXCEPT ![t] = Idle]

-----------------------------------------------------------------------------
(* Reading and deciding.                                                   *)

\* Mutant: nobody looks at the requested level.
MayGrant_Anything(role, ask) == TRUE

\* Nobody may hand out a level at or above their own.
MayGrant(role, ask) == ask.op \in {"create", "role"} => ask.role < role

\* RequireRole(RoleAdminUser), the checks of the request's body and, when an
\* account is created, of the level it is to have.
Start(t, a, ask) ==
    /\ h[t].at = "idle"
    /\ Live(a)
    /\ users[a].role >= AdminRole
    /\ ask.op = "create" => MayGrant(users[a].role, ask)
    /\ h' = [h EXCEPT ![t] =
           [Idle EXCEPT !.at = IF ask.op = "create" THEN "create" ELSE "load",
                        !.actor = a, !.role = users[a].role, !.ask = ask]]
    /\ UNCHANGED <<users, now>>

\* guardTarget allows hd's caller to act on account u with this row.
guardTarget(hd, u, row) ==
    /\ u # hd.actor
    /\ row.role < RootRole
    /\ row.role < hd.role

\* GetUserByID, guardTarget and, for a role change, the level asked for.
LoadTarget(t, u) ==
    /\ h[t].at = "load"
    /\ Live(u)
    /\ guardTarget(h[t], u, users[u])
    /\ MayGrant(h[t].role, h[t].ask)
    /\ h' = [h EXCEPT ![t].at = "write", ![t].target = u, ![t].seen = users[u]]
    /\ UNCHANGED <<users, now>>

-----------------------------------------------------------------------------
(* Writing.                                                                *)

\* The clock is finer than two writes are apart.
Clock ==
    /\ now < MaxWrites
    /\ now' = now + 1

\* Mutant: the identities of deleted accounts are given away.
IdentityFree_LiveOnly(u, name, mail) ==
    \A v \in Users \ {u} :
        Live(v) => users[v].name # name /\ users[v].mail # mail

\* The unique indexes at the moment of the write: deleted accounts keep their
\* names.  checkUserIdentity asks the same a statement earlier, and can only
\* refuse what it finds then (Refuse); what is written in between meets the index.
IdentityFree(u, name, mail) ==
    \A v \in Users \ {u} :
        users[v] # None => users[v].name # name /\ users[v].mail # mail

\* Mutants: the UPDATE names the account only, or forgets updated_at.
Current_AnyRow(hd) == Live(hd.target)

Current_RoleOnly(hd) ==
    Live(hd.target) /\ users[hd.target].role = hd.seen.role

\* WHERE id = ? AND role = ? AND updated_at = ?, on live rows.
Current(hd) ==
    /\ Live(hd.target)
    /\ users[hd.target].role = hd.seen.role
    /\ users[hd.target].stamp = hd.seen.stamp

CreateManagedUser(t, u) ==
    /\ h[t].at = "create"
    /\ users[u] = None
    /\ IdentityFree(u, h[t].ask.name, h[t].ask.mail)
    /\ Clock
    /\ users' = [users EXCEPT ![u] =
           [role |-> h[t].ask.role, name |-> h[t].ask.name,
            mail |-> h[t].ask.mail, stamp |-> now', live |-> TRUE]]
    /\ Finish(t)

UpdateUserRole(t) ==
    LET u == h[t].target IN
    /\ h[t].at = "write" /\ h[t].ask.op = "role"
    /\ Current(h[t])
    /\ Clock
    /\ users' = [users EXCEPT ![u].role = h[t].ask.role, ![u].stamp = now']
    /\ Finish(t)

\* A soft delete sets deleted_at and nothing else.
DeleteUser(t) ==
    /\ h[t].at = "write" /\ h[t].ask.op = "delete"
    /\ Current(h[t])
    /\ users' = [users EXCEPT ![h[t].target].live = FALSE]
    /\ now' = now
    /\ Finish(t)

\* All columns of the profile are written, those the request does not
\* mention with the values that were read.
Edited(asked, read) == IF asked = None THEN read ELSE asked

\* Mutant: the UPDATE bypasses the hook that sets updated_at.
UpdateManagedUser_KeepsStamp(t) ==
    LET u == h[t].target
        name == Edited(h[t].ask.name, h[t].seen.name)
        mail == Edited(h[t].ask.mail, h[t].seen.mail)
    IN
    /\ h[t].at = "write" /\ h[t].ask.op = "profile"
    /\ IdentityFree(u, name, mail)
    /\ Current(h[t])
    /\ users' = [users EXCEPT ![u].name = name, ![u].mail = mail]
    /\ now' = now
    /\ Finish(t)

\* checkUserIdentity and the guarded UPDATE, one transaction.
UpdateManagedUser(t) ==
    LET u == h[t].target
        name == Edited(h[t].ask.name, h[t].seen.name)
        mail == Edited(h[t].ask.mail, h[t].seen.mail)
    IN
    /\ h[t].at = "write" /\ h[t].ask.op = "profile"
    /\ IdentityFree(u, name, mail)
    /\ Current(h[t])
    /\ Clock
    /\ users' = [users EXCEPT ![u].name = name, ![u].mail = mail,
                              ![u].stamp = now']
    /\ Finish(t)

\* A refusal, a conflict, a failed statement or a crash.
Refuse(t) ==
    /\ h[t].at # "idle"
    /\ Finish(t)
    /\ UNCHANGED <<users, now>>

Next ==
    \E t \in Threads :
        \/ \E a \in Users, ask \in Asks : Start(t, a, ask)
        \/ \E u \in Users : LoadTarget(t, u) \/ CreateManagedUser(t, u)
        \/ UpdateUserRole(t) \/ DeleteUser(t) \/ UpdateManagedUser(t)
        \/ Refuse(t)

Spec == Init /\ [][Next]_vars

-----------------------------------------------------------------------------
(* Properties.                                                             *)

\* guardTarget against concurrent promotions: whatever other operators did
\* since the target was read, a write hits a live account of another person
\* that stands below root and below the level the caller was admitted with,
\* and never lifts it to that level; nor is an account created there.
GuardedWrites ==
    [][\A t \in Threads, u \in Users :
          h'[t] # h[t] /\ users'[u] # users[u] =>
              /\ users'[u].role < h[t].role
              /\ users[u] # None =>
                     /\ users[u].live
                     /\ users[u].role < RootRole
                     /\ users[u].role < h[t].role
                     /\ h[t].actor # u]_vars

\* UpdateManagedUser writes columns nobody asked it to write: none of them,
\* and no role or deletion, undoes what another operator did meanwhile.
NoLostEdit ==
    [][\A t \in Threads, u \in Users :
          h'[t] # h[t] /\ users[u] # None /\ users'[u] # users[u] =>
              /\ users'[u].name \in {users[u].name, h[t].ask.name}
              /\ users'[u].mail \in {users[u].mail, h[t].ask.mail}
              /\ users'[u].role \in {users[u].role, h[t].ask.role}]_vars

\* The console can neither make a root account nor touch one.
RootsNeverChange ==
    [][\A u \in Users :
          \/ users[u] # None /\ users[u].role = RootRole
          \/ users'[u] # None /\ users'[u].role = RootRole
          => users'[u] = users[u]]_vars

\* CreateManagedUser and UpdateManagedUser: no two accounts, deleted ones
\* included, share a name or an address.
UniqueIdentities == Identified(users)

-----------------------------------------------------------------------------
(* Why they hold: what a request knows when it writes.                     *)

\* A request at its write has passed the checks, on the row as it was read.
ChecksPassed ==
    \A t \in Threads :
        /\ h[t].at \in {"create", "load", "write"} =>
               h[t].role \in KnownRoles /\ h[t].ask \in Asks
        /\ h[t].at = "create" =>
               h[t].ask.op = "create" /\ MayGrant(h[t].role, h[t].ask)
        /\ h[t].at = "write" =>
               /\ h[t].target \in Users /\ h[t].seen \in Row
               /\ guardTarget(h[t], h[t].target, h[t].seen)
               /\ MayGrant(h[t].role, h[t].ask)

\* A row that was read is the row now, or has an older stamp.
SeenIsPast ==
    \A t \in Threads :
        h[t].at = "write" =>
            LET row == users[h[t].target] IN
            /\ row # None
            /\ h[t].seen.stamp <= row.stamp
            /\ h[t].seen.stamp = row.stamp =>
                   /\ h[t].seen.name = row.name
                   /\ h[t].seen.mail = row.mail

StampsArePast == \A u \in Users : users[u] # None => users[u].stamp <= now

AdminInv ==
    TypeOK /\ UniqueIdentities /\ ChecksPassed /\ SeenIsPast /\ StampsArePast
=============================================================================
