-------------------------- MODULE AdminUsersProofs --------------------------
(***************************************************************************)
(* However many operators work on however many accounts at once: no write  *)
(* escapes the rules of guardTarget, none undoes another's, root accounts  *)
(* stay as they are and identities stay unique.                            *)
(***************************************************************************)
EXTENDS AdminUsers, TLAPS

\* Nothing changes for a request that another one's step leaves alone.
LEMMA OthersStay ==
    ASSUME TypeOK, NEW t \in Threads, NEW hd \in Handler,
           h' = [h EXCEPT ![t] = hd]
    PROVE  /\ h' \in [Threads -> Handler]
           /\ h'[t] = hd
           /\ \A s \in Threads : s # t => h'[s] = h[s]
BY DEF TypeOK

\* A request that has not begun.
LEMMA IdleTyped == Idle \in Handler /\ Idle.at = "idle"
BY DEF Idle, Handler, Points

\* A request that ends, whatever it did to the table, keeps the rest of the
\* requests where they were.
LEMMA FinishKeepsChecks ==
    ASSUME AdminInv, NEW t \in Threads, Finish(t)
    PROVE  /\ h' \in [Threads -> Handler]
           /\ ChecksPassed'
           /\ h'[t].at = "idle"
           /\ \A s \in Threads : s # t => h'[s] = h[s]
<1>1. /\ h' \in [Threads -> Handler] /\ h'[t] = Idle
      /\ \A s \in Threads : s # t => h'[s] = h[s]
  BY IdleTyped, OthersStay DEF Finish, AdminInv
<1>2. \A s \in Threads : h'[s] = h[s] \/ h'[s].at = "idle"
  BY ONLY <1>1, IdleTyped
<1>3. ChecksPassed'
  BY ONLY <1>2, AdminInv DEF AdminInv, ChecksPassed, guardTarget
<1> QED
  BY <1>1, <1>3, IdleTyped

\* One row is written, with a free identity, under a new stamp or as before:
\* the shape of all four writes.
LEMMA WriteKeepsInv ==
    ASSUME AdminInv, NEW t \in Threads, Finish(t),
           NEW u \in Users, NEW row \in Row,
           users' = [users EXCEPT ![u] = row],
           IdentityFree(u, row.name, row.mail),
           \/ now' = now + 1 /\ row.stamp = now'
           \/ /\ now' = now /\ users[u] # None
              /\ row.stamp = users[u].stamp
              /\ row.name = users[u].name /\ row.mail = users[u].mail
    PROVE  AdminInv'
<1>1. /\ users \in [Users -> Row \cup {None}] /\ now \in Nat
      /\ row # None /\ row.stamp \in Nat
  BY AdminAssumption DEF AdminInv, TypeOK, Row
<1>2. /\ users'[u] = row
      /\ \A v \in Users : v # u => users'[v] = users[v]
  BY <1>1
<1>3. /\ h' \in [Threads -> Handler] /\ ChecksPassed' /\ h'[t].at = "idle"
      /\ \A s \in Threads : s # t => h'[s] = h[s]
  BY FinishKeepsChecks
<1>4. TypeOK'
  BY <1>1, <1>3 DEF TypeOK
<1>5. UniqueIdentities'
  <2> SUFFICES ASSUME NEW v \in Users, NEW w \in Users, v # w,
                      users'[v] # None, users'[w] # None
               PROVE  /\ users'[v].name # users'[w].name
                      /\ users'[v].mail # users'[w].mail
    BY DEF UniqueIdentities, Identified
  <2>1. CASE v = u
    BY <1>2, <2>1 DEF IdentityFree
  <2>2. CASE w = u
    BY <1>2, <2>2 DEF IdentityFree
  <2>3. CASE v # u /\ w # u
    BY <1>2, <2>3 DEF AdminInv, UniqueIdentities, Identified
  <2> QED
    BY <2>1, <2>2, <2>3
<1>6. \A v \in Users : users[v] # None =>
          users[v].stamp <= now /\ users[v].stamp \in Nat
  BY <1>1 DEF AdminInv, StampsArePast, Row
<1>7. StampsArePast'
  BY <1>1, <1>2, <1>6 DEF StampsArePast
<1>8. SeenIsPast'
  <2> SUFFICES ASSUME NEW s \in Threads, h'[s].at = "write"
               PROVE  LET new == users'[h'[s].target] IN
                      /\ new # None
                      /\ h'[s].seen.stamp <= new.stamp
                      /\ h'[s].seen.stamp = new.stamp =>
                             /\ h'[s].seen.name = new.name
                             /\ h'[s].seen.mail = new.mail
    BY DEF SeenIsPast
  <2>1. s # t /\ h'[s] = h[s]
    BY <1>3
  <2>2. h[s].target \in Users /\ h[s].seen \in Row
    BY <2>1 DEF AdminInv, ChecksPassed
  <2>3. /\ users[h[s].target] # None
        /\ h[s].seen.stamp <= users[h[s].target].stamp
        /\ h[s].seen.stamp = users[h[s].target].stamp =>
               /\ h[s].seen.name = users[h[s].target].name
               /\ h[s].seen.mail = users[h[s].target].mail
    BY <2>1 DEF AdminInv, SeenIsPast
  <2>4. CASE h[s].target # u
    BY <1>2, <2>1, <2>2, <2>3, <2>4
  <2>5. CASE h[s].target = u
    <3>1. h[s].seen.stamp \in Nat /\ users[u].stamp \in Nat
          /\ users[u].stamp <= now
      BY <1>6, <2>2, <2>3, <2>5 DEF Row
    <3> QED
      BY <1>1, <1>2, <2>1, <2>3, <2>5, <3>1
  <2> QED
    BY <2>4, <2>5
<1> QED
  BY <1>3, <1>4, <1>5, <1>7, <1>8 DEF AdminInv

\* What a request knows when its UPDATE has found the row.
LEMMA AtTheWrite ==
    ASSUME AdminInv, NEW t \in Threads, h[t].at = "write", Current(h[t])
    PROVE  /\ h[t].target \in Users /\ users[h[t].target] \in Row
           /\ users[h[t].target] # None /\ users[h[t].target].live
           /\ h[t].seen \in Row
           /\ users[h[t].target].name = h[t].seen.name
           /\ users[h[t].target].mail = h[t].seen.mail
           /\ users[h[t].target].role = h[t].seen.role
           /\ guardTarget(h[t], h[t].target, users[h[t].target])
           /\ h[t].ask \in Asks /\ h[t].role \in KnownRoles
           /\ MayGrant(h[t].role, h[t].ask)
<1>1. /\ h[t].target \in Users /\ h[t].seen \in Row
      /\ guardTarget(h[t], h[t].target, h[t].seen)
      /\ h[t].ask \in Asks /\ h[t].role \in KnownRoles
      /\ MayGrant(h[t].role, h[t].ask)
  BY DEF AdminInv, ChecksPassed
<1>2. /\ users[h[t].target] # None /\ users[h[t].target].live
      /\ users[h[t].target].role = h[t].seen.role
      /\ users[h[t].target].stamp = h[t].seen.stamp
  BY DEF Current, Live
<1>3. users[h[t].target] \in Row
  BY <1>1, <1>2 DEF AdminInv, TypeOK
<1>4. /\ users[h[t].target].name = h[t].seen.name
      /\ users[h[t].target].mail = h[t].seen.mail
  BY <1>2 DEF AdminInv, SeenIsPast
<1>5. guardTarget(h[t], h[t].target, users[h[t].target])
  BY <1>1, <1>2 DEF guardTarget
<1> QED
  BY <1>1, <1>2, <1>3, <1>4, <1>5

\* An account keeps its own name and address among the others.
LEMMA OwnIdentityFree ==
    ASSUME AdminInv, NEW u \in Users, users[u] # None
    PROVE  IdentityFree(u, users[u].name, users[u].mail)
BY DEF AdminInv, UniqueIdentities, Identified, IdentityFree

\* What a request may ask for, by its kind.
LEMMA AskedFor ==
    ASSUME NEW ask \in Asks
    PROVE  /\ ask \in Ask
           /\ ask.op \in {"create", "role"} => ask.role \in KnownRoles
           /\ ask.op = "create" => ask.name \in Names /\ ask.mail \in Mails
BY DEF Asks, Ask

\* A request that moves on to a point with its checks done.
LEMMA MoveKeepsInv ==
    ASSUME AdminInv, NEW t \in Threads, NEW hd \in Handler,
           h' = [h EXCEPT ![t] = hd], UNCHANGED <<users, now>>,
           hd.at \in {"create", "load", "write"},
           hd.role \in KnownRoles, hd.ask \in Asks,
           hd.at = "create" => hd.ask.op = "create" /\ MayGrant(hd.role, hd.ask),
           hd.at = "write" =>
               /\ hd.target \in Users /\ users[hd.target] # None
               /\ hd.seen = users[hd.target]
               /\ guardTarget(hd, hd.target, hd.seen)
               /\ MayGrant(hd.role, hd.ask)
    PROVE  AdminInv'
<1>1. /\ h' \in [Threads -> Handler] /\ h'[t] = hd
      /\ \A s \in Threads : s # t => h'[s] = h[s]
  BY OthersStay DEF AdminInv
<1>2. hd.at = "write" => hd.seen \in Row /\ hd.seen.stamp \in Nat
  BY DEF AdminInv, TypeOK, Row
<1>3. ChecksPassed'
  <2> SUFFICES ASSUME NEW s \in Threads
               PROVE  /\ h'[s].at \in {"create", "load", "write"} =>
                             h'[s].role \in KnownRoles /\ h'[s].ask \in Asks
                      /\ h'[s].at = "create" =>
                             /\ h'[s].ask.op = "create"
                             /\ MayGrant(h'[s].role, h'[s].ask)
                      /\ h'[s].at = "write" =>
                             /\ h'[s].target \in Users /\ h'[s].seen \in Row
                             /\ guardTarget(h'[s], h'[s].target, h'[s].seen)
                             /\ MayGrant(h'[s].role, h'[s].ask)
    BY DEF ChecksPassed, guardTarget, MayGrant
  <2>1. CASE s = t
    BY <1>1, <1>2, <2>1
  <2>2. CASE s # t
    BY <1>1, <2>2 DEF AdminInv, ChecksPassed
  <2> QED
    BY <2>1, <2>2
<1>4. SeenIsPast'
  <2> SUFFICES ASSUME NEW s \in Threads, h'[s].at = "write"
               PROVE  LET row == users[h'[s].target] IN
                      /\ row # None
                      /\ h'[s].seen.stamp <= row.stamp
                      /\ h'[s].seen.stamp = row.stamp =>
                             /\ h'[s].seen.name = row.name
                             /\ h'[s].seen.mail = row.mail
    BY DEF SeenIsPast
  <2>1. CASE s = t
    BY <1>1, <1>2, <2>1
  <2>2. CASE s # t
    BY <1>1, <2>2 DEF AdminInv, SeenIsPast
  <2> QED
    BY <2>1, <2>2
<1> QED
  BY <1>1, <1>3, <1>4
  DEF AdminInv, TypeOK, UniqueIdentities, Identified, StampsArePast

\* A request that starts has read the caller's role.
LEMMA StartKeepsInv ==
    ASSUME AdminInv, NEW t \in Threads, NEW a \in Users, NEW ask \in Asks,
           Start(t, a, ask)
    PROVE  AdminInv'
<1> DEFINE point == IF ask.op = "create" THEN "create" ELSE "load"
           hd == [Idle EXCEPT !.at = point, !.actor = a,
                              !.role = users[a].role, !.ask = ask]
<1>1. users[a].role \in KnownRoles
  BY DEF Start, Live, AdminInv, TypeOK, Row
<1>2. ask \in Ask
  BY AskedFor
<1>3. /\ hd \in Handler /\ hd.at = point /\ hd.role = users[a].role
      /\ hd.ask = ask
  BY <1>1, <1>2 DEF Handler, Idle, Points
<1>4. h' = [h EXCEPT ![t] = hd] /\ UNCHANGED <<users, now>>
  BY DEF Start
<1>5. hd.at = "create" => ask.op = "create" /\ MayGrant(hd.role, hd.ask)
  BY <1>3 DEF Start
<1>6. hd.at \in {"create", "load"} /\ hd.at # "write"
  BY <1>3
<1> QED
  BY ONLY AdminInv, t \in Threads, ask \in Asks, <1>1, <1>3, <1>4, <1>5, <1>6,
          MoveKeepsInv

\* A request that has read its target holds the row as it is now.
LEMMA LoadKeepsInv ==
    ASSUME AdminInv, NEW t \in Threads, NEW u \in Users, LoadTarget(t, u)
    PROVE  AdminInv'
<1> DEFINE hd == [h[t] EXCEPT !.at = "write", !.target = u, !.seen = users[u]]
<1>1. /\ users[u] \in Row /\ users[u] # None /\ h[t] \in Handler
      /\ h[t].role \in KnownRoles /\ h[t].ask \in Asks
  BY DEF LoadTarget, Live, AdminInv, TypeOK, ChecksPassed
<1>2. /\ hd \in Handler /\ hd.at = "write" /\ hd.target = u
      /\ hd.seen = users[u] /\ hd.role = h[t].role /\ hd.ask = h[t].ask
      /\ hd.actor = h[t].actor
  BY <1>1 DEF Handler, Points
<1>3. h' = [h EXCEPT ![t] = hd] /\ UNCHANGED <<users, now>>
  BY DEF LoadTarget
<1>4. guardTarget(hd, u, users[u]) /\ MayGrant(hd.role, hd.ask)
  BY <1>2 DEF LoadTarget, guardTarget
<1> QED
  BY <1>1, <1>2, <1>3, <1>4, MoveKeepsInv

\* The row each write leaves behind.
RowCreated(ask, time) ==
    [role |-> ask.role, name |-> ask.name, mail |-> ask.mail,
     stamp |-> time, live |-> TRUE]

RowOfRole(row, role, time) == [row EXCEPT !.role = role, !.stamp = time]

RowDeleted(row) == [row EXCEPT !.live = FALSE]

RowEdited(row, name, mail, time) ==
    [row EXCEPT !.name = name, !.mail = mail, !.stamp = time]

\* A write by t of account u that keeps all the rules.
Sound(t, u) ==
    /\ \A v \in Users : v # u => users'[v] = users[v]
    /\ \A s \in Threads : s # t => h'[s] = h[s]
    /\ users'[u] \in Row
    /\ users'[u].role < h[t].role
    /\ h[t].role \in KnownRoles
    /\ users[u] # None =>
           /\ users[u].live
           /\ guardTarget(h[t], u, users[u])
           /\ users'[u].name \in {users[u].name, h[t].ask.name}
           /\ users'[u].mail \in {users[u].mail, h[t].ask.mail}
           /\ users'[u].role \in {users[u].role, h[t].ask.role}

\* A new account goes under a free id, below its creator's level.
LEMMA CreateIsSound ==
    ASSUME AdminInv, NEW t \in Threads, NEW u \in Users,
           CreateManagedUser(t, u)
    PROVE  AdminInv' /\ Sound(t, u)
<1> DEFINE row == RowCreated(h[t].ask, now')
<1>1. /\ h[t].ask \in Asks /\ h[t].ask.op = "create"
      /\ MayGrant(h[t].role, h[t].ask) /\ h[t].role \in KnownRoles
  BY DEF CreateManagedUser, AdminInv, ChecksPassed
<1>2. now' = now + 1 /\ now' \in Nat
  BY DEF CreateManagedUser, Clock, AdminInv, TypeOK
<1>3. /\ row \in Row /\ row.stamp = now' /\ row.name = h[t].ask.name
      /\ row.mail = h[t].ask.mail /\ row.role = h[t].ask.role
  BY <1>1, <1>2, AskedFor DEF RowCreated, Row
<1>4. users' = [users EXCEPT ![u] = row] /\ users[u] = None /\ Finish(t)
  BY DEF CreateManagedUser, RowCreated
<1>5. IdentityFree(u, row.name, row.mail)
  BY <1>3 DEF CreateManagedUser
<1>6. AdminInv'
  BY <1>2, <1>3, <1>4, <1>5, WriteKeepsInv
<1>7. Sound(t, u)
  BY <1>1, <1>3, <1>4, FinishKeepsChecks
  DEF Sound, MayGrant, AdminInv, TypeOK
<1> QED
  BY <1>6, <1>7

\* A role is changed on the very row the checks were made on.
LEMMA RoleChangeIsSound ==
    ASSUME AdminInv, NEW t \in Threads, UpdateUserRole(t)
    PROVE  AdminInv' /\ \E u \in Users : Sound(t, u)
<1> DEFINE u == h[t].target
           row == RowOfRole(users[u], h[t].ask.role, now')
<1>0. h[t].at = "write" /\ Current(h[t]) /\ h[t].ask.op = "role"
  BY DEF UpdateUserRole
<1>1. /\ u \in Users /\ users[u] \in Row /\ users[u] # None /\ users[u].live
      /\ guardTarget(h[t], u, users[u])
      /\ h[t].ask \in Asks /\ h[t].role \in KnownRoles
      /\ MayGrant(h[t].role, h[t].ask)
  BY <1>0, AtTheWrite
<1>2. now' = now + 1 /\ now' \in Nat
  BY DEF UpdateUserRole, Clock, AdminInv, TypeOK
<1>3. h[t].ask.role \in KnownRoles /\ h[t].ask.role < h[t].role
  BY <1>0, <1>1, AskedFor DEF MayGrant
<1>4. /\ row \in Row /\ row.stamp = now' /\ row.name = users[u].name
      /\ row.mail = users[u].mail /\ row.role = h[t].ask.role
  BY <1>1, <1>2, <1>3 DEF RowOfRole, Row
<1>5. users' = [users EXCEPT ![u] = row] /\ Finish(t)
  BY DEF UpdateUserRole, RowOfRole
<1>6. IdentityFree(u, row.name, row.mail)
  BY <1>1, <1>4, OwnIdentityFree
<1>7. AdminInv'
  BY <1>1, <1>2, <1>4, <1>5, <1>6, WriteKeepsInv
<1>8. Sound(t, u)
  BY <1>1, <1>3, <1>4, <1>5, FinishKeepsChecks DEF Sound, AdminInv, TypeOK
<1> QED
  BY <1>1, <1>7, <1>8

\* An account is deleted as it was when the checks were made.
LEMMA DeletionIsSound ==
    ASSUME AdminInv, NEW t \in Threads, DeleteUser(t)
    PROVE  AdminInv' /\ \E u \in Users : Sound(t, u)
<1> DEFINE u == h[t].target
           row == RowDeleted(users[u])
<1>0. h[t].at = "write" /\ Current(h[t])
  BY DEF DeleteUser
<1>1. /\ u \in Users /\ users[u] \in Row /\ users[u] # None /\ users[u].live
      /\ guardTarget(h[t], u, users[u]) /\ h[t].role \in KnownRoles
  BY <1>0, AtTheWrite
<1>2. /\ row \in Row /\ row.stamp = users[u].stamp
      /\ row.name = users[u].name /\ row.mail = users[u].mail
      /\ row.role = users[u].role
  BY <1>1 DEF RowDeleted, Row
<1>3. users' = [users EXCEPT ![u] = row] /\ now' = now /\ Finish(t)
  BY DEF DeleteUser, RowDeleted
<1>4. IdentityFree(u, row.name, row.mail)
  BY <1>1, <1>2, OwnIdentityFree
<1>5. AdminInv'
  BY <1>1, <1>2, <1>3, <1>4, WriteKeepsInv
<1>6. row.role < h[t].role
  BY <1>1, <1>2 DEF guardTarget
<1>7. Sound(t, u)
  BY <1>1, <1>2, <1>3, <1>6, FinishKeepsChecks DEF Sound, AdminInv, TypeOK
<1> QED
  BY <1>1, <1>5, <1>7

\* The columns a request does not mention are written as they are.
LEMMA EditIsSound ==
    ASSUME AdminInv, NEW t \in Threads, UpdateManagedUser(t)
    PROVE  AdminInv' /\ \E u \in Users : Sound(t, u)
<1> DEFINE u == h[t].target
           name == Edited(h[t].ask.name, h[t].seen.name)
           mail == Edited(h[t].ask.mail, h[t].seen.mail)
           row == RowEdited(users[u], name, mail, now')
<1>0. h[t].at = "write" /\ Current(h[t])
  BY DEF UpdateManagedUser
<1>1. /\ u \in Users /\ users[u] \in Row /\ users[u] # None /\ users[u].live
      /\ guardTarget(h[t], u, users[u])
      /\ h[t].seen \in Row /\ h[t].ask \in Asks /\ h[t].role \in KnownRoles
      /\ users[u].name = h[t].seen.name /\ users[u].mail = h[t].seen.mail
  BY <1>0, AtTheWrite
<1>2. now' = now + 1 /\ now' \in Nat
  BY DEF UpdateManagedUser, Clock, AdminInv, TypeOK
<1>3. /\ name \in {users[u].name, h[t].ask.name} /\ name \in Names
      /\ mail \in {users[u].mail, h[t].ask.mail} /\ mail \in Mails
  <2>1. /\ h[t].ask.name \in Names \cup {None}
        /\ h[t].ask.mail \in Mails \cup {None}
        /\ h[t].seen.name \in Names /\ h[t].seen.mail \in Mails
    BY <1>1, AskedFor DEF Ask, Row
  <2> QED
    BY <1>1, <2>1 DEF Edited
<1>4. /\ row \in Row /\ row.stamp = now' /\ row.name = name
      /\ row.mail = mail /\ row.role = users[u].role
  BY ONLY <1>1, <1>2, <1>3 DEF RowEdited, Row
<1>5. users' = [users EXCEPT ![u] = row] /\ Finish(t)
  BY DEF UpdateManagedUser, RowEdited
<1>6. IdentityFree(u, row.name, row.mail)
  BY <1>4 DEF UpdateManagedUser
<1>7. AdminInv'
  BY <1>1, <1>2, <1>4, <1>5, <1>6, WriteKeepsInv
<1>8. row.role < h[t].role
  BY <1>1, <1>4 DEF guardTarget
<1>9. Sound(t, u)
  <2>1. users'[u] = row /\ \A v \in Users : v # u => users'[v] = users[v]
    BY <1>1, <1>5 DEF AdminInv, TypeOK
  <2>2. \A s \in Threads : s # t => h'[s] = h[s]
    BY <1>5, FinishKeepsChecks
  <2> HIDE DEF name, mail, row
  <2> QED
    BY <1>1, <1>3, <1>4, <1>8, <2>1, <2>2 DEF Sound
<1> QED
  BY <1>1, <1>7, <1>9

\* A request that ends without writing.
LEMMA RefuseKeepsInv ==
    ASSUME AdminInv, NEW t \in Threads, Refuse(t)
    PROVE  AdminInv'
<1>1. /\ h' \in [Threads -> Handler] /\ ChecksPassed' /\ h'[t].at = "idle"
      /\ \A s \in Threads : s # t => h'[s] = h[s]
  BY FinishKeepsChecks DEF Refuse
<1>2. UNCHANGED <<users, now>>
  BY DEF Refuse
<1>3. SeenIsPast'
  BY <1>1, <1>2 DEF AdminInv, SeenIsPast
<1> QED
  BY <1>1, <1>2, <1>3
  DEF AdminInv, TypeOK, UniqueIdentities, Identified, StampsArePast

-----------------------------------------------------------------------------

\* Every step keeps the invariant and writes soundly, if it writes at all.
LEMMA StepIsSound ==
    ASSUME AdminInv, [Next]_vars
    PROVE  /\ AdminInv'
           /\ \/ UNCHANGED users
              \/ \E t \in Threads, u \in Users : Sound(t, u)
<1>1. CASE UNCHANGED vars
  BY <1>1 DEF vars, AdminInv, TypeOK, UniqueIdentities, Identified,
              ChecksPassed, guardTarget, SeenIsPast, StampsArePast
<1>2. ASSUME NEW t \in Threads, NEW a \in Users, NEW ask \in Asks,
             Start(t, a, ask)
      PROVE  AdminInv' /\ UNCHANGED users
  BY <1>2, StartKeepsInv DEF Start
<1>3. ASSUME NEW t \in Threads, NEW u \in Users, LoadTarget(t, u)
      PROVE  AdminInv' /\ UNCHANGED users
  BY <1>3, LoadKeepsInv DEF LoadTarget
<1>4. ASSUME NEW t \in Threads, NEW u \in Users, CreateManagedUser(t, u)
      PROVE  AdminInv' /\ Sound(t, u)
  BY <1>4, CreateIsSound
<1>5. ASSUME NEW t \in Threads,
             UpdateUserRole(t) \/ DeleteUser(t) \/ UpdateManagedUser(t)
      PROVE  AdminInv' /\ \E u \in Users : Sound(t, u)
  BY <1>5, RoleChangeIsSound, DeletionIsSound, EditIsSound
<1>6. ASSUME NEW t \in Threads, Refuse(t)
      PROVE  AdminInv' /\ UNCHANGED users
  BY <1>6, RefuseKeepsInv DEF Refuse
<1> QED
  BY <1>1, <1>2, <1>3, <1>4, <1>5, <1>6 DEF Next

\* A sound write is one the action properties allow.
LEMMA SoundIsAllowed ==
    ASSUME AdminInv, NEW t \in Threads, NEW u \in Users, Sound(t, u),
           NEW s \in Threads, NEW v \in Users,
           h'[s] # h[s], users'[v] # users[v]
    PROVE  s = t /\ v = u
BY DEF Sound

\* The seeded table and idle requests satisfy the invariant.
LEMMA InitHolds == Init => AdminInv
<1> SUFFICES ASSUME Init
             PROVE  AdminInv
  OBVIOUS
<1>1. TypeOK
  BY AdminAssumption, IdleTyped DEF Init, TypeOK
<1>2. \A t \in Threads : h[t].at = "idle"
  BY IdleTyped DEF Init
<1>3. ChecksPassed /\ SeenIsPast
  BY <1>2 DEF ChecksPassed, SeenIsPast
<1>4. UniqueIdentities /\ StampsArePast
  BY AdminAssumption DEF Init, UniqueIdentities, StampsArePast
<1> QED
  BY <1>1, <1>3, <1>4 DEF AdminInv

\* The tables and requests keep their types, a request that is about to write
\* has passed the checks on the row it saw, and no stamp is ever reused.
THEOREM AdminInvariant == Spec => []AdminInv
<1>1. AdminInv /\ [Next]_vars => AdminInv'
  BY StepIsSound
<1> QED
  BY <1>1, InitHolds, PTL DEF Spec

\* No two accounts, deleted ones included, share a name or an address.
THEOREM IdentitiesStayUnique == Spec => []UniqueIdentities
<1>1. AdminInv => UniqueIdentities
  BY DEF AdminInv
<1> QED
  BY <1>1, AdminInvariant, PTL

\* Whatever other operators do between its read and its write, a request
\* changes only accounts below its caller and below root, and raises nobody
\* to its caller's level.
THEOREM WritesAreGuarded == Spec => GuardedWrites
<1> DEFINE Guarded ==
      \A t \in Threads, u \in Users :
          h'[t] # h[t] /\ users'[u] # users[u] =>
              /\ users'[u].role < h[t].role
              /\ users[u] # None =>
                     /\ users[u].live
                     /\ users[u].role < RootRole
                     /\ users[u].role < h[t].role
                     /\ h[t].actor # u
<1>1. AdminInv /\ [Next]_vars => Guarded
  <2> SUFFICES ASSUME AdminInv, [Next]_vars, NEW t \in Threads, NEW u \in Users,
                      h'[t] # h[t], users'[u] # users[u]
               PROVE  /\ users'[u].role < h[t].role
                      /\ users[u] # None =>
                             /\ users[u].live
                             /\ users[u].role < RootRole
                             /\ users[u].role < h[t].role
                             /\ h[t].actor # u
    OBVIOUS
  <2>1. Sound(t, u)
    BY StepIsSound, SoundIsAllowed
  <2> QED
    BY <2>1 DEF Sound, guardTarget
<1>2. AdminInv /\ [Next]_vars => [Guarded]_vars
  BY <1>1
<1>3. Spec => [][Guarded]_vars
  <2> HIDE DEF Guarded
  <2> QED
    BY <1>2, AdminInvariant, PTL DEF Spec
<1> QED
  BY <1>3 DEF GuardedWrites

\* No write takes back what another operator wrote after the row was read.
THEOREM NoEditIsLost == Spec => NoLostEdit
<1> DEFINE Kept ==
      \A t \in Threads, u \in Users :
          h'[t] # h[t] /\ users[u] # None /\ users'[u] # users[u] =>
              /\ users'[u].name \in {users[u].name, h[t].ask.name}
              /\ users'[u].mail \in {users[u].mail, h[t].ask.mail}
              /\ users'[u].role \in {users[u].role, h[t].ask.role}
<1>1. AdminInv /\ [Next]_vars => Kept
  <2> SUFFICES ASSUME AdminInv, [Next]_vars, NEW t \in Threads, NEW u \in Users,
                      h'[t] # h[t], users[u] # None, users'[u] # users[u]
               PROVE  /\ users'[u].name \in {users[u].name, h[t].ask.name}
                      /\ users'[u].mail \in {users[u].mail, h[t].ask.mail}
                      /\ users'[u].role \in {users[u].role, h[t].ask.role}
    OBVIOUS
  <2>1. Sound(t, u)
    BY StepIsSound, SoundIsAllowed
  <2> QED
    BY <2>1 DEF Sound
<1>2. AdminInv /\ [Next]_vars => [Kept]_vars
  BY <1>1
<1>3. Spec => [][Kept]_vars
  <2> HIDE DEF Kept
  <2> QED
    BY <1>2, AdminInvariant, PTL DEF Spec
<1> QED
  BY <1>3 DEF NoLostEdit

\* The console neither makes a root account nor changes one.
THEOREM RootsStay == Spec => RootsNeverChange
<1> DEFINE Untouched ==
      \A u \in Users :
          \/ users[u] # None /\ users[u].role = RootRole
          \/ users'[u] # None /\ users'[u].role = RootRole
          => users'[u] = users[u]
<1>1. AdminInv /\ [Next]_vars => Untouched
  <2> SUFFICES ASSUME AdminInv, [Next]_vars, NEW u \in Users,
                      \/ users[u] # None /\ users[u].role = RootRole
                      \/ users'[u] # None /\ users'[u].role = RootRole,
                      users'[u] # users[u]
               PROVE  FALSE
    OBVIOUS
  <2>1. PICK t \in Threads, v \in Users : Sound(t, v)
    BY StepIsSound
  <2>2. v = u
    BY <2>1 DEF Sound
  <2>3. /\ h[t].role \in Nat /\ h[t].role <= RootRole /\ RootRole \in Nat
        /\ users'[u].role \in Nat /\ users'[u].role < h[t].role
    BY <2>1, <2>2, AdminAssumption DEF Sound, Row
  <2>4. users[u] # None => users[u].role < RootRole
    BY <2>1, <2>2 DEF Sound, guardTarget
  <2>5. users[u] # None => users[u].role \in Nat
    BY AdminAssumption DEF AdminInv, TypeOK, Row
  <2> QED
    BY <2>3, <2>4, <2>5
<1>2. AdminInv /\ [Next]_vars => [Untouched]_vars
  BY <1>1
<1>3. Spec => [][Untouched]_vars
  <2> HIDE DEF Untouched
  <2> QED
    BY <1>2, AdminInvariant, PTL DEF Spec
<1> QED
  BY <1>3 DEF RootsNeverChange
=============================================================================
