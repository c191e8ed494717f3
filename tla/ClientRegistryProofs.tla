------------------------ MODULE ClientRegistryProofs ------------------------
(***************************************************************************)
(* What the client directory promises for any number of clients, secrets,  *)
(* operators, token requests and walks, and for any texts and page sizes.  *)
(*                                                                         *)
(* A walk is kept by two counts (WalkOK).  With o rows on the pages it has *)
(* asked for, the clients of rank o or less in its search that it has not  *)
(* shown are no more than the clients that left the search meanwhile, and  *)
(* those it showed twice or may show again, being of a higher rank, no     *)
(* more than those that came into it: a client that leaves moves at most   *)
(* the row of rank o + 1 before the next page, and one that comes moves at *)
(* most one row behind it, the row of rank o or itself.                    *)
(***************************************************************************)
EXTENDS ClientRegistry, ListQueryProofs

TablesOK ==
    /\ clients \in [Ids -> Client \cup {None}]
    /\ drawn \subseteq Secrets
    /\ \A i \in Ids : clients[i] # None => clients[i].secret \in drawn
    /\ told \subseteq Ids \X drawn
    /\ registered \in [Ids -> Nat]
    /\ updates \in 0 .. MaxUpdates
    /\ RegisteredOnce

Running ==
    h \in [Threads -> Handler] /\ walks \in [Threads -> Walk \cup {None}]

\* What a handler has found out at each point.
HandlerKnows(t) ==
    /\ At(t, "create_insert") =>
           /\ h[t].id \in Ids /\ h[t].secret \in drawn
           /\ h[t].name \in Names /\ h[t].uris # {}
    /\ At(t, "check_url") => h[t].id \in Ids /\ h[t].hash \in seen[t]
    /\ At(t, "accepted") => {h[t].secret} \cup h[t].uris \subseteq seen[t]

\* The rows on the pages a walk has asked for.
Passed(w) == (w.page - 1) * clampSize(w.size)

Unshown(w, l) == {i \in l.stable : w.shown[i] = 0}

Shown(w) == {i \in Ids : w.shown[i] > 0}

Twice(w) == {i \in Ids : w.shown[i] > 1}

\* F are the clients that the search finds now.
Misses(w, l, F) ==
    IF w.done THEN Unshown(w, l) ELSE Missed(F, Unshown(w, l), Passed(w))

Repeats(w, F) ==
    IF w.done THEN Twice(w) ELSE Twice(w) \cup Again(F, Shown(w), Passed(w))

\* What holds of a walk w that lived through l.
WalkOK(w, l, F) ==
    /\ w.page > 0
    /\ ~w.done => l.stable \subseteq F
    /\ Cardinality(Misses(w, l, F)) <= l.removed
    /\ Cardinality(Repeats(w, F)) <= l.added
    /\ l.removed = 0 /\ l.added = 0 =>
           Shown(w) \subseteq l.stable /\ (~w.done => F \subseteq l.stable)

WalkKnows(t) ==
    walks[t] # None /\ Plain(walks[t].term) =>
        WalkOK(walks[t], life[t], Sought(t))

\* One step changes at most one row.
RowsMove ==
    clients' = clients \/ \E i \in Ids : \A k \in Ids \ {i} : clients'[k] = clients[k]

Base == TypeOK /\ RegisteredOnce /\ \A t \in Threads : HandlerKnows(t)

RegistryInv == Base /\ \A t \in Threads : WalkKnows(t)

-----------------------------------------------------------------------------
(* The tables.                                                             *)

LEMMA IdsFinite ==
    Ids \in SUBSET Nat /\ \A S \in SUBSET Ids : IsFiniteSet(S) /\ Cardinality(S) \in Nat
<1>1. MaxId \in Nat
  BY RegistryAssumption
<1>2. Ids \in SUBSET Nat /\ IsFiniteSet(Ids)
  <2>1. 1 \in Int /\ MaxId \in Int
    BY <1>1
  <2> QED
    BY <1>1, <2>1, FS_Interval DEF Ids
<1> QED
  BY <1>2, FS_Subset, FS_CardinalityType

LEMMA NonEmpty ==
    ASSUME NEW S, NEW R \in SUBSET S, R # {}
    PROVE  R \in (SUBSET S) \ {{}}
<1>1. R \notin {{}}
  OBVIOUS
<1> QED
  BY <1>1

LEMMA BaseTables == TypeOK /\ RegisteredOnce <=>
    /\ TablesOK /\ Running
    /\ seen \in [Threads -> SUBSET (Secrets \cup Redirects)]
    /\ life \in [Threads -> Life]
BY DEF TypeOK, TablesOK, Running

LEMMA TablesStay ==
    ASSUME TablesOK, UNCHANGED registryVars
    PROVE  TablesOK'
BY DEF TablesOK, registryVars, RegisteredOnce

LEMMA CreateCountTables ==
    ASSUME TablesOK, Running, NEW t \in Threads,
           NEW i \in Ids, NEW s \in Secrets, NEW n \in Names, NEW r \in Redirects,
           CreateCount(t, i, s, n, r)
    PROVE  /\ TablesOK' /\ Running' /\ walks' = walks /\ clients' = clients
           /\ \A u \in Threads \ {t} : h'[u] = h[u]
           /\ h'[t].at = "create_insert" /\ h'[t].id \in Ids
           /\ h'[t].secret \in drawn' /\ h'[t].name \in Names /\ h'[t].uris # {}
           /\ drawn \subseteq drawn'
<1> DEFINE H == [Idle EXCEPT !.at = "create_insert", !.id = i, !.secret = s,
                     !.name = n, !.uris = {r}]
<1>1. /\ H \in Handler /\ H.at = "create_insert" /\ H.id = i /\ H.secret = s
      /\ H.name = n /\ H.uris # {}
  <2> DEFINE one == {r}
  <2>1. one \in SUBSET Redirects /\ one # {}
    OBVIOUS
  <2> HIDE DEF one
  <2>2. H = [Idle EXCEPT !.at = "create_insert", !.id = i, !.secret = s,
                 !.name = n, !.uris = one]
    BY DEF one
  <2> HIDE DEF H
  <2>3. H = [at |-> "create_insert", id |-> i, secret |-> s, name |-> n,
             uris |-> one, hash |-> None]
    BY <2>2 DEF Idle
  <2> QED
    BY <2>1, <2>3 DEF Handler
<1>2. /\ drawn' = drawn \cup {s}
      /\ UNCHANGED <<clients, told, registered, updates, walks>>
      /\ h' = [h EXCEPT ![t] = H]
  BY DEF CreateCount
<1> HIDE DEF H
<1>3. TablesOK'
  <2>1. drawn \subseteq drawn' /\ drawn' \subseteq Secrets
    BY <1>2 DEF TablesOK
  <2>2. RegisteredOnce'
    BY <1>2 DEF TablesOK, RegisteredOnce
  <2>3. \A k \in Ids : clients'[k] # None => clients'[k].secret \in drawn'
    BY <1>2, <2>1 DEF TablesOK
  <2>4. told' \subseteq Ids \X drawn'
    BY <1>2, <2>1 DEF TablesOK
  <2> QED
    BY <1>2, <2>1, <2>2, <2>3, <2>4 DEF TablesOK
<1>4. Running'
  BY <1>1, <1>2 DEF Running
<1>5. h'[t] = H /\ \A u \in Threads \ {t} : h'[u] = h[u]
  BY <1>2 DEF Running
<1> QED
  BY <1>1, <1>2, <1>3, <1>4, <1>5

LEMMA CreateInsertTables ==
    ASSUME TablesOK, Running, NEW t \in Threads, HandlerKnows(t), CreateInsert(t)
    PROVE  /\ TablesOK' /\ Running' /\ walks' = walks /\ drawn' = drawn
           /\ h' = [h EXCEPT ![t] = Idle] /\ RowsMove
<1> DEFINE i == h[t].id
           row == [secret |-> h[t].secret, name |-> h[t].name,
                   uris |-> h[t].uris, deleted |-> FALSE]
<1> USE DEF CreateInsert
<1>1. /\ i \in Ids /\ h[t].secret \in drawn /\ h[t].name \in Names
      /\ h[t].uris # {} /\ h[t] \in Handler
  BY DEF HandlerKnows, Running
<1>2. row \in Client /\ row # None /\ row.secret \in drawn
  <2>1. h[t].uris \in (SUBSET Redirects) \ {{}}
    <3>1. h[t].uris \in SUBSET Redirects
      BY <1>1 DEF Handler
    <3> QED
      BY <1>1, <3>1, NonEmpty
  <2>2. h[t].secret \in Secrets
    BY <1>1 DEF TablesOK
  <2>3. row \in Client
    BY <1>1, <2>1, <2>2 DEF Client
  <2> QED
    BY <1>1, <2>3, RowAssumption
<1>3. Idle \in Handler
  BY DEF Idle, Handler
<1>4. UNCHANGED <<walks, drawn, updates>> /\ h' = [h EXCEPT ![t] = Idle]
  BY DEF Finish
<1>5. Running'
  BY <1>3, <1>4 DEF Running
<1>6. CASE clients[i] = None
  <2>1. /\ clients' = [clients EXCEPT ![i] = row]
        /\ told' = told \cup {<<i, h[t].secret>>}
        /\ registered' = [registered EXCEPT ![i] = @ + 1]
    BY <1>6
  <2> HIDE DEF i, row
  <2> USE DEF TablesOK
  <2>2. clients' \in [Ids -> Client \cup {None}]
    BY <1>2, <2>1
  <2>3. \A k \in Ids : clients'[k] # None => clients'[k].secret \in drawn'
    BY <1>1, <1>2, <1>4, <2>1
  <2>4. told' \subseteq Ids \X drawn'
    BY <1>1, <1>4, <2>1
  <2>5. registered' \in [Ids -> Nat]
    BY <1>1, <2>1
  <2>6. RegisteredOnce'
    <3> SUFFICES ASSUME NEW k \in Ids
                 PROVE  registered'[k] = IF clients'[k] = None THEN 0 ELSE 1
      BY DEF RegisteredOnce
    <3>1. registered[k] = IF clients[k] = None THEN 0 ELSE 1
      BY DEF RegisteredOnce
    <3>2. CASE k = i
      BY <1>1, <1>2, <1>6, <2>1, <3>1, <3>2
    <3>3. CASE k # i
      BY <2>1, <3>1, <3>3
    <3> QED
      BY <3>2, <3>3
  <2>7. drawn' \subseteq Secrets
    BY <1>4
  <2>8. RowsMove
    BY <1>1, <2>1 DEF RowsMove, i
  <2>9. updates' \in 0 .. MaxUpdates
    BY <1>4
  <2> QED
    BY <1>4, <1>5, <2>2, <2>3, <2>4, <2>5, <2>6, <2>7, <2>8, <2>9
<1>7. CASE clients[i] # None
  BY <1>4, <1>5, <1>7, TablesStay DEF registryVars, RowsMove
<1> QED
  BY <1>6, <1>7

LEMMA RowsUpdated ==
    ASSUME TablesOK, NEW i \in Ids, Live(i), NEW row \in Client,
           NEW T, row.secret \in T, drawn \subseteq T, T \subseteq Secrets,
           clients' = [clients EXCEPT ![i] = row], drawn' = T,
           told' \subseteq Ids \X T, registered' = registered,
           updates' \in 0 .. MaxUpdates
    PROVE  TablesOK' /\ RowsMove
<1>1. row # None /\ clients[i] # None
  BY RowAssumption DEF Live
<1> USE DEF TablesOK
<1>2. clients' \in [Ids -> Client \cup {None}]
  OBVIOUS
<1>3. \A k \in Ids : clients'[k] # None => clients'[k].secret \in drawn'
  OBVIOUS
<1>4. \A k \in Ids : clients'[k] = None <=> clients[k] = None
  BY <1>1
<1>5. RegisteredOnce'
  BY <1>4 DEF RegisteredOnce
<1>6. RowsMove
  BY DEF RowsMove
<1> QED
  BY <1>2, <1>3, <1>5, <1>6

LEMMA RenamedRow ==
    ASSUME NEW c \in Client, NEW n \in Names \cup {None}
    PROVE  Renamed(c, n) \in Client /\ Renamed(c, n).secret = c.secret
<1>1. CASE n = None
  BY <1>1 DEF Renamed
<1>2. CASE n # None
  <2> DEFINE U == (SUBSET Redirects) \ {{}}
             d == [c EXCEPT !.name = n]
  <2>1. n \in Names /\ Renamed(c, n) = d
    BY <1>2 DEF Renamed
  <2>2. c \in [secret : Secrets, name : Names, uris : U, deleted : BOOLEAN]
    BY DEF Client
  <2> HIDE DEF U
  <2>3. /\ d \in [secret : Secrets, name : Names, uris : U, deleted : BOOLEAN]
        /\ d.secret = c.secret
    BY <2>1, <2>2
  <2> QED
    BY <2>1, <2>3 DEF Client, U
<1> QED
  BY <1>1, <1>2

LEMMA RedirectedRow ==
    ASSUME NEW c \in Client, NEW R \in SUBSET Redirects, R # {}
    PROVE  [c EXCEPT !.uris = R] \in Client /\ [c EXCEPT !.uris = R].secret = c.secret
<1> DEFINE U == (SUBSET Redirects) \ {{}}
           d == [c EXCEPT !.uris = R]
<1>1. R \in U /\ c \in [secret : Secrets, name : Names, uris : U, deleted : BOOLEAN]
  BY NonEmpty DEF Client
<1> HIDE DEF U
<1>2. /\ d \in [secret : Secrets, name : Names, uris : U, deleted : BOOLEAN]
      /\ d.secret = c.secret
  BY <1>1
<1> QED
  BY <1>2 DEF Client, U

LEMMA UpdateTables ==
    ASSUME TablesOK, Running, NEW t \in Threads, NEW i \in Ids,
           NEW n \in Names \cup {None}, NEW R \in SUBSET Redirects, Update(t, i, n, R)
    PROVE  /\ TablesOK' /\ Running' /\ walks' = walks /\ drawn' = drawn
           /\ \A u \in Threads \ {t} : h'[u] = h[u]
           /\ h'[t].at = "update_load" /\ RowsMove
<1> DEFINE H == [Idle EXCEPT !.at = "update_load", !.id = i]
           row == IF R = {} THEN Renamed(clients[i], n)
                  ELSE [Renamed(clients[i], n) EXCEPT !.uris = R]
<1>1. H \in Handler /\ H.at = "update_load"
  BY DEF Handler, Idle
<1>2. /\ UNCHANGED <<drawn, told, registered, walks>>
      /\ h' = [h EXCEPT ![t] = H] /\ Counted(n, R)
      /\ clients' = clients \/ (Live(i) /\ clients' = [clients EXCEPT ![i] = row])
  BY DEF Update
<1> HIDE DEF H
<1>3. Running'
  BY <1>1, <1>2 DEF Running
<1>4. h'[t] = H /\ \A u \in Threads \ {t} : h'[u] = h[u]
  BY <1>2 DEF Running
<1>5. updates' \in 0 .. MaxUpdates
  BY <1>2, RegistryAssumption DEF Counted, TablesOK
<1>6. CASE clients' = clients
  <2>1. TablesOK'
    BY <1>2, <1>5, <1>6 DEF TablesOK, RegisteredOnce
  <2>2. RowsMove
    BY <1>6 DEF RowsMove
  <2> QED
    BY <1>1, <1>2, <1>3, <1>4, <2>1, <2>2
<1>7. CASE Live(i) /\ clients' = [clients EXCEPT ![i] = row]
  <2>1. clients[i] \in Client /\ clients[i].secret \in drawn
    BY <1>7 DEF TablesOK, Live
  <2>2. PICK c \in Client : c = Renamed(clients[i], n) /\ c.secret = clients[i].secret
    BY <2>1, RenamedRow
  <2>3. row \in Client /\ row.secret = clients[i].secret
    BY <2>2, RedirectedRow
  <2> HIDE DEF row
  <2>4. drawn \subseteq Secrets /\ told' \subseteq Ids \X drawn
    BY <1>2 DEF TablesOK
  <2>5. TablesOK' /\ RowsMove
    BY <1>2, <1>5, <1>7, <2>1, <2>3, <2>4, RowsUpdated
  <2> QED
    BY <1>1, <1>2, <1>3, <1>4, <2>5
<1> QED
  BY <1>2, <1>6, <1>7

LEMMA RotateTables ==
    ASSUME TablesOK, NEW i \in Ids, NEW s \in Secrets, RotateSecret(i, s)
    PROVE  /\ TablesOK' /\ UNCHANGED <<h, walks>> /\ drawn \subseteq drawn'
           /\ RowsMove
<1> DEFINE row == [clients[i] EXCEPT !.secret = s]
<1>1. /\ Live(i) /\ drawn' = drawn \cup {s} /\ told' = told \cup {<<i, s>>}
      /\ clients' = [clients EXCEPT ![i] = row]
      /\ UNCHANGED <<h, walks, registered, updates>>
  BY DEF RotateSecret
<1>2. clients[i] \in Client
  BY <1>1 DEF TablesOK, Live
<1>3. row \in Client /\ row.secret = s
  BY <1>2 DEF Client
<1> HIDE DEF row
<1>4. /\ drawn \subseteq drawn' /\ drawn' \subseteq Secrets /\ s \in drawn'
      /\ updates' \in 0 .. MaxUpdates
  BY <1>1 DEF TablesOK
<1>5. told' \subseteq Ids \X drawn'
  BY <1>1, <1>4 DEF TablesOK
<1>6. TablesOK' /\ RowsMove
  <2> DEFINE T == drawn'
  <2>1. row.secret \in T /\ drawn \subseteq T /\ T \subseteq Secrets
        /\ drawn' = T /\ told' \subseteq Ids \X T
    BY <1>3, <1>4, <1>5
  <2> HIDE DEF T
  <2> QED
    BY <1>1, <1>3, <1>4, <2>1, RowsUpdated
<1> QED
  BY <1>1, <1>4, <1>6

LEMMA DeleteTables ==
    ASSUME TablesOK, NEW i \in Ids, DeleteClient(i)
    PROVE  TablesOK' /\ UNCHANGED <<h, walks, drawn>> /\ RowsMove
<1> DEFINE row == [clients[i] EXCEPT !.deleted = TRUE]
<1>1. /\ Live(i) /\ clients' = [clients EXCEPT ![i] = row]
      /\ UNCHANGED <<drawn, told, registered, updates, h, walks>>
  BY DEF DeleteClient
<1>2. clients[i] \in Client /\ clients[i].secret \in drawn
  BY <1>1 DEF TablesOK, Live
<1>3. row \in Client /\ row.secret = clients[i].secret
  BY <1>2 DEF Client
<1> HIDE DEF row
<1>4. drawn \subseteq Secrets /\ told' \subseteq Ids \X drawn
      /\ updates' \in 0 .. MaxUpdates
  BY <1>1 DEF TablesOK
<1>5. TablesOK' /\ RowsMove
  BY <1>1, <1>2, <1>3, <1>4, RowsUpdated
<1> QED
  BY <1>1, <1>5

LEMMA CheckClientTables ==
    ASSUME TablesOK, Running, NEW t \in Threads,
           NEW i \in Ids, NEW s \in Secrets, NEW r \in Redirects,
           CheckClient(t, i, s, r)
    PROVE  /\ UNCHANGED <<registryVars, walks>> /\ Running' /\ Live(i)
           /\ \A u \in Threads \ {t} : h'[u] = h[u]
           /\ h[t].at = "idle" /\ h'[t].at = "check_url" /\ h'[t].id = i
           /\ h'[t].hash = clients[i].secret
<1> DEFINE H == [Idle EXCEPT !.at = "check_url", !.id = i, !.secret = s,
                     !.uris = {r}, !.hash = clients[i].secret]
<1>1. /\ Live(i) /\ h[t].at = "idle" /\ h' = [h EXCEPT ![t] = H]
      /\ UNCHANGED <<registryVars, walks>>
  BY DEF CheckClient, Free, At
<1>2. clients[i].secret \in Secrets
  BY <1>1 DEF TablesOK, Live, Client
<1>3. /\ H \in Handler /\ H.at = "check_url" /\ H.id = i
      /\ H.hash = clients[i].secret
  <2> DEFINE f == clients[i].secret
         one == {r}
  <2>1. f \in Secrets /\ one \in SUBSET Redirects
    BY <1>2
  <2> HIDE DEF f, one
  <2>2. H = [Idle EXCEPT !.at = "check_url", !.id = i, !.secret = s,
                 !.uris = one, !.hash = f]
    BY DEF one, f
  <2> HIDE DEF H
  <2>3. H = [at |-> "check_url", id |-> i, secret |-> s, name |-> None,
             uris |-> one, hash |-> f]
    BY <2>2 DEF Idle
  <2>4. H \in Handler
    BY <2>1, <2>3 DEF Handler
  <2> QED
    BY <2>3, <2>4 DEF f
<1> HIDE DEF H
<1>4. Running'
  BY <1>1, <1>3 DEF Running
<1>5. h'[t] = H /\ \A u \in Threads \ {t} : h'[u] = h[u]
  BY <1>1 DEF Running
<1> QED
  BY <1>1, <1>3, <1>4, <1>5

LEMMA FinishTables ==
    ASSUME Running, NEW t \in Threads, Finish(t), walks' = walks
    PROVE  /\ Running' /\ h'[t] = Idle
           /\ \A u \in Threads \ {t} : h'[u] = h[u]
<1>1. Idle \in Handler
  BY DEF Idle, Handler
<1> QED
  BY <1>1 DEF Finish, Running

-----------------------------------------------------------------------------
(* The history.                                                            *)

LEMMA SoughtAreIds ==
    ASSUME NEW t  PROVE  Sought(t) \in SUBSET Ids /\ Sought(t)' \in SUBSET Ids
BY DEF Sought, LiveIds

LEMMA ObserveTyped ==
    ASSUME TypeOK, TablesOK', Running', Observe
    PROVE  /\ seen' \in [Threads -> SUBSET (Secrets \cup Redirects)]
           /\ life' \in [Threads -> Life]
<1> DEFINE Any == Secrets \cup Redirects
<1>1. ASSUME NEW i \in Ids \cup {None}
      PROVE  Facts(i) \in SUBSET Any
  <2>1. CASE i # None /\ clients[i] # None
    <3>1. clients[i] \in Client
      BY <2>1 DEF TypeOK
    <3> QED
      BY <3>1 DEF Facts, Client
  <2>2. CASE ~(i # None /\ clients[i] # None)
    BY <2>2 DEF Facts
  <2> QED
    BY <2>1, <2>2
<1>2. ASSUME NEW t \in Threads
      PROVE  Facts(h[t].id)' \in SUBSET Any
  <2>1. h'[t].id \in Ids \cup {None}
    BY DEF Running, Handler
  <2>2. CASE h'[t].id # None /\ clients'[h'[t].id] # None
    <3>1. clients'[h'[t].id] \in Client
      BY <2>1, <2>2 DEF TablesOK
    <3> QED
      BY <3>1 DEF Facts, Client
  <2>3. CASE ~(h'[t].id # None /\ clients'[h'[t].id] # None)
    BY <2>3 DEF Facts
  <2> QED
    BY <2>2, <2>3
<1>3. ASSUME NEW t \in Threads  PROVE  Watch(t) \in SUBSET Any
  <2>1. h'[t].id \in Ids \cup {None}
    BY DEF Running, Handler
  <2>2. Facts(h'[t].id) \in SUBSET Any /\ seen[t] \in SUBSET Any
    BY <1>1, <2>1 DEF TypeOK
  <2>3. Facts(h[t].id)' \in SUBSET Any
    BY <1>2
  <2> QED
    BY <2>2, <2>3 DEF Watch
<1>4. ASSUME NEW t \in Threads  PROVE  Survive(t) \in Life
  <2>1. NoLife \in Life
    BY DEF NoLife, Life
  <2> DEFINE now == Sought(t)
             next == Sought(t)'
  <2>2. now \in SUBSET Ids /\ next \in SUBSET Ids
    BY SoughtAreIds
  <2>3. life[t] \in Life
    BY DEF TypeOK
  <2>4. Survive(t) =
            IF walks'[t] = None THEN NoLife
            ELSE IF walks[t] = None THEN [NoLife EXCEPT !.stable = next]
            ELSE IF walks[t].done THEN life[t]
            ELSE [stable |-> life[t].stable \cap next,
                  removed |-> life[t].removed + Cardinality(now \ next),
                  added |-> life[t].added + Cardinality(next \ now)]
    BY DEF Survive
  <2> HIDE DEF now, next
  <2>5. [NoLife EXCEPT !.stable = next] \in Life
    BY <2>2 DEF NoLife, Life
  <2>6. [stable |-> life[t].stable \cap next,
         removed |-> life[t].removed + Cardinality(now \ next),
         added |-> life[t].added + Cardinality(next \ now)] \in Life
    <3> DEFINE less == Cardinality(now \ next)
               more == Cardinality(next \ now)
    <3>1. less \in Nat /\ more \in Nat
      <4>1. now \ next \in SUBSET Ids /\ next \ now \in SUBSET Ids
        BY <2>2
      <4> QED
        BY <4>1, IdsFinite
    <3> HIDE DEF less, more
    <3>2. /\ life[t].stable \in SUBSET Ids
          /\ life[t].removed \in Nat /\ life[t].added \in Nat
      BY <2>3 DEF Life
    <3> DEFINE st == life[t].stable \cap next
               rem == life[t].removed + less
               add == life[t].added + more
    <3>3. st \in SUBSET Ids /\ rem \in Nat /\ add \in Nat
      BY <3>1, <3>2
    <3> HIDE DEF st, rem, add
    <3>4. [stable |-> st, removed |-> rem, added |-> add] \in Life
      BY <3>3 DEF Life
    <3> QED
      BY <3>4 DEF st, rem, add, less, more
  <2> QED
    BY <2>1, <2>3, <2>4, <2>5, <2>6
<1> QED
  BY <1>3, <1>4 DEF Observe

\* A handler that goes on keeps what it has seen and sees its row as it is now.
LEMMA SeenGrows ==
    ASSUME Observe, NEW t \in Threads, h'[t].at # "idle"
    PROVE  /\ h[t].at # "idle" => seen[t] \subseteq seen'[t]
           /\ h[t].at = "idle" => Facts(h'[t].id) \subseteq seen'[t]
           /\ Facts(h[t].id)' \subseteq seen'[t]
<1>1. seen'[t] = Watch(t)
  BY DEF Observe
<1> QED
  BY <1>1 DEF Watch

LEMMA HandlerStays ==
    ASSUME Observe, NEW t \in Threads, HandlerKnows(t), h'[t] = h[t],
           drawn \subseteq drawn'
    PROVE  HandlerKnows(t)'
<1>1. h[t].at # "idle" => seen[t] \subseteq seen'[t]
  BY SeenGrows
<1> QED
  BY <1>1 DEF HandlerKnows, At

\* At these points a handler knows nothing that matters later.
LEMMA HandlerRests ==
    ASSUME NEW t \in Threads, h'[t].at \in {"idle", "update_load"}
    PROVE  HandlerKnows(t)'
BY DEF HandlerKnows, At

LEMMA CheckClientKnows ==
    ASSUME Base, Observe, NEW t \in Threads,
           NEW i \in Ids, NEW s \in Secrets, NEW r \in Redirects,
           CheckClient(t, i, s, r)
    PROVE  HandlerKnows(t)'
<1>1. /\ h[t].at = "idle" /\ h'[t].at = "check_url" /\ h'[t].id = i
      /\ h'[t].hash = clients[i].secret /\ Live(i)
  <2>1. TablesOK /\ Running
    BY BaseTables DEF Base
  <2> QED
    BY <2>1, CheckClientTables
<1>2. Facts(i) \subseteq seen'[t]
  BY <1>1, SeenGrows
<1>3. clients[i].secret \in Facts(i)
  <2>1. i # None
    BY RegistryAssumption
  <2> QED
    BY <1>1, <2>1 DEF Facts, Live
<1> QED
  BY <1>1, <1>2, <1>3 DEF HandlerKnows, At

LEMMA CheckUrlKnows ==
    ASSUME Base, Observe, NEW t \in Threads, CheckUrl(t)
    PROVE  /\ UNCHANGED <<registryVars, walks>> /\ Running'
           /\ \A u \in Threads \ {t} : h'[u] = h[u]
           /\ HandlerKnows(t)'
<1> DEFINE i == h[t].id
<1>1. Running /\ h[t] \in Handler
  BY DEF Base, TypeOK, Running
<1>2. UNCHANGED <<registryVars, walks>> /\ h[t].at = "check_url"
  BY DEF CheckUrl, At
<1>3. i \in Ids /\ i # None /\ h[t].hash \in seen[t]
  BY <1>2, RegistryAssumption DEF Base, HandlerKnows, At
<1>4. CASE Finish(t)
  <2>1. Running' /\ h'[t] = Idle /\ \A u \in Threads \ {t} : h'[u] = h[u]
    BY <1>1, <1>2, <1>4, FinishTables
  <2>2. HandlerKnows(t)'
    BY <2>1, HandlerRests DEF Idle
  <2> QED
    BY <1>2, <2>1, <2>2
<1>5. CASE /\ Live(i) /\ h[t].uris \subseteq clients[i].uris
           /\ h[t].secret = h[t].hash
           /\ h' = [h EXCEPT ![t].at = "accepted"]
  <2>1. /\ h'[t] = [h[t] EXCEPT !.at = "accepted"]
        /\ \A u \in Threads \ {t} : h'[u] = h[u]
    BY <1>1, <1>5 DEF Running
  <2>2. /\ h'[t] \in Handler /\ h'[t].at = "accepted" /\ h'[t].id = i
        /\ h'[t].secret = h[t].secret /\ h'[t].uris = h[t].uris
    BY <1>1, <2>1 DEF Handler
  <2>3. Running'
    BY <1>1, <1>2, <1>5, <2>1, <2>2 DEF Running
  <2>4. seen[t] \subseteq seen'[t] /\ Facts(h[t].id)' \subseteq seen'[t]
    BY <1>2, <2>2, SeenGrows
  <2>5. clients' = clients
    BY <1>2 DEF registryVars
  <2>6. clients[i].uris \subseteq Facts(h[t].id)'
    BY <1>3, <1>5, <2>2, <2>5 DEF Facts, Live
  <2>7. h'[t].secret \in seen'[t]
    BY <1>3, <1>5, <2>2, <2>4
  <2>8. h'[t].uris \subseteq seen'[t]
    BY <1>5, <2>2, <2>4, <2>6
  <2>9. HandlerKnows(t)'
    BY <2>2, <2>7, <2>8 DEF HandlerKnows, At
  <2> QED
    BY <1>2, <2>1, <2>3, <2>9
<1> QED
  BY <1>4, <1>5 DEF CheckUrl

\* What the actions of the console and the token endpoint have in common: they
\* leave the tables in order, and every handler but one alone.
StepOK(t) ==
    /\ TablesOK' /\ Running' /\ walks' = walks /\ drawn \subseteq drawn' /\ RowsMove
    /\ \A u \in Threads \ {t} : h'[u] = h[u]
    /\ HandlerKnows(t)'

LEMMA RestingStep ==
    ASSUME Base, NEW t \in Threads, Finish(t), UNCHANGED <<registryVars, walks>>
    PROVE  StepOK(t)
<1>1. TablesOK /\ Running
  BY BaseTables DEF Base
<1>2. TablesOK' /\ drawn \subseteq drawn' /\ RowsMove
  BY <1>1, TablesStay DEF registryVars, RowsMove
<1>3. Running' /\ h'[t] = Idle /\ \A u \in Threads \ {t} : h'[u] = h[u]
  BY <1>1, FinishTables
<1>4. HandlerKnows(t)'
  BY <1>3, HandlerRests DEF Idle
<1> QED
  BY <1>2, <1>3, <1>4 DEF StepOK

LEMMA HandlerSteps ==
    ASSUME Base, Observe, NEW t \in Threads,
           EditStep(t) \/ CheckStep(t) \/ Answer(t) \/ Abort(t)
    PROVE  StepOK(t)
<1>1. TablesOK /\ Running /\ HandlerKnows(t)
  BY BaseTables DEF Base
<1>2. ASSUME NEW i \in Ids, NEW s \in Secrets, NEW n \in Names, NEW r \in Redirects,
             CreateCount(t, i, s, n, r)
      PROVE  StepOK(t)
  <2>1. /\ TablesOK' /\ Running' /\ walks' = walks /\ drawn \subseteq drawn'
        /\ \A u \in Threads \ {t} : h'[u] = h[u]
        /\ h'[t].at = "create_insert" /\ h'[t].id \in Ids
        /\ h'[t].secret \in drawn' /\ h'[t].name \in Names /\ h'[t].uris # {}
        /\ RowsMove
    BY <1>1, <1>2, CreateCountTables DEF RowsMove
  <2>2. HandlerKnows(t)'
    BY <2>1 DEF HandlerKnows, At
  <2> QED
    BY <2>1, <2>2 DEF StepOK
<1>3. CASE CreateInsert(t)
  <2>1. /\ TablesOK' /\ Running' /\ walks' = walks /\ drawn' = drawn
        /\ h' = [h EXCEPT ![t] = Idle] /\ RowsMove
    BY <1>1, <1>3, CreateInsertTables
  <2>2. h'[t] = Idle /\ \A u \in Threads \ {t} : h'[u] = h[u]
    BY <1>1, <2>1 DEF Running
  <2>3. HandlerKnows(t)'
    BY <2>2, HandlerRests DEF Idle
  <2> QED
    BY <2>1, <2>2, <2>3 DEF StepOK
<1>4. ASSUME NEW i \in Ids, NEW n \in Names \cup {None}, NEW R \in SUBSET Redirects,
             Update(t, i, n, R)
      PROVE  StepOK(t)
  <2>1. /\ TablesOK' /\ Running' /\ walks' = walks /\ drawn' = drawn
        /\ \A u \in Threads \ {t} : h'[u] = h[u]
        /\ h'[t].at = "update_load" /\ RowsMove
    BY <1>1, <1>4, UpdateTables
  <2>2. HandlerKnows(t)'
    BY <2>1, HandlerRests
  <2> QED
    BY <2>1, <2>2 DEF StepOK
<1>5. CASE UpdateLoad(t) \/ Answer(t) \/ Abort(t)
  <2>1. Finish(t) /\ UNCHANGED <<registryVars, walks>>
    BY <1>5 DEF UpdateLoad, Answer, Abort
  <2> QED
    BY <2>1, RestingStep
<1>6. ASSUME NEW i \in Ids, NEW s \in Secrets, NEW r \in Redirects,
             CheckClient(t, i, s, r)
      PROVE  StepOK(t)
  <2>1. /\ UNCHANGED <<registryVars, walks>> /\ Running'
        /\ \A u \in Threads \ {t} : h'[u] = h[u]
    BY <1>1, <1>6, CheckClientTables
  <2>2. TablesOK' /\ drawn \subseteq drawn' /\ walks' = walks /\ RowsMove
    BY <1>1, <2>1, TablesStay DEF registryVars, RowsMove
  <2>3. HandlerKnows(t)'
    BY <1>6, CheckClientKnows
  <2> QED
    BY <2>1, <2>2, <2>3 DEF StepOK
<1>7. CASE CheckUrl(t)
  <2>1. /\ UNCHANGED <<registryVars, walks>> /\ Running'
        /\ \A u \in Threads \ {t} : h'[u] = h[u]
        /\ HandlerKnows(t)'
    BY <1>7, CheckUrlKnows
  <2>2. TablesOK' /\ drawn \subseteq drawn' /\ walks' = walks /\ RowsMove
    BY <1>1, <2>1, TablesStay DEF registryVars, RowsMove
  <2> QED
    BY <2>1, <2>2 DEF StepOK
<1> QED
  BY <1>2, <1>3, <1>4, <1>5, <1>6, <1>7 DEF EditStep, CheckStep

\* What the next page makes of a walk.
LEMMA WalkPageRead ==
    ASSUME Running, NEW t \in Threads, WalkPage(t)
    PROVE  LET v == walks[t]
               found == Page(Matching(v.term), v.page, v.size)
           IN /\ v \in Walk /\ v # None /\ ~v.done
              /\ walks'[t] \in Walk
              /\ walks'[t].page = v.page + 1 /\ walks'[t].size = v.size
              /\ walks'[t].term = v.term
              /\ walks'[t].shown =
                     [i \in Ids |-> v.shown[i] + IF i \in found.rows THEN 1 ELSE 0]
              /\ walks'[t].done = ~found.more
              /\ walks' = [walks EXCEPT ![t] = walks'[t]]
<1> DEFINE v == walks[t]
           found == Page(Matching(v.term), v.page, v.size)
           shown == [i \in Ids |-> v.shown[i] + IF i \in found.rows THEN 1 ELSE 0]
           last == ~found.more
           w == [v EXCEPT !.page = v.page + 1, !.done = last, !.shown = shown]
<1>1. v \in Walk /\ v # None /\ ~v.done
  BY DEF Running, WalkPage
<1>2. shown \in [Ids -> Nat] /\ last \in BOOLEAN
  <2>1. v.shown \in [Ids -> Nat]
    BY <1>1 DEF Walk
  <2> HIDE DEF v, found
  <2>2. \A i \in Ids : v.shown[i] + (IF i \in found.rows THEN 1 ELSE 0) \in Nat
    BY <2>1
  <2>3. shown \in [Ids -> Nat]
    BY <2>2
  <2> QED
    BY <2>3
<1>3. walks' = [walks EXCEPT ![t] = w]
  BY DEF WalkPage
<1> HIDE DEF shown, last
<1>4. walks'[t] = w
  BY <1>3 DEF Running
<1>5. /\ w \in Walk
      /\ w.page = v.page + 1 /\ w.size = v.size /\ w.term = v.term
      /\ w.shown = shown /\ w.done = last
  <2> DEFINE next == v.page + 1
  <2>1. v.page \in Nat
    BY <1>1 DEF Walk
  <2>2. next \in Nat
    BY <2>1
  <2> HIDE DEF v, next
  <2>3. w = [v EXCEPT !.page = next, !.done = last, !.shown = shown]
    BY DEF next
  <2> HIDE DEF w
  <2> QED
    BY <1>1, <1>2, <2>2, <2>3 DEF Walk, next
<1> HIDE DEF w
<1> QED
  BY <1>1, <1>3, <1>4, <1>5 DEF shown, last

LEMMA WalkSteps ==
    ASSUME TypeOK, NEW t \in Threads, WalkStep(t)
    PROVE  /\ UNCHANGED <<registryVars, h>> /\ Running'
           /\ \A u \in Threads \ {t} : walks'[u] = walks[u]
<1>1. Running
  BY DEF TypeOK, Running
<1> DEFINE Kept == Running' /\ \A u \in Threads \ {t} : walks'[u] = walks[u]
           Turns(w) == walks' = [walks EXCEPT ![t] = w]
<1>2. ASSUME NEW w \in Walk \cup {None}, Turns(w), h' = h
      PROVE  Kept
  BY <1>1, <1>2 DEF Running
<1> HIDE DEF Kept
<1>3. ASSUME NEW term \in Terms, NEW size \in Sizes, WalkStart(t, term, size)
      PROVE  UNCHANGED <<registryVars, h>> /\ Kept
  <2> DEFINE none == [i \in Ids |-> 0]
             w == [page |-> 1, size |-> size, term |-> term,
                   shown |-> none, done |-> FALSE]
  <2>1. walks' = [walks EXCEPT ![t] = w] /\ UNCHANGED <<registryVars, h>>
    BY <1>3 DEF WalkStart
  <2>2. none \in [Ids -> Nat]
    OBVIOUS
  <2> HIDE DEF none
  <2>3. w \in Walk
    BY <2>2 DEF Walk
  <2>4. Turns(w) /\ w \in Walk \cup {None} /\ h' = h
    BY <2>1, <2>3
  <2> HIDE DEF w, Turns
  <2>5. Kept
    BY <1>2, <2>4
  <2> QED
    BY <2>1, <2>5
<1>4. CASE WalkPage(t)
  <2> DEFINE w == walks'[t]
  <2>1. w \in Walk /\ walks' = [walks EXCEPT ![t] = w]
    BY <1>1, <1>4, WalkPageRead
  <2>2. UNCHANGED <<registryVars, h>>
    BY <1>4 DEF WalkPage
  <2>3. Turns(w) /\ w \in Walk \cup {None} /\ h' = h
    BY <2>1, <2>2
  <2> HIDE DEF w, Turns
  <2>4. Kept
    BY <1>2, <2>3
  <2> QED
    BY <2>2, <2>4 DEF Kept
<1>5. CASE WalkEnd(t)
  <2>1. walks' = [walks EXCEPT ![t] = None] /\ UNCHANGED <<registryVars, h>>
    BY <1>5 DEF WalkEnd
  <2>2. Turns(None) /\ None \in Walk \cup {None} /\ h' = h
    BY <2>1
  <2> HIDE DEF Turns
  <2>3. Kept
    BY <1>2, <2>2
  <2> QED
    BY <2>1, <2>3 DEF Kept
<1> QED
  BY <1>3, <1>4, <1>5 DEF WalkStep, Kept

LEMMA BaseInit == Init => Base
<1> SUFFICES ASSUME Init  PROVE  Base
  OBVIOUS
<1> USE RegistryAssumption DEF Init
<1>1. Seeded \subseteq Ids /\ SeedSecret \in [Seeded -> Secrets]
  OBVIOUS
<1>2. \A t \in Threads : h[t] = Idle /\ h[t].at = "idle"
  BY DEF Idle
<1>3. \A t \in Threads : HandlerKnows(t)
  BY <1>2 DEF HandlerKnows, At
<1>4. clients \in [Ids -> Client \cup {None}]
  <2> DEFINE Fresh == [secret : Secrets, name : Names,
                       uris : {{r} : r \in Redirects}, deleted : {FALSE}]
  <2>1. Fresh \subseteq Client
    <3> SUFFICES ASSUME NEW c \in Fresh  PROVE  c \in Client
      OBVIOUS
    <3>1. c.uris \in {{r} : r \in Redirects}
      OBVIOUS
    <3>2. PICK r \in Redirects : c.uris = {r}
      BY <3>1
    <3>3. c.uris \in (SUBSET Redirects) \ {{}}
      BY <3>2
    <3> DEFINE U == (SUBSET Redirects) \ {{}}
               V == {{q} : q \in Redirects}
    <3>4. /\ c.uris \in U
          /\ c \in [secret : Secrets, name : Names, uris : V, deleted : {FALSE}]
      BY <3>3
    <3> HIDE DEF U, V
    <3>5. c \in [secret : Secrets, name : Names, uris : U, deleted : BOOLEAN]
      BY <3>4
    <3> QED
      BY <3>5 DEF Client, U
  <2>2. clients \in [Ids -> {None} \cup Fresh]
    OBVIOUS
  <2> HIDE DEF Fresh
  <2> QED
    BY <2>1, <2>2
<1>5. \A i \in Ids : clients[i] # None <=> i \in Seeded
  OBVIOUS
<1>6. \A i \in Seeded : clients[i].secret = SeedSecret[i] /\ SeedSecret[i] \in drawn
  OBVIOUS
<1>7. drawn \subseteq Secrets
  BY <1>1
<1>8. told \subseteq Ids \X drawn
  BY <1>1
<1>9. registered \in [Ids -> Nat] /\ RegisteredOnce
  <2>1. registered = [i \in Ids |-> IF i \in Seeded THEN 1 ELSE 0]
    OBVIOUS
  <2> QED
    BY <1>5, <2>1 DEF RegisteredOnce
<1>10. TablesOK
  <2>1. updates \in 0 .. MaxUpdates
    BY RegistryAssumption
  <2> QED
    BY <2>1, <1>4, <1>5, <1>6, <1>7, <1>8, <1>9 DEF TablesOK
<1>11. Running
  <2>1. Idle \in Handler
    BY DEF Idle, Handler
  <2> QED
    BY <2>1 DEF Running
<1>12. seen \in [Threads -> SUBSET (Secrets \cup Redirects)]
  OBVIOUS
<1>13. life \in [Threads -> Life]
  <2>1. NoLife \in Life
    BY DEF NoLife, Life
  <2> QED
    BY <2>1
<1> QED
  BY <1>3, <1>9, <1>10, <1>11, <1>12, <1>13, BaseTables DEF Base

LEMMA BaseFromTables ==
    ASSUME Base, Observe, TablesOK', Running', \A t \in Threads : HandlerKnows(t)'
    PROVE  Base'
<1>1. /\ seen' \in [Threads -> SUBSET (Secrets \cup Redirects)]
      /\ life' \in [Threads -> Life]
  BY ObserveTyped DEF Base
<1>2. TypeOK' /\ RegisteredOnce'
  BY <1>1 DEF TypeOK, TablesOK, Running
<1> QED
  BY <1>2 DEF Base

LEMMA BaseStep ==
    ASSUME Base, [Next]_vars
    PROVE  Base'
<1>1. TablesOK /\ Running /\ TypeOK
  BY BaseTables DEF Base
<1>2. ASSUME Observe, TablesOK', Running', drawn \subseteq drawn', h' = h
      PROVE  Base'
  <2>1. \A t \in Threads : HandlerKnows(t)'
    BY <1>2, HandlerStays DEF Base
  <2> QED
    BY <1>2, <2>1, BaseFromTables
<1>3. ASSUME Observe, NEW t \in Threads,
             EditStep(t) \/ CheckStep(t) \/ Answer(t) \/ Abort(t)
      PROVE  Base'
  <2>1. StepOK(t)
    BY <1>3, HandlerSteps
  <2>2. ASSUME NEW u \in Threads  PROVE  HandlerKnows(u)'
    <3>1. CASE u = t
      BY <2>1, <3>1 DEF StepOK
    <3>2. CASE u # t
      <4>1. h'[u] = h[u] /\ drawn \subseteq drawn' /\ HandlerKnows(u)
        BY <2>1, <3>2 DEF StepOK, Base
      <4> QED
        BY <1>3, <4>1, HandlerStays
    <3> QED
      BY <3>1, <3>2
  <2> QED
    BY <1>3, <2>1, <2>2, BaseFromTables DEF StepOK
<1>4. ASSUME Observe, NEW t \in Threads, WalkStep(t)
      PROVE  Base'
  <2>1. UNCHANGED <<registryVars, h>> /\ Running'
    BY <1>1, <1>4, WalkSteps
  <2>2. TablesOK' /\ drawn \subseteq drawn' /\ h' = h
    BY <1>1, <2>1, TablesStay DEF registryVars
  <2> QED
    BY <1>2, <1>4, <2>1, <2>2
<1>5. ASSUME Observe, NEW i \in Ids, NEW s \in Secrets, RotateSecret(i, s)
      PROVE  Base'
  <2>1. TablesOK' /\ UNCHANGED <<h, walks>> /\ drawn \subseteq drawn'
    BY <1>1, <1>5, RotateTables
  <2>2. Running'
    BY <1>1, <2>1 DEF Running
  <2> QED
    BY <1>2, <1>5, <2>1, <2>2
<1>6. ASSUME Observe, NEW i \in Ids, DeleteClient(i)
      PROVE  Base'
  <2>1. TablesOK' /\ UNCHANGED <<h, walks, drawn>>
    BY <1>1, <1>6, DeleteTables
  <2>2. Running'
    BY <1>1, <2>1 DEF Running
  <2> QED
    BY <1>2, <1>6, <2>1, <2>2
<1>7. CASE UNCHANGED vars
  <2>1. UNCHANGED <<clients, drawn, told, registered, updates, h, walks, seen, life>>
    BY <1>7 DEF vars, registryVars
  <2>2. TypeOK'
    BY <1>1, <2>1 DEF TypeOK
  <2>3. RegisteredOnce'
    BY <2>1 DEF Base, RegisteredOnce
  <2>4. \A t \in Threads : HandlerKnows(t)'
    BY <2>1 DEF Base, HandlerKnows, At
  <2> QED
    BY <2>2, <2>3, <2>4 DEF Base
<1>8. CASE Next
  BY <1>3, <1>4, <1>5, <1>6, <1>8 DEF Next
<1> QED
  BY <1>7, <1>8

-----------------------------------------------------------------------------
(* What a search finds.                                                    *)

Having(term) == {i \in LiveIds : Has(i, term)}

\* A term without a backslash finds the clients that have it.
LEMMA MatchingHaving ==
    ASSUME TypeOK, NEW term \in Terms, Plain(term)
    PROVE  Matching(term) = Having(term)
<1> DEFINE texts == Names \cup {IdText[i] : i \in Ids}
<1>1. texts \subseteq Seq(STRING) /\ term \in Seq(STRING)
  BY RegistryAssumption
<1>2. \A k \in DOMAIN term : term[k] # "\\"
  BY DEF Plain
<1>3. ASSUME NEW x \in texts  PROVE  Like(x, likePattern(term)) <=> Includes(x, term)
  <2>1. x \in Seq(STRING)
    BY <1>1
  <2> QED
    BY <1>1, <1>2, <2>1, LikeIsIncludes
<1>4. Hits[term] = {x \in texts : Like(x, likePattern(term))}
  BY DEF Hits
<1>5. \A x \in texts : x \in Hits[term] <=> Includes(x, term)
  BY <1>3, <1>4
<1>6. ASSUME NEW i \in LiveIds
      PROVE  IdText[i] \in texts /\ clients[i].name \in texts
  <2>1. i \in Ids /\ clients[i] \in Client
    BY DEF TypeOK, LiveIds, Live
  <2> QED
    BY <2>1 DEF Client
<1> HIDE DEF texts
<1> QED
  BY <1>5, <1>6 DEF Matching, Having, Has

\* One step takes one client out of a search, or brings one into it, or neither.
SearchMoves(F, G) ==
    \/ G = F
    \/ \E d \in Ids \ F : G = F \cup {d}
    \/ \E d \in F : G = F \ {d}

LEMMA RowsMoveSearch ==
    ASSUME RowsMove, NEW term
    PROVE  SearchMoves(Having(term), Having(term)')
<1> DEFINE F == Having(term)
           G == Having(term)'
<1>1. F \in SUBSET Ids /\ G \in SUBSET Ids
  BY DEF Having, LiveIds
<1>2. ASSUME NEW k \in Ids, clients'[k] = clients[k]
      PROVE  k \in G <=> k \in F
  BY <1>2 DEF Having, LiveIds, Live, Has
<1>3. CASE clients' = clients
  <2>1. \A k \in Ids : k \in G <=> k \in F
    BY <1>2, <1>3
  <2>2. G = F
    BY <1>1, <2>1
  <2> QED
    BY <2>2 DEF SearchMoves
<1>4. ASSUME NEW i \in Ids, \A k \in Ids \ {i} : clients'[k] = clients[k]
      PROVE  SearchMoves(F, G)
  <2>1. \A k \in Ids \ {i} : k \in G <=> k \in F
    BY <1>2, <1>4
  <2> HIDE DEF F, G
  <2>2. CASE i \in F <=> i \in G
    <3>1. G = F
      BY <1>1, <2>1, <2>2
    <3> QED
      BY <3>1 DEF SearchMoves
  <2>3. CASE i \notin F /\ i \in G
    <3>1. i \in Ids \ F /\ G = F \cup {i}
      BY <1>1, <2>1, <2>3
    <3> QED
      BY <3>1 DEF SearchMoves
  <2>4. CASE i \in F /\ i \notin G
    <3>1. G = F \ {i}
      BY <1>1, <2>1, <2>4
    <3> QED
      BY <2>4, <3>1 DEF SearchMoves
  <2> QED
    BY <2>2, <2>3, <2>4
<1> QED
  BY <1>3, <1>4 DEF RowsMove

\* A walk is left alone, or it takes a step of its own while no row moves.
LEMMA WalksMove ==
    ASSUME Base, Next, NEW u \in Threads
    PROVE  /\ RowsMove
           /\ \/ walks'[u] = walks[u]
              \/ clients' = clients /\ WalkStep(u)
<1>1. TablesOK /\ Running /\ TypeOK
  BY BaseTables DEF Base
<1>2. ASSUME NEW t \in Threads, EditStep(t) \/ CheckStep(t) \/ Answer(t) \/ Abort(t)
      PROVE  RowsMove /\ walks' = walks
  BY <1>2, HandlerSteps DEF StepOK, Next
<1>3. ASSUME NEW t \in Threads, WalkStep(t)
      PROVE  /\ RowsMove /\ clients' = clients
             /\ \A k \in Threads \ {t} : walks'[k] = walks[k]
  BY <1>1, <1>3, WalkSteps DEF registryVars, RowsMove
<1>4. ASSUME NEW i \in Ids, NEW s \in Secrets, RotateSecret(i, s)
      PROVE  RowsMove /\ walks' = walks
  BY <1>1, <1>4, RotateTables
<1>5. ASSUME NEW i \in Ids, DeleteClient(i)
      PROVE  RowsMove /\ walks' = walks
  BY <1>1, <1>5, DeleteTables
<1> QED
  BY <1>2, <1>3, <1>4, <1>5 DEF Next

-----------------------------------------------------------------------------
(* What a walk lives through.                                              *)

LEMMA WalkFacts ==
    ASSUME NEW w \in Walk, NEW l \in Life, NEW F \in SUBSET Ids, w.page > 0
    PROVE  /\ F \in SUBSET Nat /\ IsFiniteSet(F)
           /\ Passed(w) \in Nat /\ w.page \in Nat \ {0} /\ w.size \in Int
           /\ clampSize(w.size) \in Nat \ {0}
           /\ w.page * clampSize(w.size) = Passed(w) + clampSize(w.size)
           /\ l.removed \in Nat /\ l.added \in Nat /\ l.stable \in SUBSET Ids
           /\ w.shown \in [Ids -> Nat] /\ w.term \in Terms
<1>1. /\ w.page \in Nat \ {0} /\ w.size \in Int
      /\ w.shown \in [Ids -> Nat] /\ w.term \in Terms
  <2>1. w.page \in Nat /\ w.size \in Sizes /\ w.shown \in [Ids -> Nat] /\ w.term \in Terms
    BY DEF Walk
  <2>2. w.size \in Int
    BY <2>1, RegistryAssumption
  <2>3. w.page \in Nat \ {0}
    BY <2>1
  <2> QED
    BY <2>1, <2>2, <2>3
<1>2. l.removed \in Nat /\ l.added \in Nat /\ l.stable \in SUBSET Ids
  BY DEF Life
<1>4. F \in SUBSET Nat /\ IsFiniteSet(F)
  BY IdsFinite
<1> DEFINE c == clampSize(w.size)
           q == w.page - 1
<1>5. c \in Nat \ {0}
  BY <1>1, ListQueryAssumption DEF clampSize
<1>6. q \in Nat /\ w.page = q + 1
  BY <1>1
<1> HIDE DEF c, q
<1>7. q * c \in Nat /\ (q + 1) * c = q * c + c
  BY <1>5, <1>6
<1>8. Passed(w) = q * c
  BY DEF Passed, q, c
<1>9. Passed(w) \in Nat /\ w.page * c = Passed(w) + c
  BY <1>6, <1>7, <1>8
<1> QED
  BY <1>1, <1>2, <1>4, <1>5, <1>9 DEF c

LEMMA FewerFit ==
    ASSUME NEW A \in SUBSET Ids, NEW B \in SUBSET A, NEW n \in Nat,
           Cardinality(A) <= n
    PROVE  Cardinality(B) <= n
<1>1. B \in SUBSET Ids
  OBVIOUS
<1>2. IsFiniteSet(A) /\ Cardinality(A) \in Nat /\ Cardinality(B) \in Nat
  BY <1>1, IdsFinite
<1>3. Cardinality(B) <= Cardinality(A)
  BY <1>2, FS_Subset
<1> QED
  BY <1>2, <1>3

LEMMA OneMoreFits ==
    ASSUME NEW A \in SUBSET Ids, NEW B \in SUBSET Ids, NEW n \in Nat,
           Cardinality(A) <= n, \A i, j \in B \ A : i = j
    PROVE  Cardinality(B) <= n + 1
<1>1. IsFiniteSet(A) /\ Cardinality(A) \in Nat /\ Cardinality(B) \in Nat
  BY IdsFinite
<1>2. Cardinality(B) <= Cardinality(A) + 1
  BY <1>1, OneMore
<1> QED
  BY <1>1, <1>2

LEMMA WalkStarts ==
    ASSUME NEW w \in Walk, NEW l \in Life, NEW F \in SUBSET Ids,
           w.page = 1, ~w.done, \A i \in Ids : w.shown[i] = 0,
           l.stable = F, l.removed = 0, l.added = 0
    PROVE  WalkOK(w, l, F)
<1>1. F \in SUBSET Nat /\ IsFiniteSet(F) /\ clampSize(w.size) \in Nat
  <2>1. w.page > 0
    OBVIOUS
  <2> QED
    BY <2>1, WalkFacts
<1>2. Passed(w) = 0
  BY <1>1 DEF Passed
<1>3. Shown(w) = {} /\ Twice(w) = {}
  BY DEF Shown, Twice
<1>4. \A i \in F : ~(Rank(F, i) <= 0)
  <2> SUFFICES ASSUME NEW i \in F  PROVE  ~(Rank(F, i) <= 0)
    OBVIOUS
  <2>1. Rank(F, i) \in 1 .. Cardinality(F) /\ Cardinality(F) \in Nat
    BY <1>1, RankBounds
  <2> QED
    BY <2>1
<1>5. Misses(w, l, F) = {}
  BY <1>2, <1>4 DEF Misses, Missed
<1>6. Repeats(w, F) = {}
  BY <1>3 DEF Repeats, Again
<1>7. Cardinality({}) = 0
  BY FS_EmptySet
<1> QED
  BY <1>3, <1>5, <1>6, <1>7 DEF WalkOK

LEMMA WalkWaits ==
    ASSUME NEW w \in Walk, NEW l \in Life, NEW m \in Life, NEW F \in SUBSET Ids,
           WalkOK(w, l, F),
           m.stable = l.stable, m.removed = l.removed, m.added = l.added
    PROVE  WalkOK(w, m, F)
BY DEF WalkOK, Misses, Unshown

LEMMA WalkLosesRow ==
    ASSUME NEW w \in Walk, NEW l \in Life, NEW m \in Life, NEW F \in SUBSET Ids,
           WalkOK(w, l, F), ~w.done, NEW d \in F,
           m.stable = l.stable \ {d}, m.removed = l.removed + 1, m.added = l.added
    PROVE  WalkOK(w, m, F \ {d})
<1> DEFINE G == F \ {d}
           o == Passed(w)
           un == Unshown(w, l)
<1>1. /\ w.page > 0 /\ l.stable \subseteq F
      /\ Cardinality(Missed(F, un, o)) <= l.removed
      /\ Cardinality(Twice(w) \cup Again(F, Shown(w), o)) <= l.added
  BY DEF WalkOK, Misses, Repeats
<1>2. /\ F \in SUBSET Nat /\ IsFiniteSet(F) /\ o \in Nat
      /\ l.removed \in Nat /\ l.added \in Nat
  BY <1>1, WalkFacts
<1>3. Unshown(w, m) \subseteq un
  BY DEF Unshown
<1>4. Missed(F, un, o) \in SUBSET Ids /\ Missed(G, un, o) \in SUBSET Ids
  BY DEF Missed
<1>5. /\ Cardinality(Missed(G, un, o)) <= Cardinality(Missed(F, un, o)) + 1
      /\ Again(G, Shown(w), o) \subseteq Again(F, Shown(w), o)
  BY <1>2, MissedLess, AgainLess
<1>6. ~w.done => m.stable \subseteq G
  BY <1>1
<1> HIDE DEF G, o, un
<1>7. Cardinality(Missed(G, un, o)) <= l.removed + 1
  <2>1. Cardinality(Missed(F, un, o)) \in Nat /\ Cardinality(Missed(G, un, o)) \in Nat
    BY <1>4, IdsFinite
  <2> QED
    BY <1>1, <1>2, <1>5, <2>1
<1>8. Cardinality(Missed(G, Unshown(w, m), o)) <= l.removed + 1
  <2>1. l.removed + 1 \in Nat
    BY <1>2
  <2>2. Missed(G, Unshown(w, m), o) \subseteq Missed(G, un, o)
    BY <1>3 DEF Missed
  <2> QED
    BY <1>4, <1>7, <2>1, <2>2, FewerFit
<1>9. Cardinality(Twice(w) \cup Again(G, Shown(w), o)) <= l.added
  <2>1. Twice(w) \cup Again(F, Shown(w), o) \in SUBSET Ids
    BY DEF Twice, Again, Shown
  <2> QED
    BY <1>1, <1>2, <1>5, <2>1, FewerFit
<1>10. m.removed # 0
  BY <1>2
<1> QED
  BY <1>1, <1>6, <1>8, <1>9, <1>10 DEF WalkOK, Misses, Repeats, G, o

LEMMA WalkGainsRow ==
    ASSUME NEW w \in Walk, NEW l \in Life, NEW m \in Life, NEW F \in SUBSET Ids,
           WalkOK(w, l, F), ~w.done, NEW d \in Ids \ F,
           m.stable = l.stable, m.removed = l.removed, m.added = l.added + 1
    PROVE  WalkOK(w, m, F \cup {d})
<1> DEFINE G == F \cup {d}
           o == Passed(w)
           un == Unshown(w, l)
           A == Twice(w) \cup Again(F, Shown(w), o)
           B == Twice(w) \cup Again(G, Shown(w), o)
<1>1. /\ w.page > 0 /\ l.stable \subseteq F
      /\ Cardinality(Missed(F, un, o)) <= l.removed
      /\ Cardinality(A) <= l.added
  BY DEF WalkOK, Misses, Repeats
<1>2. /\ F \in SUBSET Nat /\ IsFiniteSet(F) /\ o \in Nat
      /\ l.removed \in Nat /\ l.added \in Nat
  BY <1>1, WalkFacts
<1>3. d \in Nat \ F /\ d \notin un /\ Unshown(w, m) = un
  <2>1. d \in Nat
    BY IdsFinite
  <2> QED
    BY <1>1, <2>1 DEF Unshown
<1>4. Missed(F, un, o) \in SUBSET Ids
  BY DEF Missed
<1>5. Missed(G, un, o) \subseteq Missed(F, un, o)
  BY <1>2, <1>3, MissedMore
<1>6. \A i, j \in B \ A : i = j
  <2> SUFFICES ASSUME NEW i \in B \ A, NEW j \in B \ A  PROVE  i = j
    OBVIOUS
  <2>1. /\ i \in Again(F \cup {d}, Shown(w), o) \ Again(F, Shown(w), o)
        /\ j \in Again(F \cup {d}, Shown(w), o) \ Again(F, Shown(w), o)
    OBVIOUS
  <2> HIDE DEF o, A, B
  <2> QED
    BY <1>2, <1>3, <2>1, AgainMore
<1>7. A \in SUBSET Ids /\ B \in SUBSET Ids
  BY DEF Twice, Again, Shown
<1>8. ~w.done => m.stable \subseteq G
  BY <1>1
<1> HIDE DEF G, o, un, A, B
<1>9. Cardinality(Missed(G, un, o)) <= l.removed
  BY <1>1, <1>2, <1>4, <1>5, FewerFit
<1>10. Cardinality(B) <= l.added + 1
  BY <1>1, <1>2, <1>6, <1>7, OneMoreFits
<1>11. m.added # 0
  BY <1>2
<1> QED
  BY <1>1, <1>3, <1>8, <1>9, <1>10, <1>11 DEF WalkOK, Misses, Repeats, G, o, B

\* A page leaves no more missed, and nothing new to be shown again.
LEMMA WalkTurnsPage ==
    ASSUME NEW w \in Walk, NEW v \in Walk, NEW l \in Life, NEW m \in Life,
           NEW F \in SUBSET Ids, WalkOK(w, l, F), ~w.done,
           v.page = w.page + 1, v.size = w.size,
           \A i \in Ids : v.shown[i] = w.shown[i] +
               IF i \in Page(F, w.page, w.size).rows THEN 1 ELSE 0,
           v.done = ~Page(F, w.page, w.size).more,
           m.stable = l.stable, m.removed = l.removed, m.added = l.added
    PROVE  WalkOK(v, m, F)
<1> DEFINE o == Passed(w)
           c == clampSize(w.size)
           rows == Page(F, w.page, w.size).rows
           more == Page(F, w.page, w.size).more
<1>1. /\ w.page > 0 /\ l.stable \subseteq F
      /\ Cardinality(Missed(F, Unshown(w, l), o)) <= l.removed
      /\ Cardinality(Twice(w) \cup Again(F, Shown(w), o)) <= l.added
      /\ l.removed = 0 /\ l.added = 0 => Shown(w) \subseteq l.stable /\ F \subseteq l.stable
  BY DEF WalkOK, Misses, Repeats
<1>2. /\ F \in SUBSET Nat /\ IsFiniteSet(F) /\ o \in Nat
      /\ w.page \in Nat \ {0} /\ w.size \in Int /\ c \in Nat \ {0}
      /\ w.page * c = o + c
      /\ l.removed \in Nat /\ l.added \in Nat /\ l.stable \in SUBSET Ids
      /\ w.shown \in [Ids -> Nat]
  BY <1>1, WalkFacts
<1>3. v.page - 1 = w.page /\ v.page > 0
  BY <1>2
<1>4. Passed(v) = o + c
  BY <1>2, <1>3 DEF Passed
<1>5. /\ rows = {i \in F : o < Rank(F, i) /\ Rank(F, i) <= o + c}
      /\ more <=> Cardinality(F) > o + c
  <2> DEFINE a == (w.page - 1) * c
             b == w.page * c
             page == Page(F, w.page, w.size)
  <2>1. page = [rows |-> {i \in F : a < Rank(F, i) /\ Rank(F, i) <= b},
                more |-> Cardinality(F) > b]
    BY <1>2, PagesCutTheList
  <2>2. a = o /\ b = o + c
    BY <1>2 DEF Passed
  <2> HIDE DEF o, c, a, b, page
  <2>3. /\ page.rows = {i \in F : a < Rank(F, i) /\ Rank(F, i) <= b}
        /\ page.more <=> Cardinality(F) > b
    BY <2>1
  <2> QED
    BY <2>2, <2>3 DEF page
<1>6. /\ \A i \in Ids : v.shown[i] = w.shown[i] + IF i \in rows THEN 1 ELSE 0
      /\ v.done = ~more
  OBVIOUS
<1>7. \A i \in Ids : w.shown[i] \in Nat
  BY <1>2
<1>8. \A i \in F : /\ Rank(F, i) \in Nat /\ Rank(F, i) <= Cardinality(F)
                   /\ Cardinality(F) \in Nat
  <2> SUFFICES ASSUME NEW i \in F
               PROVE  /\ Rank(F, i) \in Nat /\ Rank(F, i) <= Cardinality(F)
                      /\ Cardinality(F) \in Nat
    OBVIOUS
  <2>1. Rank(F, i) \in 1 .. Cardinality(F) /\ Cardinality(F) \in Nat
    BY <1>2, RankBounds
  <2> QED
    BY <2>1
<1> DEFINE A == Missed(F, Unshown(w, l), o)
           B == Twice(w) \cup Again(F, Shown(w), o)
<1>9. A \in SUBSET Ids /\ B \in SUBSET Ids
  BY <1>2 DEF Missed, Again, Twice
<1> HIDE DEF o, c, rows, more
<1>11. ASSUME NEW i \in Misses(v, m, F)  PROVE  i \in A
  <2>1. /\ i \in F /\ i \in l.stable /\ v.shown[i] = 0
        /\ Rank(F, i) <= o + c
    <3>1. CASE v.done
      <4>1. i \in l.stable /\ v.shown[i] = 0
        BY <3>1 DEF Misses, Unshown
      <4>2. i \in F
        BY <1>1, <4>1
      <4>3. ~(Cardinality(F) > o + c)
        BY <1>5, <1>6, <3>1
      <4> QED
        BY <1>2, <1>8, <4>1, <4>2, <4>3
    <3>2. CASE ~v.done
      BY <1>4, <3>2 DEF Misses, Missed, Unshown
    <3> QED
      BY <3>1, <3>2
  <2>2. w.shown[i] = 0 /\ i \notin rows
    BY <1>2, <1>6, <1>7, <2>1
  <2>3. Rank(F, i) <= o
    BY <1>2, <1>5, <1>8, <2>1, <2>2
  <2> QED
    BY <2>1, <2>2, <2>3 DEF Missed, Unshown
<1>12. ASSUME NEW i \in Ids, v.shown[i] > 1  PROVE  i \in B
  <2>1. CASE w.shown[i] > 1
    BY <2>1 DEF Twice
  <2>2. CASE ~(w.shown[i] > 1)
    <3>1. i \in rows /\ w.shown[i] > 0
      BY <1>6, <1>7, <1>12, <2>2
    <3> QED
      BY <1>5, <3>1 DEF Again, Shown
  <2> QED
    BY <2>1, <2>2
<1>13. ASSUME NEW i \in Again(F, Shown(v), o + c)  PROVE  i \in B
  <2>1. i \in F /\ i \in Ids /\ v.shown[i] > 0 /\ o + c < Rank(F, i)
    BY DEF Again, Shown
  <2>2. o < Rank(F, i) /\ ~(Rank(F, i) <= o + c)
    BY <1>2, <1>8, <2>1
  <2>3. w.shown[i] > 0
    BY <1>5, <1>6, <1>7, <2>1, <2>2
  <2> QED
    BY <2>1, <2>2, <2>3 DEF Again, Shown
<1>14. Repeats(v, F) \subseteq B
  BY <1>4, <1>12, <1>13 DEF Repeats, Twice
<1>15. l.removed = 0 /\ l.added = 0 => Shown(v) \subseteq l.stable
  <2> SUFFICES ASSUME l.removed = 0, l.added = 0, NEW i \in Ids, v.shown[i] > 0
               PROVE  i \in l.stable
    BY DEF Shown
  <2>1. CASE i \in rows
    BY <1>1, <1>5, <2>1
  <2>2. CASE i \notin rows
    <3>1. w.shown[i] > 0
      BY <1>6, <1>7, <2>2
    <3> QED
      BY <1>1, <3>1 DEF Shown
  <2> QED
    BY <2>1, <2>2
<1>16. Cardinality(Misses(v, m, F)) <= m.removed
  <2>1. Misses(v, m, F) \in SUBSET A
    BY <1>11
  <2>2. Cardinality(A) <= l.removed
    BY <1>1
  <2> HIDE DEF A
  <2> QED
    BY <1>2, <1>9, <2>1, <2>2, FewerFit
<1>17. Cardinality(Repeats(v, F)) <= m.added
  <2>1. Cardinality(B) <= l.added
    BY <1>1
  <2> HIDE DEF B
  <2> QED
    BY <1>2, <1>9, <1>14, <2>1, FewerFit
<1> QED
  BY <1>1, <1>3, <1>15, <1>16, <1>17 DEF WalkOK

-----------------------------------------------------------------------------
(* Every step keeps the counts of every walk.                              *)

LEMMA LifeMoves ==
    ASSUME Base, Base', Observe, NEW u \in Threads, walks'[u] # None
    PROVE  /\ life[u] \in Life /\ life'[u] \in Life
           /\ walks[u] = None =>
                  /\ life'[u].stable = Sought(u)'
                  /\ life'[u].removed = 0 /\ life'[u].added = 0
           /\ walks[u] # None /\ walks[u].done => life'[u] = life[u]
           /\ walks[u] # None /\ ~walks[u].done =>
                  /\ life'[u].stable = life[u].stable \cap Sought(u)'
                  /\ life'[u].removed =
                         life[u].removed + Cardinality(Sought(u) \ Sought(u)')
                  /\ life'[u].added =
                         life[u].added + Cardinality(Sought(u)' \ Sought(u))
<1>1. life \in [Threads -> Life] /\ life' \in [Threads -> Life]
  BY DEF Base, TypeOK
<1>2. PICK F : F = Sought(u)
  OBVIOUS
<1>3. PICK G : G = Sought(u)'
  OBVIOUS
<1>4. life'[u] =
          IF walks'[u] = None THEN NoLife
          ELSE IF walks[u] = None THEN [NoLife EXCEPT !.stable = G]
          ELSE IF walks[u].done THEN life[u]
          ELSE [stable |-> life[u].stable \cap G,
                removed |-> life[u].removed + Cardinality(F \ G),
                added |-> life[u].added + Cardinality(G \ F)]
  BY <1>2, <1>3 DEF Observe, Survive
<1>5. [NoLife EXCEPT !.stable = G] = [stable |-> G, removed |-> 0, added |-> 0]
  BY DEF NoLife
<1>6. life[u] \in Life /\ life'[u] \in Life
  BY <1>1
<1>7. walks[u] = None =>
          /\ life'[u].stable = G
          /\ life'[u].removed = 0 /\ life'[u].added = 0
  BY <1>4, <1>5
<1>8. walks[u] # None /\ walks[u].done => life'[u] = life[u]
  BY <1>4
<1>9. walks[u] # None /\ ~walks[u].done =>
          /\ life'[u].stable = life[u].stable \cap G
          /\ life'[u].removed = life[u].removed + Cardinality(F \ G)
          /\ life'[u].added = life[u].added + Cardinality(G \ F)
  BY <1>4
<1> QED
  BY <1>2, <1>3, <1>6, <1>7, <1>8, <1>9

\* What a walk that goes on lives through, from one list to the next.
Lives(l, m, live, next) ==
    /\ next = live =>
           m.stable = l.stable /\ m.removed = l.removed /\ m.added = l.added
    /\ \A d \in live : next = live \ {d} =>
           /\ m.stable = l.stable \ {d}
           /\ m.removed = l.removed + 1 /\ m.added = l.added
    /\ \A d \in Ids \ live : next = live \cup {d} =>
           /\ m.stable = l.stable
           /\ m.removed = l.removed /\ m.added = l.added + 1

LEMMA LifeCounts ==
    ASSUME NEW l \in Life, NEW m \in Life,
           NEW live \in SUBSET Ids, NEW next, l.stable \subseteq live,
           m.stable = l.stable \cap next,
           m.removed = l.removed + Cardinality(live \ next),
           m.added = l.added + Cardinality(next \ live)
    PROVE  Lives(l, m, live, next)
<1>1. l.removed \in Nat /\ l.added \in Nat
  BY DEF Life
<1>2. Cardinality({}) = 0 /\ \A d \in Ids : Cardinality({d}) = 1
  BY FS_EmptySet, FS_Singleton
<1>3. ASSUME next = live
      PROVE  m.stable = l.stable /\ m.removed = l.removed /\ m.added = l.added
  <2>1. live \ next = {} /\ next \ live = {} /\ m.stable = l.stable
    BY <1>3
  <2> QED
    BY <1>1, <1>2, <2>1
<1>4. ASSUME NEW d \in live, next = live \ {d}
      PROVE  /\ m.stable = l.stable \ {d}
             /\ m.removed = l.removed + 1 /\ m.added = l.added
  <2>1. live \ next = {d} /\ next \ live = {} /\ m.stable = l.stable \ {d}
    BY <1>4
  <2>2. Cardinality({d}) = 1
    BY <1>2
  <2>3. Cardinality(live \ next) = 1 /\ Cardinality(next \ live) = 0
    BY <1>2, <2>1, <2>2, Zenon
  <2> QED
    BY <1>1, <2>1, <2>3
<1>5. ASSUME NEW d \in Ids \ live, next = live \cup {d}
      PROVE  /\ m.stable = l.stable
             /\ m.removed = l.removed /\ m.added = l.added + 1
  <2>1. live \ next = {} /\ next \ live = {d} /\ m.stable = l.stable
    BY <1>5
  <2>2. Cardinality({d}) = 1
    BY <1>2
  <2> QED
    BY <1>1, <1>2, <2>1, <2>2
<1> QED
  BY <1>3, <1>4, <1>5 DEF Lives

LEMMA WalkKept ==
    ASSUME RegistryInv, Base', Next, NEW u \in Threads, walks'[u] = walks[u]
    PROVE  WalkKnows(u)'
<1> SUFFICES ASSUME walks'[u] # None, Plain(walks[u].term)
             PROVE  WalkOK(walks[u], life'[u], Sought(u)')
  BY DEF WalkKnows
<1>1. PICK w : w = walks[u]
  OBVIOUS
<1>2. PICK l : l = life[u]
  OBVIOUS
<1>3. PICK m : m = life'[u]
  OBVIOUS
<1>4. PICK F : F = Sought(u)
  OBVIOUS
<1>5. PICK G : G = Sought(u)'
  OBVIOUS
<1>6. w \in Walk /\ F \in SUBSET Ids /\ WalkOK(w, l, F)
  <2>1. walks[u] \in Walk
    BY DEF RegistryInv, Base, TypeOK
  <2> QED
    BY <1>1, <1>2, <1>4, <2>1, SoughtAreIds DEF RegistryInv, WalkKnows
<1>7. /\ l \in Life /\ m \in Life
      /\ w.done => m = l
      /\ ~w.done => /\ m.stable = l.stable \cap G
                    /\ m.removed = l.removed + Cardinality(F \ G)
                    /\ m.added = l.added + Cardinality(G \ F)
  <2>1. walks[u] # None /\ Base /\ Observe
    BY DEF RegistryInv, Next
  <2> QED
    BY <1>1, <1>2, <1>3, <1>4, <1>5, <2>1, LifeMoves
<1>8. SearchMoves(F, G)
  <2>1. RowsMove
    BY WalksMove DEF RegistryInv
  <2>2. PICK term : term = walks[u].term
    OBVIOUS
  <2>3. F = Having(term) /\ G = Having(term)'
    BY <1>4, <1>5, <2>2 DEF Sought, Having
  <2> QED
    BY <2>1, <2>3, RowsMoveSearch
<1>9. WalkOK(w, m, G)
  <2>1. CASE w.done
    BY <1>6, <1>7, <2>1 DEF WalkOK, Misses, Repeats
  <2>2. CASE ~w.done
    <3>1. l.stable \subseteq F
      BY <1>6, <2>2 DEF WalkOK
    <3>2. Lives(l, m, F, G)
      BY <1>6, <1>7, <2>2, <3>1, LifeCounts
    <3>3. CASE G = F
      BY <1>6, <1>7, <3>2, <3>3, WalkWaits DEF Lives
    <3>4. ASSUME NEW d \in Ids \ F, G = F \cup {d}
          PROVE  WalkOK(w, m, G)
      BY <1>6, <1>7, <2>2, <3>2, <3>4, WalkGainsRow DEF Lives
    <3>5. ASSUME NEW d \in F, G = F \ {d}
          PROVE  WalkOK(w, m, G)
      BY <1>6, <1>7, <2>2, <3>2, <3>5, WalkLosesRow DEF Lives
    <3> QED
      BY <1>8, <3>3, <3>4, <3>5 DEF SearchMoves
  <2> QED
    BY <2>1, <2>2
<1> QED
  BY <1>1, <1>3, <1>5, <1>9

LEMMA WalkStarted ==
    ASSUME RegistryInv, Base', Next, NEW u \in Threads,
           NEW term \in Terms, NEW size \in Sizes, WalkStart(u, term, size)
    PROVE  WalkKnows(u)'
<1> DEFINE none == [i \in Ids |-> 0]
           start == [page |-> 1, size |-> size, term |-> term,
                     shown |-> none, done |-> FALSE]
<1>1. PICK w : w = start
  OBVIOUS
<1>2. PICK m : m = life'[u]
  OBVIOUS
<1>3. PICK G : G = Sought(u)'
  OBVIOUS
<1>4. /\ walks[u] = None /\ walks'[u] = w
      /\ walks'[u] # None => w \in Walk
  <2>1. /\ walks \in [Threads -> Walk \cup {None}]
        /\ walks' \in [Threads -> Walk \cup {None}]
    BY DEF RegistryInv, Base, TypeOK
  <2>2. walks[u] = None /\ walks' = [walks EXCEPT ![u] = w]
    BY <1>1 DEF WalkStart, Free
  <2> QED
    BY <2>1, <2>2
<1>5. w.page = 1 /\ ~w.done /\ \A i \in Ids : w.shown[i] = 0
  BY <1>1
<1> HIDE DEF none, start
<1> SUFFICES ASSUME walks'[u] # None  PROVE  WalkOK(w, m, G)
  BY <1>2, <1>3, <1>4 DEF WalkKnows
<1>6. m \in Life /\ m.stable = G /\ m.removed = 0 /\ m.added = 0
  BY <1>2, <1>3, <1>4, LifeMoves DEF RegistryInv, Next
<1>7. G \in SUBSET Ids
  BY <1>3, SoughtAreIds
<1> QED
  BY <1>4, <1>5, <1>6, <1>7, WalkStarts

LEMMA WalkTurned ==
    ASSUME RegistryInv, Base', Next, NEW u \in Threads, clients' = clients,
           WalkPage(u)
    PROVE  WalkKnows(u)'
<1>1. PICK w : w = walks[u]
  OBVIOUS
<1>2. PICK v : v = walks'[u]
  OBVIOUS
<1>3. PICK l : l = life[u]
  OBVIOUS
<1>4. PICK m : m = life'[u]
  OBVIOUS
<1>5. PICK F : F = Sought(u)
  OBVIOUS
<1>6. PICK page : page = Page(Matching(walks[u].term), walks[u].page, walks[u].size)
  OBVIOUS
<1>7. /\ w \in Walk /\ w # None /\ ~w.done /\ v \in Walk
      /\ v.page = w.page + 1 /\ v.size = w.size /\ v.term = w.term
      /\ v.shown = [i \in Ids |-> w.shown[i] + IF i \in page.rows THEN 1 ELSE 0]
      /\ v.done = ~page.more
  <2>1. Running
    BY DEF RegistryInv, Base, TypeOK, Running
  <2>2. /\ walks[u] \in Walk /\ walks[u] # None /\ ~walks[u].done
        /\ walks'[u] \in Walk
        /\ walks'[u].page = walks[u].page + 1 /\ walks'[u].size = walks[u].size
        /\ walks'[u].term = walks[u].term
        /\ walks'[u].shown = [i \in Ids |->
               walks[u].shown[i] + IF i \in page.rows THEN 1 ELSE 0]
        /\ walks'[u].done = ~page.more
    BY <1>6, <2>1, WalkPageRead
  <2> QED
    BY <1>1, <1>2, <2>2
<1>8. F = Sought(u)'
  <2>1. walks[u].term = walks'[u].term
    BY <1>1, <1>2, <1>7
  <2> QED
    BY <1>5, <2>1 DEF Sought, LiveIds, Live, Has
<1> SUFFICES ASSUME walks'[u] # None, Plain(w.term)  PROVE  WalkOK(v, m, F)
  BY <1>2, <1>4, <1>7, <1>8 DEF WalkKnows
<1>9. page = Page(F, w.page, w.size)
  <2>1. walks[u].term \in Terms /\ Plain(walks[u].term) /\ TypeOK
    BY <1>1, <1>7 DEF Walk, RegistryInv, Base
  <2>2. Matching(walks[u].term) = Having(walks[u].term)
    BY <2>1, MatchingHaving
  <2>3. Matching(walks[u].term) = F
    BY <1>5, <2>2 DEF Having, Sought
  <2> QED
    BY <1>1, <1>6, <2>3
<1>10. F \in SUBSET Ids /\ WalkOK(w, l, F)
  BY <1>1, <1>3, <1>5, <1>7, SoughtAreIds DEF RegistryInv, WalkKnows
<1>11. l \in Life /\ m \in Life /\ l.stable \subseteq F
  <2>1. life[u] \in Life /\ life'[u] \in Life
    BY DEF RegistryInv, Base, TypeOK
  <2> QED
    BY <1>3, <1>4, <1>7, <1>10, <2>1 DEF WalkOK
<1>12. m.stable = l.stable /\ m.removed = l.removed /\ m.added = l.added
  <2>2. PICK G : G = Sought(u)'
    OBVIOUS
  <2>3. /\ m.stable = l.stable \cap G
        /\ m.removed = l.removed + Cardinality(F \ G)
        /\ m.added = l.added + Cardinality(G \ F)
    BY <1>1, <1>3, <1>4, <1>5, <1>7, <2>2, LifeMoves DEF RegistryInv, Next
  <2>4. G = F
    BY <1>8, <2>2
  <2>5. Lives(l, m, F, G)
    BY <1>10, <1>11, <2>3, LifeCounts
  <2> QED
    BY <2>4, <2>5 DEF Lives
<1>13. \A i \in Ids : v.shown[i] = w.shown[i] + IF i \in page.rows THEN 1 ELSE 0
  BY <1>7
<1> QED
  BY <1>7, <1>9, <1>10, <1>11, <1>12, <1>13, WalkTurnsPage

LEMMA KnowsStep ==
    ASSUME RegistryInv, Base', Next, NEW u \in Threads
    PROVE  WalkKnows(u)'
<1>1. \/ walks'[u] = walks[u]
      \/ clients' = clients /\ WalkStep(u)
  BY WalksMove DEF RegistryInv
<1>2. CASE walks'[u] = walks[u]
  BY <1>2, WalkKept
<1>3. ASSUME NEW term \in Terms, NEW size \in Sizes, WalkStart(u, term, size)
      PROVE  WalkKnows(u)'
  BY <1>3, WalkStarted
<1>4. CASE clients' = clients /\ WalkPage(u)
  BY <1>4, WalkTurned
<1>5. CASE WalkEnd(u)
  <2>1. walks'[u] = None
    BY <1>5 DEF WalkEnd, RegistryInv, Base, TypeOK
  <2> QED
    BY <2>1 DEF WalkKnows
<1> QED
  BY <1>1, <1>2, <1>3, <1>4, <1>5 DEF WalkStep

-----------------------------------------------------------------------------
(* The invariant.                                                          *)

LEMMA RegistryInit == Init => RegistryInv
<1> SUFFICES ASSUME Init  PROVE  RegistryInv
  OBVIOUS
<1>1. \A t \in Threads : walks[t] = None
  BY DEF Init
<1> QED
  BY <1>1, BaseInit DEF RegistryInv, WalkKnows

LEMMA RegistryStep == RegistryInv /\ [Next]_vars => RegistryInv'
<1> SUFFICES ASSUME RegistryInv, [Next]_vars  PROVE  RegistryInv'
  OBVIOUS
<1>1. Base'
  BY BaseStep DEF RegistryInv
<1>2. CASE Next
  <2>1. \A u \in Threads : WalkKnows(u)'
    BY <1>1, <1>2, KnowsStep
  <2> QED
    BY <1>1, <2>1 DEF RegistryInv
<1>3. CASE UNCHANGED vars
  <2>1. clients' = clients /\ walks' = walks /\ life' = life
    BY <1>3 DEF vars, registryVars
  <2>2. \A u \in Threads : Sought(u)' = Sought(u)
    BY <2>1 DEF Sought, LiveIds, Live, Has
  <2>3. \A u \in Threads : WalkKnows(u)'
    BY <2>1, <2>2 DEF RegistryInv, WalkKnows
  <2> QED
    BY <1>1, <2>3 DEF RegistryInv
<1> QED
  BY <1>2, <1>3

LEMMA RegistryHolds == Spec => []RegistryInv
BY RegistryInit, RegistryStep, PTL DEF Spec

\* The tables and the running handlers keep their types; every secret of the
\* directory was drawn, and only drawn ones are told.
THEOREM RegistryTyping == Spec => []TypeOK
<1>1. RegistryInv => TypeOK
  BY DEF RegistryInv, Base
<1> QED
  BY <1>1, RegistryHolds, PTL

\* CreateClient: of any number of operators that race for an id one registers
\* it, once and for good, whatever deletions come between.
THEOREM IdsRegisteredOnce == Spec => []RegisteredOnce
<1>1. RegistryInv => RegisteredOnce
  BY DEF RegistryInv, Base
<1> QED
  BY <1>1, RegistryHolds, PTL

\* ValiClient: the secret and the redirect URI it accepts each belonged to the
\* live client at some time since the call began, for any number of operators
\* who rotate, update and delete between its two reads.
THEOREM AcceptedAreCurrent == Spec => []AcceptedIsCurrent
<1>1. RegistryInv => AcceptedIsCurrent
  BY DEF RegistryInv, Base, HandlerKnows, AcceptedIsCurrent
<1> QED
  BY <1>1, RegistryHolds, PTL

\* ListClients page by page, for any page size and search and any number of
\* changes, renames among them: a walk misses no more of the clients that had
\* the term all the time than left its search meanwhile, and shows no more
\* twice than came into it.
THEOREM WalksAreComplete == Spec => []WalkIsComplete
<1>1. RegistryInv => WalkIsComplete
  <2> SUFFICES ASSUME RegistryInv, NEW t \in Threads,
                      walks[t] # None, walks[t].done, Plain(walks[t].term)
               PROVE  /\ Cardinality({i \in life[t].stable : walks[t].shown[i] = 0})
                             <= life[t].removed
                      /\ Cardinality({i \in Ids : walks[t].shown[i] > 1})
                             <= life[t].added
    BY DEF WalkIsComplete
  <2>1. WalkOK(walks[t], life[t], Sought(t))
    BY DEF RegistryInv, WalkKnows
  <2> QED
    BY <2>1 DEF WalkOK, Misses, Repeats, Unshown, Twice
<1> QED
  BY <1>1, RegistryHolds, PTL

\* likePattern: whatever the term, as long as it has no backslash, a page shows
\* only clients that have it when the page is read: % and _ stand for themselves.
THEOREM SearchesAreLiteral == Spec => SearchIsLiteral
<1> DEFINE Literal == \A t \in Threads :
        walks[t] # None /\ walks'[t] # None /\ Plain(walks[t].term) =>
            \A i \in Ids :
                walks'[t].shown[i] # walks[t].shown[i] => i \in Sought(t)
<1>1. RegistryInv /\ [Next]_vars => [Literal]_vars
  <2> SUFFICES ASSUME RegistryInv, Next, NEW t \in Threads,
                      walks[t] # None, walks'[t] # None, Plain(walks[t].term),
                      NEW i \in Ids, walks'[t].shown[i] # walks[t].shown[i]
               PROVE  i \in Sought(t)
    OBVIOUS
  <2>1. Running /\ TypeOK
    BY DEF RegistryInv, Base, TypeOK, Running
  <2>2. WalkStep(t)
    BY WalksMove DEF RegistryInv
  <2>3. WalkPage(t)
    <3>1. ~WalkEnd(t)
      BY <2>1 DEF WalkEnd, Running
    <3> QED
      BY <2>2, <3>1 DEF WalkStep, WalkStart, Free
  <2>4. PICK page : page = Page(Matching(walks[t].term), walks[t].page, walks[t].size)
    OBVIOUS
  <2>5. /\ walks[t] \in Walk
        /\ walks'[t].shown = [k \in Ids |->
               walks[t].shown[k] + IF k \in page.rows THEN 1 ELSE 0]
    BY <2>1, <2>3, <2>4, WalkPageRead
  <2>6. i \in page.rows
    <3>1. walks[t].shown[i] \in Nat
      BY <2>5 DEF Walk
    <3> QED
      BY <2>5, <3>1
  <2>7. i \in Matching(walks[t].term)
    BY <2>4, <2>6 DEF Page, Rows
  <2>8. walks[t].term \in Terms
    BY <2>5 DEF Walk
  <2> QED
    BY <2>1, <2>7, <2>8, MatchingHaving DEF Having, Sought
<1>2. [][Literal]_vars <=> SearchIsLiteral
  BY DEF SearchIsLiteral
<1> HIDE DEF Literal
<1> QED
  BY <1>1, <1>2, RegistryHolds, PTL DEF Spec

\* While no client comes into the search of a walk or leaves it.
QuietWalkIsExact ==
    \A t \in Threads :
        /\ walks[t] # None /\ walks[t].done /\ Plain(walks[t].term)
        /\ life[t].removed = 0 /\ life[t].added = 0
        => \A i \in Ids :
               walks[t].shown[i] = IF i \in life[t].stable THEN 1 ELSE 0

\* ListClients page by page: a walk while no client comes into its search or
\* leaves it shows each client that has the term exactly once, and no other,
\* however many secrets, names and URIs are changed meanwhile, and whatever is
\* registered and deleted outside the search.
THEOREM QuietWalksAreExact == Spec => []QuietWalkIsExact
<1>1. RegistryInv => QuietWalkIsExact
  <2> SUFFICES ASSUME RegistryInv, NEW t \in Threads,
                      walks[t] # None, walks[t].done, Plain(walks[t].term),
                      life[t].removed = 0, life[t].added = 0,
                      NEW i \in Ids
               PROVE  walks[t].shown[i] = IF i \in life[t].stable THEN 1 ELSE 0
    BY DEF QuietWalkIsExact
  <2> DEFINE A == Unshown(walks[t], life[t])
             B == Twice(walks[t])
  <2>1. walks[t].shown \in [Ids -> Nat] /\ life[t].stable \subseteq Ids
    BY DEF RegistryInv, Base, TypeOK, Walk, Life
  <2>2. /\ Cardinality(A) <= 0 /\ Cardinality(B) <= 0
        /\ Shown(walks[t]) \subseteq life[t].stable
    BY DEF RegistryInv, WalkKnows, WalkOK, Misses, Repeats
  <2>3. A \in SUBSET Ids /\ B \in SUBSET Ids
    BY <2>1 DEF Unshown, Twice
  <2> HIDE DEF A, B
  <2>4. IsFiniteSet(A) /\ IsFiniteSet(B)
        /\ Cardinality(A) = 0 /\ Cardinality(B) = 0
    <3>1. /\ IsFiniteSet(A) /\ Cardinality(A) \in Nat
          /\ IsFiniteSet(B) /\ Cardinality(B) \in Nat
      BY <2>3, IdsFinite
    <3> QED
      BY <2>2, <3>1
  <2>5. A = {} /\ B = {}
    BY <2>4, FS_EmptySet
  <2>6. /\ walks[t].shown[i] \in Nat /\ ~(walks[t].shown[i] > 1)
        /\ i \in life[t].stable => walks[t].shown[i] # 0
        /\ walks[t].shown[i] > 0 => i \in life[t].stable
    BY <2>1, <2>2, <2>5 DEF A, B, Unshown, Twice, Shown
  <2> QED
    BY <2>6
<1> QED
  BY <1>1, RegistryHolds, PTL
=============================================================================
