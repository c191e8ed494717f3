--------------------------- MODULE ClientRegistry ---------------------------
(***************************************************************************)
(* The OAuth client directory: registration, update, secret rotation and   *)
(* removal by the console (FGF-idP/controller/admin_client.go over         *)
(* model/client.go), the check of a client's credentials by the token      *)
(* endpoint (model/jwk.go), and the console paging and searching through   *)
(* the directory (model/query.go), all at once.                            *)
(*                                                                         *)
(* Clients are numbered in the order of their client_id, which is the      *)
(* order of the list, and a search looks into client_id and name.  A       *)
(* secret stands for itself and for its hash.                              *)
(***************************************************************************)
EXTENDS ListQuery

CONSTANTS
    MaxId,              \* client_ids 1 .. MaxId may be registered
    Seeded,             \* those registered to begin with
    Secrets,
    SeedSecret, SeedName,
    Redirects,          \* redirect URIs; a client has a non-empty set of them
    IdText,             \* the client_ids as a search sees them, in lower case
    Names,              \* names, as a search sees them
    Terms,              \* search terms, trimmed and lower case
    Threads,
    Walkers,            \* bound: the threads that may page through the list
    Sizes,              \* page sizes that are asked for
    MaxUpdates,         \* bound: updates of a name or of redirect URIs
    None

Ids == 1 .. MaxId

ASSUME RegistryAssumption ==
    /\ MaxId \in Nat /\ MaxUpdates \in Nat /\ Seeded \subseteq Ids
    /\ SeedSecret \in [Seeded -> Secrets]
    /\ SeedName \in [Seeded -> Names]
    /\ \A i, j \in Seeded : SeedSecret[i] = SeedSecret[j] => i = j
    /\ IdText \in [Ids -> Seq(STRING)]
    /\ Names \subseteq Seq(STRING) /\ Terms \subseteq Seq(STRING)
    /\ Sizes \subseteq Int /\ Walkers \subseteq Threads
    /\ None \notin Secrets \cup Redirects \cup Ids /\ None \notin Names

VARIABLES
    clients,            \* table clients
    drawn,              \* the secrets generated so far
    told,               \* <<id, secret>> that a response told an operator
    h,                  \* the running handlers
    walks,              \* the console's walks through the pages
    seen,               \* history: what held since each handler began
    life,               \* history: what each walk lived through
    updates,            \* bounded by MaxUpdates
    registered          \* history: how often each id was registered

registryVars == <<clients, drawn, told, registered, updates>>
vars == <<registryVars, h, walks, seen, life>>

Client ==
    [secret : Secrets, name : Names, uris : (SUBSET Redirects) \ {{}},
     deleted : BOOLEAN]

ASSUME RowAssumption == None \notin Client

Handler ==
    [at : {"idle", "create_insert", "update_load", "check_url", "accepted"},
     id : Ids \cup {None},
     secret : Secrets \cup {None},       \* generated or presented
     name : Names \cup {None},           \* requested
     uris : SUBSET Redirects,            \* requested or presented
     hash : Secrets \cup {None}]         \* of the row ValiClient read

Idle ==
    [at |-> "idle", id |-> None, secret |-> None, name |-> None, uris |-> {},
     hash |-> None]

Walk ==
    [page : Nat, size : Sizes, term : Terms,
     shown : [Ids -> Nat],               \* how often the pages showed each
     done : BOOLEAN]

Life ==
    [stable : SUBSET Ids,                \* sought ever since the walk began
     removed : Nat, added : Nat]         \* clients that ceased, that came to be

NoLife == [stable |-> {}, removed |-> 0, added |-> 0]

TypeOK ==
    /\ clients \in [Ids -> Client \cup {None}]
    /\ drawn \subseteq Secrets
    /\ \A i \in Ids : clients[i] # None => clients[i].secret \in drawn
    /\ told \subseteq Ids \X drawn
    /\ h \in [Threads -> Handler]
    /\ walks \in [Threads -> Walk \cup {None}]
    /\ seen \in [Threads -> SUBSET (Secrets \cup Redirects)]
    /\ life \in [Threads -> Life]
    /\ registered \in [Ids -> Nat]
    /\ updates \in 0 .. MaxUpdates

Init ==
    /\ clients \in [Ids -> {None} \cup
           [secret : Secrets, name : Names, uris : {{r} : r \in Redirects},
            deleted : {FALSE}]]
    /\ \A i \in Ids : clients[i] # None <=> i \in Seeded
    /\ \A i \in Seeded :
           clients[i].secret = SeedSecret[i] /\ clients[i].name = SeedName[i]
    /\ drawn = {SeedSecret[i] : i \in Seeded}
    /\ told = {<<i, SeedSecret[i]>> : i \in Seeded}
    /\ h = [t \in Threads |-> Idle]
    /\ walks = [t \in Threads |-> None]
    /\ seen = [t \in Threads |-> {}]
    /\ life = [t \in Threads |-> NoLife]
    /\ registered = [i \in Ids |-> IF i \in Seeded THEN 1 ELSE 0]
    /\ updates = 0

\* Soft deleted rows stay in the table; only Unscoped queries see them.
Live(i) == clients[i] # None /\ ~clients[i].deleted

At(t, point) == h[t].at = point

Free(t) == At(t, "idle") /\ walks[t] = None

Finish(t) == h' = [h EXCEPT ![t] = Idle]

-----------------------------------------------------------------------------
(* Registration: the probe, then the insert.                               *)

\* newClientSecret, then the Unscoped count; 409 when the id was ever used.
CreateCount(t, i, s, n, r) ==
    /\ Free(t)
    /\ clients[i] = None
    /\ s \notin drawn
    /\ drawn' = drawn \cup {s}
    /\ h' = [h EXCEPT ![t] = [Idle EXCEPT !.at = "create_insert", !.id = i,
                                          !.secret = s, !.name = n, !.uris = {r}]]
    /\ UNCHANGED <<clients, told, registered, updates, walks>>

\* Mutant: the insert leaves an existing row alone and reports success.
CreateInsert_DoNothing(t) ==
    LET i == h[t].id IN
    /\ At(t, "create_insert")
    /\ clients' = [clients EXCEPT ![i] = IF @ # None THEN @ ELSE
           [secret |-> h[t].secret, name |-> h[t].name, uris |-> h[t].uris,
            deleted |-> FALSE]]
    /\ told' = told \cup {<<i, h[t].secret>>}
    /\ registered' = [registered EXCEPT ![i] = @ + 1]
    /\ Finish(t)
    /\ UNCHANGED <<drawn, updates, walks>>

\* The primary key lets one insert through; the other is a server error.  The
\* response tells the secret; one that is lost would only allow less.
CreateInsert(t) ==
    LET i == h[t].id IN
    /\ At(t, "create_insert")
    /\ IF clients[i] = None
       THEN /\ clients' = [clients EXCEPT ![i] =
                  [secret |-> h[t].secret, name |-> h[t].name,
                   uris |-> h[t].uris, deleted |-> FALSE]]
            /\ told' = told \cup {<<i, h[t].secret>>}
            /\ registered' = [registered EXCEPT ![i] = @ + 1]
       ELSE UNCHANGED <<clients, told, registered>>
    /\ Finish(t)
    /\ UNCHANGED <<drawn, updates, walks>>

-----------------------------------------------------------------------------
(* One conditional UPDATE each.                                            *)

Renamed(c, n) == IF n = None THEN c ELSE [c EXCEPT !.name = n]

\* The bound: what goes on between two pages of a walk must come to an end.
Counted(n, R) ==
    IF n = None /\ R = {} THEN UNCHANGED updates
    ELSE updates < MaxUpdates /\ updates' = updates + 1

\* Mutant: an empty list of redirect URIs is not refused.
Update_AnyList(t, i, n, R) ==
    /\ Free(t)
    /\ Live(i)
    /\ clients' = [clients EXCEPT ![i] = [Renamed(@, n) EXCEPT !.uris = R]]
    /\ h' = [h EXCEPT ![t] = [Idle EXCEPT !.at = "update_load", !.id = i]]
    /\ Counted(n, R)
    /\ UNCHANGED <<drawn, told, registered, walks>>

\* A new name, new redirect URIs, both or neither; the view is read afterwards.
\* An update of the scope alone does to a live client what neither does.
Update(t, i, n, R) ==
    /\ Free(t)
    /\ IF n = None /\ R = {} THEN clients' = clients
       ELSE /\ Live(i)
            /\ clients' = [clients EXCEPT ![i] =
                   IF R = {} THEN Renamed(@, n) ELSE [Renamed(@, n) EXCEPT !.uris = R]]
    /\ h' = [h EXCEPT ![t] = [Idle EXCEPT !.at = "update_load", !.id = i]]
    /\ Counted(n, R)
    /\ UNCHANGED <<drawn, told, registered, walks>>

\* GetClient, for the view in the answer; 404 when it was deleted meanwhile.
UpdateLoad(t) ==
    /\ At(t, "update_load")
    /\ Finish(t)
    /\ UNCHANGED <<registryVars, walks>>

RotateSecret(i, s) ==
    /\ Live(i)
    /\ s \notin drawn
    /\ drawn' = drawn \cup {s}
    /\ clients' = [clients EXCEPT ![i].secret = s]
    /\ told' = told \cup {<<i, s>>}
    /\ UNCHANGED <<h, walks, registered, updates>>

DeleteClient(i) ==
    /\ Live(i)
    /\ clients' = [clients EXCEPT ![i].deleted = TRUE]
    /\ UNCHANGED <<drawn, told, registered, updates, h, walks>>

-----------------------------------------------------------------------------
(* ValiClient: the row for its hash, then again for its redirect URIs.     *)

CheckClient(t, i, s, r) ==
    /\ Free(t)
    /\ Live(i)
    /\ <<i, s>> \in told
    /\ h' = [h EXCEPT ![t] = [Idle EXCEPT !.at = "check_url", !.id = i,
                  !.secret = s, !.uris = {r}, !.hash = clients[i].secret]]
    /\ UNCHANGED <<registryVars, walks>>

\* Mutant: the verdict on the redirect URI is not honoured.
CheckUrl_Ignored(t) ==
    /\ At(t, "check_url")
    /\ IF Live(h[t].id) /\ h[t].secret = h[t].hash
       THEN h' = [h EXCEPT ![t].at = "accepted"]
       ELSE Finish(t)
    /\ UNCHANGED <<registryVars, walks>>

\* ValiClientWithUrl, then the comparison of the secret with the first row.
CheckUrl(t) ==
    LET i == h[t].id IN
    /\ At(t, "check_url")
    /\ IF Live(i) /\ h[t].uris \subseteq clients[i].uris /\ h[t].secret = h[t].hash
       THEN h' = [h EXCEPT ![t].at = "accepted"]
       ELSE Finish(t)
    /\ UNCHANGED <<registryVars, walks>>

Answer(t) ==
    /\ At(t, "accepted")
    /\ Finish(t)
    /\ UNCHANGED <<registryVars, walks>>

Abort(t) ==
    /\ h[t].at \in {"create_insert", "check_url"}
    /\ Finish(t)
    /\ UNCHANGED <<registryVars, walks>>

-----------------------------------------------------------------------------
(* The console's next page button: ListClients, until there is no more.    *)

LiveIds == {i \in Ids : Live(i)}

\* The texts that LIKE finds for each term.
Hits ==
    LET texts == Names \cup {IdText[i] : i \in Ids}
    IN [term \in Terms |-> {text \in texts : Like(text, likePattern(term))}]

\* LOWER(client_id) LIKE ? OR LOWER(name) LIKE ?
Matching(term) ==
    {i \in LiveIds : IdText[i] \in Hits[term] \/ clients[i].name \in Hits[term]}

WalkStart(t, term, size) ==
    /\ t \in Walkers
    /\ Free(t)
    /\ walks' = [walks EXCEPT ![t] =
           [page |-> 1, size |-> size, term |-> term,
            shown |-> [i \in Ids |-> 0], done |-> FALSE]]
    /\ UNCHANGED <<registryVars, h>>

WalkPage(t) ==
    /\ walks[t] # None
    /\ ~walks[t].done
    /\ LET w == walks[t]
           found == Page(Matching(w.term), w.page, w.size)
       IN walks' = [walks EXCEPT ![t] =
              [w EXCEPT !.page = @ + 1, !.done = ~found.more,
                        !.shown = [i \in Ids |->
                            @[i] + IF i \in found.rows THEN 1 ELSE 0]]]
    /\ UNCHANGED <<registryVars, h>>

WalkEnd(t) ==
    /\ walks[t] # None
    /\ walks[t].done
    /\ walks' = [walks EXCEPT ![t] = None]
    /\ UNCHANGED <<registryVars, h>>

-----------------------------------------------------------------------------
\* History.
Facts(i) ==
    IF i # None /\ clients[i] # None /\ ~clients[i].deleted
    THEN {clients[i].secret} \cup clients[i].uris ELSE {}

\* What held of a handler's client when it began, and after every step since.
Watch(t) ==
    IF h'[t].at = "idle" THEN {}
    ELSE (IF h[t].at = "idle" THEN Facts(h'[t].id) ELSE seen[t]) \cup Facts(h[t].id)'

\* What a search for the term promises to find.
Has(i, term) == Includes(IdText[i], term) \/ Includes(clients[i].name, term)

\* The clients that the walk of t is after.
Sought(t) == {i \in LiveIds : Has(i, walks[t].term)}

\* A rename moves a client into a search or out of it like an insert or a delete.
Survive(t) ==
    IF walks'[t] = None THEN NoLife
    ELSE IF walks[t] = None THEN [NoLife EXCEPT !.stable = Sought(t)']
    ELSE IF walks[t].done THEN life[t]
    ELSE [stable |-> life[t].stable \cap Sought(t)',
          removed |-> life[t].removed + Cardinality(Sought(t) \ Sought(t)'),
          added |-> life[t].added + Cardinality(Sought(t)' \ Sought(t))]

Observe ==
    /\ seen' = [t \in Threads |-> Watch(t)]
    /\ life' = [t \in Threads |-> Survive(t)]

EditStep(t) ==
    \/ \E i \in Ids, s \in Secrets, n \in Names, r \in Redirects :
           CreateCount(t, i, s, n, r)
    \/ CreateInsert(t)
    \/ \E i \in Ids, n \in Names \cup {None}, R \in SUBSET Redirects :
           Update(t, i, n, R)
    \/ UpdateLoad(t)

CheckStep(t) ==
    \/ \E i \in Ids, s \in Secrets, r \in Redirects : CheckClient(t, i, s, r)
    \/ CheckUrl(t)

WalkStep(t) ==
    \/ \E term \in Terms, size \in Sizes : WalkStart(t, term, size)
    \/ WalkPage(t)
    \/ WalkEnd(t)

Next ==
    /\ \/ \E t \in Threads : EditStep(t) \/ CheckStep(t) \/ WalkStep(t)
       \/ \E t \in Threads : Answer(t) \/ Abort(t)
       \/ \E i \in Ids, s \in Secrets : RotateSecret(i, s)
       \/ \E i \in Ids : DeleteClient(i)
    /\ Observe

Spec == Init /\ [][Next]_vars

-----------------------------------------------------------------------------
(* Properties.                                                             *)

\* CreateClient: whoever races for an id, one registration of it succeeds, and
\* a deleted client keeps its id for good.
RegisteredOnce ==
    \A i \in Ids : registered[i] = IF clients[i] = None THEN 0 ELSE 1

\* ValiClient reads the row twice: what it accepts, the secret and the redirect
\* URI, each belonged to the live client at some time since the call began.  A
\* rotated secret, a withdrawn URI or a deleted client is refused at once.
AcceptedIsCurrent ==
    \A t \in Threads : At(t, "accepted") =>
        {h[t].secret} \cup h[t].uris \subseteq seen[t]

\* A term that the escaping takes literally.
Plain(term) == \A k \in DOMAIN term : term[k] # "\\"

\* ListClients page by page: a walk misses no more of the clients that had the
\* term all the time than were deleted or renamed out of the search meanwhile,
\* and shows no more twice than were registered or renamed into it.
WalkIsComplete ==
    \A t \in Threads : walks[t] # None /\ walks[t].done /\ Plain(walks[t].term) =>
        /\ Cardinality({i \in life[t].stable : walks[t].shown[i] = 0})
               <= life[t].removed
        /\ Cardinality({i \in Ids : walks[t].shown[i] > 1}) <= life[t].added

\* likePattern: a page of a search for % or _ shows only clients that have that
\* character when it is read, as long as the term has no backslash.
SearchIsLiteral ==
    [][\A t \in Threads :
           walks[t] # None /\ walks'[t] # None /\ Plain(walks[t].term) =>
               \A i \in Ids :
                   walks'[t].shown[i] # walks[t].shown[i] => i \in Sought(t)]_vars
=============================================================================
