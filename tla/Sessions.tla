------------------------------ MODULE Sessions ------------------------------
(***************************************************************************)
(* Signed tokens after they left the service: who may still use one.       *)
(* ValidateToken, RevokeToken and SessionUserID (FGF-idP/model/token.go)   *)
(* under Logout, UserInfo and the role middleware, with the clean-up of    *)
(* revocations, while accounts and clients are edited.                     *)
(*                                                                         *)
(* A token is good by its signature and its expiry, which cost no query;   *)
(* that it was not revoked, that its account and client still exist, and   *)
(* what the account may do, are read one statement after the other.        *)
(***************************************************************************)
EXTENDS Naturals, Sequences

CONSTANTS
    Users, Clients, Tokens, Threads, Levels,
    SessionTTL,         \* SessionCookieExpireSeconds
    AccessTTL,          \* AccessTokenExpireSeconds, also of id tokens
    MaxTime,            \* bound on the clock
    MaxEdits,           \* bound: how many edits operators make
    None

ASSUME SessionsAssumption ==
    /\ SessionTTL \in Nat /\ AccessTTL \in Nat
    /\ MaxTime \in Nat /\ MaxEdits \in Nat
    /\ None \notin Users \cup Clients \cup Tokens \cup Levels \cup Nat
    /\ Levels \cap {"trusted", "client"} = {}

VARIABLES
    now,
    tokens,             \* the signed tokens, by jti
    revoked,            \* table revoked_tokens: expires_at, by token
    sweep,              \* the time RunAuthCleanup captured
    level,              \* table users: the role, None when soft deleted
    trusted,            \* users whose device cookie is in user_devices
    clients,            \* table clients: those not soft deleted
    h,                  \* the running handlers
    edits,              \* counts operator edits, up to MaxEdits
    seen,               \* history: what held since each call began
    gone                \* history: tokens whose revocation was committed

accountVars == <<level, trusted, clients, edits>>
tableVars == <<tokens, revoked, sweep, accountVars>>
sessionVars == <<now, tableVars, h, seen, gone>>

Token ==
    [typ : {"session", "access", "id"}, user : Users,
     aud : Clients \cup {None}, exp : Nat]

ASSUME TokenAssumption == None \notin Token

CallPoints == {"admin_revoked", "admin_role", "admin_trust", "admitted",
               "info_revoked", "info_client", "info_user", "told"}

\* The points behind ValidateToken.
Honoured == CallPoints \ {"admin_revoked", "info_revoked"}

Handler ==
    [at : CallPoints \cup {"idle", "logout", "logged_out"},
     tok : Tokens \cup {None},
     todo : {<<>>} \cup {<<j>> : j \in Tokens} \cup (Tokens \X Tokens),
     asked : SUBSET Tokens,                \* what a Logout call presents
     level : Levels \cup {None},           \* the role authenticate read
     dead : BOOLEAN,      \* history: tok was revoked when the call began
     late : BOOLEAN]      \* history: tok had expired at the revocation query

Idle ==
    [at |-> "idle", tok |-> None, todo |-> <<>>, asked |-> {},
     level |-> None, dead |-> FALSE, late |-> FALSE]

TypeOK ==
    /\ now \in 0 .. MaxTime
    /\ tokens \in [Tokens -> Token \cup {None}]
    /\ revoked \in [Tokens -> Nat \cup {None}]
    /\ \A j \in Tokens : revoked[j] # None =>
           tokens[j] # None /\ revoked[j] = tokens[j].exp
    /\ sweep \in Nat \cup {None}
    /\ level \in [Users -> Levels \cup {None}]
    /\ trusted \subseteq Users
    /\ clients \subseteq Clients
    /\ h \in [Threads -> Handler]
    /\ \A t \in Threads : h[t].at \in CallPoints =>
           h[t].tok \in Tokens /\ tokens[h[t].tok] # None
    /\ edits \in 0 .. MaxEdits
    /\ seen \in [Threads -> SUBSET (Levels \cup {"trusted", "client"})]
    /\ gone \subseteq Tokens

Init ==
    /\ now = 0
    /\ tokens = [j \in Tokens |-> None]
    /\ revoked = [j \in Tokens |-> None]
    /\ sweep = None
    /\ level \in [Users -> Levels]
    /\ trusted = Users
    /\ clients = Clients
    /\ h = [t \in Threads |-> Idle]
    /\ edits = 0
    /\ seen = [t \in Threads |-> {}]
    /\ gone = {}

At(t, point) == h[t].at = point

Finish(t) == h' = [h EXCEPT ![t] = Idle]

\* What is true now of the account and the client of a call's token.
Facts(t) ==
    LET tok == tokens[h[t].tok] IN
    ({level[tok.user]} \ {None})
        \cup (IF tok.user \in trusted THEN {"trusted"} ELSE {})
        \cup (IF tok.aud \in clients THEN {"client"} ELSE {})

\* History: every step adds what holds after it for the calls in progress.
Observe ==
    seen' = [t \in Threads |->
        IF h'[t].at \notin CallPoints THEN {}
        ELSE (IF h[t].at \in CallPoints THEN seen[t] ELSE {})
                 \cup Facts(t)']

-----------------------------------------------------------------------------
(* signToken, and what GetJWTPayload checks without the database.          *)

Lifetime(typ) == IF typ = "session" THEN SessionTTL ELSE AccessTTL

signToken(j, typ, u, c) ==
    /\ tokens[j] = None
    /\ tokens' = [tokens EXCEPT ![j] =
           [typ |-> typ, user |-> u, aud |-> c, exp |-> now + Lifetime(typ)]]

\* Login and EmailVerify sign session tokens, Token the others; a signed
\* token may outlive the account that a handler had read.
Issue(j, typ, u, c) ==
    /\ c = None <=> typ = "session"
    /\ signToken(j, typ, u, c)
    /\ UNCHANGED <<now, revoked, sweep, accountVars, h, gone>>

GetJWTPayload(j) == tokens[j] # None /\ now < tokens[j].exp

-----------------------------------------------------------------------------
(* ValidateToken: the expiry when the call begins, then the revocation.    *)

\* A request with a session cookie for the console, or a bearer token for
\* UserInfo; the token may be of any type.
CallStart(t, point, j) ==
    /\ At(t, "idle")
    /\ GetJWTPayload(j)
    /\ h' = [h EXCEPT ![t].at = point, ![t].tok = j,
                      ![t].dead = (j \in gone)]
    /\ UNCHANGED <<now, tableVars, gone>>

IsRevoked(j) == revoked[j] # None /\ revoked[j] > now

\* The count of revocations, then the claims: a session cookie must carry a
\* session token, UserInfo takes access tokens.
CheckRevoked(t) ==
    LET j == h[t].tok IN
    /\ h[t].at \in {"admin_revoked", "info_revoked"}
    /\ IF \/ IsRevoked(j)
          \/ tokens[j].typ # IF At(t, "admin_revoked") THEN "session" ELSE "access"
       THEN Finish(t)
       ELSE h' = [h EXCEPT
              ![t].at = IF @ = "admin_revoked" THEN "admin_role" ELSE "info_client",
              ![t].late = ~GetJWTPayload(j)]
    /\ UNCHANGED <<now, tableVars, gone>>

-----------------------------------------------------------------------------
(* authenticate: the role, then the device.                                *)

AdminRole(t) ==
    LET l == level[tokens[h[t].tok].user] IN
    /\ At(t, "admin_role")
    /\ IF l = None THEN Finish(t)
       ELSE h' = [h EXCEPT ![t].at = "admin_trust", ![t].level = l]
    /\ UNCHANGED <<now, tableVars, gone>>

AdminTrust(t) ==
    /\ At(t, "admin_trust")
    /\ IF tokens[h[t].tok].user \in trusted
       THEN h' = [h EXCEPT ![t].at = "admitted"] ELSE Finish(t)
    /\ UNCHANGED <<now, tableVars, gone>>

-----------------------------------------------------------------------------
(* UserInfo: the client of the token, then its account.                    *)

\* Mutant: ClientExists counts soft deleted clients.
InfoClient_Unscoped(t) ==
    /\ At(t, "info_client")
    /\ h' = [h EXCEPT ![t].at = "info_user"]
    /\ UNCHANGED <<now, tableVars, gone>>

InfoClient(t) ==
    /\ At(t, "info_client")
    /\ IF tokens[h[t].tok].aud \in clients
       THEN h' = [h EXCEPT ![t].at = "info_user"] ELSE Finish(t)
    /\ UNCHANGED <<now, tableVars, gone>>

InfoUser(t) ==
    /\ At(t, "info_user")
    /\ IF level[tokens[h[t].tok].user] # None
       THEN h' = [h EXCEPT ![t].at = "told",
                           ![t].level = level[tokens[h[t].tok].user]]
       ELSE Finish(t)
    /\ UNCHANGED <<now, tableVars, gone>>

-----------------------------------------------------------------------------
(* Logout: the bearer token, then the cookie's.                            *)

Presentable == {<<j>> : j \in Tokens}
                   \cup {js \in Tokens \X Tokens : js[1] # js[2]}

LogoutStart(t, js) ==
    /\ At(t, "idle")
    /\ \A i \in DOMAIN js : tokens[js[i]] # None
    /\ h' = [h EXCEPT ![t].at = "logout", ![t].todo = js,
                      ![t].asked = {js[i] : i \in DOMAIN js}]
    /\ UNCHANGED <<now, tableVars, gone>>

\* Mutant: the row is stored with the time of the logout.
RevokeToken_Now(j) == revoked' = [revoked EXCEPT ![j] = IF @ = None THEN now ELSE @]

\* An insert that leaves an existing row alone.
RevokeToken(j) ==
    revoked' = [revoked EXCEPT ![j] = IF @ = None THEN tokens[j].exp ELSE @]

NextToken(t) ==
    LET rest == Tail(h[t].todo) IN
    h' = [h EXCEPT ![t].todo = rest,
                   ![t].at = IF rest = <<>> THEN "logged_out" ELSE "logout"]

\* An expired token needs no row.
LogoutSkip(t) ==
    /\ At(t, "logout")
    /\ ~GetJWTPayload(Head(h[t].todo))
    /\ NextToken(t)
    /\ UNCHANGED <<now, tableVars, gone>>

\* Mutant: a failed insert is logged and the next token is tried.
LogoutRevoke_GoesOn(t) ==
    LET j == Head(h[t].todo) IN
    /\ At(t, "logout")
    /\ GetJWTPayload(j)
    /\ tokens[j].typ \in {"session", "access"}
    /\ \/ RevokeToken(j) /\ gone' = gone \cup {j}
       \/ UNCHANGED <<revoked, gone>>
    /\ NextToken(t)
    /\ UNCHANGED <<now, tokens, sweep, accountVars>>

LogoutRevoke(t) ==
    LET j == Head(h[t].todo) IN
    /\ At(t, "logout")
    /\ GetJWTPayload(j)
    /\ tokens[j].typ \in {"session", "access"}
    /\ RevokeToken(j)
    /\ gone' = gone \cup {j}
    /\ NextToken(t)
    /\ UNCHANGED <<now, tokens, sweep, accountVars>>

\* 400: an id token; the token before it is already revoked.
LogoutRefuse(t) ==
    /\ At(t, "logout")
    /\ LET j == Head(h[t].todo) IN GetJWTPayload(j) /\ tokens[j].typ = "id"
    /\ Finish(t)
    /\ UNCHANGED <<now, tableVars, gone>>

-----------------------------------------------------------------------------
(* Every answer ends its handler: the page behind the middleware, the      *)
(* claims, the cleared cookie.  Abort is a failed statement or a cancelled *)
(* request, at any point.                                                  *)

Answer(t) ==
    /\ h[t].at \in {"admitted", "told", "logged_out"}
    /\ Finish(t)
    /\ UNCHANGED <<now, tableVars, gone>>

Abort(t) ==
    /\ h[t].at \notin {"idle", "admitted", "told", "logged_out"}
    /\ Finish(t)
    /\ UNCHANGED <<now, tableVars, gone>>

-----------------------------------------------------------------------------
(* The clean-up job's share of this table, the operators, and time.        *)

\* Mutant: the time is captured a tick ahead of the clock.
StartCleanup_RoundsUp ==
    /\ sweep = None
    /\ sweep' = now + 1
    /\ UNCHANGED <<now, tokens, revoked, accountVars, h, gone>>

StartCleanup ==
    /\ sweep = None
    /\ sweep' = now
    /\ UNCHANGED <<now, tokens, revoked, accountVars, h, gone>>

CleanupRevocations ==
    /\ sweep # None
    /\ revoked' = [j \in Tokens |->
           IF revoked[j] # None /\ revoked[j] <= sweep THEN None ELSE revoked[j]]
    /\ sweep' = None
    /\ UNCHANGED <<now, tokens, accountVars, h, gone>>

\* UpdateUserRole and DeleteUser; a changed address drops the devices;
\* DeleteClient.
Edit(u, c) ==
    /\ edits < MaxEdits
    /\ edits' = edits + 1
    /\ \/ /\ level[u] # None
          /\ \E l \in (Levels \cup {None}) \ {level[u]} :
                 level' = [level EXCEPT ![u] = l]
          /\ UNCHANGED <<trusted, clients>>
       \/ /\ u \in trusted
          /\ trusted' = trusted \ {u}
          /\ UNCHANGED <<level, clients>>
       \/ /\ c \in clients
          /\ clients' = clients \ {c}
          /\ UNCHANGED <<level, trusted>>
    /\ UNCHANGED <<now, tokens, revoked, sweep, h, gone>>

Tick ==
    /\ now < MaxTime
    /\ now' = now + 1
    /\ UNCHANGED <<tableVars, h, gone>>

Start(t) ==
    \/ \E j \in Tokens, p \in {"admin_revoked", "info_revoked"} :
           CallStart(t, p, j)
    \/ \E js \in Presentable : LogoutStart(t, js)

Continue(t) ==
    \/ CheckRevoked(t)
    \/ AdminRole(t) \/ AdminTrust(t)
    \/ InfoClient(t) \/ InfoUser(t)
    \/ LogoutSkip(t) \/ LogoutRevoke(t) \/ LogoutRefuse(t)
    \/ Abort(t)

Background ==
    \/ StartCleanup \/ CleanupRevocations
    \/ \E u \in Users, c \in Clients : Edit(u, c)
    \/ Tick

Step ==
    \/ \E j \in Tokens, typ \in {"session", "access", "id"}, u \in Users,
          c \in Clients \cup {None} : Issue(j, typ, u, c)
    \/ \E t \in Threads : Start(t) \/ Continue(t) \/ Answer(t)
    \/ Background

Next == Step /\ Observe

Spec == Init /\ [][Next]_sessionVars

-----------------------------------------------------------------------------
(* Properties.                                                             *)

\* ValidateToken against Logout and the clean-up: a token whose revocation was
\* stored before a call began opens nothing in that call, except one that
\* expired between the call's two checks.
RevokedStaysRevoked ==
    \A t \in Threads : h[t].at \in Honoured => ~h[t].dead \/ h[t].late

\* Logout: a 200, which clears the cookie, means that every token the call
\* presented is revoked or has expired, though they fall one by one.
LogoutMeansLoggedOut ==
    \A t \in Threads : At(t, "logged_out") =>
        \A j \in h[t].asked : j \in gone \/ now >= tokens[j].exp

\* authenticate and UserInfo decide by reads made one after the other: the level
\* a caller is admitted with and the account whose claims are told were there,
\* and the device was trusted or the client registered, at some time since the
\* call began.
AnswersAreFresh ==
    \A t \in Threads :
        /\ At(t, "admitted") => {h[t].level, "trusted"} \subseteq seen[t]
        /\ At(t, "told") => {h[t].level, "client"} \subseteq seen[t]
=============================================================================
