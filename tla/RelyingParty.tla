---------------------------- MODULE RelyingParty ----------------------------
(***************************************************************************)
(* A service that logs its visitors in with fgf-oidc (fgf-oidc/client.go), *)
(* against the sessions and tokens of the identity provider.  Begin seals  *)
(* state, nonce and verifier into a cookie and forgets them; Exchange      *)
(* opens the cookie that comes with the callback, redeems the code, and    *)
(* asks UserInfo with the access token it got.                             *)
(*                                                                         *)
(* An exchange waits for the provider, so one thread is the service's      *)
(* goroutine and the provider's in turn.  State, nonce and verifier are    *)
(* drawn together: a transaction names all three.  The URLs that carry     *)
(* them do not hold them together: a callback has any state beside any     *)
(* code, an authorization request any nonce beside any challenge, or none. *)
(***************************************************************************)
EXTENDS Sessions

CONSTANTS
    Browsers, Transactions, Codes,
    RP,                 \* the service's client at the provider
    FlowTTL,            \* lifetime of the sealed cookie (10 minutes)
    CodeTTL             \* lifetime of an authorization code

ASSUME RPAssumption == RP \in Clients /\ FlowTTL \in Nat /\ CodeTTL \in Nat

VARIABLES
    flows,              \* the sealed cookies made: for whom, until when
    jar,                \* the flow cookie each browser holds
    granted,            \* the codes in authorization responses
    x,                  \* the exchange each thread runs for a callback
    logins              \* history: identities Exchange returned, by code

rpVars == <<flows, jar, granted, x, logins>>
vars == <<sessionVars, rpVars>>

Flow == [b : Browsers, exp : Nat]

Code ==
    [challenge : Transactions \cup {None},     \* None: the request had none
     nonce : Transactions,
     user : Users, exp : Nat, used : BOOLEAN]

Exchange ==
    [at : {"token", "verify", "info"},
     b : Browsers, code : Codes,
     tx : Transactions,                \* what the cookie held
     tok : Tokens \cup {None}]         \* the access token it got

Login == [b : Browsers, tx : Transactions, user : Users]

ASSUME RowAssumption == None \notin Flow \cup Code

RPTypeOK ==
    /\ TypeOK
    /\ flows \in [Transactions -> Flow \cup {None}]
    /\ jar \in [Browsers -> Transactions \cup {None}]
    /\ \A b \in Browsers : jar[b] # None => flows[jar[b]] # None
    /\ granted \in [Codes -> Code \cup {None}]
    /\ x \in [Threads -> Exchange \cup {None}]
    /\ \A t \in Threads : x[t] # None /\ x[t].at # "token" => x[t].tok \in Tokens
    /\ logins \in [Codes -> Seq(Login)]

RPInit ==
    /\ Init
    /\ flows = [tx \in Transactions |-> None]
    /\ jar = [b \in Browsers |-> None]
    /\ granted = [c \in Codes |-> None]
    /\ x = [t \in Threads |-> None]
    /\ logins = [c \in Codes |-> <<>>]

-----------------------------------------------------------------------------
(* Begin, and the provider's side of the flow.                             *)

\* Mutant: a transaction that was drawn before is sealed again.
Begin_Shared(b, tx) ==
    /\ flows' = [flows EXCEPT ![tx] = [b |-> b, exp |-> now + FlowTTL]]
    /\ jar' = [jar EXCEPT ![b] = tx]
    /\ UNCHANGED <<sessionVars, granted, x, logins>>

\* Mutant: an error of Seal is ignored, the cookie is sent without content.
Begin_Unsealed(b, tx) ==
    /\ flows[tx] = None
    /\ jar' = [jar EXCEPT ![b] = tx]
    /\ UNCHANGED <<sessionVars, flows, granted, x, logins>>

\* The three values are drawn afresh; the cookie replaces an older one.
Begin(b, tx) ==
    /\ flows[tx] = None
    /\ flows' = [flows EXCEPT ![tx] = [b |-> b, exp |-> now + FlowTTL]]
    /\ jar' = [jar EXCEPT ![b] = tx]
    /\ UNCHANGED <<sessionVars, granted, x, logins>>

\* Auth and Login, for a request of this client.  Begin redirects to one with
\* the challenge and nonce of one transaction; the endpoint takes the address
\* as it is opened, in any browser and as often as it is.  A request without
\* a nonce ends like one with the nonce of another flow, and is left out.
GrantCode(c, challenge, nonce, u) ==
    /\ granted[c] = None
    /\ flows[nonce] # None /\ (challenge # None => flows[challenge] # None)
    /\ level[u] # None
    /\ granted' = [granted EXCEPT ![c] =
           [challenge |-> challenge, nonce |-> nonce, user |-> u,
            exp |-> now + CodeTTL, used |-> FALSE]]
    /\ UNCHANGED <<sessionVars, flows, jar, x, logins>>

-----------------------------------------------------------------------------
(* Exchange.  The response clears the cookie whatever the outcome: it is   *)
(* part of the step that ends the exchange.                                *)

Respond(t) ==
    /\ x' = [x EXCEPT ![t] = None]
    /\ jar' = [jar EXCEPT ![x[t].b] = None]

Open(b) == jar[b] # None /\ now < flows[jar[b]].exp

\* The cookie is missing or expired, or the state of the callback is not its.
CallbackRefused(b, state) ==
    /\ Open(b) => jar[b] # state
    /\ jar' = [jar EXCEPT ![b] = None]
    /\ UNCHANGED <<sessionVars, flows, granted, x, logins>>

\* Only the state is compared with the cookie; the code is whatever code the
\* address of the callback holds.
Callback(t, b, c, state) ==
    /\ At(t, "idle") /\ x[t] = None
    /\ granted[c] # None
    /\ Open(b) /\ jar[b] = state
    /\ x' = [x EXCEPT ![t] =
           [at |-> "token", b |-> b, code |-> c, tx |-> jar[b], tok |-> None]]
    /\ UNCHANGED <<sessionVars, flows, jar, granted, logins>>

\* Mutant: the verifier of the request is not compared with the challenge.
Redeemable_AnyVerifier(t) ==
    LET c == granted[x[t].code] IN ~c.used /\ now < c.exp

\* The row of the code, at the token endpoint: unspent, not expired, and made
\* for this verifier unless its request carried no challenge.
Redeemable(t) ==
    LET c == granted[x[t].code] IN
    ~c.used /\ now < c.exp /\ c.challenge \in {None, x[t].tx}

\* Mutant: the provider answers a second redemption of a code.
ExchangeToken_Replay(t, j) ==
    LET c == granted[x[t].code] IN
    /\ x[t] # None /\ x[t].at = "token"
    /\ now < c.exp /\ c.challenge \in {None, x[t].tx}
    /\ signToken(j, "access", c.user, RP)
    /\ granted' = [granted EXCEPT ![x[t].code].used = TRUE]
    /\ x' = [x EXCEPT ![t].at = "verify", ![t].tok = j]
    /\ UNCHANGED <<now, revoked, sweep, accountVars, h, gone, flows, jar, logins>>

\* POST /x/token with the verifier: one redemption per code (AuthStore).
ExchangeToken(t, j) ==
    /\ x[t] # None /\ x[t].at = "token"
    /\ Redeemable(t)
    /\ signToken(j, "access", granted[x[t].code].user, RP)
    /\ granted' = [granted EXCEPT ![x[t].code].used = TRUE]
    /\ x' = [x EXCEPT ![t].at = "verify", ![t].tok = j]
    /\ UNCHANGED <<now, revoked, sweep, accountVars, h, gone, flows, jar, logins>>

\* Mutant: the nonce of the ID token is not compared with the cookie's.
ExchangeVerify_AnyNonce(t) ==
    /\ x[t] # None /\ x[t].at = "verify"
    /\ CallStart(t, "info_revoked", x[t].tok)
    /\ x' = [x EXCEPT ![t].at = "info"]
    /\ UNCHANGED <<flows, jar, granted, logins>>

\* The ID token of the same answer: not expired, and with this nonce.  Then
\* the UserInfo call, whose handler checks the access token's expiry first.
ExchangeVerify(t) ==
    /\ x[t] # None /\ x[t].at = "verify"
    /\ granted[x[t].code].nonce = x[t].tx
    /\ CallStart(t, "info_revoked", x[t].tok)
    /\ x' = [x EXCEPT ![t].at = "info"]
    /\ UNCHANGED <<flows, jar, granted, logins>>

\* The claims arrive, for the subject of the ID token.
ExchangeInfo(t) ==
    /\ x[t] # None /\ x[t].at = "info"
    /\ At(t, "told")
    /\ tokens[h[t].tok].user = granted[x[t].code].user
    /\ Finish(t)
    /\ Respond(t)
    /\ logins' = [logins EXCEPT ![x[t].code] = Append(@,
           [b |-> x[t].b, tx |-> x[t].tx, user |-> tokens[h[t].tok].user])]
    /\ UNCHANGED <<now, tableVars, gone, flows, granted>>

\* ErrLogin, a refused request or ten seconds without an answer.
ExchangeFails(t) ==
    /\ x[t] # None
    /\ Finish(t)
    /\ Respond(t)
    /\ UNCHANGED <<now, tableVars, gone, flows, granted, logins>>

-----------------------------------------------------------------------------
ExchangeStep(t) ==
    \/ \E b \in Browsers, c \in Codes, state \in Transactions : Callback(t, b, c, state)
    \/ \E j \in Tokens : ExchangeToken(t, j)
    \/ ExchangeVerify(t)
    \/ ExchangeInfo(t)
    \/ ExchangeFails(t)

\* The provider answers UserInfo, operators edit and time passes.  An access
\* token is known to its exchange alone, so nobody logs it out meanwhile;
\* calls of other clients only read these tables, and UserInfo does not ask
\* whether the account is trusted.
ProviderStep ==
    /\ \/ \E t \in Threads : CheckRevoked(t) \/ InfoClient(t) \/ InfoUser(t)
       \/ \E u \in Users, c \in Clients : Edit(u, c) /\ UNCHANGED trusted
       \/ Tick
    /\ UNCHANGED rpVars

RPNext ==
    /\ \/ ProviderStep
       \/ \E b \in Browsers, tx \in Transactions : Begin(b, tx)
       \/ \E c \in Codes, challenge \in Transactions \cup {None},
                nonce \in Transactions, u \in Users : GrantCode(c, challenge, nonce, u)
       \/ \E b \in Browsers, state \in Transactions : CallbackRefused(b, state)
       \/ \E t \in Threads : ExchangeStep(t)
    /\ Observe

RPSpec == RPInit /\ [][RPNext]_vars

-----------------------------------------------------------------------------
(* Properties.                                                             *)

\* Begin and Exchange: a browser is logged in only with a code that was granted
\* for a flow begun for it, as the account that granted the code, whatever codes
\* and states the callbacks it opens bring together.
LoginIsOwn ==
    \A c \in Codes : \A i \in DOMAIN logins[c] :
        LET login == logins[c][i] IN
        /\ granted[c].nonce = login.tx
        /\ granted[c].challenge \in {None, login.tx}
        /\ login.b = flows[login.tx].b
        /\ login.user = granted[c].user

\* Exchange against the token endpoint: one code logs in once, though its
\* callback is opened again while the first is still being answered.
OneLoginPerCode == \A c \in Codes : Len(logins[c]) <= 1

\* Exchange against the token endpoint: a foreign code is sent with the state
\* of the own flow, but a code with a challenge is spent by its own flow alone.
BoundCodesAreSpentAtHome ==
    [][\A c \in Codes :
           granted[c] # None /\ granted[c].challenge # None /\ granted'[c] # granted[c] =>
               \E t \in Threads :
                   /\ x[t] # None /\ x[t].code = c
                   /\ x[t].b = flows[granted[c].challenge].b]_vars
=============================================================================
