----------------------------- MODULE AuthStore -----------------------------
(***************************************************************************)
(* The expiring authentication state of the identity provider              *)
(* (FGF-idP/model/auth_state.go): the table of authorization requests, the *)
(* table of authorization codes and the background job that removes what   *)
(* has expired.  One action per exported function; each is one SQL         *)
(* statement or one transaction, hence one step.  StoreNext calls them in  *)
(* any order and with any arguments; AuthFlow calls them as the HTTP       *)
(* handlers do.                                                            *)
(*                                                                         *)
(* The columns client_id, redirect_uri, code_challenge and                 *)
(* code_challenge_method (and scope, state and nonce, which nothing here   *)
(* compares) are one value, the terms.  The three email_verify columns are *)
(* only ever set and cleared together: they are one nullable value, bind.  *)
(***************************************************************************)
EXTENDS Naturals, FiniteSets

CONSTANTS
    Requests,           \* values of AuthRequest.ID the server may draw
    Codes,              \* values of AuthCode.Code the server may draw
    Terms,              \* what a request asks for and a code is bound to
    Users, Devices,     \* account ids, device cookie values
    Tokens,             \* values of the emailed verification token
    None,               \* SQL NULL, and "no such row"
    AuthRequestTTL,     \* lifetime of a request (10 minutes)
    AuthCodeTTL,        \* lifetime of a code (5 minutes)
    MaxTime             \* bound: the clock stops here

ASSUME TTLAssumption ==
    /\ AuthRequestTTL \in Nat \ {0}
    /\ AuthCodeTTL \in Nat \ {0}
    /\ MaxTime \in Nat

Binding == [token : Tokens, device : Devices, user : Users]

AuthRequest == [terms : Terms, bind : Binding \cup {None}, exp : Nat]

\* req is a history field: the request the code replaced.
AuthCode == [req : Requests, terms : Terms, user : Users, exp : Nat,
             used : BOOLEAN]

ASSUME NoneAssumption ==
    None \notin Nat \cup Binding \cup AuthRequest \cup AuthCode

\* A request id and a code come from different generators and never meet.
ASSUME IdAssumption == Requests \cap Codes = {}

VARIABLES
    now,                \* time.Now() of every node
    requests,           \* table auth_requests
    codes,              \* table auth_codes
    drawn,              \* ids and codes GetRandomString has returned so far
    sweep,              \* the time the running cleanup captured, or None
    redemptions         \* history: how often a code of a request was consumed

storeVars == <<now, requests, codes, drawn, sweep, redemptions>>

TypeOK ==
    /\ now \in Nat
    /\ requests \in [Requests -> AuthRequest \cup {None}]
    /\ codes \in [Codes -> AuthCode \cup {None}]
    /\ drawn \subseteq Requests \cup Codes
    /\ sweep \in Nat \cup {None}
    /\ redemptions \in [Requests -> Nat]

StoreInit ==
    /\ now = 0
    /\ requests = [r \in Requests |-> None]
    /\ codes = [c \in Codes |-> None]
    /\ drawn = {}
    /\ sweep = None
    /\ redemptions = [r \in Requests |-> 0]

-----------------------------------------------------------------------------
(* The rows the queries see: WHERE ... AND expires_at > time.Now().        *)

LiveRequest(r) == requests[r] # None /\ requests[r].exp > now

\* Mutant: GetAuthCode and ConsumeAuthCode forget expires_at.
LiveCode_IgnoresExpiry(c) == codes[c] # None

LiveCode(c) == codes[c] # None /\ codes[c].exp > now

\* Mutants: the UPDATE forgets the device, or the token.
Bound_AnyDevice(r, tok, d) ==
    /\ LiveRequest(r)
    /\ requests[r].bind # None
    /\ requests[r].bind.token = tok

Bound_AnyToken(r, tok, d) ==
    /\ LiveRequest(r)
    /\ requests[r].bind # None
    /\ requests[r].bind.device = d

\* The row a (token, device) pair selects in ConsumeAuthVerification.
Bound(r, tok, d) ==
    /\ LiveRequest(r)
    /\ requests[r].bind # None
    /\ requests[r].bind.token = tok
    /\ requests[r].bind.device = d

\* The row ConsumeAuthCode's UPDATE selects, given the copy read before.
Redeemable(c, terms) ==
    /\ LiveCode(c)
    /\ codes[c].terms = terms
    /\ ~codes[c].used

-----------------------------------------------------------------------------
(* Requests.                                                               *)

CreateAuthRequest(r, terms) ==
    /\ r \notin drawn
    /\ drawn' = drawn \cup {r}
    /\ requests' = [requests EXCEPT ![r] =
           [terms |-> terms, bind |-> None, exp |-> now + AuthRequestTTL]]
    /\ UNCHANGED <<now, codes, sweep, redemptions>>

\* Mutant: the account is not stored with the binding.
BindAuthVerification_NoUser(r, tok, d, u) ==
    /\ LiveRequest(r)
    /\ requests' = [requests EXCEPT ![r].bind =
           [token |-> tok, device |-> d, user |-> None]]
    /\ UNCHANGED <<now, codes, drawn, sweep, redemptions>>

\* Overwrites whatever binding the live request had.
BindAuthVerification(r, tok, d, u) ==
    /\ LiveRequest(r)
    /\ requests' = [requests EXCEPT ![r].bind =
           [token |-> tok, device |-> d, user |-> u]]
    /\ UNCHANGED <<now, codes, drawn, sweep, redemptions>>

ConsumeAuthVerification(r, tok, d) ==
    /\ Bound(r, tok, d)
    /\ requests' = [requests EXCEPT ![r].bind = None]
    /\ UNCHANGED <<now, codes, drawn, sweep, redemptions>>

-----------------------------------------------------------------------------
(* Codes.                                                                  *)

\* Mutant: the request is read, not deleted.
IssueAuthCode_KeepsRequest(r, c, terms, u) ==
    /\ LiveRequest(r)
    /\ c \notin drawn
    /\ drawn' = drawn \cup {c}
    /\ codes' = [codes EXCEPT ![c] =
           [req |-> r, terms |-> terms, user |-> u,
            exp |-> now + AuthCodeTTL, used |-> FALSE]]
    /\ UNCHANGED <<now, requests, sweep, redemptions>>

\* One transaction: the request goes, the code comes; a failed insert keeps
\* the request, so a failure is no step at all.
IssueAuthCode(r, c, terms, u) ==
    /\ LiveRequest(r)
    /\ c \notin drawn
    /\ drawn' = drawn \cup {c}
    /\ requests' = [requests EXCEPT ![r] = None]
    /\ codes' = [codes EXCEPT ![c] =
           [req |-> r, terms |-> terms, user |-> u,
            exp |-> now + AuthCodeTTL, used |-> FALSE]]
    /\ UNCHANGED <<now, sweep, redemptions>>

ConsumeAuthCode(c, terms) ==
    /\ Redeemable(c, terms)
    /\ codes' = [codes EXCEPT ![c].used = TRUE]
    /\ redemptions' = [redemptions EXCEPT ![codes[c].req] = @ + 1]
    /\ UNCHANGED <<now, requests, drawn, sweep>>

\* Mutant: pending bindings survive the change.
ForgetUser_KeepsRequests(u) ==
    /\ codes' = [c \in Codes |->
           IF codes[c] # None /\ codes[c].user = u THEN None ELSE codes[c]]
    /\ UNCHANGED <<now, requests, drawn, sweep, redemptions>>

\* The part of UpdateManagedUser's transaction that an email change adds.
ForgetUser(u) ==
    /\ codes' = [c \in Codes |->
           IF codes[c] # None /\ codes[c].user = u THEN None ELSE codes[c]]
    /\ requests' = [r \in Requests |->
           IF /\ requests[r] # None
              /\ requests[r].bind # None
              /\ requests[r].bind.user = u
           THEN None ELSE requests[r]]
    /\ UNCHANGED <<now, drawn, sweep, redemptions>>

-----------------------------------------------------------------------------
(* RunAuthCleanup.  now is read before the transaction starts; the loop    *)
(* retries a failed transaction at the next tick of its timer.             *)

\* Mutant: the time is rounded up to the next unit.
StartCleanup_RoundsUp ==
    /\ sweep = None
    /\ sweep' = now + 1
    /\ UNCHANGED <<now, requests, codes, drawn, redemptions>>

StartCleanup ==
    /\ sweep = None
    /\ sweep' = now
    /\ UNCHANGED <<now, requests, codes, drawn, redemptions>>

\* Mutant: codes are left out of the list of tables.
CleanupExpiredAuthState_RequestsOnly ==
    /\ sweep # None
    /\ requests' = [r \in Requests |->
           IF requests[r] # None /\ requests[r].exp <= sweep
           THEN None ELSE requests[r]]
    /\ sweep' = None
    /\ UNCHANGED <<now, codes, drawn, redemptions>>

CleanupExpiredAuthState ==
    /\ sweep # None
    /\ requests' = [r \in Requests |->
           IF requests[r] # None /\ requests[r].exp <= sweep
           THEN None ELSE requests[r]]
    /\ codes' = [c \in Codes |->
           IF codes[c] # None /\ codes[c].exp <= sweep
           THEN None ELSE codes[c]]
    /\ sweep' = None
    /\ UNCHANGED <<now, drawn, redemptions>>

CleanupFails ==
    /\ sweep # None
    /\ sweep' = None
    /\ UNCHANGED <<now, requests, codes, drawn, redemptions>>

Tick ==
    /\ now < MaxTime
    /\ now' = now + 1
    /\ UNCHANGED <<requests, codes, drawn, sweep, redemptions>>

-----------------------------------------------------------------------------

RequestOp(r) ==
    \/ \E terms \in Terms : CreateAuthRequest(r, terms)
    \/ \E tok \in Tokens, d \in Devices, u \in Users :
           BindAuthVerification(r, tok, d, u)
    \/ \E tok \in Tokens, d \in Devices : ConsumeAuthVerification(r, tok, d)
    \/ \E c \in Codes, terms \in Terms, u \in Users :
           IssueAuthCode(r, c, terms, u)

StoreNext ==
    \/ \E r \in Requests : RequestOp(r)
    \/ \E c \in Codes, terms \in Terms : ConsumeAuthCode(c, terms)
    \/ \E u \in Users : ForgetUser(u)
    \/ StartCleanup
    \/ CleanupExpiredAuthState
    \/ CleanupFails
    \/ Tick

StoreSpec == StoreInit /\ [][StoreNext]_storeVars

\* Time passes; the cleanup goroutine's timer keeps firing; and its
\* transaction, tried again and again, does not fail for ever.
StoreFairness ==
    /\ WF_storeVars(Tick)
    /\ WF_storeVars(StartCleanup)
    /\ SF_storeVars(CleanupExpiredAuthState)

FairStoreSpec == StoreSpec /\ StoreFairness

-----------------------------------------------------------------------------
(* Properties.                                                             *)

CodesOf(r) == {c \in Codes : codes[c] # None /\ codes[c].req = r}

\* IssueAuthCode and ConsumeAuthCode together: however completions and token
\* calls interleave, a request has never more than one code, is gone once it
\* has one, and is redeemed at most once; a code that can still be consumed
\* belongs to a request that has not been redeemed.
OneGrantPerRequest ==
    \A r \in Requests :
        /\ redemptions[r] <= 1
        /\ \A c1, c2 \in CodesOf(r) : c1 = c2
        /\ requests[r] # None => CodesOf(r) = {} /\ redemptions[r] = 0
        /\ \A c \in CodesOf(r) : codes[c].used <=> redemptions[r] = 1

\* What else the induction needs: rows only under ids that were drawn, a
\* request not yet drawn has left no trace, and a running cleanup's captured
\* time is not ahead of the clock.
IdsAreDrawn ==
    /\ \A r \in Requests : r \notin drawn =>
           requests[r] = None /\ CodesOf(r) = {} /\ redemptions[r] = 0
    /\ \A c \in Codes : c \notin drawn => codes[c] = None

SweepIsPast == sweep # None => sweep <= now

StoreInv == TypeOK /\ OneGrantPerRequest /\ IdsAreDrawn /\ SweepIsPast

\* IssueAuthCode's transaction and CleanupExpiredAuthState: an unexpired
\* request disappears only into a code for it, or because it was bound to an
\* account whose address changed.  No cleanup, however late it runs after
\* reading the clock, removes it.
LiveRequestLeavesForCause ==
    [][\A r \in Requests :
          LiveRequest(r) /\ requests'[r] = None =>
              \/ \E c \in Codes : codes[c] = None /\ codes'[c] # None
                                  /\ codes'[c].req = r
              \/ requests[r].bind # None
                 /\ ForgetUser(requests[r].bind.user)]_storeVars

\* CleanupExpiredAuthState: whatever the handlers do, no request or code
\* outlives its lifetime in the database for ever.
ExpiredStateIsRemoved ==
    /\ \A r \in Requests :
           (requests[r] # None /\ requests[r].exp <= MaxTime)
               ~> requests[r] = None
    /\ \A c \in Codes :
           (codes[c] # None /\ codes[c].exp <= MaxTime) ~> codes[c] = None

-----------------------------------------------------------------------------
(* AuthStore implements OneTimeGrant.                                      *)

phase == [r \in Requests |->
    IF r \notin drawn THEN "new"
    ELSE IF requests[r] # None THEN "pending"
    ELSE IF CodesOf(r) = {} THEN "closed"
    ELSE IF \E c \in CodesOf(r) : codes[c].used THEN "redeemed"
    ELSE "granted"]

deadline == [r \in Requests |->
    IF requests[r] # None THEN requests[r].exp
    ELSE IF CodesOf(r) # {} THEN codes[CHOOSE c \in CodesOf(r) : TRUE].exp
    ELSE 0]

Grant == INSTANCE OneTimeGrant WITH
    Requests <- Requests, AuthRequestTTL <- AuthRequestTTL,
    AuthCodeTTL <- AuthCodeTTL, MaxTime <- MaxTime,
    now <- now, phase <- phase, deadline <- deadline, redemptions <- redemptions

\* The two tables and the functions of auth_state.go promise what
\* OneTimeGrant says: one grant, one redemption, both before the deadline.
GrantSpec == Grant!Spec
=============================================================================
