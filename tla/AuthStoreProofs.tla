--------------------------- MODULE AuthStoreProofs ---------------------------
(***************************************************************************)
(* Theorems about AuthStore, for every set of ids, users, devices, tokens  *)
(* and terms, every lifetime and every bound on the clock.                 *)
(***************************************************************************)
EXTENDS AuthStore, TLAPS

\* The empty tables are well typed.
LEMMA StoreTypingInit == StoreInit => TypeOK
BY DEF StoreInit, TypeOK

\* Every operation of the store writes well-typed rows.
LEMMA StoreTypingStep == TypeOK /\ [StoreNext]_storeVars => TypeOK'
<1> SUFFICES ASSUME TypeOK, [StoreNext]_storeVars
             PROVE  TypeOK'
  OBVIOUS
<1> USE TTLAssumption DEF TypeOK
<1>1. ASSUME NEW r \in Requests, NEW terms \in Terms,
             CreateAuthRequest(r, terms)
      PROVE  TypeOK'
  <2>1. [terms |-> terms, bind |-> None, exp |-> now + AuthRequestTTL]
            \in AuthRequest
    BY DEF AuthRequest
  <2> QED
    BY <1>1, <2>1 DEF CreateAuthRequest
<1>2. ASSUME NEW r \in Requests, NEW tok \in Tokens, NEW d \in Devices,
             NEW u \in Users, BindAuthVerification(r, tok, d, u)
      PROVE  TypeOK'
  <2>1. [requests[r] EXCEPT !.bind = [token |-> tok, device |-> d, user |-> u]]
            \in AuthRequest
    BY <1>2 DEF BindAuthVerification, LiveRequest, AuthRequest, Binding
  <2> QED
    BY <1>2, <2>1 DEF BindAuthVerification
<1>3. ASSUME NEW r \in Requests, NEW tok \in Tokens, NEW d \in Devices,
             ConsumeAuthVerification(r, tok, d)
      PROVE  TypeOK'
  <2>1. [requests[r] EXCEPT !.bind = None] \in AuthRequest
    BY <1>3 DEF ConsumeAuthVerification, Bound, LiveRequest, AuthRequest
  <2> QED
    BY <1>3, <2>1 DEF ConsumeAuthVerification
<1>4. ASSUME NEW r \in Requests, NEW c \in Codes, NEW terms \in Terms,
             NEW u \in Users, IssueAuthCode(r, c, terms, u)
      PROVE  TypeOK'
  <2>1. [req |-> r, terms |-> terms, user |-> u,
         exp |-> now + AuthCodeTTL, used |-> FALSE] \in AuthCode
    BY DEF AuthCode
  <2> QED
    BY <1>4, <2>1 DEF IssueAuthCode
<1>5. ASSUME NEW c \in Codes, NEW terms \in Terms, ConsumeAuthCode(c, terms)
      PROVE  TypeOK'
  <2>1. /\ [codes[c] EXCEPT !.used = TRUE] \in AuthCode
        /\ codes[c].req \in Requests
    BY <1>5 DEF ConsumeAuthCode, Redeemable, LiveCode, AuthCode
  <2> QED
    BY <1>5, <2>1 DEF ConsumeAuthCode
<1>6. ASSUME NEW u \in Users, ForgetUser(u)
      PROVE  TypeOK'
  BY <1>6 DEF ForgetUser
<1>7. CASE StartCleanup
  BY <1>7 DEF StartCleanup
<1>8. CASE CleanupExpiredAuthState
  BY <1>8 DEF CleanupExpiredAuthState
<1>9. CASE CleanupFails
  BY <1>9 DEF CleanupFails
<1>10. CASE Tick
  BY <1>10 DEF Tick
<1>11. CASE UNCHANGED storeVars
  BY <1>11 DEF storeVars
<1> QED
  BY <1>1, <1>2, <1>3, <1>4, <1>5, <1>6, <1>7, <1>8, <1>9, <1>10, <1>11
  DEF StoreNext, RequestOp

\* The tables, the clock and the history keep their types.
THEOREM StoreTyping == StoreSpec => []TypeOK
BY StoreTypingInit, StoreTypingStep, PTL DEF StoreSpec

-----------------------------------------------------------------------------
(* StoreInv is the inductive invariant behind every theorem below:         *)
(* OneGrantPerRequest needs to know that an undrawn id has left no trace,  *)
(* or a fresh code could be a second one for its request.                  *)

\* An operation that changes no code and no counter, and brings no request
\* back, disturbs neither the grants nor the bookkeeping of ids.
LEMMA RowsOnlyLeave ==
    ASSUME StoreInv, TypeOK',
           codes' = codes, redemptions' = redemptions,
           drawn' = drawn,
           \A r \in Requests : requests[r] = None => requests'[r] = None
    PROVE  OneGrantPerRequest' /\ IdsAreDrawn'
BY DEF StoreInv, OneGrantPerRequest, IdsAreDrawn, CodesOf

\* Neither does one that deletes rows, of either table, and nothing else.
LEMMA RowsExpire ==
    ASSUME StoreInv,
           \A c \in Codes : codes'[c] \in {None, codes[c]},
           \A r \in Requests : requests'[r] \in {None, requests[r]},
           redemptions' = redemptions,
           drawn' = drawn
    PROVE  OneGrantPerRequest' /\ IdsAreDrawn'
<1>1. \A r \in Requests : CodesOf(r)' \subseteq CodesOf(r)
  BY DEF CodesOf
<1>2. \A r \in Requests : \A c \in CodesOf(r)' : codes'[c] = codes[c]
  BY DEF CodesOf
<1>3. OneGrantPerRequest'
  BY <1>1, <1>2 DEF StoreInv, OneGrantPerRequest
<1>4. IdsAreDrawn'
  BY <1>1 DEF StoreInv, IdsAreDrawn
<1> QED
  BY <1>3, <1>4

\* The initial state satisfies the inductive invariant.
LEMMA StoreInvInit == StoreInit => StoreInv
BY StoreTypingInit DEF StoreInit, StoreInv, OneGrantPerRequest, IdsAreDrawn,
   SweepIsPast, CodesOf

\* Every operation of the store keeps the inductive invariant.
LEMMA StoreInvStep == StoreInv /\ [StoreNext]_storeVars => StoreInv'
<1> SUFFICES ASSUME StoreInv, [StoreNext]_storeVars
             PROVE  OneGrantPerRequest' /\ IdsAreDrawn' /\ SweepIsPast'
  BY StoreTypingStep DEF StoreInv
<1>t. TypeOK /\ TypeOK'
  BY StoreTypingStep DEF StoreInv
<1>a. SweepIsPast'
  BY <1>t, TTLAssumption, NoneAssumption
  DEF StoreInv, TypeOK, SweepIsPast, StoreNext, RequestOp, storeVars,
      CreateAuthRequest, BindAuthVerification, ConsumeAuthVerification,
      IssueAuthCode, ConsumeAuthCode, ForgetUser, StartCleanup,
      CleanupExpiredAuthState, CleanupFails, Tick
<1>1. ASSUME NEW r \in Requests, NEW terms \in Terms,
             CreateAuthRequest(r, terms)
      PROVE  OneGrantPerRequest' /\ IdsAreDrawn'
  <2>1. /\ codes' = codes /\ redemptions' = redemptions
        /\ r \notin drawn /\ drawn' = drawn \cup {r}
        /\ \A q \in Requests : q # r => requests'[q] = requests[q]
    BY <1>1, <1>t DEF CreateAuthRequest, TypeOK
  <2>2. OneGrantPerRequest'
    BY <2>1 DEF StoreInv, OneGrantPerRequest, IdsAreDrawn, CodesOf
  <2>3. IdsAreDrawn'
    BY <2>1 DEF StoreInv, IdsAreDrawn, CodesOf
  <2> QED
    BY <2>2, <2>3
<1>2. ASSUME NEW r \in Requests, NEW tok \in Tokens, NEW d \in Devices,
             NEW u \in Users, BindAuthVerification(r, tok, d, u)
      PROVE  OneGrantPerRequest' /\ IdsAreDrawn'
  BY <1>2, <1>t, RowsOnlyLeave DEF BindAuthVerification, LiveRequest, TypeOK
<1>3. ASSUME NEW r \in Requests, NEW tok \in Tokens, NEW d \in Devices,
             ConsumeAuthVerification(r, tok, d)
      PROVE  OneGrantPerRequest' /\ IdsAreDrawn'
  BY <1>3, <1>t, RowsOnlyLeave
  DEF ConsumeAuthVerification, Bound, LiveRequest, TypeOK
<1>4. ASSUME NEW r \in Requests, NEW c \in Codes, NEW terms \in Terms,
             NEW u \in Users, IssueAuthCode(r, c, terms, u)
      PROVE  OneGrantPerRequest' /\ IdsAreDrawn'
  <2>1. /\ requests[r] # None /\ requests' = [requests EXCEPT ![r] = None]
        /\ c \notin drawn /\ drawn' = drawn \cup {c}
        /\ codes[c] = None
        /\ redemptions' = redemptions
    BY <1>4 DEF IssueAuthCode, LiveRequest, StoreInv, IdsAreDrawn
  <2>2. /\ \A k \in Codes : k # c => codes'[k] = codes[k]
        /\ codes'[c].req = r /\ ~codes'[c].used
        /\ codes'[c] # None
    <3>1. [req |-> r, terms |-> terms, user |-> u,
           exp |-> now + AuthCodeTTL, used |-> FALSE] \in AuthCode
      BY <1>t, TTLAssumption DEF AuthCode, TypeOK
    <3> QED
      BY <1>4, <1>t, <3>1, NoneAssumption DEF IssueAuthCode, TypeOK
  <2>3. CodesOf(r) = {} /\ redemptions[r] = 0
    BY <2>1 DEF StoreInv, OneGrantPerRequest
  <2>4. /\ CodesOf(r)' = {c}
        /\ \A q \in Requests : q # r => CodesOf(q)' = CodesOf(q)
    BY <2>1, <2>2, <2>3 DEF CodesOf
  <2>5. OneGrantPerRequest'
    <3> SUFFICES ASSUME NEW q \in Requests
                 PROVE  /\ redemptions[q] <= 1
                        /\ \A k1, k2 \in CodesOf(q)' : k1 = k2
                        /\ requests'[q] # None =>
                               CodesOf(q)' = {} /\ redemptions[q] = 0
                        /\ \A k \in CodesOf(q)' :
                               codes'[k].used <=> redemptions[q] = 1
      BY <2>1 DEF OneGrantPerRequest
    <3>1. CASE q = r
      BY <3>1, <1>t, <2>1, <2>2, <2>3, <2>4 DEF TypeOK
    <3>2. CASE q # r
      <4>1. \A k \in CodesOf(q)' : codes'[k] = codes[k]
        BY <3>2, <2>1, <2>2, <2>4 DEF CodesOf
      <4> QED
        BY <3>2, <4>1, <1>t, <2>1, <2>4 DEF StoreInv, OneGrantPerRequest, TypeOK
    <3> QED
      BY <3>1, <3>2
  <2>6. IdsAreDrawn'
    <3>1. r \in drawn
      BY <2>1 DEF StoreInv, IdsAreDrawn
    <3> QED
      BY <3>1, <1>t, <2>1, <2>2, <2>4 DEF StoreInv, IdsAreDrawn, TypeOK
  <2> QED
    BY <2>5, <2>6
<1>5. ASSUME NEW c \in Codes, NEW terms \in Terms, ConsumeAuthCode(c, terms)
      PROVE  OneGrantPerRequest' /\ IdsAreDrawn'
  <2> DEFINE r == codes[c].req
  <2>1. /\ codes[c] # None /\ ~codes[c].used /\ codes[c] \in AuthCode
        /\ r \in Requests /\ c \in CodesOf(r)
        /\ requests' = requests /\ drawn' = drawn
    BY <1>5, <1>t
    DEF ConsumeAuthCode, Redeemable, LiveCode, TypeOK, AuthCode, CodesOf
  <2>2. redemptions[r] = 0 /\ CodesOf(r) = {c} /\ requests[r] = None
    <3>1. /\ requests[r] # None => CodesOf(r) = {}
          /\ \A k1, k2 \in CodesOf(r) : k1 = k2
          /\ redemptions[r] <= 1
          /\ codes[c].used <=> redemptions[r] = 1
      BY ONLY StoreInv, <2>1 DEF StoreInv, OneGrantPerRequest
    <3>2. redemptions[r] \in Nat
      BY ONLY <1>t, <2>1 DEF TypeOK
    <3>3. redemptions[r] = 0
      BY ONLY <2>1, <3>1, <3>2
    <3> QED
      BY ONLY <2>1, <3>1, <3>3
  <2>3. /\ codes'[c] # None /\ codes'[c].req = r /\ codes'[c].used
        /\ \A k \in Codes : k # c => codes'[k] = codes[k]
    <3>1. /\ [codes[c] EXCEPT !.used = TRUE] \in AuthCode
          /\ [codes[c] EXCEPT !.used = TRUE].req = r
          /\ [codes[c] EXCEPT !.used = TRUE].used
      BY <2>1 DEF AuthCode
    <3> QED
      BY <1>5, <1>t, <3>1, NoneAssumption DEF ConsumeAuthCode, TypeOK
  <2>4. /\ redemptions'[r] = 1
        /\ \A q \in Requests : q # r => redemptions'[q] = redemptions[q]
    BY <1>5, <1>t, <2>1, <2>2 DEF ConsumeAuthCode, TypeOK
  <2>5. \A q \in Requests : CodesOf(q)' = CodesOf(q)
    BY <2>1, <2>3 DEF CodesOf
  <2>6. OneGrantPerRequest'
    <3> SUFFICES ASSUME NEW q \in Requests
                 PROVE  /\ redemptions'[q] <= 1
                        /\ \A k1, k2 \in CodesOf(q)' : k1 = k2
                        /\ requests'[q] # None =>
                               CodesOf(q)' = {} /\ redemptions'[q] = 0
                        /\ \A k \in CodesOf(q)' :
                               codes'[k].used <=> redemptions'[q] = 1
      BY DEF OneGrantPerRequest
    <3>1. CASE q = r
      BY <3>1, <2>1, <2>2, <2>3, <2>4, <2>5
    <3>2. CASE q # r
      <4>1. \A k \in CodesOf(q)' : codes'[k] = codes[k]
        BY <3>2, <2>2, <2>3, <2>5, <2>1 DEF CodesOf
      <4> QED
        BY <3>2, <4>1, <2>1, <2>4, <2>5 DEF StoreInv, OneGrantPerRequest
    <3> QED
      BY <3>1, <3>2
  <2>7. IdsAreDrawn'
    <3>1. r \in drawn /\ c \in drawn
      BY <2>1, <2>2 DEF StoreInv, IdsAreDrawn
    <3> QED
      BY <3>1, <2>1, <2>3, <2>4, <2>5 DEF StoreInv, IdsAreDrawn
  <2> QED
    BY <2>6, <2>7
<1>6. ASSUME NEW u \in Users, ForgetUser(u)
      PROVE  OneGrantPerRequest' /\ IdsAreDrawn'
  <2>1. /\ \A c \in Codes : codes'[c] \in {None, codes[c]}
        /\ \A q \in Requests : requests'[q] \in {None, requests[q]}
        /\ redemptions' = redemptions /\ drawn' = drawn
    BY <1>6 DEF ForgetUser
  <2> QED
    BY <2>1, RowsExpire
<1>7. CASE StartCleanup
  BY <1>7, <1>a, <1>t, RowsOnlyLeave DEF StartCleanup
<1>8. CASE CleanupExpiredAuthState
  <2>1. /\ \A c \in Codes : codes'[c] \in {None, codes[c]}
        /\ \A q \in Requests : requests'[q] \in {None, requests[q]}
        /\ redemptions' = redemptions /\ drawn' = drawn
    BY <1>8 DEF CleanupExpiredAuthState
  <2> QED
    BY <1>a, <2>1, RowsExpire
<1>9. CASE CleanupFails
  BY <1>9, <1>a, <1>t, RowsOnlyLeave DEF CleanupFails
<1>10. CASE Tick
  BY <1>10, <1>a, <1>t, RowsOnlyLeave DEF Tick
<1>11. CASE UNCHANGED storeVars
  BY <1>11, <1>a, <1>t, RowsOnlyLeave DEF storeVars
<1> QED
  BY <1>a, <1>1, <1>2, <1>3, <1>4, <1>5, <1>6, <1>7, <1>8, <1>9, <1>10, <1>11
  DEF StoreNext, RequestOp

\* However handlers, cleanups and account changes interleave, a request has at
\* most one code and is redeemed at most once.
THEOREM GrantedOnce == StoreSpec => []OneGrantPerRequest
<1>1. StoreInv => OneGrantPerRequest
  BY DEF StoreInv
<1> QED
  BY <1>1, StoreInvInit, StoreInvStep, PTL DEF StoreSpec

-----------------------------------------------------------------------------
(* Rows leave only for a cause.                                            *)

\* An unexpired request disappears only into a code for it or because the
\* account it is bound to changed its address; a cleanup that read the clock
\* long before it ran still spares it.
THEOREM CleanupSparesTheLiving == StoreSpec => LiveRequestLeavesForCause
<1> DEFINE A == \A r \in Requests :
                   LiveRequest(r) /\ requests'[r] = None =>
                       \/ \E c \in Codes : codes[c] = None /\ codes'[c] # None
                                           /\ codes'[c].req = r
                       \/ requests[r].bind # None
                          /\ ForgetUser(requests[r].bind.user)
<1>1. StoreInv /\ StoreInv' /\ [StoreNext]_storeVars => [A]_storeVars
  <2> SUFFICES ASSUME StoreInv, StoreInv', StoreNext,
                      NEW r \in Requests, LiveRequest(r), requests'[r] = None
               PROVE  \/ \E c \in Codes : codes[c] = None /\ codes'[c] # None
                                          /\ codes'[c].req = r
                      \/ requests[r].bind # None
                         /\ ForgetUser(requests[r].bind.user)
    OBVIOUS
  <2>t. TypeOK /\ TypeOK' /\ requests[r] # None /\ requests[r] \in AuthRequest
    BY DEF StoreInv, TypeOK, LiveRequest
  <2>1. ASSUME NEW q \in Requests, NEW c \in Codes, NEW terms \in Terms,
               NEW u \in Users, IssueAuthCode(q, c, terms, u)
        PROVE  \E k \in Codes : codes[k] = None /\ codes'[k] # None
                                /\ codes'[k].req = r
    <3>1. q = r /\ codes[c] = None
      BY <2>1, <2>t DEF IssueAuthCode, TypeOK, StoreInv, IdsAreDrawn
    <3>2. [req |-> q, terms |-> terms, user |-> u,
           exp |-> now + AuthCodeTTL, used |-> FALSE] \in AuthCode
      BY <2>t, TTLAssumption DEF AuthCode, TypeOK
    <3> QED
      BY <2>1, <2>t, <3>1, <3>2, NoneAssumption DEF IssueAuthCode, TypeOK
  <2>2. ASSUME NEW u \in Users, ForgetUser(u)
        PROVE  requests[r].bind # None /\ ForgetUser(requests[r].bind.user)
    BY <2>2, <2>t DEF ForgetUser
  <2>3. ~CleanupExpiredAuthState
    <3>1. SUFFICES ASSUME CleanupExpiredAuthState PROVE FALSE
      OBVIOUS
    <3>2. requests[r].exp > now /\ requests[r].exp \in Nat
      BY <2>t DEF LiveRequest, AuthRequest
    <3>3. sweep \in Nat /\ sweep <= now /\ now \in Nat
      BY <3>1, <2>t DEF CleanupExpiredAuthState, StoreInv, SweepIsPast, TypeOK
    <3>4. requests[r].exp <= sweep
      BY <3>1, <2>t DEF CleanupExpiredAuthState
    <3> QED
      BY <3>2, <3>3, <3>4
  <2>4. ASSUME NEW q \in Requests, NEW terms \in Terms,
               CreateAuthRequest(q, terms)
        PROVE  FALSE
    <3>1. [terms |-> terms, bind |-> None, exp |-> now + AuthRequestTTL]
              \in AuthRequest
      BY <2>t, TTLAssumption DEF AuthRequest, TypeOK
    <3> QED
      BY <2>4, <2>t, <3>1, NoneAssumption DEF CreateAuthRequest, TypeOK
  <2>5. ASSUME NEW q \in Requests, NEW tok \in Tokens, NEW d \in Devices,
               NEW u \in Users, BindAuthVerification(q, tok, d, u)
        PROVE  FALSE
    <3>1. [requests[q] EXCEPT !.bind =
              [token |-> tok, device |-> d, user |-> u]] \in AuthRequest
      BY <2>5, <2>t
      DEF BindAuthVerification, LiveRequest, TypeOK, AuthRequest, Binding
    <3> QED
      BY <2>5, <2>t, <3>1, NoneAssumption DEF BindAuthVerification, TypeOK
  <2>6. ASSUME NEW q \in Requests, NEW tok \in Tokens, NEW d \in Devices,
               ConsumeAuthVerification(q, tok, d)
        PROVE  FALSE
    <3>1. [requests[q] EXCEPT !.bind = None] \in AuthRequest
      BY <2>6, <2>t
      DEF ConsumeAuthVerification, Bound, LiveRequest, TypeOK, AuthRequest
    <3> QED
      BY <2>6, <2>t, <3>1, NoneAssumption DEF ConsumeAuthVerification, TypeOK
  <2>7. ASSUME \/ \E c \in Codes, terms \in Terms : ConsumeAuthCode(c, terms)
               \/ StartCleanup \/ CleanupFails \/ Tick
        PROVE  FALSE
    BY <2>7, <2>t DEF ConsumeAuthCode, StartCleanup, CleanupFails, Tick
  <2> QED
    BY <2>1, <2>2, <2>3, <2>4, <2>5, <2>6, <2>7 DEF StoreNext, RequestOp
<1>2. StoreSpec => []StoreInv
  BY StoreInvInit, StoreInvStep, PTL DEF StoreSpec
<1>3. StoreSpec => [][A]_storeVars
  BY <1>1, <1>2, PTL DEF StoreSpec
<1> QED
  BY <1>3 DEF LiveRequestLeavesForCause

-----------------------------------------------------------------------------
(* AuthStore implements OneTimeGrant.                                      *)

LEMMA ChooseSingleton ==
    ASSUME NEW S, NEW c, S = {c} PROVE (CHOOSE x \in S : TRUE) = c
OBVIOUS

\* The part of the state the mapping of one request reads: what follows if an
\* operation leaves it alone.
LEMMA SameMapping ==
    ASSUME NEW r \in Requests,
           r \in drawn' <=> r \in drawn,
           requests'[r] = requests[r],
           CodesOf(r)' = CodesOf(r),
           \A c \in CodesOf(r) : codes'[c] = codes[c]
    PROVE  phase'[r] = phase[r] /\ deadline'[r] = deadline[r]
<1>1. phase'[r] = phase[r]
  BY DEF phase
<1>2. CASE CodesOf(r) = {}
  BY <1>1, <1>2 DEF deadline
<1>3. CASE CodesOf(r) # {}
  <2>1. (CHOOSE c \in CodesOf(r) : TRUE) \in CodesOf(r)
    BY <1>3
  <2> QED
    BY <1>1, <1>3, <2>1 DEF deadline
<1> QED
  BY <1>2, <1>3

\* What the mapping says of a request without a row, by its code.
LEMMA MapUndrawn ==
    ASSUME StoreInv, NEW r \in Requests, r \notin drawn
    PROVE  phase[r] = "new" /\ deadline[r] = 0
BY DEF StoreInv, IdsAreDrawn, phase, deadline

LEMMA MapPending ==
    ASSUME StoreInv, NEW r \in Requests, requests[r] # None
    PROVE  phase[r] = "pending" /\ deadline[r] = requests[r].exp
BY DEF StoreInv, IdsAreDrawn, phase, deadline

LEMMA MapCode ==
    ASSUME StoreInv, NEW r \in Requests, NEW c \in CodesOf(r)
    PROVE  /\ phase[r] = IF codes[c].used THEN "redeemed" ELSE "granted"
           /\ deadline[r] = codes[c].exp
<1>1. CodesOf(r) = {c} /\ requests[r] = None /\ r \in drawn
  BY DEF StoreInv, OneGrantPerRequest, IdsAreDrawn
<1>2. (CHOOSE x \in CodesOf(r) : TRUE) = c
  BY <1>1, ChooseSingleton
<1> QED
  BY <1>1, <1>2 DEF phase, deadline

LEMMA MapClosed ==
    ASSUME NEW r \in Requests, r \in drawn, requests[r] = None,
           CodesOf(r) = {}
    PROVE  phase[r] = "closed" /\ deadline[r] = 0
BY DEF phase, deadline

\* Deleting rows of the two tables closes the requests they belonged to.
LEMMA DeletionCloses ==
    ASSUME StoreInv, StoreInv',
           \A c \in Codes : codes'[c] \in {None, codes[c]},
           \A r \in Requests : requests'[r] \in {None, requests[r]},
           UNCHANGED <<now, drawn, redemptions>>
    PROVE  Grant!Next
<1> DEFINE S == {r \in Requests : /\ r \in drawn
                                 /\ requests'[r] = None
                                 /\ CodesOf(r)' = {}}
<1>1. \A r \in S : phase[r] # "new"
  BY DEF phase
<1>2. \A r \in S : phase'[r] = "closed" /\ deadline'[r] = 0
  BY DEF phase, deadline
<1>3. \A r \in Requests \ S : phase'[r] = phase[r] /\ deadline'[r] = deadline[r]
  <2> SUFFICES ASSUME NEW r \in Requests, r \notin S
               PROVE  phase'[r] = phase[r] /\ deadline'[r] = deadline[r]
    OBVIOUS
  <2>1. CodesOf(r)' \subseteq CodesOf(r)
    BY DEF CodesOf
  <2>2. \A c1, c2 \in CodesOf(r) : c1 = c2
    BY DEF StoreInv, OneGrantPerRequest
  <2>3. CASE r \notin drawn
    <3>1. requests[r] = None /\ CodesOf(r) = {}
      BY <2>3 DEF StoreInv, IdsAreDrawn
    <3> QED
      BY <3>1, <2>1, SameMapping
  <2>4. CASE r \in drawn /\ requests'[r] # None
    <3>1. requests'[r] = requests[r] /\ CodesOf(r) = {}
      BY <2>4 DEF StoreInv, OneGrantPerRequest
    <3> QED
      BY <3>1, <2>1, SameMapping
  <2>5. CASE r \in drawn /\ requests'[r] = None /\ CodesOf(r)' # {}
    <3>1. CodesOf(r)' = CodesOf(r) /\ requests[r] = None
      <4>1. PICK c \in CodesOf(r)' : TRUE
        BY <2>5
      <4>2. CodesOf(r) = {c} /\ CodesOf(r)' = {c}
        BY ONLY <4>1, <2>1, <2>2
      <4>3. requests[r] # None => CodesOf(r) = {}
        BY DEF StoreInv, OneGrantPerRequest
      <4> QED
        BY ONLY <4>2, <4>3
    <3>2. \A c \in CodesOf(r) : codes'[c] = codes[c]
      BY <3>1 DEF CodesOf
    <3> QED
      BY <2>5, <3>1, <3>2, SameMapping
  <2> QED
    BY <2>3, <2>4, <2>5
<1>4. /\ phase' = [r \in Requests |-> IF r \in S THEN "closed" ELSE phase[r]]
      /\ deadline' = [r \in Requests |-> IF r \in S THEN 0 ELSE deadline[r]]
  <2>1. /\ phase' = [r \in Requests |-> phase'[r]]
        /\ deadline' = [r \in Requests |-> deadline'[r]]
    BY DEF phase, deadline
  <2> QED
    BY <1>2, <1>3, <2>1
<1>5. Grant!Close(S)
  BY <1>1, <1>4 DEF Grant!Close
<1> QED
  BY <1>5 DEF Grant!Next

\* A step that changes the mapped values of one request only.
LEMMA OneRequestMoves ==
    ASSUME NEW r \in Requests, NEW p, NEW t,
           phase'[r] = p, deadline'[r] = t,
           \A q \in Requests : q # r =>
               phase'[q] = phase[q] /\ deadline'[q] = deadline[q]
    PROVE  /\ phase' = [phase EXCEPT ![r] = p]
           /\ deadline' = [deadline EXCEPT ![r] = t]
<1>1. /\ phase = [q \in Requests |-> phase[q]]
      /\ deadline = [q \in Requests |-> deadline[q]]
      /\ phase' = [q \in Requests |-> phase'[q]]
      /\ deadline' = [q \in Requests |-> deadline'[q]]
  BY DEF phase, deadline
<1> QED
  BY <1>1

\* The empty store is the abstract initial state.
LEMMA GrantInit == StoreInit => Grant!Init
BY DEF StoreInit, Grant!Init, phase, deadline, CodesOf

\* Every operation of the store is a step of OneTimeGrant or leaves its
\* mapped state alone.
LEMMA GrantStep ==
    StoreInv /\ StoreInv' /\ [StoreNext]_storeVars => [Grant!Next]_Grant!vars
<1> SUFFICES ASSUME StoreInv, StoreInv', [StoreNext]_storeVars
             PROVE  Grant!Next \/ UNCHANGED Grant!vars
  OBVIOUS
<1>t. TypeOK /\ TypeOK'
  BY DEF StoreInv
<1>s. ASSUME UNCHANGED <<now, drawn, codes, redemptions>>,
             \A r \in Requests :
                 \/ requests'[r] = requests[r]
                 \/ /\ requests[r] # None /\ requests'[r] # None
                    /\ requests'[r].exp = requests[r].exp
      PROVE  UNCHANGED Grant!vars
  <2>1. \A r \in Requests : phase'[r] = phase[r] /\ deadline'[r] = deadline[r]
    BY <1>s DEF phase, deadline, CodesOf
  <2>2. phase' = phase /\ deadline' = deadline
    BY <2>1 DEF phase, deadline
  <2> QED
    BY <1>s, <2>2 DEF Grant!vars
<1>1. ASSUME NEW r \in Requests, NEW terms \in Terms,
             CreateAuthRequest(r, terms)
      PROVE  Grant!Next
  <2> DEFINE row == [terms |-> terms, bind |-> None,
                     exp |-> now + AuthRequestTTL]
  <2>0. row \in AuthRequest
    BY <1>t, TTLAssumption DEF AuthRequest, TypeOK
  <2>1. /\ requests'[r] # None /\ requests'[r].exp = now + AuthRequestTTL
        /\ \A q \in Requests : q # r => requests'[q] = requests[q]
        /\ drawn' = drawn \cup {r}
        /\ \A q \in Requests : CodesOf(q)' = CodesOf(q)
    BY <1>1, <1>t, <2>0, NoneAssumption DEF CreateAuthRequest, TypeOK, CodesOf
  <2>2. phase[r] = "new"
    BY <1>1 DEF CreateAuthRequest, phase
  <2>3. phase'[r] = "pending" /\ deadline'[r] = now + AuthRequestTTL
    BY <2>1 DEF phase, deadline
  <2>4. \A q \in Requests : q # r =>
            phase'[q] = phase[q] /\ deadline'[q] = deadline[q]
    BY <1>1, <2>1, SameMapping DEF CreateAuthRequest, CodesOf
  <2>5. /\ phase' = [phase EXCEPT ![r] = "pending"]
        /\ deadline' = [deadline EXCEPT ![r] = now + AuthRequestTTL]
    BY <2>3, <2>4, OneRequestMoves
  <2> QED
    BY <1>1, <2>2, <2>5 DEF Grant!Next, Grant!Open, CreateAuthRequest
<1>2. ASSUME NEW r \in Requests, NEW tok \in Tokens, NEW d \in Devices,
             NEW u \in Users, BindAuthVerification(r, tok, d, u)
      PROVE  UNCHANGED Grant!vars
  <2> DEFINE row == [requests[r] EXCEPT !.bind =
                        [token |-> tok, device |-> d, user |-> u]]
  <2>1. row \in AuthRequest /\ row.exp = requests[r].exp /\ requests[r] # None
    BY <1>2, <1>t
    DEF BindAuthVerification, LiveRequest, TypeOK, AuthRequest, Binding
  <2>2. requests' = [requests EXCEPT ![r] = row]
    BY <1>2 DEF BindAuthVerification
  <2> QED
    BY <1>2, <1>t, <1>s, <2>1, <2>2, NoneAssumption
    DEF BindAuthVerification, TypeOK
<1>3. ASSUME NEW r \in Requests, NEW tok \in Tokens, NEW d \in Devices,
             ConsumeAuthVerification(r, tok, d)
      PROVE  UNCHANGED Grant!vars
  <2> DEFINE row == [requests[r] EXCEPT !.bind = None]
  <2>1. row \in AuthRequest /\ row.exp = requests[r].exp /\ requests[r] # None
    BY <1>3, <1>t
    DEF ConsumeAuthVerification, Bound, LiveRequest, TypeOK, AuthRequest
  <2>2. requests' = [requests EXCEPT ![r] = row]
    BY <1>3 DEF ConsumeAuthVerification
  <2> QED
    BY <1>3, <1>t, <1>s, <2>1, <2>2, NoneAssumption
    DEF ConsumeAuthVerification, TypeOK
<1>4. ASSUME NEW r \in Requests, NEW c \in Codes, NEW terms \in Terms,
             NEW u \in Users, IssueAuthCode(r, c, terms, u)
      PROVE  Grant!Next
  <2> DEFINE row == [req |-> r, terms |-> terms, user |-> u,
                     exp |-> now + AuthCodeTTL, used |-> FALSE]
  <2>0. row \in AuthCode
    BY <1>t, TTLAssumption DEF AuthCode, TypeOK
  <2>1. /\ codes[c] = None /\ codes'[c] = row /\ row # None
        /\ \A k \in Codes : k # c => codes'[k] = codes[k]
        /\ requests'[r] = None
        /\ \A q \in Requests : q # r => requests'[q] = requests[q]
        /\ drawn' = drawn \cup {c} /\ c \notin Requests
        /\ requests[r] # None /\ requests[r].exp > now
    <3>1. /\ c \notin drawn /\ drawn' = drawn \cup {c}
          /\ requests' = [requests EXCEPT ![r] = None]
          /\ codes' = [codes EXCEPT ![c] = row]
          /\ requests[r] # None /\ requests[r].exp > now
      BY <1>4 DEF IssueAuthCode, LiveRequest
    <3>2. codes[c] = None
      BY ONLY StoreInv, <3>1, c \in Codes DEF StoreInv, IdsAreDrawn
    <3>3. codes'[c] = row /\ \A k \in Codes : k # c => codes'[k] = codes[k]
      BY ONLY <1>t, <3>1, c \in Codes DEF TypeOK
    <3>4. /\ requests'[r] = None
          /\ \A q \in Requests : q # r => requests'[q] = requests[q]
      BY ONLY <1>t, <3>1, r \in Requests DEF TypeOK
    <3>5. row # None /\ c \notin Requests
      BY ONLY <2>0, NoneAssumption, IdAssumption, c \in Codes
    <3> QED
      BY ONLY <3>1, <3>2, <3>3, <3>4, <3>5
  <2>2. phase[r] = "pending" /\ deadline[r] = requests[r].exp
    BY <2>1, MapPending
  <2>3. phase'[r] = "granted" /\ deadline'[r] = now + AuthCodeTTL
    <3>1. CodesOf(r)' = {c}
      <4>1. CodesOf(r) = {}
        BY <2>1 DEF StoreInv, OneGrantPerRequest
      <4> QED
        BY <2>1, <4>1 DEF CodesOf
    <3>2. (CHOOSE x \in CodesOf(r)' : TRUE) = c
      BY <3>1, ChooseSingleton
    <3>3. r \in drawn'
      BY <2>1 DEF StoreInv, IdsAreDrawn
    <3> QED
      BY <2>1, <3>1, <3>2, <3>3 DEF phase, deadline
  <2>4. \A q \in Requests : q # r =>
            phase'[q] = phase[q] /\ deadline'[q] = deadline[q]
    <3> SUFFICES ASSUME NEW q \in Requests, q # r
                 PROVE  phase'[q] = phase[q] /\ deadline'[q] = deadline[q]
      OBVIOUS
    <3>1. /\ CodesOf(q)' = CodesOf(q)
          /\ \A k \in CodesOf(q) : codes'[k] = codes[k]
      BY <2>1 DEF CodesOf
    <3>2. (q \in drawn' <=> q \in drawn) /\ requests'[q] = requests[q]
      BY <2>1
    <3> QED
      BY <3>1, <3>2, SameMapping
  <2>5. /\ phase' = [phase EXCEPT ![r] = "granted"]
        /\ deadline' = [deadline EXCEPT ![r] = now + AuthCodeTTL]
    BY <2>3, <2>4, OneRequestMoves
  <2>6. now < deadline[r]
    BY <2>1, <2>2, <1>t DEF TypeOK, AuthRequest
  <2> QED
    BY <1>4, <2>2, <2>5, <2>6 DEF Grant!Next, Grant!Grant, IssueAuthCode
<1>5. ASSUME NEW c \in Codes, NEW terms \in Terms, ConsumeAuthCode(c, terms)
      PROVE  Grant!Next
  <2> DEFINE row == [codes[c] EXCEPT !.used = TRUE]
  <2>r. PICK r \in Requests : r = codes[c].req
    BY <1>5, <1>t DEF ConsumeAuthCode, Redeemable, LiveCode, TypeOK, AuthCode
  <2>0. /\ codes[c] # None /\ codes[c] \in AuthCode /\ ~codes[c].used
        /\ codes[c].exp > now /\ c \in CodesOf(r)
    BY <1>5, <1>t, <2>r
    DEF ConsumeAuthCode, Redeemable, LiveCode, TypeOK, CodesOf
  <2>1. /\ row \in AuthCode /\ row.req = r /\ row.used
        /\ row.exp = codes[c].exp /\ row # None
    BY <2>0, <2>r, NoneAssumption DEF AuthCode
  <2>2. /\ codes'[c] = row
        /\ \A k \in Codes : k # c => codes'[k] = codes[k]
        /\ UNCHANGED <<now, requests, drawn>>
        /\ redemptions' = [redemptions EXCEPT ![r] = @ + 1]
    BY <1>5, <1>t, <2>r DEF ConsumeAuthCode, TypeOK
  <2> HIDE DEF row
  <2>3. \A q \in Requests : CodesOf(q)' = CodesOf(q)
    BY <2>0, <2>1, <2>2 DEF CodesOf
  <2>4. /\ CodesOf(r) = {c} /\ requests[r] = None /\ r \in drawn
    BY <2>0 DEF StoreInv, OneGrantPerRequest, IdsAreDrawn
  <2>5. phase[r] = "granted" /\ deadline[r] = codes[c].exp
    BY <2>0, MapCode
  <2>6. phase'[r] = "redeemed" /\ deadline'[r] = deadline[r]
    <3>1. (CHOOSE x \in CodesOf(r)' : TRUE) = c
      BY <2>3, <2>4, ChooseSingleton
    <3>2. CodesOf(r)' = {c} /\ r \in drawn' /\ requests'[r] = None
      BY <2>2, <2>3, <2>4
    <3>3. codes'[c].used /\ codes'[c].exp = deadline[r]
      BY <2>1, <2>2, <2>5
    <3>4. phase'[r] = "redeemed"
      BY <2>0, <3>2, <3>3 DEF phase
    <3>5. deadline'[r] = codes'[c].exp
      BY <2>0, <3>1, <3>2 DEF deadline
    <3> QED
      BY <3>3, <3>4, <3>5
  <2>7. \A q \in Requests : q # r =>
            phase'[q] = phase[q] /\ deadline'[q] = deadline[q]
    <3> SUFFICES ASSUME NEW q \in Requests, q # r
                 PROVE  phase'[q] = phase[q] /\ deadline'[q] = deadline[q]
      OBVIOUS
    <3>1. \A k \in CodesOf(q) : codes'[k] = codes[k]
      BY <2>2, <2>r DEF CodesOf
    <3>2. (q \in drawn' <=> q \in drawn) /\ requests'[q] = requests[q]
      BY <2>2
    <3> QED
      BY <2>3, <3>1, <3>2, SameMapping
  <2>8. /\ phase' = [phase EXCEPT ![r] = "redeemed"]
        /\ deadline' = [deadline EXCEPT ![r] = deadline[r]]
    BY <2>0, <2>6, <2>7, OneRequestMoves
  <2>9. deadline' = deadline
    BY <2>0, <2>8 DEF deadline
  <2>10. now < deadline[r]
    BY <2>0, <2>5, <1>t DEF TypeOK, AuthCode
  <2> QED
    BY <2>0, <2>2, <2>5, <2>8, <2>9, <2>10 DEF Grant!Next, Grant!Redeem
<1>6. ASSUME NEW u \in Users, ForgetUser(u)
      PROVE  Grant!Next
  <2>1. /\ \A c \in Codes : codes'[c] \in {None, codes[c]}
        /\ \A r \in Requests : requests'[r] \in {None, requests[r]}
        /\ UNCHANGED <<now, drawn, redemptions>>
    BY <1>6 DEF ForgetUser
  <2> QED
    BY <2>1, DeletionCloses
<1>7. CASE CleanupExpiredAuthState
  <2>1. /\ \A c \in Codes : codes'[c] \in {None, codes[c]}
        /\ \A r \in Requests : requests'[r] \in {None, requests[r]}
        /\ UNCHANGED <<now, drawn, redemptions>>
    BY <1>7 DEF CleanupExpiredAuthState
  <2> QED
    BY <2>1, DeletionCloses
<1>8. CASE StartCleanup \/ CleanupFails \/ UNCHANGED storeVars
  BY <1>8, <1>s DEF StartCleanup, CleanupFails, storeVars
<1>9. CASE Tick
  <2>1. phase' = phase /\ deadline' = deadline
    BY <1>9 DEF Tick, phase, deadline, CodesOf
  <2> QED
    BY <1>9, <2>1 DEF Tick, Grant!Next, Grant!Tick
<1> QED
  BY <1>1, <1>2, <1>3, <1>4, <1>5, <1>6, <1>7, <1>8, <1>9
  DEF StoreNext, RequestOp

\* The tables and operations of auth_state.go implement the abstract grant:
\* requests, codes and deadlines behave as OneTimeGrant says.
THEOREM StoreImplementsGrant == StoreSpec => GrantSpec
<1>1. StoreSpec => []StoreInv
  BY StoreInvInit, StoreInvStep, PTL DEF StoreSpec
<1>2. StoreSpec => Grant!Spec
  BY <1>1, GrantInit, GrantStep, PTL DEF StoreSpec, Grant!Spec
<1> QED
  BY <1>2 DEF GrantSpec
=============================================================================
