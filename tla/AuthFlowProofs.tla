--------------------------- MODULE AuthFlowProofs ---------------------------
(***************************************************************************)
(* What the handlers promise, for any number of handlers, browsers,        *)
(* accounts, clients and requests.                                         *)
(*                                                                         *)
(* First, they use the store only through its operations: every step of    *)
(* the running service is a step of AuthStore or leaves its tables alone,  *)
(* so that the theorems of AuthStoreProofs hold of the service.            *)
(*                                                                         *)
(* Second, trust and sessions come from a password and a mailed link,      *)
(* links count once, codes leave only for verified devices and are         *)
(* answered only to their party.  Two facts carry that induction.  A       *)
(* binding belongs to one link and a link to at most one binding, so that  *)
(* consuming the binding uses the link up (BindInv).  A device cookie is   *)
(* in one browser's hands, so that whoever presents it is the browser that *)
(* entered the password when the link was made (OwnInv).                   *)
(***************************************************************************)
EXTENDS AuthFlow, AuthStoreProofs

\* The handlers' records stay well-typed when one of them is replaced.
LEMMA HandlerMoves ==
    ASSUME h \in [Threads -> Handler], \A s \in Threads : Ready(h[s]),
           NEW t \in Threads, NEW hd \in Handler, Ready(hd),
           h' = [h EXCEPT ![t] = hd]
    PROVE  /\ h' \in [Threads -> Handler]
           /\ \A s \in Threads : Ready(h[s])'
<1>1. \A s \in Threads : h'[s] = IF s = t THEN hd ELSE h[s]
  OBVIOUS
<1>2. \A s \in Threads : Ready(h'[s])
  BY <1>1
<1> QED
  BY <1>2 DEF Ready

\* The handlers' variables keep their types when a handler goes idle.
LEMMA HandlerEnds ==
    ASSUME h \in [Threads -> Handler], \A s \in Threads : Ready(h[s]),
           NEW t \in Threads, Finish(t)
    PROVE  /\ h' \in [Threads -> Handler]
           /\ \A s \in Threads : Ready(h[s])'
<1>1. Idle \in Handler
  BY DEF Idle, Handler, Points
<1>2. Ready(Idle)
  BY DEF Idle, Ready, WithBrowser, WithAccount, WithRequest, WithTerms,
         WithAddress, WithToken
<1> QED
  BY <1>1, <1>2, HandlerMoves DEF Finish

\* A move to a point that needs nothing that has not been read.
LEMMA HandlerGoes ==
    ASSUME h \in [Threads -> Handler], \A s \in Threads : Ready(h[s]),
           NEW t \in Threads, NEW p \in Points, Goto(t, p),
           p \in WithBrowser => h[t].b \in Browsers,
           p \in WithAccount => h[t].u \in Users /\ h[t].d \in Devices,
           p \in WithRequest => h[t].r \in Requests,
           p \in WithTerms => h[t].terms \in Terms,
           p \in WithAddress => h[t].addr \in Emails,
           p \in WithToken => h[t].tok \in Tokens,
           p \in {"token_read", "token_consume"} => h[t].code \in Codes
    PROVE  /\ h' \in [Threads -> Handler]
           /\ \A s \in Threads : Ready(h[s])'
<1> DEFINE hd == [h[t] EXCEPT !.at = p]
<1>1. h[t] \in Handler
  OBVIOUS
<1>2. hd \in Handler
  BY <1>1 DEF Handler
<1>3. /\ hd.at = p /\ hd.b = h[t].b /\ hd.u = h[t].u /\ hd.d = h[t].d
      /\ hd.r = h[t].r /\ hd.terms = h[t].terms /\ hd.addr = h[t].addr
      /\ hd.tok = h[t].tok /\ hd.code = h[t].code
  BY <1>1 DEF Handler
<1>4. Ready(hd)
  BY <1>3 DEF Ready
<1>5. h' = [h EXCEPT ![t] = hd]
  BY DEF Goto
<1> QED
  BY <1>2, <1>4, <1>5, HandlerMoves

\* A handler that reads a request or a code on its way keeps its type.
LEMMA HandlerReads ==
    ASSUME NEW hr \in Handler, NEW p \in Points
    PROVE  /\ \A r \in Requests : [hr EXCEPT !.at = p, !.r = r] \in Handler
           /\ \A tm \in Terms : [hr EXCEPT !.at = p, !.terms = tm] \in Handler
           /\ \A r \in Requests, tm \in Terms :
                  [hr EXCEPT !.at = p, !.r = r, !.terms = tm] \in Handler
<1>1. \A r \in Requests : [hr EXCEPT !.at = p, !.r = r] \in Handler
  BY DEF Handler
<1>2. \A tm \in Terms : [hr EXCEPT !.at = p, !.terms = tm] \in Handler
  BY DEF Handler
<1>3. \A r \in Requests, tm \in Terms :
          [hr EXCEPT !.at = p, !.r = r, !.terms = tm] \in Handler
  BY DEF Handler
<1> QED
  BY <1>1, <1>2, <1>3

\* A step that changes the running handlers only.
LEMMA OnlyHandlers ==
    ASSUME FlowTypeOK,
           UNCHANGED <<storeVars, accountVars, devices, linkVars, browserVars>>,
           h' \in [Threads -> Handler], \A s \in Threads : Ready(h[s])'
    PROVE  FlowTypeOK' /\ [StoreNext]_storeVars
BY DEF FlowTypeOK, TypeOK, storeVars, accountVars, linkVars, browserVars, Link,
       Handler

\* The tables keep their types when a step leaves them alone.
LEMMA StoreStands == TypeOK /\ UNCHANGED storeVars => TypeOK'
BY DEF TypeOK, storeVars

\* What the rest of the module reads from the type invariant.
LEMMA HandlersTyped ==
    ASSUME FlowTypeOK
    PROVE  /\ TypeOK
           /\ h \in [Threads -> Handler]
           /\ \A s \in Threads : Ready(h[s])
BY DEF FlowTypeOK

\* Auth's steps before the code.
LEMMA AuthSteps ==
    ASSUME FlowTypeOK, NEW t \in Threads, AuthStep(t)
    PROVE  FlowTypeOK' /\ [StoreNext]_storeVars
<1>1. ASSUME NEW b \in Browsers, NEW terms \in Terms, AuthStart(t, b, terms)
      PROVE  FlowTypeOK' /\ [StoreNext]_storeVars
  <2> DEFINE hd == [Idle EXCEPT !.at = "auth_create", !.b = b,
                                !.terms = terms, !.u = cookies[b].sess,
                                !.d = cookies[b].did,
                                !.late = cookies[b].sess
                                             \notin live \cup {None}]
  <2>1. /\ cookies[b].sess \in Users \cup {None}
        /\ cookies[b].did \in Devices \cup {None}
    BY DEF FlowTypeOK
  <2>2. hd \in Handler
    BY <2>1 DEF Handler, Idle, Points
  <2>3. hd.at = "auth_create" /\ hd.b = b /\ hd.terms = terms
    BY DEF Idle
  <2>4. Ready(hd)
    BY <2>3 DEF Ready, WithBrowser, WithAccount, WithRequest, WithTerms,
                WithAddress, WithToken
  <2>5. h' = [h EXCEPT ![t] = hd]
    BY <1>1 DEF AuthStart
  <2> QED
    BY <1>1, <2>2, <2>4, <2>5, HandlersTyped, HandlerMoves, OnlyHandlers
    DEF AuthStart
<1>2. ASSUME NEW r \in Requests, AuthCreate(t, r)
      PROVE  FlowTypeOK' /\ [StoreNext]_storeVars
  <2>1. h[t] \in Handler /\ Ready(h[t]) /\ h[t].at = "auth_create"
    BY <1>2, HandlersTyped DEF AuthCreate, At
  <2>2. h[t].terms \in Terms /\ h[t].b \in Browsers
    BY <2>1 DEF Ready, WithTerms, WithBrowser
  <2>3. StoreNext
    BY <1>2, <2>2 DEF AuthCreate, StoreNext, RequestOp
  <2>4. h' \in [Threads -> Handler] /\ \A s \in Threads : Ready(h[s])'
    <3>1. CASE h[t].u = None \/ h[t].d = None
      BY <1>2, <3>1, HandlersTyped, HandlerEnds DEF AuthCreate
    <3>2. CASE ~(h[t].u = None \/ h[t].d = None)
      <4> DEFINE hd == [h[t] EXCEPT !.at = "auth_trust", !.r = r]
      <4>1. h[t].u \in Users /\ h[t].d \in Devices
        BY <2>1, <3>2 DEF Handler
      <4>2. hd \in Handler
        <5>1. "auth_trust" \in Points
          BY DEF Points
        <5> QED
          BY ONLY <5>1, <2>1, HandlerReads
      <4>3. /\ hd.at = "auth_trust" /\ hd.r = r /\ hd.u = h[t].u
            /\ hd.d = h[t].d /\ hd.b = h[t].b /\ hd.terms = h[t].terms
        BY <2>1 DEF Handler
      <4>4. Ready(hd)
        BY <2>2, <4>1, <4>3 DEF Ready, WithAddress, WithToken
      <4>5. h' = [h EXCEPT ![t] = hd]
        BY <1>2, <3>2 DEF AuthCreate
      <4> QED
        BY <4>2, <4>4, <4>5, HandlersTyped, HandlerMoves
    <3> QED
      BY <3>1, <3>2
  <2> QED
    BY <1>2, <2>3, <2>4, HandlersTyped, StoreTypingStep
    DEF AuthCreate, FlowTypeOK, accountVars, linkVars, browserVars, Link
<1>3. ASSUME AuthTrust(t)
      PROVE  FlowTypeOK' /\ [StoreNext]_storeVars
  <2>1. h[t] \in Handler /\ Ready(h[t]) /\ h[t].at = "auth_trust"
    BY <1>3, HandlersTyped DEF AuthTrust, At
  <2>2. /\ h[t].b \in Browsers /\ h[t].u \in Users /\ h[t].d \in Devices
        /\ h[t].r \in Requests /\ h[t].terms \in Terms
    BY <2>1 DEF Ready, WithBrowser, WithAccount, WithRequest, WithTerms, Points
  <2>3. CASE Goto(t, "auth_issue")
    <3>1. "auth_issue" \in Points /\ "auth_issue" \notin WithAddress \cup WithToken
      BY DEF Points, WithAddress, WithToken
    <3> QED
      BY <1>3, <2>2, <2>3, <3>1, HandlersTyped, HandlerGoes, OnlyHandlers
      DEF AuthTrust
  <2>4. CASE Finish(t)
    BY <1>3, <2>4, HandlersTyped, HandlerEnds, OnlyHandlers DEF AuthTrust
  <2> QED
    BY <1>3, <2>3, <2>4 DEF AuthTrust
<1> QED
  BY <1>1, <1>2, <1>3 DEF AuthStep

\* A handler that has a request and an account moves to a point that needs
\* no more than the ones it comes from.
LEMMA FromRequest ==
    ASSUME FlowTypeOK, NEW t \in Threads,
           h[t].at \in WithAccount \cap WithRequest
    PROVE  /\ h[t] \in Handler
           /\ h[t].b \in Browsers /\ h[t].u \in Users /\ h[t].d \in Devices
           /\ h[t].r \in Requests /\ h[t].terms \in Terms
           /\ h[t].at \in WithAddress => h[t].addr \in Emails
           /\ h[t].at \in WithToken => h[t].tok \in Tokens
BY HandlersTyped DEF Ready, WithBrowser, WithTerms

\* A response is due: it needs the account, the device and the browser.
LEMMA GoesToReply ==
    ASSUME FlowTypeOK, NEW t \in Threads,
           h[t].at \in WithAccount, Goto(t, "login_reply")
    PROVE  /\ h' \in [Threads -> Handler]
           /\ \A s \in Threads : Ready(h[s])'
<1>1. h[t].b \in Browsers /\ h[t].u \in Users /\ h[t].d \in Devices
  BY HandlersTyped DEF Ready, WithBrowser
<1>2. /\ "login_reply" \in Points
      /\ "login_reply" \notin WithRequest \cup WithTerms \cup WithAddress
                                  \cup WithToken
  BY DEF Points, WithRequest, WithAccount, WithTerms, WithAddress, WithToken
<1> QED
  BY <1>1, <1>2, HandlersTyped, HandlerGoes

\* issueCodeAndRedirect.
LEMMA IssueSteps ==
    ASSUME FlowTypeOK, NEW t \in Threads,
           (\E c \in Codes : Issue(t, c)) \/ IssueFails(t)
    PROVE  FlowTypeOK' /\ [StoreNext]_storeVars
<1>1. h[t].at \in IssuePoints /\ AfterIssue(t)
  BY DEF Issue, IssueFails
<1>2. IssuePoints \subseteq WithAccount \cap WithRequest
  BY DEF IssuePoints, WithAccount, WithRequest, Points
<1>3. h' \in [Threads -> Handler] /\ \A s \in Threads : Ready(h[s])'
  <2>1. CASE Finish(t)
    BY <2>1, HandlersTyped, HandlerEnds
  <2>2. CASE Goto(t, "login_reply")
    BY <1>1, <1>2, <2>2, GoesToReply
  <2> QED
    BY <1>1, <2>1, <2>2 DEF AfterIssue
<1>4. ASSUME NEW c \in Codes, Issue(t, c)
      PROVE  FlowTypeOK' /\ [StoreNext]_storeVars
  <2>1. StoreNext
    BY <1>1, <1>2, <1>4, FromRequest DEF Issue, StoreNext, RequestOp
  <2> QED
    BY <1>3, <1>4, <2>1, HandlersTyped, StoreTypingStep
    DEF Issue, FlowTypeOK, accountVars, linkVars, browserVars, Link
<1>5. CASE IssueFails(t)
  BY <1>3, <1>5, OnlyHandlers DEF IssueFails
<1> QED
  BY <1>4, <1>5

\* Login up to the device check.
LEMMA LoginSteps ==
    ASSUME FlowTypeOK, NEW t \in Threads,
           \/ \E b \in Browsers, r \in Requests : LoginStart(t, b, r)
           \/ \E u \in Users : LoginUser(t, u)
           \/ LoginTrust(t)
    PROVE  FlowTypeOK' /\ [StoreNext]_storeVars
<1>1. ASSUME NEW b \in Browsers, NEW r \in Requests, LoginStart(t, b, r)
      PROVE  FlowTypeOK' /\ [StoreNext]_storeVars
  <2> DEFINE hd == [Idle EXCEPT !.at = "login_user", !.b = b, !.r = r,
                                !.terms = requests[r].terms,
                                !.d = cookies[b].did]
  <2>1. /\ cookies[b].did \in Devices \cup {None}
        /\ requests[r].terms \in Terms
    BY <1>1 DEF FlowTypeOK, TypeOK, LoginStart, LiveRequest, AuthRequest
  <2>2. hd \in Handler
    BY <2>1 DEF Handler, Idle, Points
  <2>3. hd.at = "login_user" /\ hd.b = b /\ hd.terms = requests[r].terms
        /\ hd.r = r
    BY DEF Idle
  <2>4. Ready(hd)
    BY <2>1, <2>3 DEF Ready, WithAccount, WithAddress, WithToken
  <2>5. h' = [h EXCEPT ![t] = hd]
    BY <1>1 DEF LoginStart
  <2> QED
    BY <1>1, <2>2, <2>4, <2>5, HandlersTyped, HandlerMoves, OnlyHandlers
    DEF LoginStart
<1>2. ASSUME NEW u \in Users, LoginUser(t, u)
      PROVE  FlowTypeOK' /\ [StoreNext]_storeVars
  <2>1. h[t] \in Handler /\ Ready(h[t]) /\ h[t].at = "login_user"
    BY <1>2, HandlersTyped DEF LoginUser, At
  <2>2. /\ h[t].b \in Browsers /\ h[t].r \in Requests /\ h[t].terms \in Terms
        /\ email[u] \in Emails
    BY <2>1 DEF Ready, WithBrowser, WithRequest, WithTerms, FlowTypeOK
  <2>3. /\ h' \in [Threads -> Handler] /\ \A s \in Threads : Ready(h[s])'
        /\ dids' \subseteq Devices
    <3>1. CASE h[t].d # None
      <4> DEFINE hd == [h[t] EXCEPT !.at = "login_trust", !.u = u,
                                    !.addr = email[u]]
      <4>1. hd \in Handler /\ h[t].d \in Devices
        BY <2>1, <2>2, <3>1 DEF Handler, Points
      <4>2. /\ hd.at = "login_trust" /\ hd.u = u /\ hd.addr = email[u]
            /\ hd.b = h[t].b /\ hd.r = h[t].r /\ hd.d = h[t].d
            /\ hd.terms = h[t].terms
        BY <2>1 DEF Handler
      <4>3. Ready(hd)
        BY <2>2, <4>1, <4>2 DEF Ready, WithToken
      <4>4. h' = [h EXCEPT ![t] = hd] /\ dids' = dids
        BY <1>2, <3>1 DEF LoginUser
      <4> QED
        BY <4>1, <4>3, <4>4, HandlersTyped, HandlerMoves DEF FlowTypeOK
    <3>2. CASE h[t].d = None
      <4>1. PICK d \in Devices \ dids :
                /\ h' = [h EXCEPT ![t].at = "login_bind", ![t].u = u,
                                  ![t].addr = email[u],
                                  ![t].d = d, ![t].newdid = TRUE]
                /\ dids' = dids \cup {d}
        BY <1>2, <3>2 DEF LoginUser
      <4> DEFINE hd == [h[t] EXCEPT !.at = "login_bind", !.u = u,
                                    !.addr = email[u],
                                    !.d = d, !.newdid = TRUE]
      <4>2. hd \in Handler
        BY <2>1, <2>2 DEF Handler, Points
      <4>3. /\ hd.at = "login_bind" /\ hd.u = u /\ hd.addr = email[u]
            /\ hd.b = h[t].b /\ hd.r = h[t].r /\ hd.d = d
            /\ hd.terms = h[t].terms
        BY <2>1 DEF Handler
      <4>4. Ready(hd)
        BY <2>2, <4>3 DEF Ready, WithToken
      <4>5. h' = [h EXCEPT ![t] = hd]
        BY <4>1
      <4> QED
        BY <4>1, <4>2, <4>4, <4>5, HandlersTyped, HandlerMoves DEF FlowTypeOK
    <3> QED
      BY <3>1, <3>2
  <2>4. proved' \subseteq Browsers \X Users
    <3>1. proved \subseteq Browsers \X Users
      BY DEF FlowTypeOK
    <3>2. <<h[t].b, u>> \in Browsers \X Users
      BY <2>2
    <3>3. proved' = proved \cup {<<h[t].b, u>>}
      BY <1>2 DEF LoginUser
    <3> QED
      BY <3>1, <3>2, <3>3, Zenon
  <2>5. TypeOK' /\ UNCHANGED storeVars
    BY <1>2, HandlersTyped, StoreStands DEF LoginUser
  <2> QED
    BY <1>2, <2>3, <2>4, <2>5
    DEF LoginUser, FlowTypeOK, accountVars, linkVars, Link
<1>3. ASSUME LoginTrust(t)
      PROVE  FlowTypeOK' /\ [StoreNext]_storeVars
  <2>1. h[t].at = "login_trust" /\ h[t].at \in WithAccount \cap WithRequest
        /\ h[t].at \in WithAddress
    BY <1>3 DEF LoginTrust, At, WithAccount, WithRequest, WithAddress, Points
  <2>2. PICK p \in {"login_issue", "login_bind"} : Goto(t, p)
    BY <1>3 DEF LoginTrust
  <2>3. p \in Points /\ p \notin WithToken \cup {"token_read", "token_consume"}
    BY DEF Points, WithToken
  <2> QED
    BY <1>3, <2>1, <2>2, <2>3, FromRequest, HandlersTyped, HandlerGoes,
       OnlyHandlers
    DEF LoginTrust
<1> QED
  BY <1>1, <1>2, <1>3

\* AdminLogin up to the binding.
LEMMA AdminSteps ==
    ASSUME FlowTypeOK, NEW t \in Threads,
           \/ \E b \in Browsers, u \in Users : AdminLoginStart(t, b, u)
           \/ AdminTrust(t)
           \/ \E r \in Requests : AdminCreate(t, r)
    PROVE  FlowTypeOK' /\ [StoreNext]_storeVars
<1>1. ASSUME NEW b \in Browsers, NEW u \in Users, AdminLoginStart(t, b, u)
      PROVE  FlowTypeOK' /\ [StoreNext]_storeVars
  <2>1. PICK d : /\ d \in IF cookies[b].did # None THEN {cookies[b].did}
                          ELSE Devices \ dids
                 /\ dids' = dids \cup {d}
                 /\ h' = [h EXCEPT ![t] =
                        [Idle EXCEPT !.at = "admin_trust", !.b = b, !.u = u,
                                     !.addr = email[u], !.d = d,
                                     !.newdid = (cookies[b].did = None)]]
    BY <1>1 DEF AdminLoginStart
  <2> DEFINE hd == [Idle EXCEPT !.at = "admin_trust", !.b = b, !.u = u,
                                !.addr = email[u], !.d = d,
                                !.newdid = (cookies[b].did = None)]
  <2>2. d \in Devices /\ email[u] \in Emails
    BY <2>1 DEF FlowTypeOK
  <2>3. hd \in Handler
    BY <2>2 DEF Handler, Idle, Points
  <2>4. /\ hd.at = "admin_trust" /\ hd.b = b /\ hd.u = u /\ hd.d = d
        /\ hd.addr = email[u]
    BY DEF Idle
  <2>5. Ready(hd)
    BY <2>2, <2>4 DEF Ready, WithRequest, WithTerms, WithToken
  <2>6. h' \in [Threads -> Handler] /\ \A s \in Threads : Ready(h[s])'
    BY <2>1, <2>3, <2>5, HandlersTyped, HandlerMoves
  <2>7. proved' \subseteq Browsers \X Users /\ dids' \subseteq Devices
    <3>1. proved \subseteq Browsers \X Users /\ dids \subseteq Devices
      BY DEF FlowTypeOK
    <3>2. <<b, u>> \in Browsers \X Users
      OBVIOUS
    <3>3. proved' = proved \cup {<<b, u>>}
      BY <1>1 DEF AdminLoginStart
    <3> QED
      BY <2>1, <2>2, <3>1, <3>2, <3>3, Zenon
  <2>8. TypeOK' /\ UNCHANGED storeVars
    BY <1>1, HandlersTyped, StoreStands DEF AdminLoginStart
  <2> QED
    BY <1>1, <2>6, <2>7, <2>8
    DEF AdminLoginStart, FlowTypeOK, accountVars, linkVars, Link
<1>2. ASSUME AdminTrust(t)
      PROVE  FlowTypeOK' /\ [StoreNext]_storeVars
  <2>1. h[t].at = "admin_trust" /\ h[t].at \in WithAccount \cap WithAddress
    BY <1>2 DEF AdminTrust, At, WithAccount, WithAddress, Points
  <2>2. CASE Goto(t, "login_reply")
    BY <1>2, <2>1, <2>2, GoesToReply, OnlyHandlers DEF AdminTrust
  <2>3. CASE Goto(t, "admin_create")
    <3>1. /\ h[t].b \in Browsers /\ h[t].u \in Users /\ h[t].d \in Devices
          /\ h[t].addr \in Emails
      BY <2>1, HandlersTyped DEF Ready, WithBrowser
    <3>2. /\ "admin_create" \in Points
          /\ "admin_create" \notin WithRequest \cup WithTerms \cup WithToken
      BY DEF Points, WithRequest, WithAccount, WithTerms, WithToken
    <3> QED
      BY <1>2, <2>3, <3>1, <3>2, HandlersTyped, HandlerGoes, OnlyHandlers
      DEF AdminTrust
  <2> QED
    BY <1>2, <2>2, <2>3 DEF AdminTrust
<1>3. ASSUME NEW r \in Requests, AdminCreate(t, r)
      PROVE  FlowTypeOK' /\ [StoreNext]_storeVars
  <2>1. h[t] \in Handler /\ Ready(h[t]) /\ h[t].at = "admin_create"
    BY <1>3, HandlersTyped DEF AdminCreate, At
  <2>2. /\ h[t].b \in Browsers /\ h[t].u \in Users /\ h[t].d \in Devices
        /\ h[t].addr \in Emails /\ ConsoleTerms \in Terms
    BY <2>1, FlowAssumption
    DEF Ready, WithBrowser, WithAccount, WithAddress, Points
  <2>3. StoreNext
    BY <1>3, <2>2 DEF AdminCreate, StoreNext, RequestOp
  <2> DEFINE hd == [h[t] EXCEPT !.at = "login_bind", !.r = r,
                                !.terms = ConsoleTerms]
  <2>4. hd \in Handler
    BY <2>1, <2>2 DEF Handler, Points
  <2>5. /\ hd.at = "login_bind" /\ hd.r = r /\ hd.terms = ConsoleTerms
        /\ hd.b = h[t].b /\ hd.u = h[t].u /\ hd.d = h[t].d
        /\ hd.addr = h[t].addr
    BY <2>1 DEF Handler
  <2>6. Ready(hd)
    BY <2>2, <2>5 DEF Ready, WithToken
  <2>7. h' = [h EXCEPT ![t] = hd]
    BY <1>3 DEF AdminCreate
  <2>8. h' \in [Threads -> Handler] /\ \A s \in Threads : Ready(h[s])'
    BY <2>4, <2>6, <2>7, HandlersTyped, HandlerMoves
  <2> QED
    BY <1>3, <2>3, <2>8, HandlersTyped, StoreTypingStep
    DEF AdminCreate, FlowTypeOK, accountVars, linkVars, browserVars, Link
<1> QED
  BY <1>1, <1>2, <1>3

\* CreateVerificationToken.
LEMMA BindSteps ==
    ASSUME FlowTypeOK, NEW t \in Threads,
           (\E tok \in Tokens : LoginBind(t, tok)) \/ LoginBindFails(t)
    PROVE  FlowTypeOK' /\ [StoreNext]_storeVars
<1>1. h[t].at = "login_bind" /\ h[t].at \in WithAccount \cap WithRequest
      /\ h[t].at \in WithAddress
  BY DEF LoginBind, LoginBindFails, At, WithAccount, WithRequest, WithAddress,
         Points
<1>2. /\ h[t] \in Handler /\ h[t].b \in Browsers /\ h[t].u \in Users
      /\ h[t].d \in Devices /\ h[t].r \in Requests /\ h[t].terms \in Terms
      /\ h[t].addr \in Emails
  BY <1>1, FromRequest
<1>3. ASSUME NEW tok \in Tokens, LoginBind(t, tok)
      PROVE  FlowTypeOK' /\ [StoreNext]_storeVars
  <2>1. StoreNext
    BY <1>2, <1>3 DEF LoginBind, StoreNext, RequestOp
  <2> DEFINE hd == [h[t] EXCEPT !.at = "login_mail", !.tok = tok]
  <2>2. hd \in Handler
    BY <1>2 DEF Handler, Points
  <2>3. /\ hd.at = "login_mail" /\ hd.tok = tok /\ hd.r = h[t].r
        /\ hd.terms = h[t].terms /\ hd.b = h[t].b /\ hd.u = h[t].u
        /\ hd.d = h[t].d
    BY <1>2 DEF Handler
  <2>4. Ready(hd)
    BY <1>2, <2>3 DEF Ready, WithAddress
  <2>5. h' = [h EXCEPT ![t] = hd]
    BY <1>3 DEF LoginBind
  <2>6. h' \in [Threads -> Handler] /\ \A s \in Threads : Ready(h[s])'
    BY <2>2, <2>4, <2>5, HandlersTyped, HandlerMoves
  <2>7. links' \in [Tokens -> Link \cup {None}]
    <3>1. now + EmailTokenTTL \in Nat
      BY FlowAssumption, HandlersTyped DEF TypeOK
    <3>2. [addr |-> h[t].addr, exp |-> now + EmailTokenTTL,
           user |-> h[t].u, device |-> h[t].d] \in Link
      BY <1>2, <3>1 DEF Link
    <3> QED
      BY <1>3, <3>2 DEF LoginBind, NewLink, FlowTypeOK
  <2>8. TypeOK'
    BY <2>1, HandlersTyped, StoreTypingStep
  <2> QED
    BY <1>3, <2>1, <2>6, <2>7, <2>8
    DEF LoginBind, FlowTypeOK, accountVars, browserVars
<1>4. CASE LoginBindFails(t)
  BY <1>1, <1>4, GoesToReply, OnlyHandlers DEF LoginBindFails
<1> QED
  BY <1>3, <1>4

\* The mail, and the clean-up after it failed.
LEMMA MailSteps ==
    ASSUME FlowTypeOK, NEW t \in Threads,
           LoginMail(t) \/ LoginMailFails(t) \/ LoginUnbind(t)
    PROVE  FlowTypeOK' /\ [StoreNext]_storeVars
<1>1. h[t].at \in {"login_mail", "login_unbind"}
      /\ h[t].at \in WithAccount \cap WithRequest /\ h[t].at \in WithToken
  BY DEF LoginMail, LoginMailFails, LoginUnbind, At, WithAccount, WithRequest,
         WithToken, Points
<1>2. /\ h[t] \in Handler /\ h[t].b \in Browsers /\ h[t].u \in Users
      /\ h[t].d \in Devices /\ h[t].r \in Requests /\ h[t].terms \in Terms
      /\ h[t].tok \in Tokens
  BY <1>1, FromRequest
<1>3. CASE LoginMail(t) \/ LoginMailFails(t)
  <2>1. h' \in [Threads -> Handler] /\ \A s \in Threads : Ready(h[s])'
    <3>1. CASE Goto(t, "login_reply")
      BY <1>1, <3>1, GoesToReply
    <3>2. CASE Goto(t, "login_unbind")
      <4>1. "login_unbind" \in Points /\ "login_unbind" \notin WithAddress
        BY DEF Points, WithAddress
      <4> QED
        BY <1>2, <3>2, <4>1, HandlersTyped, HandlerGoes
    <3> QED
      BY <1>3, <3>1, <3>2 DEF LoginMail, LoginMailFails
  <2>2. mailed' \subseteq Tokens
    BY <1>2, <1>3 DEF LoginMail, LoginMailFails, FlowTypeOK
  <2>3. TypeOK' /\ UNCHANGED storeVars
    BY <1>3, HandlersTyped, StoreStands DEF LoginMail, LoginMailFails
  <2> QED
    BY <1>3, <2>1, <2>2, <2>3
    DEF LoginMail, LoginMailFails, FlowTypeOK, accountVars, browserVars, Link
<1>4. CASE LoginUnbind(t)
  <2>1. h' \in [Threads -> Handler] /\ \A s \in Threads : Ready(h[s])'
    BY <1>1, <1>4, GoesToReply DEF LoginUnbind
  <2>2. [StoreNext]_storeVars
    BY <1>2, <1>4 DEF LoginUnbind, StoreNext, RequestOp
  <2>3. TypeOK'
    BY <2>2, HandlersTyped, StoreTypingStep
  <2> QED
    BY <1>4, <2>1, <2>2, <2>3
    DEF LoginUnbind, FlowTypeOK, accountVars, linkVars, browserVars, Link
<1> QED
  BY <1>3, <1>4

\* EmailVerify.
LEMMA VerifySteps ==
    ASSUME FlowTypeOK, NEW t \in Threads, VerifyStep(t)
    PROVE  FlowTypeOK' /\ [StoreNext]_storeVars
<1>1. ASSUME NEW b \in Browsers, NEW tok \in Tokens, VerifyStart(t, b, tok)
      PROVE  FlowTypeOK' /\ [StoreNext]_storeVars
  <2>1. PICK u \in live :
            h' = [h EXCEPT ![t] =
                [Idle EXCEPT !.at = "verify_find", !.b = b, !.u = u,
                             !.d = cookies[b].did, !.tok = tok]]
    BY <1>1 DEF VerifyStart
  <2> DEFINE hd == [Idle EXCEPT !.at = "verify_find", !.b = b, !.u = u,
                                !.d = cookies[b].did, !.tok = tok]
  <2>2. u \in Users /\ cookies[b].did \in Devices
    BY <1>1 DEF FlowTypeOK, VerifyStart
  <2>3. hd \in Handler
    BY <2>2 DEF Handler, Idle, Points
  <2>4. /\ hd.at = "verify_find" /\ hd.b = b /\ hd.u = u /\ hd.tok = tok
        /\ hd.d = cookies[b].did
    BY DEF Idle
  <2>5. Ready(hd)
    BY <2>2, <2>4 DEF Ready, WithRequest, WithTerms, WithAddress
  <2> QED
    BY <1>1, <2>1, <2>3, <2>5, HandlersTyped, HandlerMoves, OnlyHandlers
    DEF VerifyStart
<1>2. ASSUME VerifyFind(t)
      PROVE  FlowTypeOK' /\ [StoreNext]_storeVars
  <2>1. h[t] \in Handler /\ Ready(h[t]) /\ h[t].at = "verify_find"
    BY <1>2, HandlersTyped DEF VerifyFind, At
  <2>2. /\ h[t].b \in Browsers /\ h[t].u \in Users /\ h[t].d \in Devices
        /\ h[t].tok \in Tokens
    BY <2>1 DEF Ready, WithBrowser, WithAccount, WithToken, Points
  <2>3. CASE Finish(t)
    BY <1>2, <2>3, HandlersTyped, HandlerEnds, OnlyHandlers DEF VerifyFind
  <2>4. ASSUME NEW r \in Requests, VerifyMatch(t, r),
               h' = [h EXCEPT ![t].at = "verify_consume", ![t].r = r,
                              ![t].terms = requests[r].terms]
        PROVE  FlowTypeOK' /\ [StoreNext]_storeVars
    <3>1. requests[r].terms \in Terms
      BY <2>4 DEF VerifyMatch, Bound, LiveRequest, FlowTypeOK, TypeOK,
                  AuthRequest
    <3> DEFINE hd == [h[t] EXCEPT !.at = "verify_consume", !.r = r,
                                  !.terms = requests[r].terms]
    <3>2. hd \in Handler
      <4>1. "verify_consume" \in Points
        BY DEF Points
      <4> QED
        BY ONLY <4>1, <2>1, <3>1, HandlerReads
    <3>3. /\ hd.at = "verify_consume" /\ hd.r = r
          /\ hd.terms = requests[r].terms
          /\ hd.b = h[t].b /\ hd.u = h[t].u /\ hd.d = h[t].d
          /\ hd.tok = h[t].tok
      BY <2>1 DEF Handler
    <3>4. Ready(hd)
      BY <2>2, <3>1, <3>3 DEF Ready, WithAddress
    <3>5. h' = [h EXCEPT ![t] = hd]
      BY <2>4
    <3> QED
      BY <1>2, <3>2, <3>4, <3>5, HandlersTyped, HandlerMoves, OnlyHandlers
      DEF VerifyFind
  <2> QED
    BY <1>2, <2>3, <2>4 DEF VerifyFind
<1>3. ASSUME VerifyConsume(t)
      PROVE  FlowTypeOK' /\ [StoreNext]_storeVars
  <2>1. h[t].at = "verify_consume" /\ h[t].at \in WithAccount \cap WithRequest
        /\ h[t].at \in WithToken
    BY <1>3 DEF VerifyConsume, At, WithAccount, WithRequest, WithToken, Points
  <2>2. /\ h[t] \in Handler /\ h[t].b \in Browsers /\ h[t].u \in Users
        /\ h[t].d \in Devices /\ h[t].r \in Requests /\ h[t].terms \in Terms
        /\ h[t].tok \in Tokens
    BY <2>1, FromRequest
  <2>3. h' \in [Threads -> Handler] /\ \A s \in Threads : Ready(h[s])'
    <3>1. CASE Goto(t, "verify_device")
      <4>1. /\ "verify_device" \in Points
            /\ "verify_device" \notin WithAddress \cup WithToken
        BY DEF Points, WithAddress, WithToken
      <4> QED
        BY <2>2, <3>1, <4>1, HandlersTyped, HandlerGoes
    <3>2. CASE Finish(t)
      BY <3>2, HandlersTyped, HandlerEnds
    <3> QED
      BY <1>3, <3>1, <3>2 DEF VerifyConsume
  <2>4. [StoreNext]_storeVars
    BY <1>3, <2>2 DEF VerifyConsume, StoreNext, RequestOp
  <2>5. TypeOK'
    BY <2>4, HandlersTyped, StoreTypingStep
  <2>6. honoured' \in [Tokens -> Nat]
    BY <1>3, <2>2 DEF VerifyConsume, FlowTypeOK
  <2> QED
    BY <1>3, <2>3, <2>4, <2>5, <2>6
    DEF VerifyConsume, FlowTypeOK, accountVars, browserVars, Link
<1>4. ASSUME VerifyDevice(t)
      PROVE  FlowTypeOK' /\ [StoreNext]_storeVars
  <2>1. h[t].at = "verify_device" /\ h[t].at \in WithAccount \cap WithRequest
    BY <1>4 DEF VerifyDevice, At, WithAccount, WithRequest, Points
  <2>2. /\ h[t] \in Handler /\ h[t].b \in Browsers /\ h[t].u \in Users
        /\ h[t].d \in Devices /\ h[t].r \in Requests /\ h[t].terms \in Terms
    BY <2>1, FromRequest
  <2>3. h' \in [Threads -> Handler] /\ \A s \in Threads : Ready(h[s])'
    <3>1. CASE Goto(t, "login_reply")
      BY <2>1, <3>1, GoesToReply
    <3>2. CASE Goto(t, "verify_issue")
      <4>1. /\ "verify_issue" \in Points
            /\ "verify_issue" \notin WithAddress \cup WithToken
        BY DEF Points, WithAddress, WithToken
      <4> QED
        BY <2>2, <3>2, <4>1, HandlersTyped, HandlerGoes
    <3> QED
      BY <1>4, <3>1, <3>2 DEF VerifyDevice
  <2>4. devices' \in [Devices -> Users \cup {None}]
    BY <1>4, <2>2 DEF VerifyDevice, FlowTypeOK
  <2>5. TypeOK' /\ UNCHANGED storeVars
    BY <1>4, HandlersTyped, StoreStands DEF VerifyDevice
  <2> QED
    BY <1>4, <2>3, <2>4, <2>5
    DEF VerifyDevice, FlowTypeOK, accountVars, linkVars, browserVars, Link
<1> QED
  BY <1>1, <1>2, <1>3, <1>4 DEF VerifyStep

\* Token.
LEMMA TokenSteps ==
    ASSUME FlowTypeOK, NEW t \in Threads, TokenStep(t)
    PROVE  FlowTypeOK' /\ [StoreNext]_storeVars
<1>1. ASSUME NEW c \in Codes, NEW party \in Parties, NEW v \in Challenges,
             TokenStart(t, c, party, v)
      PROVE  FlowTypeOK' /\ [StoreNext]_storeVars
  <2> DEFINE hd == [Idle EXCEPT !.at = "token_read", !.code = c,
                                !.party = party, !.verifier = v]
  <2>1. hd \in Handler
    BY DEF Handler, Idle, Points
  <2>2. hd.at = "token_read" /\ hd.code = c
    BY DEF Idle
  <2>3. Ready(hd)
    BY <2>2 DEF Ready, WithBrowser, WithAccount, WithRequest, WithTerms,
                WithAddress, WithToken
  <2>4. h' = [h EXCEPT ![t] = hd]
    BY <1>1 DEF TokenStart
  <2> QED
    BY <1>1, <2>1, <2>3, <2>4, HandlersTyped, HandlerMoves, OnlyHandlers
    DEF TokenStart
<1>2. ASSUME TokenRead(t)
      PROVE  FlowTypeOK' /\ [StoreNext]_storeVars
  <2>1. h[t] \in Handler /\ h[t].code \in Codes
    BY <1>2, HandlersTyped DEF TokenRead, At, Ready
  <2>2. CASE Finish(t)
    BY <1>2, <2>2, HandlersTyped, HandlerEnds, OnlyHandlers DEF TokenRead
  <2>3. CASE /\ LiveCode(h[t].code)
             /\ h' = [h EXCEPT ![t].at = "token_consume",
                               ![t].terms = codes[h[t].code].terms]
    <3> DEFINE tm == codes[h[t].code].terms
               hd == [h[t] EXCEPT !.at = "token_consume", !.terms = tm]
    <3>1. tm \in Terms
      BY <2>1, <2>3 DEF LiveCode, FlowTypeOK, TypeOK, AuthCode
    <3>2. hd \in Handler
      <4>1. "token_consume" \in Points
        BY DEF Points
      <4> QED
        BY ONLY <4>1, <2>1, <3>1, HandlerReads
    <3>3. hd.at = "token_consume" /\ hd.terms = tm /\ hd.code = h[t].code
      BY <2>1 DEF Handler
    <3>4. Ready(hd)
      BY <2>1, <3>1, <3>3
      DEF Ready, WithBrowser, WithAccount, WithRequest, WithAddress, WithToken
    <3>5. h' = [h EXCEPT ![t] = hd]
      BY <2>3
    <3> QED
      BY <1>2, <3>2, <3>4, <3>5, HandlersTyped, HandlerMoves, OnlyHandlers
      DEF TokenRead
  <2> QED
    BY <1>2, <2>2, <2>3 DEF TokenRead
<1>3. ASSUME TokenConsume(t)
      PROVE  FlowTypeOK' /\ [StoreNext]_storeVars
  <2>1. h[t].code \in Codes /\ h[t].terms \in Terms
    BY <1>3, HandlersTyped DEF TokenConsume, At, Ready, WithTerms
  <2>2. [StoreNext]_storeVars
    BY <1>3, <2>1 DEF TokenConsume, StoreNext
  <2>3. TypeOK'
    BY <2>2, HandlersTyped, StoreTypingStep
  <2>4. h' \in [Threads -> Handler] /\ \A s \in Threads : Ready(h[s])'
    BY <1>3, HandlersTyped, HandlerEnds DEF TokenConsume
  <2> QED
    BY <1>3, <2>2, <2>3, <2>4
    DEF TokenConsume, FlowTypeOK, accountVars, linkVars, browserVars, Link
<1> QED
  BY <1>1, <1>2, <1>3 DEF TokenStep

\* The response and the ends that no statement precedes.
LEMMA EndSteps ==
    ASSUME FlowTypeOK, NEW t \in Threads,
           StatementFails(t) \/ Reply(t) \/ Abort(t)
    PROVE  FlowTypeOK' /\ [StoreNext]_storeVars
<1>1. CASE StatementFails(t)
  <2>1. h[t].at \in WithAccount
    BY <1>1 DEF StatementFails, WithAccount, Points
  <2> QED
    BY <1>1, <2>1, GoesToReply, OnlyHandlers DEF StatementFails
<1>2. CASE Reply(t)
  <2>1. /\ h[t].u \in Users /\ h[t].d \in Devices
    BY <1>2, HandlersTyped DEF Reply, At, Ready, WithAccount, Points
  <2>2. h' \in [Threads -> Handler] /\ \A s \in Threads : Ready(h[s])'
    BY <1>2, HandlersTyped, HandlerEnds DEF Reply
  <2>3. cookies' \in [Browsers -> [did : Devices \cup {None},
                                   sess : Users \cup {None}]]
    BY <1>2, <2>1 DEF Reply, FlowTypeOK
  <2>4. TypeOK' /\ UNCHANGED storeVars
    BY <1>2, HandlersTyped, StoreStands DEF Reply
  <2> QED
    BY <1>2, <2>2, <2>3, <2>4
    DEF Reply, FlowTypeOK, accountVars, linkVars, Link
<1>3. CASE Abort(t)
  BY <1>3, HandlersTyped, HandlerEnds, OnlyHandlers DEF Abort
<1> QED
  BY <1>1, <1>2, <1>3

\* The operators' edits.
LEMMA EditSteps ==
    ASSUME FlowTypeOK,
           \/ \E u \in Users, e \in Emails : ChangeEmail(u, e)
           \/ \E u \in Users : DeleteUser(u)
           \/ \E party \in Parties : Deregister(party)
    PROVE  FlowTypeOK' /\ [StoreNext]_storeVars
<1>1. Edit => edits' \in 0 .. MaxEdits
  BY FlowAssumption DEF Edit, FlowTypeOK
<1>2. ASSUME NEW u \in Users, NEW e \in Emails, ChangeEmail(u, e)
      PROVE  FlowTypeOK' /\ [StoreNext]_storeVars
  <2>1. StoreNext
    BY <1>2 DEF ChangeEmail, StoreNext
  <2>2. TypeOK'
    BY <2>1, HandlersTyped, StoreTypingStep
  <2>3. email' \in [Users -> Emails] /\ devices' \in [Devices -> Users \cup {None}]
    BY <1>2 DEF ChangeEmail, FlowTypeOK
  <2>4. former' \subseteq Tokens
    BY <1>2 DEF ChangeEmail, FlowTypeOK, TypeOK, AuthRequest, Binding
  <2> QED
    BY <1>1, <1>2, <2>1, <2>2, <2>3, <2>4
    DEF ChangeEmail, FlowTypeOK, browserVars, Link, Handler
<1>3. ASSUME NEW u \in Users, DeleteUser(u)
      PROVE  FlowTypeOK' /\ [StoreNext]_storeVars
  <2>1. TypeOK' /\ UNCHANGED storeVars
    BY <1>3, HandlersTyped, StoreStands DEF DeleteUser
  <2> QED
    BY <1>1, <1>3, <2>1
    DEF DeleteUser, FlowTypeOK, linkVars, browserVars, Link, Handler
<1>4. ASSUME NEW party \in Parties, Deregister(party)
      PROVE  FlowTypeOK' /\ [StoreNext]_storeVars
  <2>1. TypeOK' /\ UNCHANGED storeVars
    BY <1>4, HandlersTyped, StoreStands DEF Deregister
  <2> QED
    BY <1>1, <1>4, <2>1
    DEF Deregister, FlowTypeOK, linkVars, browserVars, Link, Handler
<1> QED
  BY <1>2, <1>3, <1>4

\* The service starts with empty tables.
LEMMA FlowInit == Init => FlowTypeOK /\ StoreInit
<1> SUFFICES ASSUME Init PROVE FlowTypeOK
  BY DEF Init
<1>1. TypeOK
  BY StoreTypingInit DEF Init
<1>2. Idle \in Handler /\ Ready(Idle)
  BY DEF Idle, Handler, Points, Ready, WithBrowser, WithAccount, WithRequest,
         WithTerms, WithAddress, WithToken
<1>3. h = [t \in Threads |-> Idle]
  BY DEF Init
<1>4. h \in [Threads -> Handler] /\ \A t \in Threads : Ready(h[t])
  BY <1>2, <1>3
<1>5. /\ email \in [Users -> Emails] /\ edits \in 0 .. MaxEdits
      /\ live \subseteq Users /\ registered \subseteq Parties
  BY FlowAssumption DEF Init
<1>6. /\ devices \in [Devices -> Users \cup {None}]
      /\ cookies \in [Browsers -> [did : Devices \cup {None},
                                   sess : Users \cup {None}]]
      /\ links \in [Tokens -> Link \cup {None}]
      /\ honoured \in [Tokens -> Nat]
  BY DEF Init
<1>7. /\ dids \subseteq Devices /\ mailed \subseteq Tokens
      /\ proved \subseteq Browsers \X Users /\ former \subseteq Tokens
  BY DEF Init
<1> QED
  BY <1>1, <1>4, <1>5, <1>6, <1>7 DEF FlowTypeOK

\* Every step of the service keeps the types and is a step of the store or
\* leaves the store alone.
LEMMA FlowStep ==
    FlowTypeOK /\ [Next]_vars => FlowTypeOK' /\ [StoreNext]_storeVars
<1> SUFFICES ASSUME FlowTypeOK, [Next]_vars
             PROVE  FlowTypeOK' /\ [StoreNext]_storeVars
  OBVIOUS
<1>1. ASSUME NEW t \in Threads, HandlerStep(t)
      PROVE  FlowTypeOK' /\ [StoreNext]_storeVars
  <2>1. CASE LoginStep(t)
    BY <2>1, LoginSteps, AdminSteps, BindSteps, MailSteps DEF LoginStep
  <2> QED
    BY <1>1, <2>1, AuthSteps, IssueSteps, VerifySteps, TokenSteps, EndSteps
    DEF HandlerStep
<1>2. CASE Background
  <2>1. StoreNext
    BY <1>2 DEF Background, StoreNext
  <2>2. TypeOK'
    BY <2>1, HandlersTyped, StoreTypingStep
  <2> QED
    BY <1>2, <2>1, <2>2
    DEF Background, FlowTypeOK, flowVars, accountVars, linkVars, browserVars,
        Link, Handler
<1>3. CASE UNCHANGED vars
  BY <1>3, HandlersTyped, OnlyHandlers DEF vars, flowVars
<1> QED
  BY <1>1, <1>2, <1>3, EditSteps DEF Next

\* Every table, cookie and handler of the service keeps its type, and no
\* handler runs a statement before it has read what the statement names.
THEOREM FlowTyping == Spec => []FlowTypeOK
<1>1. FlowTypeOK /\ [Next]_vars => FlowTypeOK'
  BY FlowStep
<1> QED
  BY <1>1, FlowInit, PTL DEF Spec

\* The handlers, however many run at once and wherever they fail, use the
\* two tables only as AuthStore says.
THEOREM FlowUsesStore == Spec => StoreSpec
BY FlowTyping, FlowInit, FlowStep, PTL DEF Spec, StoreSpec

\* Hence what the store promises, the service promises: one code for a
\* request, one redemption of a code.
THEOREM ServiceGrantsOnce == Spec => []OneGrantPerRequest
BY FlowUsesStore, GrantedOnce, PTL

\* And the service as a whole implements the one-time grant.
THEOREM ServiceImplementsGrant == Spec => GrantSpec
BY FlowUsesStore, StoreImplementsGrant, PTL

-----------------------------------------------------------------------------
(* Links, bindings, devices and codes.                                     *)

Pending(r) == requests[r] # None /\ requests[r].bind # None

\* A binding is made with its link, which was neither accepted yet nor
\* pending when the address changed.
BindingsAreLinks ==
    \A r \in Requests : Pending(r) =>
        LET bind == requests[r].bind IN
        /\ links[bind.token] # None
        /\ links[bind.token].user = bind.user
        /\ links[bind.token].device = bind.device
        /\ honoured[bind.token] = 0
        /\ bind.token \notin former

OneBindingPerLink ==
    \A r, q \in Requests :
        /\ Pending(r) /\ Pending(q)
        /\ requests[r].bind.token = requests[q].bind.token
        => r = q

LinksExist ==
    \A tok \in Tokens :
        tok \in mailed \cup former \/ honoured[tok] > 0 => links[tok] # None

\* What a handler knows of links and devices at each point.
Informed(t) ==
    /\ h[t].at \in {"login_mail", "login_unbind"} => links[h[t].tok] # None
    /\ h[t].at \in {"verify_find", "verify_consume"} => h[t].tok \in mailed
    /\ h[t].at = "verify_consume" =>
           links[h[t].tok].user = h[t].u /\ links[h[t].tok].device = h[t].d
    /\ h[t].at \in IssuePoints \cup {"verify_device"} => Verified(h[t].u, h[t].d)

BindTables ==
    /\ BindingsAreLinks /\ OneBindingPerLink /\ LinksExist
    /\ LinkHonouredOnce /\ FormerLinksStayDead /\ TrustIsEarned

BindInv == BindTables /\ \A t \in Threads : Informed(t)

\* A device cookie in a browser, or on its way to or from it.
Holds(b, d) == cookies[b].did = d \/ \E t \in Threads : h[t].b = b /\ h[t].d = d

CookiesAreOwn ==
    \A b \in Browsers, d \in Devices : Holds(b, d) =>
        /\ d \in dids
        /\ \A a \in Browsers : Holds(a, d) => a = b

LinksAreProved ==
    \A tok \in Tokens : links[tok] # None =>
        /\ links[tok].device \in dids
        /\ \A b \in Browsers :
               Holds(b, links[tok].device) => <<b, links[tok].user>> \in proved

\* Where the response will carry a session.
SignedIn ==
    {"login_trust", "login_issue", "admin_trust", "admin_create", "login_bind",
     "login_mail", "login_unbind", "login_reply", "verify_device", "verify_issue"}

HandlersAreProved ==
    \A t \in Threads : h[t].at \in SignedIn => <<h[t].b, h[t].u>> \in proved

OwnInv ==
    /\ CookiesAreOwn /\ LinksAreProved /\ HandlersAreProved
    /\ SessionNeedsPassword

\* A token call past its checks presented what it goes on with.
TokenInv ==
    /\ Console \notin registered
    /\ \A t \in Threads :
           /\ h[t].at \in {"token_read", "token_consume"} => h[t].party # Console
           /\ h[t].at = "token_consume" => Presents(h[t], h[t].terms)

FlowInv == FlowTypeOK /\ BindInv /\ OwnInv /\ TokenInv

-----------------------------------------------------------------------------
(* Steps of one handler.                                                   *)

\* A handler that goes to a point keeps what it has read.
LEMMA Moved ==
    ASSUME h \in [Threads -> Handler], NEW t \in Threads, NEW p, Goto(t, p)
    PROVE  /\ h'[t].at = p
           /\ h'[t].b = h[t].b /\ h'[t].r = h[t].r /\ h'[t].u = h[t].u
           /\ h'[t].d = h[t].d /\ h'[t].newdid = h[t].newdid
           /\ h'[t].tok = h[t].tok /\ h'[t].terms = h[t].terms
           /\ h'[t].code = h[t].code /\ h'[t].party = h[t].party
           /\ h'[t].verifier = h[t].verifier
           /\ \A s \in Threads \ {t} : h'[s] = h[s]
<1>1. h[t] \in Handler
  OBVIOUS
<1>2. h'[t] = [h[t] EXCEPT !.at = p]
  BY DEF Goto
<1>3. \A s \in Threads \ {t} : h'[s] = h[s]
  BY DEF Goto
<1> QED
  BY <1>1, <1>2, <1>3 DEF Handler

LEMMA Ended ==
    ASSUME h \in [Threads -> Handler], NEW t \in Threads, Finish(t)
    PROVE  /\ h'[t] = Idle /\ h'[t].at = "idle"
           /\ h'[t].b = None /\ h'[t].d = None
           /\ \A s \in Threads \ {t} : h'[s] = h[s]
BY DEF Finish, Idle

\* Every step of a handler changes that handler alone.
LEMMA OneMoves ==
    ASSUME FlowTypeOK, NEW t \in Threads, HandlerStep(t)
    PROVE  \A s \in Threads \ {t} : h'[s] = h[s]
<1>1. h \in [Threads -> Handler]
  BY HandlersTyped
<1>2. (\E p : Goto(t, p)) \/ Finish(t) => \A s \in Threads \ {t} : h'[s] = h[s]
  BY <1>1 DEF Goto, Finish
<1>3. CASE AuthStep(t)
  BY <1>1, <1>2, <1>3 DEF AuthStep, AuthStart, AuthCreate, AuthTrust
<1>4. CASE LoginStep(t)
  <2>1. CASE \/ \E b \in Browsers, r \in Requests : LoginStart(t, b, r)
             \/ \E u \in Users : LoginUser(t, u)
    BY <1>1, <2>1 DEF LoginStart, LoginUser
  <2>2. CASE \/ \E b \in Browsers, u \in Users : AdminLoginStart(t, b, u)
             \/ \E r \in Requests : AdminCreate(t, r)
             \/ \E tok \in Tokens : LoginBind(t, tok)
    BY <1>1, <2>2 DEF AdminLoginStart, AdminCreate, LoginBind
  <2>3. CASE LoginTrust(t) \/ AdminTrust(t) \/ LoginBindFails(t)
                 \/ LoginMail(t) \/ LoginMailFails(t) \/ LoginUnbind(t)
    BY <1>2, <2>3
    DEF LoginTrust, AdminTrust, LoginBindFails, LoginMail, LoginMailFails,
        LoginUnbind
  <2> QED
    BY <1>4, <2>1, <2>2, <2>3 DEF LoginStep
<1>5. CASE VerifyStep(t)
  BY <1>1, <1>2, <1>5
  DEF VerifyStep, VerifyStart, VerifyFind, VerifyConsume, VerifyDevice
<1>6. CASE TokenStep(t)
  BY <1>1, <1>2, <1>6 DEF TokenStep, TokenStart, TokenRead, TokenConsume
<1>7. CASE (\E c \in Codes : Issue(t, c)) \/ IssueFails(t)
  BY <1>2, <1>7 DEF Issue, IssueFails, AfterIssue
<1>8. CASE StatementFails(t) \/ Reply(t) \/ Abort(t)
  BY <1>2, <1>8 DEF StatementFails, Reply, Abort
<1> QED
  BY <1>3, <1>4, <1>5, <1>6, <1>7, <1>8 DEF HandlerStep

\* What the handlers hold that do more than move.
LEMMA AuthStarts ==
    ASSUME h \in [Threads -> Handler], NEW t \in Threads, NEW b \in Browsers,
           NEW terms \in Terms, AuthStart(t, b, terms)
    PROVE  /\ h'[t].at = "auth_create" /\ h'[t].b = b
           /\ h'[t].d = cookies[b].did
<1> DEFINE hd == [Idle EXCEPT !.at = "auth_create", !.b = b, !.terms = terms,
                              !.u = cookies[b].sess, !.d = cookies[b].did,
                              !.late = cookies[b].sess \notin live \cup {None}]
<1>1. h'[t] = hd
  BY DEF AuthStart
<1>2. hd.at = "auth_create" /\ hd.b = b /\ hd.d = cookies[b].did
  BY DEF Idle
<1> QED
  BY <1>1, <1>2

LEMMA AuthCreates ==
    ASSUME h \in [Threads -> Handler], NEW t \in Threads, NEW r \in Requests,
           AuthCreate(t, r), ~Finish(t)
    PROVE  h'[t].at = "auth_trust" /\ h'[t].b = h[t].b /\ h'[t].d = h[t].d
<1>1. h[t] \in Handler /\ h'[t] = [h[t] EXCEPT !.at = "auth_trust", !.r = r]
  BY DEF AuthCreate
<1> QED
  BY <1>1 DEF Handler

LEMMA LoginStarts ==
    ASSUME h \in [Threads -> Handler], NEW t \in Threads, NEW b \in Browsers,
           NEW r \in Requests, LoginStart(t, b, r)
    PROVE  /\ h'[t].at = "login_user" /\ h'[t].b = b
           /\ h'[t].d = cookies[b].did
<1> DEFINE hd == [Idle EXCEPT !.at = "login_user", !.b = b, !.r = r,
                              !.terms = requests[r].terms, !.d = cookies[b].did]
<1>1. h'[t] = hd
  BY DEF LoginStart
<1>2. hd.at = "login_user" /\ hd.b = b /\ hd.d = cookies[b].did
  BY DEF Idle
<1> QED
  BY <1>1, <1>2

LEMMA LoginKnowsUser ==
    ASSUME h \in [Threads -> Handler], NEW t \in Threads, NEW u \in Users,
           LoginUser(t, u)
    PROVE  /\ h'[t].at \in {"login_trust", "login_bind"}
           /\ h'[t].b = h[t].b /\ h'[t].u = u
           /\ \/ h'[t].d = h[t].d /\ dids' = dids
              \/ h'[t].d \in Devices \ dids /\ dids' = dids \cup {h'[t].d}
<1>1. h[t] \in Handler
  OBVIOUS
<1>2. CASE h[t].d # None
  <2>1. /\ h'[t] = [h[t] EXCEPT !.at = "login_trust", !.u = u, !.addr = email[u]]
        /\ dids' = dids
    BY <1>2 DEF LoginUser
  <2> QED
    BY <1>1, <2>1 DEF Handler
<1>3. CASE h[t].d = None
  <2>1. PICK d \in Devices \ dids :
            /\ h' = [h EXCEPT ![t].at = "login_bind", ![t].u = u,
                              ![t].addr = email[u], ![t].d = d,
                              ![t].newdid = TRUE]
            /\ dids' = dids \cup {d}
    BY <1>3 DEF LoginUser
  <2>2. h'[t] = [h[t] EXCEPT !.at = "login_bind", !.u = u,
                             !.addr = email[u], !.d = d, !.newdid = TRUE]
    BY <2>1
  <2>3. /\ h'[t].at = "login_bind" /\ h'[t].u = u /\ h'[t].d = d
        /\ h'[t].b = h[t].b
    BY <1>1, <2>2 DEF Handler
  <2> QED
    BY <2>1, <2>3
<1> QED
  BY <1>2, <1>3

LEMMA AdminStarts ==
    ASSUME h \in [Threads -> Handler], NEW t \in Threads, NEW b \in Browsers,
           NEW u \in Users, AdminLoginStart(t, b, u)
    PROVE  /\ h'[t].at = "admin_trust" /\ h'[t].b = b /\ h'[t].u = u
           /\ dids' = dids \cup {h'[t].d}
           /\ IF cookies[b].did # None THEN h'[t].d = cookies[b].did
              ELSE h'[t].d \in Devices \ dids
<1>1. PICK d : /\ d \in IF cookies[b].did # None THEN {cookies[b].did}
                        ELSE Devices \ dids
               /\ dids' = dids \cup {d}
               /\ h' = [h EXCEPT ![t] =
                      [Idle EXCEPT !.at = "admin_trust", !.b = b, !.u = u,
                                   !.addr = email[u], !.d = d,
                                   !.newdid = (cookies[b].did = None)]]
  BY DEF AdminLoginStart
<1> DEFINE hd == [Idle EXCEPT !.at = "admin_trust", !.b = b, !.u = u,
                              !.addr = email[u], !.d = d,
                              !.newdid = (cookies[b].did = None)]
<1>2. h'[t] = hd
  BY <1>1
<1>3. hd.at = "admin_trust" /\ hd.b = b /\ hd.u = u /\ hd.d = d
  BY DEF Idle
<1> HIDE DEF hd
<1> QED
  BY <1>1, <1>2, <1>3

LEMMA AdminCreates ==
    ASSUME h \in [Threads -> Handler], NEW t \in Threads, NEW r \in Requests,
           AdminCreate(t, r)
    PROVE  /\ h'[t].at = "login_bind" /\ h'[t].b = h[t].b /\ h'[t].u = h[t].u
           /\ h'[t].d = h[t].d
<1>1. /\ h[t] \in Handler
      /\ h'[t] = [h[t] EXCEPT !.at = "login_bind", !.r = r, !.terms = ConsoleTerms]
  BY DEF AdminCreate
<1> QED
  BY <1>1 DEF Handler

LEMMA LoginBinds ==
    ASSUME h \in [Threads -> Handler], NEW t \in Threads, NEW tok \in Tokens,
           LoginBind(t, tok)
    PROVE  /\ h'[t].at = "login_mail" /\ h'[t].b = h[t].b /\ h'[t].u = h[t].u
           /\ h'[t].d = h[t].d /\ h'[t].tok = tok
<1>1. /\ h[t] \in Handler
      /\ h'[t] = [h[t] EXCEPT !.at = "login_mail", !.tok = tok]
  BY DEF LoginBind
<1> QED
  BY <1>1 DEF Handler

LEMMA VerifyStarts ==
    ASSUME h \in [Threads -> Handler], NEW t \in Threads, NEW b \in Browsers,
           NEW tok \in Tokens, VerifyStart(t, b, tok)
    PROVE  /\ h'[t].at = "verify_find" /\ h'[t].b = b /\ h'[t].tok = tok
           /\ h'[t].d = cookies[b].did
<1>1. PICK u \in live :
          h' = [h EXCEPT ![t] =
              [Idle EXCEPT !.at = "verify_find", !.b = b, !.u = u,
                           !.d = cookies[b].did, !.tok = tok]]
  BY DEF VerifyStart
<1> DEFINE hd == [Idle EXCEPT !.at = "verify_find", !.b = b, !.u = u,
                              !.d = cookies[b].did, !.tok = tok]
<1>2. h'[t] = hd
  BY <1>1
<1>3. hd.at = "verify_find" /\ hd.b = b /\ hd.tok = tok /\ hd.d = cookies[b].did
  BY DEF Idle
<1> QED
  BY <1>2, <1>3

LEMMA VerifyFinds ==
    ASSUME h \in [Threads -> Handler], NEW t \in Threads, VerifyFind(t), ~Finish(t)
    PROVE  /\ \E r \in Requests : VerifyMatch(t, r)
           /\ h'[t].at = "verify_consume" /\ h'[t].b = h[t].b /\ h'[t].u = h[t].u
           /\ h'[t].d = h[t].d /\ h'[t].tok = h[t].tok
<1>1. PICK r \in Requests :
          /\ VerifyMatch(t, r)
          /\ h' = [h EXCEPT ![t].at = "verify_consume", ![t].r = r,
                            ![t].terms = requests[r].terms]
  BY DEF VerifyFind
<1>2. /\ h[t] \in Handler
      /\ h'[t] = [h[t] EXCEPT !.at = "verify_consume", !.r = r,
                              !.terms = requests[r].terms]
  BY <1>1
<1>3. /\ h'[t].at = "verify_consume" /\ h'[t].b = h[t].b /\ h'[t].u = h[t].u
      /\ h'[t].d = h[t].d /\ h'[t].tok = h[t].tok
  BY <1>2 DEF Handler
<1> QED
  BY <1>1, <1>3

LEMMA TokenStarts ==
    ASSUME h \in [Threads -> Handler], NEW t \in Threads, NEW c \in Codes,
           NEW party \in Parties, NEW v \in Challenges, TokenStart(t, c, party, v)
    PROVE  /\ h'[t].at = "token_read" /\ h'[t].party = party
           /\ h'[t].b = None /\ h'[t].d = None
<1> DEFINE hd == [Idle EXCEPT !.at = "token_read", !.code = c, !.party = party,
                              !.verifier = v]
<1>1. h'[t] = hd
  BY DEF TokenStart
<1>2. hd.at = "token_read" /\ hd.party = party /\ hd.b = None /\ hd.d = None
  BY DEF Idle
<1> QED
  BY <1>1, <1>2

LEMMA TokenReads ==
    ASSUME h \in [Threads -> Handler], NEW t \in Threads, TokenRead(t), ~Finish(t)
    PROVE  /\ h'[t].at = "token_consume" /\ h'[t].terms = codes[h[t].code].terms
           /\ h'[t].party = h[t].party /\ h'[t].verifier = h[t].verifier
           /\ h'[t].b = h[t].b /\ h'[t].d = h[t].d
           /\ Presents(h[t], codes[h[t].code].terms)
<1>1. /\ h[t] \in Handler
      /\ h'[t] = [h[t] EXCEPT !.at = "token_consume",
                              !.terms = codes[h[t].code].terms]
      /\ Presents(h[t], codes[h[t].code].terms)
  BY DEF TokenRead
<1> QED
  BY <1>1 DEF Handler

-----------------------------------------------------------------------------
(* Bindings and links.                                                     *)

\* What has happened to a link stays.
Grow ==
    \A tok \in Tokens : links[tok] # None =>
        /\ links'[tok] = links[tok]
        /\ tok \in mailed => tok \in mailed'
        /\ honoured'[tok] >= honoured[tok]

\* Bindings only disappear.
NoNewBind ==
    \A r \in Requests :
        Pending(r)' => Pending(r) /\ requests'[r].bind = requests[r].bind

LEMMA VerifiedStays ==
    ASSUME FlowTypeOK, FlowTypeOK', LinksExist, Grow, NEW u, NEW d, Verified(u, d)
    PROVE  Verified(u, d)'
<1>1. PICK tok \in mailed : /\ honoured[tok] > 0
                            /\ links[tok].user = u
                            /\ links[tok].device = d
  BY DEF Verified
<1>2. tok \in Tokens /\ links[tok] # None
  BY <1>1 DEF FlowTypeOK, LinksExist
<1>3. tok \in mailed' /\ honoured'[tok] > 0 /\ links'[tok] = links[tok]
  BY <1>1, <1>2 DEF Grow, FlowTypeOK
<1> QED
  BY <1>1, <1>3 DEF Verified

LEMMA TrustStays ==
    ASSUME FlowTypeOK, FlowTypeOK', BindTables, Grow,
           \A d \in Devices : devices'[d] \in {None, devices[d]}
    PROVE  TrustIsEarned'
<1> SUFFICES ASSUME NEW d \in Devices, devices'[d] # None
             PROVE  \E tok \in mailed' : /\ honoured'[tok] > 0
                                         /\ links'[tok].user = devices'[d]
                                         /\ links'[tok].device = d
  BY DEF TrustIsEarned, Verified
<1>1. PICK u : u = devices[d] /\ u = devices'[d]
  OBVIOUS
<1>2. Verified(u, d)
  BY <1>1 DEF BindTables, TrustIsEarned
<1>3. Verified(u, d)'
  BY <1>2, VerifiedStays DEF BindTables
<1> QED
  BY <1>1, <1>3 DEF Verified

LEMMA InformedStays ==
    ASSUME FlowTypeOK, FlowTypeOK', BindInv, Grow, NEW s \in Threads,
           h'[s] = h[s]
    PROVE  Informed(s)'
<1>1. h[s].at \in WithToken => h[s].tok \in Tokens
  BY HandlersTyped DEF Ready
<1>2. {"login_mail", "login_unbind", "verify_find", "verify_consume"} \subseteq WithToken
  BY DEF WithToken
<1>3. Informed(s) /\ LinksExist
  BY DEF BindInv, BindTables
<1>4. ASSUME h[s].at \in IssuePoints \cup {"verify_device"}
      PROVE  Verified(h[s].u, h[s].d)'
  <2>1. PICK u, d : u = h[s].u /\ d = h[s].d
    OBVIOUS
  <2>2. Verified(u, d)'
    BY <1>3, <1>4, <2>1, VerifiedStays DEF Informed
  <2> QED
    BY <2>1, <2>2 DEF Verified
<1> QED
  BY <1>1, <1>2, <1>3, <1>4 DEF Informed, Grow, LinksExist

LEMMA QuietTables ==
    ASSUME FlowTypeOK, BindTables, NoNewBind,
           UNCHANGED <<links, mailed, honoured, former, devices>>
    PROVE  BindTables' /\ Grow
<1>1. BindingsAreLinks' /\ OneBindingPerLink'
  BY DEF BindTables, BindingsAreLinks, OneBindingPerLink, NoNewBind
<1>2. LinksExist' /\ LinkHonouredOnce' /\ FormerLinksStayDead' /\ TrustIsEarned'
  BY DEF BindTables, LinksExist, LinkHonouredOnce, FormerLinksStayDead,
         TrustIsEarned, Verified
<1>3. Grow
  BY DEF Grow, FlowTypeOK
<1> QED
  BY <1>1, <1>2, <1>3 DEF BindTables

\* A step of one handler that makes no binding and touches no link.
LEMMA QuietStep ==
    ASSUME FlowTypeOK, FlowTypeOK', BindInv, NoNewBind,
           UNCHANGED <<links, mailed, honoured, former, devices>>,
           NEW t \in Threads, \A s \in Threads \ {t} : h'[s] = h[s],
           Informed(t)'
    PROVE  BindInv'
<1>1. BindTables' /\ Grow
  BY QuietTables DEF BindInv
<1>2. \A s \in Threads : Informed(s)'
  BY <1>1, InformedStays
<1> QED
  BY <1>1, <1>2 DEF BindInv

\* The operations of the store that make no binding.
LEMMA StoreMakesNoBinding ==
    ASSUME TypeOK,
           \/ UNCHANGED storeVars
           \/ \E r \in Requests, terms \in Terms : CreateAuthRequest(r, terms)
           \/ \E r \in Requests, c \in Codes, terms \in Terms, u \in Users :
                  IssueAuthCode(r, c, terms, u)
           \/ \E r \in Requests, tok \in Tokens, d \in Devices :
                  ConsumeAuthVerification(r, tok, d)
           \/ \E c \in Codes, terms \in Terms : ConsumeAuthCode(c, terms)
           \/ \E u \in Users : ForgetUser(u)
           \/ StartCleanup \/ CleanupExpiredAuthState \/ CleanupFails \/ Tick
    PROVE  NoNewBind
<1> USE DEF NoNewBind, Pending
<1>1. CASE UNCHANGED requests
  BY <1>1
<1>2. CASE \E r \in Requests, terms \in Terms : CreateAuthRequest(r, terms)
  BY <1>2 DEF CreateAuthRequest, TypeOK
<1>3. CASE \E r \in Requests, c \in Codes, terms \in Terms, u \in Users :
               IssueAuthCode(r, c, terms, u)
  BY <1>3 DEF IssueAuthCode, TypeOK
<1>4. CASE \E r \in Requests, tok \in Tokens, d \in Devices :
               ConsumeAuthVerification(r, tok, d)
  BY <1>4 DEF ConsumeAuthVerification, Bound, LiveRequest, TypeOK, AuthRequest
<1>5. CASE \E u \in Users : ForgetUser(u)
  BY <1>5 DEF ForgetUser, TypeOK
<1>6. CASE CleanupExpiredAuthState
  BY <1>6 DEF CleanupExpiredAuthState, TypeOK
<1> QED
  BY <1>1, <1>2, <1>3, <1>4, <1>5, <1>6
  DEF storeVars, ConsumeAuthCode, StartCleanup, CleanupFails, Tick

\* At the other points a handler claims nothing.
LEMMA Uninformed ==
    ASSUME NEW t \in Threads,
           h'[t].at \notin {"login_mail", "login_unbind", "verify_find",
                            "verify_consume", "verify_device", "auth_issue",
                            "login_issue", "verify_issue"}
    PROVE  Informed(t)'
BY DEF Informed, IssuePoints

\* A device that is trusted now was verified, and stays so.
LEMMA TrustedIsVerified ==
    ASSUME FlowTypeOK, FlowTypeOK', BindInv, Grow, NEW t \in Threads,
           Trusted(h[t].u, h[t].d), h[t].u \in Users, h[t].d \in Devices,
           h'[t].u = h[t].u, h'[t].d = h[t].d, h'[t].at \in {"auth_issue", "login_issue"}
    PROVE  Informed(t)'
<1>1. PICK u, d : u = h[t].u /\ d = h[t].d
  OBVIOUS
<1>2. Verified(u, d)
  <2>1. u # None
    BY <1>1, FlowAssumption
  <2> QED
    BY <1>1, <2>1 DEF Trusted, BindInv, BindTables, TrustIsEarned
<1>3. Verified(u, d)'
  BY <1>2, VerifiedStays DEF BindInv, BindTables
<1> QED
  BY <1>1, <1>3 DEF Informed, Verified

LEMMA AuthKeepsBindings ==
    ASSUME FlowTypeOK, FlowTypeOK', BindInv, NEW t \in Threads, AuthStep(t)
    PROVE  BindInv'
<1>1. h \in [Threads -> Handler] /\ TypeOK
  BY HandlersTyped
<1>2. \A s \in Threads \ {t} : h'[s] = h[s]
  BY OneMoves DEF HandlerStep
<1>3. UNCHANGED <<links, mailed, honoured, former, devices>>
  BY DEF AuthStep, AuthStart, AuthCreate, AuthTrust, linkVars
<1>4. NoNewBind
  <2>1. UNCHANGED storeVars \/ \E r \in Requests : CreateAuthRequest(r, h[t].terms)
    BY DEF AuthStep, AuthStart, AuthCreate, AuthTrust
  <2> QED
    BY <2>1, <1>1 DEF NoNewBind, Pending, storeVars, CreateAuthRequest, TypeOK
<1>5. Informed(t)'
  <2>1. CASE \E b \in Browsers, terms \in Terms : AuthStart(t, b, terms)
    <3>1. h'[t].at = "auth_create"
      BY <1>1, <2>1, AuthStarts
    <3> QED
      BY <3>1, Uninformed
  <2>2. CASE \E r \in Requests : AuthCreate(t, r)
    <3>1. h'[t].at \in {"idle", "auth_trust"}
      BY <1>1, <2>2, Ended, AuthCreates
    <3> QED
      BY <3>1, Uninformed
  <2>3. CASE AuthTrust(t)
    <3>1. CASE Finish(t)
      BY <1>1, <3>1, Ended, Uninformed
    <3>2. CASE Trusted(h[t].u, h[t].d) /\ Goto(t, "auth_issue")
      <4>1. h[t].u \in Users /\ h[t].d \in Devices
        BY <2>3, HandlersTyped DEF AuthTrust, At, Ready, WithAccount, Points
      <4>2. Grow
        BY <1>3, <1>4, QuietTables DEF BindInv
      <4> QED
        BY <1>1, <3>2, <4>1, <4>2, Moved, TrustedIsVerified
    <3> QED
      BY <2>3, <3>1, <3>2 DEF AuthTrust
  <2> QED
    BY <2>1, <2>2, <2>3 DEF AuthStep
<1> QED
  BY <1>2, <1>3, <1>4, <1>5, QuietStep

\* issueCodeAndRedirect, and the statements that only fail or answer.
LEMMA EndsKeepBindings ==
    ASSUME FlowTypeOK, FlowTypeOK', BindInv, NEW t \in Threads,
           \/ (\E c \in Codes : Issue(t, c)) \/ IssueFails(t)
           \/ StatementFails(t) \/ Reply(t) \/ Abort(t)
    PROVE  BindInv'
<1>1. h \in [Threads -> Handler] /\ TypeOK
  BY HandlersTyped
<1>2. \A s \in Threads \ {t} : h'[s] = h[s]
  BY OneMoves DEF HandlerStep
<1>3. UNCHANGED <<links, mailed, honoured, former, devices>>
  BY DEF Issue, IssueFails, StatementFails, Reply, Abort, linkVars
<1>4. NoNewBind
  <2>1. \/ UNCHANGED storeVars
        \/ \E c \in Codes : IssueAuthCode(h[t].r, c, h[t].terms, h[t].u)
    BY DEF Issue, IssueFails, StatementFails, Reply, Abort
  <2> QED
    BY <2>1, <1>1 DEF NoNewBind, Pending, storeVars, IssueAuthCode, TypeOK
<1>5. Finish(t) \/ Goto(t, "login_reply")
  BY DEF Issue, IssueFails, AfterIssue, StatementFails, Reply, Abort
<1>6. Informed(t)'
  BY <1>1, <1>5, Ended, Moved, Uninformed
<1> QED
  BY <1>2, <1>3, <1>4, <1>6, QuietStep

\* Login and AdminLogin up to the binding.
LEMMA LoginKeepsBindings ==
    ASSUME FlowTypeOK, FlowTypeOK', BindInv, NEW t \in Threads,
           \/ \E b \in Browsers, r \in Requests : LoginStart(t, b, r)
           \/ \E u \in Users : LoginUser(t, u)
           \/ LoginTrust(t)
           \/ \E b \in Browsers, u \in Users : AdminLoginStart(t, b, u)
           \/ AdminTrust(t)
           \/ \E r \in Requests : AdminCreate(t, r)
           \/ LoginBindFails(t)
           \/ LoginUnbind(t)
    PROVE  BindInv'
<1>1. h \in [Threads -> Handler] /\ TypeOK
  BY HandlersTyped
<1>2. \A s \in Threads \ {t} : h'[s] = h[s]
  BY OneMoves DEF HandlerStep, LoginStep
<1>3. UNCHANGED <<links, mailed, honoured, former, devices>>
  BY DEF LoginStart, LoginUser, LoginTrust, AdminLoginStart, AdminTrust,
         AdminCreate, LoginBindFails, LoginUnbind, linkVars
<1>4. NoNewBind
  <2>1. \/ UNCHANGED storeVars
        \/ \E r \in Requests : CreateAuthRequest(r, ConsoleTerms)
        \/ ConsumeAuthVerification(h[t].r, h[t].tok, h[t].d)
    BY DEF LoginStart, LoginUser, LoginTrust, AdminLoginStart, AdminTrust,
           AdminCreate, LoginBindFails, LoginUnbind
  <2>2. CASE ConsumeAuthVerification(h[t].r, h[t].tok, h[t].d)
    BY <2>2, <1>1 DEF NoNewBind, Pending, ConsumeAuthVerification, Bound,
                      LiveRequest, TypeOK, AuthRequest
  <2> QED
    BY <2>1, <2>2, <1>1 DEF NoNewBind, Pending, storeVars, CreateAuthRequest, TypeOK
<1>5. CASE LoginTrust(t) /\ Trusted(h[t].u, h[t].d)
  <2>1. h[t].u \in Users /\ h[t].d \in Devices
    BY <1>5, HandlersTyped DEF LoginTrust, At, Ready, WithAccount, Points
  <2>2. Goto(t, "login_issue")
    BY <1>5 DEF LoginTrust
  <2>3. Grow
    BY <1>3, <1>4, QuietTables DEF BindInv
  <2>4. Informed(t)'
    BY <1>1, <1>5, <2>1, <2>2, <2>3, Moved, TrustedIsVerified
  <2> QED
    BY <1>2, <1>3, <1>4, <2>4, QuietStep
<1>6. CASE ~(LoginTrust(t) /\ Trusted(h[t].u, h[t].d))
  <2>1. h'[t].at \in {"login_user", "login_trust", "login_bind", "admin_trust",
                      "admin_create", "login_reply"}
    <3>1. CASE \/ \E b \in Browsers, r \in Requests : LoginStart(t, b, r)
               \/ \E b \in Browsers, u \in Users : AdminLoginStart(t, b, u)
      BY <1>1, <3>1, LoginStarts, AdminStarts
    <3>2. CASE \E u \in Users : LoginUser(t, u)
      BY <1>1, <3>2, LoginKnowsUser
    <3>3. CASE \E r \in Requests : AdminCreate(t, r)
      BY <1>1, <3>3, AdminCreates
    <3>4. CASE LoginTrust(t) \/ AdminTrust(t) \/ LoginBindFails(t) \/ LoginUnbind(t)
      <4>1. \E p \in {"login_bind", "login_reply", "admin_create"} : Goto(t, p)
        BY <1>6, <3>4 DEF LoginTrust, AdminTrust, LoginBindFails, LoginUnbind
      <4> QED
        BY <1>1, <4>1, Moved
    <3> QED
      BY <3>1, <3>2, <3>3, <3>4
  <2>2. Informed(t)'
    BY <2>1, Uninformed
  <2> QED
    BY <1>2, <1>3, <1>4, <2>2, QuietStep
<1> QED
  BY <1>5, <1>6

\* The new binding belongs to the new link and to no older one.
LEMMA LoginBindKeepsBindings ==
    ASSUME FlowTypeOK, FlowTypeOK', BindInv, NEW t \in Threads,
           NEW tok \in Tokens, LoginBind(t, tok)
    PROVE  BindInv'
<1> DEFINE link == [addr |-> h[t].addr, exp |-> now + EmailTokenTTL,
                    user |-> h[t].u, device |-> h[t].d]
           bind == [token |-> tok, device |-> h[t].d, user |-> h[t].u]
<1>1. h \in [Threads -> Handler] /\ TypeOK
  BY HandlersTyped
<1>2. \A s \in Threads \ {t} : h'[s] = h[s]
  BY OneMoves DEF HandlerStep, LoginStep
<1>3. /\ links[tok] = None
      /\ links' = [links EXCEPT ![tok] = link]
      /\ UNCHANGED <<mailed, honoured, former, devices>>
  BY DEF LoginBind, NewLink
<1>4. /\ h[t].addr \in Emails /\ h[t].u \in Users /\ h[t].d \in Devices
      /\ h[t].r \in Requests
  BY HandlersTyped DEF LoginBind, At, Ready, WithAddress, WithAccount, WithRequest, Points
<1>5. link \in Link /\ link # None
  <2>1. link \in Link
    BY <1>1, <1>4, FlowAssumption DEF Link, TypeOK
  <2> QED
    BY <2>1, LinkAssumption
<1>6. links'[tok] = link /\ \A k \in Tokens : k # tok => links'[k] = links[k]
  BY <1>3 DEF FlowTypeOK
<1>7. /\ requests[h[t].r] # None
      /\ requests' = [requests EXCEPT ![h[t].r].bind = bind]
  BY DEF LoginBind, BindAuthVerification, LiveRequest
<1>8. /\ requests'[h[t].r].bind = bind
      /\ \A r \in Requests : r # h[t].r => requests'[r] = requests[r]
  BY <1>1, <1>4, <1>7 DEF TypeOK, AuthRequest
<1>9. Grow
  BY <1>3, <1>6 DEF Grow, FlowTypeOK
<1>10. honoured[tok] = 0 /\ tok \notin former
  BY <1>3 DEF BindInv, BindTables, LinksExist, FlowTypeOK
<1> HIDE DEF link, bind
<1>11. /\ bind.token = tok /\ bind.device = h[t].d /\ bind.user = h[t].u
       /\ link.user = h[t].u /\ link.device = h[t].d
  BY DEF link, bind
<1>12. \A r \in Requests : Pending(r) =>
           requests[r].bind.token \in Tokens /\ requests[r].bind.token # tok
  <2>1. \A r \in Requests : Pending(r) => requests[r].bind.token \in Tokens
    BY <1>1 DEF Pending, TypeOK, AuthRequest, Binding
  <2> QED
    BY <1>3, <2>1 DEF BindInv, BindTables, BindingsAreLinks
<1>13. BindingsAreLinks'
  <2>1. ASSUME NEW r \in Requests, Pending(r)', r # h[t].r
        PROVE  /\ Pending(r) /\ requests'[r].bind = requests[r].bind
               /\ links'[requests[r].bind.token] = links[requests[r].bind.token]
    BY <1>6, <1>8, <1>12, <2>1 DEF Pending
  <2>2. BindingsAreLinks
    BY DEF BindInv, BindTables
  <2> QED
    BY <1>3, <1>5, <1>6, <1>8, <1>10, <1>11, <2>1, <2>2 DEF BindingsAreLinks
<1>14. OneBindingPerLink'
  <2>1. \A r \in Requests : r # h[t].r =>
            (Pending(r)' => Pending(r) /\ requests'[r].bind.token = requests[r].bind.token)
    BY <1>8 DEF Pending
  <2> QED
    BY <1>8, <1>11, <1>12, <2>1 DEF BindInv, BindTables, OneBindingPerLink
<1>15. LinksExist' /\ LinkHonouredOnce' /\ FormerLinksStayDead'
  BY <1>3, <1>5, <1>6 DEF BindInv, BindTables, LinksExist, LinkHonouredOnce,
                          FormerLinksStayDead
<1>16. TrustIsEarned'
  BY <1>3, <1>9, TrustStays DEF BindInv
<1>17. Informed(t)'
  BY <1>1, <1>5, <1>6, LoginBinds DEF Informed, IssuePoints
<1>18. \A s \in Threads : Informed(s)'
  BY <1>2, <1>9, <1>17, InformedStays
<1> QED
  BY <1>13, <1>14, <1>15, <1>16, <1>18 DEF BindInv, BindTables

LEMMA MailKeepsBindings ==
    ASSUME FlowTypeOK, FlowTypeOK', BindInv, NEW t \in Threads,
           LoginMail(t) \/ LoginMailFails(t)
    PROVE  BindInv'
<1>1. h \in [Threads -> Handler] /\ TypeOK
  BY HandlersTyped
<1>2. \A s \in Threads \ {t} : h'[s] = h[s]
  BY OneMoves DEF HandlerStep, LoginStep
<1>3. /\ UNCHANGED <<requests, links, honoured, former, devices>>
      /\ mailed' \in {mailed, mailed \cup {h[t].tok}}
      /\ h[t].at = "login_mail"
  BY DEF LoginMail, LoginMailFails, storeVars, At
<1>4. h[t].tok \in Tokens /\ links[h[t].tok] # None
  BY <1>3, HandlersTyped DEF Ready, WithToken, BindInv, Informed
<1>5. Grow
  BY <1>3 DEF Grow, FlowTypeOK
<1>6. BindingsAreLinks' /\ OneBindingPerLink' /\ LinkHonouredOnce' /\ FormerLinksStayDead'
  BY <1>3 DEF BindInv, BindTables, BindingsAreLinks, OneBindingPerLink,
              LinkHonouredOnce, FormerLinksStayDead, Pending
<1>7. LinksExist'
  BY <1>3, <1>4 DEF BindInv, BindTables, LinksExist
<1>8. TrustIsEarned'
  BY <1>3 DEF BindInv, BindTables, TrustIsEarned, Verified
<1>9. Informed(t)'
  <2>1. CASE Goto(t, "login_reply")
    BY <1>1, <2>1, Moved, Uninformed
  <2>2. CASE Goto(t, "login_unbind")
    BY <1>1, <1>3, <1>4, <2>2, Moved DEF Informed, IssuePoints
  <2> QED
    BY <2>1, <2>2 DEF LoginMail, LoginMailFails
<1>10. \A s \in Threads : Informed(s)'
  BY <1>2, <1>5, <1>9, InformedStays
<1> QED
  BY <1>6, <1>7, <1>8, <1>10 DEF BindInv, BindTables

\* Accepting a link clears its binding: it cannot be accepted again.
LEMMA ConsumeKeepsBindings ==
    ASSUME FlowTypeOK, FlowTypeOK', BindInv, NEW t \in Threads, VerifyConsume(t),
           Goto(t, "verify_device"), Bound(h[t].r, h[t].tok, h[t].d),
           ConsumeAuthVerification(h[t].r, h[t].tok, h[t].d),
           honoured' = [honoured EXCEPT ![h[t].tok] = @ + 1]
    PROVE  BindInv'
<1>1. h \in [Threads -> Handler] /\ TypeOK
  BY HandlersTyped
<1>2. \A s \in Threads \ {t} : h'[s] = h[s]
  BY OneMoves DEF HandlerStep, VerifyStep
<1>3. UNCHANGED <<links, mailed, former, devices>> /\ h[t].at = "verify_consume"
  BY DEF VerifyConsume, At
<1>4. h[t].tok \in Tokens /\ h[t].r \in Requests
  BY <1>3, HandlersTyped DEF Ready, WithToken, WithRequest, WithAccount, Points
<1>5. Pending(h[t].r) /\ requests[h[t].r].bind.token = h[t].tok
  BY DEF Bound, LiveRequest, Pending
<1>6. NoNewBind /\ \A r \in Requests : Pending(r)' => r # h[t].r
  BY <1>1, <1>4 DEF NoNewBind, Pending, ConsumeAuthVerification, Bound, LiveRequest,
                    TypeOK, AuthRequest
<1>7. /\ links[h[t].tok] # None /\ honoured[h[t].tok] = 0
      /\ h[t].tok \notin former
  BY <1>4, <1>5 DEF BindInv, BindTables, BindingsAreLinks
<1>8. /\ honoured'[h[t].tok] = 1
      /\ \A k \in Tokens : k # h[t].tok => honoured'[k] = honoured[k]
  BY <1>4, <1>7 DEF FlowTypeOK
<1>9. Grow
  BY <1>3, <1>7, <1>8 DEF Grow, FlowTypeOK
<1>10. \A r \in Requests : Pending(r)' =>
           /\ requests[r].bind.token \in Tokens
           /\ requests[r].bind.token # h[t].tok
  <2>1. \A r \in Requests : Pending(r) => requests[r].bind.token \in Tokens
    BY <1>1 DEF Pending, TypeOK, AuthRequest, Binding
  <2> QED
    BY <1>4, <1>5, <1>6, <2>1 DEF NoNewBind, BindInv, BindTables, OneBindingPerLink
<1>11. BindingsAreLinks' /\ OneBindingPerLink'
  BY <1>3, <1>6, <1>8, <1>10
  DEF NoNewBind, BindInv, BindTables, BindingsAreLinks, OneBindingPerLink
<1>12. LinksExist' /\ LinkHonouredOnce' /\ FormerLinksStayDead'
  BY <1>3, <1>7, <1>8
  DEF BindInv, BindTables, LinksExist, LinkHonouredOnce, FormerLinksStayDead, FlowTypeOK
<1>13. TrustIsEarned'
  BY <1>3, <1>9, TrustStays DEF BindInv
<1>14. Informed(t)'
  <2>1. /\ h'[t].at = "verify_device" /\ h'[t].u = h[t].u /\ h'[t].d = h[t].d
    BY <1>1, Moved
  <2>2. /\ h[t].tok \in mailed /\ links[h[t].tok].user = h[t].u
        /\ links[h[t].tok].device = h[t].d
    BY <1>3 DEF BindInv, Informed
  <2> QED
    BY <1>3, <1>8, <2>1, <2>2 DEF Informed, IssuePoints, Verified
<1>15. \A s \in Threads : Informed(s)'
  BY <1>2, <1>9, <1>14, InformedStays
<1> QED
  BY <1>11, <1>12, <1>13, <1>15 DEF BindInv, BindTables

LEMMA VerifyKeepsBindings ==
    ASSUME FlowTypeOK, FlowTypeOK', BindInv, NEW t \in Threads, VerifyStep(t)
    PROVE  BindInv'
<1>1. h \in [Threads -> Handler] /\ TypeOK
  BY HandlersTyped
<1>2. \A s \in Threads \ {t} : h'[s] = h[s]
  BY OneMoves DEF HandlerStep
<1>3. ASSUME UNCHANGED <<storeVars, devices, linkVars>>, Informed(t)'
      PROVE  BindInv'
  <2>1. NoNewBind
    BY <1>3 DEF NoNewBind, Pending, storeVars
  <2> QED
    BY <1>2, <1>3, <2>1, QuietStep DEF linkVars
<1>4. ASSUME NEW b \in Browsers, NEW tok \in Tokens, VerifyStart(t, b, tok)
      PROVE  BindInv'
  <2>0. tok \in mailed /\ UNCHANGED <<storeVars, devices, linkVars>>
    BY <1>4 DEF VerifyStart
  <2>1. h'[t].at = "verify_find" /\ h'[t].tok = tok
    BY <1>1, <1>4, VerifyStarts
  <2>2. Informed(t)'
    BY <2>0, <2>1 DEF Informed, IssuePoints, linkVars
  <2> QED
    BY <1>3, <2>0, <2>2
<1>5. CASE VerifyFind(t)
  <2>1. UNCHANGED <<storeVars, devices, linkVars>>
    BY <1>5 DEF VerifyFind
  <2>2. CASE Finish(t)
    BY <1>1, <1>3, <2>1, <2>2, Ended, Uninformed
  <2>3. CASE ~Finish(t)
    <3>1. PICK r \in Requests : VerifyMatch(t, r)
      BY <1>1, <1>5, <2>3, VerifyFinds
    <3>2. /\ h'[t].at = "verify_consume" /\ h'[t].u = h[t].u
          /\ h'[t].d = h[t].d /\ h'[t].tok = h[t].tok
      BY <1>1, <1>5, <2>3, VerifyFinds
    <3>3. h[t].tok \in mailed
      BY <1>5 DEF VerifyFind, At, BindInv, Informed
    <3>4. /\ Pending(r) /\ requests[r].bind.token = h[t].tok
          /\ requests[r].bind.device = h[t].d /\ requests[r].bind.user = h[t].u
      BY <3>1 DEF VerifyMatch, Bound, LiveRequest, Pending
    <3>5. links[h[t].tok].user = h[t].u /\ links[h[t].tok].device = h[t].d
      BY <3>4 DEF BindInv, BindTables, BindingsAreLinks
    <3>6. Informed(t)'
      BY <2>1, <3>2, <3>3, <3>5 DEF Informed, IssuePoints, linkVars
    <3> QED
      BY <1>3, <2>1, <3>6
  <2> QED
    BY <2>2, <2>3
<1>6. CASE VerifyConsume(t)
  <2>1. CASE /\ ConsumeAuthVerification(h[t].r, h[t].tok, h[t].d)
             /\ honoured' = [honoured EXCEPT ![h[t].tok] = @ + 1]
             /\ Goto(t, "verify_device")
    BY <1>6, <2>1, ConsumeKeepsBindings DEF ConsumeAuthVerification
  <2>2. CASE Finish(t) /\ UNCHANGED <<storeVars, honoured>>
    BY <1>1, <1>3, <1>6, <2>2, Ended, Uninformed DEF VerifyConsume, linkVars
  <2> QED
    BY <1>6, <2>1, <2>2 DEF VerifyConsume
<1>7. CASE VerifyDevice(t)
  <2>1. /\ UNCHANGED <<storeVars, linkVars>>
        /\ devices' = [devices EXCEPT ![h[t].d] = h[t].u]
        /\ h[t].at = "verify_device"
    BY <1>7 DEF VerifyDevice, At
  <2>2. Verified(h[t].u, h[t].d) /\ h[t].d \in Devices
    BY <2>1, HandlersTyped
    DEF BindInv, Informed, Ready, WithAccount, Points
  <2>3. PICK p \in {"login_reply", "verify_issue"} : Goto(t, p)
    BY <1>7 DEF VerifyDevice
  <2>4. Grow
    BY <2>1 DEF Grow, linkVars, FlowTypeOK
  <2>5. TrustIsEarned'
    BY <2>1, <2>2
    DEF BindInv, BindTables, TrustIsEarned, Verified, linkVars, FlowTypeOK
  <2>6. BindTables'
    BY <2>1, <2>5
    DEF BindInv, BindTables, BindingsAreLinks, OneBindingPerLink, LinksExist,
        LinkHonouredOnce, FormerLinksStayDead, Pending, storeVars, linkVars
  <2>7. Informed(t)'
    <3>1. h'[t].at = p /\ h'[t].u = h[t].u /\ h'[t].d = h[t].d
      BY <1>1, <2>3, Moved
    <3> QED
      BY <2>1, <2>2, <3>1 DEF Informed, IssuePoints, Verified, linkVars
  <2>8. \A s \in Threads : Informed(s)'
    BY <1>2, <2>4, <2>7, InformedStays
  <2> QED
    BY <2>6, <2>8 DEF BindInv
<1> QED
  BY <1>4, <1>5, <1>6, <1>7 DEF VerifyStep

LEMMA TokenKeepsBindings ==
    ASSUME FlowTypeOK, FlowTypeOK', BindInv, NEW t \in Threads, TokenStep(t)
    PROVE  BindInv'
<1>1. h \in [Threads -> Handler] /\ TypeOK
  BY HandlersTyped
<1>2. \A s \in Threads \ {t} : h'[s] = h[s]
  BY OneMoves DEF HandlerStep
<1>3. UNCHANGED <<links, mailed, honoured, former, devices, requests>>
  BY DEF TokenStep, TokenStart, TokenRead, TokenConsume, linkVars, storeVars,
         ConsumeAuthCode
<1>4. NoNewBind
  BY <1>3 DEF NoNewBind, Pending
<1>5. h'[t].at \in {"idle", "token_read", "token_consume"}
  <2>1. CASE \E c \in Codes, party \in Parties, v \in Challenges :
                 TokenStart(t, c, party, v)
    BY <1>1, <2>1, TokenStarts
  <2>2. CASE TokenRead(t)
    BY <1>1, <2>2, TokenReads, Ended
  <2>3. CASE TokenConsume(t)
    BY <1>1, <2>3, Ended DEF TokenConsume
  <2> QED
    BY <2>1, <2>2, <2>3 DEF TokenStep
<1>6. Informed(t)'
  BY <1>5, Uninformed
<1> QED
  BY <1>2, <1>3, <1>4, <1>6, QuietStep

\* A step of no handler that makes no binding and touches no link.
LEMMA QuietWorld ==
    ASSUME FlowTypeOK, FlowTypeOK', BindInv, NoNewBind,
           UNCHANGED <<links, mailed, honoured, former, devices, h>>
    PROVE  BindInv'
<1>1. BindTables' /\ Grow
  BY QuietTables DEF BindInv
<1>2. \A s \in Threads : Informed(s)'
  BY <1>1, InformedStays
<1> QED
  BY <1>1, <1>2 DEF BindInv

\* A change of address drops the bindings whose links become former.
LEMMA ChangeEmailKeepsBindings ==
    ASSUME FlowTypeOK, FlowTypeOK', BindInv, NEW u \in Users, NEW e \in Emails,
           ChangeEmail(u, e)
    PROVE  BindInv'
<1> DEFINE Dropped(r) == Pending(r) /\ requests[r].bind.user = u
<1>1. TypeOK
  BY HandlersTyped
<1>2. /\ UNCHANGED <<links, mailed, honoured, h>>
      /\ \A d \in Devices : devices'[d] \in {None, devices[d]}
  BY DEF ChangeEmail
<1>3. \A r \in Requests : Pending(r)' =>
          Pending(r) /\ requests'[r] = requests[r] /\ ~Dropped(r)
  BY DEF ChangeEmail, ForgetUser, Pending
<1>4. former' = former \cup
          {requests[r].bind.token : r \in {q \in Requests : Dropped(q)}}
  BY DEF ChangeEmail, Pending
<1>5. Grow
  BY <1>2 DEF Grow, FlowTypeOK
<1> HIDE DEF Dropped
<1>6. \A r \in Requests : Pending(r)' => requests[r].bind.token \notin former'
  <2> SUFFICES ASSUME NEW r \in Requests, Pending(r)',
                      requests[r].bind.token \in former'
               PROVE  FALSE
    OBVIOUS
  <2>1. Pending(r) /\ ~Dropped(r)
    BY <1>3
  <2>2. requests[r].bind.token \notin former
    BY <2>1 DEF BindInv, BindTables, BindingsAreLinks
  <2>3. PICK q \in Requests : Dropped(q) /\ requests[q].bind.token = requests[r].bind.token
    BY <1>4, <2>2
  <2>4. Pending(q)
    BY <2>3 DEF Dropped
  <2>5. q = r
    BY <2>1, <2>3, <2>4 DEF BindInv, BindTables, OneBindingPerLink
  <2> QED
    BY <2>1, <2>3, <2>5
<1>7. BindingsAreLinks' /\ OneBindingPerLink'
  BY <1>2, <1>3, <1>6
  DEF BindInv, BindTables, BindingsAreLinks, OneBindingPerLink
<1>8. \A tok \in former' : tok \in former \/ (links[tok] # None /\ honoured[tok] = 0)
  BY <1>4 DEF Dropped, BindInv, BindTables, BindingsAreLinks
<1>9. LinksExist' /\ LinkHonouredOnce' /\ FormerLinksStayDead'
  BY <1>2, <1>8
  DEF BindInv, BindTables, LinksExist, LinkHonouredOnce, FormerLinksStayDead
<1>10. TrustIsEarned'
  BY <1>2, <1>5, TrustStays DEF BindInv
<1>11. \A s \in Threads : Informed(s)'
  BY <1>2, <1>5, InformedStays
<1> QED
  BY <1>7, <1>9, <1>10, <1>11 DEF BindInv, BindTables

\* Trust, links and bindings: every step.
LEMMA BindingsStep ==
    ASSUME FlowTypeOK, FlowTypeOK', BindInv, [Next]_vars
    PROVE  BindInv'
<1>1. ASSUME NEW t \in Threads, HandlerStep(t)
      PROVE  BindInv'
  <2>1. CASE LoginStep(t)
    BY <2>1, LoginKeepsBindings, LoginBindKeepsBindings, MailKeepsBindings
    DEF LoginStep
  <2> QED
    BY <1>1, <2>1, AuthKeepsBindings, VerifyKeepsBindings, TokenKeepsBindings,
       EndsKeepBindings
    DEF HandlerStep
<1>2. CASE \E u \in Users, e \in Emails : ChangeEmail(u, e)
  BY <1>2, ChangeEmailKeepsBindings
<1>3. CASE \/ \E u \in Users : DeleteUser(u)
           \/ \E party \in Parties : Deregister(party)
           \/ UNCHANGED vars
  <2>1. UNCHANGED <<links, mailed, honoured, former, devices, h, requests>>
    BY <1>3 DEF DeleteUser, Deregister, vars, flowVars, linkVars, storeVars
  <2>2. NoNewBind
    BY <2>1 DEF NoNewBind, Pending
  <2> QED
    BY <2>1, <2>2, QuietWorld
<1>4. CASE Background
  <2>1. UNCHANGED <<links, mailed, honoured, former, devices, h>>
    BY <1>4 DEF Background, flowVars, linkVars
  <2>2. NoNewBind
    BY <1>4, HandlersTyped, StoreMakesNoBinding DEF Background
  <2> QED
    BY <2>1, <2>2, QuietWorld
<1> QED
  BY <1>1, <1>2, <1>3, <1>4 DEF Next

LEMMA BindingsInit == Init => BindInv
<1> SUFFICES ASSUME Init PROVE BindInv
  OBVIOUS
<1>1. \A r \in Requests : ~Pending(r)
  BY DEF Init, StoreInit, Pending
<1>2. BindTables
  BY <1>1 DEF Init, BindTables, BindingsAreLinks, OneBindingPerLink, LinksExist,
              LinkHonouredOnce, FormerLinksStayDead, TrustIsEarned
<1>3. \A t \in Threads : Informed(t)
  BY DEF Init, Idle, Informed, IssuePoints
<1> QED
  BY <1>2, <1>3 DEF BindInv

-----------------------------------------------------------------------------
(* Cookies and passwords.                                                  *)

\* No cookie changes hands.
LEMMA HandsStay ==
    ASSUME FlowTypeOK, CookiesAreOwn, LinksAreProved, links' = links,
           dids \subseteq dids', proved \subseteq proved',
           \A b \in Browsers, d \in Devices : Holds(b, d)' => Holds(b, d)
    PROVE  CookiesAreOwn' /\ LinksAreProved'
<1>1. CookiesAreOwn'
  BY DEF CookiesAreOwn
<1>2. LinksAreProved'
  <2>1. \A tok \in Tokens : links[tok] # None => links[tok].device \in Devices
    BY DEF FlowTypeOK, Link
  <2>2. ASSUME NEW tok \in Tokens, links[tok] # None, NEW b \in Browsers,
               Holds(b, links[tok].device)'
        PROVE  <<b, links[tok].user>> \in proved
    <3>1. PICK d \in Devices : d = links[tok].device
      BY <2>1, <2>2
    <3>2. Holds(b, d)'
      BY <2>2, <3>1 DEF Holds
    <3>3. Holds(b, links[tok].device)
      BY <3>1, <3>2
    <3> QED
      BY <2>2, <3>3 DEF LinksAreProved
  <2> QED
    BY <2>2 DEF LinksAreProved
<1> QED
  BY <1>1, <1>2

\* A fresh cookie goes to one browser.
LEMMA FreshCookie ==
    ASSUME FlowTypeOK, CookiesAreOwn, LinksAreProved, links' = links,
           NEW e \in Devices \ dids, NEW a \in Browsers,
           dids' = dids \cup {e}, proved \subseteq proved',
           \A b \in Browsers, d \in Devices :
               Holds(b, d)' => Holds(b, d) \/ (b = a /\ d = e)
    PROVE  CookiesAreOwn' /\ LinksAreProved'
<1>1. \A b \in Browsers : ~Holds(b, e)
  BY DEF CookiesAreOwn
<1>2. CookiesAreOwn'
  BY <1>1 DEF CookiesAreOwn
<1>3. LinksAreProved'
  <2>1. \A tok \in Tokens : links[tok] # None =>
            links[tok].device \in Devices /\ links[tok].device \in dids
    BY DEF FlowTypeOK, Link, LinksAreProved
  <2>2. ASSUME NEW tok \in Tokens, links[tok] # None, NEW b \in Browsers,
               Holds(b, links[tok].device)'
        PROVE  <<b, links[tok].user>> \in proved
    <3>1. PICK d \in Devices : d = links[tok].device /\ d \in dids
      BY <2>1, <2>2
    <3>2. Holds(b, d)'
      BY <2>2, <3>1 DEF Holds
    <3>3. Holds(b, links[tok].device)
      BY <3>1, <3>2
    <3> QED
      BY <2>2, <3>3 DEF LinksAreProved
  <2> QED
    BY <2>1, <2>2 DEF LinksAreProved
<1> QED
  BY <1>2, <1>3

\* A handler goes on with the cookie it has, or none, or its browser's.
LEMMA HoldsLess ==
    ASSUME NEW t \in Threads, \A s \in Threads \ {t} : h'[s] = h[s],
           cookies' = cookies,
           \/ h'[t].b = h[t].b /\ h'[t].d = h[t].d
           \/ h'[t].d = None
           \/ h'[t].d = cookies[h'[t].b].did
    PROVE  \A b \in Browsers, d \in Devices : Holds(b, d)' => Holds(b, d)
<1> SUFFICES ASSUME NEW b \in Browsers, NEW d \in Devices, Holds(b, d)'
             PROVE  Holds(b, d)
  OBVIOUS
<1>1. cookies[b].did = d \/ \E s \in Threads : h'[s].b = b /\ h'[s].d = d
  BY DEF Holds
<1>2. ASSUME NEW s \in Threads, h'[s].b = b, h'[s].d = d
      PROVE  Holds(b, d)
  BY <1>2, FlowAssumption DEF Holds
<1> QED
  BY <1>1, <1>2 DEF Holds

LEMMA HandlersStayProved ==
    ASSUME HandlersAreProved, NEW t \in Threads,
           \A s \in Threads \ {t} : h'[s] = h[s], proved \subseteq proved',
           h'[t].at \in SignedIn => <<h'[t].b, h'[t].u>> \in proved'
    PROVE  HandlersAreProved'
BY DEF HandlersAreProved

\* A step of a handler that takes no new cookie and sets none.
LEMMA SameHands ==
    ASSUME FlowTypeOK, OwnInv, NEW t \in Threads,
           \A s \in Threads \ {t} : h'[s] = h[s],
           UNCHANGED <<cookies, links, dids, proved>>,
           \/ h'[t].b = h[t].b /\ h'[t].d = h[t].d
           \/ h'[t].d = None
           \/ h'[t].d = cookies[h'[t].b].did,
           h'[t].at \in SignedIn => <<h'[t].b, h'[t].u>> \in proved
    PROVE  OwnInv'
<1>1. \A b \in Browsers, d \in Devices : Holds(b, d)' => Holds(b, d)
  BY HoldsLess
<1>2. CookiesAreOwn' /\ LinksAreProved'
  BY <1>1, HandsStay DEF OwnInv
<1>3. HandlersAreProved'
  BY HandlersStayProved DEF OwnInv
<1>4. SessionNeedsPassword'
  BY DEF OwnInv, SessionNeedsPassword
<1> QED
  BY <1>2, <1>3, <1>4 DEF OwnInv

\* A handler that has signed in goes on to a point of the same browser.
LEMMA SignedInGoesOn ==
    ASSUME FlowTypeOK, OwnInv, NEW t \in Threads, h[t].at \in SignedIn,
           NEW p, Goto(t, p), UNCHANGED <<cookies, links, dids, proved>>
    PROVE  OwnInv'
<1>1. /\ \A s \in Threads \ {t} : h'[s] = h[s]
      /\ h'[t].b = h[t].b /\ h'[t].d = h[t].d /\ h'[t].u = h[t].u
  BY HandlersTyped, Moved
<1>2. <<h[t].b, h[t].u>> \in proved
  BY DEF OwnInv, HandlersAreProved
<1> QED
  BY <1>1, <1>2, SameHands

LEMMA FinishKeepsOwn ==
    ASSUME FlowTypeOK, OwnInv, NEW t \in Threads, Finish(t),
           UNCHANGED <<cookies, links, dids, proved>>
    PROVE  OwnInv'
<1>1. /\ \A s \in Threads \ {t} : h'[s] = h[s]
      /\ h'[t].d = None /\ h'[t].at \notin SignedIn
  BY HandlersTyped, Ended DEF SignedIn
<1> QED
  BY <1>1, SameHands

LEMMA AuthKeepsOwn ==
    ASSUME FlowTypeOK, OwnInv, NEW t \in Threads, AuthStep(t)
    PROVE  OwnInv'
<1>1. h \in [Threads -> Handler]
  BY HandlersTyped
<1>2. \A s \in Threads \ {t} : h'[s] = h[s]
  BY OneMoves DEF HandlerStep
<1>3. UNCHANGED <<cookies, links, dids, proved>>
  BY DEF AuthStep, AuthStart, AuthCreate, AuthTrust, linkVars, browserVars
<1>4. CASE \E b \in Browsers, terms \in Terms : AuthStart(t, b, terms)
  <2>1. h'[t].at \notin SignedIn /\ h'[t].d = cookies[h'[t].b].did
    BY <1>1, <1>4, AuthStarts DEF SignedIn
  <2> QED
    BY <1>2, <1>3, <2>1, SameHands
<1>5. CASE Finish(t)
  BY <1>3, <1>5, FinishKeepsOwn
<1>6. CASE (\E r \in Requests : AuthCreate(t, r)) /\ ~Finish(t)
  <2>1. h'[t].at \notin SignedIn /\ h'[t].b = h[t].b /\ h'[t].d = h[t].d
    BY <1>1, <1>6, AuthCreates DEF SignedIn
  <2> QED
    BY <1>2, <1>3, <2>1, SameHands
<1>7. CASE Goto(t, "auth_issue")
  <2>1. h'[t].at \notin SignedIn /\ h'[t].b = h[t].b /\ h'[t].d = h[t].d
    BY <1>1, <1>7, Moved DEF SignedIn
  <2> QED
    BY <1>2, <1>3, <2>1, SameHands
<1> QED
  BY <1>4, <1>5, <1>6, <1>7 DEF AuthStep, AuthTrust

\* issueCodeAndRedirect, failures, and steps that only move a signed-in login.
LEMMA MovesKeepOwn ==
    ASSUME FlowTypeOK, OwnInv, NEW t \in Threads,
           \/ (\E c \in Codes : Issue(t, c)) \/ IssueFails(t)
           \/ StatementFails(t) \/ Abort(t)
           \/ LoginTrust(t) \/ AdminTrust(t) \/ LoginBindFails(t)
           \/ LoginMail(t) \/ LoginMailFails(t) \/ LoginUnbind(t)
           \/ VerifyDevice(t)
    PROVE  OwnInv'
<1>1. UNCHANGED <<cookies, links, dids, proved>>
  BY DEF Issue, IssueFails, StatementFails, Abort, LoginTrust, AdminTrust,
         LoginBindFails, LoginMail, LoginMailFails, LoginUnbind, VerifyDevice,
         linkVars, browserVars
<1>2. Finish(t) \/ (h[t].at \in SignedIn /\ \E p : Goto(t, p))
  BY DEF Issue, IssueFails, AfterIssue, IssuePoints, StatementFails, Abort,
         LoginTrust, AdminTrust, LoginBindFails, LoginMail, LoginMailFails,
         LoginUnbind, VerifyDevice, At, SignedIn
<1> QED
  BY <1>1, <1>2, FinishKeepsOwn, SignedInGoesOn

\* Login and AdminLogin: the password, and a fresh cookie for a new browser.
LEMMA PasswordsKeepOwn ==
    ASSUME FlowTypeOK, OwnInv, NEW t \in Threads,
           NEW b \in Browsers, NEW u \in Users,
           \A s \in Threads \ {t} : h'[s] = h[s],
           UNCHANGED <<cookies, links>>, proved' = proved \cup {<<b, u>>},
           h'[t].b = b, h'[t].u = u,
           \/ /\ \/ h'[t].b = h[t].b /\ h'[t].d = h[t].d
                 \/ h'[t].d = cookies[b].did
              /\ dids \subseteq dids'
           \/ h'[t].d \in Devices \ dids /\ dids' = dids \cup {h'[t].d}
    PROVE  OwnInv'
<1>1. CookiesAreOwn' /\ LinksAreProved'
  <2>1. CASE \A a \in Browsers, d \in Devices : Holds(a, d)' => Holds(a, d)
    BY <2>1, HandsStay DEF OwnInv
  <2>2. CASE h'[t].d \in Devices \ dids /\ dids' = dids \cup {h'[t].d}
    <3>1. PICK e \in Devices \ dids : e = h'[t].d /\ dids' = dids \cup {e}
      BY <2>2
    <3>2. \A a \in Browsers, d \in Devices :
              Holds(a, d)' => Holds(a, d) \/ (a = b /\ d = e)
      BY <3>1 DEF Holds
    <3> QED
      BY <3>1, <3>2, FreshCookie DEF OwnInv
  <2> QED
    BY <2>1, <2>2, HoldsLess
<1>2. HandlersAreProved'
  BY HandlersStayProved DEF OwnInv
<1>3. SessionNeedsPassword'
  BY DEF OwnInv, SessionNeedsPassword
<1> QED
  BY <1>1, <1>2, <1>3 DEF OwnInv

LEMMA LoginKeepsOwn ==
    ASSUME FlowTypeOK, OwnInv, NEW t \in Threads,
           \/ \E b \in Browsers, r \in Requests : LoginStart(t, b, r)
           \/ \E u \in Users : LoginUser(t, u)
           \/ \E b \in Browsers, u \in Users : AdminLoginStart(t, b, u)
           \/ \E r \in Requests : AdminCreate(t, r)
    PROVE  OwnInv'
<1>1. h \in [Threads -> Handler]
  BY HandlersTyped
<1>2. \A s \in Threads \ {t} : h'[s] = h[s]
  BY OneMoves DEF HandlerStep, LoginStep
<1>3. UNCHANGED <<cookies, links>>
  BY DEF LoginStart, LoginUser, AdminLoginStart, AdminCreate, linkVars, browserVars
<1>4. CASE \E b \in Browsers, r \in Requests : LoginStart(t, b, r)
  <2>1. h'[t].at \notin SignedIn /\ h'[t].d = cookies[h'[t].b].did
    BY <1>1, <1>4, LoginStarts DEF SignedIn
  <2>2. UNCHANGED <<dids, proved>>
    BY <1>4 DEF LoginStart, browserVars
  <2> QED
    BY <1>2, <1>3, <2>1, <2>2, SameHands
<1>5. ASSUME NEW u \in Users, LoginUser(t, u)
      PROVE  OwnInv'
  <2>1. PICK b \in Browsers : b = h[t].b
    BY <1>5, HandlersTyped DEF LoginUser, At, Ready, WithBrowser
  <2>2. proved' = proved \cup {<<b, u>>}
    BY <1>5, <2>1 DEF LoginUser
  <2>3. /\ h'[t].b = b /\ h'[t].u = u
        /\ \/ h'[t].b = h[t].b /\ h'[t].d = h[t].d /\ dids \subseteq dids'
           \/ h'[t].d \in Devices \ dids /\ dids' = dids \cup {h'[t].d}
    BY <1>1, <1>5, <2>1, LoginKnowsUser
  <2> QED
    BY <1>2, <1>3, <2>2, <2>3, PasswordsKeepOwn
<1>6. ASSUME NEW b \in Browsers, NEW u \in Users, AdminLoginStart(t, b, u)
      PROVE  OwnInv'
  <2>1. proved' = proved \cup {<<b, u>>}
    BY <1>6 DEF AdminLoginStart
  <2>2. /\ h'[t].b = b /\ h'[t].u = u
        /\ dids' = dids \cup {h'[t].d}
        /\ h'[t].d = cookies[b].did \/ h'[t].d \in Devices \ dids
    BY <1>1, <1>6, AdminStarts
  <2> QED
    BY <1>2, <1>3, <2>1, <2>2, PasswordsKeepOwn
<1>7. CASE \E r \in Requests : AdminCreate(t, r)
  <2>1. h'[t].b = h[t].b /\ h'[t].d = h[t].d /\ h'[t].u = h[t].u
    BY <1>1, <1>7, AdminCreates
  <2>2. UNCHANGED <<dids, proved>> /\ h[t].at \in SignedIn
    BY <1>7 DEF AdminCreate, browserVars, At, SignedIn
  <2>3. <<h[t].b, h[t].u>> \in proved
    BY <2>2 DEF OwnInv, HandlersAreProved
  <2> QED
    BY <1>2, <1>3, <2>1, <2>2, <2>3, SameHands
<1> QED
  BY <1>4, <1>5, <1>6, <1>7

\* The new link names the device its login holds.
LEMMA LoginBindKeepsOwn ==
    ASSUME FlowTypeOK, OwnInv, NEW t \in Threads, NEW tok \in Tokens,
           LoginBind(t, tok)
    PROVE  OwnInv'
<1>1. h \in [Threads -> Handler]
  BY HandlersTyped
<1>2. \A s \in Threads \ {t} : h'[s] = h[s]
  BY OneMoves DEF HandlerStep, LoginStep
<1>3. UNCHANGED <<cookies, dids, proved>>
  BY DEF LoginBind, browserVars
<1>4. PICK a, e, u : a = h[t].b /\ e = h[t].d /\ u = h[t].u
  OBVIOUS
<1>5. h[t].at = "login_bind" /\ a \in Browsers /\ e \in Devices
  BY <1>4, HandlersTyped
  DEF LoginBind, At, Ready, WithBrowser, WithAccount, Points
<1>6. <<a, u>> \in proved
  BY <1>4, <1>5 DEF OwnInv, HandlersAreProved, SignedIn
<1>7. e \in dids /\ \A b \in Browsers : Holds(b, e) => b = a
  BY <1>4, <1>5 DEF OwnInv, CookiesAreOwn, Holds
<1>8. h'[t].b = h[t].b /\ h'[t].d = h[t].d /\ h'[t].u = h[t].u
  BY <1>1, LoginBinds
<1>9. \A b \in Browsers, d \in Devices : Holds(b, d)' => Holds(b, d)
  BY <1>2, <1>3, <1>8, HoldsLess
<1>10. CookiesAreOwn'
  BY <1>3, <1>9 DEF OwnInv, CookiesAreOwn
<1>11. LinksAreProved'
  <2>1. links'[tok].device = e /\ links'[tok].user = u
    BY <1>4 DEF LoginBind, NewLink, FlowTypeOK
  <2>2. \A k \in Tokens : k # tok => links'[k] = links[k]
    BY DEF LoginBind, NewLink, FlowTypeOK
  <2>3. ASSUME NEW k \in Tokens, links'[k] # None
        PROVE  /\ links'[k].device \in dids
               /\ \A b \in Browsers :
                      Holds(b, links[k].device)' => <<b, links'[k].user>> \in proved
    <3>1. CASE k = tok
      <4>1. ASSUME NEW b \in Browsers, Holds(b, links[k].device)'
            PROVE  b = a
        <5>1. Holds(b, e)'
          BY <2>1, <3>1, <4>1 DEF Holds
        <5> QED
          BY <1>5, <1>7, <1>9, <5>1
      <4> QED
        BY <1>6, <1>7, <2>1, <3>1, <4>1
    <3>2. CASE k # tok
      <4>1. PICK d : d = links[k].device /\ d = links'[k].device
        BY <2>2, <3>2
      <4>2. links[k] # None /\ d \in Devices
        BY <2>2, <2>3, <3>2, <4>1 DEF FlowTypeOK, Link
      <4>3. ASSUME NEW b \in Browsers, Holds(b, links[k].device)'
            PROVE  Holds(b, links[k].device)
        <5>1. Holds(b, d)'
          BY <4>1, <4>3 DEF Holds
        <5> QED
          BY <1>9, <4>1, <4>2, <5>1
      <4> QED
        BY <2>2, <3>2, <4>2, <4>3 DEF OwnInv, LinksAreProved
    <3> QED
      BY <3>1, <3>2
  <2> QED
    BY <1>3, <2>3 DEF LinksAreProved
<1>12. HandlersAreProved'
  BY <1>2, <1>3, <1>4, <1>6, <1>8, HandlersStayProved DEF OwnInv
<1>13. SessionNeedsPassword'
  BY <1>3 DEF OwnInv, SessionNeedsPassword
<1> QED
  BY <1>10, <1>11, <1>12, <1>13 DEF OwnInv

\* The response puts the handler's own cookie and session into its browser.
LEMMA ReplyKeepsOwn ==
    ASSUME FlowTypeOK, OwnInv, NEW t \in Threads, Reply(t)
    PROVE  OwnInv'
<1>1. h \in [Threads -> Handler]
  BY HandlersTyped
<1>2. h'[t].d = None /\ h'[t].at = "idle" /\ \A s \in Threads \ {t} : h'[s] = h[s]
  BY <1>1, Ended DEF Reply
<1>3. UNCHANGED <<links, dids, proved>>
  BY DEF Reply, linkVars
<1>4. <<h[t].b, h[t].u>> \in proved /\ h[t].b \in Browsers
  BY HandlersTyped DEF Reply, At, OwnInv, HandlersAreProved, SignedIn, Ready,
                       WithBrowser, WithAccount, Points
<1>5. /\ cookies'[h[t].b].did \in {h[t].d, cookies[h[t].b].did}
      /\ cookies'[h[t].b].sess = h[t].u
      /\ \A b \in Browsers : b # h[t].b => cookies'[b] = cookies[b]
  BY <1>4 DEF Reply, FlowTypeOK
<1>6. \A b \in Browsers, d \in Devices : Holds(b, d)' => Holds(b, d)
  <2> SUFFICES ASSUME NEW b \in Browsers, NEW d \in Devices, Holds(b, d)'
               PROVE  Holds(b, d)
    OBVIOUS
  <2>1. cookies'[b].did = d \/ \E s \in Threads : h'[s].b = b /\ h'[s].d = d
    BY DEF Holds
  <2>2. CASE cookies'[b].did = d
    BY <1>5, <2>2 DEF Holds
  <2>3. ASSUME NEW s \in Threads, h'[s].b = b, h'[s].d = d
        PROVE  Holds(b, d)
    BY <1>2, <2>3, FlowAssumption DEF Holds
  <2> QED
    BY <2>1, <2>2, <2>3
<1>7. CookiesAreOwn' /\ LinksAreProved'
  BY <1>3, <1>6, HandsStay DEF OwnInv
<1>8. HandlersAreProved'
  BY <1>2, <1>3, HandlersStayProved DEF OwnInv, SignedIn
<1>9. SessionNeedsPassword'
  BY <1>3, <1>4, <1>5 DEF OwnInv, SessionNeedsPassword
<1> QED
  BY <1>7, <1>8, <1>9 DEF OwnInv

\* EmailVerify signs in the browser whose cookie the link names.
LEMMA VerifyKeepsOwn ==
    ASSUME FlowTypeOK, BindInv, OwnInv, NEW t \in Threads, VerifyStep(t)
    PROVE  OwnInv'
<1>1. h \in [Threads -> Handler]
  BY HandlersTyped
<1>2. \A s \in Threads \ {t} : h'[s] = h[s]
  BY OneMoves DEF HandlerStep
<1>3. UNCHANGED <<cookies, links, dids, proved>>
  BY DEF VerifyStep, VerifyStart, VerifyFind, VerifyConsume, VerifyDevice,
         linkVars, browserVars
<1>4. CASE Finish(t)
  BY <1>3, <1>4, FinishKeepsOwn
<1>5. CASE \E b \in Browsers, tok \in Tokens : VerifyStart(t, b, tok)
  <2>1. h'[t].at \notin SignedIn /\ h'[t].d = cookies[h'[t].b].did
    BY <1>1, <1>5, VerifyStarts DEF SignedIn
  <2> QED
    BY <1>2, <1>3, <2>1, SameHands
<1>6. CASE VerifyFind(t) /\ ~Finish(t)
  <2>1. h'[t].at \notin SignedIn /\ h'[t].b = h[t].b /\ h'[t].d = h[t].d
    BY <1>1, <1>6, VerifyFinds DEF SignedIn
  <2> QED
    BY <1>2, <1>3, <2>1, SameHands
<1>7. CASE VerifyConsume(t) /\ Goto(t, "verify_device")
  <2>1. h[t].at = "verify_consume"
    BY <1>7 DEF VerifyConsume, At
  <2>2. h[t].tok \in Tokens /\ h[t].b \in Browsers
    BY <2>1, HandlersTyped DEF Ready, WithToken, WithBrowser, WithAccount, Points
  <2>3. /\ links[h[t].tok] # None /\ links[h[t].tok].user = h[t].u
        /\ links[h[t].tok].device = h[t].d
    BY <2>1, <2>2 DEF BindInv, BindTables, LinksExist, Informed
  <2>4. Holds(h[t].b, links[h[t].tok].device)
    BY <2>3 DEF Holds
  <2>5. <<h[t].b, h[t].u>> \in proved
    BY <2>2, <2>3, <2>4 DEF OwnInv, LinksAreProved
  <2>6. h'[t].b = h[t].b /\ h'[t].d = h[t].d /\ h'[t].u = h[t].u
    BY <1>1, <1>7, Moved
  <2> QED
    BY <1>2, <1>3, <2>5, <2>6, SameHands
<1> QED
  BY <1>4, <1>5, <1>6, <1>7, MovesKeepOwn DEF VerifyStep, VerifyConsume

LEMMA TokenKeepsOwn ==
    ASSUME FlowTypeOK, OwnInv, NEW t \in Threads, TokenStep(t)
    PROVE  OwnInv'
<1>1. h \in [Threads -> Handler]
  BY HandlersTyped
<1>2. \A s \in Threads \ {t} : h'[s] = h[s]
  BY OneMoves DEF HandlerStep
<1>3. UNCHANGED <<cookies, links, dids, proved>>
  BY DEF TokenStep, TokenStart, TokenRead, TokenConsume, linkVars, browserVars
<1>4. CASE Finish(t)
  BY <1>3, <1>4, FinishKeepsOwn
<1>5. CASE \E c \in Codes, party \in Parties, v \in Challenges :
               TokenStart(t, c, party, v)
  <2>1. h'[t].at \notin SignedIn /\ h'[t].d = None
    BY <1>1, <1>5, TokenStarts DEF SignedIn
  <2> QED
    BY <1>2, <1>3, <2>1, SameHands
<1>6. CASE TokenRead(t) /\ ~Finish(t)
  <2>1. h'[t].at \notin SignedIn /\ h'[t].b = h[t].b /\ h'[t].d = h[t].d
    BY <1>1, <1>6, TokenReads DEF SignedIn
  <2> QED
    BY <1>2, <1>3, <2>1, SameHands
<1> QED
  BY <1>4, <1>5, <1>6 DEF TokenStep, TokenConsume

LEMMA OwnStep ==
    ASSUME FlowTypeOK, BindInv, OwnInv, [Next]_vars
    PROVE  OwnInv'
<1>1. ASSUME NEW t \in Threads, HandlerStep(t)
      PROVE  OwnInv'
  <2>1. CASE LoginStep(t)
    BY <2>1, LoginKeepsOwn, LoginBindKeepsOwn, MovesKeepOwn DEF LoginStep
  <2> QED
    BY <1>1, <2>1, AuthKeepsOwn, VerifyKeepsOwn, TokenKeepsOwn, MovesKeepOwn,
       ReplyKeepsOwn
    DEF HandlerStep
<1>2. CASE UNCHANGED <<cookies, links, dids, proved, h>>
  BY <1>2 DEF OwnInv, CookiesAreOwn, LinksAreProved, HandlersAreProved,
              SessionNeedsPassword, Holds
<1>3. CASE \/ \E u \in Users, e \in Emails : ChangeEmail(u, e)
           \/ \E u \in Users : DeleteUser(u)
           \/ \E party \in Parties : Deregister(party)
           \/ Background \/ UNCHANGED vars
  BY <1>2, <1>3 DEF ChangeEmail, DeleteUser, Deregister, Background, vars,
                    flowVars, browserVars, linkVars
<1> QED
  BY <1>1, <1>3 DEF Next

LEMMA OwnInit == Init => OwnInv
<1> SUFFICES ASSUME Init PROVE OwnInv
  OBVIOUS
<1>1. \A b \in Browsers, d \in Devices : ~Holds(b, d)
  BY FlowAssumption DEF Init, Idle, Holds
<1> QED
  BY <1>1 DEF Init, Idle, OwnInv, CookiesAreOwn, LinksAreProved,
              HandlersAreProved, SignedIn, SessionNeedsPassword

-----------------------------------------------------------------------------
(* Token calls.                                                            *)

TokenPoints == {"token_read", "token_consume"}

LEMMA OnlyTokenReachesToken ==
    ASSUME FlowTypeOK, NEW t \in Threads, HandlerStep(t), ~TokenStep(t)
    PROVE  h'[t].at \notin TokenPoints
<1> USE DEF TokenPoints
<1>1. h \in [Threads -> Handler]
  BY HandlersTyped
<1>2. Finish(t) => h'[t].at \notin TokenPoints
  BY <1>1, Ended
<1>3. \A p : Goto(t, p) /\ p \notin TokenPoints => h'[t].at \notin TokenPoints
  BY <1>1, Moved
<1>4. CASE AuthStep(t)
  <2>1. CASE \E b \in Browsers, terms \in Terms : AuthStart(t, b, terms)
    BY <1>1, <2>1, AuthStarts
  <2>2. CASE \E r \in Requests : AuthCreate(t, r)
    BY <1>1, <1>2, <2>2, AuthCreates
  <2>3. CASE AuthTrust(t)
    BY <1>2, <1>3, <2>3 DEF AuthTrust
  <2> QED
    BY <1>4, <2>1, <2>2, <2>3 DEF AuthStep
<1>5. CASE LoginStep(t)
  <2>1. CASE \/ \E b \in Browsers, r \in Requests : LoginStart(t, b, r)
             \/ \E b \in Browsers, u \in Users : AdminLoginStart(t, b, u)
    BY <1>1, <2>1, LoginStarts, AdminStarts
  <2>2. CASE \E u \in Users : LoginUser(t, u)
    BY <1>1, <2>2, LoginKnowsUser
  <2>3. CASE \/ \E r \in Requests : AdminCreate(t, r)
             \/ \E tok \in Tokens : LoginBind(t, tok)
    BY <1>1, <2>3, AdminCreates, LoginBinds
  <2>4. CASE LoginTrust(t) \/ AdminTrust(t) \/ LoginBindFails(t)
                 \/ LoginMail(t) \/ LoginMailFails(t) \/ LoginUnbind(t)
    BY <1>3, <2>4 DEF LoginTrust, AdminTrust, LoginBindFails, LoginMail,
                      LoginMailFails, LoginUnbind
  <2> QED
    BY <1>5, <2>1, <2>2, <2>3, <2>4 DEF LoginStep
<1>6. CASE VerifyStep(t)
  <2>1. CASE \E b \in Browsers, tok \in Tokens : VerifyStart(t, b, tok)
    BY <1>1, <2>1, VerifyStarts
  <2>2. CASE VerifyFind(t)
    BY <1>1, <1>2, <2>2, VerifyFinds
  <2>3. CASE VerifyConsume(t) \/ VerifyDevice(t)
    BY <1>2, <1>3, <2>3 DEF VerifyConsume, VerifyDevice
  <2> QED
    BY <1>6, <2>1, <2>2, <2>3 DEF VerifyStep
<1>7. CASE \/ (\E c \in Codes : Issue(t, c)) \/ IssueFails(t)
           \/ StatementFails(t) \/ Reply(t) \/ Abort(t)
  BY <1>2, <1>3, <1>7 DEF Issue, IssueFails, AfterIssue, StatementFails, Reply, Abort
<1> QED
  BY <1>4, <1>5, <1>6, <1>7 DEF HandlerStep

LEMMA TokenInvStep == FlowTypeOK /\ TokenInv /\ [Next]_vars => TokenInv'
<1> SUFFICES ASSUME FlowTypeOK, TokenInv, [Next]_vars
             PROVE  TokenInv'
  OBVIOUS
<1>1. h \in [Threads -> Handler]
  BY HandlersTyped
<1>2. CASE UNCHANGED h /\ registered' \subseteq registered
  BY <1>2 DEF TokenInv, Presents
<1>3. ASSUME NEW t \in Threads, HandlerStep(t)
      PROVE  TokenInv'
  <2>1. registered' = registered
    BY <1>3 DEF HandlerStep, AuthStep, AuthStart, AuthCreate, AuthTrust, LoginStep,
        LoginStart, LoginUser, LoginTrust, AdminLoginStart, AdminTrust, AdminCreate,
        LoginBind, LoginBindFails, LoginMail, LoginMailFails, LoginUnbind, VerifyStep,
        VerifyStart, VerifyFind, VerifyConsume, VerifyDevice, TokenStep, TokenStart,
        TokenRead, TokenConsume, Issue, IssueFails, StatementFails, Reply, Abort,
        accountVars
  <2>2. \A s \in Threads \ {t} : h'[s] = h[s]
    BY <1>3, OneMoves
  <2>3. /\ h'[t].at \in TokenPoints => h'[t].party # Console
        /\ h'[t].at = "token_consume" =>
               /\ h'[t].terms.party = h'[t].party
               /\ h'[t].terms.challenge \in {None, h'[t].verifier}
    <3>1. CASE ~TokenStep(t)
      BY <1>3, <3>1, OnlyTokenReachesToken DEF TokenPoints
    <3>2. CASE \E c \in Codes, party \in Parties, v \in Challenges :
                   TokenStart(t, c, party, v)
      <4>1. PICK c \in Codes, party \in Parties, v \in Challenges :
                TokenStart(t, c, party, v)
        BY <3>2
      <4>2. party # Console
        BY <4>1 DEF TokenStart, TokenInv
      <4> QED
        BY <1>1, <4>1, <4>2, TokenStarts
    <3>3. CASE TokenRead(t) /\ ~Finish(t)
      <4>1. h[t].party # Console
        BY <3>3 DEF TokenRead, At, TokenInv
      <4> QED
        BY <1>1, <3>3, <4>1, TokenReads DEF Presents
    <3>4. CASE Finish(t)
      BY <1>1, <3>4, Ended DEF TokenPoints
    <3> QED
      BY <3>1, <3>2, <3>3, <3>4 DEF TokenStep, TokenConsume
  <2> QED
    BY <2>1, <2>2, <2>3 DEF TokenInv, TokenPoints, Presents
<1>4. CASE \/ \E u \in Users, e \in Emails : ChangeEmail(u, e)
           \/ \E u \in Users : DeleteUser(u)
           \/ \E party \in Parties : Deregister(party)
           \/ Background \/ UNCHANGED vars
  <2>1. UNCHANGED h /\ registered' \subseteq registered
    BY <1>4 DEF ChangeEmail, DeleteUser, Deregister, Background, vars, flowVars,
                accountVars
  <2> QED
    BY <1>2, <2>1
<1> QED
  BY <1>3, <1>4 DEF Next

LEMMA TokenInvInit == Init => TokenInv
<1> SUFFICES ASSUME Init PROVE TokenInv
  OBVIOUS
<1>1. \A t \in Threads : h[t].at = "idle"
  BY DEF Init, Idle
<1> QED
  BY <1>1 DEF Init, TokenInv

-----------------------------------------------------------------------------
(* What follows for every run of the service.                              *)

LEMMA FlowInvStep == FlowInv /\ [Next]_vars => FlowInv'
<1> SUFFICES ASSUME FlowInv, [Next]_vars PROVE FlowInv'
  OBVIOUS
<1>1. FlowTypeOK /\ BindInv /\ OwnInv /\ TokenInv
  BY DEF FlowInv
<1>2. FlowTypeOK'
  BY <1>1, FlowStep
<1>3. BindInv' /\ OwnInv' /\ TokenInv'
  BY <1>1, <1>2, BindingsStep, OwnStep, TokenInvStep
<1> QED
  BY <1>2, <1>3 DEF FlowInv

\* The inductive invariant: types, bindings and links, cookies and passwords,
\* token calls.
THEOREM FlowIsSafe == Spec => []FlowInv
<1>1. Init => FlowInv
  BY FlowInit, BindingsInit, OwnInit, TokenInvInit DEF FlowInv
<1> QED
  BY <1>1, FlowInvStep, PTL DEF Spec

\* SaveDevice: however logins and verifications interleave, a trusted device
\* was verified through a mailed link for the account it is trusted for.
THEOREM DevicesEarnTrust == Spec => []TrustIsEarned
<1>1. FlowInv => TrustIsEarned
  BY DEF FlowInv, BindInv, BindTables
<1> QED
  BY <1>1, FlowIsSafe, PTL

\* EmailVerify: two openings of one link never both succeed.
THEOREM LinksCountOnce == Spec => []LinkHonouredOnce
<1>1. FlowInv => LinkHonouredOnce
  BY DEF FlowInv, BindInv, BindTables
<1> QED
  BY <1>1, FlowIsSafe, PTL

\* UpdateManagedUser: the links an address change withdraws stay withdrawn.
THEOREM WithdrawnLinksStayDead == Spec => []FormerLinksStayDead
<1>1. FlowInv => FormerLinksStayDead
  BY DEF FlowInv, BindInv, BindTables
<1> QED
  BY <1>1, FlowIsSafe, PTL

\* setUserSession: a session cookie only ever reaches a browser that entered
\* the account's password itself.
THEOREM SessionsNeedPasswords == Spec => []SessionNeedsPassword
<1>1. FlowInv => SessionNeedsPassword
  BY DEF FlowInv, OwnInv
<1> QED
  BY <1>1, FlowIsSafe, PTL

LEMMA IssuesForVerified ==
    ASSUME FlowInv, NEW t \in Threads, NEW c \in Codes, Issue(t, c)
    PROVE  Verified(codes'[c].user, h[t].d)
<1>1. Verified(h[t].u, h[t].d)
  BY DEF Issue, FlowInv, BindInv, Informed
<1>2. codes'[c].user = h[t].u
  BY DEF Issue, IssueAuthCode, FlowInv, FlowTypeOK, TypeOK
<1> QED
  BY <1>1, <1>2

\* issueCodeAndRedirect: every code is for an account the calling browser's
\* device was verified for.
THEOREM CodesNeedVerifiedDevices == Spec => CodeNeedsVerifiedDevice
<1>1. FlowInv /\ [Next]_vars =>
          [\A t \in Threads, c \in Codes :
              Issue(t, c) => Verified(codes'[c].user, h[t].d)]_vars
  BY IssuesForVerified
<1> QED
  BY <1>1, FlowIsSafe, PTL DEF Spec, CodeNeedsVerifiedDevice

\* The step that clears a binding is one of two, and names the binding.
LEMMA ClearedByItsHandler ==
    ASSUME FlowInv, IdsAreDrawn, [Next]_vars, NEW r \in Requests, Pending(r),
           requests'[r] # None, requests'[r].bind = None
    PROVE  \E t \in Threads : h'[t] # h[t] /\ h[t].tok = requests[r].bind.token
<1>1. FlowTypeOK /\ TypeOK /\ h \in [Threads -> Handler]
  BY HandlersTyped DEF FlowInv
<1>2. \A q \in Requests : requests' = [requests EXCEPT ![q].bind = None] /\ q # r
          => FALSE
  BY <1>1 DEF TypeOK, Pending
<1>3. requests' # requests
  BY DEF Pending
<1>4. ASSUME NEW t \in Threads, HandlerStep(t)
      PROVE  h'[t] # h[t] /\ h[t].tok = requests[r].bind.token
  <2>1. ASSUME ConsumeAuthVerification(h[t].r, h[t].tok, h[t].d),
               NEW p, Goto(t, p), h[t].at # p, h[t].r \in Requests
        PROVE  h'[t] # h[t] /\ h[t].tok = requests[r].bind.token
    <3>1. h[t].r = r
      BY <1>2, <2>1 DEF ConsumeAuthVerification
    <3>2. h'[t].at = p
      BY <1>1, <2>1, Moved
    <3> QED
      BY <2>1, <3>1, <3>2 DEF ConsumeAuthVerification, Bound
  <2>2. \A terms : \A q \in Requests : ~CreateAuthRequest(q, terms)
    <3> SUFFICES ASSUME NEW terms, NEW q \in Requests, CreateAuthRequest(q, terms)
                 PROVE  FALSE
      OBVIOUS
    <3>1. q # r
      BY DEF CreateAuthRequest, IdsAreDrawn, Pending
    <3> QED
      BY <1>1, <3>1 DEF CreateAuthRequest, TypeOK, Pending
  <2>3. \A c : ~Issue(t, c)
    <3> SUFFICES ASSUME NEW c, Issue(t, c) PROVE FALSE
      OBVIOUS
    <3>1. requests' = [requests EXCEPT ![h[t].r] = None]
      BY DEF Issue, IssueAuthCode
    <3> QED
      BY <1>1, <3>1 DEF TypeOK, Pending
  <2>4. \A tok \in Tokens : ~LoginBind(t, tok)
    <3> SUFFICES ASSUME NEW tok \in Tokens, LoginBind(t, tok) PROVE FALSE
      OBVIOUS
    <3> DEFINE bind == [token |-> tok, device |-> h[t].d, user |-> h[t].u]
    <3>1. requests' = [requests EXCEPT ![h[t].r].bind = bind]
      BY DEF LoginBind, BindAuthVerification
    <3>2. bind # None
      <4>1. h[t].u \in Users /\ h[t].d \in Devices
        BY HandlersTyped, <1>1 DEF LoginBind, At, Ready, WithAccount, Points
      <4> QED
        BY <4>1, NoneAssumption DEF Binding
    <3> HIDE DEF bind
    <3> QED
      BY <1>1, <3>1, <3>2 DEF TypeOK, AuthRequest, Pending
  <2>5. CASE LoginUnbind(t)
    <3>1. h[t].at = "login_unbind" /\ h[t].r \in Requests /\ Goto(t, "login_reply")
      BY <1>1, <2>5, HandlersTyped
      DEF LoginUnbind, At, Ready, WithRequest, WithAccount, Points
    <3>2. ConsumeAuthVerification(h[t].r, h[t].tok, h[t].d)
      BY <1>3, <2>5 DEF LoginUnbind, storeVars
    <3> QED
      BY <2>1, <3>1, <3>2
  <2>6. CASE VerifyConsume(t)
    <3>1. h[t].at = "verify_consume" /\ h[t].r \in Requests
      BY <1>1, <2>6, HandlersTyped
      DEF VerifyConsume, At, Ready, WithRequest, WithAccount, Points
    <3>2. /\ ConsumeAuthVerification(h[t].r, h[t].tok, h[t].d)
          /\ Goto(t, "verify_device")
      BY <1>3, <2>6 DEF VerifyConsume, storeVars
    <3> QED
      BY <2>1, <3>1, <3>2
  <2>7. CASE AuthStep(t)
    BY <1>3, <2>2, <2>7 DEF AuthStep, AuthStart, AuthCreate, AuthTrust, storeVars
  <2>8. CASE LoginStep(t)
    BY <1>3, <2>2, <2>4, <2>5, <2>8
    DEF LoginStep, LoginStart, LoginUser, LoginTrust, AdminLoginStart, AdminTrust,
        AdminCreate, LoginBindFails, LoginMail, LoginMailFails, storeVars
  <2>9. CASE VerifyStep(t)
    BY <1>3, <2>6, <2>9 DEF VerifyStep, VerifyStart, VerifyFind, VerifyDevice, storeVars
  <2>10. CASE TokenStep(t)
    BY <1>3, <2>10 DEF TokenStep, TokenStart, TokenRead, TokenConsume,
                       ConsumeAuthCode, storeVars
  <2> QED
    BY <1>3, <1>4, <2>3, <2>7, <2>8, <2>9, <2>10
    DEF HandlerStep, IssueFails, StatementFails, Reply, Abort, storeVars
<1>5. CASE \/ \E u \in Users, e \in Emails : ChangeEmail(u, e)
           \/ \E u \in Users : DeleteUser(u)
           \/ \E party \in Parties : Deregister(party)
           \/ Background \/ UNCHANGED vars
  BY <1>1, <1>3, <1>5
  DEF ChangeEmail, ForgetUser, DeleteUser, Deregister, Background, StartCleanup,
      CleanupExpiredAuthState, CleanupFails, Tick, vars, storeVars, TypeOK, Pending
<1> QED
  BY <1>4, <1>5 DEF Next

\* The store's own invariant, for the service.
LEMMA ServiceStoreInv == Spec => []StoreInv
BY FlowUsesStore, StoreInvInit, StoreInvStep, PTL DEF StoreSpec

\* LoginUnbind and EmailVerify: a failed mail or an old link never clears the
\* binding a newer login has made meanwhile.
THEOREM OwnBindingCleared == Spec => ClearsOwnBinding
<1>1. FlowInv /\ StoreInv /\ [Next]_vars =>
          [\A r \in Requests :
              /\ requests[r] # None /\ requests[r].bind # None
              /\ requests'[r] # None /\ requests'[r].bind = None
              => \E t \in Threads : h'[t] # h[t]
                     /\ h[t].tok = requests[r].bind.token]_vars
  BY ClearedByItsHandler DEF StoreInv, Pending
<1> QED
  BY <1>1, FlowIsSafe, ServiceStoreInv, PTL DEF Spec, ClearsOwnBinding

LEMMA OnlyConsumeRedeems ==
    ASSUME FlowInv, [Next]_vars, redemptions' # redemptions
    PROVE  \E t \in Threads :
               TokenConsume(t) /\ ConsumeAuthCode(h[t].code, h[t].terms)
<1>1. ASSUME NEW t \in Threads, HandlerStep(t)
      PROVE  TokenConsume(t) /\ ConsumeAuthCode(h[t].code, h[t].terms)
  <2>1. CASE AuthStep(t)
    BY <2>1 DEF AuthStep, AuthStart, AuthCreate, CreateAuthRequest, AuthTrust, storeVars
  <2>2. CASE LoginStep(t)
    BY <2>2
    DEF LoginStep, LoginStart, LoginUser, LoginTrust, AdminLoginStart, AdminTrust,
        AdminCreate, CreateAuthRequest, LoginBind, BindAuthVerification,
        LoginBindFails, LoginMail, LoginMailFails, LoginUnbind,
        ConsumeAuthVerification, storeVars
  <2>3. CASE VerifyStep(t)
    BY <2>3 DEF VerifyStep, VerifyStart, VerifyFind, VerifyConsume,
                ConsumeAuthVerification, VerifyDevice, storeVars
  <2>4. CASE TokenStep(t)
    BY <2>4 DEF TokenStep, TokenStart, TokenRead, TokenConsume, storeVars
  <2> QED
    BY <1>1, <2>1, <2>2, <2>3, <2>4
    DEF HandlerStep, Issue, IssueAuthCode, IssueFails, StatementFails, Reply, Abort,
        storeVars
<1>2. CASE \/ \E u \in Users, e \in Emails : ChangeEmail(u, e)
           \/ \E u \in Users : DeleteUser(u)
           \/ \E party \in Parties : Deregister(party)
           \/ Background \/ UNCHANGED vars
  BY <1>2 DEF ChangeEmail, ForgetUser, DeleteUser, Deregister, Background,
              StartCleanup, CleanupExpiredAuthState, CleanupFails, Tick, vars, storeVars
<1> QED
  BY <1>1, <1>2 DEF Next

\* Token: whoever redeems a code presented the client, the redirect URI and
\* the verifier it was made for, and is not the console.
THEOREM RedeemersPresentTheirs == Spec => RedeemedByItsParty
<1>1. FlowInv /\ [Next]_vars =>
          [\A t \in Threads, r \in Requests :
              redemptions'[r] # redemptions[r] /\ h'[t] # h[t] =>
                  LET asked == codes[h[t].code].terms IN
                  /\ asked.party = h[t].party /\ asked.party # Console
                  /\ asked.challenge \in {None, h[t].verifier}]_vars
  <2> SUFFICES ASSUME FlowInv, [Next]_vars, NEW t \in Threads, NEW r \in Requests,
                      redemptions'[r] # redemptions[r], h'[t] # h[t]
               PROVE  LET asked == codes[h[t].code].terms IN
                      /\ asked.party = h[t].party /\ asked.party # Console
                      /\ asked.challenge \in {None, h[t].verifier}
    OBVIOUS
  <2>1. PICK s \in Threads :
            TokenConsume(s) /\ ConsumeAuthCode(h[s].code, h[s].terms)
    BY OnlyConsumeRedeems
  <2>2. s = t
    <3>1. HandlerStep(s) /\ FlowTypeOK
      BY <2>1 DEF HandlerStep, TokenStep, FlowInv
    <3> QED
      BY <3>1, OneMoves
  <2>3. codes[h[t].code].terms = h[t].terms
    BY <2>1, <2>2 DEF ConsumeAuthCode, Redeemable
  <2>4. h[t].at = "token_consume"
    BY <2>1, <2>2 DEF TokenConsume, At
  <2>5. h[t].party # Console /\ Presents(h[t], h[t].terms)
    BY <2>4 DEF FlowInv, TokenInv
  <2> QED
    BY <2>3, <2>5 DEF Presents
<1> QED
  BY <1>1, FlowIsSafe, PTL DEF Spec, RedeemedByItsParty
=============================================================================
