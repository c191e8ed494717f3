------------------------------ MODULE AuthFlow ------------------------------
(***************************************************************************)
(* The HTTP handlers that turn an authorization request into tokens:       *)
(* Auth, Login, AdminLogin, EmailVerify and Token (FGF-idP/controller),    *)
(* running concurrently over the tables of AuthStore, the user, device and *)
(* client tables, the mail system and the browsers' cookies, while         *)
(* operators edit accounts and clients.                                    *)
(*                                                                         *)
(* A handler is a goroutine: thread t holds the record h[t] of what it has *)
(* read so far and runs one database statement (or mail) per step.         *)
(* Reading a cookie, comparing values and writing the response belong to   *)
(* the step of the statement before or after them.  A rejected call is the *)
(* step back to Idle; Abort is a failed statement, a cancelled request     *)
(* context or a crash, at any point.                                       *)
(***************************************************************************)
EXTENDS AuthStore

CONSTANTS
    Parties,            \* registered (client, redirect URI) pairs, and Console
    Console,            \* AdminConsoleClientID with its empty redirect URI
    Challenges,         \* PKCE challenges; a verifier is named by its challenge
    Emails, Browsers,
    Threads,            \* handlers that may run at the same time
    Admins,             \* accounts with at least the admin role
    EmailTokenTTL,      \* lifetime of an emailed link (5 minutes)
    InitialEmail,       \* the address each account starts with
    MaxEdits            \* bound: how many edits operators make

\* A request without PKCE has an empty challenge.
FlowTerms == [party : Parties, challenge : Challenges \cup {None}]

ConsoleTerms == [party |-> Console, challenge |-> None]

ASSUME FlowAssumption ==
    /\ Terms \subseteq FlowTerms
    /\ Console \in Parties
    /\ ConsoleTerms \in Terms
    /\ Admins \subseteq Users
    /\ EmailTokenTTL \in Nat
    /\ None \notin Users \cup Devices \cup Browsers
    /\ InitialEmail \in [Users -> Emails]
    /\ \A u1, u2 \in Users : InitialEmail[u1] = InitialEmail[u2] => u1 = u2
    /\ MaxEdits \in Nat

VARIABLES
    email, live,        \* table users: address, and not soft deleted
    registered,         \* table clients: the pairs ValiClientWithUrl accepts
    devices,            \* table user_devices: device id -> trusted for
    cookies,            \* each browser's device and session cookies
    dids,               \* device ids drawn so far
    links,              \* the signed email tokens made so far
    mailed,             \* those that reached the mailbox they name
    h,                  \* the running handlers
    edits,              \* counts operator edits, up to MaxEdits
    proved,             \* history: <<b, u>> where b presented u's password
    honoured,           \* history: how often each link was accepted
    former              \* history: links pending when the address changed

accountVars == <<email, live, registered, edits>>
linkVars == <<links, mailed, honoured, former>>
browserVars == <<cookies, dids, proved>>
flowVars == <<accountVars, devices, linkVars, browserVars, h>>
vars == <<storeVars, flowVars>>

-----------------------------------------------------------------------------
(* Handlers.                                                               *)

Points ==
    {"idle",
     "auth_create", "auth_trust", "auth_issue",
     "login_user", "login_trust", "login_issue",
     "admin_trust", "admin_create",
     "login_bind", "login_mail", "login_unbind", "login_reply",
     "verify_find", "verify_consume", "verify_device", "verify_issue",
     "token_read", "token_consume"}

Handler ==
    [at : Points,
     b : Browsers \cup {None},
     r : Requests \cup {None},
     u : Users \cup {None},
     d : Devices \cup {None},
     newdid : BOOLEAN,                    \* the response sets the did cookie
     tok : Tokens \cup {None},
     addr : Emails \cup {None},           \* user.Email as read
     terms : Terms \cup {None},           \* the request or code as read
     code : Codes \cup {None},
     party : Parties \cup {None},         \* what a Token call presents
     verifier : Challenges \cup {None},
     late : BOOLEAN]                      \* history: u was deleted at the start

Idle ==
    [at |-> "idle", b |-> None, r |-> None, u |-> None, d |-> None,
     newdid |-> FALSE, tok |-> None, addr |-> None, terms |-> None,
     code |-> None, party |-> None, verifier |-> None, late |-> FALSE]

\* What a handler has read by the time it reaches a point.
WithAccount ==
    Points \ {"idle", "auth_create", "login_user", "token_read", "token_consume"}

WithBrowser == WithAccount \cup {"auth_create", "login_user"}

WithRequest ==
    (WithAccount \ {"admin_trust", "admin_create", "login_reply", "verify_find"})
        \cup {"login_user"}

WithTerms == WithRequest \cup {"auth_create", "token_consume"}

WithAddress == {"login_trust", "login_bind", "admin_trust", "admin_create"}

WithToken == {"login_mail", "login_unbind", "verify_find", "verify_consume"}

Ready(hd) ==
    /\ hd.at \in WithBrowser => hd.b \in Browsers
    /\ hd.at \in WithAccount => hd.u \in Users /\ hd.d \in Devices
    /\ hd.at \in WithRequest => hd.r \in Requests
    /\ hd.at \in WithTerms => hd.terms \in Terms
    /\ hd.at \in WithAddress => hd.addr \in Emails
    /\ hd.at \in WithToken => hd.tok \in Tokens
    /\ hd.at \in {"token_read", "token_consume"} => hd.code \in Codes

Link == [addr : Emails, exp : Nat,
         user : Users, device : Devices]  \* history: who asked for it, where

ASSUME LinkAssumption == None \notin Link

FlowTypeOK ==
    /\ TypeOK
    /\ email \in [Users -> Emails]
    /\ live \subseteq Users
    /\ registered \subseteq Parties
    /\ devices \in [Devices -> Users \cup {None}]
    /\ cookies \in [Browsers -> [did : Devices \cup {None},
                                 sess : Users \cup {None}]]
    /\ dids \subseteq Devices
    /\ links \in [Tokens -> Link \cup {None}]
    /\ mailed \subseteq Tokens
    /\ h \in [Threads -> Handler]
    /\ \A t \in Threads : Ready(h[t])
    /\ edits \in 0 .. MaxEdits
    /\ proved \subseteq Browsers \X Users
    /\ honoured \in [Tokens -> Nat]
    /\ former \subseteq Tokens

Init ==
    /\ StoreInit
    /\ email = InitialEmail
    /\ live = Users
    /\ registered = Parties \ {Console}
    /\ devices = [d \in Devices |-> None]
    /\ cookies = [b \in Browsers |-> [did |-> None, sess |-> None]]
    /\ dids = {}
    /\ links = [tok \in Tokens |-> None]
    /\ mailed = {}
    /\ h = [t \in Threads |-> Idle]
    /\ edits = 0
    /\ proved = {}
    /\ honoured = [tok \in Tokens |-> 0]
    /\ former = {}

At(t, point) == h[t].at = point

Goto(t, point) == h' = [h EXCEPT ![t].at = point]

Finish(t) == h' = [h EXCEPT ![t] = Idle]

\* Mutant: IsTrustedDevice forgets the account.
Trusted_AnyUser(u, d) == d # None /\ devices[d] # None

Trusted(u, d) == d # None /\ devices[d] = u

-----------------------------------------------------------------------------
(* GET /x/auth.  ValiClientWithUrl and the scope check come first; the     *)
(* browser's session and device cookies arrive with the request.           *)

AuthStart(t, b, terms) ==
    /\ At(t, "idle")
    /\ terms.party \in registered
    /\ h' = [h EXCEPT ![t] =
           [Idle EXCEPT !.at = "auth_create", !.b = b, !.terms = terms,
                        !.u = cookies[b].sess, !.d = cookies[b].did,
                        !.late = cookies[b].sess \notin live \cup {None}]]
    /\ UNCHANGED <<storeVars, accountVars, devices, linkVars, browserVars>>

\* Without a session or a device cookie the browser is sent to the login page.
AuthCreate(t, r) ==
    /\ At(t, "auth_create")
    /\ CreateAuthRequest(r, h[t].terms)
    /\ IF h[t].u = None \/ h[t].d = None
       THEN Finish(t)
       ELSE h' = [h EXCEPT ![t].at = "auth_trust", ![t].r = r]
    /\ UNCHANGED <<accountVars, devices, linkVars, browserVars>>

AuthTrust(t) ==
    /\ At(t, "auth_trust")
    /\ IF Trusted(h[t].u, h[t].d) THEN Goto(t, "auth_issue") ELSE Finish(t)
    /\ UNCHANGED <<storeVars, accountVars, devices, linkVars, browserVars>>

-----------------------------------------------------------------------------
(* issueCodeAndRedirect, the end of Auth, Login and EmailVerify.  Login    *)
(* and EmailVerify have set cookies that travel with the response, whether *)
(* the code was issued or not.                                             *)

IssuePoints == {"auth_issue", "login_issue", "verify_issue"}

AfterIssue(t) ==
    IF At(t, "auth_issue") THEN Finish(t) ELSE Goto(t, "login_reply")

Issue(t, c) ==
    /\ h[t].at \in IssuePoints
    /\ IssueAuthCode(h[t].r, c, h[t].terms, h[t].u)
    /\ AfterIssue(t)
    /\ UNCHANGED <<accountVars, devices, linkVars, browserVars>>

IssueFails(t) ==
    /\ h[t].at \in IssuePoints
    /\ ~LiveRequest(h[t].r)
    /\ AfterIssue(t)
    /\ UNCHANGED <<storeVars, accountVars, devices, linkVars, browserVars>>

-----------------------------------------------------------------------------
(* POST /x/login.                                                          *)

LoginStart(t, b, r) ==
    /\ At(t, "idle")
    /\ LiveRequest(r)
    /\ h' = [h EXCEPT ![t] =
           [Idle EXCEPT !.at = "login_user", !.b = b, !.r = r,
                        !.terms = requests[r].terms, !.d = cookies[b].did]]
    /\ UNCHANGED <<storeVars, accountVars, devices, linkVars, browserVars>>

\* findLoginUser and the password of u; the session cookie is set on the
\* response.  A browser without a device cookie gets a fresh one.
LoginUser(t, u) ==
    /\ At(t, "login_user")
    /\ u \in live
    /\ proved' = proved \cup {<<h[t].b, u>>}
    /\ IF h[t].d # None
       THEN /\ h' = [h EXCEPT ![t].at = "login_trust", ![t].u = u,
                              ![t].addr = email[u]]
            /\ dids' = dids
       ELSE \E d \in Devices \ dids :
            /\ h' = [h EXCEPT ![t].at = "login_bind", ![t].u = u,
                              ![t].addr = email[u],
                              ![t].d = d, ![t].newdid = TRUE]
            /\ dids' = dids \cup {d}
    /\ UNCHANGED <<storeVars, accountVars, devices, linkVars, cookies>>

LoginTrust(t) ==
    /\ At(t, "login_trust")
    /\ Goto(t, IF Trusted(h[t].u, h[t].d) THEN "login_issue" ELSE "login_bind")
    /\ UNCHANGED <<storeVars, accountVars, devices, linkVars, browserVars>>

(* POST /x/admin/login: the same account check, admins only, then the      *)
(* device; an untrusted one gets a request of its own for the console.     *)

AdminLoginStart(t, b, u) ==
    /\ At(t, "idle")
    /\ u \in live \cap Admins
    /\ proved' = proved \cup {<<b, u>>}
    /\ \E d \in IF cookies[b].did # None THEN {cookies[b].did}
                ELSE Devices \ dids :
       /\ dids' = dids \cup {d}
       /\ h' = [h EXCEPT ![t] =
              [Idle EXCEPT !.at = "admin_trust", !.b = b, !.u = u,
                           !.addr = email[u], !.d = d,
                           !.newdid = (cookies[b].did = None)]]
    /\ UNCHANGED <<storeVars, accountVars, devices, linkVars, cookies>>

AdminTrust(t) ==
    /\ At(t, "admin_trust")
    /\ Goto(t, IF Trusted(h[t].u, h[t].d) THEN "login_reply"
               ELSE "admin_create")
    /\ UNCHANGED <<storeVars, accountVars, devices, linkVars, browserVars>>

AdminCreate(t, r) ==
    /\ At(t, "admin_create")
    /\ CreateAuthRequest(r, ConsoleTerms)
    /\ h' = [h EXCEPT ![t].at = "login_bind", ![t].r = r,
                      ![t].terms = ConsoleTerms]
    /\ UNCHANGED <<accountVars, devices, linkVars, browserVars>>

-----------------------------------------------------------------------------
(* respondDeviceVerification and CreateVerificationToken.                  *)

\* Mutant: the token is signed for a user row read without its address.
NewLink_NoAddress(t, tok) ==
    /\ links[tok] = None
    /\ links' = [links EXCEPT ![tok] =
           [addr |-> None, exp |-> now + EmailTokenTTL,
            user |-> h[t].u, device |-> h[t].d]]

NewLink(t, tok) ==
    /\ links[tok] = None
    /\ links' = [links EXCEPT ![tok] =
           [addr |-> h[t].addr, exp |-> now + EmailTokenTTL,
            user |-> h[t].u, device |-> h[t].d]]

LoginBind(t, tok) ==
    /\ At(t, "login_bind")
    /\ NewLink(t, tok)
    /\ BindAuthVerification(h[t].r, tok, h[t].d, h[t].u)
    /\ h' = [h EXCEPT ![t].at = "login_mail", ![t].tok = tok]
    /\ UNCHANGED <<accountVars, devices, mailed, honoured, former, browserVars>>

LoginBindFails(t) ==
    /\ At(t, "login_bind")
    /\ ~LiveRequest(h[t].r)
    /\ Goto(t, "login_reply")
    /\ UNCHANGED <<storeVars, accountVars, devices, linkVars, browserVars>>

\* SendEmail succeeds, or SMTP is not configured and nothing is sent.
LoginMail(t) ==
    /\ At(t, "login_mail")
    /\ mailed' \in {mailed, mailed \cup {h[t].tok}}
    /\ Goto(t, "login_reply")
    /\ UNCHANGED <<storeVars, accountVars, devices, links, honoured, former,
                   browserVars>>

\* SendEmail reports an error; the server may have taken the mail before.
LoginMailFails(t) ==
    /\ At(t, "login_mail")
    /\ mailed' \in {mailed, mailed \cup {h[t].tok}}
    /\ Goto(t, "login_unbind")
    /\ UNCHANGED <<storeVars, accountVars, devices, links, honoured, former,
                   browserVars>>

\* Clears this login's binding, and only this one; the result is only logged.
LoginUnbind(t) ==
    /\ At(t, "login_unbind")
    /\ \/ ConsumeAuthVerification(h[t].r, h[t].tok, h[t].d)
       \/ ~Bound(h[t].r, h[t].tok, h[t].d) /\ UNCHANGED storeVars
    /\ Goto(t, "login_reply")
    /\ UNCHANGED <<accountVars, devices, linkVars, browserVars>>

\* The database fails after the session cookie was put on the response: the
\* error that is sent carries it.
StatementFails(t) ==
    /\ h[t].at \in {"login_trust", "login_issue", "admin_trust",
                    "admin_create", "login_bind", "verify_issue"}
    /\ Goto(t, "login_reply")
    /\ UNCHANGED <<storeVars, accountVars, devices, linkVars, browserVars>>

\* The response reaches the browser with its Set-Cookie headers.
Reply(t) ==
    /\ At(t, "login_reply")
    /\ cookies' = [cookies EXCEPT ![h[t].b] =
           [did |-> IF h[t].newdid THEN h[t].d ELSE @.did, sess |-> h[t].u]]
    /\ Finish(t)
    /\ UNCHANGED <<storeVars, accountVars, devices, linkVars, dids, proved>>

-----------------------------------------------------------------------------
(* GET /x/verify, opened from the mail.                                    *)

\* VerifySignedToken, then GetUserByEmail of the address inside the token.
VerifyStart(t, b, tok) ==
    /\ At(t, "idle")
    /\ tok \in mailed
    /\ cookies[b].did # None
    /\ now <= links[tok].exp
    /\ \E u \in live :
        /\ email[u] = links[tok].addr
        /\ h' = [h EXCEPT ![t] =
               [Idle EXCEPT !.at = "verify_find", !.b = b, !.u = u,
                            !.d = cookies[b].did, !.tok = tok]]
    /\ UNCHANGED <<storeVars, accountVars, devices, linkVars, browserVars>>

\* Mutant: EmailVerifyUserID is not compared.
VerifyMatch_AnyUser(t, r) == Bound(r, h[t].tok, h[t].d)

\* GetAuthRequestByVerificationToken and the two comparisons.
VerifyMatch(t, r) ==
    /\ Bound(r, h[t].tok, h[t].d)
    /\ requests[r].bind.user = h[t].u

VerifyFind(t) ==
    /\ At(t, "verify_find")
    /\ \/ \E r \in Requests :
              /\ VerifyMatch(t, r)
              /\ h' = [h EXCEPT ![t].at = "verify_consume", ![t].r = r,
                                ![t].terms = requests[r].terms]
       \/ (\A r \in Requests : ~VerifyMatch(t, r)) /\ Finish(t)
    /\ UNCHANGED <<storeVars, accountVars, devices, linkVars, browserVars>>

\* Mutant: the number of rows the UPDATE touched is not looked at.
VerifyConsume_Unchecked(t) ==
    /\ At(t, "verify_consume")
    /\ \/ ConsumeAuthVerification(h[t].r, h[t].tok, h[t].d)
       \/ ~Bound(h[t].r, h[t].tok, h[t].d) /\ UNCHANGED storeVars
    /\ honoured' = [honoured EXCEPT ![h[t].tok] = @ + 1]
    /\ Goto(t, "verify_device")
    /\ UNCHANGED <<accountVars, devices, links, mailed, former, browserVars>>

VerifyConsume(t) ==
    /\ At(t, "verify_consume")
    /\ \/ /\ ConsumeAuthVerification(h[t].r, h[t].tok, h[t].d)
          /\ honoured' = [honoured EXCEPT ![h[t].tok] = @ + 1]
          /\ Goto(t, "verify_device")
       \/ /\ ~Bound(h[t].r, h[t].tok, h[t].d)
          /\ Finish(t)
          /\ UNCHANGED <<storeVars, honoured>>
    /\ UNCHANGED <<accountVars, devices, links, mailed, former, browserVars>>

\* SaveDevice is an upsert; a console verification ends here.
VerifyDevice(t) ==
    /\ At(t, "verify_device")
    /\ devices' = [devices EXCEPT ![h[t].d] = h[t].u]
    /\ Goto(t, IF h[t].terms.party = Console THEN "login_reply"
               ELSE "verify_issue")
    /\ UNCHANGED <<storeVars, accountVars, linkVars, browserVars>>

-----------------------------------------------------------------------------
(* POST /x/token by a caller that knows the secret of party's client.      *)

TokenStart(t, c, party, verifier) ==
    /\ At(t, "idle")
    /\ c \in drawn
    /\ party \in registered
    /\ h' = [h EXCEPT ![t] =
           [Idle EXCEPT !.at = "token_read", !.code = c, !.party = party,
                        !.verifier = verifier]]
    /\ UNCHANGED <<storeVars, accountVars, devices, linkVars, browserVars>>

\* verifyAuthCodeInternal up to PKCE: what the caller presents fits the code.
Presents(hd, terms) ==
    /\ terms.party = hd.party
    /\ terms.challenge \in {None, hd.verifier}

\* Mutant: the code verifier is not checked.
TokenRead_NoPKCE(t) ==
    /\ At(t, "token_read")
    /\ LET c == h[t].code IN
       IF LiveCode(c) /\ ~codes[c].used /\ codes[c].terms.party = h[t].party
       THEN h' = [h EXCEPT ![t].at = "token_consume",
                           ![t].terms = codes[c].terms]
       ELSE Finish(t)
    /\ UNCHANGED <<storeVars, accountVars, devices, linkVars, browserVars>>

TokenRead(t) ==
    /\ At(t, "token_read")
    /\ LET c == h[t].code IN
       IF LiveCode(c) /\ ~codes[c].used /\ Presents(h[t], codes[c].terms)
       THEN h' = [h EXCEPT ![t].at = "token_consume",
                           ![t].terms = codes[c].terms]
       ELSE Finish(t)
    /\ UNCHANGED <<storeVars, accountVars, devices, linkVars, browserVars>>

\* Mutant: the UPDATE names the code only.
TokenConsume_Blind(t) ==
    /\ At(t, "token_consume")
    /\ codes[h[t].code] # None
    /\ codes' = [codes EXCEPT ![h[t].code].used = TRUE]
    /\ redemptions' = [redemptions EXCEPT ![codes[h[t].code].req] = @ + 1]
    /\ Finish(t)
    /\ UNCHANGED <<now, requests, drawn, sweep>>
    /\ UNCHANGED <<accountVars, devices, linkVars, browserVars>>

\* ConsumeAuthCode; the tokens leave with the response.
TokenConsume(t) ==
    /\ At(t, "token_consume")
    /\ \/ ConsumeAuthCode(h[t].code, h[t].terms)
       \/ ~Redeemable(h[t].code, h[t].terms) /\ UNCHANGED storeVars
    /\ Finish(t)
    /\ UNCHANGED <<accountVars, devices, linkVars, browserVars>>

-----------------------------------------------------------------------------
(* What operators do meanwhile: transactions of one step each.             *)

Edit == edits < MaxEdits /\ edits' = edits + 1

\* UpdateManagedUser with a new address: addresses are unique over all
\* accounts, deleted ones included.
ChangeEmail(u, e) ==
    /\ Edit
    /\ u \in live
    /\ \A v \in Users : email[v] # e
    /\ email' = [email EXCEPT ![u] = e]
    /\ devices' = [d \in Devices |-> IF devices[d] = u THEN None ELSE devices[d]]
    /\ ForgetUser(u)
    /\ former' = former \cup
           {requests[r].bind.token : r \in {q \in Requests :
               /\ requests[q] # None
               /\ requests[q].bind # None
               /\ requests[q].bind.user = u}}
    /\ UNCHANGED <<live, registered, links, mailed, honoured, browserVars, h>>

\* A soft delete touches no other table.
DeleteUser(u) ==
    /\ Edit
    /\ u \in live
    /\ live' = live \ {u}
    /\ UNCHANGED <<storeVars, email, registered, devices, linkVars,
                   browserVars, h>>

\* DeleteClient, or UpdateClient with the redirect URI dropped.
Deregister(party) ==
    /\ Edit
    /\ party \in registered
    /\ registered' = registered \ {party}
    /\ UNCHANGED <<storeVars, email, live, devices, linkVars, browserVars, h>>

-----------------------------------------------------------------------------

Abort(t) ==
    /\ h[t] # Idle
    /\ Finish(t)
    /\ UNCHANGED <<storeVars, accountVars, devices, linkVars, browserVars>>

Background ==
    /\ StartCleanup \/ CleanupExpiredAuthState \/ CleanupFails \/ Tick
    /\ UNCHANGED flowVars

AuthStep(t) ==
    \/ \E b \in Browsers, terms \in Terms : AuthStart(t, b, terms)
    \/ \E r \in Requests : AuthCreate(t, r)
    \/ AuthTrust(t)

LoginStep(t) ==
    \/ \E b \in Browsers, r \in Requests : LoginStart(t, b, r)
    \/ \E u \in Users : LoginUser(t, u)
    \/ LoginTrust(t)
    \/ \E b \in Browsers, u \in Users : AdminLoginStart(t, b, u)
    \/ AdminTrust(t)
    \/ \E r \in Requests : AdminCreate(t, r)
    \/ \E tok \in Tokens : LoginBind(t, tok)
    \/ LoginBindFails(t)
    \/ LoginMail(t)
    \/ LoginMailFails(t)
    \/ LoginUnbind(t)

VerifyStep(t) ==
    \/ \E b \in Browsers, tok \in Tokens : VerifyStart(t, b, tok)
    \/ VerifyFind(t)
    \/ VerifyConsume(t)
    \/ VerifyDevice(t)

TokenStep(t) ==
    \/ \E c \in Codes, party \in Parties, v \in Challenges :
           TokenStart(t, c, party, v)
    \/ TokenRead(t)
    \/ TokenConsume(t)

HandlerStep(t) ==
    \/ AuthStep(t) \/ LoginStep(t) \/ VerifyStep(t) \/ TokenStep(t)
    \/ (\E c \in Codes : Issue(t, c)) \/ IssueFails(t)
    \/ StatementFails(t)
    \/ Reply(t)
    \/ Abort(t)

Next ==
    \/ \E t \in Threads : HandlerStep(t)
    \/ \E u \in Users, e \in Emails : ChangeEmail(u, e)
    \/ \E u \in Users : DeleteUser(u)
    \/ \E party \in Parties : Deregister(party)
    \/ Background

Spec == Init /\ [][Next]_vars

-----------------------------------------------------------------------------
(* Properties.  That the handlers use the store only through its           *)
(* operations, so that its theorems hold of the running system, is the     *)
(* property StoreSpec.                                                     *)

\* A link for (u, d) that reached u's mailbox and was accepted.
Verified(u, d) ==
    \E tok \in mailed : /\ honoured[tok] > 0
                        /\ links[tok].user = u
                        /\ links[tok].device = d

\* Login to SaveDevice: a device is trusted for an account only if a login
\* with that account's password, on that device, asked for a link that was
\* mailed and accepted.
TrustIsEarned ==
    \A d \in Devices : devices[d] # None => Verified(devices[d], d)

\* Auth, Login and EmailVerify: no code leaves for an account unless the
\* calling browser's device was verified for that very account.
CodeNeedsVerifiedDevice ==
    [][\A t \in Threads, c \in Codes :
          Issue(t, c) => Verified(codes'[c].user, h[t].d)]_vars

\* EmailVerify: an emailed link is accepted once, even opened twice at once.
LinkHonouredOnce == \A tok \in Tokens : honoured[tok] <= 1

\* EmailVerify sets a session: opening a link signs in only a browser that
\* itself presented the account's password, whoever reads the mail.
SessionNeedsPassword ==
    \A b \in Browsers : cookies[b].sess # None => <<b, cookies[b].sess>> \in proved

\* UpdateManagedUser against EmailVerify: a link that was pending when its
\* account's address changed is never accepted afterwards, not even by a
\* handler that had already found its request.
FormerLinksStayDead == \A tok \in former : honoured[tok] = 0

\* CreateVerificationToken and EmailVerify: a binding that is cleared is the
\* clearing handler's own; a failed mail or an old link leaves a newer one.
ClearsOwnBinding ==
    [][\A r \in Requests :
          /\ requests[r] # None /\ requests[r].bind # None
          /\ requests'[r] # None /\ requests'[r].bind = None
          => \E t \in Threads : h'[t] # h[t]
                 /\ h[t].tok = requests[r].bind.token]_vars

\* Token: the caller whose consume succeeds presented the client, redirect
\* URI and verifier the request was made with, and that client could not have
\* been the console.
RedeemedByItsParty ==
    [][\A t \in Threads, r \in Requests :
          redemptions'[r] # redemptions[r] /\ h'[t] # h[t] =>
              LET asked == codes[h[t].code].terms IN
              /\ asked.party = h[t].party /\ asked.party # Console
              /\ asked.challenge \in {None, h[t].verifier}]_vars

-----------------------------------------------------------------------------
(* What the documents say and the code does not do.                        *)

\* "the account SHALL be soft deleted and its outstanding sessions SHALL stop
\* working on their next request": no request that starts with the session of
\* a deleted account yields a code.
SessionDiesWithAccount ==
    [][\A t \in Threads, c \in Codes : Issue(t, c) => ~h[t].late]_vars

\* "WHEN the email changes THEN trusted devices, pending email bindings and
\* authorization codes for that user SHALL be invalidated": a trusted device
\* was verified through the address the account has now.
TrustFollowsAddress ==
    \A d \in Devices : devices[d] # None =>
        \E tok \in mailed : /\ honoured[tok] > 0
                            /\ links[tok].user = devices[d]
                            /\ links[tok].device = d
                            /\ links[tok].addr = email[devices[d]]
=============================================================================
