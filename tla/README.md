# Frog-Grid-Forge in TLA+

Frog-Grid-Forge is an OpenID Connect identity provider written in Go
(`src/FGF-idP`: gin handlers over a gorm database) with a small relying-party
library (`src/fgf-oidc`). This directory holds TLA+ models of its stateful
parts, TLC configurations that check them on small instances, and TLAPS proofs
of the results that hold for every instance.

All paths below are relative to `src/FGF-idP` unless they start with `src/`.

## 1. Inventory

| Part | Code | State | Operations |
|---|---|---|---|
| Auth state store | `model/auth_state.go` | tables `auth_requests`, `auth_codes`; both rows expire | create, bind and consume an email verification, issue a code, consume a code, clean-up job |
| Authorization endpoint | `controller/authorization.go` | none of its own | `Auth`, `issueCodeAndRedirect` |
| Login | `controller/login.go` | session and device cookies | `Login`, `respondDeviceVerification` |
| Email verification | `controller/verification.go`, `common/crypto.go` | signed links; nothing stored but the binding | `CreateVerificationToken`, `EmailVerify` |
| Token endpoint | `controller/token.go` | none of its own | `Token`, `UserInfo` |
| Users and trusted devices | `model/user.go`, `controller/admin.go` | tables `users` (soft deletion), `user_devices` | admin login, address change, role change, deletion, creation |
| Sessions and revocation | `model/token.go`, `controller/session.go`, `middleware/auth.go` | table of revoked tokens | logout, validation, removal of expired rows |
| Client registry | `model/client.go`, `model/jwk.go`, `controller/admin_client.go` | table `clients` | register, update, rotate the secret, delete, validate |
| Rate limiter | `middleware/limiter.go` | a map of queues under a mutex | `Request`, `clearExpiredItems` |
| Start-up | `main.go`, `model/main.go`, `common/crypto.go` | key files, table `jwk_keys`, metadata, startup record, default client, root account; the clean-up goroutine | migrate and seed, serve, shut down |
| Paging and search | `model/query.go`, `frontend/assets/admin.js` | the console's page | offset arithmetic, LIKE pattern, next page |
| Log rotation | `common/logger.go` | writer, counter, working flag | write, rotate, rebuild |
| Relying-party client | `src/fgf-oidc/client.go` | sealed login state in a cookie | `Begin`, `Exchange` |
| Keys and discovery | `controller/jwk.go` | none | read-only views |
| HTTP plumbing, mail transport, configuration, front ends | `router/`, `middleware/cors.go`, `common/email*.go`, `common/env.go`, `frontend/`, `src/web` | none | pure input and output |

How they interact. A browser opens `/x/auth`; `Auth` stores a request and
either sends the browser to the login page or, when its session and device are
good, turns the request into a code. `Login` checks a password and either
issues the code or mails a link; `EmailVerify` answers the link, trusts the
device and issues the code; the relying party's server redeems it at
`/x/token`. The admin console logs in through the same machinery with a request
of its own that never leads to a code. Everything they share is in the
database, one statement or transaction at a time; nothing is locked between
two statements of a handler. A clean-up goroutine removes expired rows, and
operators edit accounts and clients meanwhile. Several nodes may run over one
database; each seeds it and finds its signing key when it starts.

What is hard here, and what makes each part correct:

* *Auth state store*: completions of one request race each other, token calls
  race each other, rows expire or are removed between a read and a write. It is
  correct when a request becomes at most one code and a code at most one
  answer, when nothing unexpired is cleaned up, and when everything expired is.
* *Login, verification*: two logins can share a request, a mail can fail after
  a newer one was sent, a link can be opened twice, elsewhere, or after its
  address moved to another account. Correct when trust in a device and sessions
  come only from a password entered on that device or browser and, for trust,
  a mail received.
* *Token endpoint*: what the caller presents is compared with a copy of the
  row. Correct when the update that consumes the row cannot hit a row the
  comparison would have refused.
* *Users and their administration*: an address change has to take every older trust with it; writes must
  not overwrite rows that changed since they were read.
* *Rate limiter*: queues are bounded, rotated and deleted. Correct when the
  window is respected across a deletion and quiet addresses leave the map.
* *Sessions and revocation*: a token is checked by its signature and expiry
  first and against three tables afterwards, while logouts, edits and the
  clean-up of revocations go on. Correct when a token that was revoked before a
  call began opens nothing in that call, when a logout that reports success
  leaves no usable token, and when whatever an answer rests on was true during
  the call.
* *Client registry*: the id is probed and then inserted, the row is read twice
  by the token endpoint, the list is paged by offset while it changes. Correct
  when an id is registered once and for all, nothing outdated is accepted, and
  a walk through the pages loses no more than concurrent edits explain.
* *Start-up*: crashes between the steps, several nodes at once, key files lost
  or half written, key paths that other nodes share. Correct when a node never signs
  with a key that is not the published one of the kid it names, complete keys are never
  overwritten (both where the `mkdir` guards the files, see Node), and a node that is
  started again and again comes to serve.
* *Relying-party client*: callbacks come twice, late, in another browser, or with
  the code of another flow, and the token call may time out. Correct when a browser is
  logged in only through its own flow, once per code, and a code with a challenge is not
  spent elsewhere.
* *Log rotation*: see section 6.

`PROJECT.json` lists every hazard with its line and the property that covers it.

## 2. Modules

```
OneTimeGrant            the promise: one grant, one redemption, before the deadline
   ^ implemented by
AuthStore               auth_state.go          <- AuthStoreProofs     MCAuthStore
   ^ extended by
AuthFlow                the handlers           <- AuthFlowProofs      MCAuthFlow
AdminUsers              admin.go, user.go      <- AdminUsersProofs    MCAdminUsers
RateLimiter             limiter.go             <- RateLimiterProofs   MCRateLimiter
Sessions                token.go, session.go,                         MCSessions
   ^ extended by        auth.go
RelyingParty            fgf-oidc/client.go     <- RelyingPartyProofs  MCRelyingParty
ListQuery               query.go               <- ListQueryProofs
   ^ extended by
ClientRegistry          client.go,             <- ClientRegistryProofs
                        admin_client.go, jwk.go                       MCClientRegistry
Node                    model/main.go,         <- NodeProofs          MCNode
                        crypto.go, main.go
```

A proof module extends the module it is about, and the proof modules it builds
on: AuthFlowProofs extends AuthStoreProofs, ClientRegistryProofs extends
ListQueryProofs. RelyingPartyProofs begins with the proofs about Sessions, whose
steps are steps of RelyingParty too.

### AuthStore and OneTimeGrant

`requests` and `codes` are the tables, `drawn` the random values handed out so
far, `sweep` the time the running clean-up captured, `now` the clock.
`redemptions` and the field `req` of a code are history. There is one action
for each exported function of `auth_state.go`: each is a single conditional
`UPDATE`, a single `INSERT`, or one transaction, so each is one step.
`RunAuthCleanup` is two steps, because it reads the clock before its
transaction begins. `ForgetUser` is what `UpdateManagedUser` does to these
tables when an address changes.

Data abstraction: client id, redirect URI, challenge and challenge method (and
scope, state, nonce, which the code never compares) are one value, the *terms*;
the three `email_verify` columns, always written together, are one nullable
value, *bind*. The `WHERE` clause that names all the terms again in
`ConsumeAuthCode` is `Redeemable`.

`OneTimeGrant` is the abstract specification: a request is new, pending,
granted, redeemed or closed, and has a deadline. `AuthStore` maps to it with
`phase` and `deadline`, and the property `GrantSpec` says that every behaviour of
the tables is one of `OneTimeGrant`.

### AuthFlow

A handler is a goroutine: `h[t]` is what handler `t` has read so far and the
statement it is about to run, so any two handlers interleave at every
statement. The operations on the two tables are AuthStore's own actions, used
unchanged. The correspondence:

| Code | Actions |
|---|---|
| `Auth` | `AuthStart`, `AuthCreate`, `AuthTrust` |
| `issueCodeAndRedirect` | `Issue`, `IssueFails` |
| `Login` | `LoginStart`, `LoginUser`, `LoginTrust` |
| `AdminLogin` | `AdminLoginStart`, `AdminTrust`, `AdminCreate` |
| `respondDeviceVerification`, `CreateVerificationToken` | `LoginBind`, `LoginBindFails`, `LoginMail`, `LoginMailFails`, `LoginUnbind` |
| `EmailVerify` | `VerifyStart`, `VerifyFind`, `VerifyConsume`, `VerifyDevice` |
| `Token`, `verifyAuthCodeInternal` | `TokenStart`, `TokenRead`, `TokenConsume` |
| cookies on a response | `Reply` |
| a failing statement, a cancelled context, a crash | `StatementFails`, `Abort` |
| `UpdateManagedUser`, `DeleteUser`, `UpdateClient`, `DeleteClient` | `ChangeEmail`, `DeleteUser`, `Deregister` |

`StatementFails` exists beside `Abort` because the session cookie is put on the
response before the later statements of `Login` run: an error answer carries it.

Abstractions that matter when reading the properties:

* A registered (client, redirect URI) pair is one value, a *party*. A PKCE
  verifier is named by the challenge it hashes to; an unknown challenge method
  is a challenge no caller's verifier fits.
* A link's signature is perfect: a link that is presented is one the server
  made, with the address and expiry it was made with. It can be presented only
  after it was mailed, by anybody.
* A token caller knows the secret of the client it names, and calls with a code
  that was handed out.
* Session cookies neither expire nor are revoked here; the address of an
  account is unique among all accounts, deleted ones included, as the index is.
* A statement reads the clock and runs in one step; the two readings of the
  clock in `IssueAuthCode` are one. All nodes share one clock that does not run
  backwards. A transaction is one step: exact for SQLite, whose writers are
  serialised; on PostgreSQL's default isolation the transaction of
  `UpdateManagedUser` is several statements and this is an assumption.
* `proved`, `honoured`, `former`, a link's user and device, a handler's `late`
  and a code's `req` are history: no guard reads them.

### AdminUsers

`users` is the table with the columns the guards and the unique indexes look
at, `h[t]` what a console request has read. `Start` is `RequireRole` and the
checks of the body, `LoadTarget` is `GetUserByID` with `guardTarget` and the
check of the level asked for; `UpdateUserRole`, `DeleteUser`,
`UpdateManagedUser` and `CreateManagedUser` are the writes, conditional on the
`role` and `updated_at` that were read (`Current`). `Refuse` is every refusal,
conflict and failure; it can also happen where the code would succeed, which
covers a cancelled request. `updated_at` is a stamp that differs between two writes:
databases keep it to the microsecond at least, and that no two writes of a row
fall into one tick is an assumption. `IdentityFree` is the unique index at the moment
of the write; `checkUserIdentity`, a statement earlier, can only refuse what it finds
then, which is a `Refuse`, so another request's write between probe and write is met by
the index, as in the database. The index is case-sensitive, but the console stores
names and addresses in lower case. Who may call is any live account: sessions and trusted
devices are AuthFlow's subject, and what an address change does to other tables
is AuthFlow's `ChangeEmail`.

### RateLimiter

`store` maps an address to its queue. `Request` and a pass of
`clearExpiredItems` run under the mutex, one step each; the four branches of
`Request` are four actions. The code passes one number as the window and as the
queue's expiry, so there is one constant. `accepted` is history. A
rejected request is a step that changes nothing, as in the code.

### Sessions

`tokens` are the signed tokens, `revoked` the table of revocations with the
expiry each row keeps, `level`, `trusted` and `clients` what the later checks
read, `h[t]` a running handler. `CallStart` is the check of signature and
expiry, which asks no table; `CheckRevoked` is the count of revocations;
`AdminRole` and `AdminTrust` are the middleware (`authenticate`), `InfoClient`
and `InfoUser` the body of `UserInfo`. `LogoutRevoke` is one insert of
`RevokeToken`, `LogoutSkip` a token that has expired, `LogoutRefuse` one of the
wrong type; `NextToken` is the loop over the bearer token and the cookie.
`CleanupRevocations` is the clean-up job's statement for this table with the
time it captured before. A token's device cookie is not modelled apart from its account:
`trusted` says whether the device the call came with is. `dead`, `late`,
`asked`, `seen` and `gone` are history.

### RelyingParty

Composes a service that uses the library with Sessions: the access token an
exchange receives is a token there, and the UserInfo call of an exchange *is*
that module's handler, so revocation, edits and expiry come between its steps.
`Begin` seals state, nonce and verifier (drawn together, one *transaction*)
into the browser's cookie; `GrantCode` is the provider's answer to a request of this
client. Challenge and nonce are parameters of its address and need not come from one
transaction, and the challenge may be missing; a request without a nonce ends like one
with a foreign nonce and is left out. State and code are parameters of the callback's
address and as independent: `Callback` and `CallbackRefused` open the cookie and compare the
state with it, and nothing else. A code of another flow is refused by the token endpoint
when its challenge does not fit this flow's verifier (`Redeemable`), and after that when
its nonce is not the cookie's (`ExchangeVerify`). `ExchangeToken`, `ExchangeVerify`, `ExchangeInfo` are the three calls of
`Exchange` after that, `ExchangeFails` a refusal or timeout at any of them, also after the
provider consumed the code. Sealing is perfect. The token endpoint is the one redemption per code
that AuthStore proves.

### ListQuery and ClientRegistry

ListQuery has the functions of `query.go`. `LIKE ... ESCAPE`, which is the
database's, reads a pattern from its end: `Places` are the places of the text from which
the pattern matches when it is read from `i` on, given those for `i + 1` and `i + 2`. ClientRegistry is the table with the console's
operations on it (`CreateCount` and `CreateInsert`, `Update` and `UpdateLoad`,
`RotateSecret`, `DeleteClient`), the token endpoint's double read
(`CheckClient`, `CheckUrl`), and a console that walks through the list with the
next page button. A client is its secret, its redirect URIs and its name; a search
looks at the id and the name. `Update` changes name and redirect URIs, either or
neither; the scope is left out, since nothing here reads it. A secret stands for its hash.
`told` are the secrets a response told somebody, which are those anybody presents.

### Node

`p[n]` is the process of a node: the statement of `InitDB` it is at, the keys
it has loaded, the kid it signs with, and its clean-up goroutine. `Probe` and
`Insert` are the two shapes most of the seeding has. A *volume* is what
`PRIV_KEY_PATH` and `PUB_KEY_PATH` name together: a node has one, and nodes may have the
same. `disk` is its two files, each absent, torn (created and not yet written) or
a key. The directory that `GenerateRSAKeyPair` makes is another matter: always
`./keys` of the working directory, `cwd[n]`, and `keysDirs` are the working directories
that have one. `Under` says in whose `./keys` a volume lies, if in any, which is
where its files need a directory and vanish with it. The default paths are the case
`Under[volume[n]] = cwd[n]`. `Mkdir` is the only step that tests the directory, so it keeps two
nodes apart when they have one working directory, and guards files only when
they lie there (`InOwnKeys`). `os.WriteFile` is the two steps `OpenFile` and `FillFile`.
`ensureActiveJWK` is its four queries in order; `Newest` is their `ORDER BY id
DESC`. `Serve`, `Terminate`, `Shutdown`, `Deferred`, `CleanupReturns` and
`CloseDB` are `run` and `serveHTTP`. `Crash` ends a process anywhere; an error
during start-up does the same (`Exit`). Migration, the router and the text of
the metadata are not told apart. `Deactivate`, `LoseFile` and `RemoveKeys` are operators at
work by hand, `EditClient` is the console deleting the default client.

## 3. Runs

| Run | Instance | Shows |
|---|---|---|
| `store` | 2 requests, 2 codes, 2 terms, clock to 3 | `TypeOK`, `OneGrantPerRequest`, `LiveRequestLeavesForCause`, `GrantSpec`; with fairness, `ExpiredStateIsRemoved` |
| `flow_login` | 2 accounts (one admin), 3 addresses, 2 browsers, 2 devices, 1 handler, 1 request, 1 link, 2 edits | `FlowTypeOK`, `TrustIsEarned`, `SessionNeedsPassword`, also when an address moves from one account to another |
| `flow_links` | 1 account, 2 browsers, 2 devices, 2 links, 2 handlers, 1 edit | `TrustIsEarned`, `LinkHonouredOnce`, `FormerLinksStayDead`, `ClearsOwnBinding` |
| `flow_token` | 2 accounts on one device, 2 relying parties, 2 challenges, clock to 1, 1 edit | `CodeNeedsVerifiedDevice`, `RedeemedByItsParty`, `StoreSpec` |
| `admin_users` | a root account, an administrator, an account to be created, 2 requests, 2 timed writes | `AdminInv`, `UniqueIdentities`, `GuardedWrites`, `NoLostEdit`, `RootsNeverChange` |
| `limiter` | 2 addresses, queues of 2, window of 2 s, clock to 5 | `LimiterInv`, `SlidingWindow`; with fairness, `QuietKeysAreForgotten` |
| `sessions` | 1 account, 2 roles, 1 client, 2 tokens, 2 handlers, clock to 1, 1 edit | `TypeOK`, `RevokedStaysRevoked`, `LogoutMeansLoggedOut`, `AnswersAreFresh` |
| `relying_party` | 2 accounts, 2 browsers, 3 transactions, a code for any of them, 2 exchanges, clock to 1, 1 edit | `RPTypeOK`, `LoginIsOwn`, `OneLoginPerCode`, `BoundCodesAreSpentAtHome` |
| `registry` | 3 client ids, one taken, 2 names, 3 secrets, 2 redirect URIs, 2 handlers of which one may page, pages of 1, 1 update | `TypeOK`, `RegisteredOnce`, `AcceptedIsCurrent`, `WalkIsComplete`, `SearchIsLiteral` |
| `node` | 2 nodes, 2 working directories, 3 volumes in 4 placements, 1 failure, 1 edit by hand | `NodeTypeOK`, `KidNamesKey`, `PairIsKept`; with fairness, `ServesUnlessStranded` |
| `flow_deleted` | 1 account, 2 requests | a violation, section 5 |
| `flow_stale` | 1 account, 1 edit | a violation, section 5 |

What the properties say:

* `OneGrantPerRequest`: never more than one code per request, the request gone
  once it has one, at most one redemption.
* `LiveRequestLeavesForCause`: an unexpired request disappears only into its
  code or because its account's address changed, however late a clean-up runs
  after it read the clock.
* `TrustIsEarned`: a device is trusted for an account only if a login with that
  account's password on that device asked for a link that was mailed and
  accepted.
* `SessionNeedsPassword`: a browser is signed in only to an account whose
  password was entered in it, although opening a link sets a session too.
* `CodeNeedsVerifiedDevice`: a code leaves for an account only to a device once
  verified for that account.
* `LinkHonouredOnce`, `FormerLinksStayDead`, `ClearsOwnBinding`: a link counts
  once; not at all if it was pending when the address changed; and failing to
  send a mail or opening an old link never clears a newer login's binding.
* `RedeemedByItsParty`: what consumed a code presented the party and verifier
  its request named, and it was not the console's.
* `StoreSpec`: the handlers use the two tables only as AuthStore allows.
* `GuardedWrites`: a console write hits a live account of somebody else, below
  root and below the caller's level *when it runs*, not only when it was read,
  and leaves it below that level.
* `NoLostEdit`: a write changes only what its request asked for, although an
  edit writes all columns of the profile.
* `RootsNeverChange`, `UniqueIdentities`: the console neither makes nor touches
  a root account; names and addresses are unique, deleted accounts included.
* `SlidingWindow`: of any `Max + 1` consecutive accepted requests the first and
  last are at least `Duration` apart, although queues are dropped and rebuilt.
* `RevokedStaysRevoked`: a token whose revocation was stored before a call
  began is not accepted by that call. The one exception is the code's: a
  token that expires between the check of its expiry and the count of revocations, which
  no longer sees the row of an expired token.
* `LogoutMeansLoggedOut`: a logout that answers 200 leaves every token it was
  given revoked or expired, although it revokes them one by one.
* `AnswersAreFresh`: the role a console caller is admitted with, the trust in
  its device, the account whose claims are told and the client they are told
  to were all there at some time during the call.
* `LoginIsOwn`, `OneLoginPerCode`, `BoundCodesAreSpentAtHome`: whatever code the
  callback brings beside the browser's own state, a browser is logged in only with a
  code that has the nonce, and the challenge if it has one, of a flow begun for that
  browser, and as the account that granted it; one code logs in once; a code with a challenge is spent only in
  the browser of the flow it was made for, though other browsers may send it. A code without a
  challenge can be spent, and so lost, by a foreign callback; the nonce refuses the log-in.
* `RegisteredOnce`: one of two racing registrations of an id succeeds, and an
  id is never registered again, not even after its client was deleted.
* `AcceptedIsCurrent`: secret and redirect URI of an accepted client were both
  valid at some time during the call, although they come from two reads.
* `WalkIsComplete`: paging misses no more of the clients that were in the search all
  the time than left it meanwhile, and repeats no more than came into it. A client
  leaves a search when it is deleted or renamed, and comes into it when it is registered
  or renamed; both happen in the run's instance.
* `SearchIsLiteral`: `%` and `_` in a search term stand for themselves: what a page
  shows contains the term, in its id or its name, when the page is read.
* `KidNamesKey`: the public key a node loaded is published under the kid it names,
  unless that kid was deactivated by hand under the running node; and where its key files
  are guarded by the `mkdir` (`InOwnKeys`), it signs with the private half of that key.
* `PairIsKept`: a complete pair of key files that is so guarded is never overwritten.
* `ServesUnlessStranded`: a node serves again and again, or is stranded: its key files
  are not whole while its `./keys` is there or both are, and nobody is writing them; the name or address of root or the default client's id is
  taken by a row the query does not find, or no key is active and the first kid is taken. `Stranded` lists
  exactly what the code cannot get out of by itself.

Bounds. Two handlers are enough for every race between a pair of statements;
each handler goes back to idle and starts again, so a behaviour holds many
calls. `MaxTime` bounds the clock: in `store` a request can be granted in its
last unit and its code expire before the clock stops, and in `flow_token` a row
can expire between a handler's read and its write. In the other runs time
stands still, which only removes the chance to reject by expiry; what they check does not
depend on it. `MaxEdits` bounds the operators: one edit is enough to disturb any
pair of statements, two are needed to move an address from one account to the
other (the first leaves it, the second takes it). In `admin_users` two timed
writes let an account be created and promoted, or edited twice, under a request
that has already read it; deletions take no stamp and are not bounded. Random values are drawn from a finite set and never twice, so
the number of requests, codes and links in a behaviour is bounded by the size of the
sets: the runs choose it so that two of a kind coexist where the property
relates two.

In `sessions` and `relying_party` one tick takes every token, cookie and code from valid
to expired, between any two steps of a call; in `registry` three ids are needed for a
page to shift either way, one update renames a client or changes its redirect URIs, and `Walkers` keeps the second handler from paging
too, since two walks do not affect each other. One code is enough in `relying_party`,
whose three transactions let it be made for the flow it is used in, for another flow of that
browser and for one of the other browser. In `node` the initial states are
a root name that is free or taken and four placements: two nodes in one directory with the
default paths; two that share their key files from directories of their own; two in one
directory of which one has its files elsewhere; and files whose directory nobody makes. One
failure and one edit by hand are enough to reach every case of `Stranded` and every restart behind it.

Systems may stop: when all random values are drawn and the clock has stopped, a
handler can still be started and refused, so no run disables the deadlock check
but `relying_party`: it ends when transactions and codes are used up and no cookie is left.

Symmetry is used in the `flow` runs, in `sessions`, `relying_party` and
`registry` and, for the requests, in `admin_users`,
which check invariants and
action properties only. Handlers, browsers, devices, requests, codes and links
are compared for equality and no operator chooses among them in a way a property can see (the
one `CHOOSE` is over a set with at most one element). The runs that check
liveness use none.

Fairness. `store`: the clock advances (WF), the timer of `RunAuthCleanup` fires
again after every pass (WF on `StartCleanup`), and a transaction that is tried
at every tick does not fail every time (SF on `CleanupExpiredAuthState`; the
loop has no other retry, so nothing weaker would do). `limiter`: the clock
advances, and the goroutine's `Sleep` returns (WF). `node`: a process that can go
on does, and whoever runs the service starts a node that is down again (WF on
`Run`); passes of the clean-up end and its ticker ticks (WF on `CleanupPass`);
the `select` of its loop chooses at random among the channels that are ready, so
a cancelled context is chosen at some time (SF on `CleanupReturns`). `AuthFlow` states no fairness: nothing obliges a
person to open a link.

## 4. Proofs

Checked by TLAPS for all values of the constants, under the named assumptions of
the modules:

| Assumption | Says |
|---|---|
| `TTLAssumption`, `NoneAssumption`, `IdAssumption` | lifetimes are positive, NULL is not a row, ids and codes do not collide |
| `FlowAssumption` | the types of the flow's constants; the console is a party with terms of its own |
| `LinkAssumption`, `TokenAssumption`, `RowAssumption` | NULL is no link, no token, no flow, no authorization response and no client |
| `AdminAssumption` | root is the highest level, the seeded accounts have different identities |
| `LimiterAssumption` | window and queue size are positive |
| `SessionsAssumption`, `RPAssumption` | the types of their constants; the relying party is one of the clients |
| `ListQueryAssumption` | the default and the largest page size are positive |
| `RegistryAssumption` | the types of its constants; the seeded clients have different secrets |
| `NodeAssumption` | a placement gives every node a directory and a volume; the marks for an absent file, a torn file and the first kid are no keys |

* `AuthStoreProofs`: `StoreTyping`, `GrantedOnce`, `CleanupSparesTheLiving` and
  the refinement `StoreImplementsGrant`. The inductive invariant is `StoreInv`:
  the type invariant and `OneGrantPerRequest` are not inductive without
  `IdsAreDrawn` (a row exists only under a value already drawn, so a fresh code
  cannot land on a row, nor a fresh request inherit codes) and `SweepIsPast` (the
  captured time is not ahead of the clock, so what a clean-up removes has
  expired by now).
* `AuthFlowProofs`: `FlowTyping`, whose inductive invariant includes `Ready`,
  what a handler has read by the time it reaches each statement: without it the
  arguments of the store's operations are not known to be in their types.
  `FlowUsesStore` shows every step of the handlers to be a step of `StoreSpec`
  or to leave the tables alone; `ServiceGrantsOnce` and
  `ServiceImplementsGrant` carry the store's results over to the running
  service, for any number of handlers, failures and edits.
  Its second half is about the promises of the handlers, `DevicesEarnTrust`,
  `LinksCountOnce`, `WithdrawnLinksStayDead`, `SessionsNeedPasswords`,
  `CodesNeedVerifiedDevices`, `OwnBindingCleared`, `RedeemersPresentTheirs`. None is
  inductive alone. `BindInv` says that a binding belongs to one link and a link to
  at most one binding, so that the `UPDATE` that consumes the binding uses the link up,
  and that the point a handler is at tells what was verified. `OwnInv` says that
  a device cookie is in one browser's hands, counting the cookies on their way in
  running handlers: whoever presents it is the browser the password was entered in.
  `TokenInv` says that a token call past its checks presented what it goes on
  with. `FlowIsSafe` is their conjunction with `FlowTypeOK`.
* `AdminUsersProofs`: `AdminInvariant`, `WritesAreGuarded`, `NoEditIsLost`,
  `RootsStay`, `IdentitiesStayUnique`. The inductive invariant adds
  `ChecksPassed` (a request at its write has passed the checks on the row it
  saw) and `SeenIsPast` (a row that still has the stamp that was seen still has
  the values that were seen), which needs `StampsArePast`. All writes share one shape, `WriteKeepsInv`,
  and one conclusion, `Sound`.
* `RateLimiterProofs`: `LimiterInvariant`, `LimiterWindow`, `LimiterIsExact`. The window alone is
  not inductive: `QueueIsRecent` says that a queue is the end of the accepted
  history, that what a queue with room has forgotten was out of its window, and
  that an address without a queue has only accepted times that are past.
  `LimiterIsExact` is the other direction: a request is turned away only when the
  whole history of what passed would reach the limit too.
* `RelyingPartyProofs`, about Sessions: `SessionsTyping`, `RevocationLasts`, `LogoutIsComplete`,
  `AnswersStayFresh`. `GoneStayOut` says that a revoked token has its row until it
  has expired, which needs that the time a clean-up captured is past when it
  deletes; `CallKnows` and `LogoutKnows` say what a call has found out at each of its
  points, and which of its tokens a logout has still before it.
* `RelyingPartyProofs`, about the relying party: `RPTyping`, `LoginsAreOwn`, `CodesLogInOnce`,
  `CodesSpentAtHome`. `RPKeepsSessions` carries the invariant of Sessions through the
  steps of the relying party. `FlowsAreOwn` says whose cookies and exchanges
  are, `Fits` what each point of an exchange has found out about its code (the challenge
  at the token endpoint, the nonce after it), `CodesAreSpent` that a redeemed code belongs to one exchange until it has
  logged in.
* `NodeProofs`: `NodeTyping`, `KidsNameKeys`, `PairsAreKept`. Nothing in the code
  compares the two key files, so the proof is about who writes them: `os.Mkdir` lets
  one node of a working directory through (`OneMaker`). Where the files lie in the directory it makes,
  the maker's point says how far they are (`Making`);
  hence two complete files are one pair (`PairsMatch`), also for a node that read
  them one after the other while a third was starting (`KeysRead`). What the kid names
  (`KidKnown`) does not depend on that, and holds for any placement.
* `ListQueryProofs`: what the two recursive functions compute. `LikeIsIncludes`: for
  every text and every term without a backslash, the escaped pattern matches exactly the
  texts that contain the term. `Layout` says where each character of the term
  stands in the pattern, alone or behind a backslash, and `PatternStands` that the places
  `LIKE` computes there are the places where the rest of the term stands in the text
  (`Stands`). The
  inductions, over the length of the pattern and of the term, are carried out with `Steps`, which
  follows from the least element of a set of numbers (`LeastNat`): the library's
  induction theorem has an operator for a parameter, which the provers cannot instantiate.
  `PagesCutTheList` and `PagesFit`: a page is the rows of its ranks, with the probe
  row it says truthfully whether more follow, and it is never longer than its size.
* `ClientRegistryProofs`: `RegistryTyping`, `IdsRegisteredOnce`, `AcceptedAreCurrent`,
  `WalksAreComplete`, `SearchesAreLiteral`, `QuietWalksAreExact`. `HandlerKnows` says
  what each point of a handler has established: the secret of the row `ValiClient` read
  first is among what held since the call began. `WalkIsComplete` speaks of a
  finished walk; what holds on the way is `WalkKnows`. Of the rows
  on the pages asked for so far, the clients that were in the search all the time and were not shown
  are no more than those that left it, and those shown twice, or shown and still ahead
  of the next page, no more than those that came. A client that leaves moves one row to
  the front (`WalkLosesRow`), one that comes moves one row behind (`WalkGainsRow`), and the next page
  takes from both sets (`WalkTurnsPage`). A step changes one row (`RowsMove`), hence a search by at most
  one client (`RowsMoveSearch`), whether it is registered, deleted or renamed.
  `QuietWalksAreExact` is the case that nothing came or left.

Only model-checked: the liveness properties `ExpiredStateIsRemoved`,
`QuietKeysAreForgotten` and `ServesUnlessStranded`, since liveness under fairness is out
of the prover's reach. Every other property of a passing run is stated by a
theorem. The widths of integers do not enter any of them.

## 5. Where documents and code disagree

* `flow_deleted`. The admin specification and a comment in `model/user.go` say
  that the sessions of a soft deleted account stop working on their next
  request. `Auth` takes the account from the session cookie without looking it
  up, and the trusted device survives the deletion: a call to `/x/auth` that
  starts after the deletion still yields a code. `UserInfo` and the admin console do
  look the account up.
* `flow_stale`. The specification says that an address change invalidates
  trusted devices. `EmailVerify` consumes its link and saves the device in two
  statements; an address change that commits between them removes the older
  devices, and the device is then saved although it was verified through the
  old address. `FormerLinksStayDead` is the part that does hold.

Three more, which the models contain and no run of their own shows:

* The admin specification (`openspec/changes/add-admin-console/specs/admin/spec.md`)
  wants wildcard characters in a search to be literal. `likeEscaper`
  (`model/query.go:17`) maps the escape character to itself, so a backslash in a
  term makes the next character literal, or at the end of a term the closing
  `%`: `SearchIsLiteral` and `WalkIsComplete` speak of terms without one (`Plain`).
* `README.md:126` of the service says that key files are generated when they do
  not exist. `GenerateRSAKeyPair` begins with `os.Mkdir` (`common/crypto.go:110`), which
  fails when the directory exists: a lost file, an empty mounted directory or a
  crash during generation keeps the service from starting (`Stranded`). The same `Mkdir`
  is what keeps two nodes in one directory from mixing their pairs (mutant `Mkdir_All`).
* `README.md:63` of the service lets several nodes share the files that `PRIV_KEY_PATH`
  and `PUB_KEY_PATH` name. The directory made is `./keys` of the working directory whatever
  these paths are, so nodes that share them from directories of their own are not kept apart: when
  both start without files, one can overwrite the other's complete pair, or leave one
  half of each on disk, which `LoadKey` accepts and a node then signs with. One such
  placement is in `node`; without `InOwnKeys` both `KidNamesKey` and `PairIsKept` are violated
  there. Files put in place before the nodes start, as that line has it, avoid this.
* A default client that was deleted in the console, and a key table without an
  active row, keep the service from starting as well (`model/main.go:305`, `256`; `Stranded`).

## 6. Not modelled

HTTP plumbing, CORS, request logging, the layout of mails, the SMTP dialogue,
environment parsing, the pages of the front ends and the development proxy
(pure input and output), the key and discovery views (read-only), and
cryptography itself.

Log rotation (`common/logger.go`): writer, counter and the working flag are
shared without synchronisation, so what happens when two goroutines log at the
limit is a data race whose outcomes only concern the log; nothing else in the
system depends on it. It is listed among the hazards.

The width of the integers in `pageArgs` (`(page - 1) * size` overflows for a page
number nobody reaches by paging).

`UpdateManagedUser` changes an address in one transaction of several
statements; AuthFlow has it as one step, see the assumption there.
