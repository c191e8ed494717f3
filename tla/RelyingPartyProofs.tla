------------------------- MODULE RelyingPartyProofs -------------------------
(***************************************************************************)
(* What the provider's sessions and a service with fgf-oidc may rely on,   *)
(* for any number of accounts, tokens, handlers, browsers, flows and       *)
(* callbacks.                                                              *)
(*                                                                         *)
(* Sessions rest on the table of revocations: a revoked token has a row    *)
(* until it expires, because the time a clean-up captured is past when it  *)
(* deletes (GoneStayOut).                                                  *)
(*                                                                         *)
(* At the service, a cookie is for the browser that holds it and a running *)
(* exchange for the flow its code was granted for (FlowsAreOwn); a         *)
(* redeemed code belongs to one exchange until it has logged in            *)
(* (CodesAreSpent).                                                        *)
(***************************************************************************)
EXTENDS RelyingParty, TLAPS

-----------------------------------------------------------------------------
(* Sessions: what their induction rests on.                                *)

\* A revoked token keeps its row until it has expired.
GoneStayOut ==
    /\ sweep # None => sweep <= now
    /\ \A j \in gone :
           tokens[j] # None /\ (revoked[j] # None \/ tokens[j].exp <= now)

\* What a call has found out at each point.
CallKnows(t) ==
    /\ h[t].at \in CallPoints /\ h[t].dead => h[t].tok \in gone
    /\ h[t].at \in Honoured => ~h[t].dead \/ h[t].late
    /\ h[t].at \in {"admin_trust", "admitted"} => h[t].level \in seen[t]
    /\ h[t].at = "admitted" => "trusted" \in seen[t]
    /\ h[t].at \in {"info_user", "told"} => "client" \in seen[t]
    /\ h[t].at = "told" => h[t].level \in seen[t]

\* The tokens a Logout call still has before it.
InTodo(js) == {js[i] : i \in DOMAIN js}

\* What a Logout call has still to do, and has done.
LogoutKnows(t) ==
    /\ h[t].at = "logout" => h[t].todo # <<>>
    /\ h[t].at = "logged_out" => h[t].todo = <<>>
    /\ h[t].at \in {"logout", "logged_out"} =>
           \A j \in h[t].asked :
               /\ tokens[j] # None
               /\ j \in InTodo(h[t].todo) \/ j \in gone \/ now >= tokens[j].exp

SessionsInv ==
    /\ TypeOK
    /\ GoneStayOut
    /\ \A t \in Threads : CallKnows(t) /\ LogoutKnows(t)

-----------------------------------------------------------------------------
(* Steps of one handler.                                                   *)

\* Time passes, tokens stay, revocations stay known.
Onward ==
    /\ now' \in Nat /\ now' >= now
    /\ gone \subseteq gone'
    /\ \A j \in Tokens : tokens[j] # None => tokens'[j] = tokens[j]

LEMMA Ended ==
    ASSUME h \in [Threads -> Handler], NEW t \in Threads, Finish(t)
    PROVE  /\ h' \in [Threads -> Handler]
           /\ h'[t].at = "idle"
           /\ \A s \in Threads \ {t} : h'[s] = h[s]
<1>1. Idle \in Handler /\ Idle.at = "idle"
  BY DEF Idle, Handler
<1> QED
  BY <1>1 DEF Finish

LEMMA CallStarts ==
    ASSUME h \in [Threads -> Handler], NEW t \in Threads, NEW j \in Tokens,
           NEW p \in {"admin_revoked", "info_revoked"}, CallStart(t, p, j)
    PROVE  /\ h' \in [Threads -> Handler]
           /\ h'[t].at = p /\ h'[t].tok = j /\ h'[t].dead = (j \in gone)
           /\ \A s \in Threads \ {t} : h'[s] = h[s]
           /\ tokens[j] # None
<1> DEFINE dead == j \in gone
<1>1. h[t] \in Handler /\ dead \in BOOLEAN
  OBVIOUS
<1>2. h'[t] = [h[t] EXCEPT !.at = p, !.tok = j, !.dead = dead]
  BY DEF CallStart
<1> HIDE DEF dead
<1>3. /\ h'[t] \in Handler
      /\ h'[t].at = p /\ h'[t].tok = j /\ h'[t].dead = dead
  BY <1>1, <1>2 DEF Handler, CallPoints
<1>4. h' = [h EXCEPT ![t] = h'[t]] /\ tokens[j] # None
  BY DEF CallStart, GetJWTPayload
<1> QED
  BY <1>3, <1>4 DEF dead

LEMMA RevocationChecks ==
    ASSUME h \in [Threads -> Handler], NEW t \in Threads, CheckRevoked(t), ~Finish(t)
    PROVE  /\ h' \in [Threads -> Handler]
           /\ h[t].at \in {"admin_revoked", "info_revoked"}
           /\ h'[t].at \in {"admin_role", "info_client"}
           /\ h'[t].tok = h[t].tok /\ h'[t].dead = h[t].dead
           /\ h'[t].late = ~GetJWTPayload(h[t].tok)
           /\ ~IsRevoked(h[t].tok)
           /\ \A s \in Threads \ {t} : h'[s] = h[s]
<1> DEFINE p == IF h[t].at = "admin_revoked" THEN "admin_role" ELSE "info_client"
<1>1. h[t] \in Handler
  OBVIOUS
<1>2. /\ h'[t] = [h[t] EXCEPT !.at = p, !.late = ~GetJWTPayload(h[t].tok)]
      /\ ~IsRevoked(h[t].tok)
      /\ h[t].at \in {"admin_revoked", "info_revoked"}
  BY DEF CheckRevoked, At
<1>3. GetJWTPayload(h[t].tok) \in BOOLEAN
  BY DEF GetJWTPayload
<1>4. /\ h'[t] \in Handler
      /\ h'[t].at = p /\ h'[t].tok = h[t].tok /\ h'[t].dead = h[t].dead
      /\ h'[t].late = ~GetJWTPayload(h[t].tok)
  BY <1>1, <1>2, <1>3 DEF Handler, CallPoints
<1>5. h' = [h EXCEPT ![t] = h'[t]]
  BY DEF CheckRevoked
<1> QED
  BY <1>2, <1>4, <1>5

\* The reads after the revocation check.
Reads(t) == AdminRole(t) \/ AdminTrust(t) \/ InfoClient(t) \/ InfoUser(t)

LEMMA CallReads ==
    ASSUME h \in [Threads -> Handler], NEW t \in Threads, Reads(t), ~Finish(t),
           level \in [Users -> Levels \cup {None}],
           tokens[h[t].tok].user \in Users
    PROVE  /\ h' \in [Threads -> Handler]
           /\ h'[t].tok = h[t].tok /\ h'[t].dead = h[t].dead /\ h'[t].late = h[t].late
           /\ \A s \in Threads \ {t} : h'[s] = h[s]
           /\ h[t].at \in Honoured
           /\ \/ /\ h'[t].at = "admin_trust" /\ h'[t].level # None
                 /\ h'[t].level = level[tokens[h[t].tok].user]
              \/ /\ h[t].at = "admin_trust" /\ h'[t].at = "admitted"
                 /\ h'[t].level = h[t].level
                 /\ tokens[h[t].tok].user \in trusted
              \/ /\ h'[t].at = "info_user" /\ tokens[h[t].tok].aud \in clients
              \/ /\ h[t].at = "info_user" /\ h'[t].at = "told"
                 /\ h'[t].level # None
                 /\ h'[t].level = level[tokens[h[t].tok].user]
<1> DEFINE l == level[tokens[h[t].tok].user]
<1>1. h[t] \in Handler /\ l \in Levels \cup {None}
  OBVIOUS
<1>2. h' = [h EXCEPT ![t] = h'[t]]
  BY DEF Reads, AdminRole, AdminTrust, InfoClient, InfoUser
<1>3. CASE AdminRole(t)
  <2>1. /\ h'[t] = [h[t] EXCEPT !.at = "admin_trust", !.level = l]
        /\ l # None /\ h[t].at = "admin_role"
    BY <1>3 DEF AdminRole, At
  <2> HIDE DEF l
  <2>2. /\ h'[t] \in Handler
        /\ h'[t].at = "admin_trust" /\ h'[t].tok = h[t].tok /\ h'[t].level = l
        /\ h'[t].dead = h[t].dead /\ h'[t].late = h[t].late
    BY <1>1, <2>1 DEF Handler, CallPoints
  <2> QED
    BY <1>2, <2>1, <2>2 DEF l, Honoured, CallPoints
<1>4. CASE AdminTrust(t)
  <2>1. /\ h'[t] = [h[t] EXCEPT !.at = "admitted"]
        /\ tokens[h[t].tok].user \in trusted /\ h[t].at = "admin_trust"
    BY <1>4 DEF AdminTrust, At
  <2>2. /\ h'[t] \in Handler
        /\ h'[t].at = "admitted" /\ h'[t].tok = h[t].tok /\ h'[t].level = h[t].level
        /\ h'[t].dead = h[t].dead /\ h'[t].late = h[t].late
    BY <1>1, <2>1 DEF Handler, CallPoints
  <2> QED
    BY <1>2, <2>1, <2>2 DEF Honoured, CallPoints
<1>5. CASE InfoClient(t)
  <2>1. /\ h'[t] = [h[t] EXCEPT !.at = "info_user"]
        /\ tokens[h[t].tok].aud \in clients /\ h[t].at = "info_client"
    BY <1>5 DEF InfoClient, At
  <2>2. /\ h'[t] \in Handler
        /\ h'[t].at = "info_user" /\ h'[t].tok = h[t].tok
        /\ h'[t].dead = h[t].dead /\ h'[t].late = h[t].late
    BY <1>1, <2>1 DEF Handler, CallPoints
  <2> QED
    BY <1>2, <2>1, <2>2 DEF Honoured, CallPoints
<1>6. CASE InfoUser(t)
  <2>1. /\ h'[t] = [h[t] EXCEPT !.at = "told", !.level = l]
        /\ l # None /\ h[t].at = "info_user"
    BY <1>6 DEF InfoUser, At
  <2> HIDE DEF l
  <2>2. /\ h'[t] \in Handler
        /\ h'[t].at = "told" /\ h'[t].tok = h[t].tok /\ h'[t].level = l
        /\ h'[t].dead = h[t].dead /\ h'[t].late = h[t].late
    BY <1>1, <2>1 DEF Handler, CallPoints
  <2> QED
    BY <1>2, <2>1, <2>2 DEF l, Honoured, CallPoints
<1> QED
  BY <1>3, <1>4, <1>5, <1>6 DEF Reads

Todos == {<<>>} \cup {<<j>> : j \in Tokens} \cup (Tokens \X Tokens)

LEMMA TodoOfOne ==
    ASSUME NEW j \in Tokens
    PROVE  /\ Head(<<j>>) = j /\ Tail(<<j>>) = <<>> /\ <<j>> # <<>>
           /\ DOMAIN <<j>> = {1} /\ InTodo(<<j>>) = {j}
<1>1. DOMAIN <<j>> = {1} /\ <<j>>[1] = j
  OBVIOUS
<1> QED
  BY <1>1 DEF InTodo

LEMMA TodoOfTwo ==
    ASSUME NEW j \in Tokens, NEW k \in Tokens
    PROVE  /\ Head(<<j, k>>) = j /\ Tail(<<j, k>>) = <<k>> /\ <<j, k>> # <<>>
           /\ DOMAIN <<j, k>> = {1, 2} /\ InTodo(<<j, k>>) = {j, k}
<1>1. DOMAIN <<j, k>> = {1, 2} /\ <<j, k>>[1] = j /\ <<j, k>>[2] = k
  OBVIOUS
<1>2. Head(<<j, k>>) = j /\ <<j, k>> # <<>>
  OBVIOUS
<1>3. Tail(<<j, k>>) = <<k>>
  OBVIOUS
<1> QED
  BY <1>1, <1>2, <1>3 DEF InTodo

LEMMA TodoShrinks ==
    ASSUME NEW js \in Todos, js # <<>>
    PROVE  /\ Head(js) \in Tokens /\ Tail(js) \in Todos
           /\ InTodo(js) = {Head(js)} \cup InTodo(Tail(js))
<1>1. CASE \E j \in Tokens : js = <<j>>
  <2>1. PICK j \in Tokens : js = <<j>>
    BY <1>1
  <2>2. InTodo(<<>>) = {}
    BY DEF InTodo
  <2> QED
    BY <2>1, <2>2, TodoOfOne DEF Todos
<1>2. CASE \E j, k \in Tokens : js = <<j, k>>
  <2>1. PICK j \in Tokens, k \in Tokens : js = <<j, k>>
    BY <1>2
  <2>2. /\ Head(js) = j /\ Tail(js) = <<k>> /\ InTodo(js) = {j, k}
        /\ InTodo(<<k>>) = {k}
    BY <2>1, TodoOfOne, TodoOfTwo
  <2>3. <<k>> \in Todos
    BY DEF Todos
  <2> QED
    BY <2>2, <2>3
<1>3. js \in Tokens \X Tokens => \E j, k \in Tokens : js = <<j, k>>
  OBVIOUS
<1> QED
  BY <1>1, <1>2, <1>3 DEF Todos

LEMMA LogoutStarts ==
    ASSUME h \in [Threads -> Handler], NEW t \in Threads, NEW js \in Presentable,
           LogoutStart(t, js)
    PROVE  /\ h' \in [Threads -> Handler]
           /\ h'[t].at = "logout" /\ h'[t].todo = js /\ h'[t].asked = InTodo(js)
           /\ js # <<>>
           /\ \A j \in InTodo(js) : tokens[j] # None
           /\ \A s \in Threads \ {t} : h'[s] = h[s]
<1> DEFINE asked == InTodo(js)
<1>1. js \in Todos /\ js # <<>>
  <2>1. CASE \E j \in Tokens : js = <<j>>
    BY <2>1, TodoOfOne DEF Todos
  <2>2. CASE js \in Tokens \X Tokens
    <3>1. PICK j \in Tokens, k \in Tokens : js = <<j, k>>
      BY <2>2
    <3> QED
      BY <2>2, <3>1, TodoOfTwo DEF Todos
  <2> QED
    BY <2>1, <2>2 DEF Presentable
<1>2. asked \subseteq Tokens
  <2>1. \A k \in DOMAIN js : js[k] \in Tokens
    <3>1. CASE \E j \in Tokens : js = <<j>>
      BY <3>1, TodoOfOne
    <3>2. CASE js \in Tokens \X Tokens
      BY <3>2
    <3> QED
      BY <3>1, <3>2 DEF Presentable
  <2> QED
    BY <2>1 DEF InTodo
<1>3. h[t] \in Handler
  OBVIOUS
<1>4. h' = [h EXCEPT ![t].at = "logout", ![t].todo = js, ![t].asked = asked]
  BY DEF LogoutStart, InTodo
<1> HIDE DEF asked
<1>5. h'[t] = [h[t] EXCEPT !.at = "logout", !.todo = js, !.asked = asked]
  BY <1>4
<1>6. /\ h'[t] \in Handler
      /\ h'[t].at = "logout" /\ h'[t].todo = js /\ h'[t].asked = asked
  BY <1>1, <1>2, <1>3, <1>5 DEF Handler, Todos
<1>7. \A j \in InTodo(js) : tokens[j] # None
  BY DEF LogoutStart, InTodo
<1> QED
  BY <1>1, <1>4, <1>6, <1>7 DEF asked

LEMMA LogoutGoes ==
    ASSUME h \in [Threads -> Handler], NEW t \in Threads, NextToken(t),
           h[t].todo # <<>>
    PROVE  /\ h' \in [Threads -> Handler]
           /\ h'[t].at \in {"logout", "logged_out"}
           /\ h'[t].at = "logged_out" <=> h'[t].todo = <<>>
           /\ h'[t].asked = h[t].asked
           /\ Head(h[t].todo) \in Tokens
           /\ InTodo(h[t].todo) = {Head(h[t].todo)} \cup InTodo(h'[t].todo)
           /\ \A s \in Threads \ {t} : h'[s] = h[s]
<1> DEFINE rest == Tail(h[t].todo)
           p == IF rest = <<>> THEN "logged_out" ELSE "logout"
<1>1. h[t] \in Handler /\ h[t].todo \in Todos
  BY DEF Handler, Todos
<1>2. /\ rest \in Todos /\ Head(h[t].todo) \in Tokens
      /\ InTodo(h[t].todo) = {Head(h[t].todo)} \cup InTodo(rest)
  BY <1>1, TodoShrinks
<1>3. h' = [h EXCEPT ![t].todo = rest, ![t].at = p]
  BY DEF NextToken
<1>4. p \in {"logout", "logged_out"} /\ (p = "logged_out" <=> rest = <<>>)
  OBVIOUS
<1> HIDE DEF rest, p
<1>5. h'[t] = [h[t] EXCEPT !.todo = rest, !.at = p]
  BY <1>3
<1>6. /\ h'[t] \in Handler
      /\ h'[t].at = p /\ h'[t].todo = rest /\ h'[t].asked = h[t].asked
  BY <1>1, <1>2, <1>4, <1>5 DEF Handler, Todos
<1> QED
  BY <1>2, <1>3, <1>4, <1>6

-----------------------------------------------------------------------------
(* Types.                                                                  *)

TablesOK ==
    /\ now \in 0 .. MaxTime
    /\ tokens \in [Tokens -> Token \cup {None}]
    /\ revoked \in [Tokens -> Nat \cup {None}]
    /\ \A j \in Tokens : revoked[j] # None =>
           tokens[j] # None /\ revoked[j] = tokens[j].exp
    /\ sweep \in Nat \cup {None}
    /\ level \in [Users -> Levels \cup {None}]
    /\ trusted \subseteq Users
    /\ clients \subseteq Clients
    /\ edits \in 0 .. MaxEdits
    /\ gone \subseteq Tokens

HandlersOK ==
    /\ h \in [Threads -> Handler]
    /\ \A t \in Threads : h[t].at \in CallPoints =>
           h[t].tok \in Tokens /\ tokens[h[t].tok] # None

Facts0 == Levels \cup {"trusted", "client"}

LEMMA Typing == TypeOK <=> TablesOK /\ HandlersOK /\ seen \in [Threads -> SUBSET Facts0]
BY DEF TypeOK, TablesOK, HandlersOK, Facts0

LEMMA FactsTyped ==
    ASSUME TablesOK, HandlersOK, NEW t \in Threads, h[t].at \in CallPoints
    PROVE  /\ Facts(t) \subseteq Facts0
           /\ tokens[h[t].tok] \in Token
<1>1. h[t].tok \in Tokens /\ tokens[h[t].tok] # None
  BY DEF HandlersOK
<1>2. tokens[h[t].tok] \in Token
  BY <1>1 DEF TablesOK
<1>3. level[tokens[h[t].tok].user] \in Levels \cup {None}
  BY <1>2 DEF TablesOK, Token
<1> QED
  BY <1>2, <1>3 DEF Facts, Facts0

LEMMA SeenTyped ==
    ASSUME TablesOK, HandlersOK, TablesOK', HandlersOK',
           seen \in [Threads -> SUBSET Facts0], Observe
    PROVE  seen' \in [Threads -> SUBSET Facts0]
<1> SUFFICES ASSUME NEW t \in Threads
             PROVE  (IF h'[t].at \notin CallPoints THEN {}
                     ELSE (IF h[t].at \in CallPoints THEN seen[t] ELSE {})
                              \cup Facts(t)') \subseteq Facts0
  BY DEF Observe
<1>1. ASSUME h'[t].at \in CallPoints
      PROVE  Facts(t)' \subseteq Facts0
  <2>1. h'[t].tok \in Tokens /\ tokens'[h'[t].tok] # None
    BY <1>1 DEF HandlersOK
  <2>2. tokens'[h'[t].tok] \in Token
    BY <2>1 DEF TablesOK
  <2>3. level'[tokens'[h'[t].tok].user] \in Levels \cup {None}
    BY <2>2 DEF TablesOK, Token
  <2> QED
    BY <2>2, <2>3 DEF Facts, Facts0
<1> QED
  BY <1>1

-----------------------------------------------------------------------------
(* Steps.                                                                  *)

\* A handler that does nothing loses nothing.
LEMMA KnowsStays ==
    ASSUME SessionsInv, Onward, Observe, NEW t \in Threads, h'[t] = h[t]
    PROVE  CallKnows(t)' /\ LogoutKnows(t)'
<1>1. CallKnows(t) /\ LogoutKnows(t) /\ TypeOK
  BY DEF SessionsInv
<1>2. h[t].at \in CallPoints => seen[t] \subseteq seen'[t]
  BY DEF Observe
<1>3. CallKnows(t)'
  BY <1>1, <1>2 DEF CallKnows, Onward, CallPoints, Honoured
<1>4. LogoutKnows(t)'
  <2> SUFFICES ASSUME NEW j \in h[t].asked, tokens[j] # None
               PROVE  /\ tokens'[j] # None
                      /\ now >= tokens[j].exp => now' >= tokens'[j].exp
    BY <1>1 DEF LogoutKnows, Onward
  <2>1. j \in Tokens
    BY <1>1 DEF TypeOK, Handler
  <2>2. tokens[j].exp \in Nat /\ now \in Nat
    BY <1>1, <2>1 DEF TypeOK, Token
  <2> QED
    BY <1>1, <2>1, <2>2, SessionsAssumption DEF Onward, TypeOK
<1> QED
  BY <1>3, <1>4

LEMMA OneMoves ==
    ASSUME SessionsInv, Observe, TablesOK', GoneStayOut', Onward,
           h' \in [Threads -> Handler],
           NEW t \in Threads, \A s \in Threads \ {t} : h'[s] = h[s],
           h'[t].at \in CallPoints =>
               h'[t].tok \in Tokens /\ tokens'[h'[t].tok] # None,
           CallKnows(t)', LogoutKnows(t)'
    PROVE  SessionsInv'
<1>1. /\ TypeOK /\ TablesOK /\ HandlersOK
      /\ seen \in [Threads -> SUBSET Facts0]
  BY Typing DEF SessionsInv
<1>2. HandlersOK'
  BY <1>1 DEF HandlersOK, Onward
<1>3. seen' \in [Threads -> SUBSET Facts0]
  BY <1>1, <1>2, SeenTyped
<1>4. TypeOK'
  BY <1>2, <1>3 DEF TypeOK, TablesOK, HandlersOK, Facts0
<1>5. \A s \in Threads : CallKnows(s)' /\ LogoutKnows(s)'
  BY KnowsStays
<1> QED
  BY <1>4, <1>5 DEF SessionsInv

LEMMA NoneMoves ==
    ASSUME SessionsInv, Observe, TablesOK', GoneStayOut', Onward, UNCHANGED h
    PROVE  SessionsInv'
<1>1. /\ TypeOK /\ TablesOK /\ HandlersOK
      /\ seen \in [Threads -> SUBSET Facts0]
  BY Typing DEF SessionsInv
<1>2. HandlersOK'
  BY <1>1 DEF HandlersOK, Onward
<1>3. seen' \in [Threads -> SUBSET Facts0]
  BY <1>1, <1>2, SeenTyped
<1>4. TypeOK'
  BY <1>2, <1>3 DEF TypeOK, TablesOK, HandlersOK, Facts0
<1>5. \A s \in Threads : CallKnows(s)' /\ LogoutKnows(s)'
  BY KnowsStays
<1> QED
  BY <1>4, <1>5 DEF SessionsInv

\* Statements that only read.
Rests == UNCHANGED <<now, tableVars, gone>>

LEMMA RestTables ==
    ASSUME SessionsInv, Rests
    PROVE  TablesOK' /\ GoneStayOut' /\ Onward
<1>1. TablesOK /\ GoneStayOut /\ now \in Nat
  BY Typing DEF SessionsInv, TablesOK
<1>2. UNCHANGED <<now, tokens, revoked, sweep, level, trusted, clients, edits, gone>>
  BY DEF Rests, tableVars, accountVars
<1> QED
  BY <1>1, <1>2 DEF TablesOK, GoneStayOut, Onward

LEMMA BackgroundTables ==
    ASSUME SessionsInv,
           \/ Background
           \/ \E j \in Tokens, typ \in {"session", "access", "id"}, u \in Users,
                 c \in Clients \cup {None} : Issue(j, typ, u, c)
    PROVE  TablesOK' /\ GoneStayOut' /\ Onward /\ UNCHANGED h
<1>1. TablesOK /\ GoneStayOut /\ now \in Nat /\ MaxTime \in Nat /\ MaxEdits \in Nat
  BY Typing, SessionsAssumption DEF SessionsInv, TablesOK
<1>2. ASSUME NEW j \in Tokens, NEW typ \in {"session", "access", "id"},
             NEW u \in Users, NEW c \in Clients \cup {None}, Issue(j, typ, u, c)
      PROVE  TablesOK' /\ GoneStayOut' /\ Onward /\ UNCHANGED h
  <2> DEFINE tok == [typ |-> typ, user |-> u, aud |-> c, exp |-> now + Lifetime(typ)]
  <2>1. tok \in Token /\ tok # None
    <3>1. now + Lifetime(typ) \in Nat
      BY <1>1, SessionsAssumption DEF Lifetime
    <3> QED
      BY <3>1, TokenAssumption DEF Token
  <2>2. /\ tokens[j] = None /\ tokens' = [tokens EXCEPT ![j] = tok]
        /\ UNCHANGED <<now, revoked, sweep, level, trusted, clients, edits, h, gone>>
    BY <1>2 DEF Issue, signToken, accountVars
  <2> HIDE DEF tok
  <2>3. Onward
    BY <1>1, <2>2 DEF Onward, TablesOK
  <2>4. TablesOK'
    BY <1>1, <2>1, <2>2 DEF TablesOK
  <2>5. GoneStayOut'
    BY <1>1, <2>2, <2>3 DEF GoneStayOut, TablesOK, Onward
  <2> QED
    BY <2>2, <2>3, <2>4, <2>5
<1>3. CASE StartCleanup
  BY <1>1, <1>3 DEF StartCleanup, accountVars, TablesOK, GoneStayOut, Onward
<1>4. CASE CleanupRevocations
  <2>1. /\ sweep # None /\ sweep <= now /\ sweep \in Nat
        /\ revoked' = [j \in Tokens |->
               IF revoked[j] # None /\ revoked[j] <= sweep THEN None ELSE revoked[j]]
        /\ sweep' = None
        /\ UNCHANGED <<now, tokens, level, trusted, clients, edits, h, gone>>
    BY <1>1, <1>4 DEF CleanupRevocations, accountVars, GoneStayOut, TablesOK
  <2>2. TablesOK' /\ Onward
    BY <1>1, <2>1 DEF TablesOK, Onward
  <2>3. GoneStayOut'
    <3> SUFFICES ASSUME NEW j \in gone
                 PROVE  tokens[j] # None /\ (revoked'[j] # None \/ tokens[j].exp <= now)
      BY <2>1 DEF GoneStayOut
    <3>1. j \in Tokens /\ tokens[j] # None /\ (revoked[j] # None \/ tokens[j].exp <= now)
      BY <1>1 DEF GoneStayOut, TablesOK
    <3>2. CASE revoked[j] # None /\ revoked'[j] = None
      <4>1. revoked[j] <= sweep /\ revoked[j] = tokens[j].exp /\ revoked[j] \in Nat
        BY <1>1, <2>1, <3>1, <3>2 DEF TablesOK
      <4> QED
        BY <1>1, <2>1, <3>1, <4>1
    <3>3. revoked[j] = None => revoked'[j] = None
      BY <2>1, <3>1
    <3> QED
      BY <3>1, <3>2, <3>3
  <2> QED
    BY <2>1, <2>2, <2>3
<1>5. ASSUME NEW u \in Users, NEW c \in Clients, Edit(u, c)
      PROVE  TablesOK' /\ GoneStayOut' /\ Onward /\ UNCHANGED h
  <2>1. /\ UNCHANGED <<now, tokens, revoked, sweep, h, gone>>
        /\ edits < MaxEdits /\ edits' = edits + 1
    BY <1>5 DEF Edit
  <2>2. /\ level' \in [Users -> Levels \cup {None}]
        /\ trusted' \subseteq trusted /\ clients' \subseteq clients
    BY <1>1, <1>5 DEF Edit, TablesOK
  <2> QED
    BY <1>1, <2>1, <2>2 DEF TablesOK, GoneStayOut, Onward
<1>6. CASE Tick
  <2>1. /\ now < MaxTime /\ now' = now + 1
        /\ UNCHANGED <<tokens, revoked, sweep, level, trusted, clients, edits, h, gone>>
    BY <1>6 DEF Tick, tableVars, accountVars
  <2>2. TablesOK' /\ Onward
    BY <1>1, <2>1 DEF TablesOK, Onward
  <2>3. \A j \in gone : tokens[j] # None => tokens[j].exp \in Nat
    BY <1>1 DEF TablesOK, Token
  <2>4. GoneStayOut'
    BY <1>1, <2>1, <2>3 DEF GoneStayOut, TablesOK
  <2> QED
    BY <2>1, <2>2, <2>4
<1> QED
  BY <1>2, <1>3, <1>4, <1>5, <1>6 DEF Background

\* A logout's revocation.
LEMMA RevokeTables ==
    ASSUME SessionsInv, NEW t \in Threads, LogoutRevoke(t), Head(h[t].todo) \in Tokens
    PROVE  /\ TablesOK' /\ GoneStayOut' /\ Onward
           /\ Head(h[t].todo) \in gone'
<1> DEFINE j == Head(h[t].todo)
<1>1. TablesOK /\ GoneStayOut /\ now \in Nat
  BY Typing DEF SessionsInv, TablesOK
<1>2. /\ tokens[j] # None
      /\ revoked' = [revoked EXCEPT ![j] = IF @ = None THEN tokens[j].exp ELSE @]
      /\ gone' = gone \cup {j}
      /\ UNCHANGED <<now, tokens, sweep, level, trusted, clients, edits>>
  BY DEF LogoutRevoke, GetJWTPayload, RevokeToken, accountVars
<1> HIDE DEF j
<1>3. j \in Tokens
  BY DEF j
<1>4. tokens[j].exp \in Nat /\ tokens[j].exp # None
  BY <1>1, <1>2, <1>3, SessionsAssumption DEF TablesOK, Token
<1>5. revoked'[j] # None /\ \A k \in Tokens : k # j => revoked'[k] = revoked[k]
  BY <1>1, <1>2, <1>3, <1>4 DEF TablesOK
<1>6. TablesOK'
  BY <1>1, <1>2, <1>3, <1>4 DEF TablesOK
<1>7. GoneStayOut'
  BY <1>1, <1>2, <1>3, <1>5 DEF GoneStayOut, TablesOK
<1>8. Onward /\ j \in gone'
  BY <1>1, <1>2 DEF Onward
<1> QED
  BY <1>6, <1>7, <1>8 DEF j

\* Every answer, refusal and failure.
LEMMA EndKeeps ==
    ASSUME SessionsInv, Observe, NEW t \in Threads, Finish(t), Rests
    PROVE  SessionsInv'
<1>1. h \in [Threads -> Handler]
  BY DEF SessionsInv, TypeOK
<1>2. /\ h' \in [Threads -> Handler] /\ h'[t].at = "idle"
      /\ \A s \in Threads \ {t} : h'[s] = h[s]
  BY <1>1, Ended
<1>3. CallKnows(t)' /\ LogoutKnows(t)' /\ h'[t].at \notin CallPoints
  BY <1>2 DEF CallKnows, LogoutKnows, CallPoints, Honoured
<1> QED
  BY <1>2, <1>3, RestTables, OneMoves

LEMMA StartKeeps ==
    ASSUME SessionsInv, Observe, NEW t \in Threads, Start(t)
    PROVE  SessionsInv'
<1>1. h \in [Threads -> Handler] /\ HandlersOK
  BY Typing DEF SessionsInv, TypeOK
<1>2. TablesOK' /\ GoneStayOut' /\ Onward
  <2>1. Rests
    BY DEF Start, CallStart, LogoutStart, Rests
  <2> QED
    BY <2>1, RestTables
<1>3. ASSUME NEW j \in Tokens, NEW p \in {"admin_revoked", "info_revoked"},
             CallStart(t, p, j)
      PROVE  SessionsInv'
  <2>1. /\ h' \in [Threads -> Handler]
        /\ h'[t].at = p /\ h'[t].tok = j /\ h'[t].dead = (j \in gone)
        /\ \A s \in Threads \ {t} : h'[s] = h[s]
        /\ tokens[j] # None
    BY <1>1, <1>3, CallStarts
  <2>2. tokens'[j] # None /\ gone \subseteq gone'
    BY <1>2, <2>1 DEF Onward
  <2>3. CallKnows(t)' /\ LogoutKnows(t)'
    BY <2>1, <2>2 DEF CallKnows, LogoutKnows, CallPoints, Honoured
  <2> QED
    BY <1>2, <2>1, <2>2, <2>3, OneMoves
<1>4. ASSUME NEW js \in Presentable, LogoutStart(t, js)
      PROVE  SessionsInv'
  <2>1. /\ h' \in [Threads -> Handler]
        /\ h'[t].at = "logout" /\ h'[t].todo = js /\ h'[t].asked = InTodo(js)
        /\ js # <<>>
        /\ \A j \in InTodo(js) : tokens[j] # None
        /\ \A s \in Threads \ {t} : h'[s] = h[s]
    BY <1>1, <1>4, LogoutStarts
  <2>2. CallKnows(t)' /\ LogoutKnows(t)' /\ h'[t].at \notin CallPoints
    <3>1. UNCHANGED tokens
      BY <1>4 DEF LogoutStart, tableVars
    <3> QED
      BY <2>1, <3>1 DEF CallKnows, LogoutKnows, CallPoints, Honoured
  <2> QED
    BY <1>2, <2>1, <2>2, OneMoves
<1> QED
  BY <1>3, <1>4 DEF Start

\* The revocation check: a token revoked before the call gets through only
\* when it has expired since.
LEMMA CheckKeeps ==
    ASSUME SessionsInv, Observe, NEW t \in Threads, CheckRevoked(t)
    PROVE  SessionsInv'
<1>1. h \in [Threads -> Handler] /\ HandlersOK /\ TablesOK /\ GoneStayOut
  BY Typing DEF SessionsInv, TypeOK
<1>2. Rests
  BY DEF CheckRevoked, Rests
<1>3. TablesOK' /\ GoneStayOut' /\ Onward
  BY <1>2, RestTables
<1>4. CASE ~Finish(t)
  <2>1. /\ h' \in [Threads -> Handler]
        /\ h[t].at \in {"admin_revoked", "info_revoked"}
        /\ h'[t].at \in {"admin_role", "info_client"}
        /\ h'[t].tok = h[t].tok /\ h'[t].dead = h[t].dead
        /\ h'[t].late = ~GetJWTPayload(h[t].tok)
        /\ ~IsRevoked(h[t].tok)
        /\ \A s \in Threads \ {t} : h'[s] = h[s]
    BY <1>1, <1>4, RevocationChecks
  <2>2. h[t].tok \in Tokens /\ tokens[h[t].tok] # None
    BY <1>1, <2>1 DEF HandlersOK, CallPoints
  <2>3. tokens'[h'[t].tok] # None
    BY <1>3, <2>1, <2>2 DEF Onward
  <2>4. h[t].dead => h[t].tok \in gone
    BY <2>1 DEF SessionsInv, CallKnows, CallPoints
  <2>5. h[t].tok \in gone => ~GetJWTPayload(h[t].tok)
    <3> DEFINE j == h[t].tok
    <3> SUFFICES ASSUME j \in gone PROVE tokens[j].exp <= now
      <4>1. tokens[j].exp \in Nat /\ now \in Nat
        BY <1>1, <2>2 DEF TablesOK, Token
      <4> QED
        BY <4>1 DEF GetJWTPayload
    <3>1. revoked[j] # None \/ tokens[j].exp <= now
      BY <1>1 DEF GoneStayOut
    <3>2. CASE revoked[j] # None
      <4>1. revoked[j] = tokens[j].exp /\ revoked[j] \in Nat /\ now \in Nat
        BY <1>1, <2>2, <3>2 DEF TablesOK
      <4> QED
        BY <2>1, <3>2, <4>1 DEF IsRevoked
    <3> QED
      BY <3>1, <3>2
  <2>6. CallKnows(t)' /\ LogoutKnows(t)'
    BY <1>3, <2>1, <2>4, <2>5 DEF CallKnows, LogoutKnows, CallPoints, Honoured, Onward
  <2> QED
    BY <1>3, <2>1, <2>2, <2>3, <2>6, OneMoves
<1> QED
  BY <1>2, <1>4, EndKeeps

\* What a call read is what held at that step.
LEMMA ReadKeeps ==
    ASSUME SessionsInv, Observe, NEW t \in Threads, Reads(t)
    PROVE  SessionsInv'
<1>1. h \in [Threads -> Handler] /\ HandlersOK /\ TablesOK
  BY Typing DEF SessionsInv, TypeOK
<1>2. Rests
  BY DEF Reads, AdminRole, AdminTrust, InfoClient, InfoUser, Rests
<1>3. TablesOK' /\ GoneStayOut' /\ Onward
  BY <1>2, RestTables
<1>4. CASE ~Finish(t)
  <2> DEFINE tok == tokens[h[t].tok]
  <2>1. h[t].at \in CallPoints
    BY DEF Reads, AdminRole, AdminTrust, InfoClient, InfoUser, At, CallPoints
  <2>2. h[t].tok \in Tokens /\ tok \in Token /\ tok # None
    BY <1>1, <2>1 DEF HandlersOK, TablesOK
  <2>3. level \in [Users -> Levels \cup {None}] /\ tok.user \in Users
    BY <1>1, <2>2 DEF TablesOK, Token
  <2> HIDE DEF tok
  <2>4. /\ h' \in [Threads -> Handler]
        /\ h'[t].tok = h[t].tok /\ h'[t].dead = h[t].dead /\ h'[t].late = h[t].late
        /\ \A s \in Threads \ {t} : h'[s] = h[s]
        /\ h[t].at \in Honoured
        /\ \/ /\ h'[t].at = "admin_trust" /\ h'[t].level # None
              /\ h'[t].level = level[tok.user]
           \/ /\ h[t].at = "admin_trust" /\ h'[t].at = "admitted"
              /\ h'[t].level = h[t].level
              /\ tok.user \in trusted
           \/ /\ h'[t].at = "info_user" /\ tok.aud \in clients
           \/ /\ h[t].at = "info_user" /\ h'[t].at = "told"
              /\ h'[t].level # None
              /\ h'[t].level = level[tok.user]
    BY <1>1, <1>4, <2>3, CallReads DEF tok
  <2>5. h'[t].at \in CallPoints
    BY <2>4 DEF CallPoints
  <2>6. seen'[t] = seen[t] \cup Facts(t)'
    BY <2>1, <2>5 DEF Observe
  <2>7. Facts(t)' = ({level[tok.user]} \ {None})
                        \cup (IF tok.user \in trusted THEN {"trusted"} ELSE {})
                        \cup (IF tok.aud \in clients THEN {"client"} ELSE {})
    BY <1>2, <2>4 DEF Facts, Rests, tableVars, accountVars, tok
  <2>8. CallKnows(t) /\ gone' = gone
    BY <1>2 DEF SessionsInv, Rests
  <2>9. CallKnows(t)' /\ LogoutKnows(t)'
    BY <2>1, <2>4, <2>6, <2>7, <2>8 DEF CallKnows, LogoutKnows, CallPoints, Honoured
  <2>10. tokens'[h'[t].tok] # None
    BY <1>3, <2>2, <2>4 DEF Onward, tok
  <2> QED
    BY <1>3, <2>2, <2>4, <2>9, <2>10, OneMoves
<1> QED
  BY <1>2, <1>4, EndKeeps

LEMMA LogoutKeeps ==
    ASSUME SessionsInv, Observe, NEW t \in Threads,
           LogoutSkip(t) \/ LogoutRevoke(t) \/ LogoutRefuse(t)
    PROVE  SessionsInv'
<1> DEFINE j == Head(h[t].todo)
<1>1. h \in [Threads -> Handler] /\ TablesOK /\ h[t].at = "logout"
  BY Typing DEF SessionsInv, TypeOK, LogoutSkip, LogoutRevoke, LogoutRefuse, At
<1>2. LogoutKnows(t) /\ h[t].todo # <<>>
  BY <1>1 DEF SessionsInv, LogoutKnows
<1>3. CASE LogoutRefuse(t)
  BY <1>3, EndKeeps DEF LogoutRefuse, Rests
<1>4. CASE LogoutSkip(t) \/ LogoutRevoke(t)
  <2>1. NextToken(t)
    BY <1>4 DEF LogoutSkip, LogoutRevoke
  <2>2. /\ h' \in [Threads -> Handler]
        /\ h'[t].at \in {"logout", "logged_out"}
        /\ h'[t].at = "logged_out" <=> h'[t].todo = <<>>
        /\ h'[t].asked = h[t].asked
        /\ j \in Tokens
        /\ InTodo(h[t].todo) = {j} \cup InTodo(h'[t].todo)
        /\ \A s \in Threads \ {t} : h'[s] = h[s]
    BY <1>1, <1>2, <2>1, LogoutGoes
  <2>3. /\ TablesOK' /\ GoneStayOut' /\ Onward
        /\ j \in gone' \/ (tokens[j] # None => now >= tokens[j].exp)
    <3>1. CASE LogoutSkip(t)
      <4>1. Rests /\ ~GetJWTPayload(j)
        BY <3>1 DEF LogoutSkip, Rests
      <4>2. tokens[j] # None => tokens[j].exp \in Nat /\ now \in Nat
        BY <1>1, <2>2 DEF TablesOK, Token
      <4> QED
        BY <4>1, <4>2, RestTables DEF GetJWTPayload
    <3>2. CASE LogoutRevoke(t)
      BY <2>2, <3>2, RevokeTables
    <3> QED
      BY <1>4, <3>1, <3>2
  <2>4. LogoutKnows(t)'
    <3>1. ASSUME NEW k \in h[t].asked
          PROVE  /\ tokens'[k] # None
                 /\ k \in InTodo(h'[t].todo) \/ k \in gone' \/ now' >= tokens'[k].exp
      <4>1. /\ k \in Tokens /\ tokens[k] # None
            /\ k = j \/ k \in InTodo(h'[t].todo) \/ k \in gone \/ now >= tokens[k].exp
        BY <1>1, <1>2, <2>2, <3>1 DEF Handler, LogoutKnows
      <4>2. tokens[k].exp \in Nat /\ now \in Nat
        BY <1>1, <4>1 DEF TablesOK, Token
      <4> QED
        BY <2>3, <4>1, <4>2 DEF Onward
    <3> QED
      BY <2>2, <3>1 DEF LogoutKnows
  <2>5. CallKnows(t)' /\ h'[t].at \notin CallPoints
    BY <2>2 DEF CallKnows, CallPoints, Honoured
  <2> QED
    BY <2>2, <2>3, <2>4, <2>5, OneMoves
<1> QED
  BY <1>3, <1>4

-----------------------------------------------------------------------------
(* What follows for every run.                                             *)

LEMMA SessionsStep ==
    ASSUME SessionsInv, Step, Observe
    PROVE  SessionsInv'
<1>1. ASSUME NEW t \in Threads, Continue(t)
      PROVE  SessionsInv'
  <2>1. CASE Abort(t)
    BY <2>1, EndKeeps DEF Abort, Rests
  <2> QED
    BY <1>1, <2>1, CheckKeeps, ReadKeeps, LogoutKeeps DEF Continue, Reads
<1>2. ASSUME NEW t \in Threads, Answer(t)
      PROVE  SessionsInv'
  BY <1>2, EndKeeps DEF Answer, Rests
<1>3. CASE \/ Background
           \/ \E j \in Tokens, typ \in {"session", "access", "id"}, u \in Users,
                 c \in Clients \cup {None} : Issue(j, typ, u, c)
  BY <1>3, BackgroundTables, NoneMoves
<1> QED
  BY <1>1, <1>2, <1>3, StartKeeps DEF Step

LEMMA SessionsStutter ==
    ASSUME SessionsInv, UNCHANGED sessionVars
    PROVE  SessionsInv'
<1>1. UNCHANGED <<now, tokens, revoked, sweep, level, trusted, clients, edits, h,
                  seen, gone>>
  BY DEF sessionVars, tableVars, accountVars
<1> QED
  BY <1>1 DEF SessionsInv, TypeOK, GoneStayOut, CallKnows, LogoutKnows

LEMMA SessionsStart == Init => SessionsInv
<1> SUFFICES ASSUME Init PROVE SessionsInv
  OBVIOUS
<1>1. Idle \in Handler /\ Idle.at = "idle"
  BY DEF Idle, Handler
<1>2. h \in [Threads -> Handler] /\ \A t \in Threads : h[t].at = "idle"
  BY <1>1 DEF Init
<1>3. TypeOK
  BY <1>2, SessionsAssumption DEF Init, TypeOK, CallPoints
<1>4. GoneStayOut
  BY DEF Init, GoneStayOut
<1>5. \A t \in Threads : CallKnows(t) /\ LogoutKnows(t)
  BY <1>2 DEF CallKnows, LogoutKnows, CallPoints, Honoured
<1> QED
  BY <1>3, <1>4, <1>5 DEF SessionsInv

\* The inductive invariant: types, revocations that stay, what calls know.
THEOREM SessionsInvariant == Spec => []SessionsInv
<1>1. SessionsInv /\ [Next]_sessionVars => SessionsInv'
  BY SessionsStep, SessionsStutter DEF Next
<1> QED
  BY <1>1, SessionsStart, PTL DEF Spec

\* Every table of token.go and every handler keeps its type; a revocation is
\* stored with the expiry of its token.
THEOREM SessionsTyping == Spec => []TypeOK
<1>1. SessionsInv => TypeOK
  BY DEF SessionsInv
<1> QED
  BY <1>1, SessionsInvariant, PTL

\* ValidateToken: a revoked token is refused for ever, clean-ups included,
\* except one that expires between the two checks of a call.
THEOREM RevocationLasts == Spec => []RevokedStaysRevoked
<1>1. SessionsInv => RevokedStaysRevoked
  BY DEF SessionsInv, CallKnows, RevokedStaysRevoked
<1> QED
  BY <1>1, SessionsInvariant, PTL

\* Logout: a call that answers 200 left no token it was given in use.
THEOREM LogoutIsComplete == Spec => []LogoutMeansLoggedOut
<1>1. SessionsInv => LogoutMeansLoggedOut
  <2> SUFFICES ASSUME SessionsInv, NEW t \in Threads, h[t].at = "logged_out",
                      NEW j \in h[t].asked
               PROVE  j \in gone \/ now >= tokens[j].exp
    BY DEF LogoutMeansLoggedOut, At
  <2> QED
    BY DEF SessionsInv, LogoutKnows, InTodo
<1> QED
  BY <1>1, SessionsInvariant, PTL

\* authenticate and UserInfo: whatever is edited between their reads, they
\* act on a role, a device and a client that were there during the call.
THEOREM AnswersStayFresh == Spec => []AnswersAreFresh
<1>1. SessionsInv => AnswersAreFresh
  BY DEF SessionsInv, CallKnows, AnswersAreFresh, At
<1> QED
  BY <1>1, SessionsInvariant, PTL

-----------------------------------------------------------------------------
(* The relying party: what its induction rests on.                         *)

RPTables ==
    /\ flows \in [Transactions -> Flow \cup {None}]
    /\ jar \in [Browsers -> Transactions \cup {None}]
    /\ granted \in [Codes -> Code \cup {None}]
    /\ x \in [Threads -> Exchange \cup {None}]
    /\ \A t \in Threads : x[t] # None /\ x[t].at # "token" => x[t].tok \in Tokens
    /\ logins \in [Codes -> Seq(Login)]

\* An exchange whose code has been redeemed.
Past(t) == x[t] # None /\ x[t].at # "token"

\* The code an exchange sends may be any: it is of the exchange's flow once the
\* verifier, and then the nonce, have been compared.
Fits(t) ==
    /\ granted[x[t].code] # None
    /\ x[t].at # "token" => granted[x[t].code].challenge \in {None, x[t].tx}
    /\ x[t].at = "info" => granted[x[t].code].nonce = x[t].tx

\* Whose the cookies and the exchanges are.
FlowsAreOwn ==
    /\ \A b \in Browsers : jar[b] # None =>
           flows[jar[b]] # None /\ flows[jar[b]].b = b
    /\ \A c \in Codes : granted[c] # None => flows[granted[c].nonce] # None
    /\ \A t \in Threads : x[t] # None =>
           /\ flows[x[t].tx] # None /\ flows[x[t].tx].b = x[t].b
           /\ Fits(t)

CodesAreSpent ==
    /\ \A c \in Codes : logins[c] # <<>> => granted[c] # None /\ granted[c].used
    /\ \A t \in Threads : Past(t) =>
           granted[x[t].code].used /\ logins[x[t].code] = <<>>
    /\ \A t, s \in Threads : Past(t) /\ Past(s) /\ x[t].code = x[s].code => t = s

RPInv ==
    /\ SessionsInv
    /\ RPTables /\ FlowsAreOwn /\ CodesAreSpent
    /\ LoginIsOwn /\ OneLoginPerCode

-----------------------------------------------------------------------------
(* The provider's part.                                                    *)

LEMMA RPKeepsSessions ==
    ASSUME RPInv, RPNext
    PROVE  SessionsInv'
<1>1. SessionsInv /\ RPTables /\ FlowsAreOwn /\ Observe
  BY DEF RPInv, RPNext
<1>2. CASE ProviderStep
  <2>1. Step
    BY <1>2 DEF ProviderStep, Step, Continue, Background
  <2> QED
    BY <1>1, <2>1, SessionsStep
<1>3. CASE \/ \E b \in Browsers, tx \in Transactions : Begin(b, tx)
           \/ \E c \in Codes, challenge \in Transactions \cup {None},
                 nonce \in Transactions, u \in Users : GrantCode(c, challenge, nonce, u)
           \/ \E b \in Browsers, state \in Transactions : CallbackRefused(b, state)
           \/ \E t \in Threads, b \in Browsers, c \in Codes, state \in Transactions :
                 Callback(t, b, c, state)
  <2>1. UNCHANGED sessionVars
    BY <1>3 DEF Begin, GrantCode, CallbackRefused, Callback
  <2> QED
    BY <1>1, <2>1, SessionsStutter
<1>4. ASSUME NEW t \in Threads, NEW j \in Tokens, ExchangeToken(t, j)
      PROVE  SessionsInv'
  <2>1. x[t].code \in Codes /\ granted[x[t].code] # None
    BY <1>1, <1>4 DEF ExchangeToken, RPTables, Exchange, FlowsAreOwn, Fits
  <2>2. granted[x[t].code].user \in Users
    BY <1>1, <2>1 DEF RPTables, Code
  <2>3. Issue(j, "access", granted[x[t].code].user, RP)
    BY <1>4, RPAssumption, SessionsAssumption DEF ExchangeToken, Issue
  <2>4. Step
    BY <2>2, <2>3, RPAssumption DEF Step
  <2> QED
    BY <1>1, <2>4, SessionsStep
<1>5. ASSUME NEW t \in Threads, ExchangeVerify(t)
      PROVE  SessionsInv'
  <2>1. x[t].tok \in Tokens /\ CallStart(t, "info_revoked", x[t].tok)
    BY <1>1, <1>5 DEF ExchangeVerify, RPTables
  <2>2. Step
    BY <2>1 DEF Step, Start
  <2> QED
    BY <1>1, <2>2, SessionsStep
<1>6. ASSUME NEW t \in Threads, ExchangeInfo(t) \/ ExchangeFails(t)
      PROVE  SessionsInv'
  BY <1>1, <1>6, EndKeeps DEF ExchangeInfo, ExchangeFails, Rests
<1> QED
  BY <1>2, <1>3, <1>4, <1>5, <1>6 DEF RPNext, ExchangeStep

-----------------------------------------------------------------------------
(* The service's part: each lemma gives all of RPInv but SessionsInv.      *)

RPRest == RPTables /\ FlowsAreOwn /\ CodesAreSpent /\ LoginIsOwn /\ OneLoginPerCode

LEMMA RPStands ==
    ASSUME RPRest, UNCHANGED rpVars
    PROVE  RPRest'
BY DEF RPRest, rpVars, RPTables, FlowsAreOwn, CodesAreSpent, LoginIsOwn,
       OneLoginPerCode, Past, Fits

\* A flow is drawn afresh, so no cookie, code or exchange is of it yet.
LEMMA BeginKeeps ==
    ASSUME RPRest, now \in Nat, NEW b \in Browsers, NEW tx \in Transactions,
           Begin(b, tx)
    PROVE  RPRest'
<1> DEFINE flow == [b |-> b, exp |-> now + FlowTTL]
<1>1. flow \in Flow /\ flow # None /\ flow.b = b
  <2>1. flow \in Flow
    BY RPAssumption DEF Flow
  <2> QED
    BY <2>1, RowAssumption
<1>2. /\ flows[tx] = None /\ flows' = [flows EXCEPT ![tx] = flow]
      /\ jar' = [jar EXCEPT ![b] = tx]
      /\ UNCHANGED <<granted, x, logins>>
  BY DEF Begin
<1> HIDE DEF flow
<1>3. /\ flows'[tx] = flow
      /\ \A k \in Transactions : k # tx => flows'[k] = flows[k]
  BY <1>2 DEF RPRest, RPTables
<1>4. RPTables'
  BY <1>1, <1>2 DEF RPRest, RPTables
<1>5. \A c \in Codes : granted[c] # None =>
          granted[c].nonce \in Transactions /\ granted[c].nonce # tx
  BY <1>2 DEF RPRest, RPTables, FlowsAreOwn, Code
<1>6. \A t \in Threads : x[t] # None => x[t].tx \in Transactions \ {tx}
  BY <1>2 DEF RPRest, RPTables, FlowsAreOwn, Exchange
<1>7. FlowsAreOwn'
  <2>1. \A c \in Browsers : jar'[c] # None =>
            flows'[jar'[c]] # None /\ flows'[jar'[c]].b = c
    <3>1. \A c \in Browsers : c # b /\ jar[c] # None => jar[c] \in Transactions \ {tx}
      BY <1>2 DEF RPRest, RPTables, FlowsAreOwn
    <3> QED
      BY <1>1, <1>2, <1>3, <3>1 DEF RPRest, RPTables, FlowsAreOwn
  <2>2. \A c \in Codes : granted'[c] # None => flows'[granted'[c].nonce] # None
    BY <1>2, <1>3, <1>5 DEF RPRest, FlowsAreOwn
  <2>3. \A t \in Threads : x'[t] # None =>
            /\ flows'[x'[t].tx] # None /\ flows'[x'[t].tx].b = x'[t].b
            /\ Fits(t)'
    BY <1>2, <1>3, <1>6 DEF RPRest, FlowsAreOwn, Fits
  <2> QED
    BY <2>1, <2>2, <2>3 DEF FlowsAreOwn
<1>8. CodesAreSpent' /\ OneLoginPerCode'
  BY <1>2 DEF RPRest, CodesAreSpent, OneLoginPerCode, Past
<1>9. LoginIsOwn'
  <2> SUFFICES ASSUME NEW c \in Codes, NEW i \in DOMAIN logins[c]
               PROVE  /\ granted[c].nonce = logins[c][i].tx
                      /\ granted[c].challenge \in {None, logins[c][i].tx}
                      /\ logins[c][i].b = flows'[logins[c][i].tx].b
                      /\ logins[c][i].user = granted[c].user
    BY <1>2 DEF LoginIsOwn
  <2>1. logins[c] # <<>>
    OBVIOUS
  <2>2. granted[c] # None
    BY <2>1 DEF RPRest, CodesAreSpent
  <2> QED
    BY <1>3, <1>5, <2>2 DEF RPRest, LoginIsOwn
<1> QED
  BY <1>4, <1>7, <1>8, <1>9 DEF RPRest

LEMMA GrantKeeps ==
    ASSUME RPRest, now \in Nat, NEW c \in Codes,
           NEW challenge \in Transactions \cup {None},
           NEW nonce \in Transactions, NEW u \in Users,
           GrantCode(c, challenge, nonce, u)
    PROVE  RPRest'
<1> DEFINE code == [challenge |-> challenge, nonce |-> nonce, user |-> u,
                    exp |-> now + CodeTTL, used |-> FALSE]
<1>1. code \in Code /\ code.nonce = nonce
  BY RPAssumption DEF Code
<1>2. /\ granted[c] = None /\ granted' = [granted EXCEPT ![c] = code]
      /\ flows[nonce] # None
      /\ UNCHANGED <<flows, jar, x, logins>>
  BY DEF GrantCode
<1> HIDE DEF code
<1>3. /\ granted'[c] = code
      /\ \A k \in Codes : k # c => granted'[k] = granted[k]
  BY <1>2 DEF RPRest, RPTables
<1>4. RPTables'
  BY <1>1, <1>2 DEF RPRest, RPTables
<1>5. \A t \in Threads : x[t] # None => x[t].code \in Codes \ {c}
  BY <1>2 DEF RPRest, RPTables, Exchange, FlowsAreOwn, Fits
<1>6. logins[c] = <<>>
  BY <1>2 DEF RPRest, CodesAreSpent
<1>7. FlowsAreOwn'
  BY <1>1, <1>2, <1>3, <1>5 DEF RPRest, FlowsAreOwn, Fits
<1>8. CodesAreSpent' /\ OneLoginPerCode'
  BY <1>2, <1>3, <1>5, <1>6 DEF RPRest, CodesAreSpent, OneLoginPerCode, Past
<1>9. LoginIsOwn'
  BY <1>2, <1>3, <1>6 DEF RPRest, LoginIsOwn
<1> QED
  BY <1>4, <1>7, <1>8, <1>9 DEF RPRest

LEMMA CallbackKeeps ==
    ASSUME RPRest, NEW t \in Threads, NEW b \in Browsers, NEW c \in Codes,
           NEW state \in Transactions, Callback(t, b, c, state)
    PROVE  RPRest'
<1> DEFINE ex == [at |-> "token", b |-> b, code |-> c, tx |-> jar[b], tok |-> None]
<1>1. /\ granted[c] # None /\ jar[b] # None
      /\ x' = [x EXCEPT ![t] = ex]
      /\ UNCHANGED <<flows, jar, granted, logins>>
  BY DEF Callback, Open
<1>2. ex \in Exchange /\ ex.at = "token" /\ ex.b = b /\ ex.code = c /\ ex.tx = jar[b]
  BY <1>1 DEF Exchange, RPRest, RPTables
<1> HIDE DEF ex
<1>3. x'[t] = ex /\ \A s \in Threads : s # t => x'[s] = x[s]
  BY <1>1 DEF RPRest, RPTables
<1>4. RPTables'
  BY <1>1, <1>2, <1>3 DEF RPRest, RPTables
<1>5. flows[jar[b]] # None /\ flows[jar[b]].b = b
  BY <1>1 DEF RPRest, FlowsAreOwn
<1>6. FlowsAreOwn'
  BY <1>1, <1>2, <1>3, <1>5 DEF RPRest, FlowsAreOwn, Fits
<1>7. CodesAreSpent' /\ OneLoginPerCode' /\ LoginIsOwn'
  BY <1>1, <1>2, <1>3 DEF RPRest, CodesAreSpent, OneLoginPerCode, LoginIsOwn, Past
<1> QED
  BY <1>4, <1>6, <1>7 DEF RPRest

\* An exchange that ends, with or without a login, clears its cookie.
LEMMA RefusalKeeps ==
    ASSUME RPRest, NEW b \in Browsers, NEW state \in Transactions,
           CallbackRefused(b, state)
    PROVE  RPRest'
<1>1. /\ jar' = [jar EXCEPT ![b] = None]
      /\ UNCHANGED <<flows, granted, x, logins>>
  BY DEF CallbackRefused
<1> QED
  BY <1>1 DEF RPRest, RPTables, FlowsAreOwn, CodesAreSpent, LoginIsOwn,
              OneLoginPerCode, Past, Fits

LEMMA FailureKeeps ==
    ASSUME RPRest, NEW t \in Threads, ExchangeFails(t)
    PROVE  RPRest'
<1>1. /\ x' = [x EXCEPT ![t] = None] /\ jar' = [jar EXCEPT ![x[t].b] = None]
      /\ UNCHANGED <<flows, granted, logins>>
  BY DEF ExchangeFails, Respond
<1>2. /\ x'[t] = None /\ \A s \in Threads : s # t => x'[s] = x[s]
      /\ \A b \in Browsers : jar'[b] \in {None, jar[b]}
  BY <1>1 DEF RPRest, RPTables
<1>3. RPTables'
  BY <1>1, <1>2 DEF RPRest, RPTables
<1>4. FlowsAreOwn'
  BY <1>1, <1>2 DEF RPRest, FlowsAreOwn, Fits
<1>5. CodesAreSpent'
  BY <1>1, <1>2 DEF RPRest, CodesAreSpent, Past
<1>6. LoginIsOwn' /\ OneLoginPerCode'
  BY <1>1 DEF RPRest, LoginIsOwn, OneLoginPerCode
<1> QED
  BY <1>3, <1>4, <1>5, <1>6 DEF RPRest

\* A code that is redeemed was not: no other exchange is past it.
LEMMA TokenKeeps ==
    ASSUME RPRest, NEW t \in Threads, NEW j \in Tokens, ExchangeToken(t, j)
    PROVE  RPRest'
<1> DEFINE c == x[t].code
<1>1. /\ x[t] # None /\ x[t].at = "token" /\ ~granted[c].used
      /\ granted[c].challenge \in {None, x[t].tx}
      /\ granted' = [granted EXCEPT ![c].used = TRUE]
      /\ x' = [x EXCEPT ![t].at = "verify", ![t].tok = j]
      /\ UNCHANGED <<flows, jar, logins>>
  BY DEF ExchangeToken, Redeemable
<1>2. x[t] \in Exchange /\ c \in Codes /\ granted[c] \in Code
  BY <1>1 DEF RPRest, RPTables, FlowsAreOwn, Exchange, Fits
<1>3. /\ x'[t] = [x[t] EXCEPT !.at = "verify", !.tok = j]
      /\ \A s \in Threads : s # t => x'[s] = x[s]
  BY <1>1 DEF RPRest, RPTables
<1>4. /\ granted'[c] = [granted[c] EXCEPT !.used = TRUE]
      /\ \A k \in Codes : k # c => granted'[k] = granted[k]
  BY <1>1, <1>2 DEF RPRest, RPTables
<1> HIDE DEF c
<1>5. /\ x'[t] \in Exchange /\ x'[t].at = "verify" /\ x'[t].tok = j /\ x'[t].b = x[t].b
      /\ x'[t].code = c /\ x'[t].tx = x[t].tx
  BY <1>2, <1>3 DEF Exchange, c
<1>6. /\ granted'[c] \in Code /\ granted'[c] # None /\ granted'[c].used
      /\ granted'[c].nonce = granted[c].nonce
      /\ granted'[c].challenge = granted[c].challenge
      /\ granted'[c].user = granted[c].user
  BY <1>2, <1>4, RowAssumption DEF Code
<1>7. RPTables'
  BY <1>1, <1>2, <1>3, <1>4, <1>5, <1>6 DEF RPRest, RPTables
<1>8. FlowsAreOwn'
  <2>1. \A k \in Codes :
            /\ granted'[k] # None <=> granted[k] # None
            /\ granted'[k].nonce = granted[k].nonce
            /\ granted'[k].challenge = granted[k].challenge
    BY <1>1, <1>2, <1>4, <1>6 DEF RPRest, FlowsAreOwn, Fits, c
  <2>2. \A s \in Threads : x'[s] # None =>
            /\ flows'[x'[s].tx] # None /\ flows'[x'[s].tx].b = x'[s].b
            /\ Fits(s)'
    <3> SUFFICES ASSUME NEW s \in Threads, x'[s] # None
                 PROVE  /\ flows[x'[s].tx] # None /\ flows[x'[s].tx].b = x'[s].b
                        /\ Fits(s)'
      BY <1>1
    <3>1. CASE s = t
      BY <1>1, <1>2, <1>5, <1>6, <3>1 DEF RPRest, FlowsAreOwn, Fits, c
    <3>2. CASE s # t
      <4>1. x'[s] = x[s] /\ x[s] # None /\ x[s].code \in Codes
        BY <1>3, <3>2 DEF RPRest, RPTables, Exchange
      <4> QED
        BY <2>1, <4>1 DEF RPRest, FlowsAreOwn, Fits
    <3> QED
      BY <3>1, <3>2
  <2>3. \A k \in Codes : granted'[k] # None => flows'[granted'[k].nonce] # None
    BY <1>1, <2>1 DEF RPRest, FlowsAreOwn
  <2> QED
    BY <1>1, <2>2, <2>3 DEF RPRest, FlowsAreOwn
<1>9. logins[c] = <<>> /\ \A s \in Threads : Past(s) => x[s].code # c
  BY <1>1, <1>2 DEF RPRest, CodesAreSpent, c
<1>10. CodesAreSpent'
  <2>1. \A s \in Threads : s # t => (Past(s)' <=> Past(s)) /\ x'[s] = x[s]
    BY <1>3 DEF Past
  <2>2. \A s \in Threads : Past(s) => x[s].code \in Codes
    BY DEF RPRest, RPTables, Exchange, Past
  <2>3. \A k \in Codes : logins'[k] # <<>> => granted'[k] # None /\ granted'[k].used
    BY <1>1, <1>4, <1>9 DEF RPRest, CodesAreSpent
  <2>4. \A s \in Threads : Past(s)' =>
            granted'[x'[s].code].used /\ logins'[x'[s].code] = <<>>
    <3> SUFFICES ASSUME NEW s \in Threads, Past(s)'
                 PROVE  granted'[x'[s].code].used /\ logins[x'[s].code] = <<>>
      BY <1>1
    <3>1. CASE s = t
      BY <1>5, <1>6, <1>9, <3>1
    <3>2. CASE s # t
      <4>1. Past(s) /\ x'[s] = x[s] /\ x[s].code \in Codes \ {c}
        BY <1>9, <2>1, <2>2, <3>2
      <4>2. granted[x[s].code].used /\ logins[x[s].code] = <<>>
        BY <4>1 DEF RPRest, CodesAreSpent
      <4> QED
        BY <1>4, <4>1, <4>2
    <3> QED
      BY <3>1, <3>2
  <2>5. \A r, s \in Threads : Past(r)' /\ Past(s)' /\ x'[r].code = x'[s].code => r = s
    BY <1>5, <1>9, <2>1 DEF RPRest, CodesAreSpent
  <2> QED
    BY <2>3, <2>4, <2>5 DEF CodesAreSpent
<1>11. LoginIsOwn' /\ OneLoginPerCode'
  BY <1>1, <1>4, <1>6 DEF RPRest, LoginIsOwn, OneLoginPerCode
<1> QED
  BY <1>7, <1>8, <1>10, <1>11 DEF RPRest

LEMMA VerifyKeeps ==
    ASSUME RPRest, NEW t \in Threads, ExchangeVerify(t)
    PROVE  RPRest'
<1>1. /\ x[t] # None /\ x[t].at = "verify" /\ x[t] \in Exchange
      /\ granted[x[t].code].nonce = x[t].tx
      /\ x' = [x EXCEPT ![t].at = "info"]
      /\ UNCHANGED <<flows, jar, granted, logins>>
  BY DEF ExchangeVerify, RPRest, RPTables
<1>2. /\ x'[t] = [x[t] EXCEPT !.at = "info"]
      /\ \A s \in Threads : s # t => x'[s] = x[s]
  BY <1>1 DEF RPRest, RPTables
<1>3. /\ x'[t] \in Exchange /\ x'[t].at = "info" /\ x'[t].tok = x[t].tok
      /\ x'[t].b = x[t].b /\ x'[t].code = x[t].code /\ x'[t].tx = x[t].tx
  BY <1>1, <1>2 DEF Exchange
<1>4. RPTables'
  BY <1>1, <1>2, <1>3 DEF RPRest, RPTables
<1>5. \A s \in Threads :
          /\ x'[s] # None => x[s] # None
          /\ x'[s].code = x[s].code /\ x'[s].tx = x[s].tx /\ x'[s].b = x[s].b
          /\ Past(s)' => Past(s)
  BY <1>1, <1>2, <1>3 DEF Past
<1>6. FlowsAreOwn'
  <2>1. \A s \in Threads : x'[s] # None => Fits(s)'
    BY <1>1, <1>2, <1>3, <1>5 DEF RPRest, FlowsAreOwn, Fits
  <2> QED
    BY <1>1, <1>5, <2>1 DEF RPRest, FlowsAreOwn
<1>7. CodesAreSpent'
  BY <1>1, <1>5 DEF RPRest, CodesAreSpent
<1>8. LoginIsOwn' /\ OneLoginPerCode'
  BY <1>1 DEF RPRest, LoginIsOwn, OneLoginPerCode
<1> QED
  BY <1>4, <1>6, <1>7, <1>8 DEF RPRest

\* The one login of a code.
LEMMA InfoKeeps ==
    ASSUME RPRest, NEW t \in Threads, ExchangeInfo(t)
    PROVE  RPRest'
<1> DEFINE c == x[t].code
           login == [b |-> x[t].b, tx |-> x[t].tx, user |-> granted[c].user]
<1>1. /\ x[t] # None /\ x[t].at = "info" /\ x[t] \in Exchange
      /\ x' = [x EXCEPT ![t] = None] /\ jar' = [jar EXCEPT ![x[t].b] = None]
      /\ logins' = [logins EXCEPT ![c] = Append(@, login)]
      /\ UNCHANGED <<flows, granted>>
  BY DEF ExchangeInfo, Respond, RPRest, RPTables
<1>2. /\ c \in Codes /\ granted[c] # None /\ granted[c] \in Code
      /\ granted[c].used /\ granted[c].nonce = x[t].tx
      /\ granted[c].challenge \in {None, x[t].tx}
      /\ logins[c] = <<>>
      /\ flows[x[t].tx].b = x[t].b
  BY <1>1 DEF RPRest, RPTables, FlowsAreOwn, Fits, CodesAreSpent, Past, Exchange
<1>3. /\ login \in Login /\ login.tx = granted[c].nonce
      /\ granted[c].challenge \in {None, login.tx}
      /\ login.b = flows[login.tx].b /\ login.user = granted[c].user
  BY <1>1, <1>2 DEF Login, Code, Exchange
<1> HIDE DEF login
<1>4. /\ logins'[c] = <<login>> /\ \A k \in Codes : k # c => logins'[k] = logins[k]
  BY <1>1, <1>2 DEF RPRest, RPTables
<1>5. /\ x'[t] = None /\ \A s \in Threads : s # t => x'[s] = x[s]
      /\ \A b \in Browsers : jar'[b] \in {None, jar[b]}
  BY <1>1 DEF RPRest, RPTables
<1>6. \A s \in Threads : s # t /\ Past(s) => x[s].code # c
  BY <1>1 DEF RPRest, CodesAreSpent, Past
<1> HIDE DEF c
<1>7. RPTables'
  <2>1. <<login>> \in Seq(Login)
    BY <1>3
  <2> QED
    BY <1>1, <1>2, <1>3, <1>4, <1>5, <2>1 DEF RPRest, RPTables
<1>8. FlowsAreOwn'
  BY <1>1, <1>5 DEF RPRest, FlowsAreOwn, Fits
<1>9. CodesAreSpent'
  <2>1. \A s \in Threads : Past(s)' =>
            s # t /\ Past(s) /\ x'[s] = x[s] /\ x[s].code \in Codes \ {c}
    BY <1>5, <1>6 DEF Past, RPRest, RPTables, Exchange
  <2> QED
    BY <1>1, <1>2, <1>4, <2>1 DEF RPRest, CodesAreSpent
<1>10. LoginIsOwn'
  <2> SUFFICES ASSUME NEW k \in Codes, NEW i \in DOMAIN logins'[k]
               PROVE  /\ granted[k].nonce = logins'[k][i].tx
                      /\ granted[k].challenge \in {None, logins'[k][i].tx}
                      /\ logins'[k][i].b = flows[logins'[k][i].tx].b
                      /\ logins'[k][i].user = granted[k].user
    BY <1>1 DEF LoginIsOwn
  <2>1. CASE k = c
    <3>1. logins'[k][i] = login
      BY <1>4, <2>1
    <3> QED
      BY <1>3, <2>1, <3>1
  <2>2. CASE k # c
    BY <1>4, <2>2 DEF RPRest, LoginIsOwn
  <2> QED
    BY <2>1, <2>2
<1>11. OneLoginPerCode'
  <2> SUFFICES ASSUME NEW k \in Codes
               PROVE  Len(logins'[k]) <= 1
    BY DEF OneLoginPerCode
  <2>1. CASE k = c
    <3>1. Len(<<login>>) = 1
      OBVIOUS
    <3>2. logins'[k] = <<login>>
      BY <1>4, <2>1
    <3> QED
      BY <3>1, <3>2
  <2>2. CASE k # c
    BY <1>4, <2>2 DEF RPRest, OneLoginPerCode
  <2> QED
    BY <2>1, <2>2
<1> QED
  BY <1>7, <1>8, <1>9, <1>10, <1>11 DEF RPRest

-----------------------------------------------------------------------------
(* What follows for every run.                                             *)

LEMMA RPStep ==
    ASSUME RPInv, [RPNext]_vars
    PROVE  RPInv'
<1>1. SessionsInv /\ RPRest /\ now \in Nat
  BY SessionsAssumption DEF RPInv, RPRest, SessionsInv, TypeOK
<1>2. CASE RPNext
  <2>1. SessionsInv'
    BY <1>2, RPKeepsSessions
  <2>2. RPRest'
    <3>1. CASE ProviderStep
      BY <1>1, <3>1, RPStands DEF ProviderStep
    <3>2. ASSUME NEW t \in Threads, ExchangeStep(t)
          PROVE  RPRest'
      BY <1>1, <3>2, CallbackKeeps, TokenKeeps, VerifyKeeps, InfoKeeps, FailureKeeps
      DEF ExchangeStep
    <3> QED
      BY <1>1, <1>2, <3>1, <3>2, BeginKeeps, GrantKeeps, RefusalKeeps DEF RPNext
  <2> QED
    BY <2>1, <2>2 DEF RPInv, RPRest
<1>3. CASE UNCHANGED vars
  BY <1>1, <1>3, SessionsStutter, RPStands DEF vars, RPInv, RPRest
<1> QED
  BY <1>2, <1>3

LEMMA RPStart == RPInit => RPInv
<1> SUFFICES ASSUME RPInit PROVE RPInv
  OBVIOUS
<1>1. SessionsInv
  BY SessionsStart DEF RPInit
<1>2. RPTables
  BY DEF RPInit, RPTables
<1> QED
  BY <1>1, <1>2 DEF RPInit, RPInv, FlowsAreOwn, CodesAreSpent, Past, LoginIsOwn,
                    OneLoginPerCode, Fits

\* The inductive invariant: a cookie is its browser's, an exchange its flow's,
\* a redeemed code one exchange's.
THEOREM RPInvariant == RPSpec => []RPInv
BY RPStart, RPStep, PTL DEF RPSpec

\* The sessions of the provider and the flows of the service keep their types.
THEOREM RPTyping == RPSpec => []RPTypeOK
<1>1. RPInv => RPTypeOK
  BY DEF RPInv, SessionsInv, RPTables, FlowsAreOwn, RPTypeOK
<1> QED
  BY <1>1, RPInvariant, PTL

\* Exchange: every login is by a code for the browser's own flow, as the account
\* that granted it, whatever code and state a callback brings together.
THEOREM LoginsAreOwn == RPSpec => []LoginIsOwn
<1>1. RPInv => LoginIsOwn
  BY DEF RPInv
<1> QED
  BY <1>1, RPInvariant, PTL

\* Exchange: however often a callback is opened, its code logs in once.
THEOREM CodesLogInOnce == RPSpec => []OneLoginPerCode
<1>1. RPInv => OneLoginPerCode
  BY DEF RPInv
<1> QED
  BY <1>1, RPInvariant, PTL

\* Exchange and the token endpoint: a code made for a challenge is spent only
\* by an exchange of the browser whose flow drew the challenge.
THEOREM CodesSpentAtHome == RPSpec => BoundCodesAreSpentAtHome
<1> DEFINE AtHome ==
        \A c \in Codes :
            granted[c] # None /\ granted[c].challenge # None /\ granted'[c] # granted[c] =>
                \E t \in Threads :
                    /\ x[t] # None /\ x[t].code = c
                    /\ x[t].b = flows[granted[c].challenge].b
<1>1. ASSUME RPInv, RPNext
      PROVE  AtHome
  <2>1. CASE granted' = granted
    BY <2>1
  <2>2. ASSUME NEW d \in Codes, NEW challenge \in Transactions \cup {None},
               NEW nonce \in Transactions, NEW u \in Users,
               GrantCode(d, challenge, nonce, u)
        PROVE  AtHome
    <3>1. \A c \in Codes : granted[c] # None => granted'[c] = granted[c]
      BY <1>1, <2>2 DEF GrantCode, RPInv, RPTables
    <3> QED
      BY <3>1
  <2>3. ASSUME NEW t \in Threads, NEW j \in Tokens, ExchangeToken(t, j)
        PROVE  AtHome
    <3>1. /\ x[t] # None /\ granted[x[t].code].challenge \in {None, x[t].tx}
          /\ granted' = [granted EXCEPT ![x[t].code].used = TRUE]
      BY <2>3 DEF ExchangeToken, Redeemable
    <3>2. \A c \in Codes : granted'[c] # granted[c] => c = x[t].code
      BY <1>1, <3>1 DEF RPInv, RPTables
    <3>3. flows[x[t].tx].b = x[t].b
      BY <1>1, <3>1 DEF RPInv, FlowsAreOwn
    <3> QED
      BY <3>1, <3>2, <3>3
  <2>4. \/ granted' = granted
        \/ \E d \in Codes, challenge \in Transactions \cup {None},
              nonce \in Transactions, u \in Users : GrantCode(d, challenge, nonce, u)
        \/ \E t \in Threads, j \in Tokens : ExchangeToken(t, j)
    BY <1>1 DEF RPNext, ProviderStep, rpVars, Begin, CallbackRefused, ExchangeStep,
                Callback, ExchangeVerify, ExchangeInfo, ExchangeFails
  <2> QED
    BY <2>1, <2>2, <2>3, <2>4
<1> QED
  BY <1>1, RPInvariant, PTL DEF RPSpec, BoundCodesAreSpentAtHome
=============================================================================
