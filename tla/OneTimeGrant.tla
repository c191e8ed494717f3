---------------------------- MODULE OneTimeGrant ----------------------------
(***************************************************************************)
(* What the authorization code flow promises, without tables, rows or      *)
(* handlers: a request that is opened may be granted once, a grant may be  *)
(* redeemed once, neither happens at or after the deadline in force, and a *)
(* closed request never comes back.  AuthStore implements this.            *)
(***************************************************************************)
EXTENDS Naturals

CONSTANTS
    Requests,           \* identifiers of authorization requests
    AuthRequestTTL,     \* how long a request may wait to be granted
    AuthCodeTTL,        \* how long a grant may wait to be redeemed
    MaxTime             \* bound on the clock

VARIABLES
    now,                \* the time
    phase,              \* "new", "pending", "granted", "redeemed", "closed"
    deadline,           \* the time from which the current phase is dead
    redemptions         \* how often each request was turned into tokens

vars == <<now, phase, deadline, redemptions>>

Init ==
    /\ now = 0
    /\ phase = [r \in Requests |-> "new"]
    /\ deadline = [r \in Requests |-> 0]
    /\ redemptions = [r \in Requests |-> 0]

Open(r) ==
    /\ phase[r] = "new"
    /\ phase' = [phase EXCEPT ![r] = "pending"]
    /\ deadline' = [deadline EXCEPT ![r] = now + AuthRequestTTL]
    /\ UNCHANGED <<now, redemptions>>

Grant(r) ==
    /\ phase[r] = "pending"
    /\ now < deadline[r]
    /\ phase' = [phase EXCEPT ![r] = "granted"]
    /\ deadline' = [deadline EXCEPT ![r] = now + AuthCodeTTL]
    /\ UNCHANGED <<now, redemptions>>

Redeem(r) ==
    /\ phase[r] = "granted"
    /\ now < deadline[r]
    /\ phase' = [phase EXCEPT ![r] = "redeemed"]
    /\ redemptions' = [redemptions EXCEPT ![r] = @ + 1]
    /\ UNCHANGED <<now, deadline>>

\* Expiry, or the invalidation of an account, closes a set of requests at once.
Close(S) ==
    /\ \A r \in S : phase[r] # "new"
    /\ phase' = [r \in Requests |-> IF r \in S THEN "closed" ELSE phase[r]]
    /\ deadline' = [r \in Requests |-> IF r \in S THEN 0 ELSE deadline[r]]
    /\ UNCHANGED <<now, redemptions>>

Tick ==
    /\ now < MaxTime
    /\ now' = now + 1
    /\ UNCHANGED <<phase, deadline, redemptions>>

Next ==
    \/ \E r \in Requests : Open(r) \/ Grant(r) \/ Redeem(r)
    \/ \E S \in SUBSET Requests : Close(S)
    \/ Tick

Spec == Init /\ [][Next]_vars
=============================================================================
