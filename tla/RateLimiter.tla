----------------------------- MODULE RateLimiter -----------------------------
(***************************************************************************)
(* The in-memory rate limiter (FGF-idP/middleware/limiter.go): per client  *)
(* address a queue of the times of the last accepted requests, and a       *)
(* goroutine that drops the queues of addresses that have gone quiet.      *)
(* Request and a pass of the goroutine both run under the mutex: each is   *)
(* one step.  IpRateLimiter makes the queue's lifetime the window.         *)
(***************************************************************************)
EXTENDS Naturals, Sequences

CONSTANTS
    Keys,               \* client addresses
    Max,                \* maxRequestNum
    Duration,           \* duration, in seconds; also the expiry of a queue
    None,               \* no entry in the map
    MaxTime             \* bound: the clock stops here

ASSUME LimiterAssumption ==
    /\ Max \in Nat \ {0}
    /\ Duration \in Nat \ {0}
    /\ MaxTime \in Nat
    /\ None \notin Seq(Nat)

VARIABLES
    now,                \* time.Now().Unix()
    store,              \* the map: key -> queue, oldest first
    accepted            \* history: the times every key's requests passed

vars == <<now, store, accepted>>

TypeOK ==
    /\ now \in Nat
    /\ store \in [Keys -> Seq(Nat) \cup {None}]
    /\ accepted \in [Keys -> Seq(Nat)]

Init ==
    /\ now = 0
    /\ store = [k \in Keys |-> None]
    /\ accepted = [k \in Keys |-> <<>>]

Pass(k, queue) ==
    /\ store' = [store EXCEPT ![k] = queue]
    /\ accepted' = [accepted EXCEPT ![k] = Append(@, now)]
    /\ now' = now

\* Mutant: the oldest entry is given up one second early.
RoomAgain_TooSoon(k) == now - store[k][1] + 1 >= Duration

\* A full queue has room again when its oldest entry has left the window.
RoomAgain(k) == now - store[k][1] >= Duration

RequestNew(k) ==
    /\ store[k] = None
    /\ Pass(k, <<now>>)

RequestRoom(k) ==
    /\ store[k] # None
    /\ Len(store[k]) < Max
    /\ Pass(k, Append(store[k], now))

\* Mutant: the oldest entry is never dropped.
RequestFull_KeepsOldest(k) ==
    /\ store[k] # None
    /\ Len(store[k]) >= Max
    /\ RoomAgain(k)
    /\ Pass(k, Append(store[k], now))

RequestFull(k) ==
    /\ store[k] # None
    /\ Len(store[k]) >= Max
    /\ RoomAgain(k)
    /\ Pass(k, Append(Tail(store[k]), now))

\* Answered with 429; changes nothing.
RequestRejected(k) ==
    /\ store[k] # None
    /\ Len(store[k]) >= Max
    /\ ~RoomAgain(k)
    /\ UNCHANGED vars

Request(k) ==
    RequestNew(k) \/ RequestRoom(k) \/ RequestFull(k) \/ RequestRejected(k)

\* Mutant: the operands are swapped.
Quiet_Swapped(k) ==
    /\ store[k] # None
    /\ store[k][Len(store[k])] > now + Duration

\* Queues are never empty, so size = 0 does not arise.
Quiet(k) ==
    /\ store[k] # None
    /\ now - store[k][Len(store[k])] > Duration

clearExpiredItems ==
    /\ store' = [k \in Keys |-> IF Quiet(k) THEN None ELSE store[k]]
    /\ UNCHANGED <<now, accepted>>

Tick ==
    /\ now < MaxTime
    /\ now' = now + 1
    /\ UNCHANGED <<store, accepted>>

Next ==
    \/ \E k \in Keys : Request(k)
    \/ clearExpiredItems
    \/ Tick

Spec == Init /\ [][Next]_vars

\* Time passes and the goroutine's Sleep returns again and again.
FairSpec == Spec /\ WF_vars(Tick) /\ WF_vars(clearExpiredItems)

-----------------------------------------------------------------------------
(* Properties.                                                             *)

Windowed(log) ==
    \A i \in 1 .. Len(log) :
        i + Max <= Len(log) => log[i + Max] - log[i] >= Duration

\* Request together with clearExpiredItems: of any Max + 1 consecutive
\* requests of an address that passed, the first and the last are at least
\* Duration apart, although queues are dropped and rebuilt in between.
SlidingWindow == \A k \in Keys : Windowed(accepted[k])

\* clearExpiredItems: an address that stays quiet does not stay in the map.
QuietKeysAreForgotten ==
    \A k \in Keys, n \in 0 .. MaxTime :
        (store[k] # None /\ store[k][Len(store[k])] = n /\ n + Duration < MaxTime)
            ~> (store[k] = None \/ store[k][Len(store[k])] # n)

-----------------------------------------------------------------------------
(* Why SlidingWindow holds: the inductive invariant.                       *)

\* Accepted times are in order and not ahead of the clock.
Ordered(log) ==
    /\ \A i \in 1 .. Len(log) : log[i] <= now
    /\ \A i, j \in 1 .. Len(log) : i <= j => log[i] <= log[j]

\* A queue holds the most recent accepted times, Max of them at most, and
\* what a queue with room has forgotten was out of its window.
Recent(q, log) ==
    /\ Len(q) \in 1 .. Max
    /\ Len(q) <= Len(log)
    /\ \A i \in 1 .. Len(q) : q[i] = log[Len(log) - Len(q) + i]
    /\ Len(q) < Max =>
           \A i \in 1 .. Len(log) - Len(q) : log[i] + Duration <= q[1]

\* All accepted times have left the window.
Past(log) == \A i \in 1 .. Len(log) : log[i] + Duration <= now

\* Request and clearExpiredItems keep a queue in step with the history: it
\* is the end of it, and what is not in it cannot matter any more.
QueueIsRecent ==
    \A k \in Keys :
        /\ Ordered(accepted[k])
        /\ IF store[k] = None THEN Past(accepted[k])
           ELSE Recent(store[k], accepted[k])

LimiterInv == TypeOK /\ SlidingWindow /\ QueueIsRecent
=============================================================================
