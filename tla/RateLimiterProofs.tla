-------------------------- MODULE RateLimiterProofs --------------------------
(***************************************************************************)
(* The sliding window of the rate limiter, for every number of addresses,  *)
(* every limit and every window.                                           *)
(***************************************************************************)
EXTENDS RateLimiter, TLAPS

\* What Append does to a sequence of times.
LEMMA AppendTime ==
    ASSUME NEW s \in Seq(Nat), NEW x \in Nat
    PROVE  /\ Append(s, x) \in Seq(Nat)
           /\ Len(s) \in Nat
           /\ Len(Append(s, x)) = Len(s) + 1
           /\ \A i \in 1 .. Len(s) : Append(s, x)[i] = s[i] /\ s[i] \in Nat
           /\ Append(s, x)[Len(s) + 1] = x
OBVIOUS

\* What dropping the oldest time does.
LEMMA TailTimes ==
    ASSUME NEW s \in Seq(Nat), Len(s) > 0
    PROVE  /\ Tail(s) \in Seq(Nat)
           /\ Len(Tail(s)) = Len(s) - 1
           /\ \A i \in 1 .. Len(s) - 1 : Tail(s)[i] = s[i + 1]
OBVIOUS

\* A history stays windowed when the request Max before the new one is old.
LEMMA WindowedAppend ==
    ASSUME NEW log \in Seq(Nat), now \in Nat, Windowed(log),
           Len(log) + 1 > Max => log[Len(log) + 1 - Max] + Duration <= now
    PROVE  Windowed(Append(log, now))
<1> DEFINE new == Append(log, now)
           n == Len(log)
<1>1. /\ n \in Nat /\ Len(new) = n + 1 /\ new[n + 1] = now
      /\ \A i \in 1 .. n : new[i] = log[i] /\ log[i] \in Nat
  BY AppendTime
<1>2. \A i \in 1 .. n : i + Max <= n => log[i + Max] - log[i] >= Duration
  BY DEF Windowed
<1>3. n + 1 > Max => log[n + 1 - Max] + Duration <= now
  OBVIOUS
<1>4. Max \in Nat \ {0} /\ Duration \in Nat /\ now \in Nat
  BY LimiterAssumption
<1> SUFFICES ASSUME NEW i \in 1 .. Len(new), i + Max <= Len(new)
             PROVE  new[i + Max] - new[i] >= Duration
  BY DEF Windowed
<1> HIDE DEF new, n
<1>5. i \in 1 .. n
  BY <1>1, <1>4
<1>6. CASE i + Max <= n
  <2>1. i + Max \in 1 .. n
    BY <1>1, <1>4, <1>5, <1>6
  <2> QED
    BY <1>1, <1>2, <1>5, <1>6, <2>1
<1>7. CASE i + Max = n + 1
  <2>1. i = n + 1 - Max /\ n + 1 > Max
    BY <1>1, <1>4, <1>5, <1>7
  <2>2. log[i] + Duration <= now
    BY <1>3, <2>1
  <2>3. new[i + Max] = now /\ new[i] = log[i] /\ log[i] \in Nat
    BY <1>1, <1>5, <1>7
  <2> QED
    BY <1>4, <2>2, <2>3
<1> QED
  BY <1>1, <1>4, <1>5, <1>6, <1>7

\* A history stays ordered when the current time is added.
LEMMA OrderedAppend ==
    ASSUME NEW log \in Seq(Nat), now \in Nat, Ordered(log)
    PROVE  Ordered(Append(log, now))
<1> DEFINE new == Append(log, now)
           n == Len(log)
<1>1. /\ n \in Nat /\ Len(new) = n + 1 /\ new[n + 1] = now
      /\ \A i \in 1 .. n : new[i] = log[i] /\ log[i] \in Nat
  BY AppendTime
<1>2. /\ \A i \in 1 .. n : log[i] <= now
      /\ \A i, j \in 1 .. n : i <= j => log[i] <= log[j]
  BY DEF Ordered
<1> SUFFICES /\ \A i \in 1 .. Len(new) : new[i] <= now
             /\ \A i, j \in 1 .. Len(new) : i <= j => new[i] <= new[j]
  BY DEF Ordered
<1> HIDE DEF new, n
<1>3. \A i \in 1 .. n + 1 : i \in 1 .. n \/ i = n + 1
  BY <1>1
<1>4. \A i \in 1 .. n + 1 : new[i] <= now
  BY <1>1, <1>2, <1>3
<1>5. ASSUME NEW i \in 1 .. n + 1, NEW j \in 1 .. n + 1, i <= j
      PROVE  new[i] <= new[j]
  <2>1. CASE j = n + 1
    BY <1>1, <1>4, <2>1
  <2>2. CASE j \in 1 .. n
    <3>1. i \in 1 .. n
      BY <1>1, <1>5, <2>2
    <3> QED
      BY <1>1, <1>2, <1>5, <2>2, <3>1
  <2> QED
    BY <1>3, <2>1, <2>2
<1> QED
  BY <1>1, <1>4, <1>5

\* RequestNew: a queue of one request is recent when all others are past.
LEMMA RecentNew ==
    ASSUME NEW log \in Seq(Nat), now \in Nat, Past(log)
    PROVE  Recent(<<now>>, Append(log, now))
<1> DEFINE new == Append(log, now)
           n == Len(log)
<1>1. /\ n \in Nat /\ Len(new) = n + 1 /\ new[n + 1] = now
      /\ \A i \in 1 .. n : new[i] = log[i]
  BY AppendTime
<1>2. \A i \in 1 .. n : log[i] + Duration <= now
  BY DEF Past
<1>3. Len(<<now>>) = 1 /\ <<now>>[1] = now
  OBVIOUS
<1>4. Max \in Nat \ {0}
  BY LimiterAssumption
<1> SUFFICES /\ 1 \in 1 .. Max /\ 1 <= Len(new)
             /\ \A i \in 1 .. 1 : <<now>>[i] = new[Len(new) - 1 + i]
             /\ \A i \in 1 .. Len(new) - 1 : new[i] + Duration <= now
  BY <1>3 DEF Recent
<1> HIDE DEF new, n
<1> QED
  BY <1>1, <1>2, <1>3, <1>4

\* RequestRoom: a recent queue with room stays recent.
LEMMA RecentRoom ==
    ASSUME NEW log \in Seq(Nat), NEW q \in Seq(Nat), now \in Nat,
           Recent(q, log), Len(q) < Max
    PROVE  Recent(Append(q, now), Append(log, now))
<1> DEFINE new == Append(log, now)
           n == Len(log)
           q2 == Append(q, now)
           m == Len(q)
<1>1. /\ n \in Nat /\ Len(new) = n + 1 /\ new[n + 1] = now
      /\ \A i \in 1 .. n : new[i] = log[i]
  BY AppendTime
<1>2. /\ m \in Nat /\ Len(q2) = m + 1 /\ q2[m + 1] = now
      /\ \A i \in 1 .. m : q2[i] = q[i]
  BY AppendTime
<1>3. /\ m \in 1 .. Max /\ m <= n /\ m < Max /\ Max \in Nat
      /\ \A i \in 1 .. m : q[i] = log[n - m + i]
      /\ \A i \in 1 .. n - m : log[i] + Duration <= q[1]
  BY LimiterAssumption DEF Recent
<1> SUFFICES /\ Len(q2) \in 1 .. Max /\ Len(q2) <= Len(new)
             /\ \A i \in 1 .. Len(q2) : q2[i] = new[Len(new) - Len(q2) + i]
             /\ \A i \in 1 .. Len(new) - Len(q2) : new[i] + Duration <= q2[1]
  BY DEF Recent
<1> HIDE DEF new, n, q2, m
<1>4. ASSUME NEW i \in 1 .. m + 1
      PROVE  q2[i] = new[n - m + i]
  <2>1. CASE i = m + 1
    <3>1. n - m + i = n + 1
      BY <1>1, <1>3, <2>1
    <3> QED
      BY <1>1, <1>2, <2>1, <3>1
  <2>2. CASE i \in 1 .. m
    <3>1. n - m + i \in 1 .. n
      BY <1>1, <1>3, <2>2
    <3> QED
      BY <1>1, <1>2, <1>3, <2>2, <3>1
  <2> QED
    BY <1>3, <2>1, <2>2
<1>5. ASSUME NEW i \in 1 .. n - m
      PROVE  new[i] + Duration <= q2[1]
  <2>1. i \in 1 .. n /\ 1 \in 1 .. m
    BY <1>1, <1>3
  <2> QED
    BY <1>1, <1>2, <1>3, <2>1
<1>6. (n + 1) - (m + 1) = n - m
  BY <1>1, <1>3
<1> QED
  BY <1>1, <1>2, <1>3, <1>4, <1>5, <1>6

\* RequestFull: a full queue that gives up its oldest entry stays recent.
LEMMA RecentFull ==
    ASSUME NEW log \in Seq(Nat), NEW q \in Seq(Nat), now \in Nat,
           Recent(q, log), Len(q) >= Max
    PROVE  Recent(Append(Tail(q), now), Append(log, now))
<1> DEFINE new == Append(log, now)
           n == Len(log)
           q2 == Append(Tail(q), now)
<1>1. /\ n \in Nat /\ Len(new) = n + 1 /\ new[n + 1] = now
      /\ \A i \in 1 .. n : new[i] = log[i]
  BY AppendTime
<1>r. /\ Max \in Nat \ {0} /\ Len(q) \in Nat
      /\ Len(q) \in 1 .. Max /\ Len(q) <= n
      /\ \A i \in 1 .. Len(q) : q[i] = log[n - Len(q) + i]
  BY LimiterAssumption DEF Recent
<1>m. Len(q) = Max
  BY <1>r
<1>2. /\ Max \in Nat \ {0} /\ Len(q) = Max /\ Max <= n
      /\ \A i \in 1 .. Max : q[i] = log[n - Max + i]
  BY <1>r, <1>m
<1>3. /\ Tail(q) \in Seq(Nat) /\ Len(Tail(q)) = Max - 1
      /\ \A i \in 1 .. Max - 1 : Tail(q)[i] = q[i + 1]
  BY <1>2, TailTimes
<1>4. /\ Len(q2) = Max /\ q2[Max] = now
      /\ \A i \in 1 .. Max - 1 : q2[i] = q[i + 1]
  BY <1>2, <1>3, AppendTime
<1> SUFFICES /\ Len(q2) \in 1 .. Max /\ Len(q2) <= Len(new)
             /\ \A i \in 1 .. Len(q2) : q2[i] = new[Len(new) - Len(q2) + i]
             /\ ~(Len(q2) < Max)
  BY DEF Recent
<1> HIDE DEF new, n, q2
<1>5. ASSUME NEW i \in 1 .. Max
      PROVE  q2[i] = new[n + 1 - Max + i]
  <2>1. CASE i = Max
    <3>1. n + 1 - Max + i = n + 1
      BY <1>1, <1>2, <2>1
    <3> QED
      BY <1>1, <1>4, <2>1, <3>1
  <2>2. CASE i \in 1 .. Max - 1
    <3>1. /\ n + 1 - Max + i \in 1 .. n
          /\ i + 1 \in 1 .. Max
          /\ n - Max + (i + 1) = n + 1 - Max + i
      BY <1>1, <1>2, <2>2
    <3> QED
      BY <1>1, <1>2, <1>4, <2>2, <3>1
  <2> QED
    BY <1>2, <2>1, <2>2
<1> QED
  BY <1>1, <1>2, <1>4, <1>5

\* The three ways to pass are all out of the window of the request Max
\* before.
LEMMA OldEnough ==
    ASSUME NEW log \in Seq(Nat), NEW q, now \in Nat,
           \/ Past(log)
           \/ /\ q \in Seq(Nat) /\ Recent(q, log) /\ Ordered(log)
              /\ Len(q) < Max \/ now - q[1] >= Duration,
           Len(log) + 1 > Max
    PROVE  log[Len(log) + 1 - Max] + Duration <= now
<1> DEFINE n == Len(log)
           m == Len(q)
           i == n + 1 - Max
<1>1. /\ n \in Nat /\ Max \in Nat \ {0} /\ Duration \in Nat
      /\ i \in 1 .. n /\ log[i] \in Nat
  BY LimiterAssumption
<1>2. CASE Past(log)
  BY <1>1, <1>2 DEF Past
<1>3. CASE /\ q \in Seq(Nat) /\ Recent(q, log) /\ Ordered(log)
           /\ Len(q) < Max
  <2>1. /\ m \in 1 .. Max /\ m <= n /\ m < Max
        /\ q[1] = log[n - m + 1]
        /\ \A j \in 1 .. n - m : log[j] + Duration <= q[1]
    BY <1>3 DEF Recent
  <2>2. i \in 1 .. n - m /\ n - m + 1 \in 1 .. n
    BY <1>1, <2>1
  <2>3. log[n - m + 1] <= now /\ log[n - m + 1] \in Nat
    <3>1. \A j \in 1 .. Len(log) : log[j] <= now
      BY ONLY <1>3 DEF Ordered
    <3> QED
      BY ONLY <3>1, <2>2, log \in Seq(Nat)
  <2>4. log[i] + Duration <= q[1]
    BY <2>1, <2>2
  <2>5. q[1] <= now /\ q[1] \in Nat
    BY <2>1, <2>3
  <2> QED
    BY <1>1, <2>4, <2>5
<1>4. CASE /\ q \in Seq(Nat) /\ Recent(q, log)
           /\ Len(q) >= Max /\ now - q[1] >= Duration
  <2>1. m = Max /\ q[1] = log[n - m + 1]
    BY <1>1, <1>4 DEF Recent
  <2>2. n - m + 1 = i
    BY <1>1, <2>1
  <2>3. now - log[i] >= Duration
    BY ONLY <1>4, <2>1, <2>2
  <2> QED
    BY ONLY <1>1, <2>3, now \in Nat
<1>5. q \in Seq(Nat) => Len(q) \in Nat
  OBVIOUS
<1> QED
  BY <1>1, <1>2, <1>3, <1>4, <1>5

\* A pass of k with a recent queue keeps the invariant: nothing changes for
\* the other addresses.
LEMMA PassKeepsInv ==
    ASSUME LimiterInv, NEW k \in Keys, NEW queue \in Seq(Nat),
           Pass(k, queue),
           Recent(queue, Append(accepted[k], now)),
           Len(accepted[k]) + 1 > Max =>
               accepted[k][Len(accepted[k]) + 1 - Max] + Duration <= now
    PROVE  LimiterInv'
<1>1. /\ now \in Nat /\ now' = now
      /\ store \in [Keys -> Seq(Nat) \cup {None}]
      /\ accepted \in [Keys -> Seq(Nat)]
      /\ store' = [store EXCEPT ![k] = queue]
      /\ accepted' = [accepted EXCEPT ![k] = Append(accepted[k], now)]
      /\ queue # None
  BY LimiterAssumption DEF LimiterInv, TypeOK, Pass
<1>2. accepted[k] \in Seq(Nat) /\ Append(accepted[k], now) \in Seq(Nat)
  BY <1>1, AppendTime
<1>3. TypeOK'
  BY <1>1, <1>2 DEF TypeOK
<1>4. Windowed(Append(accepted[k], now)) /\ Ordered(Append(accepted[k], now))
  BY <1>1, <1>2, WindowedAppend, OrderedAppend
  DEF LimiterInv, SlidingWindow, QueueIsRecent
<1>5. ASSUME NEW q \in Keys
      PROVE  /\ Windowed(accepted[q])'
             /\ Ordered(accepted[q])'
             /\ IF store'[q] = None THEN Past(accepted[q])'
                ELSE Recent(store[q], accepted[q])'
  <2>1. CASE q = k
    <3>1. store'[q] = queue /\ accepted'[q] = Append(accepted[k], now)
      BY <1>1, <2>1
    <3> QED
      BY <1>1, <1>4, <3>1 DEF Windowed, Ordered, Recent
  <2>2. CASE q # k
    <3>1. store'[q] = store[q] /\ accepted'[q] = accepted[q]
      BY <1>1, <2>2
    <3>2. /\ Windowed(accepted[q]) /\ Ordered(accepted[q])
          /\ IF store[q] = None THEN Past(accepted[q])
             ELSE Recent(store[q], accepted[q])
      BY DEF LimiterInv, SlidingWindow, QueueIsRecent
    <3> QED
      BY <1>1, <3>1, <3>2 DEF Windowed, Ordered, Past, Recent
  <2> QED
    BY <2>1, <2>2
<1> QED
  BY <1>3, <1>5 DEF LimiterInv, SlidingWindow, QueueIsRecent

\* clearExpiredItems: a queue that has gone quiet holds the last accepted
\* time, so that all of them are past.
LEMMA QuietIsPast ==
    ASSUME NEW log \in Seq(Nat), NEW q \in Seq(Nat), now \in Nat,
           Recent(q, log), Ordered(log), now - q[Len(q)] > Duration
    PROVE  Past(log)
<1>1. Len(log) \in Nat /\ Duration \in Nat /\ Max \in Nat
  BY LimiterAssumption
<1>2. Len(q) \in 1 .. Max /\ Len(q) <= Len(log)
      /\ q[Len(q)] = log[Len(log) - Len(q) + Len(q)]
  BY DEF Recent
<1>3. Len(log) - Len(q) + Len(q) = Len(log) /\ Len(log) \in 1 .. Len(log)
  BY <1>1, <1>2
<1> SUFFICES ASSUME NEW i \in 1 .. Len(log)
             PROVE  log[i] + Duration <= now
  BY DEF Past
<1>4. log[i] <= log[Len(log)] /\ log[i] \in Nat /\ log[Len(log)] \in Nat
  BY <1>1, <1>3 DEF Ordered
<1> QED
  BY <1>1, <1>2, <1>3, <1>4

\* The empty map satisfies the invariant.
LEMMA LimiterInvInit == Init => LimiterInv
BY LimiterAssumption
DEF Init, LimiterInv, TypeOK, SlidingWindow, QueueIsRecent, Windowed, Ordered,
    Past

\* Every step keeps the invariant.
LEMMA LimiterInvStep == LimiterInv /\ [Next]_vars => LimiterInv'
<1> SUFFICES ASSUME LimiterInv, [Next]_vars PROVE LimiterInv'
  OBVIOUS
<1>0. /\ now \in Nat /\ Duration \in Nat
      /\ store \in [Keys -> Seq(Nat) \cup {None}]
      /\ accepted \in [Keys -> Seq(Nat)]
  BY LimiterAssumption DEF LimiterInv, TypeOK
<1>k. ASSUME NEW k \in Keys
      PROVE  /\ Windowed(accepted[k]) /\ Ordered(accepted[k])
             /\ store[k] = None => Past(accepted[k])
             /\ store[k] # None => /\ Recent(store[k], accepted[k])
                                   /\ store[k] \in Seq(Nat)
  BY <1>0 DEF LimiterInv, SlidingWindow, QueueIsRecent
<1>1. ASSUME NEW k \in Keys, RequestNew(k)
      PROVE  LimiterInv'
  <2>1. Pass(k, <<now>>) /\ Past(accepted[k]) /\ <<now>> \in Seq(Nat)
    BY <1>0, <1>1, <1>k DEF RequestNew
  <2>2. Recent(<<now>>, Append(accepted[k], now))
    BY <1>0, <2>1, RecentNew
  <2>3. Len(accepted[k]) + 1 > Max =>
            accepted[k][Len(accepted[k]) + 1 - Max] + Duration <= now
    BY <1>0, <2>1, OldEnough
  <2> QED
    BY <2>1, <2>2, <2>3, PassKeepsInv
<1>2. ASSUME NEW k \in Keys, RequestRoom(k)
      PROVE  LimiterInv'
  <2>1. /\ Pass(k, Append(store[k], now))
        /\ Len(store[k]) < Max /\ store[k] \in Seq(Nat)
        /\ Recent(store[k], accepted[k]) /\ Ordered(accepted[k])
    BY <1>2, <1>k DEF RequestRoom
  <2>2. Recent(Append(store[k], now), Append(accepted[k], now))
    BY <1>0, <2>1, RecentRoom
  <2>3. Len(accepted[k]) + 1 > Max =>
            accepted[k][Len(accepted[k]) + 1 - Max] + Duration <= now
    BY <1>0, <2>1, OldEnough
  <2>4. Append(store[k], now) \in Seq(Nat)
    BY <1>0, <2>1, AppendTime
  <2> QED
    BY <2>1, <2>2, <2>3, <2>4, PassKeepsInv
<1>3. ASSUME NEW k \in Keys, RequestFull(k)
      PROVE  LimiterInv'
  <2>1. /\ Pass(k, Append(Tail(store[k]), now))
        /\ Len(store[k]) >= Max /\ store[k] \in Seq(Nat)
        /\ now - store[k][1] >= Duration
        /\ Recent(store[k], accepted[k]) /\ Ordered(accepted[k])
    BY <1>3, <1>k DEF RequestFull, RoomAgain
  <2>2. Recent(Append(Tail(store[k]), now), Append(accepted[k], now))
    BY <1>0, <2>1, RecentFull
  <2>3. Len(accepted[k]) + 1 > Max =>
            accepted[k][Len(accepted[k]) + 1 - Max] + Duration <= now
    BY <1>0, <2>1, OldEnough
  <2>4. Append(Tail(store[k]), now) \in Seq(Nat)
    <3>1. Len(store[k]) > 0
      BY <2>1 DEF Recent
    <3> QED
      BY <1>0, <2>1, <3>1, TailTimes, AppendTime
  <2> QED
    BY <2>1, <2>2, <2>3, <2>4, PassKeepsInv
<1>4. CASE clearExpiredItems
  <2>1. /\ accepted' = accepted /\ now' = now
        /\ \A k \in Keys : store'[k] = IF Quiet(k) THEN None ELSE store[k]
        /\ TypeOK'
    BY <1>0, <1>4 DEF clearExpiredItems, TypeOK
  <2>2. ASSUME NEW k \in Keys, Quiet(k)
        PROVE  Past(accepted[k])
    BY <1>0, <1>k, <2>2, QuietIsPast DEF Quiet
  <2>3. ASSUME NEW k \in Keys
        PROVE  /\ Windowed(accepted[k])' /\ Ordered(accepted[k])'
               /\ Past(accepted[k]) => Past(accepted[k])'
    BY <1>k, <2>1 DEF Windowed, Ordered, Past
  <2>4. ASSUME NEW k \in Keys
        PROVE  IF store'[k] = None THEN Past(accepted[k])'
               ELSE Recent(store[k], accepted[k])'
    <3>1. CASE Quiet(k)
      BY <2>1, <2>2, <2>3, <3>1
    <3>2. CASE ~Quiet(k)
      <4>1. store'[k] = store[k] /\ accepted'[k] = accepted[k]
        BY <2>1, <3>2
      <4> QED
        BY <1>k, <2>3, <4>1 DEF Recent
    <3> QED
      BY <3>1, <3>2
  <2> QED
    BY <2>1, <2>3, <2>4 DEF LimiterInv, SlidingWindow, QueueIsRecent
<1>5. CASE Tick
  <2>1. accepted' = accepted /\ store' = store /\ now' = now + 1 /\ TypeOK'
    BY <1>0, <1>5 DEF Tick, TypeOK
  <2>2. \A k \in Keys : \A i \in 1 .. Len(accepted[k]) : accepted[k][i] \in Nat
    BY <1>0
  <2>3. \A k \in Keys : /\ Windowed(accepted[k])' /\ Ordered(accepted[k])'
                        /\ store[k] = None => Past(accepted[k])'
    BY <1>0, <1>k, <2>1, <2>2 DEF Windowed, Ordered, Past
  <2>4. \A k \in Keys : store[k] # None => Recent(store[k], accepted[k])'
    BY <1>k, <2>1 DEF Recent
  <2> QED
    BY <2>1, <2>3, <2>4 DEF LimiterInv, SlidingWindow, QueueIsRecent
<1>6. CASE UNCHANGED vars
  BY <1>6
  DEF vars, LimiterInv, TypeOK, SlidingWindow, QueueIsRecent, Windowed,
      Ordered, Past, Recent
<1> QED
  BY <1>1, <1>2, <1>3, <1>4, <1>5, <1>6 DEF Next, Request, RequestRejected

\* The map, the histories and the clock keep their types and every queue
\* stays a recent part of its address's history.
THEOREM LimiterInvariant == Spec => []LimiterInv
BY LimiterInvInit, LimiterInvStep, PTL DEF Spec

\* The limiter never lets Max + 1 requests of one address pass within a
\* window of Duration seconds, whatever its clean-up goroutine drops.
THEOREM LimiterWindow == Spec => []SlidingWindow
<1>1. LimiterInv => SlidingWindow
  BY DEF LimiterInv
<1> QED
  BY <1>1, LimiterInvariant, PTL

\* A request of k would be answered with 429 now.
TurnedAway(k) == store[k] # None /\ Len(store[k]) >= Max /\ ~RoomAgain(k)

\* As many requests of k as may have passed within the window.
LimitReached(k) ==
    /\ Len(accepted[k]) >= Max
    /\ accepted[k][Len(accepted[k]) + 1 - Max] + Duration > now

LimitIsExact == \A k \in Keys : TurnedAway(k) <=> LimitReached(k)

\* Request turns an address away exactly when the whole history of what passed
\* would: a queue forgets nothing that matters when it is rotated, dropped by
\* clearExpiredItems or rebuilt, and remembers nothing for too long.
THEOREM LimiterIsExact == Spec => []LimitIsExact
<1>1. LimiterInv => LimitIsExact
  <2> SUFFICES ASSUME LimiterInv, NEW k \in Keys
               PROVE  TurnedAway(k) <=> LimitReached(k)
    BY DEF LimitIsExact
  <2> DEFINE log == accepted[k]
             q == store[k]
             n == Len(log)
  <2>1. /\ now \in Nat /\ log \in Seq(Nat) /\ n \in Nat
        /\ q # None => q \in Seq(Nat) /\ Len(q) \in Nat /\ Recent(q, log)
        /\ q = None => Past(log)
        /\ Ordered(log)
    BY DEF LimiterInv, TypeOK, QueueIsRecent
  <2>2. Max \in Nat \ {0} /\ Duration \in Nat
    BY LimiterAssumption
  <2>3. ASSUME TurnedAway(k)  PROVE  LimitReached(k)
    <3>1. /\ q # None /\ Recent(q, log) /\ Len(q) >= Max
          /\ ~(now - q[1] >= Duration)
      BY <2>1, <2>3 DEF TurnedAway, RoomAgain
    <3>2. Len(q) \in 1 .. Max /\ Len(q) <= n /\ q[1] = log[n - Len(q) + 1]
      <4> HIDE DEF q, log
      <4>1. /\ Len(q) \in 1 .. Max /\ Len(q) <= Len(log)
            /\ \A i \in 1 .. Len(q) : q[i] = log[Len(log) - Len(q) + i]
        BY <3>1 DEF Recent
      <4>2. 1 \in 1 .. Len(q)
        BY <2>2, <4>1
      <4> QED
        BY <4>1, <4>2
    <3> HIDE DEF n
    <3>3. Len(q) = Max /\ n - Len(q) + 1 = n + 1 - Max /\ n + 1 - Max \in 1 .. n
      BY <2>1, <2>2, <3>1, <3>2
    <3>4. log[n + 1 - Max] \in Nat /\ q[1] = log[n + 1 - Max]
      BY <2>1, <3>2, <3>3 DEF n
    <3>5. log[n + 1 - Max] + Duration > now
      BY <2>1, <2>2, <3>1, <3>4
    <3> QED
      BY <2>1, <2>2, <3>2, <3>3, <3>5 DEF LimitReached, n
  <2>4. ASSUME ~TurnedAway(k), LimitReached(k)  PROVE  FALSE
    <3>1. \/ Past(log)
          \/ /\ q \in Seq(Nat) /\ Recent(q, log) /\ Ordered(log)
             /\ Len(q) < Max \/ now - q[1] >= Duration
      BY <2>1, <2>2, <2>4 DEF TurnedAway, RoomAgain
    <3>2. n + 1 > Max
      BY <2>1, <2>2, <2>4 DEF LimitReached
    <3>3. log[n + 1 - Max] + Duration <= now
      BY <2>1, <3>1, <3>2, OldEnough
    <3>4. log[n + 1 - Max] \in Nat /\ log[n + 1 - Max] + Duration > now
      <4>1. n + 1 - Max \in 1 .. n
        BY <2>1, <2>2, <3>2
      <4> QED
        BY <2>1, <2>4, <4>1 DEF LimitReached
    <3> QED
      BY <2>1, <2>2, <3>3, <3>4
  <2> QED
    BY <2>3, <2>4
<1> QED
  BY <1>1, LimiterInvariant, PTL
=============================================================================
