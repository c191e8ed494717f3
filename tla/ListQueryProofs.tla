-------------------------- MODULE ListQueryProofs ---------------------------
(***************************************************************************)
(* What a search finds and what the pages show, for texts, terms, lists    *)
(* and pages of any size.                                                  *)
(***************************************************************************)
EXTENDS ListQuery, FiniteSetTheorems, SequenceTheorems, TLAPS

(* Induction, by the least number that would break it.                     *)

LEMMA LeastNat ==
    ASSUME NEW T \in SUBSET Nat, T # {}
    PROVE  \E m \in T : \A k \in T : m <= k
<1> DEFINE U == {0 .. k : k \in T}
<1>1. U \subseteq FiniteSubsetsOf(Nat)
  <2>1. ASSUME NEW k \in T  PROVE  0 .. k \in FiniteSubsetsOf(Nat)
    <3>1. k \in Int /\ 0 \in Int /\ 0 .. k \in SUBSET Nat
      OBVIOUS
    <3>2. IsFiniteSet(0 .. k)
      BY <3>1, FS_Interval
    <3> QED
      BY <3>1, <3>2 DEF FiniteSubsetsOf
  <2> QED
    BY <2>1
<1>2. IsWellFoundedOn(StrictSubsetOrdering(Nat), FiniteSubsetsOf(Nat))
  BY FS_StrictSubsetOrderingWellFounded
<1>3. PICK u \in U : \A w \in U : <<w, u>> \notin StrictSubsetOrdering(Nat)
  <2>1. U # {}
    OBVIOUS
  <2> HIDE DEF U
  <2> QED
    BY <1>1, <1>2, <2>1, WFMin
<1>4. PICK m \in T : u = 0 .. m
  OBVIOUS
<1>5. ASSUME NEW k \in T, k < m  PROVE  FALSE
  <2>1. 0 .. k \in U /\ 0 .. k \subseteq 0 .. m /\ 0 .. k # 0 .. m
    BY <1>5
  <2>2. 0 .. k \in SUBSET Nat /\ 0 .. m \in SUBSET Nat
    OBVIOUS
  <2> QED
    BY <1>3, <1>4, <2>1, <2>2 DEF StrictSubsetOrdering
<1> QED
  BY <1>5

LEMMA Steps ==
    ASSUME NEW G, NEW n \in Nat, 0 \in G,
           \A m \in 0 .. n - 1 : m \in G => m + 1 \in G
    PROVE  \A m \in 0 .. n : m \in G
<1> SUFFICES ASSUME NEW b \in 0 .. n, b \notin G  PROVE  FALSE
  OBVIOUS
<1> DEFINE T == {m \in 0 .. n : m \notin G}
<1>1. PICK m \in T : \A k \in T : m <= k
  <2>1. T \in SUBSET Nat /\ T # {}
    OBVIOUS
  <2> HIDE DEF T
  <2> QED
    BY <2>1, LeastNat
<1>2. m # 0 /\ m \in 1 .. n
  OBVIOUS
<1>3. m - 1 \in 0 .. n - 1 /\ m - 1 \notin T
  BY <1>1, <1>2
<1>4. m - 1 \in G
  BY <1>3
<1> QED
  BY <1>2, <1>3, <1>4

-----------------------------------------------------------------------------
\* The provers do not know that these three are strings.
Chars == STRING \cup {"%", "_", "\\"}

LEMMA TextsOfChars ==
    ASSUME NEW s \in Seq(STRING)  PROVE  s \in Seq(Chars)
BY SeqMonotonic DEF Chars

LEMMA One ==
    ASSUME NEW V, NEW x \in V
    PROVE  <<x>> \in Seq(V) /\ Len(<<x>>) = 1 /\ <<x>>[1] = x
OBVIOUS

LEMMA Two ==
    ASSUME NEW V, NEW x \in V, NEW y \in V
    PROVE  /\ <<x, y>> \in Seq(V) /\ Len(<<x, y>>) = 2
           /\ <<x, y>>[1] = x /\ <<x, y>>[2] = y
OBVIOUS

-----------------------------------------------------------------------------
(* The recursive functions are what their equations say.                   *)

LEMMA PlacesDepend ==
    ASSUME NEW s, NEW p \in Seq(Chars), NEW i \in 1 .. Len(p) + 2, NEW f, NEW g,
           i + 1 <= Len(p) + 2 => f[i + 1] = g[i + 1],
           i + 2 <= Len(p) + 2 => f[i + 2] = g[i + 2]
    PROVE  Places(s, p, f, i) = Places(s, p, g, i)
<1>1. Len(p) \in Nat
  OBVIOUS
<1>2. CASE i > Len(p)
  BY <1>2 DEF Places
<1>3. CASE i <= Len(p) /\ p[i] = "%"
  <2>1. f[i + 1] = g[i + 1]
    BY <1>1, <1>3
  <2> QED
    BY <1>1, <1>3, <2>1 DEF Places
<1>4. CASE i <= Len(p) /\ p[i] # "%"
  <2>1. f[i + 1] = g[i + 1] /\ f[i + 2] = g[i + 2]
    BY <1>1, <1>4
  <2>2. CASE p[i] = "\\" /\ i < Len(p)
    BY <1>1, <1>4, <2>1, <2>2 DEF Places
  <2>3. CASE ~(p[i] = "\\" /\ i < Len(p))
    BY <1>1, <1>4, <2>1, <2>3 DEF Places
  <2> QED
    BY <2>2, <2>3
<1> QED
  BY <1>1, <1>2, <1>3, <1>4

LEMMA PlacesExist ==
    ASSUME NEW s, NEW p \in Seq(Chars)
    PROVE  \E from : from = [i \in 1 .. Len(p) + 2 |-> Places(s, p, from, i)]
<1> DEFINE N == Len(p) + 2
           Good(n, f) ==
               /\ f = [i \in 1 .. N |-> f[i]]
               /\ \A i \in N - n + 1 .. N : f[i] = Places(s, p, f, i)
           G == {n \in 0 .. N : \E f : Good(n, f)}
<1>1. N \in Nat /\ N = Len(p) + 2
  OBVIOUS
<1>2. 0 \in G
  <2> DEFINE f == [i \in 1 .. N |-> 0]
  <2>1. Good(0, f)
    BY <1>1
  <2> QED
    BY <1>1, <2>1
<1>3. ASSUME NEW m \in 0 .. N - 1, m \in G  PROVE  m + 1 \in G
  <2>1. PICK f : Good(m, f)
    BY <1>3
  <2> DEFINE j == N - m
             g == [i \in 1 .. N |-> IF i = j THEN Places(s, p, f, j) ELSE f[i]]
  <2>2. j \in 1 .. N /\ m + 1 \in 0 .. N
    BY <1>1, <1>3
  <2>3. \A i \in 1 .. N : i # j => g[i] = f[i]
    OBVIOUS
  <2>4. ASSUME NEW i \in N - (m + 1) + 1 .. N
        PROVE  g[i] = Places(s, p, g, i)
    <3>1. i \in 1 .. N /\ i >= j
      BY <1>1, <1>3, <2>2
    <3>2. Places(s, p, f, i) = Places(s, p, g, i)
      <4>1. i + 1 <= N => f[i + 1] = g[i + 1]
        BY <1>1, <2>3, <3>1
      <4>2. i + 2 <= N => f[i + 2] = g[i + 2]
        BY <1>1, <2>3, <3>1
      <4> QED
        BY <1>1, <3>1, <4>1, <4>2, PlacesDepend
    <3>3. g[i] = Places(s, p, f, i)
      <4>1. CASE i = j
        BY <3>1, <4>1
      <4>2. CASE i # j
        <5>1. i \in N - m + 1 .. N
          BY <1>1, <1>3, <3>1, <4>2
        <5> QED
          BY <2>1, <2>3, <3>1, <4>2, <5>1
      <4> QED
        BY <4>1, <4>2
    <3> QED
      BY <3>2, <3>3
  <2>5. g = [i \in 1 .. N |-> g[i]]
    OBVIOUS
  <2>6. Good(m + 1, g)
    BY <2>4, <2>5
  <2> QED
    BY <2>2, <2>6
<1>4. N \in G
  <2> HIDE DEF G, N
  <2> QED
    BY <1>1, <1>2, <1>3, Steps
<1>5. PICK f : Good(N, f)
  BY <1>4
<1>6. f = [i \in 1 .. N |-> Places(s, p, f, i)]
  BY <1>1, <1>5
<1> QED
  BY <1>6

LEMMA LikeRead ==
    ASSUME NEW s, NEW p \in Seq(Chars)
    PROVE  \E from : /\ \A i \in 1 .. Len(p) + 2 : from[i] = Places(s, p, from, i)
                     /\ Like(s, p) <=> 1 \in from[1]
<1> DEFINE Body(f) == [i \in 1 .. Len(p) + 2 |-> Places(s, p, f, i)]
           from == CHOOSE f : f = Body(f)
<1>1. \E f : f = Body(f)
  BY PlacesExist
<1>2. from = Body(from)
  BY <1>1
<1>3. Like(s, p) <=> 1 \in from[1]
  BY DEF Like
<1> HIDE DEF from
<1> QED
  BY <1>2, <1>3

\* FlattenSeq joins its items one after the other.
LEMMA JoinsExist ==
    ASSUME NEW N \in Nat, NEW e
    PROVE  \E f : f = [i \in 1 .. N |-> IF i = 1 THEN e[i] ELSE f[i - 1] \o e[i]]
<1> DEFINE Join(f, i) == IF i = 1 THEN e[i] ELSE f[i - 1] \o e[i]
           Good(n, f) == /\ f = [i \in 1 .. N |-> f[i]]
                         /\ \A i \in 1 .. n : f[i] = Join(f, i)
           G == {n \in 0 .. N : \E f : Good(n, f)}
<1>1. ASSUME NEW f, NEW g, NEW i \in 1 .. N, i # 1 => f[i - 1] = g[i - 1]
      PROVE  Join(f, i) = Join(g, i)
  BY <1>1
<1> HIDE DEF Join
<1>2. 0 \in G
  <2> DEFINE f == [i \in 1 .. N |-> 0]
  <2>1. f = [i \in 1 .. N |-> f[i]]
    OBVIOUS
  <2>2. \A i \in 1 .. 0 : f[i] = Join(f, i)
    <3> HIDE DEF f
    <3>1. 1 .. 0 = {}
      OBVIOUS
    <3> QED
      BY <3>1
  <2> HIDE DEF f
  <2>3. Good(0, f)
    BY <2>1, <2>2
  <2>4. 0 \in 0 .. N /\ \E k : Good(0, k)
    <3> HIDE DEF Good
    <3> QED
      BY <2>3
  <2> QED
    BY <2>4
<1>3. ASSUME NEW m \in 0 .. N - 1, m \in G  PROVE  m + 1 \in G
  <2>1. PICK f : Good(m, f)
    BY <1>3
  <2> DEFINE j == m + 1
             g == [i \in 1 .. N |-> IF i = j THEN Join(f, j) ELSE f[i]]
  <2>2. j \in 1 .. N /\ j \in 0 .. N
    BY <1>3
  <2>3. \A i \in 1 .. N : i # j => g[i] = f[i]
    OBVIOUS
  <2>4. ASSUME NEW i \in 1 .. j  PROVE  g[i] = Join(g, i)
    <3>1. i \in 1 .. N /\ (i # 1 => i - 1 \in 1 .. N /\ i - 1 # j)
      BY <2>2
    <3>2. Join(f, i) = Join(g, i)
      BY <1>1, <2>3, <3>1
    <3>3. g[i] = Join(f, i)
      <4>1. CASE i = j
        BY <3>1, <4>1
      <4>2. CASE i # j
        <5>1. i \in 1 .. m
          BY <1>3, <4>2
        <5> QED
          BY <2>1, <2>3, <3>1, <4>2, <5>1
      <4> QED
        BY <4>1, <4>2
    <3> QED
      BY <3>2, <3>3
  <2>5. g = [i \in 1 .. N |-> g[i]]
    OBVIOUS
  <2>6. Good(m + 1, g)
    BY <2>4, <2>5
  <2> QED
    BY <2>2, <2>6
<1>4. N \in G
  <2> HIDE DEF G
  <2> QED
    BY <1>2, <1>3, Steps
<1>5. PICK f : Good(N, f)
  BY <1>4
<1>6. f = [i \in 1 .. N |-> Join(f, i)]
  BY <1>5
<1> QED
  BY <1>6 DEF Join

\* G[i] is the first i of the n items of e, joined.
Joins(V, e, n, G) ==
    /\ G[0] = <<>>
    /\ \A i \in 1 .. n : G[i] = G[i - 1] \o e[i]
    /\ \A i \in 0 .. n : G[i] \in Seq(V)

LEMMA FlattenRead ==
    ASSUME NEW V, NEW n \in Nat, NEW e, Len(e) = n, n = 0 => e = <<>>,
           \A i \in 1 .. n : e[i] \in Seq(V)
    PROVE  \E G : Joins(V, e, n, G) /\ Seqs!FlattenSeq(e) = G[n]
<1>1. CASE n = 0
  <2>1. Seqs!FlattenSeq(e) = <<>>
    BY <1>1 DEF Seqs!FlattenSeq
  <2> DEFINE G == [i \in {0} |-> <<>>]
  <2>2. G[0] = <<>> /\ <<>> \in Seq(V)
    BY EmptySeq
  <2>3. 1 .. n = {} /\ 0 .. n = {0}
    BY <1>1
  <2>4. Seqs!FlattenSeq(e) = G[n]
    BY <1>1, <2>1, <2>2
  <2> HIDE DEF G
  <2>5. Joins(V, e, n, G)
    BY <2>2, <2>3 DEF Joins
  <2> QED
    BY <2>4, <2>5
<1>2. CASE n # 0
  <2> DEFINE Body(f) == [i \in 1 .. n |-> IF i = 1 THEN e[i] ELSE f[i - 1] \o e[i]]
             g == CHOOSE f : f = Body(f)
             G == [i \in 0 .. n |-> IF i = 0 THEN <<>> ELSE g[i]]
  <2>1. g = Body(g)
    BY JoinsExist
  <2>2. Seqs!FlattenSeq(e) = g[n]
    BY <1>2 DEF Seqs!FlattenSeq
  <2> HIDE DEF g
  <2>3. \A i \in 1 .. n : g[i] = IF i = 1 THEN e[i] ELSE g[i - 1] \o e[i]
    <3> SUFFICES ASSUME NEW i \in 1 .. n
                 PROVE  g[i] = IF i = 1 THEN e[i] ELSE g[i - 1] \o e[i]
      OBVIOUS
    <3>1. g[i] = Body(g)[i]
      <4> HIDE DEF Body
      <4> QED
        BY <2>1
    <3> QED
      BY <3>1
  <2>4. G[0] = <<>> /\ \A i \in 1 .. n : G[i] = g[i]
    OBVIOUS
  <2>5. Seqs!FlattenSeq(e) = G[n]
    BY <1>2, <2>2, <2>4
  <2> HIDE DEF G
  <2>6. \A i \in 1 .. n : G[i] = G[i - 1] \o e[i]
    <3> SUFFICES ASSUME NEW i \in 1 .. n  PROVE  G[i] = G[i - 1] \o e[i]
      OBVIOUS
    <3>1. CASE i = 1
      <4>1. e[i] \in Seq(V)
        OBVIOUS
      <4>2. <<>> \o e[i] = e[i]
        BY <4>1, ConcatEmptySeq
      <4>3. i - 1 = 0 /\ G[i] = e[i]
        BY <2>3, <2>4, <3>1
      <4> QED
        BY <2>4, <4>2, <4>3
    <3>2. CASE i # 1
      <4>1. i \in 1 .. n /\ i - 1 \in 1 .. n
        BY <3>2
      <4> QED
        BY <2>3, <2>4, <3>2, <4>1
    <3> QED
      BY <3>1, <3>2
  <2>7. \A i \in 0 .. n : G[i] \in Seq(V)
    <3> DEFINE S == {i \in 0 .. n : G[i] \in Seq(V)}
    <3>1. 0 \in S
      <4>1. 0 \in 0 .. n /\ <<>> \in Seq(V)
        BY EmptySeq
      <4> QED
        BY <2>4, <4>1
    <3>2. ASSUME NEW m \in 0 .. n - 1, m \in S  PROVE  m + 1 \in S
      <4>1. m + 1 \in 1 .. n /\ m + 1 \in 0 .. n /\ (m + 1) - 1 = m
        OBVIOUS
      <4>2. G[m + 1] = G[m] \o e[m + 1]
        BY <2>6, <4>1
      <4>3. G[m + 1] \in Seq(V)
        BY <3>2, <4>1, <4>2, ConcatProperties
      <4> QED
        BY <4>1, <4>3
    <3> HIDE DEF S
    <3>3. \A m \in 0 .. n : m \in S
      BY <3>1, <3>2, Steps
    <3> QED
      BY <3>3 DEF S
  <2>8. Joins(V, e, n, G)
    BY <2>4, <2>6, <2>7 DEF Joins
  <2> QED
    BY <2>5, <2>8
<1> QED
  BY <1>1, <1>2

\* An array of items is a sequence of them.
LEMMA Indexed ==
    ASSUME NEW W, NEW n \in Nat, NEW f \in [1 .. n -> W]
    PROVE  f \in Seq(W) /\ Len(f) = n /\ (n = 0 => f = <<>>)
<1>1. f \in Seq(W)
  BY SeqDef
<1>2. Len(f) \in Nat /\ DOMAIN f = 1 .. Len(f) /\ DOMAIN f = 1 .. n
  BY <1>1, LenProperties
<1>3. Len(f) = n
  BY <1>2
<1>4. n = 0 => f = <<>>
  BY <1>1, <1>3, EmptySeq
<1> QED
  BY <1>1, <1>3, <1>4

\* c reads as a and then b.
Reads(c, a, b) ==
    /\ Len(a) \in Nat /\ Len(b) \in Nat /\ Len(c) = Len(a) + Len(b)
    /\ \A x \in 1 .. Len(a) : c[x] = a[x]
    /\ \A y \in 1 .. Len(b) : c[Len(a) + y] = b[y]

LEMMA ReadJoin ==
    ASSUME NEW V, NEW a \in Seq(V), NEW b \in Seq(V)
    PROVE  a \o b \in Seq(V) /\ Reads(a \o b, a, b)
<1> DEFINE c == a \o b
<1>1. Len(a) \in Nat /\ Len(b) \in Nat
  BY LenProperties
<1>2. /\ c \in Seq(V) /\ Len(c) = Len(a) + Len(b)
      /\ \A i \in 1 .. Len(a) + Len(b) :
             c[i] = IF i <= Len(a) THEN a[i] ELSE b[i - Len(a)]
  BY ConcatProperties
<1> HIDE DEF c
<1>3. ASSUME NEW x \in 1 .. Len(a)  PROVE  c[x] = a[x]
  <2>1. x \in 1 .. Len(a) + Len(b) /\ x <= Len(a)
    BY <1>1
  <2> QED
    BY <1>2, <2>1
<1>4. ASSUME NEW y \in 1 .. Len(b)  PROVE  c[Len(a) + y] = b[y]
  <2>1. /\ Len(a) + y \in 1 .. Len(a) + Len(b) /\ ~(Len(a) + y <= Len(a))
        /\ (Len(a) + y) - Len(a) = y
    BY <1>1
  <2> QED
    BY <1>2, <2>1
<1> QED
  BY <1>1, <1>2, <1>3, <1>4 DEF c, Reads

LEMMA ReadsStart ==
    ASSUME NEW a, NEW b, NEW c, Reads(c, a, b)
    PROVE  Len(a) <= Len(c) /\ \A x \in 1 .. Len(a) : c[x] = a[x]
BY DEF Reads

LEMMA EscapeRead ==
    ASSUME NEW ch \in Chars
    PROVE  /\ Escape(ch) \in Seq(Chars)
           /\ ch \in {"%", "_"} =>
                  /\ Len(Escape(ch)) = 2
                  /\ Escape(ch)[1] = "\\" /\ Escape(ch)[2] = ch
           /\ ch \notin {"%", "_"} => Len(Escape(ch)) = 1 /\ Escape(ch)[1] = ch
<1>1. "\\" \in Chars
  BY DEF Chars
<1>2. CASE ch \in {"%", "_"}
  <2>1. Escape(ch) = <<"\\", ch>>
    BY <1>2 DEF Escape
  <2>2. /\ <<"\\", ch>> \in Seq(Chars) /\ Len(<<"\\", ch>>) = 2
        /\ <<"\\", ch>>[1] = "\\" /\ <<"\\", ch>>[2] = ch
    BY <1>1, Two
  <2> QED
    BY <1>2, <2>1, <2>2
<1>3. CASE ch \notin {"%", "_"}
  <2>1. Escape(ch) = <<ch>>
    BY <1>3 DEF Escape
  <2> QED
    BY <1>3, <2>1, One
<1> QED
  BY <1>2, <1>3

\* The pattern is the escaped characters one after the other between wildcards.
LEMMA PatternJoins ==
    ASSUME NEW term \in Seq(Chars)
    PROVE  \E G :
        /\ G[0] = <<>>
        /\ \A i \in 1 .. Len(term) : G[i] = G[i - 1] \o Escape(term[i])
        /\ \A i \in 0 .. Len(term) : G[i] \in Seq(Chars)
        /\ likePattern(term) = <<"%">> \o G[Len(term)] \o <<"%">>
<1> DEFINE n == Len(term)
           e == [k \in DOMAIN term |-> Escape(term[k])]
           W == Seq(Chars)
<1>1. n \in Nat /\ DOMAIN term = 1 .. n
  BY LenProperties
<1>2. ASSUME NEW k \in 1 .. n  PROVE  e[k] = Escape(term[k]) /\ e[k] \in W
  <2>1. term[k] \in Chars
    BY ElementOfSeq
  <2> QED
    BY <1>1, <2>1, EscapeRead
<1>3. e = [k \in 1 .. n |-> e[k]]
  BY <1>1
<1>4. likePattern(term) = <<"%">> \o Seqs!FlattenSeq(e) \o <<"%">>
  BY DEF likePattern
<1>5. Len(e) = n /\ (n = 0 => e = <<>>)
  <2> HIDE DEF e, W
  <2>1. e \in [1 .. n -> W]
    BY <1>2, <1>3
  <2> HIDE DEF n
  <2> QED
    BY <1>1, <2>1, Indexed
<1>6. \A i \in 1 .. n : e[i] \in Seq(Chars)
  BY <1>2
<1> HIDE DEF e
<1>7. PICK G : Joins(Chars, e, n, G) /\ Seqs!FlattenSeq(e) = G[n]
  <2> HIDE DEF n
  <2> QED
    BY <1>1, <1>5, <1>6, FlattenRead
<1>8. \A i \in 1 .. n : G[i] = G[i - 1] \o Escape(term[i])
  BY <1>2, <1>7 DEF e, Joins
<1>9. likePattern(term) = <<"%">> \o G[n] \o <<"%">>
  BY <1>4, <1>7
<1> QED
  BY <1>7, <1>8, <1>9 DEF Joins

-----------------------------------------------------------------------------
(* Where the characters of a term are in its pattern.                      *)

\* The k-th character is at pos[k], behind a backslash if LIKE would read it
\* as a wildcard; the last position is the closing wildcard.
Layout(term, p, pos) ==
    LET n == Len(term) IN
    /\ pos \in [1 .. n + 1 -> Nat]
    /\ pos[1] = 2 /\ pos[n + 1] = Len(p)
    /\ p \in Seq(Chars) /\ Len(p) >= 2
    /\ p[1] = "%" /\ p[Len(p)] = "%"
    /\ \A k \in 1 .. n :
           /\ pos[k] \in 2 .. Len(p) - 1
           /\ IF term[k] \in {"%", "_"}
              THEN /\ pos[k + 1] = pos[k] + 2
                   /\ p[pos[k]] = "\\" /\ p[pos[k] + 1] = term[k]
              ELSE pos[k + 1] = pos[k] + 1 /\ p[pos[k]] = term[k]

LEMMA PatternLayout ==
    ASSUME NEW term \in Seq(Chars)
    PROVE  \E pos : Layout(term, likePattern(term), pos)
<1> DEFINE n == Len(term)
           p == likePattern(term)
<1>1. n \in Nat /\ \A k \in 1 .. n : term[k] \in Chars
  BY LenProperties, ElementOfSeq
<1>2. PICK G : /\ G[0] = <<>>
               /\ \A i \in 1 .. n : G[i] = G[i - 1] \o Escape(term[i])
               /\ \A i \in 0 .. n : G[i] \in Seq(Chars)
               /\ p = <<"%">> \o G[n] \o <<"%">>
  BY PatternJoins
<1> HIDE DEF p
<1>3. \A i \in 0 .. n : Len(G[i]) \in Nat
  BY <1>2, LenProperties
<1>4. n \in 0 .. n /\ 0 \in 0 .. n
  BY <1>1
<1>5. /\ p \in Seq(Chars) /\ Len(p) = Len(G[n]) + 2
      /\ p[1] = "%" /\ p[Len(p)] = "%"
      /\ \A x \in 1 .. Len(G[n]) : p[x + 1] = G[n][x]
  <2> DEFINE w == <<"%">>
             q == w \o G[n]
             l == Len(G[n])
  <2>1. w \in Seq(Chars) /\ Len(w) = 1 /\ w[1] = "%"
    <3>1. "%" \in Chars
      BY DEF Chars
    <3> QED
      BY <3>1, One
  <2> HIDE DEF w
  <2>2. G[n] \in Seq(Chars) /\ l \in Nat
    BY <1>2, <1>3, <1>4
  <2>3. q \in Seq(Chars) /\ Reads(q, w, G[n])
    BY <2>1, <2>2, ReadJoin
  <2>4. p = q \o w
    BY <1>2 DEF w
  <2> HIDE DEF q
  <2>5. p \in Seq(Chars) /\ Reads(p, q, w)
    BY <2>1, <2>3, <2>4, ReadJoin
  <2>6. /\ Len(q) = 1 + l /\ \A y \in 1 .. l : q[1 + y] = G[n][y]
        /\ q[1] = "%" /\ 1 \in 1 .. 1 + l
    BY <2>1, <2>2, <2>3 DEF Reads
  <2>7. /\ Len(p) = Len(q) + 1
        /\ \A x \in 1 .. Len(q) : p[x] = q[x]
        /\ p[Len(q) + 1] = "%"
    BY <2>1, <2>5 DEF Reads
  <2> HIDE DEF l
  <2>8. p[1] = "%" /\ p[Len(p)] = "%"
    BY <2>6, <2>7
  <2>9. ASSUME NEW x \in 1 .. l  PROVE  p[x + 1] = G[n][x]
    <3>1. x + 1 = 1 + x /\ x + 1 \in 1 .. 1 + l
      BY <2>2
    <3> QED
      BY <2>6, <2>7, <3>1
  <2>10. Len(p) = l + 2
    BY <2>2, <2>6, <2>7
  <2> QED
    BY <2>5, <2>8, <2>9, <2>10 DEF l
<1>6. ASSUME NEW k \in 1 .. n  PROVE  Reads(G[k], G[k - 1], Escape(term[k]))
  <2>1. k - 1 \in 0 .. n /\ term[k] \in Chars
    BY <1>1
  <2>2. G[k] = G[k - 1] \o Escape(term[k])
    BY <1>2
  <2>3. G[k - 1] \in Seq(Chars) /\ Escape(term[k]) \in Seq(Chars)
    BY <1>2, <2>1, EscapeRead
  <2> QED
    BY <2>2, <2>3, ReadJoin
<1> DEFINE Starts(m) == \A k \in 0 .. m : /\ Len(G[k]) <= Len(G[m])
                                          /\ \A x \in 1 .. Len(G[k]) : G[m][x] = G[k][x]
           S == {m \in 0 .. n : Starts(m)}
<1>7. n \in S
  <2>1. 0 \in S
    <3>1. \A k \in 0 .. 0 : k = 0
      OBVIOUS
    <3>2. Starts(0)
      BY <1>3, <1>4, <3>1
    <3> QED
      BY <1>4, <3>2
  <2>2. ASSUME NEW m \in 0 .. n - 1, m \in S  PROVE  m + 1 \in S
    <3>1. m + 1 \in 1 .. n /\ m \in 0 .. n /\ m + 1 \in 0 .. n /\ (m + 1) - 1 = m
      BY <1>1
    <3>2. Len(G[m]) \in Nat /\ Len(G[m + 1]) \in Nat
      BY <1>3, <3>1
    <3>3. /\ Len(G[m]) <= Len(G[m + 1])
          /\ \A x \in 1 .. Len(G[m]) : G[m + 1][x] = G[m][x]
      <4>1. Reads(G[m + 1], G[m], Escape(term[m + 1]))
        BY <1>6, <3>1
      <4> QED
        BY <4>1, ReadsStart
    <3>4. ASSUME NEW k \in 0 .. m + 1
          PROVE  /\ Len(G[k]) <= Len(G[m + 1])
                 /\ \A x \in 1 .. Len(G[k]) : G[m + 1][x] = G[k][x]
      <4>1. CASE k = m + 1
        BY <3>2, <4>1
      <4>2. CASE k # m + 1
        <5>1. k \in 0 .. m /\ k \in 0 .. n
          BY <1>1, <4>2
        <5>2. /\ Len(G[k]) \in Nat
              /\ Len(G[k]) <= Len(G[m])
              /\ \A x \in 1 .. Len(G[k]) : G[m][x] = G[k][x]
          BY <1>3, <2>2, <5>1
        <5> QED
          BY <3>2, <3>3, <5>2
      <4> QED
        BY <4>1, <4>2
    <3> QED
      BY <3>1, <3>4
  <2> HIDE DEF S
  <2>3. \A m \in 0 .. n : m \in S
    BY <1>1, <2>1, <2>2, Steps
  <2> QED
    BY <1>4, <2>3
<1> DEFINE pos == [k \in 1 .. n + 1 |-> Len(G[k - 1]) + 2]
<1>8. pos \in [1 .. n + 1 -> Nat] /\ pos[1] = 2 /\ pos[n + 1] = Len(p)
  <2>1. \A k \in 1 .. n + 1 : k - 1 \in 0 .. n
    BY <1>1
  <2>2. 1 \in 1 .. n + 1 /\ n + 1 \in 1 .. n + 1 /\ 1 - 1 = 0 /\ (n + 1) - 1 = n
    BY <1>1
  <2>3. Len(G[0]) = 0
    BY <1>2, EmptySeq
  <2>4. \A k \in 1 .. n + 1 : Len(G[k - 1]) + 2 \in Nat
    BY <1>3, <2>1
  <2> QED
    BY <1>5, <2>2, <2>3, <2>4
<1>9. ASSUME NEW k \in 1 .. n
      PROVE  pos[k] = Len(G[k - 1]) + 2 /\ pos[k + 1] = Len(G[k]) + 2
  <2>1. k \in 1 .. n + 1 /\ k + 1 \in 1 .. n + 1 /\ (k + 1) - 1 = k
    BY <1>1
  <2> QED
    BY <2>1
<1> HIDE DEF pos
<1>10. ASSUME NEW k \in 1 .. n
       PROVE  /\ pos[k] \in 2 .. Len(p) - 1
              /\ IF term[k] \in {"%", "_"}
                 THEN /\ pos[k + 1] = pos[k] + 2
                      /\ p[pos[k]] = "\\" /\ p[pos[k] + 1] = term[k]
                 ELSE pos[k + 1] = pos[k] + 1 /\ p[pos[k]] = term[k]
  <2> DEFINE a == Len(G[k - 1])
             c == Escape(term[k])
             l == Len(G[n])
  <2>1. k \in 0 .. n /\ k - 1 \in 0 .. n
    BY <1>1
  <2>2. /\ a \in Nat /\ l \in Nat /\ Len(c) \in Nat
        /\ pos[k] = a + 2 /\ pos[k + 1] = Len(G[k]) + 2
        /\ Len(G[k]) = a + Len(c) /\ Len(p) = l + 2
        /\ \A y \in 1 .. Len(c) : G[k][a + y] = c[y]
    <3>1. Reads(G[k], G[k - 1], c)
      BY <1>6
    <3> QED
      BY <1>3, <1>4, <1>5, <1>9, <2>1, <3>1 DEF Reads
  <2>3. a + Len(c) <= l /\ \A x \in 1 .. a + Len(c) : G[n][x] = G[k][x]
    BY <1>7, <2>1, <2>2
  <2> HIDE DEF a, l
  <2>4. ASSUME NEW y \in 1 .. Len(c)  PROVE  p[a + y + 1] = c[y]
    <3> HIDE DEF c
    <3>1. a + y \in 1 .. a + Len(c) /\ a + y \in 1 .. l
      BY <2>2, <2>3
    <3> QED
      BY <1>5, <2>2, <2>3, <3>1 DEF l
  <2>5. term[k] \in Chars
    BY <1>1
  <2>6. CASE term[k] \in {"%", "_"}
    <3>1. Len(c) = 2 /\ c[1] = "\\" /\ c[2] = term[k]
      BY <2>5, <2>6, EscapeRead
    <3> HIDE DEF c
    <3>2. p[a + 1 + 1] = c[1] /\ p[a + 2 + 1] = c[2]
      BY <2>4, <3>1
    <3>3. a + 1 + 1 = pos[k] /\ a + 2 + 1 = pos[k] + 1
      BY <2>2
    <3>4. pos[k] \in 2 .. Len(p) - 1 /\ pos[k + 1] = pos[k] + 2
      BY <2>2, <2>3, <3>1
    <3> QED
      BY <2>6, <3>1, <3>2, <3>3, <3>4
  <2>7. CASE term[k] \notin {"%", "_"}
    <3>1. Len(c) = 1 /\ c[1] = term[k]
      BY <2>5, <2>7, EscapeRead
    <3> HIDE DEF c
    <3>2. p[a + 1 + 1] = c[1]
      BY <2>4, <3>1
    <3>3. a + 1 + 1 = pos[k]
      BY <2>2
    <3>4. pos[k] \in 2 .. Len(p) - 1 /\ pos[k + 1] = pos[k] + 1
      BY <2>2, <2>3, <3>1
    <3> QED
      BY <2>7, <3>1, <3>2, <3>3, <3>4
  <2> QED
    BY <2>6, <2>7
<1>11. Len(p) >= 2
  BY <1>3, <1>4, <1>5
<1> QED
  BY <1>5, <1>8, <1>10, <1>11 DEF Layout, p

-----------------------------------------------------------------------------
(* What a search finds.                                                    *)

\* The places in s where the term stands from its k-th character on.
Stands(s, term, k) ==
    {j \in 1 .. Len(s) + 1 :
        /\ j + (Len(term) + 1 - k) <= Len(s) + 1
        /\ \A m \in k .. Len(term) : s[j + m - k] = term[m]}

LEMMA SubSeqIs ==
    ASSUME NEW s \in Seq(Chars), NEW term \in Seq(Chars),
           NEW k \in 0 .. Len(s) - Len(term)
    PROVE  SubSeq(s, k + 1, k + Len(term)) = term
               <=> \A m \in 1 .. Len(term) : s[k + m] = term[m]
<1> DEFINE n == Len(term)
           a == k + 1
           b == k + n
           u == SubSeq(s, a, b)
<1>1. n \in Nat /\ Len(s) \in Nat /\ k \in Nat /\ k + n <= Len(s)
  <2>1. n \in Nat /\ Len(s) \in Nat
    BY LenProperties
  <2> QED
    BY <2>1
<1>2. \A i \in a .. b : s[i] \in Chars
  <2> SUFFICES ASSUME NEW i \in a .. b  PROVE  s[i] \in Chars
    OBVIOUS
  <2>1. i \in 1 .. Len(s)
    BY <1>1
  <2> QED
    BY <2>1, ElementOfSeq
<1>3. a \in Int /\ b \in Int
  BY <1>1
<1> HIDE DEF a, b
<1>4. /\ u \in Seq(Chars)
      /\ Len(u) = IF a <= b THEN b - a + 1 ELSE 0
      /\ \A i \in 1 .. b - a + 1 : u[i] = s[a + i - 1]
  BY <1>2, <1>3, SubSeqProperties
<1> HIDE DEF u
<1>5. Len(u) = n
  BY <1>1, <1>4 DEF a, b
<1>6. ASSUME NEW m \in 1 .. n  PROVE  u[m] = s[k + m]
  <2>1. m \in 1 .. b - a + 1 /\ a + m - 1 = k + m
    BY <1>1 DEF a, b
  <2> QED
    BY <1>4, <2>1
<1>7. ASSUME \A m \in 1 .. n : s[k + m] = term[m]  PROVE  u = term
  <2>1. \A i \in 1 .. Len(u) : u[i] = term[i]
    BY <1>5, <1>6, <1>7
  <2> QED
    BY <1>4, <1>5, <2>1, SeqEqual
<1> QED
  BY <1>6, <1>7 DEF u, a, b

LEMMA IncludesStands ==
    ASSUME NEW s \in Seq(Chars), NEW term \in Seq(Chars)
    PROVE  Includes(s, term) <=> Stands(s, term, 1) # {}
<1> DEFINE n == Len(term)
           L == Len(s)
<1>1. n \in Nat /\ L \in Nat
  BY LenProperties
<1>2. Includes(s, term)
          <=> \E k \in 0 .. L - n : \A m \in 1 .. n : s[k + m] = term[m]
  BY SubSeqIs DEF Includes
<1> HIDE DEF n, L
<1>3. Stands(s, term, 1) =
          {j \in 1 .. L + 1 : /\ j + (n + 1 - 1) <= L + 1
                              /\ \A m \in 1 .. n : s[j + m - 1] = term[m]}
  BY DEF Stands, n, L
<1>4. ASSUME NEW k \in 0 .. L - n, \A m \in 1 .. n : s[k + m] = term[m]
      PROVE  Stands(s, term, 1) # {}
  <2>1. k + 1 \in 1 .. L + 1 /\ (k + 1) + (n + 1 - 1) <= L + 1
    BY <1>1
  <2>2. \A m \in 1 .. n : (k + 1) + m - 1 = k + m
    BY <1>1
  <2>3. k + 1 \in Stands(s, term, 1)
    BY <1>3, <1>4, <2>1, <2>2
  <2> QED
    BY <2>3
<1>5. ASSUME NEW j \in Stands(s, term, 1)
      PROVE  \E k \in 0 .. L - n : \A m \in 1 .. n : s[k + m] = term[m]
  <2>1. /\ j \in 1 .. L + 1 /\ j + (n + 1 - 1) <= L + 1
        /\ \A m \in 1 .. n : s[j + m - 1] = term[m]
    BY <1>3
  <2>2. j - 1 \in 0 .. L - n /\ \A m \in 1 .. n : (j - 1) + m = j + m - 1
    BY <1>1, <2>1
  <2> QED
    BY <2>1, <2>2
<1> QED
  BY <1>2, <1>4, <1>5

LEMMA StandsRead ==
    ASSUME NEW s \in Seq(Chars), NEW term \in Seq(Chars), NEW k \in 1 .. Len(term)
    PROVE  Stands(s, term, k) =
               {j \in 1 .. Len(s) : /\ s[j] = term[k]
                                    /\ j + 1 \in Stands(s, term, k + 1)}
<1> DEFINE n == Len(term)
           L == Len(s)
<1>1. n \in Nat /\ L \in Nat
  BY LenProperties
<1>2. ASSUME NEW j \in Stands(s, term, k)
      PROVE  j \in 1 .. L /\ s[j] = term[k] /\ j + 1 \in Stands(s, term, k + 1)
  <2>1. /\ j \in 1 .. L + 1 /\ j + (n + 1 - k) <= L + 1
        /\ \A m \in k .. n : s[j + m - k] = term[m]
    BY DEF Stands
  <2> HIDE DEF n, L
  <2>2. j \in 1 .. L /\ j + 1 \in 1 .. L + 1 /\ (j + 1) + (n + 1 - (k + 1)) <= L + 1
    BY <1>1, <2>1 DEF n
  <2>3. k \in k .. n /\ j + k - k = j
    BY <1>1, <2>1 DEF n
  <2>4. \A m \in k + 1 .. n : m \in k .. n /\ (j + 1) + m - (k + 1) = j + m - k
    BY <1>1, <2>1 DEF n
  <2>5. \A m \in k + 1 .. n : s[(j + 1) + m - (k + 1)] = term[m]
    BY <2>1, <2>4
  <2>6. j + 1 \in Stands(s, term, k + 1)
    BY <2>2, <2>5 DEF Stands, n, L
  <2> QED
    BY <2>1, <2>2, <2>3, <2>6
<1>3. ASSUME NEW j \in 1 .. L, s[j] = term[k], j + 1 \in Stands(s, term, k + 1)
      PROVE  j \in Stands(s, term, k)
  <2>1. /\ (j + 1) + (n + 1 - (k + 1)) <= L + 1
        /\ \A m \in k + 1 .. n : s[(j + 1) + m - (k + 1)] = term[m]
    BY <1>3 DEF Stands
  <2> HIDE DEF n, L
  <2>2. j \in 1 .. L + 1 /\ j + (n + 1 - k) <= L + 1
    BY <1>1, <1>3, <2>1 DEF n
  <2>3. ASSUME NEW m \in k .. n  PROVE  s[j + m - k] = term[m]
    <3>1. CASE m = k
      <4>1. j + m - k = j
        BY <1>1, <1>3, <3>1
      <4> QED
        BY <1>3, <3>1, <4>1
    <3>2. CASE m # k
      <4>1. m \in k + 1 .. n /\ (j + 1) + m - (k + 1) = j + m - k
        BY <1>1, <1>3, <3>2 DEF n
      <4> QED
        BY <2>1, <4>1
    <3> QED
      BY <3>1, <3>2
  <2> QED
    BY <2>2, <2>3 DEF Stands, n, L
<1>4. \A j \in Stands(s, term, k) : j \in 1 .. L
  BY <1>2
<1> QED
  BY <1>2, <1>3

\* Read from where the k-th character is, the pattern matches where the rest
\* of the term stands.
LEMMA PatternStands ==
    ASSUME NEW s \in Seq(Chars), NEW term \in Seq(Chars), NEW p, NEW pos, NEW from,
           \A k \in DOMAIN term : term[k] # "\\",
           Layout(term, p, pos),
           \A i \in 1 .. Len(p) + 2 : from[i] = Places(s, p, from, i)
    PROVE  \A k \in 1 .. Len(term) + 1 : from[pos[k]] = Stands(s, term, k)
<1> DEFINE n == Len(term)
           L == Len(s)
           l == Len(p)
<1>1. /\ n \in Nat /\ L \in Nat /\ p \in Seq(Chars) /\ l \in Nat /\ l >= 2
      /\ DOMAIN term = 1 .. n
      /\ pos[1] = 2 /\ pos[n + 1] = l /\ p[l] = "%" /\ p[1] = "%"
  <2>1. p \in Seq(Chars)
    BY DEF Layout
  <2> QED
    BY <2>1, LenProperties DEF Layout
<1>2. from[pos[n + 1]] = Stands(s, term, n + 1)
  <2>1. l + 1 \in 1 .. l + 2 /\ l \in 1 .. l + 2 /\ l + 1 > l /\ ~(l > l)
    BY <1>1
  <2>2. from[l + 1] = {L + 1}
    BY <2>1 DEF Places
  <2>3. from[l] = {j \in 1 .. L + 1 : \E k \in from[l + 1] : j <= k}
    BY <1>1, <2>1 DEF Places
  <2>4. from[l] = 1 .. L + 1
    BY <1>1, <2>2, <2>3
  <2>5. Stands(s, term, n + 1) = 1 .. L + 1
    <3>1. /\ \A j \in 1 .. L + 1 : j + (n + 1 - (n + 1)) <= L + 1
          /\ \A m \in n + 1 .. n : FALSE
      BY <1>1
    <3> QED
      BY <3>1 DEF Stands
  <2> QED
    BY <1>1, <2>4, <2>5
<1>3. ASSUME NEW k \in 1 .. n
      PROVE  from[pos[k]] = {j \in 1 .. L : s[j] = term[k] /\ j + 1 \in from[pos[k + 1]]}
  <2> DEFINE i == pos[k]
  <2>1. /\ i \in 2 .. l - 1
        /\ IF term[k] \in {"%", "_"}
           THEN /\ pos[k + 1] = i + 2 /\ p[i] = "\\" /\ p[i + 1] = term[k]
           ELSE pos[k + 1] = i + 1 /\ p[i] = term[k]
    BY DEF Layout
  <2> HIDE DEF i
  <2>2. i \in 1 .. l + 2 /\ ~(i > l) /\ i < l
    <3>1. i \in 2 .. l - 1
      BY <2>1
    <3>2. l \in Nat
      BY <1>1
    <3> HIDE DEF l
    <3> QED
      BY <3>1, <3>2
  <2>3. from[i] = Places(s, p, from, i)
    BY <2>2
  <2>4. term[k] # "\\"
    BY <1>1
  <2>5. CASE term[k] \in {"%", "_"}
    <3>1. p[i] = "\\" /\ p[i] # "%" /\ pos[k + 1] = i + 2 /\ p[i + 1] = term[k]
      BY <2>1, <2>5
    <3>2. Places(s, p, from, i) =
              {j \in 1 .. L : p[i + 1] = s[j] /\ j + 1 \in from[i + 2]}
      BY <2>2, <3>1 DEF Places
    <3> QED
      BY <2>3, <3>1, <3>2 DEF i
  <2>6. CASE term[k] \notin {"%", "_"}
    <3>1. /\ p[i] = term[k] /\ p[i] # "%" /\ p[i] # "_" /\ p[i] # "\\"
          /\ pos[k + 1] = i + 1
      BY <2>1, <2>4, <2>6
    <3>2. Places(s, p, from, i) =
              {j \in 1 .. L : p[i] = s[j] /\ j + 1 \in from[i + 1]}
      BY <2>2, <3>1 DEF Places
    <3> QED
      BY <2>3, <3>1, <3>2 DEF i
  <2> QED
    BY <2>5, <2>6
<1> DEFINE G == {d \in 0 .. n : from[pos[n + 1 - d]] = Stands(s, term, n + 1 - d)}
<1>4. 0 \in G
  <2>1. n + 1 - 0 = n + 1 /\ 0 \in 0 .. n
    BY <1>1
  <2> QED
    BY <1>2, <2>1
<1>5. ASSUME NEW d \in 0 .. n - 1, d \in G  PROVE  d + 1 \in G
  <2> DEFINE k == n - d
  <2>1. k \in 1 .. n /\ n + 1 - d = k + 1 /\ n + 1 - (d + 1) = k /\ d + 1 \in 0 .. n
    <3> HIDE DEF n
    <3> QED
      BY <1>1
  <2> HIDE DEF k
  <2>2. from[pos[k + 1]] = Stands(s, term, k + 1)
    BY <1>5, <2>1
  <2>3. from[pos[k]] = Stands(s, term, k)
    <3>1. Stands(s, term, k) =
              {j \in 1 .. Len(s) : /\ s[j] = term[k]
                                   /\ j + 1 \in Stands(s, term, k + 1)}
      BY <2>1, StandsRead
    <3>2. from[pos[k]] =
              {j \in 1 .. Len(s) : s[j] = term[k] /\ j + 1 \in from[pos[k + 1]]}
      BY <1>3, <2>1
    <3> QED
      BY <2>2, <3>1, <3>2
  <2> QED
    BY <2>1, <2>3
<1>6. \A d \in 0 .. n : d \in G
  <2> HIDE DEF G, n
  <2> QED
    BY <1>1, <1>4, <1>5, Steps
<1>7. ASSUME NEW k \in 1 .. n + 1  PROVE  from[pos[k]] = Stands(s, term, k)
  <2>1. n + 1 - k \in 0 .. n /\ n + 1 - (n + 1 - k) = k
    BY <1>1
  <2> QED
    BY <1>6, <2>1
<1> QED
  BY <1>7

\* likePattern: with its wildcards escaped, a term that has no backslash finds
\* the texts that contain it and no others, whatever characters it has.
THEOREM LikeIsIncludes ==
    ASSUME NEW s \in Seq(STRING), NEW term \in Seq(STRING),
           \A k \in DOMAIN term : term[k] # "\\"
    PROVE  Like(s, likePattern(term)) <=> Includes(s, term)
<1> DEFINE p == likePattern(term)
           L == Len(s)
<1>1. s \in Seq(Chars) /\ term \in Seq(Chars)
  BY TextsOfChars
<1>2. PICK pos : Layout(term, p, pos)
  BY <1>1, PatternLayout
<1> HIDE DEF p
<1>3. /\ p \in Seq(Chars) /\ Len(p) \in Nat /\ Len(p) >= 2 /\ p[1] = "%"
      /\ pos[1] = 2 /\ Len(term) \in Nat /\ L \in Nat
  BY <1>1, <1>2, LenProperties DEF Layout
<1>4. PICK from : /\ \A i \in 1 .. Len(p) + 2 : from[i] = Places(s, p, from, i)
                  /\ Like(s, p) <=> 1 \in from[1]
  BY <1>3, LikeRead
<1>5. from[2] = Stands(s, term, 1)
  <2>1. \A k \in 1 .. Len(term) + 1 : from[pos[k]] = Stands(s, term, k)
    BY <1>1, <1>2, <1>4, PatternStands
  <2>2. 1 \in 1 .. Len(term) + 1
    BY <1>3
  <2> QED
    BY <1>3, <2>1, <2>2
<1>6. from[1] = {j \in 1 .. L + 1 : \E k \in from[2] : j <= k}
  <2>1. 1 \in 1 .. Len(p) + 2 /\ ~(1 > Len(p)) /\ 1 + 1 = 2
    BY <1>3
  <2> QED
    BY <1>3, <1>4, <2>1 DEF Places
<1>7. 1 \in from[1] <=> Stands(s, term, 1) # {}
  <2>1. \A k \in Stands(s, term, 1) : 1 <= k
    BY <1>3 DEF Stands
  <2>2. 1 \in 1 .. L + 1
    BY <1>3
  <2> QED
    BY <1>5, <1>6, <2>1, <2>2
<1> QED
  BY <1>1, <1>4, <1>7, IncludesStands DEF p

-----------------------------------------------------------------------------
(* What a page shows.                                                      *)

\* The place of i in the list of the numbers in S.
Rank(S, i) == Cardinality({j \in S : j <= i})

LEMMA RankBounds ==
    ASSUME NEW S \in SUBSET Nat, IsFiniteSet(S), NEW i \in S
    PROVE  Rank(S, i) \in 1 .. Cardinality(S) /\ Cardinality(S) \in Nat
<1> DEFINE T == {j \in S : j <= i}
<1>1. T \in SUBSET S /\ i \in T
  OBVIOUS
<1> HIDE DEF T
<1>2. IsFiniteSet(T) /\ Cardinality(T) <= Cardinality(S)
  BY <1>1, FS_Subset
<1>3. Cardinality(T) \in Nat /\ Cardinality(S) \in Nat
  BY <1>2, FS_CardinalityType
<1>4. Cardinality(T) # 0
  BY <1>1, <1>2, FS_EmptySet
<1>5. Rank(S, i) = Cardinality(T)
  BY DEF Rank, T
<1> QED
  BY <1>2, <1>3, <1>4, <1>5

LEMMA RankOrder ==
    ASSUME NEW S \in SUBSET Nat, IsFiniteSet(S), NEW i \in S, NEW j \in S
    PROVE  i <= j <=> Rank(S, i) <= Rank(S, j)
<1>1. ASSUME NEW a \in S, NEW b \in S, a < b  PROVE  Rank(S, a) < Rank(S, b)
  <2> DEFINE A == {k \in S : k <= a}
             B == {k \in S : k <= b}
  <2>1. A \in SUBSET B /\ b \in B /\ b \notin A /\ B \in SUBSET S
    <3>1. a \in Nat /\ b \in Nat /\ \A k \in S : k \in Nat
      OBVIOUS
    <3>2. \A k \in S : k <= a => k <= b
      BY <1>1, <3>1
    <3>3. b <= b /\ ~(b <= a)
      BY <1>1, <3>1
    <3> QED
      BY <3>2, <3>3
  <2>2. Rank(S, a) = Cardinality(A) /\ Rank(S, b) = Cardinality(B)
    BY DEF Rank
  <2> HIDE DEF A, B
  <2>3. IsFiniteSet(B)
    BY <2>1, FS_Subset
  <2>4. Cardinality(A) <= Cardinality(B) /\ Cardinality(A) # Cardinality(B)
    BY <2>1, <2>3, FS_Subset
  <2>5. Rank(S, a) \in Nat /\ Rank(S, b) \in Nat
    BY RankBounds
  <2> QED
    BY <2>2, <2>4, <2>5
<1>2. i \in Nat /\ j \in Nat /\ Rank(S, i) \in Nat /\ Rank(S, j) \in Nat
  BY RankBounds
<1>3. CASE i < j
  BY <1>1, <1>2, <1>3
<1>4. CASE j < i
  BY <1>1, <1>2, <1>4
<1>5. CASE i = j
  BY <1>2, <1>5
<1> QED
  BY <1>2, <1>3, <1>4, <1>5

\* The first n rows of a list that has as many are n.
LEMMA LowRanks ==
    ASSUME NEW S \in SUBSET Nat, IsFiniteSet(S), NEW n \in 0 .. Cardinality(S)
    PROVE  /\ IsFiniteSet({i \in S : Rank(S, i) <= n})
           /\ Cardinality({i \in S : Rank(S, i) <= n}) = n
<1> DEFINE N == Cardinality(S)
           f == [i \in S |-> Rank(S, i)]
           T == {i \in S : Rank(S, i) <= n}
           g == [i \in T |-> Rank(S, i)]
<1>1. N \in Nat /\ IsFiniteSet(1 .. N) /\ Cardinality(1 .. N) = N
  <2>1. N \in Nat
    BY FS_CardinalityType
  <2> HIDE DEF N
  <2>2. 1 \in Int /\ N \in Int
    BY <2>1
  <2>3. IsFiniteSet(1 .. N) /\ Cardinality(1 .. N) = IF 1 > N THEN 0 ELSE N - 1 + 1
    BY <2>2, FS_Interval
  <2> QED
    BY <2>1, <2>3
<1>2. \A i \in S : Rank(S, i) \in 1 .. N
  BY RankBounds
<1>3. ASSUME NEW i \in S, NEW j \in S, Rank(S, i) = Rank(S, j)  PROVE  i = j
  <2>1. Rank(S, i) \in Nat
    BY <1>2, <1>1
  <2>2. i <= j /\ j <= i
    BY <1>3, <2>1, RankOrder
  <2> QED
    BY <2>2
<1>4. f \in Injection(S, 1 .. N)
  BY <1>2, <1>3 DEF Injection, IsInjective
<1>5. f \in Surjection(S, 1 .. N)
  BY <1>1, <1>4, FS_Injection
<1>6. \A r \in 1 .. N : \E i \in S : Rank(S, i) = r
  BY <1>5 DEF Surjection
<1>7. g \in Bijection(T, 1 .. n)
  <2>1. \A i \in T : Rank(S, i) \in 1 .. n
    <3> HIDE DEF N
    <3> QED
      BY <1>1, <1>2
  <2>2. \A r \in 1 .. n : r \in 1 .. N /\ r <= n
    BY <1>1
  <2>3. \A r \in 1 .. n : \E i \in T : g[i] = r
    BY <1>6, <2>2
  <2>4. g \in Injection(T, 1 .. n)
    BY <1>3, <2>1 DEF Injection, IsInjective
  <2>5. g \in Surjection(T, 1 .. n)
    BY <2>1, <2>3 DEF Surjection
  <2> QED
    BY <2>4, <2>5 DEF Bijection
<1>8. IsFiniteSet(T)
  <2>1. T \in SUBSET S
    OBVIOUS
  <2> HIDE DEF T
  <2> QED
    BY <2>1, FS_Subset
<1>9. Cardinality(1 .. n) = Cardinality(T)
  <2>1. ExistsBijection(T, 1 .. n)
    BY <1>7 DEF ExistsBijection
  <2> HIDE DEF T
  <2> QED
    BY <1>8, <2>1, FS_Bijection
<1>10. Cardinality(1 .. n) = n
  <2>1. 1 \in Int /\ n \in Int /\ n \in Nat
    BY <1>1
  <2>2. Cardinality(1 .. n) = IF 1 > n THEN 0 ELSE n - 1 + 1
    BY <2>1, FS_Interval
  <2> QED
    BY <2>1, <2>2
<1> QED
  BY <1>8, <1>9, <1>10

LEMMA RanksBetween ==
    ASSUME NEW S \in SUBSET Nat, IsFiniteSet(S),
           NEW b \in 0 .. Cardinality(S), NEW a \in 0 .. b
    PROVE  Cardinality({i \in S : a < Rank(S, i) /\ Rank(S, i) <= b}) = b - a
<1> DEFINE A == {i \in S : Rank(S, i) <= a}
           B == {i \in S : Rank(S, i) <= b}
           C == {i \in S : a < Rank(S, i) /\ Rank(S, i) <= b}
<1>1. Cardinality(S) \in Nat /\ a \in 0 .. Cardinality(S) /\ a \in Nat /\ b \in Nat
  <2>1. Cardinality(S) \in Nat
    BY FS_CardinalityType
  <2> QED
    BY <2>1
<1>2. IsFiniteSet(B) /\ Cardinality(B) = b /\ Cardinality(A) = a
  BY <1>1, LowRanks
<1>3. \A i \in S : Rank(S, i) \in Nat
  BY RankBounds
<1>4. C = B \ A /\ B \cap A = A
  <2>1. \A i \in S : a < Rank(S, i) <=> ~(Rank(S, i) <= a)
    BY <1>1, <1>3
  <2>2. \A i \in S : Rank(S, i) <= a => Rank(S, i) <= b
    BY <1>1, <1>3
  <2> QED
    BY <2>1, <2>2
<1> HIDE DEF A, B, C
<1>5. Cardinality(C) = Cardinality(B) - Cardinality(B \cap A)
  BY <1>2, <1>4, FS_Difference
<1> QED
  BY <1>2, <1>4, <1>5 DEF C

\* queryPage and trimPage: page by page, a list is cut into runs of pageSize
\* rows, and there is another page exactly when a row is left.
THEOREM PagesCutTheList ==
    ASSUME NEW S \in SUBSET Nat, IsFiniteSet(S),
           NEW page \in Nat \ {0}, NEW size \in Int
    PROVE  LET c == clampSize(size) IN
           /\ c \in Nat \ {0}
           /\ Page(S, page, size) =
                  [rows |-> {i \in S : /\ (page - 1) * c < Rank(S, i)
                                       /\ Rank(S, i) <= page * c},
                   more |-> Cardinality(S) > page * c]
<1> DEFINE c == clampSize(size)
           o == (page - 1) * c
           N == Cardinality(S)
           rows == Rows(S, pageArgs(page, size))
<1>1. c \in Nat \ {0}
  BY ListQueryAssumption DEF clampSize
<1> HIDE DEF c
<1>2. o \in Nat /\ page * c = o + c
  <2>1. page - 1 \in Nat /\ page = (page - 1) + 1
    OBVIOUS
  <2>2. \A q \in Nat : q * c \in Nat /\ (q + 1) * c = q * c + c
    BY <1>1
  <2> QED
    BY <2>1, <2>2
<1> HIDE DEF o
<1>3. pageArgs(page, size) = [offset |-> o, limit |-> c + 1]
  <2>1. Before(page) = page - 1
    BY DEF Before
  <2> QED
    BY <2>1 DEF pageArgs, o, c
<1>4. N \in Nat
  BY FS_CardinalityType
<1>5. \A i \in S : Rank(S, i) \in 1 .. N
  BY RankBounds
<1> HIDE DEF N
<1>6. rows = {i \in S : o < Rank(S, i) /\ Rank(S, i) <= o + c + 1}
  <2>1. rows = {i \in S : Rank(S, i) \in o + 1 .. o + (c + 1)}
    BY <1>3 DEF Rows, Rank
  <2>2. \A i \in S : Rank(S, i) \in o + 1 .. o + (c + 1)
                         <=> o < Rank(S, i) /\ Rank(S, i) <= o + c + 1
    BY <1>1, <1>2, <1>4, <1>5
  <2> QED
    BY <2>1, <2>2
<1>7. ASSUME NEW i \in rows
      PROVE  Cardinality({j \in rows : j <= i}) = Rank(S, i) - o
  <2> DEFINE r == Rank(S, i)
  <2>1. i \in S /\ o < r /\ r <= o + c + 1 /\ r \in 1 .. N
    BY <1>5, <1>6
  <2>2. \A j \in S : j <= i <=> Rank(S, j) <= r
    BY <2>1, RankOrder
  <2> HIDE DEF r
  <2>3. \A j \in S : Rank(S, j) <= r => Rank(S, j) <= o + c + 1
    BY <1>1, <1>2, <1>4, <1>5, <2>1
  <2>4. {j \in rows : j <= i} = {j \in S : o < Rank(S, j) /\ Rank(S, j) <= r}
    BY <1>6, <2>2, <2>3
  <2>5. r \in 0 .. Cardinality(S) /\ o \in 0 .. r
    BY <1>2, <1>4, <2>1 DEF N
  <2>6. Cardinality({j \in S : o < Rank(S, j) /\ Rank(S, j) <= r}) = r - o
    BY <2>5, RanksBetween
  <2> QED
    BY <2>4, <2>6 DEF r
<1>8. {i \in rows : Cardinality({j \in rows : j <= i}) <= c}
          = {i \in S : o < Rank(S, i) /\ Rank(S, i) <= page * c}
  <2> DEFINE A == {i \in rows : Cardinality({j \in rows : j <= i}) <= c}
  <2>1. A = {i \in rows : Rank(S, i) - o <= c}
    BY <1>7
  <2> HIDE DEF A, rows
  <2>2. \A i \in S : /\ Rank(S, i) - o <= c <=> Rank(S, i) <= page * c
                     /\ Rank(S, i) <= page * c => Rank(S, i) <= o + c + 1
    BY <1>1, <1>2, <1>4, <1>5
  <2>3. A = {i \in S : o < Rank(S, i) /\ Rank(S, i) <= page * c}
    BY <1>6, <2>1, <2>2
  <2> QED
    BY <2>3 DEF A
<1>9. Cardinality(rows) > c <=> N > page * c
  <2>1. CASE N >= o + c + 1
    <3> DEFINE b == o + c + 1
    <3>1. b \in 0 .. Cardinality(S) /\ o \in 0 .. b
      BY <1>1, <1>2, <1>4, <2>1 DEF N
    <3> HIDE DEF b
    <3>2. Cardinality({i \in S : o < Rank(S, i) /\ Rank(S, i) <= b}) = b - o
      BY <3>1, RanksBetween
    <3>3. Cardinality(rows) = b - o
      BY <1>6, <3>2 DEF b
    <3> HIDE DEF rows
    <3> QED
      BY <1>1, <1>2, <1>4, <2>1, <3>3 DEF b
  <2>2. CASE o <= N /\ N < o + c + 1
    <3>1. \A i \in S : Rank(S, i) <= o + c + 1 <=> Rank(S, i) <= N
      BY <1>1, <1>2, <1>4, <1>5, <2>2
    <3>2. rows = {i \in S : o < Rank(S, i) /\ Rank(S, i) <= N}
      BY <1>6, <3>1
    <3>3. N \in 0 .. Cardinality(S) /\ o \in 0 .. N
      BY <1>2, <1>4, <2>2 DEF N
    <3>4. Cardinality({i \in S : o < Rank(S, i) /\ Rank(S, i) <= N}) = N - o
      BY <3>3, RanksBetween
    <3> HIDE DEF rows
    <3> QED
      BY <1>1, <1>2, <1>4, <2>2, <3>2, <3>4
  <2>3. CASE N < o
    <3>1. \A i \in S : ~(o < Rank(S, i))
      BY <1>2, <1>4, <1>5, <2>3
    <3>2. rows = {}
      BY <1>6, <3>1
    <3>3. Cardinality(rows) = 0
      BY <3>2, FS_EmptySet
    <3> HIDE DEF rows
    <3> QED
      BY <1>1, <1>2, <1>4, <2>3, <3>3
  <2> QED
    BY <1>1, <1>2, <1>4, <2>1, <2>2, <2>3
<1> DEFINE trimmed == {i \in rows : Cardinality({j \in rows : j <= i}) <= c}
           cut == {i \in S : o < Rank(S, i) /\ Rank(S, i) <= page * c}
           left == Cardinality(rows) > c
           further == N > page * c
<1>10. Page(S, page, size) = [rows |-> trimmed, more |-> left]
  BY DEF Page, c
<1>11. trimmed = cut /\ left = further
  BY <1>8, <1>9
<1> HIDE DEF trimmed, left, rows
<1>12. Page(S, page, size) = [rows |-> cut, more |-> further]
  BY <1>10, <1>11
<1> QED
  BY <1>1, <1>12 DEF o, c, N

-----------------------------------------------------------------------------
(* How one row more or less moves the others.                              *)

\* trimPage: no page has more rows than the clamped page size, and one that is
\* followed by more rows has exactly as many.
THEOREM PagesFit ==
    ASSUME NEW S \in SUBSET Nat, IsFiniteSet(S),
           NEW page \in Nat \ {0}, NEW size \in Int
    PROVE  LET found == Page(S, page, size) IN
           /\ Cardinality(found.rows) \in 0 .. clampSize(size)
           /\ found.more => Cardinality(found.rows) = clampSize(size)
<1> DEFINE c == clampSize(size)
           n == Cardinality(S)
           q == page - 1
           found == Page(S, page, size)
           rows == {i \in S : q * c < Rank(S, i) /\ Rank(S, i) <= page * c}
<1>1. c \in Nat \ {0} /\ found = [rows |-> rows, more |-> n > page * c]
  BY PagesCutTheList
<1>2. q \in Nat /\ page = q + 1 /\ n \in Nat
  BY FS_CardinalityType
<1> HIDE DEF c, q
<1>3. q * c \in Nat /\ page * c = q * c + c
  BY <1>1, <1>2
<1> DEFINE a == q * c
           b == page * c
<1>4. a \in Nat /\ b = a + c
  BY <1>3
<1>5. rows = {i \in S : a < Rank(S, i) /\ Rank(S, i) <= b}
  OBVIOUS
<1> HIDE DEF rows, found
<1>6. found.rows = rows /\ (found.more <=> n > b)
  BY <1>1
<1> HIDE DEF a, b
<1>7. \A i \in S : Rank(S, i) \in Nat /\ Rank(S, i) <= n
  <2> SUFFICES ASSUME NEW i \in S  PROVE  Rank(S, i) \in Nat /\ Rank(S, i) <= n
    OBVIOUS
  <2>1. Rank(S, i) \in 1 .. n
    BY RankBounds
  <2> HIDE DEF n
  <2> QED
    BY <1>2, <2>1
<1> HIDE DEF n
<1>8. CASE n >= b
  <2>1. b \in 0 .. n /\ a \in 0 .. b
    BY <1>1, <1>2, <1>4, <1>8
  <2>2. Cardinality(rows) = b - a
    BY <1>5, <2>1, RanksBetween DEF n
  <2> QED
    BY <1>1, <1>4, <1>6, <2>2 DEF found, c
<1>9. CASE n < b /\ a <= n
  <2>1. n \in 0 .. n /\ a \in 0 .. n
    BY <1>2, <1>4, <1>9
  <2>2. rows = {i \in S : a < Rank(S, i) /\ Rank(S, i) <= n}
    <3>1. \A i \in S : Rank(S, i) <= b /\ Rank(S, i) <= n
      BY <1>1, <1>2, <1>4, <1>7, <1>9
    <3> QED
      BY <1>5, <3>1
  <2>3. Cardinality(rows) = n - a
    BY <2>1, <2>2, RanksBetween DEF n
  <2>4. n - a \in 0 .. c
    BY <1>1, <1>2, <1>4, <1>9
  <2>5. ~(n > b)
    BY <1>1, <1>2, <1>4, <1>9
  <2> QED
    BY <1>6, <2>3, <2>4, <2>5 DEF found, c
<1>10. CASE n < a
  <2>1. rows = {}
    <3>1. \A i \in S : ~(a < Rank(S, i))
      BY <1>1, <1>2, <1>4, <1>7, <1>10
    <3> QED
      BY <1>5, <3>1
  <2>2. Cardinality(rows) = 0
    BY <2>1, FS_EmptySet
  <2>3. ~(n > b) /\ 0 \in 0 .. c
    BY <1>1, <1>2, <1>4, <1>10
  <2> QED
    BY <1>6, <2>2, <2>3 DEF found, c
<1> QED
  BY <1>1, <1>2, <1>4, <1>8, <1>9, <1>10

LEMMA RankMore ==
    ASSUME NEW S \in SUBSET Nat, IsFiniteSet(S), NEW d \in Nat \ S, NEW i \in S
    PROVE  Rank(S \cup {d}, i) = Rank(S, i) + IF d <= i THEN 1 ELSE 0
<1> DEFINE A == {j \in S : j <= i}
           B == {j \in S \cup {d} : j <= i}
<1>1. IsFiniteSet(A) /\ d \notin A
  <2>1. A \in SUBSET S /\ d \notin A
    OBVIOUS
  <2> HIDE DEF A
  <2> QED
    BY <2>1, FS_Subset
<1>2. Cardinality(A) \in Nat
  <2> HIDE DEF A
  <2> QED
    BY <1>1, FS_CardinalityType
<1>3. CASE d <= i
  <2>1. B = A \cup {d}
    BY <1>3
  <2> HIDE DEF A, B
  <2>2. Cardinality(B) = Cardinality(A) + 1
    BY <1>1, <2>1, FS_AddElement
  <2> QED
    BY <1>3, <2>2 DEF Rank, A, B
<1>4. CASE ~(d <= i)
  <2>1. B = A
    BY <1>4
  <2> HIDE DEF A, B
  <2> QED
    BY <1>2, <1>4, <2>1 DEF Rank, A, B
<1> QED
  BY <1>3, <1>4

\* At most one row has a rank.
LEMMA RankUnique ==
    ASSUME NEW S \in SUBSET Nat, IsFiniteSet(S), NEW i \in S, NEW j \in S,
           Rank(S, i) = Rank(S, j)
    PROVE  i = j
<1>1. Rank(S, i) \in Nat /\ i \in Nat /\ j \in Nat
  BY RankBounds
<1>2. i <= j /\ j <= i
  BY <1>1, RankOrder
<1> QED
  BY <1>1, <1>2

LEMMA OneMore ==
    ASSUME NEW S, IsFiniteSet(S), NEW T,
           \A i, j \in T \ S : i = j
    PROVE  IsFiniteSet(T) /\ Cardinality(T) <= Cardinality(S) + 1
<1>1. PICK x : T \in SUBSET (S \cup {x})
  <2>1. CASE T \ S = {}
    BY <2>1
  <2>2. CASE T \ S # {}
    <3>1. PICK x : x \in T \ S
      BY <2>2
    <3>2. T \subseteq S \cup {x}
      BY <3>1
    <3> QED
      BY <3>2
  <2> QED
    BY <2>1, <2>2
<1>2. /\ IsFiniteSet(S \cup {x}) /\ Cardinality(S) \in Nat
      /\ Cardinality(S \cup {x}) <= Cardinality(S) + 1
  <2>1. Cardinality(S) \in Nat
    BY FS_CardinalityType
  <2> QED
    BY <2>1, FS_AddElement
<1>3. IsFiniteSet(T) /\ Cardinality(T) <= Cardinality(S \cup {x})
  BY <1>1, <1>2, FS_Subset
<1>4. Cardinality(T) \in Nat /\ Cardinality(S \cup {x}) \in Nat
  BY <1>2, <1>3, FS_CardinalityType
<1> QED
  BY <1>2, <1>3, <1>4

\* The rows of a list that the pages up to rank o should have shown but did
\* not, and those that later pages may show again.
Missed(S, unshown, o) == {i \in S \cap unshown : Rank(S, i) <= o}
Again(S, shown, o) == {i \in S \cap shown : o < Rank(S, i)}

LEMMA MissedLess ==
    ASSUME NEW S \in SUBSET Nat, IsFiniteSet(S), NEW d \in S, NEW o \in Nat,
           NEW unshown
    PROVE  /\ IsFiniteSet(Missed(S \ {d}, unshown, o))
           /\ Cardinality(Missed(S \ {d}, unshown, o))
                  <= Cardinality(Missed(S, unshown, o)) + 1
<1> DEFINE T == S \ {d}
           A == Missed(S, unshown, o)
           B == Missed(T, unshown, o)
<1>1. T \in SUBSET Nat /\ IsFiniteSet(T) /\ d \in Nat \ T /\ T \cup {d} = S
  BY FS_RemoveElement
<1> HIDE DEF T
<1>2. \A i \in T : Rank(S, i) = Rank(T, i) + IF d <= i THEN 1 ELSE 0
  BY <1>1, RankMore
<1>3. \A i \in T : Rank(T, i) \in Nat /\ i \in S
  BY <1>1, RankBounds
<1>4. \A i \in B \ A : i \in S /\ Rank(S, i) = o + 1
  <2> SUFFICES ASSUME NEW i \in B \ A  PROVE  i \in S /\ Rank(S, i) = o + 1
    OBVIOUS
  <2>1. i \in T /\ i \in unshown /\ Rank(T, i) <= o
    BY DEF Missed
  <2>2. i \in S /\ ~(Rank(S, i) <= o)
    BY <1>3, <2>1 DEF Missed
  <2>3. Rank(S, i) = Rank(T, i) \/ Rank(S, i) = Rank(T, i) + 1
    BY <1>2, <1>3, <2>1
  <2>4. Rank(T, i) \in Nat
    BY <1>3, <2>1
  <2> QED
    BY <2>1, <2>2, <2>3, <2>4
<1>5. ASSUME NEW i \in B \ A, NEW j \in B \ A  PROVE  i = j
  <2>1. i \in S /\ j \in S /\ Rank(S, i) = Rank(S, j)
    BY <1>4
  <2> QED
    BY <2>1, RankUnique
<1>6. IsFiniteSet(A)
  <2>1. A \in SUBSET S
    BY DEF Missed
  <2> QED
    BY <2>1, FS_Subset
<1> HIDE DEF A, B
<1>7. IsFiniteSet(B) /\ Cardinality(B) <= Cardinality(A) + 1
  BY <1>5, <1>6, OneMore
<1> QED
  BY <1>7 DEF A, B, T

LEMMA MissedMore ==
    ASSUME NEW S \in SUBSET Nat, IsFiniteSet(S), NEW d \in Nat \ S, NEW o \in Nat,
           NEW unshown, d \notin unshown
    PROVE  Missed(S \cup {d}, unshown, o) \subseteq Missed(S, unshown, o)
<1> SUFFICES ASSUME NEW i \in Missed(S \cup {d}, unshown, o)
             PROVE  i \in Missed(S, unshown, o)
  OBVIOUS
<1>1. i \in S /\ i \in unshown /\ Rank(S \cup {d}, i) <= o
  BY DEF Missed
<1>2. Rank(S, i) \in Nat
  BY <1>1, RankBounds
<1>3. Rank(S, i) <= Rank(S \cup {d}, i) /\ Rank(S \cup {d}, i) \in Nat
  BY <1>1, <1>2, RankMore
<1> QED
  BY <1>1, <1>2, <1>3 DEF Missed

\* One row more moves one row behind the pages: itself, or the last on them.
LEMMA AgainMore ==
    ASSUME NEW S \in SUBSET Nat, IsFiniteSet(S), NEW d \in Nat \ S, NEW o \in Nat,
           NEW shown,
           NEW i \in Again(S \cup {d}, shown, o) \ Again(S, shown, o),
           NEW j \in Again(S \cup {d}, shown, o) \ Again(S, shown, o)
    PROVE  i = j
<1> DEFINE T == S \cup {d}
<1>1. T \in SUBSET Nat /\ IsFiniteSet(T) /\ d \in T /\ S \subseteq T
  <2>1. IsFiniteSet(T)
    BY FS_AddElement
  <2> QED
    BY <2>1
<1>2. \A k \in T : Rank(T, k) \in Nat
  BY <1>1, RankBounds
<1>3. ASSUME NEW k \in Again(T, shown, o), k \notin Again(S, shown, o), k # d
      PROVE  k \in S /\ d <= k /\ Rank(T, k) = o + 1
  <2>1. k \in S /\ k \in shown /\ o < Rank(T, k)
    BY <1>3 DEF Again
  <2>2. Rank(S, k) \in Nat /\ ~(o < Rank(S, k))
    BY <1>3, <2>1, RankBounds DEF Again
  <2>3. Rank(T, k) = Rank(S, k) + IF d <= k THEN 1 ELSE 0
    BY <2>1, RankMore
  <2> QED
    BY <2>1, <2>2, <2>3
<1>4. ASSUME NEW k \in Again(T, shown, o), k \notin Again(S, shown, o), k # d,
             d \in Again(T, shown, o)
      PROVE  FALSE
  <2>1. k \in T /\ d <= k /\ Rank(T, k) = o + 1 /\ o < Rank(T, d)
    BY <1>1, <1>3, <1>4 DEF Again
  <2>2. Rank(T, d) \in Nat /\ Rank(T, d) <= Rank(T, k)
    BY <1>1, <1>2, <2>1, RankOrder
  <2>3. Rank(T, d) = Rank(T, k)
    BY <2>1, <2>2
  <2> QED
    BY <1>1, <1>4, <2>1, <2>3, RankUnique
<1>5. CASE i # d /\ j # d
  <2>1. i \in T /\ j \in T /\ Rank(T, i) = Rank(T, j)
    BY <1>1, <1>3, <1>5
  <2> QED
    BY <1>1, <2>1, RankUnique
<1> QED
  BY <1>4, <1>5

LEMMA AgainLess ==
    ASSUME NEW S \in SUBSET Nat, IsFiniteSet(S), NEW d \in S, NEW o \in Nat,
           NEW shown
    PROVE  Again(S \ {d}, shown, o) \subseteq Again(S, shown, o)
<1> DEFINE T == S \ {d}
<1>1. T \in SUBSET Nat /\ IsFiniteSet(T) /\ d \in Nat \ T /\ T \cup {d} = S
  BY FS_RemoveElement
<1> HIDE DEF T
<1>2. ASSUME NEW i \in Again(T, shown, o)  PROVE  i \in Again(S, shown, o)
  <2>1. i \in T /\ i \in S /\ i \in shown /\ o < Rank(T, i)
    BY <1>1 DEF Again
  <2>2. Rank(T, i) \in Nat
    BY <1>1, <2>1, RankBounds
  <2>3. Rank(S, i) = Rank(T, i) \/ Rank(S, i) = Rank(T, i) + 1
    BY <1>1, <2>1, <2>2, RankMore
  <2>4. o < Rank(S, i)
    BY <2>1, <2>2, <2>3
  <2> QED
    BY <2>1, <2>4 DEF Again
<1> QED
  BY <1>2 DEF T
=============================================================================
