----------------------------- MODULE ListQuery ------------------------------
(***************************************************************************)
(* Searching and paging a directory (FGF-idP/model/query.go).  A text is a *)
(* sequence of one-character strings, already trimmed and in lower case.   *)
(***************************************************************************)
EXTENDS Integers, Sequences, FiniteSets

Seqs == INSTANCE SequencesExt

CONSTANTS DefaultPageSize, MaxPageSize

ASSUME ListQueryAssumption ==
    /\ DefaultPageSize \in Nat \ {0} /\ MaxPageSize \in Nat \ {0}
    /\ DefaultPageSize <= MaxPageSize

\* likeEscaper: the replacement of the escape character is itself.
Escape(ch) == IF ch \in {"%", "_"} THEN <<"\\", ch>> ELSE <<ch>>

\* Mutant: the term goes into the pattern as it is.
likePattern_Raw(term) == <<"%">> \o term \o <<"%">>

likePattern(term) ==
    <<"%">> \o Seqs!FlattenSeq([k \in DOMAIN term |-> Escape(term[k])]) \o <<"%">>

\* The database's LIKE with ESCAPE '\': from[i] are the places in s from which
\* the pattern, read from i, matches to the end of s.
Places(s, p, from, i) ==
    IF i > Len(p) THEN {Len(s) + 1}
    ELSE IF p[i] = "%" THEN {j \in 1 .. Len(s) + 1 : \E k \in from[i + 1] : j <= k}
    ELSE LET escaped == p[i] = "\\" /\ i < Len(p)
             wanted  == IF escaped THEN p[i + 1] ELSE p[i]
             rest    == from[IF escaped THEN i + 2 ELSE i + 1]
         IN {j \in 1 .. Len(s) : /\ s[j] = wanted \/ (wanted = "_" /\ ~escaped)
                                /\ j + 1 \in rest}

Like(s, p) ==
    LET from[i \in 1 .. Len(p) + 2] == Places(s, p, from, i) IN 1 \in from[1]

\* What a search promises: the text contains the term.
Includes(s, term) ==
    \E k \in 0 .. Len(s) - Len(term) : SubSeq(s, k + 1, k + Len(term)) = term

clampSize(size) ==
    IF size < 1 THEN DefaultPageSize
    ELSE IF size > MaxPageSize THEN MaxPageSize ELSE size

\* The pages before this one.
Before(page) == IF page < 1 THEN 0 ELSE page - 1

\* Mutant: the query asks for no row beyond the page.
pageArgs_NoProbe(page, size) ==
    [offset |-> Before(page) * clampSize(size), limit |-> clampSize(size)]

pageArgs(page, size) ==
    [offset |-> Before(page) * clampSize(size), limit |-> clampSize(size) + 1]

\* ORDER BY id OFFSET LIMIT over the numbers in S.
Rows(S, args) ==
    {i \in S : Cardinality({j \in S : j <= i})
                   \in args.offset + 1 .. args.offset + args.limit}

\* trimPage: without the probe row, and whether there was one.
Page(S, page, size) ==
    LET rows == Rows(S, pageArgs(page, size)) IN
    [rows |-> {i \in rows : Cardinality({j \in rows : j <= i}) <= clampSize(size)},
     more |-> Cardinality(rows) > clampSize(size)]
=============================================================================
