------------------------------- MODULE MCNode -------------------------------
(* A small instance of Node for TLC.                                       *)
EXTENDS Node, TLC

CONSTANTS n1, n2, d1, d2, v1, v2, v3

\* The default paths of each directory, and paths of no ./keys.
DefaultPaths == v1 :> d1 @@ v2 :> d2 @@ v3 :> None

Place(first, second) ==
    << n1 :> first[1] @@ n2 :> second[1], n1 :> first[2] @@ n2 :> second[2] >>

\* Two nodes start in one place; each has its own directory and they share
\* their key files; they share a directory and have files of their own; or
\* their files belong into the ./keys of a directory where nobody starts.
FourPlacements ==
    {Place(<<d1, v1>>, <<d1, v1>>), Place(<<d1, v3>>, <<d2, v3>>),
     Place(<<d1, v1>>, <<d1, v3>>), Place(<<d1, v2>>, <<d1, v2>>)}
=============================================================================
