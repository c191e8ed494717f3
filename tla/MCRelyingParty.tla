--------------------------- MODULE MCRelyingParty ---------------------------
(* A small instance of RelyingParty for TLC.                               *)
EXTENDS RelyingParty, TLC

\* Everything drawn at random is only compared for equality.
RPSymmetry ==
    Permutations(Threads) \cup Permutations(Tokens) \cup Permutations(Codes)
        \cup Permutations(Browsers) \cup Permutations(Transactions)
        \cup Permutations(Users)
=============================================================================
