----------------------------- MODULE MCSessions -----------------------------
(* A small instance of Sessions for TLC.                                   *)
EXTENDS Sessions, TLC

\* Handlers and tokens are only compared for equality.
SessionsSymmetry == Permutations(Threads) \cup Permutations(Tokens)
=============================================================================
