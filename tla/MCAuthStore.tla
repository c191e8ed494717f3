---------------------------- MODULE MCAuthStore ----------------------------
(* A small instance of AuthStore for TLC.  Without symmetry: the run also  *)
(* checks a liveness property.                                             *)
EXTENDS AuthStore

CONSTANTS p1, p2

\* What two relying parties ask for.
TwoTerms == {p1, p2}
=============================================================================
