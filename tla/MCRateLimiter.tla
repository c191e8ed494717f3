--------------------------- MODULE MCRateLimiter ---------------------------
(* A small instance of RateLimiter for TLC: queues of two requests, so     *)
(* that one can be empty, half full, full and dropped.  Without symmetry:  *)
(* the run also checks a liveness property.                                *)
EXTENDS RateLimiter
=============================================================================
