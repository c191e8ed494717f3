----------------------------- MODULE MCAuthFlow -----------------------------
(* Small instances of AuthFlow for TLC.                                    *)
EXTENDS AuthFlow, TLC

CONSTANTS u1, u2, e1, e2, p1, ka

\* One relying party, without PKCE, and the console.
PlainTerms == {ConsoleTerms, [party |-> p1, challenge |-> None]}

\* The relying party uses PKCE; the console cannot.
PKCETerms == {ConsoleTerms, [party |-> p1, challenge |-> ka]}

TwoAddresses == u1 :> e1 @@ u2 :> e2

OneAddress == u1 :> e1

\* Threads, codes, links and device ids are only compared for equality.
FlowSymmetry ==
    Permutations(Threads) \cup Permutations(Codes) \cup Permutations(Tokens)
        \cup Permutations(Devices) \cup Permutations(Requests)
        \cup Permutations(Browsers)
=============================================================================
