-------------------------- MODULE MCClientRegistry --------------------------
(* A small instance of ClientRegistry for TLC.                             *)
EXTENDS ClientRegistry, TLC

CONSTANTS s1

\* The second of three clients has the secret s1 and the name %.
OneSecret == 2 :> s1

OneName == 2 :> <<"%">>

\* The client_ids a, b and c.
ThreeIds == <<<<"a">>, <<"b">>, <<"c">>>>

\* The names % and d.
TwoNames == {<<"%">>, <<"d">>}

\* A wildcard.
OneTerm == {<<"%">>}

\* Secrets and redirect URIs are only compared for equality.
RegistrySymmetry == Permutations(Redirects) \cup Permutations(Secrets \ {s1})
=============================================================================
