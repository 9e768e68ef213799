------------------------------- MODULE MCAuth -------------------------------
EXTENDS KBaseAuthFlow, TLC

CONSTANTS u1, u2, t1, t2, t3

\* The first user has a token with MFA and one without.
Owners == t1 :> u1 @@ t2 :> u2 @@ t3 :> u1
Symmetry == Permutations(Requests)
=============================================================================
