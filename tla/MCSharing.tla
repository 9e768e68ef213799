------------------------------ MODULE MCSharing ------------------------------
EXTENDS TableSharing, TLC

\* Calls differ by nothing but their place in a behaviour, users by nothing at all.
Symmetry == Permutations(CallIds) \cup Permutations(Users)
=============================================================================
