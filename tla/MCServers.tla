----------------------------- MODULE MCServers -----------------------------
EXTENDS KubeServerLifecycle, TLC
Symmetry == Permutations(Users)
=============================================================================
