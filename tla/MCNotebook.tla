----------------------------- MODULE MCNotebook -----------------------------
EXTENDS NotebookSession, TLC

\* The notebooks of a user are alike.
Symmetry == Permutations(Notebooks)
=============================================================================
