--------------------------- MODULE MCPreparation ---------------------------
EXTENDS SpawnPreparation
=============================================================================
