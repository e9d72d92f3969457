--------------------------- MODULE MCLabSpawners ----------------------------
EXTENDS LabSpawners, TLC

Symmetry == Permutations(Runner)
=============================================================================
