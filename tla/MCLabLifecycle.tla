--------------------------- MODULE MCLabLifecycle ---------------------------
EXTENDS LabLifecycle, TLC

Symmetry == Permutations(Runner) \cup Permutations(Req)
=============================================================================
