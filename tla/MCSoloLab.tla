------------------------------ MODULE MCSoloLab -----------------------------
EXTENDS SoloLab, TLC

Symmetry == Permutations(Text)
=============================================================================
