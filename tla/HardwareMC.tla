----------------------------- MODULE HardwareMC -----------------------------
EXTENDS HardwareControl, TLC
Symmetry == Permutations(Callers)
=============================================================================
