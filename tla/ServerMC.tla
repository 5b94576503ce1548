------------------------------ MODULE ServerMC ------------------------------
EXTENDS Server, TLC
Symmetry == Permutations(Conns)
=============================================================================
