---------------------------- MODULE SimulatedMC ----------------------------
EXTENDS SimulatedControl, TLC
Symmetry == Permutations(Callers)
=============================================================================
