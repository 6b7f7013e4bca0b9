--------------------------- MODULE MC_KeyMaterial ---------------------------
EXTENDS KeyMaterial, TLC

CONSTANTS r1, r2, r3, k1, k2, x1, x2

Symmetry == Permutations(Requests) \cup Permutations(Kids) \cup Permutations(Keys)
RequestSymmetry == Permutations(Requests)
=============================================================================
