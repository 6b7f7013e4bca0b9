---------------------------- MODULE MC_JwksCacheLoad ----------------------------
EXTENDS JwksCacheLoad, TLC

CONSTANTS r1, r2, r3, i1, i2, k1, k2, x1, x2

Symmetry == Permutations(Requests) \cup Permutations(Keys)
=============================================================================
