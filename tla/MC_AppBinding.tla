--------------------------- MODULE MC_AppBinding ---------------------------
EXTENDS AppBinding, TLC

CONSTANTS r1, r2, r3, e1, e2, o1, o2, k1, k2, x1, x2, v1

Symmetry ==
  Permutations(Requests) \cup Permutations(Bundles) \cup Permutations(Origins)
    \cup Permutations(Kids) \cup Permutations(Keys)
=============================================================================
