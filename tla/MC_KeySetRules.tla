--------------------------- MODULE MC_KeySetRules ---------------------------
EXTENDS KeySetRules, TLC

CONSTANTS k1, k2

KidSymmetry == Permutations(Kids)
=============================================================================
