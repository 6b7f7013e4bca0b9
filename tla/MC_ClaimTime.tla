---------------------------- MODULE MC_ClaimTime ----------------------------
EXTENDS ClaimTime
=============================================================================
