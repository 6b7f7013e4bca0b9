--------------------------- MODULE MC_JumpRequest ---------------------------
EXTENDS JumpRequest
=============================================================================
