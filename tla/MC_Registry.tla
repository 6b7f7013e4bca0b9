---------------------------- MODULE MC_Registry ----------------------------
EXTENDS Registry, TLC

CONSTANTS n1, n2, n3, bad, o1, o2, o3, jump, unsafe

\* Two nodes of one top level domain, one of another and a malformed id.
TldOf == n1 :> "app" @@ n2 :> "app" @@ n3 :> "com" @@ bad :> "app"
=============================================================================
