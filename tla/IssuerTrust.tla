---------------------------- MODULE IssuerTrust ----------------------------
(***************************************************************************)
(* What inbound verification owes the issuers, without any cache, load or  *)
(* retry: each request gets one verdict, and a token is accepted only with *)
(* the key its issuer publishes under the token's kid, or published at some*)
(* instant less than Window ago, and never under a revoked kid.            *)
(***************************************************************************)
EXTENDS Naturals

CONSTANTS Requests, Issuers, Kids, Keys, NoKey, Revoked, Window

VARIABLES
  clock,     \* the time
  upstream,  \* issuer -> kid -> the key published under it now, or NoKey
  left,      \* when the issuer last stopped publishing that key under that kid
  token,     \* request -> issuer, kid and signing key
  verdict    \* request -> "pending", "accepted" or "rejected"

vars == <<clock, upstream, left, token, verdict>>

Init ==
  /\ clock = 1
  /\ upstream \in [Issuers -> [Kids -> Keys \cup {NoKey}]]
  /\ left = [i \in Issuers |-> [k \in Kids |-> [x \in Keys |-> 0]]]
  /\ token \in [Requests -> [iss : Issuers, kid : Kids, key : Keys]]
  /\ verdict = [r \in Requests |-> "pending"]

\* The issuer vouches for the pair now or did so within the window.
Trusted(i, k, x) ==
  \/ upstream[i][k] = x
  \/ left[i][k][x] # 0 /\ clock < left[i][k][x] + Window

Accept(r) ==
  /\ verdict[r] = "pending"
  /\ <<token[r].iss, token[r].kid>> \notin Revoked
  /\ Trusted(token[r].iss, token[r].kid, token[r].key)
  /\ verdict' = [verdict EXCEPT ![r] = "accepted"]
  /\ UNCHANGED <<clock, upstream, left, token>>

\* One failure may be shared by every request that awaits the same load.
Reject(R) ==
  /\ \A r \in R : verdict[r] = "pending"
  /\ verdict' = [r \in Requests |-> IF r \in R THEN "rejected" ELSE verdict[r]]
  /\ UNCHANGED <<clock, upstream, left, token>>

Publish(i, k, x) ==
  /\ upstream' = [upstream EXCEPT ![i][k] = x]
  /\ left' = IF upstream[i][k] = NoKey THEN left
             ELSE [left EXCEPT ![i][k][upstream[i][k]] = clock]
  /\ UNCHANGED <<clock, token, verdict>>

Tick == clock' = clock + 1 /\ UNCHANGED <<upstream, left, token, verdict>>

Next ==
  \/ \E r \in Requests : Accept(r)
  \/ \E R \in SUBSET Requests : Reject(R)
  \/ \E i \in Issuers, k \in Kids, x \in Keys \cup {NoKey} : Publish(i, k, x)
  \/ Tick

Spec == Init /\ [][Next]_vars
=============================================================================
