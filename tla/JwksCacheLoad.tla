--------------------------- MODULE JwksCacheLoad ---------------------------
(***************************************************************************)
(* How much the issuers are asked, and for how long an outage is held       *)
(* against them: JwksCache with history variables that record the loads a  *)
(* request starts, the instants an issuer's last two loads started and its *)
(* last outage.  The history changes nothing: NextL is Next.               *)
(***************************************************************************)
EXTENDS JwksCache

\* The first refresh of a request must outlast it: 10 s against 1 s.
ASSUME CooldownAssumption == Deadline < Cooldown

VARIABLES
  fetches,  \* request -> loads it has started
  last,     \* issuer -> when its last load started, 0 if none counts
  before,   \* issuer -> when the load before that started
  outage    \* issuer -> when a load began that found it down, 0 if one succeeded since

varsL == <<vars, fetches, last, before, outage>>

InitL ==
  /\ Init
  /\ fetches = [r \in Requests |-> 0]
  /\ last = [i \in Issuers |-> 0]
  /\ before = [i \in Issuers |-> 0]
  /\ outage = [i \in Issuers |-> 0]

Starts(r) == load[r].state = "none" /\ load'[r].state = "fetching"
StartsFor(i) == \E r \in Requests : Starts(r) /\ Iss(r) = i

\* The negative entry of i is dropped to make room for another while it counts.
Evicted(i) == negative[IssuerEntry(i)] > clock /\ negative'[IssuerEntry(i)] = 0

\* The cache does not remember how a load of i ended: with a rejected response
\* (no negative entry is written), with a deadline, or with an outage whose
\* entry has been evicted.
Forgotten(i) ==
  \/ \E r \in Requests :
       /\ Iss(r) = i
       /\ OwnerLives(r)
       /\ outcome'[r] \in {"jwks_bad_gateway", "deadline_exceeded"}
  \/ Evicted(i)

\* The load o settles by its owner's own hand, and this is what it is told.
Settles(o) == OwnerLives(o) /\ load[o].state # "none" /\ load'[o].state = "none"
FoundDown(o) == Settles(o) /\ outcome'[o] = "jwks_unavailable"
Succeeds(o) == Settles(o) /\ pc'[o] # "done"

OutageOf(i) ==
  IF \E o \in Requests : Iss(o) = i /\ FoundDown(o)
  THEN at[CHOOSE o \in Requests : Iss(o) = i /\ FoundDown(o)]
  ELSE IF \E o \in Requests : Iss(o) = i /\ Succeeds(o) THEN 0 ELSE outage[i]

NextL ==
  /\ Next
  /\ fetches' = [r \in Requests |-> fetches[r] + IF Starts(r) THEN 1 ELSE 0]
  /\ last' = [i \in Issuers |-> IF StartsFor(i) THEN clock
                                ELSE IF Forgotten(i) THEN 0 ELSE last[i]]
  /\ before' = [i \in Issuers |-> IF StartsFor(i) THEN last[i]
                                  ELSE IF Forgotten(i) THEN 0 ELSE before[i]]
  /\ outage' = [i \in Issuers |-> OutageOf(i)]

SpecL == InitL /\ [][NextL]_varsL

-----------------------------------------------------------------------------
Least(S) == CHOOSE t \in S : \A u \in S : t <= u
Spacing == Least({TTL, NegTTL, Cooldown})

\* One request causes at most two loads, though it may call getJwks three
\* times: plain, forced because the kid is unknown, and forced again because
\* the signature does not verify (getKey line 64, verifyJumpJwt line 59).
\* It needs Deadline < Cooldown and Deadline < TTL.
AtMostTwoLoads == \A r \in Requests : fetches[r] <= 2

\* However many requests carry unknown kids or bad signatures, an issuer sees
\* at most two loads in any span shorter than the TTL, the negative TTL and
\* the cooldown, as long as its answers are key sets or outages and the entries
\* of the outages are not evicted (getJwks lines 95-131, rememberNegative).
LoadsSpaced ==
  [][\A i \in Issuers :
       StartsFor(i) /\ before[i] # 0 => clock >= before[i] + Spacing]_varsL

\* Tokens are refused as jwks_unavailable only while an outage of their own
\* issuer is fresh: its load began less than the negative TTL ago, unless the
\* request was itself waiting for it, and no load has succeeded since.  A
\* rejected document, a cut load, a missing kid or another issuer's outage
\* never has that effect, though the negative entry outranks a cached set
\* that still holds the key (getJwks lines 97-108, fetchAndCache lines 146-152).
RefusedOnlyAfterOutage ==
  [][\A r \in Requests :
       pc[r] # "done" /\ outcome'[r] = "jwks_unavailable" =>
         /\ outage'[Iss(r)] # 0
         /\ pc[r] = "lookup" => clock < outage'[Iss(r)] + NegTTL]_varsL
-----------------------------------------------------------------------------
(* The inductive invariant behind the properties above.                    *)

\* A refresh has served request r: what it needs to be served without another.
Provided(r) ==
  /\ cache[Iss(r)].expiresAt >= start[r] + TTL
  /\ nextForced[Iss(r)] >= start[r] + Cooldown

\* What r may still cause: a call that could load has a load to spare, or will
\* be served by the set a load of r has brought.
Frugal(r) ==
  /\ fetches[r] <= 2
  /\ pc[r] = "idle" => fetches[r] = 0 /\ stage[r] = "plain"
  /\ pc[r] = "lookup" => \/ fetches[r] = 0
                         \/ stage[r] # "plain" /\ fetches[r] <= 1
                         \/ stage[r] = "retry" /\ Provided(r)
  /\ pc[r] \in {"waiting", "verifying"} /\ stage[r] = "plain" => fetches[r] <= 1
  /\ pc[r] = "waiting" /\ stage[r] = "forced" /\ fetches[r] = 2 =>
       waitOn[r] = r /\ nextForced[Iss(r)] >= start[r] + Cooldown
  /\ pc[r] = "verifying" /\ stage[r] = "forced" => fetches[r] <= 1 \/ Provided(r)

\* A load is pending only under its owner or after the owner's end.
Owned(r) == load[r].state # "none" => OwnerLives(r) \/ pc[r] = "done"

\* The last load of i is in flight, or what it left still stands, or it is old.
Kept(i) ==
  \/ inFlight[i] # NoReq /\ at[inFlight[i]] = last[i]
  \/ /\ inFlight[i] = NoReq
     /\ \/ cache[i].expiresAt >= last[i] + TTL
        \/ negative[IssuerEntry(i)] >= last[i] + NegTTL
        \/ clock >= last[i] + NegTTL

\* So is the load before that, or a forced refresh has replaced its set.
Spaced(i) ==
  /\ last[i] # 0 => last[i] <= clock /\ Kept(i)
  /\ before[i] # 0 =>
       /\ last[i] # 0
       /\ \/ clock >= before[i] + Spacing
          \/ /\ cache[i].expiresAt >= before[i] + TTL
             /\ nextForced[i] >= last[i] + Cooldown /\ before[i] <= last[i]

\* The negative entry of i is that of its last outage.
Held(i) ==
  negative[IssuerEntry(i)] # 0 =>
    outage[i] # 0 /\ negative[IssuerEntry(i)] = outage[i] + NegTTL

HistoryType ==
  /\ fetches \in [Requests -> Nat]
  /\ last \in [Issuers -> Nat] /\ before \in [Issuers -> Nat] /\ outage \in [Issuers -> Nat]

LoadsAccounted ==
  /\ HistoryType
  /\ \A r \in Requests : Frugal(r) /\ Owned(r) /\ (pc[r] \in Active => start[r] >= 1)
  /\ \A i \in Issuers : Spaced(i) /\ Held(i) /\ nextForced[i] <= clock + Cooldown
=============================================================================
