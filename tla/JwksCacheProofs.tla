-------------------------- MODULE JwksCacheProofs --------------------------
(***************************************************************************)
(* Proofs about JwksCache and JwksCacheLoad, for every number of requests, *)
(* issuers, kids and keys and every choice of the times that meets         *)
(* TimeAssumption and, for the loads, CooldownAssumption.                  *)
(***************************************************************************)
EXTENDS JwksCacheLoad, FiniteSetTheorems, TLAPS

USE DEF KeySets, NegKeys, Stages, Active, Codes

LEMMA ConstantTypes ==
  /\ TTL \in Nat /\ NegTTL \in Nat /\ Cooldown \in Nat /\ Deadline \in Nat
  /\ TTL > 0 /\ NegTTL > 0 /\ Deadline > 0 /\ Deadline < TTL
BY TimeAssumption

-----------------------------------------------------------------------------
(* What the helpers of the model preserve.                                 *)

LEMMA RetainType ==
  ASSUME TypeOK, NEW S, Retain(S)
  PROVE  negative' \in [NegKeys -> Nat] /\ older' \in SUBSET (NegKeys \X NegKeys)
BY DEF TypeOK, Retain

LEMMA RoomKeeps ==
  ASSUME NEW t
  PROVE  Room(t) \subseteq NegKeys
BY DEF Room, Live

LEMMA RememberType ==
  ASSUME TypeOK, NEW n \in NegKeys, NEW t \in Nat, RememberNegative(n, t)
  PROVE  negative' \in [NegKeys -> Nat] /\ older' \in SUBSET (NegKeys \X NegKeys)
<1> DEFINE kept == Room(t)
<1>1. kept \subseteq NegKeys
  BY RoomKeeps
<1>2. negative' \in [NegKeys -> Nat]
  BY ConstantTypes DEF TypeOK, RememberNegative
<1>3. older' \in SUBSET (NegKeys \X NegKeys)
  <2>1. older' = (older \cap (kept \X kept)) \cup
                 (IF n \in kept THEN {} ELSE kept \X {n})
    BY DEF RememberNegative
  <2> HIDE DEF kept
  <2>2. kept \X {n} \subseteq NegKeys \X NegKeys
    BY <1>1
  <2> QED
    BY <2>1, <2>2 DEF TypeOK
<1> QED
  BY <1>2, <1>3

LEMMA FinishType ==
  ASSUME TypeOK, NEW R, NEW code \in Codes, Finish(R, code)
  PROVE  /\ pc' \in [Requests -> Active \cup {"idle", "done"}]
         /\ outcome' \in [Requests -> Codes]
         /\ stage' \in [Requests -> Stages]
         /\ at' \in [Requests -> Nat] /\ start' \in [Requests -> Nat]
         /\ waitOn' \in [Requests -> Requests \cup {NoReq}]
         /\ held' \in [Requests -> Keys \cup {NoKey}]
BY DEF TypeOK, Finish

LEMMA DeliverType ==
  ASSUME TypeOK, NEW R, NEW keys \in KeySets, Deliver(R, keys)
  PROVE  /\ pc' \in [Requests -> Active \cup {"idle", "done"}]
         /\ stage' \in [Requests -> Stages]
         /\ waitOn' \in [Requests -> Requests \cup {NoReq}]
         /\ held' \in [Requests -> Keys \cup {NoKey}]
<1>1. \A r \in Requests : keys[Kid(r)] \in Keys \cup {NoKey}
  BY DEF TypeOK, Kid
<1> QED
  BY <1>1 DEF TypeOK, Deliver

LEMMA ReleasedType ==
  ASSUME TypeOK, NEW o
  PROVE  Released(o) \in [Issuers -> Requests \cup {NoReq}]
BY DEF TypeOK, Released

LEMMA TokenTypes ==
  ASSUME TypeOK, NEW r \in Requests
  PROVE  /\ Iss(r) \in Issuers /\ Kid(r) \in Kids
         /\ KidEntry(r) \in NegKeys /\ IssuerEntry(Iss(r)) \in NegKeys
BY DEF TypeOK, Iss, Kid, KidEntry, IssuerEntry

LEMMA NoLoadType == EmptySet \in KeySets /\ NoLoad.state = "none" /\ NoLoad.doc = EmptySet
  /\ NoLoad \in [state : {"none", "fetching", "answered"}, doc : KeySets]
BY DEF EmptySet, NoLoad

-----------------------------------------------------------------------------
(* Type correctness.                                                       *)

LEMMA InitType == Init => TypeOK
<1> SUFFICES ASSUME Init PROVE TypeOK
  OBVIOUS
<1>1. load \in [Requests -> [state : {"none", "fetching", "answered"}, doc : KeySets]]
  BY NoLoadType DEF Init
<1>2. cache \in [Issuers -> [keys : KeySets, expiresAt : Nat]]
  BY NoLoadType DEF Init
<1> QED
  BY <1>1, <1>2 DEF Init, TypeOK

LEMMA LookupType ==
  ASSUME TypeOK, NEW r \in Requests, Lookup(r)
  PROVE  TypeOK'
<1> USE TokenTypes, ConstantTypes DEF vars, trust, shared, request
<1>1. CASE LookupRevoked(r)
  BY <1>1, FinishType DEF LookupRevoked, TypeOK
<1>2. CASE LookupKidNegative(r)
  BY <1>2, FinishType DEF LookupKidNegative, TypeOK
<1>3. CASE LookupIssuerNegative(r)
  BY <1>3, FinishType, RetainType DEF LookupIssuerNegative, Consult, TypeOK
<1>4. CASE LookupHit(r)
  <2>1. cache[Iss(r)].keys \in KeySets
    BY DEF TypeOK
  <2>2. Deliver({r}, cache[Iss(r)].keys) /\ Retain(Live \ Expired(r))
    BY <1>4 DEF LookupHit, Consult
  <2> QED
    BY <1>4, <2>1, <2>2, DeliverType, RetainType DEF LookupHit, TypeOK
<1>5. CASE LookupJoin(r)
  <2>1. Retain(Live \ Expired(r))
    BY <1>5 DEF LookupJoin, Consult
  <2> QED
    BY <1>5, <2>1, RetainType DEF LookupJoin, TypeOK
<1>6. CASE LookupLoad(r)
  <2>1. Retain(Live \ Expired(r))
    BY <1>6 DEF LookupLoad, Consult
  <2>2. load' \in [Requests -> [state : {"none", "fetching", "answered"}, doc : KeySets]]
    BY <1>6, NoLoadType DEF LookupLoad, TypeOK
  <2>3. nextForced' \in [Issuers -> Nat]
    <3>1. clock + Cooldown \in Nat
      BY DEF TypeOK
    <3> QED
      BY <1>6, <3>1 DEF LookupLoad, TypeOK
  <2> QED
    BY <1>6, <2>1, <2>2, <2>3, RetainType DEF LookupLoad, TypeOK
<1> QED
  BY <1>1, <1>2, <1>3, <1>4, <1>5, <1>6 DEF Lookup

LEMMA LoadStepType ==
  ASSUME TypeOK, NEW o \in Requests, LoadStep(o)
  PROVE  TypeOK'
<1> USE TokenTypes, ConstantTypes, NoLoadType DEF vars, trust, shared, request
<1>1. CASE UpstreamAnswers(o)
  BY <1>1 DEF UpstreamAnswers, TypeOK
<1>2. ASSUME Settle(o)
      PROVE  /\ inFlight' \in [Issuers -> Requests \cup {NoReq}]
             /\ load' \in [Requests -> [state : {"none", "fetching", "answered"}, doc : KeySets]]
  BY <1>2, ReleasedType DEF Settle, TypeOK
<1>3. CASE LoadSucceeds(o)
  <2>1. load[o].doc \in KeySets
    BY DEF TypeOK
  <2>2. cache' \in [Issuers -> [keys : KeySets, expiresAt : Nat]]
    <3>1. at[o] + TTL \in Nat
      BY DEF TypeOK
    <3> QED
      BY <1>3, <2>1, <3>1 DEF LoadSucceeds, Entry, TypeOK
  <2>3. Deliver(Waiters(o), load[o].doc) /\ Retain(Live \ {IssuerEntry(Iss(o))}) /\ Settle(o)
    BY <1>3 DEF LoadSucceeds, Entry
  <2> QED
    BY <1>2, <1>3, <2>1, <2>2, <2>3, DeliverType, RetainType DEF LoadSucceeds, Entry, TypeOK
<1>4. CASE LoadUnavailable(o)
  <2>1. RememberNegative(IssuerEntry(Iss(o)), at[o]) /\ at[o] \in Nat
    BY <1>4 DEF LoadUnavailable, TypeOK
  <2> QED
    BY <1>2, <1>4, <2>1, FinishType, RememberType DEF LoadUnavailable, TypeOK
<1>5. CASE LoadRejected(o)
  BY <1>2, <1>5, FinishType DEF LoadRejected, TypeOK
<1>6. CASE LoadCut(o)
  BY <1>2, <1>6, FinishType DEF LoadCut, TypeOK
<1> QED
  BY <1>1, <1>3, <1>4, <1>5, <1>6 DEF LoadStep

LEMMA StepType ==
  ASSUME TypeOK, NEW r \in Requests, Step(r)
  PROVE  TypeOK'
<1> USE TokenTypes, ConstantTypes DEF vars, trust, shared, request
<1>1. CASE Arrive(r)
  BY <1>1 DEF Arrive, TypeOK
<1>2. CASE Lookup(r)
  BY <1>2, LookupType
<1>3. CASE RememberMissing(r)
  <2>1. RememberNegative(KidEntry(r), at[r]) /\ at[r] \in Nat
    BY <1>3 DEF RememberMissing, TypeOK
  <2> QED
    BY <1>3, <2>1, FinishType, RememberType DEF RememberMissing, TypeOK
<1>4. CASE LoadStep(r)
  BY <1>4, LoadStepType
<1>5. CASE ImportFails(r)
  BY <1>5, FinishType DEF ImportFails, TypeOK
<1>6. CASE Verify(r)
  BY <1>6, FinishType DEF Verify, TypeOK
<1>7. CASE Retry(r)
  BY <1>7 DEF Retry, TypeOK
<1>8. CASE GiveUp(r)
  BY <1>8, FinishType DEF GiveUp, TypeOK
<1>9. CASE Abort(r)
  BY <1>9, FinishType, ReleasedType DEF Abort, TypeOK
<1> QED
  BY <1>1, <1>2, <1>3, <1>4, <1>5, <1>6, <1>7, <1>8, <1>9 DEF Step

LEMMA PublishType ==
  ASSUME TypeOK, NEW i \in Issuers, NEW k \in Kids, NEW x \in Keys \cup {NoKey},
         Publish(i, k, x)
  PROVE  TypeOK'
<1>1. upstream' \in [Issuers -> KeySets]
  BY DEF Publish, TypeOK
<1>2. left' \in [Issuers -> [Kids -> [Keys -> Nat]]]
  <2>1. upstream[i][k] \in Keys \cup {NoKey} /\ clock \in Nat
    BY DEF TypeOK
  <2> QED
    BY <2>1 DEF Publish, TypeOK
<1>3. since' \in [Issuers -> [Kids -> Nat]]
  BY DEF Publish, TypeOK
<1> QED
  BY <1>1, <1>2, <1>3 DEF Publish, TypeOK, shared, request

\* Every reachable state is well typed (all of jwks_cache.ts's state).
THEOREM TypeCorrect == Spec => []TypeOK
<1>1. Init => TypeOK
  BY InitType
<1>2. TypeOK /\ [Next]_vars => TypeOK'
  <2> SUFFICES ASSUME TypeOK, [Next]_vars PROVE TypeOK'
    OBVIOUS
  <2>1. CASE \E r \in Requests : Step(r)
    BY <2>1, StepType
  <2>2. CASE \E i \in Issuers, k \in Kids, x \in Keys \cup {NoKey} : Publish(i, k, x)
    BY <2>2, PublishType
  <2>3. CASE Tick
    BY <2>3 DEF Tick, TypeOK, trust, shared, request
  <2>4. CASE UNCHANGED vars
    BY <2>4 DEF vars, TypeOK, trust, shared, request
  <2> QED
    BY <2>1, <2>2, <2>3, <2>4 DEF Next
<1> QED
  BY <1>1, <1>2, PTL DEF Spec

-----------------------------------------------------------------------------
(* The inductive invariant.  First what the helpers do to it.              *)

\* No negative entry appears or gets a later expiry.
NoNewNegative == \A n \in NegKeys : negative'[n] <= negative[n]

\* The two conjuncts that speak of negative entries hold after the step.
NegativeKept ==
  NegativeBounded' /\ \A n \in NegKeys : negative'[n] <= clock' + NegTTL

LEMMA RetainBounds ==
  ASSUME TypeOK, NEW S, Retain(S)
  PROVE  NoNewNegative
BY DEF TypeOK, Retain, NoNewNegative

LEMMA NegativeKeptByRetain ==
  ASSUME TypeOK, TypeOK', Explained, NoNewNegative, UNCHANGED <<clock, upstream, since>>
  PROVE  NegativeKept
<1>1. \A n \in NegKeys : negative'[n] <= clock' + NegTTL
  BY ConstantTypes DEF TypeOK, Explained, Timely, NoNewNegative
<1>2. NegativeBounded'
  <2> SUFFICES ASSUME NEW i \in Issuers, NEW k \in Kids, upstream[i][k] # NoKey
               PROVE  negative'[<<i, k>>] < since[i][k] + TTL + NegTTL
    BY DEF NegativeBounded
  <2>1. <<i, k>> \in NegKeys
    OBVIOUS
  <2>2. negative[<<i, k>>] < since[i][k] + TTL + NegTTL
    BY DEF Explained, NegativeBounded
  <2>3. since[i][k] \in Nat /\ negative[<<i, k>>] \in Nat /\ negative'[<<i, k>>] \in Nat
    BY <2>1 DEF TypeOK
  <2> QED
    BY <2>1, <2>2, <2>3, ConstantTypes DEF NoNewNegative
<1> QED
  BY <1>1, <1>2 DEF NegativeKept

\* Remembering a kid at t is harmless when its absence was read before t - TTL
\* at the earliest; remembering an issuer says nothing about any kid.
LEMMA NegativeKeptByRemember ==
  ASSUME TypeOK, TypeOK', Explained, UNCHANGED <<clock, upstream, since>>,
         NEW n \in NegKeys, NEW t \in Nat, t <= clock, RememberNegative(n, t),
         n[2] \in Kids /\ upstream[n[1]][n[2]] # NoKey => t < since[n[1]][n[2]] + TTL
  PROVE  NegativeKept
<1>1. \A m \in NegKeys : negative'[m] <= negative[m] \/ (m = n /\ negative'[m] = t + NegTTL)
  BY ConstantTypes DEF TypeOK, RememberNegative
<1>2. \A m \in NegKeys : negative'[m] <= clock' + NegTTL
  <2> SUFFICES ASSUME NEW m \in NegKeys PROVE negative'[m] <= clock' + NegTTL
    OBVIOUS
  <2>1. negative[m] <= clock + NegTTL
    BY DEF Explained, Timely
  <2>2. negative[m] \in Nat /\ negative'[m] \in Nat /\ clock \in Nat
    BY DEF TypeOK
  <2> QED
    BY <1>1, <2>1, <2>2, ConstantTypes
<1>3. NegativeBounded'
  <2> SUFFICES ASSUME NEW i \in Issuers, NEW k \in Kids, upstream[i][k] # NoKey
               PROVE  negative'[<<i, k>>] < since[i][k] + TTL + NegTTL
    BY DEF NegativeBounded
  <2>1. <<i, k>> \in NegKeys
    OBVIOUS
  <2>2. negative[<<i, k>>] < since[i][k] + TTL + NegTTL
    BY DEF Explained, NegativeBounded
  <2>3. since[i][k] \in Nat /\ negative[<<i, k>>] \in Nat /\ negative'[<<i, k>>] \in Nat
    BY <2>1 DEF TypeOK
  <2>4. CASE negative'[<<i, k>>] <= negative[<<i, k>>]
    BY <2>2, <2>3, <2>4, ConstantTypes
  <2>5. CASE <<i, k>> = n /\ negative'[<<i, k>>] = t + NegTTL
    BY <2>3, <2>5, ConstantTypes
  <2> QED
    BY <1>1, <2>1, <2>4, <2>5
<1> QED
  BY <1>2, <1>3 DEF NegativeKept

\* A step that changes no published or cached set and fills in no load.
LEMMA SetsKept ==
  ASSUME TypeOK, SetsExplained, UNCHANGED <<trust, cache, token>>,
         \A o \in Requests : load'[o].state = "answered" /\ OwnerLives(o)' =>
           load'[o] = load[o] /\ OwnerLives(o) /\ at'[o] = at[o]
  PROVE  SetsExplained'
<1> USE DEF trust, Iss
<1>1. ASSUME NEW i \in Issuers, cache'[i].expiresAt # 0
      PROVE  HoldsSince(i, cache[i].keys, cache[i].expiresAt - TTL)'
  <2>1. HoldsSince(i, cache[i].keys, cache[i].expiresAt - TTL)
    BY <1>1 DEF SetsExplained
  <2> QED
    BY <2>1 DEF HoldsSince
<1>2. ASSUME NEW o \in Requests, load'[o].state = "answered", OwnerLives(o)'
      PROVE  HoldsSince(Iss(o), load[o].doc, at[o])'
  <2>1. HoldsSince(Iss(o), load[o].doc, at[o])
    BY <1>2 DEF SetsExplained
  <2>2. load'[o] = load[o] /\ at'[o] = at[o]
    BY <1>2
  <2> QED
    BY <2>1, <2>2 DEF HoldsSince
<1> QED
  BY <1>1, <1>2 DEF SetsExplained

\* A step after which every waiting request waited before, on the same load,
\* and that changes no load and nothing in inFlight.
LEMMA FlightKept ==
  ASSUME TypeOK, TypeOK', SingleFlight, UNCHANGED <<inFlight, load, token>>,
         \A q \in Requests : pc[q] = "waiting" <=> pc'[q] = "waiting",
         \A q \in Requests : pc[q] = "waiting" => waitOn'[q] = waitOn[q]
  PROVE  SingleFlight'
<1>1. \A q \in Requests : OwnerLives(q)' <=> OwnerLives(q)
  BY DEF OwnerLives
<1>2. ASSUME NEW i \in Issuers, inFlight[i] # NoReq
      PROVE  Iss(inFlight[i])' = i /\ OwnerLives(inFlight[i])'
  <2>1. inFlight[i] \in Requests /\ Iss(inFlight[i]) = i /\ OwnerLives(inFlight[i])
    BY <1>2 DEF SingleFlight, TypeOK
  <2> QED
    BY <1>1, <2>1 DEF Iss, OwnerLives
<1>3. \A o \in Requests : OwnerLives(o)' => inFlight'[Iss(o)'] = o
  BY <1>1 DEF SingleFlight, Iss
<1>4. \A r \in Requests : pc'[r] = "waiting" =>
        load'[waitOn'[r]].state # "none" /\ Iss(waitOn[r])' = Iss(r)'
  BY DEF SingleFlight, Iss
<1> QED
  BY <1>2, <1>3, <1>4 DEF SingleFlight

LEMMA NotOvertakenKept ==
  ASSUME NotOvertaken, UNCHANGED <<cache, token>>,
         \A o \in Requests : OwnerLives(o)' => OwnerLives(o) /\ at'[o] = at[o]
  PROVE  NotOvertaken'
BY DEF NotOvertaken, Iss

\* A request that does not move.
LEMMA VerdictKept ==
  ASSUME NEW q, VerdictExplained(q), UNCHANGED <<trust, token>>,
         UNCHANGED <<pc[q], outcome[q], at[q], start[q], held[q]>>
  PROVE  VerdictExplained(q)'
BY DEF VerdictExplained, trust, Iss, Kid, KidEntry

LEMMA VerdictOfTheDone ==
  ASSUME NEW q, pc'[q] = "done"
  PROVE  VerdictExplained(q)'
BY DEF VerdictExplained

\* Requests that are not waiting end.
LEMMA EndExplained ==
  ASSUME TypeOK, TypeOK', Explained, NegativeKept,
         NEW r \in Requests, NEW code, pc[r] # "waiting", Finish({r}, code),
         UNCHANGED <<clock, trust, cache, inFlight, load, token>>
  PROVE  Explained'
<1>0. SingleFlight /\ Timely /\ SetsExplained /\ VerdictsExplained /\ NotOvertaken
  BY DEF Explained
<1>1. \A q \in Requests : q # r =>
        UNCHANGED <<pc[q], outcome[q], stage[q], at[q], start[q], waitOn[q], held[q]>>
  BY DEF Finish, TypeOK
<1>2. pc'[r] = "done" /\ pc[r] # "waiting"
  BY DEF Finish, TypeOK
<1>3. \A q \in Requests : OwnerLives(q)' <=> OwnerLives(q)
  BY <1>1, <1>2 DEF OwnerLives
<1>4. SingleFlight'
  BY <1>0, <1>1, <1>2, FlightKept
<1>5. Timely'
  BY <1>0, <1>1, <1>2 DEF Timely, NegativeKept, TypeOK
<1>6. SetsExplained'
  <2>1. \A q \in Requests : OwnerLives(q) => at'[q] = at[q]
    BY <1>1 DEF OwnerLives
  <2> QED
    BY <1>0, <1>3, <2>1, SetsKept
<1>7. VerdictsExplained'
  BY <1>0, <1>1, <1>2, VerdictKept, VerdictOfTheDone DEF VerdictsExplained
<1>8. NotOvertaken'
  <2>1. \A q \in Requests : OwnerLives(q) => at'[q] = at[q]
    BY <1>1 DEF OwnerLives
  <2> QED
    BY <1>0, <1>3, <2>1, NotOvertakenKept
<1> QED
  BY <1>4, <1>5, <1>6, <1>7, <1>8 DEF NegativeKept, Explained

LEMMA FinishEffect ==
  ASSUME TypeOK, NEW R, NEW code, Finish(R, code), NEW q \in Requests
  PROVE  /\ q \in R => pc'[q] = "done"
         /\ q \notin R =>
              UNCHANGED <<pc[q], outcome[q], stage[q], at[q], start[q], waitOn[q], held[q]>>
BY DEF Finish, TypeOK

\* A settled load releases inFlight and everybody who awaited it.
LEMMA FlightSettled ==
  ASSUME TypeOK, TypeOK', SingleFlight, NEW o \in Requests, Settle(o), UNCHANGED token,
         \A q \in Waiters(o) : pc'[q] # "waiting",
         \A q \in Requests \ Waiters(o) :
           (pc'[q] = "waiting" => pc[q] = "waiting" /\ waitOn'[q] = waitOn[q])
           /\ (pc[q] = "waiting" => pc'[q] = "waiting" /\ waitOn'[q] = waitOn[q])
  PROVE  SingleFlight'
<1>1. \A q \in Requests : OwnerLives(q)' <=> OwnerLives(q) /\ q # o
  BY DEF OwnerLives, Waiters
<1>2. \A i \in Issuers : inFlight'[i] = IF inFlight[i] = o THEN NoReq ELSE inFlight[i]
  BY DEF Settle, Released
<1>3. ASSUME NEW i \in Issuers, inFlight'[i] # NoReq
      PROVE  Iss(inFlight[i])' = i /\ OwnerLives(inFlight[i])'
  <2>1. inFlight'[i] = inFlight[i] /\ inFlight[i] # o /\ inFlight[i] \in Requests
    BY <1>2, <1>3 DEF TypeOK
  <2>2. Iss(inFlight[i]) = i /\ OwnerLives(inFlight[i])
    BY <1>3, <2>1 DEF SingleFlight
  <2>3. OwnerLives(inFlight[i])'
    <3> DEFINE q == inFlight[i]
    <3>1. q \in Requests \ Waiters(o) /\ pc[q] = "waiting" /\ waitOn[q] = q
      BY <2>1, <2>2 DEF OwnerLives, Waiters
    <3>2. pc'[q] = "waiting" /\ waitOn'[q] = q
      BY <3>1
    <3> QED
      BY <2>1, <3>2 DEF OwnerLives
  <2> QED
    BY <2>1, <2>2, <2>3 DEF Iss
<1>4. ASSUME NEW q \in Requests, OwnerLives(q)'
      PROVE  inFlight'[Iss(q)'] = q
  <2>1. inFlight[Iss(q)] = q /\ q # o /\ Iss(q) \in Issuers
    BY <1>1, <1>4, TokenTypes DEF SingleFlight
  <2> QED
    BY <1>2, <2>1 DEF Iss
<1>5. ASSUME NEW r \in Requests, pc'[r] = "waiting"
      PROVE  load'[waitOn'[r]].state # "none" /\ Iss(waitOn[r])' = Iss(r)'
  <2>1. pc[r] = "waiting" /\ waitOn'[r] = waitOn[r] /\ waitOn[r] # o
    BY <1>5 DEF Waiters
  <2>2. load'[waitOn[r]] = load[waitOn[r]]
    BY <2>1 DEF Settle, TypeOK
  <2> QED
    BY <2>1, <2>2 DEF SingleFlight, Iss
<1> QED
  BY <1>3, <1>4, <1>5 DEF SingleFlight

\* A load fails and everybody who awaited it is rejected.
LEMMA FailureExplained ==
  ASSUME TypeOK, TypeOK', Explained, NegativeKept,
         NEW o \in Requests, NEW code, Settle(o), Finish(Waiters(o), code),
         UNCHANGED <<clock, trust, cache, token>>
  PROVE  Explained'
<1>0. SingleFlight /\ Timely /\ SetsExplained /\ VerdictsExplained /\ NotOvertaken
  BY DEF Explained
<1>1. \A q \in Requests \ Waiters(o) :
        UNCHANGED <<pc[q], outcome[q], stage[q], at[q], start[q], waitOn[q], held[q]>>
  BY FinishEffect
<1>2. \A q \in Waiters(o) : pc'[q] = "done"
  BY FinishEffect DEF Waiters
<1>3. SingleFlight'
  BY <1>0, <1>1, <1>2, FlightSettled
<1>4. Timely'
  BY <1>0, <1>1, <1>2 DEF Timely, NegativeKept, TypeOK, Waiters
<1>5. SetsExplained'
  <2>1. ASSUME NEW q \in Requests, load'[q].state = "answered", OwnerLives(q)'
        PROVE  load'[q] = load[q] /\ OwnerLives(q) /\ at'[q] = at[q]
    <3>1. q \notin Waiters(o)
      BY <1>2, <2>1 DEF OwnerLives
    <3>2. q # o
      BY <2>1, NoLoadType DEF Settle, TypeOK
    <3> QED
      BY <1>1, <2>1, <3>1, <3>2 DEF Settle, TypeOK, OwnerLives
  <2> QED
    BY <1>0, <2>1, SetsKept
<1>6. VerdictsExplained'
  BY <1>0, <1>1, <1>2, VerdictKept, VerdictOfTheDone DEF VerdictsExplained, Waiters
<1>7. NotOvertaken'
  <2>1. ASSUME NEW q \in Requests, OwnerLives(q)'
        PROVE  OwnerLives(q) /\ at'[q] = at[q]
    <3>1. q \notin Waiters(o)
      BY <1>2, <2>1 DEF OwnerLives
    <3> QED
      BY <1>1, <2>1, <3>1 DEF OwnerLives
  <2> QED
    BY <1>0, <2>1, NotOvertakenKept
<1> QED
  BY <1>3, <1>4, <1>5, <1>6, <1>7 DEF NegativeKept, Explained

LEMMA DeliverEffect ==
  ASSUME TypeOK, NEW R, NEW keys \in KeySets, Deliver(R, keys), NEW q \in Requests
  PROVE  /\ q \notin R => UNCHANGED <<pc[q], stage[q], held[q], waitOn[q]>>
         /\ q \in R /\ keys[Kid(q)] # NoKey =>
              pc'[q] = "verifying" /\ held'[q] = keys[Kid(q)]
         /\ q \in R /\ keys[Kid(q)] = NoKey => pc'[q] \in {"lookup", "missing"}
BY DEF Deliver, TypeOK

LEMMA HitExplained ==
  ASSUME TypeOK, TypeOK', Explained, NEW r \in Requests, LookupHit(r)
  PROVE  Explained'
<1> DEFINE i == Iss(r)
           keys == cache[i].keys
<1>0. SingleFlight /\ Timely /\ SetsExplained /\ VerdictsExplained /\ NotOvertaken
  BY DEF Explained
<1>1. /\ pc[r] = "lookup" /\ ~IsRevoked(r) /\ Fresh(i)
      /\ Deliver({r}, keys) /\ Retain(Live \ Expired(r)) /\ at' = [at EXCEPT ![r] = clock]
      /\ UNCHANGED <<clock, trust, cache, inFlight, token, start, load, outcome>>
  BY DEF LookupHit, Consult, Servable
<1>2. keys \in KeySets /\ i \in Issuers /\ Kid(r) \in Kids
  BY TokenTypes DEF TypeOK
<1>3. \A q \in Requests : q # r =>
        UNCHANGED <<pc[q], stage[q], held[q], waitOn[q], at[q]>>
  <2>1. \A q \in Requests : q # r => UNCHANGED <<pc[q], stage[q], held[q], waitOn[q]>>
    BY <1>1, <1>2, DeliverEffect
  <2>2. \A q \in Requests : q # r => at'[q] = at[q]
    BY <1>1 DEF TypeOK
  <2> QED
    BY <2>1, <2>2
<1>4. /\ keys[Kid(r)] # NoKey => pc'[r] = "verifying" /\ held'[r] = keys[Kid(r)]
      /\ keys[Kid(r)] = NoKey => pc'[r] \in {"lookup", "missing"}
      /\ at'[r] = clock
  <2>1. at'[r] = clock
    BY <1>1 DEF TypeOK
  <2> QED
    BY <1>1, <1>2, <2>1, DeliverEffect
<1>5. NegativeKept
  <2>1. UNCHANGED <<clock, upstream, since>>
    BY <1>1 DEF trust
  <2> QED
    BY <1>1, <2>1, RetainBounds, NegativeKeptByRetain
<1>6. SingleFlight'
  BY <1>0, <1>1, <1>3, <1>4, FlightKept
<1>7. Timely'
  BY <1>0, <1>1, <1>3, <1>4, <1>5 DEF Timely, NegativeKept, TypeOK
<1>8. SetsExplained'
  <2>1. \A q \in Requests : OwnerLives(q)' => OwnerLives(q) /\ at'[q] = at[q]
    BY <1>3, <1>4 DEF OwnerLives
  <2> QED
    BY <1>0, <1>1, <2>1, SetsKept
<1>9. VerdictsExplained'
  <2> SUFFICES VerdictExplained(r)'
    BY <1>0, <1>1, <1>3, VerdictKept DEF VerdictsExplained
  <2>0. outcome'[r] = "none" /\ KidEntry(r)' \notin Revoked
    BY <1>0, <1>1 DEF VerdictsExplained, VerdictExplained, KidEntry, Iss, Kid, IsRevoked
  <2>1. cache[i].expiresAt # 0 /\ cache[i].expiresAt > clock /\ cache[i].expiresAt \in Nat
    BY <1>1, <1>2 DEF Fresh, TypeOK
  <2>2. HoldsSince(i, keys, cache[i].expiresAt - TTL)
    BY <1>0, <1>2, <2>1 DEF SetsExplained
  <2>3. start[r] <= clock /\ clock \in Nat /\ start[r] \in Nat
    BY <1>0, <1>1 DEF Timely, TypeOK
  <2>4. CASE keys[Kid(r)] # NoKey
    <3>1. \/ upstream[i][Kid(r)] = keys[Kid(r)]
          \/ /\ left[i][Kid(r)][keys[Kid(r)]] # 0
             /\ cache[i].expiresAt - TTL <= left[i][Kid(r)][keys[Kid(r)]]
      BY <1>2, <2>2, <2>4 DEF HoldsSince
    <3>2. left[i][Kid(r)][keys[Kid(r)]] \in Nat
      BY <1>2, <2>4 DEF TypeOK
    <3>3. \/ upstream[i][Kid(r)] = keys[Kid(r)]
          \/ /\ left[i][Kid(r)][keys[Kid(r)]] # 0
             /\ start[r] < left[i][Kid(r)][keys[Kid(r)]] + TTL
      BY <2>1, <2>3, <3>1, <3>2, ConstantTypes
    <3>4. pc'[r] = "verifying" /\ held'[r] = keys[Kid(r)]
      BY <1>4, <2>4
    <3> QED
      BY <1>1, <2>0, <2>4, <3>3, <3>4 DEF VerdictExplained, trust, Iss, Kid
  <2>5. CASE keys[Kid(r)] = NoKey
    <3>1. upstream[i][Kid(r)] # NoKey => cache[i].expiresAt - TTL <= since[i][Kid(r)]
      BY <1>2, <2>2, <2>5 DEF HoldsSince
    <3>2. since[i][Kid(r)] \in Nat
      BY <1>2 DEF TypeOK
    <3>3. upstream[i][Kid(r)] # NoKey => clock < since[i][Kid(r)] + TTL
      BY <2>1, <2>3, <3>1, <3>2, ConstantTypes
    <3>4. pc'[r] \in {"lookup", "missing"} /\ at'[r] = clock
      BY <1>4, <2>5
    <3> QED
      BY <1>1, <2>0, <3>3, <3>4 DEF VerdictExplained, trust, Iss, Kid
  <2> QED
    BY <2>4, <2>5
<1>10. NotOvertaken'
  <2>1. \A q \in Requests : OwnerLives(q)' => OwnerLives(q) /\ at'[q] = at[q]
    BY <1>3, <1>4 DEF OwnerLives
  <2> QED
    BY <1>0, <1>1, <2>1, NotOvertakenKept
<1> QED
  BY <1>5, <1>6, <1>7, <1>8, <1>9, <1>10 DEF NegativeKept, Explained

\* A request starts to wait, for a load that is or becomes the one in flight.
LEMMA WaitExplained ==
  ASSUME TypeOK, TypeOK', Explained, NEW r \in Requests,
         LookupJoin(r) \/ LookupLoad(r)
  PROVE  Explained'
<1> DEFINE i == Iss(r)
<1>0. SingleFlight /\ Timely /\ SetsExplained /\ VerdictsExplained /\ NotOvertaken
  BY DEF Explained
<1>1. /\ pc[r] = "lookup" /\ ~IsRevoked(r) /\ Retain(Live \ Expired(r))
      /\ at' = [at EXCEPT ![r] = clock] /\ pc' = [pc EXCEPT ![r] = "waiting"]
      /\ UNCHANGED <<clock, trust, cache, token, stage, start, held, outcome>>
  BY DEF LookupJoin, LookupLoad, Consult
<1>2. \A q \in Requests : q # r => UNCHANGED <<pc[q], waitOn[q], at[q], load[q]>>
  BY DEF LookupJoin, LookupLoad, Consult, TypeOK
<1>3. pc'[r] = "waiting" /\ at'[r] = clock /\ i \in Issuers
  BY <1>1, TokenTypes DEF TypeOK
<1>4. NegativeKept
  <2>1. UNCHANGED <<clock, upstream, since>>
    BY <1>1 DEF trust
  <2> QED
    BY <1>1, <2>1, RetainBounds, NegativeKeptByRetain
<1>5. \A q \in Requests : q # r => (OwnerLives(q)' <=> OwnerLives(q))
  BY <1>2 DEF OwnerLives
<1>6. ~OwnerLives(r)
  BY <1>1 DEF OwnerLives
<1>7. SingleFlight'
  <2>1. CASE LookupJoin(r)
    <3> DEFINE o == inFlight[i]
    <3>1. inFlight' = inFlight /\ load' = load /\ o # NoReq /\ waitOn'[r] = o
      BY <2>1 DEF LookupJoin, TypeOK
    <3>2. o \in Requests /\ Iss(o) = i /\ OwnerLives(o) /\ load[o].state # "none"
      BY <1>0, <1>3, <3>1 DEF SingleFlight, OwnerLives, TypeOK
    <3>3. o # r /\ ~OwnerLives(r)'
      BY <1>6, <3>1, <3>2 DEF OwnerLives
    <3>4. ASSUME NEW j \in Issuers, inFlight[j] # NoReq
          PROVE  Iss(inFlight[j])' = j /\ OwnerLives(inFlight[j])'
      <4>1. inFlight[j] \in Requests /\ Iss(inFlight[j]) = j /\ OwnerLives(inFlight[j])
        BY <1>0, <3>4 DEF SingleFlight, TypeOK
      <4>2. inFlight[j] # r
        BY <1>6, <4>1
      <4> QED
        BY <1>1, <1>2, <3>1, <4>1, <4>2 DEF Iss, OwnerLives
    <3>5. \A q \in Requests : OwnerLives(q)' => inFlight'[Iss(q)'] = q
      BY <1>0, <1>1, <1>5, <3>1, <3>3 DEF SingleFlight, Iss
    <3>6. \A q \in Requests : pc'[q] = "waiting" =>
            load'[waitOn'[q]].state # "none" /\ Iss(waitOn[q])' = Iss(q)'
      BY <1>0, <1>1, <1>2, <3>1, <3>2 DEF SingleFlight, Iss
    <3> QED
      BY <3>1, <3>4, <3>5, <3>6 DEF SingleFlight
  <2>2. CASE LookupLoad(r)
    <3>1. /\ inFlight[i] = NoReq /\ waitOn'[r] = r /\ load'[r].state = "fetching"
          /\ inFlight' = [inFlight EXCEPT ![i] = r]
      BY <2>2 DEF LookupLoad, TypeOK
    <3>2. inFlight'[i] = r /\ \A j \in Issuers : j # i => inFlight'[j] = inFlight[j]
      BY <1>3, <3>1 DEF TypeOK
    <3>3. ASSUME NEW j \in Issuers, inFlight'[j] # NoReq
          PROVE  Iss(inFlight[j])' = j /\ OwnerLives(inFlight[j])'
      <4>1. CASE j = i
        BY <1>1, <1>3, <3>1, <3>2, <4>1 DEF Iss, OwnerLives
      <4>2. CASE j # i
        <5>1. /\ inFlight'[j] = inFlight[j] /\ inFlight[j] \in Requests
              /\ Iss(inFlight[j]) = j /\ OwnerLives(inFlight[j])
          BY <1>0, <3>2, <3>3, <4>2 DEF SingleFlight, TypeOK
        <5>2. inFlight[j] # r
          BY <1>6, <5>1
        <5> QED
          BY <1>1, <1>2, <5>1, <5>2 DEF Iss, OwnerLives
      <4> QED
        BY <4>1, <4>2
    <3>4. ASSUME NEW q \in Requests, OwnerLives(q)'
          PROVE  inFlight'[Iss(q)'] = q
      <4>1. CASE q = r
        BY <1>1, <3>2, <4>1 DEF Iss
      <4>2. CASE q # r
        <5>1. inFlight[Iss(q)] = q /\ Iss(q) \in Issuers
          BY <1>0, <1>5, <3>4, <4>2, TokenTypes DEF SingleFlight
        <5>2. Iss(q) # i
          BY <3>1, <5>1, RequestsAssumption
        <5> QED
          BY <1>1, <3>2, <5>1, <5>2 DEF Iss
      <4> QED
        BY <4>1, <4>2
    <3>5. ASSUME NEW q \in Requests, pc'[q] = "waiting"
          PROVE  load'[waitOn'[q]].state # "none" /\ Iss(waitOn[q])' = Iss(q)'
      <4>1. CASE q = r
        BY <1>1, <3>1, <4>1 DEF Iss
      <4>2. CASE q # r
        <5>1. /\ waitOn'[q] = waitOn[q] /\ load[waitOn[q]].state # "none"
              /\ Iss(waitOn[q]) = Iss(q) /\ waitOn[q] \in Requests \cup {NoReq}
          BY <1>0, <1>2, <3>5, <4>2 DEF SingleFlight, TypeOK
        <5>2. load'[waitOn[q]].state # "none"
          BY <2>2, <3>1, <5>1, RequestsAssumption DEF LookupLoad, TypeOK
        <5> QED
          BY <1>1, <5>1, <5>2 DEF Iss
      <4> QED
        BY <4>1, <4>2
    <3> QED
      BY <3>3, <3>4, <3>5 DEF SingleFlight
  <2> QED
    BY <2>1, <2>2
<1>8. Timely'
  BY <1>0, <1>1, <1>2, <1>3, <1>4 DEF Timely, NegativeKept, TypeOK
<1>9. SetsExplained'
  <2>1. load'[r].state = "answered" => ~OwnerLives(r)'
    <3>1. CASE LookupJoin(r)
      <4>1. waitOn'[r] = inFlight[i] /\ inFlight[i] # NoReq
        BY <3>1 DEF LookupJoin, TypeOK
      <4>2. OwnerLives(inFlight[i])
        BY <1>0, <1>3, <4>1 DEF SingleFlight
      <4> QED
        BY <1>6, <4>1, <4>2 DEF OwnerLives
    <3>2. CASE LookupLoad(r)
      BY <3>2 DEF LookupLoad, TypeOK
    <3> QED
      BY <3>1, <3>2
  <2>2. \A q \in Requests : load'[q].state = "answered" /\ OwnerLives(q)' =>
          load'[q] = load[q] /\ OwnerLives(q) /\ at'[q] = at[q]
    BY <1>2, <1>5, <2>1
  <2> QED
    BY <1>0, <1>1, <2>2, SetsKept
<1>10. VerdictsExplained'
  <2> SUFFICES VerdictExplained(r)'
    BY <1>0, <1>1, <1>2, VerdictKept DEF VerdictsExplained
  <2>1. outcome'[r] = "none" /\ KidEntry(r)' \notin Revoked
    BY <1>0, <1>1 DEF VerdictsExplained, VerdictExplained, KidEntry, Iss, Kid, IsRevoked
  <2> QED
    BY <1>3, <2>1 DEF VerdictExplained
<1>11. NotOvertaken'
  <2>1. cache[i].expiresAt <= clock + TTL
    BY <1>0, <1>3 DEF Timely
  <2>2. ASSUME NEW q \in Requests, OwnerLives(q)'
        PROVE  cache[Iss(q)].expiresAt <= at'[q] + TTL
    BY <1>0, <1>2, <1>3, <1>5, <2>1, <2>2 DEF NotOvertaken
  <2> QED
    BY <1>1, <2>2 DEF NotOvertaken, Iss
<1> QED
  BY <1>4, <1>7, <1>8, <1>9, <1>10, <1>11 DEF NegativeKept, Explained

LEMMA SuccessExplained ==
  ASSUME TypeOK, TypeOK', Explained, NEW o \in Requests, LoadSucceeds(o)
  PROVE  Explained'
<1> DEFINE i == Iss(o)
           doc == load[o].doc
<1>0. SingleFlight /\ Timely /\ SetsExplained /\ VerdictsExplained /\ NotOvertaken
  BY DEF Explained
<1>1. /\ load[o].state = "answered" /\ OwnerLives(o)
      /\ cache' = [cache EXCEPT ![i] = [keys |-> doc, expiresAt |-> at[o] + TTL]]
      /\ Retain(Live \ {IssuerEntry(i)}) /\ Deliver(Waiters(o), doc) /\ Settle(o)
      /\ UNCHANGED <<clock, trust, token, at, start, outcome>>
  BY DEF LoadSucceeds, Entry
<1>2. doc \in KeySets /\ i \in Issuers
  BY TokenTypes DEF TypeOK
<1>3. HoldsSince(i, doc, at[o])
  BY <1>0, <1>1 DEF SetsExplained
<1>4. clock <= at[o] + Deadline /\ at[o] <= clock /\ at[o] \in Nat /\ clock \in Nat
  <2>1. pc[o] = "waiting" /\ start[o] \in Nat /\ at[o] \in Nat /\ clock \in Nat
    BY <1>1 DEF OwnerLives, TypeOK
  <2>2. clock <= start[o] + Deadline /\ start[o] <= at[o] /\ at[o] <= clock
    BY <1>0, <2>1 DEF Timely
  <2> QED
    BY <2>1, <2>2, ConstantTypes
<1>5. \A q \in Requests \ Waiters(o) : UNCHANGED <<pc[q], stage[q], held[q], waitOn[q]>>
  BY <1>1, <1>2, DeliverEffect
<1>6. \A q \in Waiters(o) :
        /\ q \in Requests /\ pc[q] = "waiting" /\ Iss(q) = i
        /\ doc[Kid(q)] # NoKey => pc'[q] = "verifying" /\ held'[q] = doc[Kid(q)]
        /\ doc[Kid(q)] = NoKey => pc'[q] \in {"lookup", "missing"}
  <2> SUFFICES ASSUME NEW q \in Waiters(o)
               PROVE  /\ q \in Requests /\ pc[q] = "waiting" /\ Iss(q) = i
                      /\ doc[Kid(q)] # NoKey => pc'[q] = "verifying" /\ held'[q] = doc[Kid(q)]
                      /\ doc[Kid(q)] = NoKey => pc'[q] \in {"lookup", "missing"}
    OBVIOUS
  <2>1. q \in Requests /\ pc[q] = "waiting" /\ waitOn[q] = o
    BY DEF Waiters
  <2>2. Iss(q) = i
    BY <1>0, <2>1 DEF SingleFlight
  <2> QED
    BY <1>1, <1>2, <2>1, <2>2, DeliverEffect
<1>7. NegativeKept
  <2>1. UNCHANGED <<clock, upstream, since>>
    BY <1>1 DEF trust
  <2> QED
    BY <1>1, <2>1, RetainBounds, NegativeKeptByRetain
<1>8. SingleFlight'
  <2>1. \A q \in Waiters(o) : pc'[q] # "waiting"
    BY <1>6
  <2> QED
    BY <1>0, <1>1, <1>5, <2>1, FlightSettled
<1>9. cache'[i].expiresAt = at[o] + TTL /\ cache'[i].keys = doc
      /\ \A j \in Issuers : j # i => cache'[j] = cache[j]
  BY <1>1, <1>2 DEF TypeOK
<1>10. Timely'
  <2>1. \A j \in Issuers : cache'[j].expiresAt <= clock' + TTL
    BY <1>0, <1>1, <1>4, <1>9, ConstantTypes DEF Timely
  <2>2. \A q \in Requests : pc'[q] \in Active => pc[q] \in Active
    BY <1>5, <1>6
  <2>3. \A q \in Requests : pc'[q] \in {"waiting", "missing"} =>
          pc[q] \in {"waiting", "missing"}
    BY <1>5, <1>6
  <2>4. \A q \in Requests : pc'[q] \in Active =>
          start'[q] <= clock' /\ clock' <= start'[q] + Deadline
    BY <1>0, <1>1, <2>2 DEF Timely
  <2>5. \A q \in Requests : pc'[q] \in {"waiting", "missing"} =>
          start'[q] <= at'[q] /\ at'[q] <= clock'
    BY <1>0, <1>1, <2>3 DEF Timely
  <2>6. clock' >= 1
    BY <1>0, <1>1 DEF Timely
  <2> QED
    BY <1>7, <2>1, <2>4, <2>5, <2>6 DEF Timely, NegativeKept
<1>11. \A q \in Requests : OwnerLives(q)' => OwnerLives(q) /\ q # o /\ load'[q] = load[q]
  <2> SUFFICES ASSUME NEW q \in Requests, OwnerLives(q)'
               PROVE  OwnerLives(q) /\ q # o /\ load'[q] = load[q]
    OBVIOUS
  <2>1. pc'[q] = "waiting" /\ waitOn'[q] = q
    BY DEF OwnerLives
  <2>2. q \notin Waiters(o)
    BY <1>6, <2>1
  <2>3. OwnerLives(q)
    BY <1>5, <2>1, <2>2 DEF OwnerLives
  <2>4. q # o
    BY <2>2, <2>3 DEF Waiters, OwnerLives
  <2>5. load'[q] = load[q]
    BY <1>1, <2>4 DEF Settle, TypeOK
  <2> QED
    BY <2>3, <2>4, <2>5
<1>12. SetsExplained'
  <2>1. ASSUME NEW j \in Issuers, cache'[j].expiresAt # 0
        PROVE  HoldsSince(j, cache[j].keys, cache[j].expiresAt - TTL)'
    <3>1. CASE j = i
      <4>1. cache'[j].expiresAt - TTL = at[o]
        BY <1>4, <1>9, <3>1, ConstantTypes
      <4> QED
        BY <1>1, <1>3, <1>9, <3>1, <4>1 DEF HoldsSince, trust
    <3>2. CASE j # i
      <4>1. HoldsSince(j, cache[j].keys, cache[j].expiresAt - TTL)
        BY <1>0, <1>9, <2>1, <3>2 DEF SetsExplained
      <4> QED
        BY <1>1, <1>9, <3>2, <4>1 DEF HoldsSince, trust
    <3> QED
      BY <3>1, <3>2
  <2>2. ASSUME NEW q \in Requests, load'[q].state = "answered", OwnerLives(q)'
        PROVE  HoldsSince(Iss(q), load[q].doc, at[q])'
    <3>1. HoldsSince(Iss(q), load[q].doc, at[q]) /\ load'[q] = load[q]
      BY <1>0, <1>11, <2>2 DEF SetsExplained
    <3> QED
      BY <1>1, <3>1 DEF HoldsSince, trust, Iss
  <2> QED
    BY <2>1, <2>2 DEF SetsExplained
<1>13. NotOvertaken'
  <2> SUFFICES ASSUME NEW q \in Requests, OwnerLives(q)'
               PROVE  cache'[Iss(q)].expiresAt <= at[q] + TTL
    BY <1>1 DEF NotOvertaken, Iss
  <2>1. OwnerLives(q) /\ q # o
    BY <1>11
  <2>2. inFlight[Iss(q)] = q /\ inFlight[i] = o
    BY <1>0, <1>1, <2>1 DEF SingleFlight
  <2>3. Iss(q) # i /\ Iss(q) \in Issuers
    BY <2>1, <2>2, TokenTypes
  <2> QED
    BY <1>0, <1>9, <2>1, <2>3 DEF NotOvertaken
<1>14. VerdictsExplained'
  <2> SUFFICES ASSUME NEW q \in Waiters(o) PROVE VerdictExplained(q)'
    BY <1>0, <1>1, <1>5, VerdictKept DEF VerdictsExplained
  <2>1. /\ q \in Requests /\ Iss(q) = i /\ Kid(q) \in Kids
        /\ start[q] \in Nat /\ at[q] \in Nat /\ start[q] <= clock /\ at[q] <= clock
    BY <1>0, <1>6, TokenTypes DEF Timely, TypeOK
  <2>2. outcome'[q] = "none" /\ KidEntry(q)' \notin Revoked
    BY <1>0, <1>1, <1>6 DEF VerdictsExplained, VerdictExplained, KidEntry, Iss, Kid
  <2>3. CASE doc[Kid(q)] # NoKey
    <3>1. \/ upstream[i][Kid(q)] = doc[Kid(q)]
          \/ /\ left[i][Kid(q)][doc[Kid(q)]] # 0
             /\ at[o] <= left[i][Kid(q)][doc[Kid(q)]]
      BY <1>3, <2>1, <2>3 DEF HoldsSince
    <3>2. left[i][Kid(q)][doc[Kid(q)]] \in Nat
      BY <1>2, <2>1, <2>3 DEF TypeOK
    <3>3. \/ upstream[i][Kid(q)] = doc[Kid(q)]
          \/ /\ left[i][Kid(q)][doc[Kid(q)]] # 0
             /\ start[q] < left[i][Kid(q)][doc[Kid(q)]] + TTL
      BY <1>4, <2>1, <3>1, <3>2, ConstantTypes
    <3>4. pc'[q] = "verifying" /\ held'[q] = doc[Kid(q)]
      BY <1>6, <2>3
    <3> QED
      BY <1>1, <2>1, <2>2, <2>3, <3>3, <3>4 DEF VerdictExplained, trust, Iss, Kid
  <2>4. CASE doc[Kid(q)] = NoKey
    <3>1. upstream[i][Kid(q)] # NoKey => at[o] <= since[i][Kid(q)]
      BY <1>3, <2>1, <2>4 DEF HoldsSince
    <3>2. since[i][Kid(q)] \in Nat
      BY <1>2, <2>1 DEF TypeOK
    <3>3. upstream[i][Kid(q)] # NoKey => at[q] < since[i][Kid(q)] + TTL
      BY <1>4, <2>1, <3>1, <3>2, ConstantTypes
    <3>4. pc'[q] \in {"lookup", "missing"}
      BY <1>6, <2>4
    <3> QED
      BY <1>1, <2>1, <2>2, <3>3, <3>4 DEF VerdictExplained, trust, Iss, Kid
  <2> QED
    BY <2>3, <2>4
<1> QED
  BY <1>7, <1>8, <1>10, <1>12, <1>13, <1>14 DEF NegativeKept, Explained

LEMMA AnswerExplained ==
  ASSUME TypeOK, TypeOK', Explained, NEW o \in Requests, UpstreamAnswers(o)
  PROVE  Explained'
<1>0. SingleFlight /\ Timely /\ SetsExplained /\ VerdictsExplained /\ NotOvertaken
  BY DEF Explained
<1>1. /\ OwnerLives(o) /\ load[o].state = "fetching"
      /\ load' = [load EXCEPT ![o] = [state |-> "answered", doc |-> upstream[Iss(o)]]]
      /\ UNCHANGED <<clock, trust, token, cache, negative, inFlight,
                     pc, at, start, waitOn, held, outcome>>
  BY DEF UpstreamAnswers, shared
<1>2. \A q \in Requests : q # o => load'[q] = load[q]
  BY <1>1 DEF TypeOK
<1>3. load'[o].state = "answered" /\ load'[o].doc = upstream[Iss(o)]
  BY <1>1 DEF TypeOK
<1>4. \A q \in Requests : OwnerLives(q)' <=> OwnerLives(q)
  BY <1>1 DEF OwnerLives
<1>5. SingleFlight'
  <2>1. \A q \in Requests : OwnerLives(q)' => inFlight'[Iss(q)'] = q
    BY <1>0, <1>1, <1>4 DEF SingleFlight, Iss
  <2>2. \A i \in Issuers : inFlight'[i] # NoReq =>
          Iss(inFlight[i])' = i /\ OwnerLives(inFlight[i])'
    BY <1>0, <1>1 DEF SingleFlight, Iss, OwnerLives
  <2>3. ASSUME NEW r \in Requests, pc'[r] = "waiting"
        PROVE  load'[waitOn'[r]].state # "none" /\ Iss(waitOn[r])' = Iss(r)'
    <3>1. load[waitOn[r]].state # "none" /\ Iss(waitOn[r]) = Iss(r) /\ waitOn'[r] = waitOn[r]
      BY <1>0, <1>1, <2>3 DEF SingleFlight
    <3>2. load'[waitOn[r]].state # "none"
      BY <1>1, <1>3, <3>1 DEF TypeOK
    <3> QED
      BY <1>1, <3>1, <3>2 DEF Iss
  <2> QED
    BY <2>1, <2>2, <2>3 DEF SingleFlight
<1>6. Timely'
  BY <1>0, <1>1 DEF Timely
<1>7. SetsExplained'
  <2>1. ASSUME NEW j \in Issuers, cache'[j].expiresAt # 0
        PROVE  HoldsSince(j, cache[j].keys, cache[j].expiresAt - TTL)'
    <3>1. HoldsSince(j, cache[j].keys, cache[j].expiresAt - TTL)
      BY <1>0, <1>1, <2>1 DEF SetsExplained
    <3> QED
      BY <1>1, <3>1 DEF HoldsSince, trust
  <2>2. ASSUME NEW q \in Requests, load'[q].state = "answered", OwnerLives(q)'
        PROVE  HoldsSince(Iss(q), load[q].doc, at[q])'
    <3>1. CASE q = o
      BY <1>1, <1>3, <3>1 DEF HoldsSince, trust, Iss
    <3>2. CASE q # o
      <4>1. HoldsSince(Iss(q), load[q].doc, at[q]) /\ load'[q] = load[q]
        BY <1>0, <1>2, <1>4, <2>2, <3>2 DEF SetsExplained
      <4> QED
        BY <1>1, <4>1 DEF HoldsSince, trust, Iss
    <3> QED
      BY <3>1, <3>2
  <2> QED
    BY <2>1, <2>2 DEF SetsExplained
<1>8. VerdictsExplained'
  BY <1>0, <1>1, VerdictKept DEF VerdictsExplained
<1>9. NotOvertaken'
  BY <1>0, <1>1, <1>4, NotOvertakenKept
<1>10. NegativeBounded'
  BY <1>1 DEF Explained, NegativeBounded, trust
<1> QED
  BY <1>5, <1>6, <1>7, <1>8, <1>9, <1>10 DEF Explained

\* A request that is not waiting moves to "lookup": it arrives or retries.
LEMMA LookupExplained ==
  ASSUME TypeOK, TypeOK', Explained, NEW r \in Requests, Arrive(r) \/ Retry(r)
  PROVE  Explained'
<1>0. SingleFlight /\ Timely /\ SetsExplained /\ VerdictsExplained /\ NotOvertaken
  BY DEF Explained
<1>1. /\ pc[r] \in {"idle", "verifying"} /\ pc' = [pc EXCEPT ![r] = "lookup"]
      /\ UNCHANGED <<clock, trust, token, cache, negative, inFlight, load, at, waitOn, outcome>>
  BY DEF Arrive, Retry, shared
<1>2. \A q \in Requests : q # r => UNCHANGED <<pc[q], start[q], held[q]>>
  BY DEF Arrive, Retry, TypeOK
<1>3. pc'[r] = "lookup" /\ start'[r] <= clock /\ clock <= start'[r] + Deadline
  <2>1. CASE Arrive(r)
    BY <2>1, ConstantTypes DEF Arrive, TypeOK
  <2>2. CASE Retry(r)
    BY <1>0, <2>2 DEF Retry, Timely, TypeOK
  <2> QED
    BY <2>1, <2>2
<1>4. \A q \in Requests : OwnerLives(q)' <=> OwnerLives(q)
  BY <1>1, <1>2, <1>3 DEF OwnerLives
<1>5. SingleFlight'
  BY <1>0, <1>1, <1>2, <1>3, FlightKept
<1>6. Timely'
  BY <1>0, <1>1, <1>2, <1>3 DEF Timely
<1>7. SetsExplained'
  BY <1>0, <1>1, <1>4, SetsKept
<1>8. VerdictsExplained'
  <2> SUFFICES VerdictExplained(r)'
    BY <1>0, <1>1, <1>2, VerdictKept DEF VerdictsExplained
  <2>1. outcome'[r] = "none"
    BY <1>0, <1>1 DEF VerdictsExplained, VerdictExplained
  <2> QED
    BY <1>3, <2>1 DEF VerdictExplained
<1>9. NotOvertaken'
  BY <1>0, <1>1, <1>4, NotOvertakenKept
<1>10. NegativeBounded'
  BY <1>1 DEF Explained, NegativeBounded, trust
<1> QED
  BY <1>5, <1>6, <1>7, <1>8, <1>9, <1>10 DEF Explained

LEMMA AbortExplained ==
  ASSUME TypeOK, TypeOK', Explained, NEW r \in Requests, Abort(r)
  PROVE  Explained'
<1>0. SingleFlight /\ Timely /\ SetsExplained /\ VerdictsExplained /\ NotOvertaken
  BY DEF Explained
<1>1. /\ Finish({r}, "deadline_exceeded") /\ inFlight' = Released(r)
      /\ UNCHANGED <<clock, trust, token, cache, negative, load>>
  BY DEF Abort
<1>2. \A q \in Requests : q # r =>
        UNCHANGED <<pc[q], outcome[q], at[q], start[q], waitOn[q], held[q]>>
  BY <1>1, FinishEffect
<1>3. pc'[r] = "done"
  BY <1>1, FinishEffect
<1>4. \A q \in Requests : OwnerLives(q)' <=> OwnerLives(q) /\ q # r
  BY <1>2, <1>3 DEF OwnerLives
<1>5. SingleFlight'
  <2>1. \A i \in Issuers : inFlight'[i] = IF inFlight[i] = r THEN NoReq ELSE inFlight[i]
    BY <1>1 DEF Released
  <2>2. ASSUME NEW q \in Requests, OwnerLives(q)'
        PROVE  inFlight'[Iss(q)'] = q
    <3>1. inFlight[Iss(q)] = q /\ q # r /\ Iss(q) \in Issuers
      BY <1>0, <1>4, <2>2, TokenTypes DEF SingleFlight
    <3> QED
      BY <1>1, <2>1, <3>1 DEF Iss
  <2>3. ASSUME NEW i \in Issuers, inFlight'[i] # NoReq
        PROVE  Iss(inFlight[i])' = i /\ OwnerLives(inFlight[i])'
    <3>1. inFlight'[i] = inFlight[i] /\ inFlight[i] # r
      BY <2>1, <2>3
    <3>2. Iss(inFlight[i]) = i /\ OwnerLives(inFlight[i]) /\ inFlight[i] \in Requests
      BY <1>0, <2>3, <3>1 DEF SingleFlight, TypeOK
    <3> QED
      BY <1>1, <1>2, <3>1, <3>2 DEF Iss, OwnerLives
  <2>4. \A q \in Requests : pc'[q] = "waiting" =>
          load'[waitOn'[q]].state # "none" /\ Iss(waitOn[q])' = Iss(q)'
    BY <1>0, <1>1, <1>2, <1>3 DEF SingleFlight, Iss
  <2> QED
    BY <2>2, <2>3, <2>4 DEF SingleFlight
<1>6. Timely'
  BY <1>0, <1>1, <1>2, <1>3 DEF Timely
<1>7. SetsExplained'
  BY <1>0, <1>1, <1>2, <1>4, SetsKept
<1>8. VerdictsExplained'
  BY <1>0, <1>1, <1>2, <1>3, VerdictKept, VerdictOfTheDone DEF VerdictsExplained
<1>9. NotOvertaken'
  BY <1>0, <1>1, <1>2, <1>4, NotOvertakenKept
<1>10. NegativeBounded'
  BY <1>1 DEF Explained, NegativeBounded, trust
<1> QED
  BY <1>5, <1>6, <1>7, <1>8, <1>9, <1>10 DEF Explained

LEMMA LookupStepExplained ==
  ASSUME TypeOK, TypeOK', Explained, NEW r \in Requests, Lookup(r)
  PROVE  Explained'
<1>1. CASE LookupHit(r)
  BY <1>1, HitExplained
<1>2. CASE LookupJoin(r) \/ LookupLoad(r)
  BY <1>2, WaitExplained
<1>3. CASE LookupRevoked(r) \/ LookupKidNegative(r) \/ LookupIssuerNegative(r)
  <2>1. /\ pc[r] = "lookup" /\ \E code : Finish({r}, code)
        /\ UNCHANGED <<clock, trust, cache, inFlight, load, token>>
    BY <1>3 DEF LookupRevoked, LookupKidNegative, LookupIssuerNegative, Consult, shared
  <2>2. NoNewNegative
    <3>1. CASE UNCHANGED negative
      BY <3>1 DEF TypeOK, NoNewNegative
    <3>2. CASE Retain(Live \ Expired(r))
      BY <3>2, RetainBounds
    <3> QED
      BY <1>3, <3>1, <3>2
      DEF LookupRevoked, LookupKidNegative, LookupIssuerNegative, Consult, shared
  <2>3. UNCHANGED <<clock, upstream, since>>
    BY <2>1 DEF trust
  <2>4. NegativeKept
    BY <2>2, <2>3, NegativeKeptByRetain
  <2> QED
    BY <2>1, <2>4, EndExplained
<1> QED
  BY <1>1, <1>2, <1>3 DEF Lookup

LEMMA LoadStepExplained ==
  ASSUME TypeOK, TypeOK', Explained, NEW o \in Requests, LoadStep(o)
  PROVE  Explained'
<1>1. CASE UpstreamAnswers(o)
  BY <1>1, AnswerExplained
<1>2. CASE LoadSucceeds(o)
  BY <1>2, SuccessExplained
<1>3. CASE LoadUnavailable(o)
  <2> DEFINE n == IssuerEntry(Iss(o))
  <2>1. /\ RememberNegative(n, at[o]) /\ Settle(o) /\ OwnerLives(o)
        /\ Finish(Waiters(o), "jwks_unavailable")
        /\ UNCHANGED <<clock, trust, cache, token>>
    BY <1>3 DEF LoadUnavailable
  <2>2. at[o] \in Nat /\ at[o] <= clock
    BY <2>1 DEF Explained, Timely, OwnerLives, TypeOK
  <2>3. n \in NegKeys /\ n[2] \notin Kids
    BY TokenTypes, KidsAssumption DEF IssuerEntry
  <2>4. UNCHANGED <<clock, upstream, since>>
    BY <2>1 DEF trust
  <2>5. NegativeKept
    BY <2>1, <2>2, <2>3, <2>4, NegativeKeptByRemember
  <2> QED
    BY <2>1, <2>5, FailureExplained
<1>4. CASE LoadRejected(o) \/ LoadCut(o)
  <2>1. /\ Settle(o) /\ (\E code : Finish(Waiters(o), code))
        /\ UNCHANGED <<clock, trust, cache, token, negative>>
    BY <1>4 DEF LoadRejected, LoadCut
  <2>2. NoNewNegative
    BY <2>1 DEF TypeOK, NoNewNegative
  <2>3. UNCHANGED <<clock, upstream, since>>
    BY <2>1 DEF trust
  <2>4. NegativeKept
    BY <2>2, <2>3, NegativeKeptByRetain
  <2> QED
    BY <2>1, <2>4, FailureExplained
<1> QED
  BY <1>1, <1>2, <1>3, <1>4 DEF LoadStep

LEMMA StepExplained ==
  ASSUME TypeOK, TypeOK', Explained, NEW r \in Requests, Step(r)
  PROVE  Explained'
<1>1. CASE Arrive(r) \/ Retry(r)
  BY <1>1, LookupExplained
<1>2. CASE Lookup(r)
  BY <1>2, LookupStepExplained
<1>3. CASE LoadStep(r)
  BY <1>3, LoadStepExplained
<1>4. CASE Abort(r)
  BY <1>4, AbortExplained
<1>5. CASE RememberMissing(r)
  <2>1. /\ pc[r] = "missing" /\ RememberNegative(KidEntry(r), at[r])
        /\ Finish({r}, "invalid_signature")
        /\ UNCHANGED <<clock, trust, cache, inFlight, load, token>>
    BY <1>5 DEF RememberMissing
  <2>2. at[r] \in Nat /\ at[r] <= clock
    BY <2>1 DEF Explained, Timely, TypeOK
  <2>3. upstream[Iss(r)][Kid(r)] # NoKey => at[r] < since[Iss(r)][Kid(r)] + TTL
    BY <2>1 DEF Explained, VerdictsExplained, VerdictExplained
  <2>4. KidEntry(r) \in NegKeys /\ KidEntry(r)[1] = Iss(r) /\ KidEntry(r)[2] = Kid(r)
    BY TokenTypes DEF KidEntry
  <2>5. UNCHANGED <<clock, upstream, since>>
    BY <2>1 DEF trust
  <2>6. NegativeKept
    BY <2>1, <2>2, <2>3, <2>4, <2>5, NegativeKeptByRemember
  <2> QED
    BY <2>1, <2>6, EndExplained
<1>6. CASE ImportFails(r) \/ Verify(r) \/ GiveUp(r)
  <2>1. /\ pc[r] = "verifying" /\ \E code : Finish({r}, code)
        /\ UNCHANGED <<clock, trust, cache, inFlight, load, token, negative>>
    BY <1>6 DEF ImportFails, Verify, GiveUp, shared
  <2>2. NoNewNegative
    BY <2>1 DEF TypeOK, NoNewNegative
  <2>3. UNCHANGED <<clock, upstream, since>>
    BY <2>1 DEF trust
  <2>4. NegativeKept
    BY <2>2, <2>3, NegativeKeptByRetain
  <2> QED
    BY <2>1, <2>4, EndExplained
<1> QED
  BY <1>1, <1>2, <1>3, <1>4, <1>5, <1>6 DEF Step

\* A change of the published sets dates what it removes and what it adds.
LEMMA PublishHolds ==
  ASSUME TypeOK, NEW i \in Issuers, NEW k \in Kids, NEW x \in Keys \cup {NoKey},
         Publish(i, k, x), clock >= 1,
         NEW j \in Issuers, NEW keys \in KeySets, NEW t \in Int, t <= clock,
         HoldsSince(j, keys, t)
  PROVE  HoldsSince(j, keys, t)'
<1> SUFFICES ASSUME NEW l \in Kids
             PROVE  /\ keys[l] # NoKey =>
                         \/ upstream'[j][l] = keys[l]
                         \/ left'[j][l][keys[l]] # 0 /\ t <= left'[j][l][keys[l]]
                    /\ keys[l] = NoKey /\ upstream'[j][l] # NoKey => t <= since'[j][l]
  BY DEF HoldsSince
<1>1. /\ keys[l] # NoKey => \/ upstream[j][l] = keys[l]
                            \/ left[j][l][keys[l]] # 0 /\ t <= left[j][l][keys[l]]
      /\ keys[l] = NoKey /\ upstream[j][l] # NoKey => t <= since[j][l]
  BY DEF HoldsSince
<1>2. CASE <<j, l>> # <<i, k>>
  <2>1. upstream'[j][l] = upstream[j][l]
    BY <1>2 DEF Publish, TypeOK
  <2>2. left'[j][l] = left[j][l]
    BY <1>2 DEF Publish, TypeOK
  <2>3. since'[j][l] = since[j][l]
    BY <1>2 DEF Publish, TypeOK
  <2> QED
    BY <1>1, <2>1, <2>2, <2>3
<1>3. CASE <<j, l>> = <<i, k>>
  <2>0. j = i /\ l = k
    BY <1>3
  <2>1. upstream'[i][k] = x /\ x # upstream[i][k]
    BY DEF Publish, TypeOK
  <2>2. CASE upstream[i][k] = NoKey
    <3>1. left' = left /\ since'[i][k] = clock
      BY <2>2 DEF Publish, TypeOK
    <3> QED
      BY <1>1, <2>0, <2>1, <2>2, <3>1
  <2>3. CASE upstream[i][k] # NoKey
    <3>1. upstream[i][k] \in Keys
      BY <2>3 DEF TypeOK
    <3>2. since' = since /\ left' = [left EXCEPT ![i][k][upstream[i][k]] = clock]
      BY <2>3 DEF Publish
    <3>3. left'[i][k][upstream[i][k]] = clock
      BY <3>1, <3>2 DEF TypeOK
    <3>4. \A y \in Keys : y # upstream[i][k] => left'[i][k][y] = left[i][k][y]
      BY <3>1, <3>2 DEF TypeOK
    <3>5. keys[k] \in Keys \cup {NoKey}
      OBVIOUS
    <3>6. clock # 0
      BY DEF TypeOK
    <3> QED
      BY <1>1, <2>0, <2>3, <3>2, <3>3, <3>4, <3>5, <3>6
  <2> QED
    BY <2>2, <2>3
<1> QED
  BY <1>2, <1>3

LEMMA PublishExplained ==
  ASSUME TypeOK, TypeOK', Explained,
         NEW i \in Issuers, NEW k \in Kids, NEW x \in Keys \cup {NoKey}, Publish(i, k, x)
  PROVE  Explained'
<1>0. /\ SingleFlight /\ Timely /\ SetsExplained /\ VerdictsExplained
      /\ NotOvertaken /\ NegativeBounded
  BY DEF Explained
<1>1. UNCHANGED <<clock, token, cache, negative, inFlight, load, pc, at, start, waitOn,
                  held, outcome>>
  BY DEF Publish, shared, request
<1>2. clock \in Nat /\ clock >= 1
  BY <1>0 DEF Timely, TypeOK
<1>3. \A q \in Requests : OwnerLives(q)' <=> OwnerLives(q)
  BY <1>1 DEF OwnerLives
<1>4. SingleFlight'
  BY <1>0, <1>1, FlightKept
<1>5. Timely' /\ NotOvertaken'
  BY <1>0, <1>1, <1>3, NotOvertakenKept DEF Timely
<1>6. SetsExplained'
  <2>1. ASSUME NEW j \in Issuers, cache'[j].expiresAt # 0
        PROVE  HoldsSince(j, cache[j].keys, cache[j].expiresAt - TTL)'
    <3> DEFINE keys == cache[j].keys
               t == cache[j].expiresAt - TTL
    <3>1. HoldsSince(j, keys, t)
      BY <1>0, <1>1, <2>1 DEF SetsExplained
    <3>2. cache[j].expiresAt <= clock + TTL /\ cache[j].expiresAt \in Nat /\ keys \in KeySets
      BY <1>0 DEF Timely, TypeOK
    <3>3. t \in Int /\ t <= clock
      BY <1>2, <3>2, ConstantTypes
    <3>4. \A l \in Kids :
            /\ keys[l] # NoKey =>
                 \/ upstream'[j][l] = keys[l]
                 \/ left'[j][l][keys[l]] # 0 /\ t <= left'[j][l][keys[l]]
            /\ keys[l] = NoKey /\ upstream'[j][l] # NoKey => t <= since'[j][l]
      <4> HIDE DEF keys, t
      <4> QED
        BY <1>2, <3>1, <3>2, <3>3, PublishHolds DEF HoldsSince
    <3> QED
      BY <1>1, <3>4 DEF HoldsSince
  <2>2. ASSUME NEW q \in Requests, load'[q].state = "answered", OwnerLives(q)'
        PROVE  HoldsSince(Iss(q), load[q].doc, at[q])'
    <3> DEFINE keys == load[q].doc
               t == at[q]
               j == Iss(q)
    <3>1. HoldsSince(j, keys, t)
      BY <1>0, <1>1, <1>3, <2>2 DEF SetsExplained
    <3>2. t \in Int /\ t <= clock /\ keys \in KeySets /\ j \in Issuers
      <4>1. t \in Int /\ keys \in KeySets
        BY DEF TypeOK
      <4>2. t <= clock
        BY <1>0, <1>3, <2>2 DEF Timely, OwnerLives
      <4>3. j \in Issuers
        BY TokenTypes
      <4> QED
        BY <4>1, <4>2, <4>3
    <3>3. \A l \in Kids :
            /\ keys[l] # NoKey =>
                 \/ upstream'[j][l] = keys[l]
                 \/ left'[j][l][keys[l]] # 0 /\ t <= left'[j][l][keys[l]]
            /\ keys[l] = NoKey /\ upstream'[j][l] # NoKey => t <= since'[j][l]
      <4> HIDE DEF keys, t, j
      <4> QED
        BY <1>2, <3>1, <3>2, PublishHolds DEF HoldsSince
    <3> QED
      BY <1>1, <3>3 DEF HoldsSince, Iss
  <2> QED
    BY <2>1, <2>2 DEF SetsExplained
<1>7. \A j \in Issuers, l \in Kids :
        /\ since'[j][l] = since[j][l] \/ since'[j][l] = clock
        /\ upstream[j][l] = NoKey /\ upstream'[j][l] # NoKey => since'[j][l] = clock
  BY DEF Publish, TypeOK
<1>8. \A j \in Issuers, l \in Kids, y \in Keys :
        /\ left'[j][l][y] = left[j][l][y] \/ left'[j][l][y] = clock
        /\ upstream[j][l] = y /\ upstream'[j][l] # y => left'[j][l][y] = clock
  <2>1. CASE upstream[i][k] = NoKey
    BY <2>1, KeysAssumption DEF Publish, TypeOK
  <2>2. CASE upstream[i][k] # NoKey
    <3>1. upstream[i][k] \in Keys /\ left' = [left EXCEPT ![i][k][upstream[i][k]] = clock]
      BY <2>2 DEF Publish, TypeOK
    <3>2. left'[i][k][upstream[i][k]] = clock
      BY <3>1 DEF TypeOK
    <3>3. \A j \in Issuers, l \in Kids, y \in Keys :
            <<j, l, y>> # <<i, k, upstream[i][k]>> => left'[j][l][y] = left[j][l][y]
      BY <3>1 DEF TypeOK
    <3>4. \A j \in Issuers, l \in Kids :
            <<j, l>> # <<i, k>> => upstream'[j][l] = upstream[j][l]
      BY DEF Publish, TypeOK
    <3> QED
      BY <3>2, <3>3, <3>4
  <2> QED
    BY <2>1, <2>2
<1>9. VerdictsExplained'
  <2> SUFFICES ASSUME NEW q \in Requests PROVE VerdictExplained(q)'
    BY DEF VerdictsExplained
  <2> DEFINE j == Iss(q)
             l == Kid(q)
             y == held[q]
  <2>1. /\ VerdictExplained(q) /\ j \in Issuers /\ l \in Kids
        /\ y \in Keys \cup {NoKey} /\ start[q] \in Nat /\ at[q] \in Nat
    BY <1>0, TokenTypes DEF VerdictsExplained, TypeOK
  <2>2. pc[q] = "verifying" =>
          /\ y # NoKey
          /\ y = upstream'[j][l] \/ (left'[j][l][y] # 0 /\ start[q] < left'[j][l][y] + TTL)
    <3> SUFFICES ASSUME pc[q] = "verifying"
                 PROVE  /\ y # NoKey
                        /\ \/ y = upstream'[j][l]
                           \/ left'[j][l][y] # 0 /\ start[q] < left'[j][l][y] + TTL
      OBVIOUS
    <3>1. /\ y # NoKey /\ y \in Keys
          /\ y = upstream[j][l] \/ (left[j][l][y] # 0 /\ start[q] < left[j][l][y] + TTL)
      BY <2>1 DEF VerdictExplained
    <3>2. start[q] <= clock
      BY <1>0 DEF Timely
    <3>3. clock # 0 /\ start[q] < clock + TTL
      BY <1>2, <2>1, <3>2, ConstantTypes
    <3> QED
      BY <1>8, <2>1, <3>1, <3>3
  <2>3. pc[q] = "missing" /\ upstream'[j][l] # NoKey => at[q] < since'[j][l] + TTL
    <3> SUFFICES ASSUME pc[q] = "missing", upstream'[j][l] # NoKey
                 PROVE  at[q] < since'[j][l] + TTL
      OBVIOUS
    <3>1. upstream[j][l] # NoKey => at[q] < since[j][l] + TTL
      BY <2>1 DEF VerdictExplained
    <3>2. at[q] <= clock
      BY <1>0 DEF Timely
    <3>3. at[q] < clock + TTL
      BY <1>2, <2>1, <3>2, ConstantTypes
    <3> QED
      BY <1>7, <2>1, <3>1, <3>3
  <2> QED
    BY <1>1, <2>1, <2>2, <2>3 DEF VerdictExplained, Iss, Kid, KidEntry
<1>10. NegativeBounded'
  <2> SUFFICES ASSUME NEW j \in Issuers, NEW l \in Kids, upstream'[j][l] # NoKey
               PROVE  negative'[<<j, l>>] < since'[j][l] + TTL + NegTTL
    BY DEF NegativeBounded
  <2>1. <<j, l>> \in NegKeys
    OBVIOUS
  <2>2. negative[<<j, l>>] <= clock + NegTTL /\ negative[<<j, l>>] \in Nat
    BY <1>0, <2>1 DEF Timely, TypeOK
  <2>3. negative[<<j, l>>] < clock + TTL + NegTTL
    BY <1>2, <2>2, ConstantTypes
  <2>4. upstream[j][l] # NoKey => negative[<<j, l>>] < since[j][l] + TTL + NegTTL
    BY <1>0 DEF NegativeBounded
  <2> QED
    BY <1>1, <1>7, <2>3, <2>4
<1> QED
  BY <1>4, <1>5, <1>6, <1>9, <1>10 DEF Explained

LEMMA TickExplained ==
  ASSUME TypeOK, TypeOK', Explained, Tick
  PROVE  Explained'
<1>0. /\ SingleFlight /\ Timely /\ SetsExplained /\ VerdictsExplained
      /\ NotOvertaken /\ NegativeBounded
  BY DEF Explained
<1>1. UNCHANGED <<trust, token, cache, negative, inFlight, load, pc, at, start, waitOn,
                  held, outcome>>
  BY DEF Tick, shared, request
<1>2. clock' = clock + 1 /\ clock \in Nat /\ \A q \in Requests : ~Due(q)
  BY DEF Tick, TypeOK
<1>3. \A q \in Requests : OwnerLives(q)' <=> OwnerLives(q)
  BY <1>1 DEF OwnerLives
<1>4. SingleFlight'
  BY <1>0, <1>1, FlightKept
<1>5. Timely'
  <2>1. \A q \in Requests : pc'[q] \in Active =>
          start'[q] <= clock' /\ clock' <= start'[q] + Deadline
    BY <1>0, <1>1, <1>2, ConstantTypes DEF Timely, Due, TypeOK
  <2>2. \A q \in Requests : pc'[q] \in {"waiting", "missing"} =>
          start'[q] <= at'[q] /\ at'[q] <= clock'
    BY <1>0, <1>1, <1>2 DEF Timely, TypeOK
  <2>3. \A i \in Issuers : cache'[i].expiresAt <= clock' + TTL
    BY <1>0, <1>1, <1>2, ConstantTypes DEF Timely, TypeOK
  <2>4. \A n \in NegKeys : negative'[n] <= clock' + NegTTL
    BY <1>0, <1>1, <1>2, ConstantTypes DEF Timely, TypeOK
  <2> QED
    BY <1>0, <1>2, <2>1, <2>2, <2>3, <2>4 DEF Timely
<1>6. SetsExplained' /\ NotOvertaken'
  BY <1>0, <1>1, <1>3, SetsKept, NotOvertakenKept
<1>7. VerdictsExplained'
  BY <1>0, <1>1, VerdictKept DEF VerdictsExplained
<1>8. NegativeBounded'
  BY <1>0, <1>1 DEF NegativeBounded, trust
<1> QED
  BY <1>4, <1>5, <1>6, <1>7, <1>8 DEF Explained

LEMMA InitExplained == Init => Explained
<1> SUFFICES ASSUME Init PROVE Explained
  OBVIOUS
<1>1. TypeOK
  BY InitType
<1>2. \A r \in Requests : ~OwnerLives(r) /\ pc[r] = "idle" /\ load[r] = NoLoad
  BY DEF Init, OwnerLives
<1>3. SingleFlight /\ NotOvertaken /\ VerdictsExplained
  BY <1>2 DEF Init, SingleFlight, NotOvertaken, VerdictsExplained, VerdictExplained
<1>4. Timely /\ NegativeBounded
  BY <1>1, <1>2, ConstantTypes DEF Init, Timely, NegativeBounded, TypeOK
<1>5. SetsExplained
  BY <1>2 DEF Init, SetsExplained
<1> QED
  BY <1>3, <1>4, <1>5 DEF Explained

LEMMA NextExplained ==
  ASSUME TypeOK, TypeOK', Explained, [Next]_vars
  PROVE  Explained'
<1>1. CASE \E r \in Requests : Step(r)
  BY <1>1, StepExplained
<1>2. CASE \E i \in Issuers, k \in Kids, x \in Keys \cup {NoKey} : Publish(i, k, x)
  BY <1>2, PublishExplained
<1>3. CASE Tick
  BY <1>3, TickExplained
<1>4. CASE UNCHANGED vars
  <2>1. UNCHANGED <<clock, trust, token, cache, negative, inFlight, load, pc, at, start,
                    waitOn, held, outcome>>
    BY <1>4 DEF vars, shared, request
  <2>2. \A q \in Requests : OwnerLives(q)' <=> OwnerLives(q)
    BY <2>1 DEF OwnerLives
  <2>3. SingleFlight' /\ SetsExplained' /\ NotOvertaken'
    BY <2>1, <2>2, FlightKept, SetsKept, NotOvertakenKept DEF Explained
  <2>4. VerdictsExplained'
    BY <2>1, VerdictKept DEF Explained, VerdictsExplained
  <2>5. Timely' /\ NegativeBounded'
    BY <2>1 DEF Explained, Timely, NegativeBounded, trust
  <2> QED
    BY <2>3, <2>4, <2>5 DEF Explained
<1> QED
  BY <1>1, <1>2, <1>3, <1>4 DEF Next

-----------------------------------------------------------------------------
(* The results.                                                            *)

\* Every set, load, held key and negative entry is explained by what its
\* issuer published: the inductive invariant of the cache.
THEOREM ExplainedAlways == Spec => []Explained
<1>1. Init => TypeOK /\ Explained
  BY InitType, InitExplained
<1>2. TypeOK /\ TypeOK' /\ Explained /\ [Next]_vars => Explained'
  BY NextExplained
<1>3. Spec => []TypeOK
  BY TypeCorrect
<1> QED
  BY <1>1, <1>2, <1>3, PTL DEF Spec

\* A published kid is refused from the negative cache for less than
\* TTL + NegTTL after its publication (getKey and rememberNegative).
THEOREM NegativeIsBounded == Spec => []NegativeBounded
<1>1. Explained => NegativeBounded
  BY DEF Explained
<1> QED
  BY <1>1, ExplainedAlways, PTL

\* One load per issuer can succeed, and every waiter's load is pending
\* (getJwks lines 117-137).
THEOREM FlightIsSingle == Spec => []SingleFlight
<1>1. Explained => SingleFlight
  BY DEF Explained
<1> QED
  BY <1>1, ExplainedAlways, PTL

LEMMA WhoWritesTheCache ==
  ASSUME NEW r \in Requests, Step(r)
  PROVE  UNCHANGED cache \/ LoadSucceeds(r)
<1>1. Lookup(r) => UNCHANGED cache
  BY DEF Lookup, LookupRevoked, LookupKidNegative, LookupIssuerNegative, LookupHit,
         LookupJoin, LookupLoad, shared
<1>2. LoadStep(r) => UNCHANGED cache \/ LoadSucceeds(r)
  BY DEF LoadStep, UpstreamAnswers, LoadUnavailable, LoadRejected, LoadCut, shared
<1> QED
  BY <1>1, <1>2 DEF Step, Arrive, RememberMissing, ImportFails, Verify, Retry, GiveUp,
                    Abort, shared

\* A cached set is only replaced by one whose load started no earlier: the
\* answer of an overtaken load is never written (fetchAndCache lines 142-146).
THEOREM CacheAdvances == Spec => CacheNeverRegresses
<1> DEFINE Advance == \A i \in Issuers : cache'[i] # cache[i] =>
                        cache'[i].expiresAt >= cache[i].expiresAt
<1>1. TypeOK /\ Explained /\ [Next]_vars => [Advance]_cache
  <2> SUFFICES ASSUME TypeOK, Explained, Next, ~ UNCHANGED cache PROVE Advance
    BY DEF vars, shared
  <2>1. PICK r \in Requests : LoadSucceeds(r)
    BY WhoWritesTheCache DEF Next, Publish, Tick, shared
  <2>2. /\ cache' = [cache EXCEPT ![Iss(r)] =
                       [keys |-> load[r].doc, expiresAt |-> at[r] + TTL]]
        /\ OwnerLives(r)
    BY <2>1 DEF LoadSucceeds, Entry
  <2>3. cache[Iss(r)].expiresAt <= at[r] + TTL
    BY <2>2 DEF Explained, NotOvertaken
  <2>4. Iss(r) \in Issuers
    BY TokenTypes
  <2>5. at[r] + TTL \in Nat /\ cache[Iss(r)].expiresAt \in Nat
    BY <2>4, ConstantTypes DEF TypeOK
  <2> QED
    BY <2>2, <2>3, <2>4, <2>5 DEF TypeOK
<1>2. Spec => []TypeOK /\ []Explained
  BY TypeCorrect, ExplainedAlways, PTL
<1> QED
  BY <1>1, <1>2, PTL DEF Spec, CacheNeverRegresses

-----------------------------------------------------------------------------
(* JwksCache implements IssuerTrust.                                       *)

Refusals == Codes \ {"none", "verified"}

\* Requests that end with any other code than "verified" are a Reject.
LEMMA EndIsReject ==
  ASSUME TypeOK, NEW R \in SUBSET Requests, NEW code \in Refusals, Finish(R, code),
         \A r \in R : outcome[r] = "none",
         UNCHANGED <<clock, upstream, left, token>>
  PROVE  Trust!Next
<1>1. \A r \in R : verdict[r] = "pending"
  BY DEF verdict
<1>2. verdict' = [r \in Requests |-> IF r \in R THEN "rejected" ELSE verdict[r]]
  <2>1. \A r \in Requests : outcome'[r] = IF r \in R THEN code ELSE outcome[r]
    BY DEF Finish
  <2> QED
    BY <2>1 DEF verdict, Refusals
<1>3. Trust!Reject(R)
  BY <1>1, <1>2 DEF Trust!Reject
<1> QED
  BY <1>3 DEF Trust!Next

LEMMA VerifyIsAccept ==
  ASSUME TypeOK, Explained, NEW r \in Requests, pc[r] = "verifying",
         held[r] = token[r].key, Finish({r}, "verified"),
         UNCHANGED <<clock, upstream, left, token>>
  PROVE  Trust!Next
<1>1. VerdictExplained(r) /\ clock <= start[r] + Deadline
  BY DEF Explained, VerdictsExplained, Timely
<1>2. /\ Iss(r) \in Issuers /\ Kid(r) \in Kids /\ held[r] # NoKey
      /\ clock \in Nat /\ start[r] \in Nat
  BY <1>1, TokenTypes DEF TypeOK, VerdictExplained
<1>3. held[r] \in Keys
  BY <1>2 DEF TypeOK
<1>4. left[Iss(r)][Kid(r)][held[r]] \in Nat
  BY <1>2, <1>3 DEF TypeOK
<1>5. Trust!Trusted(Iss(r), Kid(r), held[r])
  <2>1. \/ held[r] = upstream[Iss(r)][Kid(r)]
        \/ /\ left[Iss(r)][Kid(r)][held[r]] # 0
           /\ start[r] < left[Iss(r)][Kid(r)][held[r]] + TTL
    BY <1>1 DEF VerdictExplained
  <2>2. start[r] < left[Iss(r)][Kid(r)][held[r]] + TTL =>
          clock < left[Iss(r)][Kid(r)][held[r]] + (TTL + Deadline)
    BY <1>1, <1>2, <1>4, ConstantTypes
  <2> QED
    BY <2>1, <2>2 DEF Trust!Trusted
<1>6. KidEntry(r) \notin Revoked /\ outcome[r] = "none"
  BY <1>1 DEF VerdictExplained
<1>7. verdict[r] = "pending"
  BY <1>6 DEF verdict
<1>8. verdict' = [verdict EXCEPT ![r] = "accepted"]
  <2>1. \A q \in Requests : outcome'[q] = IF q = r THEN "verified" ELSE outcome[q]
    BY DEF Finish
  <2> QED
    BY <2>1 DEF verdict
<1>9. Trust!Accept(r)
  BY <1>5, <1>6, <1>7, <1>8 DEF Trust!Accept, Iss, Kid, KidEntry
<1> QED
  BY <1>9 DEF Trust!Next

\* What a step of a request does to the abstract state.
LEMMA StepRefines ==
  ASSUME TypeOK, Explained, NEW r \in Requests, Step(r)
  PROVE  Trust!Next \/ UNCHANGED Trust!vars
<1>1. \A q \in Requests : pc[q] # "done" => outcome[q] = "none"
  BY DEF Explained, VerdictsExplained, VerdictExplained
<1>2. UNCHANGED <<clock, upstream, left, token>>
  <2>1. Lookup(r) => UNCHANGED <<clock, trust, token>>
    BY DEF Lookup, LookupRevoked, LookupKidNegative, LookupIssuerNegative, LookupHit,
           LookupJoin, LookupLoad
  <2>2. LoadStep(r) => UNCHANGED <<clock, trust, token>>
    BY DEF LoadStep, UpstreamAnswers, LoadSucceeds, Entry, LoadUnavailable, LoadRejected, LoadCut
  <2>3. UNCHANGED <<clock, trust, token>>
    BY <2>1, <2>2 DEF Step, Arrive, RememberMissing, ImportFails, Verify, Retry, GiveUp, Abort
  <2> QED
    BY <2>3 DEF trust
<1>3. CASE UNCHANGED outcome
  BY <1>2, <1>3 DEF Trust!vars, verdict
<1>4. ASSUME NEW code \in Refusals, Finish({r}, code), pc[r] # "done"
      PROVE  Trust!Next
  BY <1>1, <1>2, <1>4, EndIsReject
<1>5. ASSUME NEW code \in Refusals, Finish(Waiters(r), code)
      PROVE  Trust!Next
  <2>1. Waiters(r) \in SUBSET Requests /\ \A q \in Waiters(r) : outcome[q] = "none"
    BY <1>1 DEF Waiters
  <2> QED
    BY <1>2, <1>5, <2>1, EndIsReject
<1>6. {"invalid_signature", "jwks_unavailable", "jwks_bad_gateway", "deadline_exceeded",
       "claims_rejected"} \subseteq Refusals
  BY DEF Refusals
<1>7. CASE Lookup(r)
  BY <1>3, <1>4, <1>6, <1>7
  DEF Lookup, LookupRevoked, LookupKidNegative, LookupIssuerNegative, LookupHit,
      LookupJoin, LookupLoad, Consult
<1>8. CASE LoadStep(r)
  BY <1>3, <1>5, <1>6, <1>8
  DEF LoadStep, UpstreamAnswers, LoadSucceeds, Entry, LoadUnavailable, LoadRejected, LoadCut
<1>9. CASE Verify(r)
  <2>1. pc[r] = "verifying" /\ held[r] = token[r].key
    BY <1>9 DEF Verify
  <2>2. Finish({r}, "verified") \/ Finish({r}, "claims_rejected")
    BY <1>9 DEF Verify
  <2> QED
    BY <1>2, <1>4, <1>6, <2>1, <2>2, VerifyIsAccept
<1>10. CASE Arrive(r) \/ Retry(r)
  BY <1>3, <1>10 DEF Arrive, Retry
<1>11. CASE RememberMissing(r) \/ ImportFails(r) \/ GiveUp(r) \/ Abort(r)
  BY <1>4, <1>6, <1>11 DEF RememberMissing, ImportFails, GiveUp, Abort, Due
<1> QED
  BY <1>7, <1>8, <1>9, <1>10, <1>11 DEF Step

\* Whatever is cached, shared, retried or overtaken, a token is accepted only
\* with a key its issuer publishes or published less than TTL + Deadline ago
\* (verifyJumpJwt over getKey).
THEOREM CacheImplementsTrust == Spec => ImplementsTrust
<1>1. Init => Trust!Init
  BY DEF Init, Trust!Init, KeySets, verdict
<1>2. TypeOK /\ Explained /\ [Next]_vars => [Trust!Next]_(Trust!vars)
  <2> SUFFICES ASSUME TypeOK, Explained, [Next]_vars
               PROVE  Trust!Next \/ UNCHANGED Trust!vars
    OBVIOUS
  <2>1. CASE \E r \in Requests : Step(r)
    BY <2>1, StepRefines
  <2>2. ASSUME NEW i \in Issuers, NEW k \in Kids, NEW x \in Keys \cup {NoKey},
               Publish(i, k, x)
        PROVE  Trust!Next
    <3>1. Trust!Publish(i, k, x)
      BY <2>2 DEF Publish, Trust!Publish, verdict, request
    <3> QED
      BY <3>1 DEF Trust!Next
  <2>3. CASE Tick
    <3>1. Trust!Tick
      BY <2>3 DEF Tick, Trust!Tick, verdict, trust, request
    <3> QED
      BY <3>1 DEF Trust!Next
  <2>4. CASE UNCHANGED vars
    BY <2>4 DEF vars, Trust!vars, verdict, trust, request
  <2> QED
    BY <2>1, <2>2, <2>3, <2>4 DEF Next
<1>3. Spec => []TypeOK /\ []Explained
  BY TypeCorrect, ExplainedAlways, PTL
<1> QED
  BY <1>1, <1>2, <1>3, PTL DEF Spec, Trust!Spec, ImplementsTrust

-----------------------------------------------------------------------------
(* The negative map.                                                       *)

\* R is a strict total order of S.
StrictOrder(R, S) ==
  /\ \A a \in S : <<a, a>> \notin R
  /\ \A a, b \in S : a # b => <<a, b>> \in R \/ <<b, a>> \in R
  /\ \A a, b, c \in S : <<a, b>> \in R /\ <<b, c>> \in R => <<a, c>> \in R

\* Fewer than k elements come after each of the last k of a finite ordered set.
LEMMA LastFew ==
  ASSUME NEW S, IsFiniteSet(S), NEW R, StrictOrder(R, S), NEW k \in Nat,
         NEW T, T = {n \in S : Cardinality({m \in S : <<n, m>> \in R}) < k}
  PROVE  IsFiniteSet(T) /\ Cardinality(T) <= k
<1> DEFINE After(n) == {m \in S : <<n, m>> \in R}
           rank == [n \in T |-> Cardinality(After(n))]
<1>1. /\ \A n \in S : IsFiniteSet(After(n)) /\ Cardinality(After(n)) \in Nat
      /\ T = {n \in S : Cardinality(After(n)) < k}
  BY FS_Subset, FS_CardinalityType
<1>2. ASSUME NEW n \in S, NEW m \in S, <<n, m>> \in R
      PROVE  Cardinality(After(m)) # Cardinality(After(n))
  <2>1. After(m) \subseteq After(n)
    BY <1>2 DEF StrictOrder
  <2>2. m \in After(n) /\ m \notin After(m)
    BY <1>2 DEF StrictOrder
  <2> HIDE DEF After
  <2> QED
    BY <1>1, <2>1, <2>2, FS_Subset
<1> HIDE DEF After
<1>3. \A n, m \in T : rank[n] = rank[m] => n = m
  BY <1>2 DEF StrictOrder
<1>4. rank \in [T -> 0 .. k - 1]
  BY <1>1
<1>5. rank \in Injection(T, 0 .. k - 1)
  BY <1>3, <1>4 DEF Injection, IsInjective
<1>6. IsFiniteSet(0 .. k - 1) /\ Cardinality(0 .. k - 1) <= k
  <2> DEFINE top == k - 1
  <2>1. 0 \in Int /\ top \in Int
    OBVIOUS
  <2> HIDE DEF top
  <2>2. /\ IsFiniteSet(0 .. top)
        /\ Cardinality(0 .. top) = IF 0 > top THEN 0 ELSE top - 0 + 1
    BY <2>1, FS_Interval
  <2> QED
    BY <2>1, <2>2 DEF top
<1>7. IsFiniteSet(T) /\ Cardinality(T) <= Cardinality(0 .. k - 1)
  BY <1>5, <1>6, FS_Injection
<1>8. Cardinality(T) \in Nat /\ Cardinality(0 .. k - 1) \in Nat
  BY <1>6, <1>7, FS_CardinalityType
<1> QED
  BY <1>6, <1>7, <1>8 DEF After

\* The inductive invariant: insertion order is a strict order of the entries.
Ranked ==
  /\ older \subseteq Live \X Live
  /\ StrictOrder(older, Live)
  /\ Cardinality(Live) <= MaxNegative

LEMMA NegKeysFinite == IsFiniteSet(NegKeys)
<1>1. IsFiniteSet({NoKid})
  BY FS_Singleton
<1>2. IsFiniteSet(Kids \cup {NoKid})
  BY <1>1, KidsAssumption, FS_Union
<1> QED
  BY <1>2, KidsAssumption, FS_Product DEF NegKeys

LEMMA LiveFinite == IsFiniteSet(Live) /\ Cardinality(Live) \in Nat
<1>1. Live \in SUBSET NegKeys
  BY DEF Live
<1> QED
  BY <1>1, NegKeysFinite, FS_Subset, FS_CardinalityType

LEMMA InitRanked == Init => Ranked
<1> SUFFICES ASSUME Init PROVE Ranked
  OBVIOUS
<1>1. Live = {}
  BY DEF Init, Live
<1> QED
  BY <1>1, FS_EmptySet, TimeAssumption DEF Init, Ranked, StrictOrder

LEMMA RetainRanked ==
  ASSUME TypeOK, Ranked, NEW S, Retain(S)
  PROVE  Ranked'
<1>1. Live' = Live \cap S
  BY DEF Retain, Live, TypeOK
<1>2. older' = older \cap (S \X S)
  BY DEF Retain
<1>3. Live' \subseteq Live /\ older' \subseteq Live' \X Live'
  BY <1>1, <1>2 DEF Ranked
<1>4. StrictOrder(older', Live')
  <2>1. \A m, n \in Live' : <<m, n>> \in older' <=> <<m, n>> \in older
    BY <1>1, <1>2
  <2> QED
    BY <1>3, <2>1 DEF Ranked, StrictOrder
<1>5. Cardinality(Live') <= Cardinality(Live) /\ Cardinality(Live') \in Nat
  BY <1>3, LiveFinite, FS_Subset, FS_CardinalityType
<1>6. Cardinality(Live') <= MaxNegative
  BY <1>5, LiveFinite, TimeAssumption DEF Ranked
<1> QED
  BY <1>3, <1>4, <1>6 DEF Ranked

LEMMA RememberRanked ==
  ASSUME TypeOK, Ranked, NEW n \in NegKeys, NEW t \in Nat, RememberNegative(n, t)
  PROVE  Ranked'
<1> DEFINE kept == Room(t)
           fresh == IF Cardinality(Live) >= MaxNegative
                    THEN {m \in Live : negative[m] > t} ELSE Live
<1>1. fresh \subseteq Live /\ kept \subseteq fresh
  BY DEF Room
<1>2. MaxNegative - 1 \in Nat /\ MaxNegative \in Nat
  BY TimeAssumption
<1>3. IsFiniteSet(kept) /\ Cardinality(kept) <= MaxNegative - 1
  <2>1. IsFiniteSet(fresh)
    BY <1>1, LiveFinite, FS_Subset
  <2>2. StrictOrder(older, fresh)
    BY <1>1 DEF Ranked, StrictOrder
  <2>3. kept = {a \in fresh : Cardinality({m \in fresh : <<a, m>> \in older}) < MaxNegative - 1}
    BY DEF Room
  <2> HIDE DEF fresh, kept
  <2> QED
    BY <1>2, <2>1, <2>2, <2>3, LastFew
<1>4. Live' = kept \cup {n}
  <2>1. t + NegTTL # 0
    BY TimeAssumption
  <2>2. \A m \in kept : m \in NegKeys /\ negative[m] # 0
    BY <1>1 DEF Live
  <2>3. negative' = [m \in NegKeys |-> IF m = n THEN t + NegTTL
                                       ELSE IF m \in kept THEN negative[m] ELSE 0]
    BY DEF RememberNegative
  <2> HIDE DEF kept
  <2> QED
    BY <2>1, <2>2, <2>3 DEF Live
<1>5. older' = (older \cap (kept \X kept)) \cup (IF n \in kept THEN {} ELSE kept \X {n})
  BY DEF RememberNegative
<1> HIDE DEF fresh, kept
<1>6. Cardinality(Live') <= MaxNegative
  <2>1. Cardinality(kept) \in Nat
    BY <1>3, FS_CardinalityType
  <2>2. Cardinality(kept \cup {n}) <= Cardinality(kept) + 1
    BY <1>3, <2>1, FS_AddElement
  <2>3. Cardinality(kept \cup {n}) \in Nat
    BY <1>3, FS_AddElement, FS_CardinalityType
  <2> QED
    BY <1>2, <1>3, <1>4, <2>1, <2>2, <2>3
<1>7. older' \subseteq Live' \X Live'
  BY <1>4, <1>5
<1>8. StrictOrder(older', Live')
  <2>0. StrictOrder(older, kept)
    BY <1>1 DEF Ranked, StrictOrder
  <2>1. CASE n \in kept
    <3>1. Live' = kept /\ \A a, b \in kept : <<a, b>> \in older' <=> <<a, b>> \in older
      BY <1>4, <1>5, <2>1
    <3> QED
      BY <2>0, <3>1 DEF StrictOrder
  <2>2. CASE n \notin kept
    <3>1. \A a, b \in kept : <<a, b>> \in older' <=> <<a, b>> \in older
      BY <1>5, <2>2
    <3>2. \A a \in kept : <<a, n>> \in older' /\ <<n, a>> \notin older'
      BY <1>5, <2>2
    <3>3. <<n, n>> \notin older'
      BY <1>5, <2>2
    <3> DEFINE new == kept \cup {n}
    <3>4. \A a \in new : <<a, a>> \notin older'
      BY <2>0, <3>1, <3>3 DEF StrictOrder
    <3>5. \A a, b \in new : a # b => <<a, b>> \in older' \/ <<b, a>> \in older'
      BY <2>0, <3>1, <3>2 DEF StrictOrder
    <3>6. ASSUME NEW a \in new, NEW b \in new, NEW c \in new,
                 <<a, b>> \in older', <<b, c>> \in older'
          PROVE  <<a, c>> \in older'
      <4>1. a \in kept /\ b \in kept
        BY <3>2, <3>3, <3>6
      <4>2. CASE c = n
        BY <3>2, <4>1, <4>2
      <4>3. CASE c \in kept
        BY <2>0, <3>1, <3>6, <4>1, <4>3 DEF StrictOrder
      <4> QED
        BY <4>2, <4>3
    <3> QED
      BY <1>4, <3>4, <3>5, <3>6 DEF StrictOrder
  <2> QED
    BY <2>1, <2>2
<1> QED
  BY <1>6, <1>7, <1>8 DEF Ranked

\* All writes to the negative map.
LEMMA WhoWritesTheMap ==
  ASSUME TypeOK, NEW r \in Requests, Step(r)
  PROVE  \/ UNCHANGED <<negative, older>>
         \/ \E S : Retain(S)
         \/ \E n \in NegKeys, t \in Nat : RememberNegative(n, t)
<1>1. CASE Lookup(r)
  <2>1. LookupRevoked(r) \/ LookupKidNegative(r) => UNCHANGED <<negative, older>>
    BY DEF LookupRevoked, LookupKidNegative, shared
  <2>2. LookupIssuerNegative(r) \/ LookupHit(r) \/ LookupJoin(r) \/ LookupLoad(r) => Consult(r)
    BY DEF LookupIssuerNegative, LookupHit, LookupJoin, LookupLoad
  <2> QED
    BY <1>1, <2>1, <2>2 DEF Lookup, Consult
<1>2. CASE RememberMissing(r)
  BY <1>2, TokenTypes DEF RememberMissing, TypeOK
<1>3. CASE LoadStep(r)
  <2>1. LoadSucceeds(r) => Retain(Live \ {IssuerEntry(Iss(r))})
    BY DEF LoadSucceeds
  <2>2. LoadUnavailable(r) => \E n \in NegKeys, t \in Nat : RememberNegative(n, t)
    BY TokenTypes DEF LoadUnavailable, TypeOK
  <2> QED
    BY <1>3, <2>1, <2>2 DEF LoadStep, UpstreamAnswers, LoadRejected, LoadCut, shared
<1> QED
  BY <1>1, <1>2, <1>3 DEF Step, Arrive, ImportFails, Verify, Retry, GiveUp, Abort, shared

LEMMA NextRanked ==
  ASSUME TypeOK, Ranked, [Next]_vars
  PROVE  Ranked'
<1>1. CASE UNCHANGED <<negative, older>>
  <2>1. Live' = Live
    BY <1>1 DEF Live
  <2> QED
    BY <1>1, <2>1 DEF Ranked
<1>2. CASE \E r \in Requests : Step(r)
  BY <1>1, <1>2, WhoWritesTheMap, RetainRanked, RememberRanked
<1> QED
  BY <1>1, <1>2 DEF Next, Publish, Tick, vars, shared

\* The negative map stays within its cap and its order ranks all its entries,
\* whichever entries expire, are dropped, renewed or evicted (rememberNegative).
THEOREM NegativeIsCapped == Spec => []NegativeCapped
<1>1. Init => Ranked
  BY InitRanked
<1>2. TypeOK /\ Ranked /\ [Next]_vars => Ranked'
  BY NextRanked
<1>3. Ranked => NegativeCapped
  BY DEF Ranked, StrictOrder, NegativeCapped
<1> QED
  BY <1>1, <1>2, <1>3, TypeCorrect, PTL DEF Spec

-----------------------------------------------------------------------------
(* Proofs about JwksCacheLoad: how often an issuer is asked and when an    *)
(* outage is held against a request.                                       *)

LEMMA SpacingLeast ==
  Spacing \in Nat /\ Spacing <= TTL /\ Spacing <= NegTTL /\ Spacing <= Cooldown
<1> DEFINE S == {TTL, NegTTL, Cooldown}
<1>1. S \subseteq Nat
  BY TimeAssumption
<1>2. \E t \in S : \A u \in S : t <= u
  <2>1. TTL \in Nat /\ NegTTL \in Nat /\ Cooldown \in Nat
    BY TimeAssumption
  <2> QED
    BY <2>1
<1>3. Least(S) \in S /\ \A u \in S : Least(S) <= u
  BY <1>2 DEF Least
<1> QED
  BY <1>1, <1>3 DEF Spacing

-----------------------------------------------------------------------------
(* What a step of the cache may do to one request.                         *)

Untouched(r) == UNCHANGED <<pc[r], stage[r], start[r], waitOn[r]>>

\* The load r waits for brings a set.
Served(r) ==
  waitOn[r] \in Requests /\ r \in Waiters(waitOn[r]) /\ LoadSucceeds(waitOn[r])

LEMMA FinishMoves ==
  ASSUME TypeOK, NEW R, NEW code, Finish(R, code), NEW r \in Requests
  PROVE  Untouched(r) \/ pc'[r] = "done"
BY FinishEffect DEF Untouched

LEMMA LookupMoves ==
  ASSUME TypeOK, NEW q \in Requests, Lookup(q), NEW r \in Requests
  PROVE  \/ Untouched(r) \/ pc'[r] = "done"
         \/ LookupHit(r) \/ LookupJoin(r) \/ LookupLoad(r)
<1>1. CASE LookupRevoked(q) \/ LookupKidNegative(q) \/ LookupIssuerNegative(q)
  BY <1>1, FinishMoves DEF LookupRevoked, LookupKidNegative, LookupIssuerNegative
<1>2. CASE q = r
  BY <1>1, <1>2 DEF Lookup
<1>3. CASE q # r /\ LookupHit(q)
  <2>1. cache[Iss(q)].keys \in KeySets
    BY TokenTypes DEF TypeOK
  <2> QED
    BY <1>3, <2>1, DeliverEffect DEF LookupHit, Untouched
<1>4. CASE q # r /\ (LookupJoin(q) \/ LookupLoad(q))
  BY <1>4 DEF LookupJoin, LookupLoad, Untouched, TypeOK
<1> QED
  BY <1>1, <1>2, <1>3, <1>4 DEF Lookup

LEMMA LoadMoves ==
  ASSUME TypeOK, NEW o \in Requests, LoadStep(o), NEW r \in Requests
  PROVE  Untouched(r) \/ pc'[r] = "done" \/ Served(r)
<1>1. CASE UpstreamAnswers(o)
  BY <1>1 DEF UpstreamAnswers, Untouched
<1>2. CASE LoadSucceeds(o)
  <2>1. load[o].doc \in KeySets
    BY DEF TypeOK
  <2>2. CASE r \in Waiters(o)
    BY <1>2, <2>2 DEF Served, Waiters
  <2>3. CASE r \notin Waiters(o)
    BY <1>2, <2>1, <2>3, DeliverEffect DEF LoadSucceeds, Untouched
  <2> QED
    BY <2>2, <2>3
<1>3. CASE LoadUnavailable(o) \/ LoadRejected(o) \/ LoadCut(o)
  BY <1>3, FinishMoves DEF LoadUnavailable, LoadRejected, LoadCut
<1> QED
  BY <1>1, <1>2, <1>3 DEF LoadStep

LEMMA Moves ==
  ASSUME TypeOK, NextL, NEW r \in Requests
  PROVE  \/ Untouched(r) \/ pc'[r] = "done" \/ Served(r)
         \/ Arrive(r) \/ LookupHit(r) \/ LookupJoin(r) \/ LookupLoad(r) \/ Retry(r)
<1>1. CASE \E q \in Requests : Step(q)
  <2>1. PICK q \in Requests : Step(q)
    BY <1>1
  <2>2. CASE Lookup(q)
    BY <2>2, LookupMoves
  <2>3. CASE LoadStep(q)
    BY <2>3, LoadMoves
  <2>4. CASE Arrive(q) \/ Retry(q)
    <3>1. CASE q = r
      BY <2>4, <3>1
    <3>2. CASE q # r
      BY <2>4, <3>2 DEF Arrive, Retry, Untouched, TypeOK
    <3> QED
      BY <3>1, <3>2
  <2>5. CASE RememberMissing(q) \/ ImportFails(q) \/ Verify(q) \/ GiveUp(q) \/ Abort(q)
    BY <2>5, FinishMoves DEF RememberMissing, ImportFails, Verify, GiveUp, Abort
  <2> QED
    BY <2>1, <2>2, <2>3, <2>4, <2>5 DEF Step
<1>2. CASE Tick \/ \E i \in Issuers, k \in Kids, x \in Keys \cup {NoKey} : Publish(i, k, x)
  BY <1>2 DEF Tick, Publish, request, Untouched
<1> QED
  BY <1>1, <1>2 DEF NextL, Next

-----------------------------------------------------------------------------
(* What it may do to what an issuer's requests share.                      *)

\* Only a load starts as one, and it starts from nothing.
LEMMA WhoStarts ==
  ASSUME TypeOK, Next, NEW r \in Requests, Starts(r)
  PROVE  LookupLoad(r)
<1>1. load'[r] # load[r] /\ load'[r].state = "fetching" /\ load'[r] # NoLoad
  BY NoLoadType DEF Starts
<1>2. PICK q \in Requests : Step(q)
  BY <1>1 DEF Next, Publish, Tick, request
<1>3. CASE Lookup(q)
  <2>1. LookupLoad(q)
    BY <1>1, <1>3 DEF Lookup, LookupRevoked, LookupKidNegative, LookupIssuerNegative, LookupHit,
                      LookupJoin
  <2>2. q = r
    BY <1>1, <2>1 DEF LookupLoad, TypeOK
  <2> QED
    BY <2>1, <2>2
<1>4. CASE LoadStep(q)
  <2>1. CASE UpstreamAnswers(q)
    <3>1. load' = [load EXCEPT ![q] = [state |-> "answered", doc |-> upstream[Iss(q)]]]
      BY <2>1 DEF UpstreamAnswers
    <3> QED
      BY <1>1, <3>1 DEF TypeOK
  <2>2. CASE Settle(q)
    BY <1>1, <2>2 DEF Settle, TypeOK
  <2> QED
    BY <1>4, <2>1, <2>2 DEF LoadStep, LoadSucceeds, LoadUnavailable, LoadRejected, LoadCut
<1> QED
  BY <1>1, <1>2, <1>3, <1>4 DEF Step, Arrive, RememberMissing, ImportFails, Verify, Retry, GiveUp,
                               Abort

LEMMA LoadStarts ==
  ASSUME TypeOK, NEW r \in Requests, Owned(r), LookupLoad(r)
  PROVE  Starts(r)
<1>1. pc[r] = "lookup"
  BY DEF LookupLoad, Consult
<1>2. load[r].state = "none"
  BY <1>1 DEF Owned, OwnerLives
<1> QED
  BY <1>2 DEF LookupLoad, Starts, TypeOK

LEMMA FetchesCounted ==
  ASSUME TypeOK, HistoryType, NextL, NEW r \in Requests
  PROVE  /\ fetches'[r] \in Nat /\ fetches'[r] <= fetches[r] + 1
         /\ ~LookupLoad(r) => fetches'[r] = fetches[r]
<1>1. fetches'[r] = fetches[r] + IF Starts(r) THEN 1 ELSE 0
  BY DEF NextL
<1>2. fetches[r] \in Nat
  BY DEF HistoryType
<1>3. Starts(r) => LookupLoad(r)
  BY WhoStarts DEF NextL
<1> QED
  BY <1>1, <1>2, <1>3

\* Time passes, sets get newer and the cooldown gets longer.
Onward(i) ==
  /\ clock' >= clock
  /\ cache'[i].expiresAt >= cache[i].expiresAt
  /\ nextForced'[i] >= nextForced[i]

LEMMA NextOnward ==
  ASSUME TypeOK, TypeOK', Explained, Next, NEW i \in Issuers, nextForced[i] <= clock + Cooldown
  PROVE  Onward(i) /\ nextForced'[i] <= clock' + Cooldown /\ UNCHANGED token
<1> USE ConstantTypes
<1>1. clock \in Nat /\ cache[i].expiresAt \in Nat /\ nextForced[i] \in Nat
  BY DEF TypeOK
<1>2. CASE Tick
  BY <1>1, <1>2 DEF Tick, shared, Onward
<1>3. CASE \E j \in Issuers, k \in Kids, x \in Keys \cup {NoKey} : Publish(j, k, x)
  BY <1>1, <1>3 DEF Publish, shared, Onward
<1>4. CASE \E q \in Requests : Step(q)
  <2>1. PICK q \in Requests : Step(q)
    BY <1>4
  <2>2. UNCHANGED <<clock, token>>
    BY <2>1 DEF Step, Lookup, LoadStep, Arrive, LookupRevoked, LookupKidNegative,
       LookupIssuerNegative, LookupHit, LookupJoin, LookupLoad, RememberMissing, UpstreamAnswers,
       LoadSucceeds, LoadUnavailable, LoadRejected, LoadCut, ImportFails, Verify, Retry, GiveUp,
       Abort
  <2>3. nextForced'[i] >= nextForced[i] /\ nextForced'[i] <= clock + Cooldown
    <3>1. CASE LookupLoad(q)
      BY <1>1, <3>1 DEF LookupLoad, TypeOK
    <3>2. CASE UNCHANGED nextForced
      BY <1>1, <3>2
    <3> QED
      BY <2>1, <3>1, <3>2 DEF Step, Lookup, LoadStep, Arrive, LookupRevoked, LookupKidNegative,
       LookupIssuerNegative, LookupHit, LookupJoin, RememberMissing, UpstreamAnswers,
       LoadSucceeds, LoadUnavailable, LoadRejected, LoadCut, ImportFails, Verify, Retry, GiveUp,
       Abort, shared
  <2>4. cache'[i].expiresAt >= cache[i].expiresAt
    <3>1. CASE UNCHANGED cache
      BY <1>1, <3>1
    <3>2. CASE LoadSucceeds(q)
      <4>1. /\ cache' = [cache EXCEPT ![Iss(q)] =
                          [keys |-> load[q].doc, expiresAt |-> at[q] + TTL]]
            /\ cache[Iss(q)].expiresAt <= at[q] + TTL
        BY <3>2 DEF LoadSucceeds, Entry, Explained, NotOvertaken
      <4>2. CASE i = Iss(q)
        <5>1. cache'[i].expiresAt = at[q] + TTL
          BY <4>1, <4>2 DEF TypeOK
        <5> QED
          BY <4>1, <4>2, <5>1
      <4>3. CASE i # Iss(q)
        <5>1. cache'[i] = cache[i]
          BY <4>1, <4>3 DEF TypeOK
        <5> QED
          BY <1>1, <5>1
      <4> QED
        BY <4>2, <4>3
    <3> QED
      BY <2>1, <3>1, <3>2, WhoWritesTheCache
  <2> QED
    BY <1>1, <2>2, <2>3, <2>4 DEF Onward
<1> QED
  BY <1>2, <1>3, <1>4 DEF Next

-----------------------------------------------------------------------------
(* The loads of one request.                                               *)

LEMMA TimesTyped ==
  ASSUME TypeOK, HistoryType, NEW r \in Requests
  PROVE  /\ clock \in Nat /\ start[r] \in Nat /\ at[r] \in Nat /\ fetches[r] \in Nat
         /\ cache[Iss(r)].expiresAt \in Nat /\ nextForced[Iss(r)] \in Nat
         /\ Iss(r) \in Issuers
BY TokenTypes DEF TypeOK, HistoryType

LEMMA ProvidedKept ==
  ASSUME TypeOK, TypeOK', HistoryType, HistoryType', NEW r \in Requests, Onward(Iss(r)),
         UNCHANGED <<token, start[r]>>
  PROVE  Provided(r) => Provided(r)'
<1>1. Iss(r)' = Iss(r)
  BY DEF Iss
<1>2. cache'[Iss(r)].expiresAt \in Nat /\ nextForced'[Iss(r)] \in Nat
  BY TimesTyped DEF TypeOK
<1> QED
  BY <1>1, <1>2, TimesTyped, ConstantTypes DEF Provided, Onward

\* A request that has been provided for is served: it starts no load.
LEMMA ProvidedIsServed ==
  ASSUME TypeOK, HistoryType, Explained, NEW r \in Requests, Provided(r), pc[r] \in Active
  PROVE  Servable(r)
<1>1. clock <= start[r] + Deadline
  BY DEF Explained, Timely
<1> QED
  BY <1>1, TimesTyped, ConstantTypes, CooldownAssumption, TimeAssumption
  DEF Provided, Servable, Fresh

LEMMA FrugalKept ==
  ASSUME TypeOK, TypeOK', HistoryType, HistoryType', Explained, NextL,
         NEW r \in Requests, Frugal(r), Onward(Iss(r)), UNCHANGED token
  PROVE  Frugal(r)'
<1> USE TimesTyped
<1>i. Iss(r)' = Iss(r) /\ Iss(r) \in Issuers
  BY DEF Iss
<1>t. /\ pc[r] \in Active \cup {"idle", "done"} /\ pc'[r] \in Active \cup {"idle", "done"}
      /\ stage[r] \in Stages /\ stage'[r] \in Stages
  BY DEF TypeOK
<1>f. /\ fetches'[r] \in Nat /\ fetches[r] \in Nat /\ fetches'[r] <= fetches[r] + 1
      /\ ~LookupLoad(r) => fetches'[r] = fetches[r]
  BY FetchesCounted
<1>g. nextForced'[Iss(r)] >= nextForced[Iss(r)]
  BY DEF Onward
<1>m. \/ Untouched(r) \/ pc'[r] = "done" \/ Served(r)
      \/ Arrive(r) \/ LookupHit(r) \/ LookupJoin(r) \/ LookupLoad(r) \/ Retry(r)
  BY Moves
<1>1. CASE LookupLoad(r)
  <2>1. /\ pc[r] = "lookup" /\ ~Servable(r) /\ pc'[r] = "waiting" /\ waitOn'[r] = r
        /\ stage'[r] = stage[r] /\ start'[r] = start[r]
        /\ stage[r] # "plain" => nextForced'[Iss(r)] = clock + Cooldown
    BY <1>1, <1>i DEF LookupLoad, Consult, TypeOK
  <2>2. ~Provided(r)
    BY <2>1, ProvidedIsServed
  <2>3. start[r] <= clock
    BY <2>1 DEF Explained, Timely
  <2>4. fetches[r] = 0 \/ (stage[r] # "plain" /\ fetches[r] <= 1)
    BY <2>1, <2>2 DEF Frugal
  <2>5. stage[r] = "forced" => nextForced'[Iss(r)] >= start[r] + Cooldown
    BY <2>1, <2>3, ConstantTypes
  <2> QED
    BY <1>f, <1>i, <1>t, <2>1, <2>4, <2>5 DEF Frugal
<1> SUFFICES ASSUME fetches'[r] = fetches[r] PROVE Frugal(r)'
  BY <1>1, <1>f
<1>2. CASE Untouched(r)
  <2>1. Provided(r) => Provided(r)'
    BY <1>2, ProvidedKept DEF Untouched
  <2>2. nextForced[Iss(r)] >= start[r] + Cooldown => nextForced'[Iss(r)] >= start[r] + Cooldown
    BY <1>g, <1>i, ConstantTypes DEF TypeOK
  <2> QED
    BY <1>2, <1>i, <2>1, <2>2 DEF Frugal, Untouched
<1>3. CASE pc'[r] = "done"
  BY <1>3 DEF Frugal
<1>4. CASE Served(r)
  <2> DEFINE o == waitOn[r]
  <2>1. o \in Requests /\ pc[r] = "waiting"
    BY <1>4 DEF Served, Waiters
  <2>2. load[o].doc \in KeySets
    BY <2>1 DEF TypeOK
  <2>3. LoadSucceeds(o) /\ r \in Waiters(o)
    BY <1>4 DEF Served
  <2> HIDE DEF o
  <2>4. \/ pc'[r] = "verifying" /\ stage'[r] = stage[r]
        \/ pc'[r] = "missing"
        \/ pc'[r] = "lookup" /\ stage[r] = "plain" /\ stage'[r] = "forced"
    BY <2>3 DEF LoadSucceeds, Deliver, TypeOK
  <2>5. start'[r] = start[r] /\ nextForced' = nextForced
    BY <2>3 DEF LoadSucceeds
  <2>6. CASE stage[r] = "forced" /\ fetches[r] = 2
    <3>1. waitOn[r] = r /\ nextForced[Iss(r)] >= start[r] + Cooldown
      BY <2>1, <2>6 DEF Frugal
    <3>2. o = r
      BY <3>1 DEF o
    <3>3. cache'[Iss(r)].expiresAt = at[r] + TTL
      BY <1>i, <2>3, <3>2 DEF LoadSucceeds, Entry, TypeOK
    <3>4. start[r] <= at[r]
      BY <2>1 DEF Explained, Timely
    <3>5. Provided(r)'
      BY <1>i, <2>5, <3>1, <3>3, <3>4, ConstantTypes DEF Provided
    <3> QED
      BY <2>4, <2>6, <3>5 DEF Frugal
  <2>7. CASE stage[r] # "forced" \/ fetches[r] # 2
    BY <1>f, <1>t, <2>1, <2>4, <2>7 DEF Frugal
  <2> QED
    BY <2>6, <2>7
<1>5. CASE Arrive(r)
  BY <1>5, <1>t DEF Arrive, Frugal, TypeOK
<1>6. CASE LookupHit(r)
  <2>1. /\ pc[r] = "lookup"
        /\ \/ pc'[r] = "verifying" /\ stage'[r] = stage[r]
           \/ pc'[r] = "missing"
           \/ pc'[r] = "lookup" /\ stage[r] = "plain" /\ stage'[r] = "forced"
    BY <1>6 DEF LookupHit, Consult, Deliver, TypeOK
  <2> QED
    BY <1>f, <1>t, <2>1 DEF Frugal
<1>7. CASE LookupJoin(r)
  <2>1. pc[r] = "lookup" /\ pc'[r] = "waiting" /\ stage'[r] = stage[r]
    BY <1>7 DEF LookupJoin, Consult, TypeOK
  <2> QED
    BY <1>f, <1>t, <2>1 DEF Frugal
<1>8. CASE Retry(r)
  <2>1. /\ pc[r] = "verifying" /\ pc'[r] = "lookup" /\ stage'[r] = "retry" /\ stage[r] # "retry"
        /\ start'[r] = start[r]
    BY <1>8 DEF Retry, TypeOK
  <2>2. Provided(r) => Provided(r)'
    BY <2>1, ProvidedKept
  <2> QED
    BY <1>f, <1>t, <2>1, <2>2 DEF Frugal
<1> QED
  BY <1>1, <1>2, <1>3, <1>4, <1>5, <1>6, <1>7, <1>8, <1>m

\* A request that is neither the owner nor a waiter of a load keeps it.
LEMMA OwnedKept ==
  ASSUME TypeOK, TypeOK', Explained, NextL, \A q \in Requests : Owned(q), NEW r \in Requests
  PROVE  Owned(r)'
<1> SUFFICES ASSUME load'[r].state # "none" PROVE OwnerLives(r)' \/ pc'[r] = "done"
  BY DEF Owned
<1>1. CASE LookupLoad(r)
  BY <1>1 DEF LookupLoad, OwnerLives, TypeOK
<1>2. load[r].state # "none" \/ LookupLoad(r)
  <2>1. CASE UNCHANGED load
    BY <2>1
  <2>2. CASE \E q \in Requests : LoadStep(q)
    <3>1. PICK q \in Requests : LoadStep(q)
      BY <2>2
    <3>2. CASE UpstreamAnswers(q)
      BY <3>2 DEF UpstreamAnswers, TypeOK
    <3>3. CASE Settle(q)
      BY <3>3, NoLoadType DEF Settle, TypeOK
    <3> QED
      BY <3>1, <3>2, <3>3 DEF LoadStep, LoadSucceeds, LoadUnavailable, LoadRejected, LoadCut
  <2>3. CASE \E q \in Requests : LookupLoad(q)
    <3>1. PICK q \in Requests : LookupLoad(q)
      BY <2>3
    <3>2. q # r => load'[r] = load[r]
      BY <3>1 DEF LookupLoad, TypeOK
    <3> QED
      BY <3>1, <3>2
  <2> QED
    BY <2>1, <2>2, <2>3 DEF NextL, Next, Step, Lookup, Arrive, LookupRevoked, LookupKidNegative,
       LookupIssuerNegative, LookupHit, LookupJoin, RememberMissing, ImportFails, Verify, Retry,
       GiveUp, Abort, Publish, Tick, request
<1>3. CASE load[r].state # "none"
  <2>1. OwnerLives(r) \/ pc[r] = "done"
    BY <1>3 DEF Owned
  <2>2. ~Served(r)
    <3> SUFFICES ASSUME Served(r) PROVE FALSE
      OBVIOUS
    <3>1. OwnerLives(r)
      BY <2>1 DEF Served, Waiters
    <3>2. LoadSucceeds(r)
      BY <3>1 DEF Served, OwnerLives
    <3> QED
      BY <3>2, NoLoadType DEF LoadSucceeds, Settle, TypeOK
  <2>3. Untouched(r) \/ pc'[r] = "done" \/ LookupLoad(r)
    BY <2>1, <2>2, Moves
    DEF OwnerLives, Arrive, LookupHit, LookupJoin, Consult, Retry
  <2> QED
    BY <1>1, <2>1, <2>3 DEF OwnerLives, Untouched
<1> QED
  BY <1>1, <1>2, <1>3

\* Requests arrive after the epoch.
LEMMA StartKept ==
  ASSUME TypeOK, TypeOK', Explained, NextL, NEW r \in Requests,
         pc[r] \in Active => start[r] >= 1
  PROVE  (pc[r] \in Active => start[r] >= 1)'
<1> SUFFICES ASSUME pc'[r] \in Active PROVE start'[r] >= 1
  OBVIOUS
<1>1. CASE Arrive(r)
  BY <1>1 DEF Arrive, Explained, Timely, TypeOK
<1>2. CASE Untouched(r)
  BY <1>2 DEF Untouched
<1>3. CASE Served(r) \/ LookupHit(r) \/ LookupJoin(r) \/ LookupLoad(r) \/ Retry(r)
  BY <1>3 DEF Served, Waiters, LoadSucceeds, LookupHit, LookupJoin, LookupLoad, Consult, Retry,
              TypeOK
<1> QED
  BY <1>1, <1>2, <1>3, Moves

-----------------------------------------------------------------------------
(* The loads of one issuer.                                                *)

IssuerDown(i) == \E o \in Requests : Iss(o) = i /\ LoadUnavailable(o)
IssuerServes(i) == \E o \in Requests : Iss(o) = i /\ LoadSucceeds(o)

LEMMA IssuerEntryType ==
  ASSUME NEW i \in Issuers
  PROVE  /\ IssuerEntry(i) \in NegKeys
         /\ \A j : IssuerEntry(j) = IssuerEntry(i) => j = i
         /\ TypeOK => negative[IssuerEntry(i)] \in Nat
                        /\ \A r \in Requests : KidEntry(r) # IssuerEntry(i)
BY KidsAssumption DEF IssuerEntry, KidEntry, Kid, TypeOK

\* Only an outage of i writes its entry; everything else leaves or drops it.
LEMMA EntryMoves ==
  ASSUME TypeOK, NextL, NEW i \in Issuers, ~IssuerDown(i)
  PROVE  negative'[IssuerEntry(i)] \in {negative[IssuerEntry(i)], 0}
<1> DEFINE e == IssuerEntry(i)
<1>e. e \in NegKeys
  BY IssuerEntryType
<1>1. ASSUME NEW S, Retain(S) PROVE negative'[e] \in {negative[e], 0}
  BY <1>1, <1>e DEF Retain
<1>2. ASSUME NEW n, NEW t, n # e, RememberNegative(n, t) PROVE negative'[e] \in {negative[e], 0}
  <2> HIDE DEF e
  <2> QED
    BY <1>2, <1>e DEF RememberNegative
<1>3. CASE \E q \in Requests : Step(q)
  <2>1. PICK q \in Requests : Step(q)
    BY <1>3
  <2>2. CASE Lookup(q)
    <3>1. UNCHANGED negative \/ Retain(Live \ Expired(q))
      BY <2>2 DEF Lookup, LookupRevoked, LookupKidNegative, LookupIssuerNegative, LookupHit,
                  LookupJoin, LookupLoad, Consult, shared
    <3> QED
      BY <1>1, <3>1
  <2>3. CASE RememberMissing(q)
    BY <1>2, <2>3, IssuerEntryType DEF RememberMissing
  <2>4. CASE LoadSucceeds(q)
    BY <1>1, <2>4 DEF LoadSucceeds
  <2>5. CASE LoadUnavailable(q)
    <3>1. Iss(q) # i
      BY <2>5 DEF IssuerDown
    <3>2. IssuerEntry(Iss(q)) # e
      BY <3>1, IssuerEntryType
    <3> QED
      BY <1>2, <2>5, <3>2 DEF LoadUnavailable
  <2> QED
    BY <2>1, <2>2, <2>3, <2>4, <2>5
    DEF Step, Arrive, LoadStep, UpstreamAnswers, LoadRejected, LoadCut, ImportFails, Verify,
        Retry, GiveUp, Abort, shared
<1> QED
  BY <1>3 DEF NextL, Next, Publish, Tick, shared

LEMMA DownEntry ==
  ASSUME TypeOK, NEW o \in Requests, LoadUnavailable(o)
  PROVE  negative'[IssuerEntry(Iss(o))] = at[o] + NegTTL
BY TokenTypes DEF LoadUnavailable, RememberNegative, TypeOK

LEMMA ServedEntry ==
  ASSUME TypeOK, NEW o \in Requests, LoadSucceeds(o)
  PROVE  negative'[IssuerEntry(Iss(o))] = 0
BY TokenTypes DEF LoadSucceeds, Retain, TypeOK

\* The load in flight, if any, goes on.
Calm(i) ==
  /\ inFlight'[i] = inFlight[i]
  /\ inFlight[i] # NoReq => at'[inFlight[i]] = at[inFlight[i]]

\* The owner whose load is in flight, and nobody else, releases it.
LEMMA ReleaseEffect ==
  ASSUME TypeOK, Explained, NEW o \in Requests, inFlight' = Released(o), NEW i \in Issuers
  PROVE  /\ Iss(o) = i => inFlight'[i] \in {inFlight[i], NoReq}
         /\ Iss(o) = i /\ OwnerLives(o) => inFlight[i] = o /\ inFlight'[i] = NoReq
         /\ Iss(o) # i \/ ~OwnerLives(o) => inFlight[i] # o /\ inFlight'[i] = inFlight[i]
BY RequestsAssumption DEF Released, TypeOK, Explained, SingleFlight

LEMMA IssuerMoves ==
  ASSUME TypeOK, Explained, NextL, NEW i \in Issuers
  PROVE  \/ Calm(i) \/ IssuerDown(i) \/ IssuerServes(i) \/ Forgotten(i)
         \/ \E r \in Requests : Iss(r) = i /\ LookupLoad(r)
<1> DEFINE f == inFlight[i]
<1>f. f # NoReq => /\ f \in Requests /\ Iss(f) = i /\ OwnerLives(f)
                   /\ pc[f] = "waiting" /\ waitOn[f] = f
  BY DEF TypeOK, Explained, SingleFlight, OwnerLives
<1> SUFFICES ASSUME ~Calm(i) PROVE
       \/ IssuerDown(i) \/ IssuerServes(i) \/ Forgotten(i)
       \/ \E r \in Requests : Iss(r) = i /\ LookupLoad(r)
  OBVIOUS
<1>1. PICK q \in Requests : Step(q)
  BY DEF NextL, Next, Publish, Tick, shared, request, Calm
<1>2. ASSUME NEW R, NEW code, Finish(R, code), f # NoReq, f \notin R
      PROVE  at'[f] = at[f]
  BY <1>2, <1>f, FinishEffect
<1> HIDE DEF f
<1>3. CASE Lookup(q)
  <2>1. f # NoReq => q # f
    BY <1>3, <1>f DEF Lookup, LookupRevoked, LookupKidNegative, LookupIssuerNegative, LookupHit,
              LookupJoin, LookupLoad, Consult
  <2>2. f # NoReq => at'[f] = at[f]
    <3>1. CASE LookupRevoked(q) \/ LookupKidNegative(q) \/ LookupIssuerNegative(q)
      BY <1>2, <2>1, <3>1 DEF LookupRevoked, LookupKidNegative, LookupIssuerNegative
    <3>2. CASE LookupHit(q) \/ LookupJoin(q) \/ LookupLoad(q)
      BY <1>f, <2>1, <3>2 DEF LookupHit, LookupJoin, LookupLoad, TypeOK
    <3> QED
      BY <1>3, <3>1, <3>2 DEF Lookup
  <2>3. LookupLoad(q)
    BY <1>3, <2>2 DEF f, Calm, Lookup, LookupRevoked, LookupKidNegative, LookupIssuerNegative,
                      LookupHit, LookupJoin, shared
  <2>4. Iss(q) # i => inFlight'[i] = inFlight[i]
    BY <2>3 DEF LookupLoad, TypeOK
  <2> QED
    BY <2>2, <2>3, <2>4 DEF f, Calm
<1>4. ASSUME NEW R, NEW code, Finish(R, code), R \subseteq Waiters(q), inFlight' = Released(q)
      PROVE  Iss(q) = i /\ OwnerLives(q)
  <2> SUFFICES ASSUME Iss(q) # i \/ ~OwnerLives(q) PROVE FALSE
    OBVIOUS
  <2>1. f # q /\ inFlight'[i] = f
    BY <1>4, ReleaseEffect DEF f
  <2>2. f # NoReq => f \notin Waiters(q)
    BY <1>f, <2>1 DEF Waiters
  <2>3. f # NoReq => at'[f] = at[f]
    BY <1>2, <1>4, <2>2
  <2> QED
    BY <2>1, <2>3 DEF f, Calm
<1>5. CASE LoadStep(q)
  <2>1. CASE UpstreamAnswers(q)
    BY <2>1 DEF UpstreamAnswers, shared, Calm
  <2>2. CASE LoadSucceeds(q)
    <3>1. inFlight' = Released(q) /\ OwnerLives(q) /\ at' = at
      BY <2>2 DEF LoadSucceeds, Settle
    <3>2. Iss(q) = i
      BY <3>1, ReleaseEffect DEF Calm
    <3> QED
      BY <2>2, <3>2 DEF IssuerServes
  <2>3. CASE LoadUnavailable(q)
    BY <1>4, <2>3 DEF LoadUnavailable, Settle, IssuerDown
  <2>4. CASE LoadRejected(q)
    <3>1. Iss(q) = i /\ OwnerLives(q)
      BY <1>4, <2>4 DEF LoadRejected, Settle
    <3>2. q \in Waiters(q)
      BY <3>1 DEF Waiters, OwnerLives
    <3>3. outcome'[q] = "jwks_bad_gateway"
      BY <2>4, <3>2 DEF LoadRejected, Finish, TypeOK
    <3> QED
      BY <3>1, <3>3 DEF Forgotten
  <2>5. CASE LoadCut(q)
    BY <1>4, <2>5 DEF LoadCut, Settle
  <2> QED
    BY <1>5, <2>1, <2>2, <2>3, <2>4, <2>5 DEF LoadStep
<1>6. CASE Abort(q)
  <2>1. Finish({q}, "deadline_exceeded") /\ inFlight' = Released(q)
    BY <1>6 DEF Abort
  <2>2. CASE OwnerLives(q) /\ Iss(q) = i
    <3>1. outcome'[q] = "deadline_exceeded"
      BY <2>1 DEF Finish, TypeOK
    <3> QED
      BY <2>2, <3>1 DEF Forgotten
  <2>3. CASE ~(OwnerLives(q) /\ Iss(q) = i)
    <3>1. f # q /\ inFlight'[i] = f
      BY <2>1, <2>3, ReleaseEffect DEF f
    <3> QED
      BY <1>2, <2>1, <3>1 DEF f, Calm
  <2> QED
    BY <2>2, <2>3
<1>7. CASE RememberMissing(q) \/ ImportFails(q) \/ Verify(q) \/ GiveUp(q)
  <2>1. pc[q] # "waiting" /\ inFlight' = inFlight /\ \E code : Finish({q}, code)
    BY <1>7 DEF RememberMissing, ImportFails, Verify, GiveUp, shared
  <2> QED
    BY <1>2, <1>f, <2>1 DEF f, Calm
<1>8. CASE Arrive(q) \/ Retry(q)
  BY <1>8 DEF Arrive, Retry, shared, Calm
<1> QED
  BY <1>1, <1>3, <1>5, <1>6, <1>7, <1>8 DEF Step

LEMMA IssuerTypes ==
  ASSUME TypeOK, HistoryType, NEW i \in Issuers
  PROVE  /\ clock \in Nat /\ cache[i].expiresAt \in Nat /\ nextForced[i] \in Nat
         /\ negative[IssuerEntry(i)] \in Nat
         /\ last[i] \in Nat /\ before[i] \in Nat /\ outage[i] \in Nat
         /\ inFlight[i] \in Requests \cup {NoReq} /\ \A r \in Requests : at[r] \in Nat
BY IssuerEntryType DEF TypeOK, HistoryType

LEMMA StartsForIff ==
  ASSUME TypeOK, NextL, \A r \in Requests : Owned(r), NEW i \in Issuers
  PROVE  StartsFor(i) <=> \E r \in Requests : Iss(r) = i /\ LookupLoad(r)
BY WhoStarts, LoadStarts DEF StartsFor, NextL

\* A load starts only when what the last one left does not serve any more.
LEMMA LoadFollows ==
  ASSUME TypeOK, HistoryType, NEW r \in Requests, LookupLoad(r), Spaced(Iss(r))
  PROVE  /\ last[Iss(r)] # 0 =>
              \/ clock >= last[Iss(r)] + Spacing
              \/ /\ cache[Iss(r)].expiresAt >= last[Iss(r)] + TTL
                 /\ nextForced'[Iss(r)] = clock + Cooldown
         /\ before[Iss(r)] # 0 => clock >= before[Iss(r)] + Spacing
<1> DEFINE i == Iss(r)
<1>1. /\ i \in Issuers /\ ~IssuerRefused(r) /\ ~Servable(r) /\ inFlight[i] = NoReq
      /\ stage[r] # "plain" => nextForced'[i] = clock + Cooldown
  BY TokenTypes DEF LookupLoad, Consult, TypeOK
<1>2. /\ clock \in Nat /\ cache[i].expiresAt \in Nat /\ nextForced[i] \in Nat
      /\ negative[IssuerEntry(i)] \in Nat /\ last[i] \in Nat /\ before[i] \in Nat
  BY <1>1, IssuerTypes
<1>3. /\ negative[IssuerEntry(i)] <= clock
      /\ \/ cache[i].expiresAt <= clock
         \/ stage[r] # "plain" /\ nextForced[i] <= clock
  BY <1>1, <1>2 DEF IssuerRefused, Servable, Fresh
<1> HIDE DEF i
<1>4. ASSUME last[i] # 0
      PROVE  \/ clock >= last[i] + Spacing
             \/ cache[i].expiresAt >= last[i] + TTL /\ nextForced'[i] = clock + Cooldown
  <2>1. \/ cache[i].expiresAt >= last[i] + TTL
        \/ negative[IssuerEntry(i)] >= last[i] + NegTTL
        \/ clock >= last[i] + NegTTL
    BY <1>1, <1>4 DEF Spaced, Kept, i
  <2> QED
    BY <1>1, <1>2, <1>3, <2>1, SpacingLeast, ConstantTypes
<1>5. ASSUME before[i] # 0 PROVE clock >= before[i] + Spacing
  <2>1. \/ clock >= before[i] + Spacing
        \/ /\ cache[i].expiresAt >= before[i] + TTL
           /\ nextForced[i] >= last[i] + Cooldown /\ before[i] <= last[i]
    BY <1>5 DEF Spaced, i
  <2> QED
    BY <1>2, <1>3, <2>1, SpacingLeast, ConstantTypes
<1> QED
  BY <1>4, <1>5 DEF i

\* What the last load of i left still stands after a step that starts no other.
LEMMA KeptKept ==
  ASSUME TypeOK, TypeOK', Explained, HistoryType, NextL, NEW i \in Issuers, Onward(i),
         Kept(i), last[i] # 0, ~Forgotten(i), last'[i] = last[i],
         ~ \E r \in Requests : Iss(r) = i /\ LookupLoad(r)
  PROVE  Kept(i)'
<1>1. /\ clock \in Nat /\ cache[i].expiresAt \in Nat /\ negative[IssuerEntry(i)] \in Nat
      /\ last[i] \in Nat
      /\ clock' \in Nat /\ cache'[i].expiresAt \in Nat /\ negative'[IssuerEntry(i)] \in Nat
  BY IssuerTypes, IssuerEntryType DEF TypeOK
<1>2. CASE IssuerDown(i)
  <2>1. PICK o \in Requests : Iss(o) = i /\ LoadUnavailable(o)
    BY <1>2 DEF IssuerDown
  <2>2. inFlight[i] = o /\ inFlight'[i] = NoReq
    BY <2>1, ReleaseEffect DEF LoadUnavailable, Settle
  <2>3. at[o] = last[i]
    BY <2>1, <2>2, RequestsAssumption DEF Kept
  <2>4. negative'[IssuerEntry(i)] = last[i] + NegTTL
    BY <2>1, <2>3, DownEntry
  <2>5. IssuerEntry(i)' = IssuerEntry(i)
    BY DEF IssuerEntry
  <2> QED
    BY <1>1, <2>2, <2>4, <2>5, ConstantTypes DEF Kept
<1>3. CASE IssuerServes(i)
  <2>1. PICK o \in Requests : Iss(o) = i /\ LoadSucceeds(o)
    BY <1>3 DEF IssuerServes
  <2>2. inFlight[i] = o /\ inFlight'[i] = NoReq
    BY <2>1, ReleaseEffect DEF LoadSucceeds, Settle
  <2>3. at[o] = last[i]
    BY <2>1, <2>2, RequestsAssumption DEF Kept
  <2>4. cache'[i].expiresAt = last[i] + TTL
    BY <2>1, <2>3 DEF LoadSucceeds, Entry, TypeOK
  <2> QED
    BY <1>1, <2>2, <2>4, ConstantTypes DEF Kept
<1>4. CASE Calm(i) /\ ~IssuerDown(i)
  <2>1. CASE inFlight[i] # NoReq
    BY <1>4, <2>1 DEF Kept, Calm
  <2>2. CASE inFlight[i] = NoReq
    <3>1. negative'[IssuerEntry(i)] \in {negative[IssuerEntry(i)], 0}
      BY <1>4, EntryMoves
    <3>2. negative'[IssuerEntry(i)] = negative[IssuerEntry(i)] \/ negative[IssuerEntry(i)] <= clock
      BY <1>1, <3>1 DEF Forgotten, Evicted
    <3>3. \/ cache[i].expiresAt >= last[i] + TTL
          \/ negative[IssuerEntry(i)] >= last[i] + NegTTL
          \/ clock >= last[i] + NegTTL
      BY <2>2 DEF Kept
    <3>4. \/ cache'[i].expiresAt >= last[i] + TTL
          \/ negative'[IssuerEntry(i)] >= last[i] + NegTTL
          \/ clock' >= last[i] + NegTTL
      BY <1>1, <3>2, <3>3, ConstantTypes DEF Onward
    <3>5. inFlight'[i] = NoReq /\ IssuerEntry(i)' = IssuerEntry(i)
      BY <1>4, <2>2 DEF Calm, IssuerEntry
    <3> QED
      BY <3>4, <3>5 DEF Kept
  <2> QED
    BY <2>1, <2>2
<1> QED
  BY <1>2, <1>3, <1>4, IssuerMoves

LEMMA SpacedKept ==
  ASSUME TypeOK, TypeOK', Explained, HistoryType, HistoryType', NextL,
         \A r \in Requests : Owned(r), NEW i \in Issuers, Onward(i), Spaced(i)
  PROVE  Spaced(i)'
<1>t. /\ clock \in Nat /\ cache[i].expiresAt \in Nat /\ nextForced[i] \in Nat
      /\ last[i] \in Nat /\ before[i] \in Nat
      /\ clock' \in Nat /\ cache'[i].expiresAt \in Nat /\ nextForced'[i] \in Nat
  BY IssuerTypes DEF TypeOK
<1>h. /\ last'[i] = IF StartsFor(i) THEN clock ELSE IF Forgotten(i) THEN 0 ELSE last[i]
      /\ before'[i] = IF StartsFor(i) THEN last[i] ELSE IF Forgotten(i) THEN 0 ELSE before[i]
  BY DEF NextL
<1>1. CASE StartsFor(i)
  <2>1. PICK r \in Requests : Iss(r) = i /\ LookupLoad(r)
    BY <1>1, StartsForIff
  <2>2. inFlight'[i] = r /\ at'[r] = clock /\ r # NoReq
    BY <2>1, RequestsAssumption DEF LookupLoad, TypeOK
  <2>3. UNCHANGED <<clock, cache>>
    BY <2>1 DEF LookupLoad
  <2>4. last'[i] = clock /\ before'[i] = last[i]
    BY <1>1, <1>h
  <2>5. clock >= 1
    BY DEF Explained, Timely
  <2>6. Kept(i)'
    BY <2>2, <2>4 DEF Kept
  <2>7. last[i] # 0 => \/ clock >= last[i] + Spacing
                       \/ /\ cache[i].expiresAt >= last[i] + TTL
                          /\ nextForced'[i] = clock + Cooldown /\ last[i] <= clock
    BY <2>1, LoadFollows DEF Spaced
  <2> QED
    BY <1>t, <2>3, <2>4, <2>5, <2>6, <2>7, ConstantTypes DEF Spaced, Spacing, Least
<1>2. CASE ~StartsFor(i) /\ Forgotten(i)
  BY <1>2, <1>h DEF Spaced
<1>3. CASE ~StartsFor(i) /\ ~Forgotten(i)
  <2>1. last'[i] = last[i] /\ before'[i] = before[i]
    BY <1>3, <1>h
  <2>2. ~ \E r \in Requests : Iss(r) = i /\ LookupLoad(r)
    BY <1>3, StartsForIff
  <2>3. last'[i] # 0 => last'[i] <= clock' /\ Kept(i)'
    <3> SUFFICES ASSUME last[i] # 0 PROVE last[i] <= clock' /\ Kept(i)'
      BY <2>1
    <3>1. last[i] <= clock /\ Kept(i)
      BY DEF Spaced
    <3>2. Kept(i)'
      BY <1>3, <2>1, <2>2, <3>1, KeptKept
    <3> QED
      BY <1>t, <3>1, <3>2 DEF Onward
  <2>4. before[i] # 0 =>
          /\ last[i] # 0
          /\ \/ clock' >= before[i] + Spacing
             \/ /\ cache'[i].expiresAt >= before[i] + TTL
                /\ nextForced'[i] >= last[i] + Cooldown /\ before[i] <= last[i]
    BY <1>t, ConstantTypes, SpacingLeast DEF Spaced, Onward
  <2>5. Spacing' = Spacing
    BY DEF Spacing, Least
  <2> QED
    BY <2>1, <2>3, <2>4, <2>5 DEF Spaced
<1> QED
  BY <1>1, <1>2, <1>3

-----------------------------------------------------------------------------
(* The outages.                                                            *)

\* Only the owner's own load settles by the owner's hand.
LEMMA WhoSettles ==
  ASSUME TypeOK, NextL, NEW o \in Requests, Settles(o)
  PROVE  LoadSucceeds(o) \/ LoadUnavailable(o) \/ LoadRejected(o)
<1>1. load'[o] # load[o] /\ OwnerLives(o) /\ load'[o].state = "none"
  BY DEF Settles
<1>2. PICK q \in Requests : Step(q)
  BY <1>1 DEF NextL, Next, Publish, Tick, request
<1>3. LoadStep(q) \/ LookupLoad(q)
  BY <1>1, <1>2 DEF Step, Arrive, Lookup, LookupRevoked, LookupKidNegative, LookupIssuerNegative,
     LookupHit, LookupJoin, RememberMissing, ImportFails, Verify, Retry, GiveUp, Abort
<1>4. ~LookupLoad(q)
  BY <1>1 DEF LookupLoad, TypeOK
<1>5. ~UpstreamAnswers(q)
  BY <1>1 DEF UpstreamAnswers, TypeOK
<1>6. Settle(q)
  BY <1>3, <1>4, <1>5 DEF LoadStep, LoadSucceeds, LoadUnavailable, LoadRejected, LoadCut
<1>7. q = o
  BY <1>1, <1>6 DEF Settle, TypeOK
<1> QED
  BY <1>1, <1>3, <1>4, <1>5, <1>7 DEF LoadStep, LoadCut

LEMMA DownIsFound ==
  ASSUME TypeOK, Explained, NextL, NEW o \in Requests
  PROVE  FoundDown(o) <=> LoadUnavailable(o)
<1>1. ASSUME LoadUnavailable(o) PROVE FoundDown(o)
  <2>1. o \in Waiters(o) /\ OwnerLives(o) /\ load[o].state # "none"
    BY <1>1 DEF LoadUnavailable, OwnerLives, Waiters
  <2>2. load'[o].state = "none"
    BY <1>1, NoLoadType DEF LoadUnavailable, Settle, TypeOK
  <2>3. outcome'[o] = "jwks_unavailable"
    BY <1>1, <2>1 DEF LoadUnavailable, Finish, TypeOK
  <2> QED
    BY <2>1, <2>2, <2>3 DEF FoundDown, Settles
<1>2. ASSUME FoundDown(o) PROVE LoadUnavailable(o)
  <2>1. Settles(o) /\ outcome'[o] = "jwks_unavailable" /\ OwnerLives(o)
    BY <1>2 DEF FoundDown, Settles
  <2>2. outcome[o] = "none" /\ o \in Waiters(o)
    BY <2>1 DEF OwnerLives, Waiters, Explained, VerdictsExplained, VerdictExplained
  <2>3. ~LoadSucceeds(o)
    BY <2>1, <2>2 DEF LoadSucceeds
  <2>4. ~LoadRejected(o)
    BY <2>1, <2>2 DEF LoadRejected, Finish, TypeOK
  <2> QED
    BY <2>1, <2>3, <2>4, WhoSettles
<1> QED
  BY <1>1, <1>2

\* The outage remembered of i is that of the load that has just found it down,
\* or none any more if one has succeeded, or the one before.
LEMMA OutageMoves ==
  ASSUME TypeOK, Explained, HistoryType, NextL, NEW i \in Issuers
  PROVE  /\ \A o \in Requests : Iss(o) = i /\ LoadUnavailable(o) => outage'[i] = at[o]
         /\ ~IssuerDown(i) /\ ~IssuerServes(i) => outage'[i] = outage[i]
<1>1. outage'[i] = OutageOf(i)
  BY DEF NextL
<1>2. ASSUME NEW o \in Requests, Iss(o) = i, LoadUnavailable(o) PROVE OutageOf(i) = at[o]
  <2>1. FoundDown(o)
    BY <1>2, DownIsFound
  <2>2. ASSUME NEW p \in Requests, FoundDown(p) PROVE p = o
    BY <1>2, <2>2 DEF FoundDown, Settles, LoadUnavailable, Settle, TypeOK
  <2>3. (CHOOSE p \in Requests : Iss(p) = i /\ FoundDown(p)) = o
    BY <1>2, <2>1, <2>2
  <2>4. OutageOf(i) = at[CHOOSE p \in Requests : Iss(p) = i /\ FoundDown(p)]
    BY <1>2, <2>1 DEF OutageOf
  <2> QED
    BY <2>3, <2>4
<1>3. ASSUME ~IssuerDown(i), ~IssuerServes(i) PROVE OutageOf(i) = outage[i]
  <2>1. ~ \E o \in Requests : Iss(o) = i /\ FoundDown(o)
    BY <1>3, DownIsFound DEF IssuerDown
  <2>2. ASSUME NEW o \in Requests, Iss(o) = i, Succeeds(o) PROVE FALSE
    <3>1. LoadRejected(o)
      BY <1>3, <2>2, WhoSettles DEF Succeeds, IssuerDown, IssuerServes
    <3>2. pc'[o] = "done"
      BY <3>1, FinishEffect DEF LoadRejected, Waiters, OwnerLives
    <3> QED
      BY <2>2, <3>2 DEF Succeeds
  <2> QED
    BY <2>1, <2>2 DEF OutageOf
<1> QED
  BY <1>1, <1>2, <1>3

LEMMA HeldKept ==
  ASSUME TypeOK, Explained, HistoryType, NextL, NEW i \in Issuers, Held(i),
         \A r \in Requests : pc[r] \in Active => start[r] >= 1
  PROVE  Held(i)'
<1>e. IssuerEntry(i)' = IssuerEntry(i)
  BY DEF IssuerEntry
<1>1. CASE IssuerDown(i)
  <2>1. PICK o \in Requests : Iss(o) = i /\ LoadUnavailable(o)
    BY <1>1 DEF IssuerDown
  <2>2. outage'[i] = at[o] /\ negative'[IssuerEntry(i)] = at[o] + NegTTL
    BY <2>1, OutageMoves, DownEntry
  <2>3. at[o] # 0
    BY <2>1 DEF LoadUnavailable, OwnerLives, Explained, Timely, TypeOK
  <2> QED
    BY <1>e, <2>2, <2>3 DEF Held
<1>2. CASE IssuerServes(i)
  BY <1>2, <1>e, ServedEntry DEF IssuerServes, Held
<1>3. CASE ~IssuerDown(i) /\ ~IssuerServes(i)
  <2>1. outage'[i] = outage[i] /\ negative'[IssuerEntry(i)] \in {negative[IssuerEntry(i)], 0}
    BY <1>3, OutageMoves, EntryMoves
  <2> QED
    BY <1>e, <2>1 DEF Held
<1> QED
  BY <1>1, <1>2, <1>3

LEMMA HistoryTypeKept ==
  ASSUME TypeOK, HistoryType, Explained, NextL
  PROVE  HistoryType'
<1>1. fetches' \in [Requests -> Nat]
  BY DEF HistoryType, NextL
<1>2. last' \in [Issuers -> Nat] /\ before' \in [Issuers -> Nat]
  BY DEF HistoryType, NextL, TypeOK
<1>3. outage' \in [Issuers -> Nat]
  <2>1. ASSUME NEW i \in Issuers PROVE OutageOf(i) \in Nat
    <3>1. CASE \E o \in Requests : Iss(o) = i /\ FoundDown(o)
      BY <3>1 DEF OutageOf, TypeOK
    <3>2. CASE ~ \E o \in Requests : Iss(o) = i /\ FoundDown(o)
      BY <3>2 DEF OutageOf, HistoryType
    <3> QED
      BY <3>1, <3>2
  <2> QED
    BY <2>1 DEF NextL
<1> QED
  BY <1>1, <1>2, <1>3 DEF HistoryType

-----------------------------------------------------------------------------
(* The results.                                                            *)

LEMMA InitAccounted == InitL => LoadsAccounted
<1> SUFFICES ASSUME InitL PROVE LoadsAccounted
  OBVIOUS
<1>1. TypeOK
  BY InitType DEF InitL
<1>2. HistoryType
  BY DEF InitL, HistoryType
<1>3. ASSUME NEW r \in Requests
      PROVE  Frugal(r) /\ Owned(r) /\ (pc[r] \in Active => start[r] >= 1)
  BY NoLoadType DEF InitL, Init, Frugal, Owned
<1>4. ASSUME NEW i \in Issuers PROVE Spaced(i) /\ Held(i) /\ nextForced[i] <= clock + Cooldown
  BY IssuerEntryType, ConstantTypes DEF InitL, Init, Spaced, Held
<1> QED
  BY <1>2, <1>3, <1>4 DEF LoadsAccounted

LEMMA NextAccounted ==
  ASSUME TypeOK, TypeOK', Explained, LoadsAccounted, [NextL]_varsL
  PROVE  LoadsAccounted'
<1>1. CASE NextL
  <2>1. HistoryType /\ HistoryType'
    BY <1>1, HistoryTypeKept DEF LoadsAccounted
  <2>2. ASSUME NEW i \in Issuers
        PROVE  Onward(i) /\ nextForced'[i] <= clock' + Cooldown /\ UNCHANGED token
    BY <1>1, NextOnward DEF NextL, LoadsAccounted
  <2>3. ASSUME NEW i \in Issuers
        PROVE  (Spaced(i) /\ Held(i) /\ nextForced[i] <= clock + Cooldown)'
    <3>1. Spaced(i)'
      BY <1>1, <2>1, <2>2, SpacedKept DEF LoadsAccounted
    <3>2. Held(i)'
      BY <1>1, <2>1, HeldKept DEF LoadsAccounted
    <3> QED
      BY <2>2, <3>1, <3>2
  <2>4. ASSUME NEW r \in Requests
        PROVE  (Frugal(r) /\ Owned(r) /\ (pc[r] \in Active => start[r] >= 1))'
    <3>1. Iss(r) \in Issuers
      BY TokenTypes
    <3>2. Frugal(r)'
      BY <1>1, <2>1, <2>2, <3>1, FrugalKept DEF LoadsAccounted
    <3>3. Owned(r)'
      BY <1>1, OwnedKept DEF LoadsAccounted
    <3>4. (pc[r] \in Active => start[r] >= 1)'
      BY <1>1, StartKept DEF LoadsAccounted
    <3> QED
      BY <3>2, <3>3, <3>4
  <2> QED
    BY <2>1, <2>3, <2>4 DEF LoadsAccounted
<1>2. CASE UNCHANGED varsL
  <2>1. UNCHANGED <<clock, cache, negative, inFlight, nextForced, token, pc, stage, at, start,
                    waitOn, load, fetches, last, before, outage>>
    BY <1>2 DEF varsL, vars, shared, request
  <2>2. HistoryType'
    BY <2>1 DEF LoadsAccounted, HistoryType
  <2>3. ASSUME NEW r \in Requests
        PROVE  (Frugal(r) /\ Owned(r) /\ (pc[r] \in Active => start[r] >= 1))'
    BY <2>1 DEF LoadsAccounted, Frugal, Provided, Iss, Owned, OwnerLives
  <2>4. ASSUME NEW i \in Issuers
        PROVE  (Spaced(i) /\ Held(i) /\ nextForced[i] <= clock + Cooldown)'
    BY <2>1 DEF LoadsAccounted, Spaced, Kept, Held, IssuerEntry, Spacing, Least
  <2> QED
    BY <2>2, <2>3, <2>4 DEF LoadsAccounted
<1> QED
  BY <1>1, <1>2

LEMMA HistoryIsHistory == SpecL => Spec
<1>1. InitL => Init
  BY DEF InitL
<1>2. [NextL]_varsL => [Next]_vars
  BY DEF NextL, varsL
<1> QED
  BY <1>1, <1>2, PTL DEF SpecL, Spec

\* Every request, load and outage is accounted for: the inductive invariant of
\* the loads.
THEOREM LoadsAreAccounted == SpecL => [](TypeOK /\ Explained /\ LoadsAccounted)
<1>1. InitL => LoadsAccounted
  BY InitAccounted
<1>2. TypeOK /\ TypeOK' /\ Explained /\ LoadsAccounted /\ [NextL]_varsL => LoadsAccounted'
  BY NextAccounted
<1>3. SpecL => []TypeOK /\ []Explained
  BY HistoryIsHistory, TypeCorrect, ExplainedAlways, PTL
<1> QED
  BY <1>1, <1>2, <1>3, PTL DEF SpecL

\* No request causes more than two loads, whatever it is told (getKey line 64,
\* verifyJumpJwt line 59): the set its own forced load has brought, and the
\* cooldown it has started, outlast it.
THEOREM TwoLoadsAtMost == SpecL => []AtMostTwoLoads
<1>1. LoadsAccounted => AtMostTwoLoads
  BY DEF LoadsAccounted, Frugal, AtMostTwoLoads
<1> QED
  BY <1>1, LoadsAreAccounted, PTL

\* An issuer sees at most two loads in any span of Spacing, as long as its
\* answers are remembered (getJwks lines 95-131).
THEOREM LoadsAreSpaced == SpecL => LoadsSpaced
<1> DEFINE Wait == \A i \in Issuers :
                     StartsFor(i) /\ before[i] # 0 => clock >= before[i] + Spacing
<1>1. TypeOK /\ Explained /\ LoadsAccounted /\ [NextL]_varsL => [Wait]_varsL
  <2> SUFFICES ASSUME TypeOK, Explained, LoadsAccounted, NextL,
                      NEW i \in Issuers, StartsFor(i), before[i] # 0
               PROVE  clock >= before[i] + Spacing
    OBVIOUS
  <2>1. PICK r \in Requests : Iss(r) = i /\ LookupLoad(r)
    BY StartsForIff DEF LoadsAccounted
  <2>2. HistoryType /\ Spaced(Iss(r))
    BY <2>1 DEF LoadsAccounted
  <2> QED
    BY <2>1, <2>2, LoadFollows
<1> QED
  BY <1>1, LoadsAreAccounted, PTL DEF SpecL, LoadsSpaced

LEMMA WhoRefuses ==
  ASSUME TypeOK, Explained, NextL, NEW r \in Requests, pc[r] # "done",
         outcome'[r] = "jwks_unavailable"
  PROVE  \/ LookupIssuerNegative(r)
         \/ \E o \in Requests : LoadUnavailable(o) /\ r \in Waiters(o)
<1>1. outcome[r] = "none"
  BY DEF Explained, VerdictsExplained, VerdictExplained
<1>2. PICK q \in Requests : Step(q)
  BY <1>1 DEF NextL, Next, Publish, Tick, request
<1>3. ASSUME NEW R, NEW code, Finish(R, code) PROVE r \in R /\ code = "jwks_unavailable"
  BY <1>1, <1>3 DEF Finish, TypeOK
<1>4. CASE Lookup(q)
  <2>1. LookupIssuerNegative(q)
    BY <1>1, <1>3, <1>4 DEF Lookup, LookupRevoked, LookupKidNegative, LookupHit,
                         LookupJoin, LookupLoad
  <2>2. r = q
    BY <1>3, <2>1 DEF LookupIssuerNegative
  <2> QED
    BY <2>1, <2>2
<1>5. CASE LoadStep(q)
  <2>1. LoadUnavailable(q)
    BY <1>1, <1>3, <1>5 DEF LoadStep, UpstreamAnswers, LoadSucceeds, LoadRejected, LoadCut
  <2>2. r \in Waiters(q)
    BY <1>3, <2>1 DEF LoadUnavailable
  <2> QED
    BY <2>1, <2>2
<1>6. ~(RememberMissing(q) \/ ImportFails(q) \/ Verify(q) \/ GiveUp(q) \/ Abort(q))
  BY <1>3 DEF RememberMissing, ImportFails, Verify, GiveUp, Abort
<1>7. ~(Arrive(q) \/ Retry(q))
  BY <1>1 DEF Arrive, Retry
<1> QED
  BY <1>2, <1>4, <1>5, <1>6, <1>7 DEF Step

\* A request is refused as jwks_unavailable only while an outage of its own
\* issuer is fresh, or for the load it was itself waiting for (getJwks lines
\* 97-108, fetchAndCache lines 146-152).
THEOREM RefusalsFollowOutages == SpecL => RefusedOnlyAfterOutage
<1> DEFINE Refused == \A r \in Requests :
      pc[r] # "done" /\ outcome'[r] = "jwks_unavailable" =>
        /\ outage'[Iss(r)] # 0
        /\ pc[r] = "lookup" => clock < outage'[Iss(r)] + NegTTL
<1>1. TypeOK /\ Explained /\ LoadsAccounted /\ [NextL]_varsL => [Refused]_varsL
  <2> SUFFICES ASSUME TypeOK, Explained, LoadsAccounted, NextL, NEW r \in Requests,
                      pc[r] # "done", outcome'[r] = "jwks_unavailable"
               PROVE  /\ outage'[Iss(r)] # 0
                      /\ pc[r] = "lookup" => clock < outage'[Iss(r)] + NegTTL
    OBVIOUS
  <2>0. Iss(r) \in Issuers /\ HistoryType /\ Held(Iss(r))
    BY TokenTypes DEF LoadsAccounted
  <2>1. CASE LookupIssuerNegative(r)
    <3>1. negative[IssuerEntry(Iss(r))] > clock /\ UNCHANGED load
      BY <2>1 DEF LookupIssuerNegative, IssuerRefused
    <3>2. ~IssuerDown(Iss(r)) /\ ~IssuerServes(Iss(r))
      BY <3>1, NoLoadType DEF IssuerDown, IssuerServes, LoadUnavailable, LoadSucceeds, Settle,
                                   TypeOK
    <3>3. outage'[Iss(r)] = outage[Iss(r)]
      BY <2>0, <3>2, OutageMoves
    <3>4. clock \in Nat /\ negative[IssuerEntry(Iss(r))] \in Nat
      BY <2>0, IssuerTypes
    <3> QED
      BY <2>0, <3>1, <3>3, <3>4 DEF Held
  <2>2. ASSUME NEW o \in Requests, LoadUnavailable(o), r \in Waiters(o)
        PROVE  outage'[Iss(r)] # 0 /\ pc[r] # "lookup"
    <3>1. Iss(r) = Iss(o) /\ pc[r] = "waiting"
      BY <2>2 DEF Waiters, Explained, SingleFlight
    <3>2. outage'[Iss(r)] = at[o]
      BY <2>0, <2>2, <3>1, OutageMoves
    <3>3. at[o] # 0
      BY <2>2 DEF LoadUnavailable, OwnerLives, Explained, Timely, TypeOK, LoadsAccounted
    <3> QED
      BY <3>1, <3>2, <3>3
  <2> QED
    BY <2>1, <2>2, WhoRefuses
<1> QED
  BY <1>1, LoadsAreAccounted, PTL DEF SpecL, RefusedOnlyAfterOutage
=============================================================================
