----------------------------- MODULE JwksCache -----------------------------
(***************************************************************************)
(* The issuer JWKS cache of one isolate (core/jwks_cache.ts) together with *)
(* the verification flow that drives it (core/verify_jwt.ts, lines 42-75)  *)
(* and the transport that fills it (core/fetch_jwks.ts).                   *)
(*                                                                         *)
(* Requests run concurrently and share the cache.  JavaScript runs to      *)
(* completion: what a handler does between two awaits is one step, and the *)
(* continuations of a settled promise run before any timer or I/O event.   *)
(* "Quiescent" states that discipline: external events (arrivals, answers, *)
(* deadlines, the clock) wait until no continuation is left to run.        *)
(***************************************************************************)
EXTENDS Integers, FiniteSets

CONSTANTS
  Requests,      \* requests carrying a well-formed token, each served once
  Issuers,       \* registered issuers
  Kids,          \* the key identifiers tokens name; a set may hold other ones too
  Keys,          \* public keys; a token is signed with the private half of one
  Unimportable,  \* keys that parse as a JWK and that importJWK still rejects
  Revoked,       \* <<issuer, kid>> on the issuer's revoked_kids list
  NoKey,         \* "no key under that kid"
  NoKid,         \* the kid part of the negative entry of a whole issuer
  NoReq,         \* "no load in flight"
  TTL,           \* life of a cached set
  NegTTL,        \* life of a negative entry
  Cooldown,      \* least time between two forced refreshes
  Deadline,      \* time a request may take
  MaxNegative,   \* MAX_NEGATIVE_ENTRIES
  MaxClock,      \* bound: the last instant considered
  MaxChanges     \* bound: changes to the published key sets

ASSUME RequestsAssumption == NoReq \notin Requests /\ IsFiniteSet(Requests)
ASSUME KeysAssumption == NoKey \notin Keys /\ Unimportable \subseteq Keys
ASSUME KidsAssumption ==
  /\ NoKid \notin Kids /\ Revoked \subseteq Issuers \X Kids
  /\ IsFiniteSet(Issuers) /\ IsFiniteSet(Kids)
ASSUME TimeAssumption ==
  /\ {TTL, NegTTL, Cooldown, Deadline, MaxNegative} \subseteq Nat \ {0}
  /\ MaxClock \in Nat /\ MaxChanges \in Nat
  /\ Deadline < TTL      \* 1 s against 30 s

VARIABLES
  clock,       \* Date.now()
  upstream,    \* what each issuer publishes now: issuer -> kid -> key
  left,        \* history: when the issuer last stopped publishing that pair
  since,       \* history: when the kid was last added to the issuer's set
  changes,     \* history: how often a published key set has changed
  cache,       \* issuer -> the cached set; expiresAt = 0 when there is none
  negative,    \* negative entry -> its expiry, 0 when there is none
  older,       \* insertion order of the entries of `negative`
  inFlight,    \* issuer -> the request whose load is in flight
  nextForced,  \* issuer -> end of the forced refresh cooldown
  token,       \* request -> the iss, kid and signing key of its token
  pc,          \* request -> where its handler is
  stage,       \* request -> which getKey call it is in
  at,          \* request -> Date.now() when that call started
  start,       \* request -> when it arrived
  waitOn,      \* request -> the owner of the load it awaits
  held,        \* request -> the key getKey found for it
  load,        \* request -> the state of the load it owns
  outcome      \* request -> how it ended

trust   == <<upstream, left, since, changes>>
shared  == <<cache, negative, older, inFlight, nextForced>>
request == <<pc, stage, at, start, waitOn, held, load, outcome>>
vars == <<clock, trust, shared, token, request>>

-----------------------------------------------------------------------------
KeySets == [Kids -> Keys \cup {NoKey}]
NegKeys == Issuers \X (Kids \cup {NoKid})

Stages == {"plain", "forced", "retry"}
Active == {"lookup", "waiting", "verifying", "missing"}
Codes  == {"none", "verified", "claims_rejected", "invalid_signature",
           "jwks_unavailable", "jwks_bad_gateway", "deadline_exceeded"}

TypeOK ==
  /\ clock \in Nat
  /\ upstream \in [Issuers -> KeySets]
  /\ left \in [Issuers -> [Kids -> [Keys -> Nat]]]
  /\ since \in [Issuers -> [Kids -> Nat]]
  /\ changes \in Nat
  /\ cache \in [Issuers -> [keys : KeySets, expiresAt : Nat]]
  /\ negative \in [NegKeys -> Nat]
  /\ older \in SUBSET (NegKeys \X NegKeys)
  /\ inFlight \in [Issuers -> Requests \cup {NoReq}]
  /\ nextForced \in [Issuers -> Nat]
  /\ token \in [Requests -> [iss : Issuers, kid : Kids, key : Keys]]
  /\ pc \in [Requests -> Active \cup {"idle", "done"}]
  /\ stage \in [Requests -> Stages]
  /\ at \in [Requests -> Nat]
  /\ start \in [Requests -> Nat]
  /\ waitOn \in [Requests -> Requests \cup {NoReq}]
  /\ held \in [Requests -> Keys \cup {NoKey}]
  /\ load \in [Requests -> [state : {"none", "fetching", "answered"}, doc : KeySets]]
  /\ outcome \in [Requests -> Codes]

EmptySet == [k \in Kids |-> NoKey]
NoLoad == [state |-> "none", doc |-> EmptySet]

Init ==
  /\ clock = 1
  /\ upstream \in [Issuers -> KeySets]
  /\ left = [i \in Issuers |-> [k \in Kids |-> [x \in Keys |-> 0]]]
  /\ since = [i \in Issuers |-> [k \in Kids |-> 1]]
  /\ changes = 0
  /\ cache = [i \in Issuers |-> [keys |-> EmptySet, expiresAt |-> 0]]
  /\ negative = [n \in NegKeys |-> 0]
  /\ older = {}
  /\ inFlight = [i \in Issuers |-> NoReq]
  /\ nextForced = [i \in Issuers |-> 0]
  /\ token \in [Requests -> [iss : Issuers, kid : Kids, key : Keys]]
  /\ pc = [r \in Requests |-> "idle"]
  /\ stage = [r \in Requests |-> "plain"]
  /\ at = [r \in Requests |-> 0]
  /\ start = [r \in Requests |-> 0]
  /\ waitOn = [r \in Requests |-> NoReq]
  /\ held = [r \in Requests |-> NoKey]
  /\ load = [r \in Requests |-> NoLoad]
  /\ outcome = [r \in Requests |-> "none"]

Iss(r) == token[r].iss
Kid(r) == token[r].kid
KidEntry(r) == <<Iss(r), Kid(r)>>
IssuerEntry(i) == <<i, NoKid>>

Quiescent == \A r \in Requests : pc[r] \notin {"lookup", "missing"}
\* Mutation of Due: the wait for a load is not raced against the deadline.
DueUnlessWaiting(r) == pc[r] \in Active \ {"waiting"} /\ clock >= start[r] + Deadline

Due(r) == pc[r] \in Active /\ clock >= start[r] + Deadline

-----------------------------------------------------------------------------
(* The negative cache: a JavaScript Map, which remembers insertion order.  *)

Live == {n \in NegKeys : negative[n] # 0}

\* Only the entries of S stay.
Retain(S) ==
  /\ negative' = [n \in NegKeys |-> IF n \in S THEN negative[n] ELSE 0]
  /\ older' = older \cap (S \X S)

\* Mutation of Room: the loop stops while the map is still full.
RoomWhenOver(t) ==
  LET fresh == IF Cardinality(Live) >= MaxNegative
               THEN {n \in Live : negative[n] > t} ELSE Live
  IN {n \in fresh : Cardinality({m \in fresh : <<n, m>> \in older}) < MaxNegative}

\* What stays of the map when room is made at instant t: at the limit the
\* expired entries go, and then the first inserted ones.
Room(t) ==
  LET fresh == IF Cardinality(Live) >= MaxNegative
               THEN {n \in Live : negative[n] > t} ELSE Live
  IN {n \in fresh :
        Cardinality({m \in fresh : <<n, m>> \in older}) < MaxNegative - 1}

\* Mutation of RememberNegative: a second miss prolongs the entry of the first.
ProlongNegative(n, t) ==
  LET kept == Room(t)
      from == IF negative[n] > t THEN negative[n] ELSE t
  IN
  /\ negative' = [m \in NegKeys |-> IF m = n THEN from + NegTTL
                                    ELSE IF m \in kept THEN negative[m] ELSE 0]
  /\ older' = (older \cap (kept \X kept)) \cup
              (IF n \in kept THEN {} ELSE kept \X {n})

\* An entry that survives Room keeps its place and gets a new expiry.
RememberNegative(n, t) ==
  LET kept == Room(t) IN
  /\ negative' = [m \in NegKeys |-> IF m = n THEN t + NegTTL
                                    ELSE IF m \in kept THEN negative[m] ELSE 0]
  /\ older' = (older \cap (kept \X kept)) \cup
              (IF n \in kept THEN {} ELSE kept \X {n})

-----------------------------------------------------------------------------
\* The handlers of R end; what they held goes with them.
Finish(R, code) ==
  /\ pc' = [r \in Requests |-> IF r \in R THEN "done" ELSE pc[r]]
  /\ outcome' = [r \in Requests |-> IF r \in R THEN code ELSE outcome[r]]
  /\ stage' = [r \in Requests |-> IF r \in R THEN "plain" ELSE stage[r]]
  /\ at' = [r \in Requests |-> IF r \in R THEN 0 ELSE at[r]]
  /\ start' = [r \in Requests |-> IF r \in R THEN 0 ELSE start[r]]
  /\ waitOn' = [r \in Requests |-> IF r \in R THEN NoReq ELSE waitOn[r]]
  /\ held' = [r \in Requests |-> IF r \in R THEN NoKey ELSE held[r]]

\* The requests R get this key set from getJwks: the key is there, or the
\* call was not forced and is repeated as a forced one, or the kid is unknown.
Deliver(R, keys) ==
  /\ pc' = [r \in Requests |->
       IF r \notin R THEN pc[r]
       ELSE IF keys[Kid(r)] # NoKey THEN "verifying"
       ELSE IF stage[r] = "plain" THEN "lookup" ELSE "missing"]
  /\ stage' = [r \in Requests |->
       IF r \in R /\ keys[Kid(r)] = NoKey /\ stage[r] = "plain"
       THEN "forced" ELSE stage[r]]
  /\ held' = [r \in Requests |-> IF r \in R THEN keys[Kid(r)] ELSE held[r]]
  /\ waitOn' = [r \in Requests |-> IF r \in R THEN NoReq ELSE waitOn[r]]

\* A well-formed token reaches verifyJumpJwt.  (Bound: the deadline falls
\* within the clock's range.)
Arrive(r) ==
  /\ Quiescent
  /\ pc[r] = "idle"
  /\ clock + Deadline <= MaxClock
  /\ pc' = [pc EXCEPT ![r] = "lookup"]
  /\ start' = [start EXCEPT ![r] = clock]
  /\ UNCHANGED <<clock, trust, shared, token, stage, at, waitOn, held, load, outcome>>

-----------------------------------------------------------------------------
(* getKey up to its first await.                                           *)

IsRevoked(r) == KidEntry(r) \in Revoked
KidRefused(r) == stage[r] = "plain" /\ negative[KidEntry(r)] > clock

\* Mutation of IssuerRefused: nobody looks at the expiry.
IssuerRefusedForGood(r) == negative[IssuerEntry(Iss(r))] # 0

IssuerRefused(r) == negative[IssuerEntry(Iss(r))] > clock

\* Mutation of Fresh: a set is still served at the instant it expires.
FreshAtExpiry(i) == cache[i].expiresAt >= clock

Fresh(i) == cache[i].expiresAt > clock
\* Mutation of Servable: no cooldown between forced refreshes.
ServableWithoutCooldown(r) == Fresh(Iss(r)) /\ stage[r] = "plain"

Servable(r) ==
  Fresh(Iss(r)) /\ (stage[r] = "plain" \/ nextForced[Iss(r)] > clock)

\* The entries this call consults and deletes when they have expired.
Expired(r) ==
  {n \in {IssuerEntry(Iss(r))} \cup
         (IF stage[r] = "plain" THEN {KidEntry(r)} ELSE {}) : negative[n] <= clock}

LookupRevoked(r) ==
  /\ pc[r] = "lookup" /\ IsRevoked(r)
  /\ Finish({r}, "invalid_signature")
  /\ UNCHANGED <<clock, trust, shared, token, load>>

LookupKidNegative(r) ==
  /\ pc[r] = "lookup" /\ ~IsRevoked(r) /\ KidRefused(r)
  /\ Finish({r}, "invalid_signature")
  /\ UNCHANGED <<clock, trust, shared, token, load>>

\* The call goes past the kid's negative entry and into getJwks.
Consult(r) ==
  /\ pc[r] = "lookup" /\ ~IsRevoked(r) /\ ~KidRefused(r)
  /\ Retain(Live \ Expired(r))

\* Mutation of LookupIssuerNegative: the log's wording becomes the code.
LookupIssuerNegativeWorded(r) ==
  /\ Consult(r) /\ IssuerRefused(r)
  /\ Finish({r}, "negative_cached")
  /\ UNCHANGED <<clock, trust, cache, inFlight, nextForced, token, load>>

LookupIssuerNegative(r) ==
  /\ Consult(r) /\ IssuerRefused(r)
  /\ Finish({r}, "jwks_unavailable")
  /\ UNCHANGED <<clock, trust, cache, inFlight, nextForced, token, load>>

LookupHit(r) ==
  /\ Consult(r) /\ ~IssuerRefused(r) /\ Servable(r)
  /\ at' = [at EXCEPT ![r] = clock]
  /\ Deliver({r}, cache[Iss(r)].keys)
  /\ UNCHANGED <<clock, trust, cache, inFlight, nextForced, token, start, load, outcome>>

LookupJoin(r) ==
  /\ Consult(r) /\ ~IssuerRefused(r) /\ ~Servable(r)
  /\ inFlight[Iss(r)] # NoReq
  /\ at' = [at EXCEPT ![r] = clock]
  /\ pc' = [pc EXCEPT ![r] = "waiting"]
  /\ waitOn' = [waitOn EXCEPT ![r] = inFlight[Iss(r)]]
  /\ UNCHANGED <<clock, trust, cache, inFlight, nextForced, token,
                 stage, start, held, load, outcome>>

LookupLoad(r) ==
  /\ Consult(r) /\ ~IssuerRefused(r) /\ ~Servable(r)
  /\ inFlight[Iss(r)] = NoReq
  /\ nextForced' = IF stage[r] = "plain" THEN nextForced
                   ELSE [nextForced EXCEPT ![Iss(r)] = clock + Cooldown]
  /\ inFlight' = [inFlight EXCEPT ![Iss(r)] = r]
  /\ load' = [load EXCEPT ![r] = [state |-> "fetching", doc |-> EmptySet]]
  /\ at' = [at EXCEPT ![r] = clock]
  /\ pc' = [pc EXCEPT ![r] = "waiting"]
  /\ waitOn' = [waitOn EXCEPT ![r] = r]
  /\ UNCHANGED <<clock, trust, cache, token, stage, start, held, outcome>>

Lookup(r) ==
  \/ LookupRevoked(r) \/ LookupKidNegative(r) \/ LookupIssuerNegative(r)
  \/ LookupHit(r) \/ LookupJoin(r) \/ LookupLoad(r)

\* A forced call that did not find the kid.
RememberMissing(r) ==
  /\ pc[r] = "missing"
  /\ RememberNegative(KidEntry(r), at[r])
  /\ Finish({r}, "invalid_signature")
  /\ UNCHANGED <<clock, trust, cache, inFlight, nextForced, token, load>>

-----------------------------------------------------------------------------
(* The load request o owns.  The owner is "waiting" until the load settles *)
(* or its deadline fires; then it is "done", its signal is aborted, and the*)
(* load can no longer succeed.  A settled load reaches the owner's finally *)
(* before any waiter's continuation, so both are the step that settles it. *)

Waiters(o) == {r \in Requests : pc[r] = "waiting" /\ waitOn[r] = o}
\* Mutation of OwnerLives: the deadline does not abort the fetch.
LoadLives(o) == load[o].state # "none"

OwnerLives(o) == pc[o] = "waiting" /\ waitOn[o] = o
\* Mutation of Released: no finally, the slot stays taken.
Unreleased(o) == inFlight

Released(o) == [i \in Issuers |-> IF inFlight[i] = o THEN NoReq ELSE inFlight[i]]

\* The issuer produces its answer; it travels and is read by later steps.
UpstreamAnswers(o) ==
  /\ Quiescent
  /\ load[o].state = "fetching" /\ OwnerLives(o)
  /\ load' = [load EXCEPT ![o] = [state |-> "answered", doc |-> upstream[Iss(o)]]]
  /\ UNCHANGED <<clock, trust, shared, token, pc, stage, at, start, waitOn, held, outcome>>

Settle(o) == load' = [load EXCEPT ![o] = NoLoad] /\ inFlight' = Released(o)

\* What fetchAndCache stores.  Mutation: its life starts when the load ends.
EntryFromEnd(o) == [keys |-> load[o].doc, expiresAt |-> clock + TTL]
Entry(o) == [keys |-> load[o].doc, expiresAt |-> at[o] + TTL]

\* parseJwks kept at least one key, one of Kids or another: cached for TTL from
\* the instant the load started, and the issuer's negative entry is dropped.
LoadSucceeds(o) ==
  /\ Quiescent
  /\ load[o].state = "answered" /\ OwnerLives(o)
  /\ cache' = [cache EXCEPT ![Iss(o)] = Entry(o)]
  /\ Retain(Live \ {IssuerEntry(Iss(o))})
  /\ Deliver(Waiters(o), load[o].doc)
  /\ Settle(o)
  /\ UNCHANGED <<clock, trust, nextForced, token, at, start, outcome>>

\* Mutation of LoadUnavailable: an outage is not remembered.
LoadUnavailableForgotten(o) ==
  /\ Quiescent
  /\ load[o].state # "none" /\ OwnerLives(o)
  /\ Finish(Waiters(o), "jwks_unavailable")
  /\ Settle(o)
  /\ UNCHANGED <<clock, trust, cache, negative, older, nextForced, token>>

\* Network error, 5xx or 429: the only failure that is remembered.
LoadUnavailable(o) ==
  /\ Quiescent
  /\ load[o].state # "none" /\ OwnerLives(o)
  /\ RememberNegative(IssuerEntry(Iss(o)), at[o])
  /\ Finish(Waiters(o), "jwks_unavailable")
  /\ Settle(o)
  /\ UNCHANGED <<clock, trust, cache, nextForced, token>>

\* A response that is rejected: status, content type, size, JSON or key set.
LoadRejected(o) ==
  /\ Quiescent
  /\ load[o].state # "none" /\ OwnerLives(o)
  /\ Finish(Waiters(o), "jwks_bad_gateway")
  /\ Settle(o)
  /\ UNCHANGED <<clock, trust, cache, negative, older, nextForced, token>>

\* The owner's deadline has cut the fetch: the other waiters share the failure.
LoadCut(o) ==
  /\ Quiescent
  /\ load[o].state # "none" /\ ~OwnerLives(o)
  /\ Finish(Waiters(o), "deadline_exceeded")
  /\ Settle(o)
  /\ UNCHANGED <<clock, trust, cache, negative, older, nextForced, token>>

LoadStep(o) ==
  \/ UpstreamAnswers(o) \/ LoadSucceeds(o) \/ LoadUnavailable(o)
  \/ LoadRejected(o) \/ LoadCut(o)

-----------------------------------------------------------------------------
(* importJWK and jwtVerify, with the key getKey found.                     *)

ImportFails(r) ==
  /\ Quiescent
  /\ pc[r] = "verifying" /\ held[r] \in Unimportable
  /\ Finish({r}, "jwks_bad_gateway")
  /\ UNCHANGED <<clock, trust, shared, token, load>>

\* The signature verifies; jose and validateClaim then judge the claims.
Verify(r) ==
  /\ Quiescent
  /\ pc[r] = "verifying" /\ held[r] \notin Unimportable
  /\ held[r] = token[r].key
  /\ \E code \in {"verified", "claims_rejected"} : Finish({r}, code)
  /\ UNCHANGED <<clock, trust, shared, token, load>>

\* The signature does not verify: one retry with a forced refresh.
Retry(r) ==
  /\ Quiescent
  /\ pc[r] = "verifying" /\ held[r] \notin Unimportable
  /\ held[r] # token[r].key /\ stage[r] # "retry"
  /\ pc' = [pc EXCEPT ![r] = "lookup"]
  /\ stage' = [stage EXCEPT ![r] = "retry"]
  /\ held' = [held EXCEPT ![r] = NoKey]
  /\ UNCHANGED <<clock, trust, shared, token, at, start, waitOn, load, outcome>>

GiveUp(r) ==
  /\ Quiescent
  /\ pc[r] = "verifying" /\ held[r] \notin Unimportable
  /\ held[r] # token[r].key /\ stage[r] = "retry"
  /\ Finish({r}, "invalid_signature")
  /\ UNCHANGED <<clock, trust, shared, token, load>>

\* The request's timer fires: raceAbort rejects whatever it awaits, and the
\* owner of a load takes it out of inFlight.
Abort(r) ==
  /\ Quiescent
  /\ Due(r)
  /\ Finish({r}, "deadline_exceeded")
  /\ inFlight' = Released(r)
  /\ UNCHANGED <<clock, trust, cache, negative, older, nextForced, token, load>>

-----------------------------------------------------------------------------
(* The environment.                                                        *)

\* The issuer adds (x a key), rotates in place or withdraws (x = NoKey) a kid.
Publish(i, k, x) ==
  /\ Quiescent
  /\ upstream[i][k] # x
  /\ changes < MaxChanges /\ changes' = changes + 1
  /\ upstream' = [upstream EXCEPT ![i][k] = x]
  /\ left' = IF upstream[i][k] = NoKey THEN left
             ELSE [left EXCEPT ![i][k][upstream[i][k]] = clock]
  /\ since' = IF upstream[i][k] = NoKey THEN [since EXCEPT ![i][k] = clock] ELSE since
  /\ UNCHANGED <<clock, shared, token, request>>

\* A due timer fires before the clock moves on.
Tick ==
  /\ Quiescent
  /\ \A r \in Requests : ~Due(r)
  /\ clock < MaxClock
  /\ clock' = clock + 1
  /\ UNCHANGED <<trust, shared, token, request>>

Step(r) ==
  \/ Arrive(r) \/ Lookup(r) \/ RememberMissing(r) \/ LoadStep(r)
  \/ ImportFails(r) \/ Verify(r) \/ Retry(r) \/ GiveUp(r) \/ Abort(r)

Next ==
  \/ \E r \in Requests : Step(r)
  \/ \E i \in Issuers, k \in Kids, x \in Keys \cup {NoKey} : Publish(i, k, x)
  \/ Tick

Spec == Init /\ [][Next]_vars

\* Continuations run, timers fire and time passes.  Nothing is promised of
\* the issuers, of the crypto calls or of arrivals.
Fairness ==
  /\ WF_vars(Tick)
  /\ \A r \in Requests : WF_vars(Lookup(r) \/ RememberMissing(r)) /\ WF_vars(Abort(r))

FairSpec == Spec /\ Fairness

-----------------------------------------------------------------------------
(* Properties.                                                             *)

verdict == [r \in Requests |->
  CASE outcome[r] = "none" -> "pending"
    [] outcome[r] = "verified" -> "accepted"
    [] OTHER -> "rejected"]

Trust == INSTANCE IssuerTrust WITH Window <- TTL + Deadline

\* A token is accepted only with a key its issuer publishes or published less
\* than TTL + Deadline ago, and each request gets one verdict: cache hits,
\* shared loads, answers overtaken by a rotation and the retry included
\* (getKey, getJwks, fetchAndCache and the retry of verifyJumpJwt).
ImplementsTrust == Trust!Spec

\* A kid its issuer publishes is never refused from the negative cache for
\* longer than TTL + NegTTL after it was published, whatever was cached, in
\* flight or joined when the refusal was remembered (getKey lines 50-66 and
\* rememberNegative).
NegativeBounded ==
  \A i \in Issuers, k \in Kids :
    upstream[i][k] # NoKey => negative[<<i, k>>] < since[i][k] + TTL + NegTTL

\* At most one load per issuer can still succeed, and it is the one in
\* inFlight; nobody waits for a load that has settled.  Deadlines that orphan
\* a load, shared failures and waiters that start the next load included
\* (getJwks lines 117-137).
SingleFlight ==
  /\ \A o \in Requests : OwnerLives(o) => inFlight[Iss(o)] = o
  /\ \A i \in Issuers : inFlight[i] # NoReq => Iss(inFlight[i]) = i /\ OwnerLives(inFlight[i])
  /\ \A r \in Requests : pc[r] = "waiting" =>
       load[waitOn[r]].state # "none" /\ Iss(waitOn[r]) = Iss(r)

\* The negative map never exceeds its cap, and its order ranks any two of its
\* entries, so that making room always finds a first one (rememberNegative
\* lines 79-90).
NegativeCapped ==
  /\ Cardinality(Live) <= MaxNegative
  /\ \A m, n \in Live : m # n => (<<m, n>> \in older <=> <<n, m>> \notin older)

\* A cached set is only ever replaced by one whose load started later: an
\* overtaken load never puts back the keys a refresh has removed
\* (fetchAndCache lines 142-146).
CacheNeverRegresses ==
  [][\A i \in Issuers : cache'[i] # cache[i] =>
       cache'[i].expiresAt >= cache[i].expiresAt]_cache

\* The inductive invariant behind the properties above.  A set read at or
\* after instant t explains itself: what it holds is published or was
\* withdrawn at t or later, and what it lacks was published at t or later.
HoldsSince(i, keys, t) ==
  \A k \in Kids :
    /\ keys[k] # NoKey => \/ upstream[i][k] = keys[k]
                          \/ left[i][k][keys[k]] # 0 /\ t <= left[i][k][keys[k]]
    /\ keys[k] = NoKey /\ upstream[i][k] # NoKey => t <= since[i][k]

Timely ==
  /\ clock >= 1
  /\ \A r \in Requests : pc[r] \in Active =>
       start[r] <= clock /\ clock <= start[r] + Deadline
  /\ \A r \in Requests : pc[r] \in {"waiting", "missing"} =>
       start[r] <= at[r] /\ at[r] <= clock
  /\ \A i \in Issuers : cache[i].expiresAt <= clock + TTL
  /\ \A n \in NegKeys : negative[n] <= clock + NegTTL

SetsExplained ==
  /\ \A i \in Issuers : cache[i].expiresAt # 0 =>
       HoldsSince(i, cache[i].keys, cache[i].expiresAt - TTL)
  /\ \A o \in Requests : load[o].state = "answered" /\ OwnerLives(o) =>
       HoldsSince(Iss(o), load[o].doc, at[o])

VerdictExplained(r) ==
  LET published == upstream[Iss(r)][Kid(r)]
      gone == left[Iss(r)][Kid(r)][held[r]]
  IN /\ pc[r] = "verifying" =>
          /\ held[r] # NoKey
          /\ held[r] = published \/ (gone # 0 /\ start[r] < gone + TTL)
     /\ pc[r] = "missing" /\ published # NoKey =>
          at[r] < since[Iss(r)][Kid(r)] + TTL
     /\ pc[r] # "done" => outcome[r] = "none"
     /\ pc[r] \in {"waiting", "verifying", "missing"} => KidEntry(r) \notin Revoked

VerdictsExplained == \A r \in Requests : VerdictExplained(r)

\* No set is newer than a load that can still succeed.
NotOvertaken ==
  \A o \in Requests : OwnerLives(o) => cache[Iss(o)].expiresAt <= at[o] + TTL

Explained ==
  SingleFlight /\ Timely /\ SetsExplained /\ VerdictsExplained /\ NotOvertaken
    /\ NegativeBounded

\* "Fetch timeouts, network errors, and upstream 5xx/429 use jwks_unavailable"
\* (core/public_error.ts lines 22-24): a request whose own time is not up does
\* not end in deadline_exceeded because the load it awaits is cut short
\* (fetchIssuerJwks lines 61-63, getJwks lines 117-121).
FetchTimeoutIsUnavailable ==
  [][\A r \in Requests :
       pc[r] = "waiting" /\ ~Due(r) /\ pc'[r] = "done"
         => outcome'[r] # "deadline_exceeded"]_vars

\* Every request that arrived is answered, whatever its issuer does.
EveryRequestEnds == \A r \in Requests : pc[r] \in Active ~> pc[r] = "done"
=============================================================================
