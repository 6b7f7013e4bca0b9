# TLA+ models of umaxica-apps-edge-jump

The Worker accepts a short lived token from a registered issuer, verifies it
against the key set the issuer publishes, and answers with a redirect that
carries a token of its own, with a cushion page for an external destination,
or with an error. These modules model the parts of it whose correctness
depends on time, concurrency, failures and order, and the rules for hosts, urls and
labels whose correctness depends on arithmetic and on several spellings of one
thing. Paths below are relative to
the repository; `cloudflare.ts`, `index.ts`, `core/` and `config/` are under
`src/`.

## 1. Inventory

| Component | State it keeps | Operations | What is hard about it | What makes it correct |
|---|---|---|---|---|
| Issuer JWKS cache (`core/jwks_cache.ts`) | per isolate: cached sets, negative entries in insertion order, loads in flight, refresh cooldowns | `getKey`, `getJwks`, `fetchAndCache`, `rememberNegative` | requests share loads, own and orphan them; answers travel while the issuer rotates; per request deadlines cut shared work | a token is accepted only with a key its issuer stands for, a published kid is not refused for long, one load per issuer, no overtaken set, capped memory, bounded fetching |
| JWKS fetch (`core/fetch_jwks.ts`, `core/deadline.ts`) | none | `fetchIssuerJwks`, `parseJwks`, `raceAbort` | every failure has a class; only one class is remembered | the document as a whole decides, not its order |
| Inbound verification (`core/verify_jwt.ts`) | none | `verifyJumpJwt`, `validateClaim` | a retry with a forced refresh; `jwtVerify` is the one await that is not raced against the deadline; boundaries of dates | see cache, dates and request |
| Jump handler, outbound token (`core/handle_jump.ts`, `core/sign_outbound.ts`) | none | `handleJump`, `buildInternalLocation` | the second is captured before the waiting | no renewal of a token through the service, no early or late acceptance |
| Signing material (`cloudflare.ts` 281-488) | per isolate and binding bundle: promise of material per revision and kid | the key material provider's `get`, `loadKeyMaterial` | three bindings read at three instants, shared loads, failed and expired entries | a signature is made with what is published, withdrawn keys go out of use, no failed load stays |
| Adapter and dispatch (`cloudflare.ts` 38-280) | per binding bundle: the bound application with its issuer cache, the cache of signing material | `fetch`, `dispatch`, `getApp`, the limiter, `raceWithDeadline` | the deadline answers while work continues; the bundle is edited or deployed anew while a request waits | one answer, no call that was not earned; a request is served under the identity it was validated against |
| Application (`index.ts`) | `pendingAudit` of a request | routes, slash trimming, `notFound`, `withDeadline`, `onError`, `createApp` | the audit entry is written before the race is decided and logged after it; a path is trimmed by a redirect that repeats the query | the log tells what was answered; a token is never handed to a page or a redirect that repeats it |
| Registry and policy (`config/registry.umaxica.ts`, `core/registry.ts`, `core/policy.ts`) | the tables and the map built from them | `buildRegistry`, `validateRegistry`, `assertDestinationPolicy` | rows rejected one by one; walks of several jumps | nothing lost, no walk across top level domains |
| Public JWKS (`core/jump_jwks.ts`) | none | `validateJumpJwks` | different rules than for issuers | readable by a reader with the issuers' rules |
| Public errors (`core/public_error.ts`) | none | status of a code | - | one status per code |
| URL normalisation, host policy (`core/normalize_url.ts`, `core/policy.ts`) | none | `normalizeUrl`, `normalizeOrigin`, `validateInternalTarget`, `validateServiceOrigin`, `isForbiddenHost` | octet ranges, masks and embedded addresses; a host judged in two spellings at two times; the url serialised once for the signature and once for the browser | exactly the special-purpose blocks are refused, the lists decide, the receiver finds the url that was signed |
| IDNA conversion (`core/idna.ts`) | none | `unicodeHostname`, `decodePunycode`, `adapt` | the bias adapts after every code point | the user is shown the host the link leads to |
| Security log (`core/security_log.ts`) | none | `emitSecurityLog` | - | which entries are written is in the request model; redaction is not modelled |
| Pages, i18n, escaping, headers, health | none | - | rendering only | not modelled, but for the host on the cushion page |

How they interact: a request passes `dispatch` (origin, method, query, rate
limiter), then an asset or a route of the application. The root route calls
`handleJump`, which awaits the issuer cache (shared by all requests of the
isolate), the signature check and, for an internal target, the key material
(shared as well). One abort signal per request reaches every await but one.
Requests meet only in the two caches and in the bound application that holds the
first of them.

## 2. Modules

| Module | Models | State and actions against the code |
|---|---|---|
| `IssuerTrust` | abstract specification of verification | a verdict per request; `Accept` needs a key published now or less than `Window` ago |
| `JwksCache` | `jwks_cache.ts`, the key flow of `verify_jwt.ts`, outcomes of `fetch_jwks.ts` | `cache`, `negative` + `older` (a JavaScript `Map` with its order), `inFlight`, `nextForced` are the four maps of the class; `load[o]` is the promise request `o` put into `inFlight`; `stage` tells the plain call of `getKey`, its forced repetition and the retry after a bad signature |
| `JwksCacheLoad` | `JwksCache` with history of loads and outages | adds variables only, `NextL` is `Next` and their updates |
| `JwksCacheProofs` | theorems about the two | |
| `KeyMaterial` | signing material | `entries[k]` names the load whose promise is cached, `load[o]` is that promise with what it has read so far; each binding is read by a step of its own |
| `KeyMaterialProofs` | theorems about `KeyMaterial` | |
| `AppBinding` | `getApp` and the two caches per binding bundle across deployments, rollbacks and live edits | `apps`, `entries` are the two `WeakMap`s; `Bind` is `getApp` after the limiter has answered; `ReadKid`, `FindEntry` or `StartLoad`, and `ReadSecret` are the instants at which the key material cache reads the kid, the revision and the private key; `load[o]` is the load request `o` started; an entry may go (`Drop`) and a check fail at any time, when they do is in `KeyMaterial` |
| `AppBindingProofs` | theorems about `AppBinding` | |
| `JumpContract` | abstract specification of one request | `Grant`, `Inform`, `Refuse` |
| `JumpRequest` | adapter, application with all its routes, `handleJump` | `pc` is the await the request is at; `aborted` the signal; `audit` is `pendingAudit`; `log` the security log; `reached` the dependencies called |
| `JumpRequestProofs` | theorems about `JumpRequest`, the refinement of `JumpContract` among them | |
| `ClaimTime` | `jwtVerify`'s dates, `validateClaim`, outbound dates | time in fractions of a second; `now` is the captured second |
| `ClaimTimeProofs` | theorems about `ClaimTime` | |
| `KeySetRules` | `parseJwks` step by step, `validateJumpJwks` | `doc` is any document up to `MaxKeys` members, `index`, `usable` and `seen` are the loop's variables |
| `KeySetRulesProofs` | theorems about `KeySetRules` | |
| `Registry` | building the registry, and users who follow jumps | a row per step; then `Jump` is one accepted internal jump |
| `RegistryProofs` | theorems about `Registry` | |
| `HostPolicy` | which hosts are refused | the comparisons of the code, and the prefixes of the address registries bit by bit as the reference |
| `Idna` | decoding of `xn--` labels | the decoder of the code, and the encoder of RFC 3492 as the reference (URL parsing does the encoding) |
| `Destination` | service origin and registry at start-up, url and policy per request, the signed url, the Location and the receiver of the contract test | a case runs through `Start`, `Refuse`, `Cushion`, or `Sign`, `Redirect`, `Follow` |
| `DestinationProofs` | theorems about `Destination`, about `HostPolicy` for every host and about `Idna` for every label | |
| `MC_*` | instances for TLC | symmetry and constant functions |

Conventions. JavaScript runs to completion, so what a handler does between two
awaits is one step, and continuations of a settled promise come before timers
and I/O (`Quiescent`). A step models the whole handler, its `finally` and `catch`
included. What cannot be seen by another request is left in the same step: a
settled load, its owner's `finally` and the fate of its waiters are one action
because the owner's continuation is queued first. One exception is needed and
modelled: `Map` lookups in `KeyMaterial` are separated from the `await` of what
was found (`Find`, then `Hit` or `StartLoad`), because several requests can
resume on the same expired entry.

Abstractions. A key is a model value, a token is issuer, kid and signing key (or,
in `JumpRequest`, the set of its faults); a url is its authority, the kind of fault
in the rest and the spellings of its parameters; digests, headers, redaction and wording
are left out. Issuers, bindings and crypto calls answer anything at any time, or never.

The definitions "Mutation of X" before some definitions describe a plausible slip
in the code for X; no specification uses them. They are listed in `PROJECT.json`,
each with the property that breaks when X is replaced by it.

## 3. Runs

| Run | Question | Bounds and why they are enough |
|---|---|---|
| `jwks_edges` | the cap of the negative map; termination | 2 issuers, cap 1, a revoked kid, a key that cannot be imported: every way a request can end occurs; `FairSpec`. With one entry at most its order has nothing to rank: that, and renewal among several entries, rests on the theorem `NegativeIsCapped` |
| `jwks_load` | trust, negative entries, single flight, no regress, the inductive invariant, number and spacing of loads, effect of an outage | 2 requests, 1 kid, 2 keys, 4 instants, 2 publications: one request can own a load while the other joins, is orphaned, or starts the next, with rotation in place, withdrawal and republication in between; TTL 2 and deadline 1 keep "deadline < TTL" and allow expiry within the run; a cooldown equal to the TTL holds forced refreshes back within it |
| `jwks_timeout` | finding 1 | violation expected |
| `key_rotate` | matching pairs, retirement | 2 kids, 2 keys, 2 requests, 1 edit of any binding (the start states are all consistent configurations and any other content of the key set), 5 instants so that entries expire after the edit |
| `key_shared` | shared, failing, expired and replaced loads; termination | 3 requests on one kid: a creator, one who joins and one who resumes on the expired entry |
| `key_mismatch` | finding 2 | violation expected |
| `request` | one final answer, earned calls, truthful log, no echo of a token, answered | complete: every combination of method, kind of path, query, content negotiation, faults and bindings, no bound besides the two signature checks the code makes |
| `claims` | dates | two ticks per second give whole and fractional dates; every iat, nbf, exp within the clock's range, drifts beyond the skew on both sides |
| `keyset` | documents | every document of up to 3 members over 2 kids, which has duplicates, a private member before and after usable ones, and none usable |
| `destination` | hosts, lists, spellings, shown hosts | every host on both sides of each bound of the rules, as the service and as a listed host; every mix of lists and spellings over three hosts; queries of up to three parameters in every spelling (two full ones, the third of a smaller set), so that order, repeated names and reserved names in disguise occur; every label of up to 4 code points out of 8 from four ranges, so that a number takes one digit or several, places and code points repeat, and the bias is adapted the first time and again (the theorem covers the rest) |
| `binding` | identity, warm caches, what a signer is made of | 2 requests, 2 bundles, 2 origins, 2 private keys, one version besides none, 2 edits: away and back, which is a rollback, also with label and key read on either side of a deployment, or two fields one after the other, while either request waits at any await; one kid, since several kids are in `key_rotate` and the theorem takes any number |
| `registry` | tables and walks | every node table of up to 3 rows and edge table of up to 2 over 3 ids in 2 domains, a malformed id, an unsafe origin and the service's own; two edges make the shortest walk that could leave a domain |

Deadlock checking is off throughout: requests are served once and the clock is
bounded, so every behaviour of the bounded instance stops.

The real values are TTL 30 s, negative TTL 30 s, cooldown 10 s, deadline 1 s, cap
1024 for the issuer cache, 300 s for key material, skew 5 s and lives of 30 s. The
instances keep their order where a property needs it; the proofs need only what
the `ASSUME`s say. Those about
loads assume deadline < cooldown besides (`CooldownAssumption`).

Fairness (`FairSpec`): continuations run, timers fire and time passes, which the
JavaScript runtime promises. Nothing is promised of issuers, bindings, the
limiter, assets or crypto, so termination rests on the deadline alone, as in
the code. The model of a request charges CPU work no time: a synchronous stretch
never starves a timer.

### What the main properties say

* `ImplementsTrust`: caching, sharing, forced refresh and retry together never
  accept a token with a key its issuer stopped publishing more than TTL + deadline
  ago, nor under a revoked kid, and a verdict is final.
* `NegativeBounded`: a kid refused from the negative cache was published less than
  TTL + negative TTL ago, even when remembered on the strength of an old shared load.
* `LoadsSpaced`, `AtMostTwoLoads`: refusals do not turn into traffic. Rejected
  documents and deadlines are excused, because the code does not remember them, and so
  are outages whose negative entry has been evicted to make room.
* `RefusedOnlyAfterOutage`: though a negative entry outranks a cached set, only a fresh
  outage of the token's own issuer refuses it as unavailable, and a later success ends
  that at once.
* `Matched`, `Retires`, `EntriesSound`: rotation of kid, PEM and key set one binding
  at a time never leaves the isolate signing with what it does not publish;
  withdrawn private keys are used for at most TTL + 2 deadlines, published sets
  TTL + deadline. The documents call live edits under one kid unsupported
  (`docs/architecture.md`); the model allows them all the same.
* `ImplementsContract`, `LogTellsAnswer`, `CallsAreEarned`: late work changes neither
  answer nor log (`docs/security.md` 29-30), and each dependency is called only for
  requests that passed what precedes it.
  The contract grants a page or a trimming redirect only to queries without `rt`, so
  a token never returns in a Location or reaches a page.
* `ServedAsValidated`, `SignsWithOwn`, `StaysWarm`: whatever happens to the bundle between
  two awaits, a request is served under the identity its origin was validated for and
  signs with material of its own bundle, under a revision and a kid that were in force
  while it ran; the private key was in force while the material was loaded, and is that of
  the label if the bundle did not change meanwhile; an unchanged bundle keeps its issuer
  cache.
* `HostsExact`, `ListDecides`: the arithmetic is the list of blocks, and what the registry
  could list is what a url reaches, however it spells the origin.
* `ReceiverAccepts`, `MeaningKept`: serialising for the signature and again for the
  browser leaves the receiver the url that was signed, with the parameters that the
  issuer wrote.
* `ShownTruly`: the cushion page names the host the link leads to, and warns if it is not
  ASCII.
* `HonouredInTime`, `RegularHonoured`, `ExchangeIsBounded`: the three sides of the
  date arithmetic: not too much, not too little, and no renewal.
* `VerdictIgnoresOrder`, `KidsResolve`, `PublishedIsReadable`: the walk that stops early
  decides as the whole set would.
* `NothingLost`, `WalksStayInside`: tables and registry agree, and no chain of jumps
  leaves its top level domain.

## 4. Proofs

`JwksCacheProofs` proves, for any finite sets of requests, issuers and kids, any
keys and any times with deadline < TTL: `TypeCorrect`, `ExplainedAlways`,
`NegativeIsBounded`, `NegativeIsCapped`, `FlightIsSingle`, `CacheAdvances` and the
refinement `CacheImplementsTrust`.

The argument. `NegativeBounded` and the refinement are not inductive: whether a
refusal or an acceptance is justified depends on where the set came from. The
invariant `Explained` therefore traces every set back to an instant. A set read
at or after t *explains itself* (`HoldsSince`): what it holds is published or was
withdrawn at t or later, what it lacks was published at t or later. A cached set
explains itself since `expiresAt - TTL`, an answered load since its owner's `at`
(`SetsExplained`). `Timely` bounds how far `at` lies behind the clock, so that a
request at work (`VerdictsExplained`) holds a key that is published or left
recently, and a kid about to be remembered as missing was not published long ago.
`SingleFlight` is needed because a waiter's set is its owner's, and `NotOvertaken`
(no cached set is newer than a load that can still succeed) makes a write to the
cache an advance. Each action preserves the parts it touches by the lemmas about
the helpers (`Retain`, `RememberNegative`, `Finish`, `Deliver`, `Released`); the
action property and the refinement then follow from single steps. `jwks_load`
checks `Explained` as an invariant as well.

`NegativeIsCapped` rests on an invariant of its own, `Ranked`: insertion order is a strict
total order of the live negative entries. Only then does keeping the last
`MaxNegative - 1` entries of the order leave that many entries and no more
(`LastFew` counts them), so that the new one fits; were two entries unordered, both
would survive an eviction.

Of `JwksCacheLoad` the same module proves `LoadsAreAccounted`, `TwoLoadsAtMost`, `LoadsAreSpaced` and
`RefusalsFollowOutages`. The invariant `LoadsAccounted` accounts for each load by what it
left behind. `Frugal` says of a request at each await what it may still cause: after
its own refresh, the set that refresh brought and the cooldown it started outlast the
request (`Provided`), so that a third call is served from the cache; this is where the
deadline must be below both times. `Kept` says of an issuer's last load that it is in
flight, or left a set or a negative entry that still stands, or is old; `Spaced` adds the
load before it, which may have left its set to a forced refresh only when the cooldown
then held the next one back. `Held` ties a negative entry to the last outage, which is
what a refusal is explained by. `Owned` (a pending load has a live owner or one that has
ended) keeps an orphaned load from writing history. None of it follows from
`Explained`, which is used all the same for `Timely`.

`ClaimTimeProofs` proves `TypeCorrect`, `HonouredOnlyInTime`, `ExchangesAreBounded` and
`RegularIsHonoured` for any length of a second, skew, lives, deadline, drift and
clock range; the skew must be whole seconds (`UnitsAssumption`). The invariant is
`Captured`: the second a request judges by is that of its arrival, at most a
deadline ago. The rest is arithmetic of rounding: `Floor` is monotone
(`FloorMonotone`) and commutes with the skew (`FloorShift`), hence an issuer's
rounded dates stay within the tolerance on both sides (`DriftIsTolerated`).

`AppBindingProofs` proves `TypeCorrect`, `ServedAsAlwaysValidated`, `SignsAlwaysWithOwn` and
`StaysAlwaysWarm` for any requests, bundles, origins, revisions, kids, private
keys and number of edits. The invariant is `Traced`: the caches of all applications still referred to,
bound or serving, are numbers given out already, and one number means one
application of one bundle (`CachesTraced`); what a request's bundle holds is
in its history for as long as it runs (`HistoryTraced`), a load is pending only while its
creator waits and has a label and a key its creator met (`LoadsTraced`), and who waits
for a load or is signed with it has its bundle, its kid and a revision it met itself
(`WaitersTraced`). Without the first half two bundles could be given the same cache
number; without the second an old entry could carry a label that the request never saw,
or a key that was never in force while it was loaded.

`KeyMaterialProofs` proves `TypeCorrect`, `AlwaysMatched`, `EntriesAlwaysSound` and
`AlwaysRetires` for any requests, kids, keys and edits and any life and deadline above
zero. The invariant is `Justified`. `Flow` traces a waiting, resuming or signing request
to the load it stands on and that load to its kid; `Checked` says what a load has passed
when it is where it is, so that ready material has a pair; `Timely` keeps every request
within its deadline and material younger than its life when it is given out;
`Configured` says of every value in use that it is still configured or left no earlier
than `Origin`: the start of the load while it reads, `expiresAt - TTL - Deadline` once
the material is ready, when the start is forgotten. `Retires` compares what a signature
is made of with the time its parts were withdrawn and follows from `Configured` and
`Timely` in one step. The steps are few in kind (`StepKinds`: a load fails, advances or
succeeds, a request leaves), and each part is proved per kind.

`KeySetRulesProofs` proves `TypeCorrect`, `VerdictAlwaysIgnoresOrder`, `KidsAlwaysResolve`
and `PublishedAlwaysReadable` for documents of any length over any kids, where the run
stops at three members. The invariant `Walked` says what the members looked at so far
have come to: none offends, `seen` is the kids of the usable ones (`Read`), `usable` is
these in their order (`Kept`), and a verdict of distrust has an offence in the document
(`Judged`).

`RegistryProofs` proves `TypeCorrect`, `NothingIsLost` and `WalksAlwaysStayInside` for any
ids, origins and top level domains and tables of any length. The invariant `Assembled`
counts rows: the first `row` rows of the node table are the nodes, one to one, with
as many origins as rows (`NodesIn`, by `FS_AddElement`), and an origin is allowed from
another exactly when the pair of their ids is among the first `row` edges, whose ends
share a top level domain (`EdgesIn`). That origins determine ids is what lets a walk
over origins be read as a walk over ids.

`JumpRequestProofs` proves `RequestTypes`, `CallsEarned`, `LogIsTrue` and the refinement
`RequestImplementsContract`. The run of `JumpRequest` is exhaustive already; the proof
adds the argument. The invariant `Consistent` says for each await what the request has
passed to be there, and that only the one await that outlives the deadline can be found
with an answer given; until then nothing but a skipped audit is logged. `Sound` joins it
with the two properties. Each step is then one of
five kinds (`StepSeen`): it errs, informs, grants, goes on, or its result is dropped because
the answer is out; the first three are the contract's `Refuse`, `Inform` and `Grant`, the
others stutter.

`DestinationProofs` proves `HostsAreExact`, `ListAlwaysDecides`, `ReceiverAlwaysAccepts`,
`MeaningIsKept` and `HostIsShownTruly` for every set of cases that `CasesAssumption`
allows: any hosts of `Hosts` (all IPv4 and IPv6 addresses and all labels among them) as
service, issuer, entry of a list or destination, and any query of pairs of texts. The run
takes hosts on both sides of each bound, labels of up to four code points and queries of
up to three parameters.

* Hosts. `HostRules` says that the code refuses an address exactly if its bits begin with
  those of a block. A word is determined by its leading bits (`Leading`), so a prefix of
  whole words compares words (`BitsAreWords`) and a prefix that ends within a word
  compares the quotients of its last one (`Block`). This turns each block into a range of
  octets (`Ipv4Exact`, `ServiceIpv4Exact`) or into a mask of groups (`Masks`); the union
  of the ranges is the code's list of comparisons. Embedded addresses need that the bits of
  two groups are the bits of the four octets of `Octets` (`EmbeddingExact`). The code
  sees an IPv6 address as `URL.hostname` writes it, hence `ExpandIpv6Exact`: for whichever
  run of zeros is left out, expansion gives the eight groups back.
* Lists. A canonical origin is determined by its host (`Canonical`); the origins in
  force have passed the same judgement as the url, so membership is all that is left.
* Queries. `Decode` undoes `Encode` on everything `Decode` can yield (`Coding`), so a
  written query reads back (`ReadsBack`), and so does a written query with the token
  appended (`LocationReads`). Without the token the receiver is left with the pairs that
  were signed (`ReceiverAgrees`); that the target has no `rt` makes the token's place
  unique. `Decode` and `Encode` are a table of representative spellings (`+`,
  `%20`, escapes that need not be, names of `rt` in disguise) and the identity elsewhere.

* Labels. `DecodesBack` says that `decodePunycode` undoes the encoder of RFC 3492 on every
  label. Both sides are recursive functions, and the library's induction and recursion
  theorems take an operator as parameter, which no prover here can instantiate; but `<` is
  well-founded on the natural numbers, and that gives induction for sets (`Induction`,
  `Descent`) and a recursion theorem for functions (`Recursion`: a definition whose calls
  go down in a measure has a solution; `Agreement`: no other). With them each loop is the
  step its text says: `ScaleSteps`, `ReadSteps`, `InsertSteps` of the code,
  `WriteSteps`, `NumbersSteps` of the encoder. From there on:
  - The decoder reads the number that was written (`NumberReads`), by induction over the
    number: the weight of a digit is the product of what the thresholds before it left.
  - The encoder takes the number of steps of `adapt` from a bound instead of looping, and
    `ScaleIs` shows the same bias for any distance that five steps suffice for. Labels of at
    most 63 code points below 17 * 2^16 stay far below that (`Near`, `DistanceArithmetic`).
  - `Sound` is the encoder's invariant: a code point that is not in yet is above the current
    one, or equal to it and not left of the current place, so every distance is a natural
    number, and dividing where it leads to by the length yields code point and place again
    (`Ahead`, `FurtherSound`).
  - A part of a label with one more position is the part with one code point inserted at
    the rank of that position (`PartInsert`). Hence, number by number, the decoder's next
    state is the one that belongs to the encoder's next (`Follows`), and going back from
    the last, where the decoder has the whole label, its result is the label from the
    first state on (`AllFollow`).
  - The digits are no hyphens, so the last hyphen is where the ASCII part ends, or there is
    none (`DecodesBack`).

The invariant `DestinationInv` says what the case has passed in each phase, by judgements
about the case alone, which no step changes (`CaseDecides`): whether the configuration was
accepted, whether the url was, what is signed, where the browser is sent, and what the
cushion page was given (`ShownAsMeant`). The texts of
the model stand for classes of names (`rt[]` for everything that begins with `rt[`, `state`
for every single-valued name), so a query of the theorem is one over these classes.

A label of the theorems is what URL parsing encodes: 1 to 63 code points (it has at most 63
octets in the DNS), and not itself in the encoded form `xn--`, which URL parsing would leave
as it is. Mapping and validity of code points (UTS 46) are not modelled; the theorem needs
nothing of them. Nor are the checks of hyphens and lengths in a service's own name worked
out for such labels: a name that fails them is "misspelt", a kind of name of its own.

Only model-checked: liveness (`EveryRequestEnds`, `Answered`), which is out of the prover's
reach. Every safety invariant, action property and refinement that a passing run checks is
proved.

## 5. Findings and observations

1. `jwks_timeout`: `core/public_error.ts` 22-24 says "Fetch timeouts, network errors, and
   upstream 5xx/429 use `jwks_unavailable`", whereas a fetch cut by the deadline of the
   request that owns it ends in `deadline_exceeded` (`core/fetch_jwks.ts` 61-63), also for
   the requests that joined it and have time left. `docs/architecture.md` describes the
   shared failure ("One aborted shared load can fail its waiters closed").
2. `key_mismatch`: the catch around the pair check (`cloudflare.ts` 395) has no
   `throwIfAborted(signal)`, unlike the one around the imports (382). A deadline that
   falls into the check is logged as `key_pair_mismatch`, which
   `docs/operations/deployment-verification.md` 56-63 calls a configuration incident,
   and the requests that joined get 503 instead of 504.

Behaviour met on the way that no document contradicts:

* An issuer's negative entry is consulted before its cached set: one failed forced
  refresh refuses tokens a fresh set could verify, for up to the negative TTL.
* A kid that is unknown while the refresh cooldown runs is remembered as unknown
  without a fetch.
* A rejected document (`jwks_bad_gateway`) is not remembered; each request asks again.
* The cooldown can be undercut: when the cached set expires during it, the next
  call loads.
* Requests that resume on the same expired key material each start a load, the later
  one replaces the entry of the earlier, and a failing one deletes whatever is there
  (`cloudflare.ts` 326-346). No harm follows (`EntriesSound`), only extra loads.
* The comment at `cloudflare.ts` 48-49 speaks of entries by kid; they are by revision
  and kid.
* A deadline inside a route is logged twice under one request id, by `onError` and by
  the adapter; `LogTellsAnswer` shows that both say the same.
* `jwtVerify` is the only await that outlives the deadline.
* After a live edit of the origin, requests of both origins can be waiting for the
  limiter; each then replaces the other's application, so that one identity starts
  with a cold issuer cache and a fresh cooldown several times. `StaysWarm` therefore
  speaks of the time after the last of them is bound.
* Material cached before a rollback is used again after it, if it has not expired. Its
  label is read before its secrets (`cloudflare.ts` 323, 356-359), so a bundle deployed
  anew in between leaves the secrets of the new revision under the label of the old one,
  and a request after a rollback signs with them. `SignsWithOwn` therefore ties the key to
  the label only when the bundle did not change during the load. What is signed with still
  is the pair of a published key (`Matched`), so that with one key per kid, as
  `docs/operations/key-rotation.md` 46 demands, the key is the one the kid stands for.
* The comment at `cloudflare.ts` 39 says that bundles never share issuer caches;
  `ServedAsValidated` shows it, also for applications already replaced.
* The application repeats the query check of the adapter; behind the adapter the
  repetition never refuses anything.

* With the deadline equal to the cooldown a request could cause a third load at the
  instant its time is up. The code has 1 s against 10 s; `CooldownAssumption` states
  what is needed.
* A full negative map evicts its oldest entry (`core/jwks_cache.ts` 79-90), be it an
  issuer's outage: the issuer is then asked again within the negative TTL. `LoadsSpaced`
  excuses it (`Evicted`).

## 6. Not modelled, and the plan

Done, in this order: the issuer cache and its proofs, the key material, the request,
the sequential rules, then the applications per binding bundle with their proofs,
the rules for hosts, urls and labels, and the proofs of the key material,
the key set rules and the registry, those of the cap, the loads, the request and the
destination, and last that of the labels.

Dropped: a composition of `JumpRequest` with both caches. `JumpRequest` already takes
any answer of either cache at any time or none, the caches share no state with each
other, and the verdicts a request relies on are the caches' own refinement and
invariants; the product would only repeat both state spaces.

Left to do: larger instances of `jwks_load` (two issuers with outages) if they can be
afforded; the theorems hold for any number of issuers.

Left out for good: pages, headers, escaping and translations (rendering without
state), except the host on the cushion page; redaction in the security log; byte
counting of bodies; the cryptography itself. The sweeps that `cloudflare.ts` puts off
to a later microtask are one step with the turn that queues them: all continuations
of that turn have read the same kid, so no other request can tell.
