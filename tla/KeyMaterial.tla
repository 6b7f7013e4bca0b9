---------------------------- MODULE KeyMaterial ----------------------------
(***************************************************************************)
(* Jump's own signing material in one isolate (cloudflare.ts, lines        *)
(* 281-488): the active kid is read for every request, the private key and *)
(* the public key set are loaded together, pair checked and cached under   *)
(* the kid for TTL, and concurrent requests share one load.                *)
(*                                                                         *)
(* The three bindings are live: an operator may edit them one at a time,   *)
(* and each is read at its own instant.  As in JwksCache, the code between *)
(* two awaits is one step and continuations run before the next event, so  *)
(* the callbacks of a settled load (the waiters' answers, the creator's    *)
(* catch, the sweep's deletions) belong to the step that settles it.  A kid*)
(* that is a plain variable is read without I/O, so the continuations of   *)
(* several requests, resumed together by one key fetch, may interleave.    *)
(* They all read the same kid then, so the sweep's deletions, a few        *)
(* continuations late, hit the entries they were meant for: one step.      *)
(* The revision, the other half of an entry's key, is that of one          *)
(* deployment here; AppBinding is about the change of it.                  *)
(***************************************************************************)
EXTENDS Integers, FiniteSets

CONSTANTS
  Requests,      \* requests that sign a token or publish the key set, once each
  Kids,          \* key identifiers
  Keys,          \* key pairs: the PEM holds the private, the JWKS the public half
  Unimportable,  \* keys importPKCS8 or importJWK rejects
  NoKid, NoKey, NoReq,
  TTL,           \* life of the imported material
  Deadline,      \* time a request may take
  MaxClock,      \* bound: the last instant considered
  MaxEdits       \* bound: changes of the bindings

ASSUME NamesAssumption == NoKid \notin Kids /\ NoKey \notin Keys /\ NoReq \notin Requests
ASSUME BoundsAssumption ==
  /\ {TTL, Deadline} \subseteq Nat \ {0} /\ {MaxClock, MaxEdits} \subseteq Nat
  /\ Unimportable \subseteq Keys /\ IsFiniteSet(Requests)

VARIABLES
  clock,
  activeKid,   \* UMAXICA_JUMP_PRIVATE_KEY_KID, NoKid when absent
  pem,         \* UMAXICA_JUMP_PRIVATE_KEY_PEM, NoKey when absent
  jwks,        \* UMAXICA_JUMP_PUBLIC_JWKS: kid -> key; all NoKey when absent or invalid
  kidLeft,     \* history: when the kid last stopped being the active one
  pemLeft,     \* history: when the key last stopped being the private key
  jwksLeft,    \* history: when kid -> key was last taken out of the key set
  edits,       \* history: how often a binding was edited
  entries,     \* kid -> the request whose load is cached under it, or NoReq
  load,        \* request -> the load it created
  pc,          \* request -> where its handler is
  kid,         \* request -> the active kid it read
  start,       \* request -> when it began
  waitOn,      \* request -> the creator of the load whose material it awaits or uses
  outcome,     \* request -> how it ended
  mismatch     \* creators whose load reported key_pair_mismatch

bindings == <<activeKid, pem, jwks, kidLeft, pemLeft, jwksLeft, edits>>
request  == <<pc, kid, start, waitOn, outcome>>
vars == <<clock, bindings, entries, load, request, mismatch>>

-----------------------------------------------------------------------------
KeySets == [Kids -> Keys \cup {NoKey}]
NoSet == [k \in Kids |-> NoKey]
Pending == {"reading", "importing", "pairing"}
Loads == [state : Pending \cup {"none", "ready", "failed"}, kid : Kids \cup {NoKid},
          pem : Keys \cup {NoKey}, jwks : KeySets, left : SUBSET {"pem", "jwks"},
          expiresAt : Nat]
NoLoad == [state |-> "none", kid |-> NoKid, pem |-> NoKey, jwks |-> NoSet,
           left |-> {}, expiresAt |-> 0]

TypeOK ==
  /\ clock \in Nat /\ edits \in Nat
  /\ activeKid \in Kids \cup {NoKid} /\ pem \in Keys \cup {NoKey} /\ jwks \in KeySets
  /\ kidLeft \in [Kids -> Nat] /\ pemLeft \in [Keys -> Nat]
  /\ jwksLeft \in [Kids -> [Keys -> Nat]]
  /\ entries \in [Kids -> Requests \cup {NoReq}]
  /\ load \in [Requests -> Loads]
  /\ pc \in [Requests -> {"idle", "naming", "lookup", "resuming", "waiting",
                      "signing", "done"}]
  /\ kid \in [Requests -> Kids \cup {NoKid}]
  /\ start \in [Requests -> Nat]
  /\ waitOn \in [Requests -> Requests \cup {NoReq}]
  /\ outcome \in [Requests -> {"none", "signed", "published", "signer_unavailable",
                               "deadline_exceeded"}]
  /\ mismatch \in SUBSET Requests

Init ==
  /\ clock = 1 /\ edits = 0
  /\ activeKid \in Kids /\ pem \in Keys /\ jwks \in KeySets /\ jwks[activeKid] = pem
  /\ kidLeft = [k \in Kids |-> 0] /\ pemLeft = [x \in Keys |-> 0]
  /\ jwksLeft = [k \in Kids |-> [x \in Keys |-> 0]]
  /\ entries = [k \in Kids |-> NoReq]
  /\ load = [r \in Requests |-> NoLoad]
  /\ pc = [r \in Requests |-> "idle"]
  /\ kid = [r \in Requests |-> NoKid]
  /\ start = [r \in Requests |-> 0]
  /\ waitOn = [r \in Requests |-> NoReq]
  /\ outcome = [r \in Requests |-> "none"]
  /\ mismatch = {}

Quiescent == \A r \in Requests : pc[r] \notin {"lookup", "resuming"}
Running(r) == pc[r] \notin {"idle", "done"}
\* Mutation of Due: the wait for a load is not raced against the deadline.
DueUnlessWaiting(r) ==
  Running(r) /\ pc[r] # "waiting" /\ clock >= start[r] + Deadline

Due(r) == Running(r) /\ clock >= start[r] + Deadline
Creates(r) == pc[r] = "waiting" /\ waitOn[r] = r   \* awaits the load it created
Waiters(o) == {r \in Requests : pc[r] = "waiting" /\ waitOn[r] = o}
\* Mutation of Expired: entries never expire.
NeverExpired(e) == FALSE

Expired(e) == e # NoReq /\ load[e].state = "ready" /\ load[e].expiresAt <= clock

\* The handlers of R end; waitOn keeps what they used.
Ends(R) ==
  /\ pc' = [r \in Requests |-> IF r \in R THEN "done" ELSE pc[r]]
  /\ kid' = [r \in Requests |-> IF r \in R THEN NoKid ELSE kid[r]]
  /\ start' = [r \in Requests |-> IF r \in R THEN 0 ELSE start[r]]

Finish(r, code) ==
  /\ Ends({r})
  /\ outcome' = [outcome EXCEPT ![r] = code]
  /\ UNCHANGED waitOn

\* The requests R get the material of o's load: a signature is one more await
\* away, the key set of a discovery request is published at once.
Deliver(R, o) ==
  \E P \in SUBSET R :
    /\ pc' = [r \in Requests |-> IF r \in P THEN "done" ELSE IF r \in R THEN "signing" ELSE pc[r]]
    /\ kid' = [r \in Requests |-> IF r \in P THEN NoKid ELSE kid[r]]
    /\ start' = [r \in Requests |-> IF r \in P THEN 0 ELSE start[r]]
    /\ outcome' = [r \in Requests |-> IF r \in P THEN "published" ELSE outcome[r]]
    /\ waitOn' = [r \in Requests |-> IF r \in R THEN o ELSE waitOn[r]]

-----------------------------------------------------------------------------
\* A redirect reaches its signer, or /.well-known/jwks.json is requested.
Begin(r) ==
  /\ Quiescent
  /\ pc[r] = "idle"
  /\ clock + Deadline <= MaxClock
  /\ pc' = [pc EXCEPT ![r] = "naming"]
  /\ start' = [start EXCEPT ![r] = clock]
  /\ UNCHANGED <<clock, bindings, entries, load, kid, waitOn, outcome, mismatch>>

ReadKid(r) ==
  /\ pc[r] = "naming" /\ activeKid # NoKid
  /\ kid' = [kid EXCEPT ![r] = activeKid]
  /\ pc' = [pc EXCEPT ![r] = "lookup"]
  /\ UNCHANGED <<clock, bindings, entries, load, start, waitOn, outcome, mismatch>>

\* Mutation of NoActiveKid: the reason that is logged becomes the code.
NoActiveKidWorded(r) ==
  /\ Quiescent
  /\ pc[r] = "naming"
  /\ Finish(r, "missing_active_kid")
  /\ UNCHANGED <<clock, bindings, entries, load, mismatch>>

\* The binding is empty, or its get() throws: missing_active_kid.
NoActiveKid(r) ==
  /\ Quiescent
  /\ pc[r] = "naming"
  /\ Finish(r, "signer_unavailable")
  /\ UNCHANGED <<clock, bindings, entries, load, mismatch>>

Join(r) ==
  /\ pc[r] = "lookup"
  /\ LET e == entries[kid[r]] IN
       /\ e # NoReq /\ load[e].state \in Pending
       /\ waitOn' = [waitOn EXCEPT ![r] = e]
  /\ pc' = [pc EXCEPT ![r] = "waiting"]
  /\ UNCHANGED <<clock, bindings, entries, load, kid, start, outcome, mismatch>>

\* A settled entry is awaited all the same: r resumes after whatever the other
\* continuations have done to the entry meanwhile.
Find(r) ==
  /\ pc[r] = "lookup"
  /\ LET e == entries[kid[r]] IN
       /\ e # NoReq /\ load[e].state = "ready"
       /\ waitOn' = [waitOn EXCEPT ![r] = e]
  /\ pc' = [pc EXCEPT ![r] = "resuming"]
  /\ UNCHANGED <<clock, bindings, entries, load, kid, start, outcome, mismatch>>

Hit(r) ==
  /\ pc[r] = "resuming" /\ ~Expired(waitOn[r])
  /\ Deliver({r}, waitOn[r])
  /\ UNCHANGED <<clock, bindings, entries, load, mismatch>>

\* No entry, or an expired one: every expired entry is swept and r's load
\* becomes the entry of its kid, whatever that is by now.
StartLoad(r) ==
  /\ \/ pc[r] = "lookup" /\ entries[kid[r]] = NoReq
     \/ pc[r] = "resuming" /\ Expired(waitOn[r])
  /\ entries' = [k \in Kids |-> IF k = kid[r] THEN r
                                ELSE IF Expired(entries[k]) THEN NoReq ELSE entries[k]]
  /\ load' = [load EXCEPT ![r] = [NoLoad EXCEPT !.state = "reading", !.kid = kid[r],
                                                !.left = {"pem", "jwks"}]]
  /\ pc' = [pc EXCEPT ![r] = "waiting"]
  /\ waitOn' = [waitOn EXCEPT ![r] = r]
  /\ UNCHANGED <<clock, bindings, kid, start, outcome, mismatch>>

-----------------------------------------------------------------------------
(* The load request o created.  While it is pending its creator awaits it. *)

\* Each binding is read when its get() is answered; a get() that throws
\* counts as an absent value.
ReadBinding(o) ==
  /\ Quiescent
  /\ load[o].state = "reading"
  /\ \/ /\ "pem" \in load[o].left
        /\ \E x \in {pem, NoKey} :
             load' = [load EXCEPT ![o].pem = x, ![o].left = @ \ {"pem"}]
     \/ /\ "jwks" \in load[o].left
        /\ \E s \in {jwks, NoSet} :
             load' = [load EXCEPT ![o].jwks = s, ![o].left = @ \ {"jwks"}]
  /\ UNCHANGED <<clock, bindings, entries, request, mismatch>>

NoKeySet(o) == "jwks" \notin load[o].left /\ load[o].jwks = NoSet
Present(o) == load[o].left = {} /\ load[o].pem # NoKey /\ ~NoKeySet(o)
Importable(o) ==
  Unimportable \cap ({load[o].pem} \cup {load[o].jwks[k] : k \in Kids}) = {}
Listed(o) == load[o].jwks[load[o].kid] # NoKey
\* Mutation of Paired: any key listed under the kid will do.
PairedByName(o) == Listed(o)

Paired(o) == load[o].jwks[load[o].kid] = load[o].pem

StartImport(o) ==
  /\ Quiescent
  /\ load[o].state = "reading" /\ Present(o)
  /\ load' = [load EXCEPT ![o].state = "importing"]
  /\ UNCHANGED <<clock, bindings, entries, request, mismatch>>

StartPairCheck(o) ==
  /\ Quiescent
  /\ load[o].state = "importing" /\ Importable(o) /\ Listed(o)
  /\ load' = [load EXCEPT ![o].state = "pairing"]
  /\ UNCHANGED <<clock, bindings, entries, request, mismatch>>

\* Mutation of Fail: the catch leaves the entry.
FailKeepingEntry(o, code, own) ==
  /\ load' = [load EXCEPT ![o] = [NoLoad EXCEPT !.state = "failed"]]
  /\ Ends(Waiters(o))
  /\ outcome' = [r \in Requests |-> IF r = o THEN own
                                    ELSE IF r \in Waiters(o) THEN code ELSE outcome[r]]
  /\ UNCHANGED <<clock, bindings, entries, waitOn>>

\* The load rejects: the requests that joined it fail with `code`, its creator
\* with `own`, and the creator's catch takes the entry of its kid away.
Fail(o, code, own) ==
  /\ load' = [load EXCEPT ![o] = [NoLoad EXCEPT !.state = "failed"]]
  /\ Ends(Waiters(o))
  /\ outcome' = [r \in Requests |-> IF r = o THEN own
                                    ELSE IF r \in Waiters(o) THEN code ELSE outcome[r]]
  /\ entries' = [entries EXCEPT ![kid[o]] = NoReq]
  /\ UNCHANGED <<clock, bindings, waitOn>>

\* missing_private_key, missing_public_jwks or a malformed one (which does not
\* wait for the private key), key_import_failed or kid_not_in_public_jwks.
Unusable(o) ==
  /\ Quiescent
  /\ \/ load[o].state = "reading" /\ (NoKeySet(o) \/ (load[o].left = {} /\ ~Present(o)))
     \/ load[o].state = "importing" /\ ~(Importable(o) /\ Listed(o))
  /\ Fail(o, "signer_unavailable", "signer_unavailable")
  /\ UNCHANGED mismatch

PairCheckFails(o) ==
  /\ Quiescent
  /\ load[o].state = "pairing" /\ ~Paired(o)
  /\ Fail(o, "signer_unavailable", "signer_unavailable")
  /\ mismatch' = mismatch \cup {o}

\* The life of the material starts when the load ends.
Succeed(o) ==
  /\ Quiescent
  /\ load[o].state = "pairing" /\ Paired(o)
  /\ load' = [load EXCEPT ![o].state = "ready", ![o].expiresAt = clock + TTL]
  /\ Deliver(Waiters(o), o)
  /\ UNCHANGED <<clock, bindings, entries, mismatch>>

-----------------------------------------------------------------------------
Sign(r) ==
  /\ Quiescent
  /\ pc[r] = "signing"
  /\ Finish(r, "signed")
  /\ UNCHANGED <<clock, bindings, entries, load, mismatch>>

\* The timer of a request fires: raceAbort rejects whatever it awaits.
Abort(r) ==
  /\ Quiescent
  /\ Due(r) /\ ~Creates(r)
  /\ Finish(r, "deadline_exceeded")
  /\ UNCHANGED <<clock, bindings, entries, load, mismatch>>

\* The timer of a load's creator fires during a read or an import, and the
\* requests that joined the load share its deadline.
AbortLoad(o) ==
  /\ Quiescent
  /\ Due(o) /\ Creates(o) /\ load[o].state \in {"reading", "importing"}
  /\ Fail(o, "deadline_exceeded", "deadline_exceeded")
  /\ UNCHANGED mismatch

\* It fires during the pair check: the catch around it takes the abort for a
\* mismatch, reports one and rejects the load as unusable.
AbortPairCheck(o) ==
  /\ Quiescent
  /\ Due(o) /\ Creates(o) /\ load[o].state = "pairing"
  /\ Fail(o, "signer_unavailable", "deadline_exceeded")
  /\ mismatch' = mismatch \cup {o}

\* An operator edits one binding.
Edit ==
  /\ Quiescent
  /\ edits < MaxEdits /\ edits' = edits + 1
  /\ \/ /\ \E k \in (Kids \cup {NoKid}) \ {activeKid} : activeKid' = k
        /\ kidLeft' = [k \in Kids |-> IF k = activeKid THEN clock ELSE kidLeft[k]]
        /\ UNCHANGED <<pem, pemLeft, jwks, jwksLeft>>
     \/ /\ \E x \in (Keys \cup {NoKey}) \ {pem} : pem' = x
        /\ pemLeft' = [x \in Keys |-> IF x = pem THEN clock ELSE pemLeft[x]]
        /\ UNCHANGED <<activeKid, kidLeft, jwks, jwksLeft>>
     \/ /\ \E s \in KeySets \ {jwks} : jwks' = s
        /\ jwksLeft' = [k \in Kids |-> [x \in Keys |->
             IF jwks[k] = x /\ jwks'[k] # x THEN clock ELSE jwksLeft[k][x]]]
        /\ UNCHANGED <<activeKid, kidLeft, pem, pemLeft>>
  /\ UNCHANGED <<clock, entries, load, request, mismatch>>

Tick ==
  /\ Quiescent
  /\ \A r \in Requests : ~Due(r)
  /\ clock < MaxClock
  /\ clock' = clock + 1
  /\ UNCHANGED <<bindings, entries, load, request, mismatch>>

Lookup(r) == Join(r) \/ Find(r) \/ Hit(r) \/ StartLoad(r)
Expire(r) == Abort(r) \/ AbortLoad(r) \/ AbortPairCheck(r)
Step(r) ==
  \/ Begin(r) \/ ReadKid(r) \/ NoActiveKid(r) \/ Lookup(r)
  \/ ReadBinding(r) \/ StartImport(r) \/ StartPairCheck(r)
  \/ Unusable(r) \/ PairCheckFails(r) \/ Succeed(r) \/ Sign(r) \/ Expire(r)

Next == (\E r \in Requests : Step(r)) \/ Edit \/ Tick
Spec == Init /\ [][Next]_vars

\* Continuations run, timers fire and time passes; nothing is promised of the
\* bindings or of the crypto calls.
FairSpec ==
  Spec /\ WF_vars(Tick) /\ \A r \in Requests : WF_vars(Lookup(r)) /\ WF_vars(Expire(r))

-----------------------------------------------------------------------------
(* Properties.                                                             *)

\* What the isolate signs with is what it publishes: ready material holds the
\* private key whose public half its key set lists under its kid, although
\* kid, key and key set were read at three instants of a live configuration
\* (loadKeyMaterial lines 356-399).
Matched ==
  \A o \in Requests : load[o].state = "ready" =>
    load[o].pem # NoKey /\ load[o].jwks[load[o].kid] = load[o].pem

\* An entry is a ready load of its kid or one under way, never a failed one, and
\* nobody awaits a load that has settled or whose creator is gone, although
\* entries are deleted by their key alone: two requests that resume on one
\* expired entry both start a load, the second takes the entry of the first,
\* and when either fails it deletes whatever is there (get, lines 323-346).
EntriesSound ==
  /\ \A k \in Kids : entries[k] # NoReq =>
       LET o == entries[k] IN load[o].kid = k /\ load[o].state \in Pending \cup {"ready"}
  /\ \A o \in Requests : load[o].state \in Pending => Creates(o)
  /\ \A r \in Requests : pc[r] = "waiting" => load[waitOn[r]].state \in Pending

\* A withdrawn kid, private key or published key goes out of use in bounded
\* time: a token is signed with a kid that was active during the request, and
\* with a private key, and a key set is published with keys, that were
\* configured at most TTL plus the deadlines of the request and of the load
\* it shares ago (get and loadKeyMaterial).
Within(gone, window) == gone # 0 /\ clock < gone + window
Retires ==
  [][\A r \in Requests :
       LET m == load'[waitOn'[r]] IN
       /\ outcome[r] = "none" /\ outcome'[r] = "signed" =>
            /\ activeKid = m.kid \/ (kidLeft[m.kid] # 0 /\ kidLeft[m.kid] >= start[r])
            /\ pem = m.pem \/ Within(pemLeft[m.pem], TTL + 2 * Deadline)
       /\ outcome[r] = "none" /\ outcome'[r] = "published" =>
            \A k \in Kids : m.jwks[k] # NoKey =>
              jwks[k] = m.jwks[k] \/ Within(jwksLeft[k][m.jwks[k]], TTL + Deadline)]_vars

\* Every request is answered, whatever the bindings and the crypto calls do.
EveryRequestEnds == \A r \in Requests : Running(r) ~> pc[r] = "done"

\* "These indicate configuration or deployment incidents" (deployment
\* verification guide, lines 56-63): a reported key_pair_mismatch means that
\* the pair did not match.
MismatchIsConfiguration ==
  [][\A o \in Requests : o \in mismatch' \ mismatch => ~Paired(o)]_vars
=============================================================================
