----------------------------- MODULE AppBinding -----------------------------
(***************************************************************************)
(* What an isolate keeps per binding bundle (cloudflare.ts): one bound     *)
(* application with its issuer cache, for the identity and the revision it *)
(* was created under, and one cache of signing material, by revision and   *)
(* kid.  A request validates its origin, waits for the limiter, is bound to*)
(* an application, waits for keys and asks for a signer; the bundle may be *)
(* edited or deployed anew while it waits.                                 *)
(*                                                                         *)
(* The four things a signer depends on are read at four instants: the kid, *)
(* the revision that labels the entry, the private key of the load, and    *)
(* the entry itself when a later request finds it.  A load belongs to the  *)
(* request that started it.  The key set, the pair check, the clock and    *)
(* who deletes an entry when are in KeyMaterial: here a check may pass or  *)
(* fail, and an entry may go at any time.                                  *)
(***************************************************************************)
EXTENDS Naturals

CONSTANTS
  Requests,
  Bundles,    \* binding bundle objects (env)
  Origins, Revisions,
  NoRevision, \* neither version binding has an id or a tag
  Kids,       \* active kids
  Keys,       \* private keys
  None,
  MaxEdits    \* bound: changes of a bundle

ASSUME BindingAssumption ==
  /\ NoRevision \notin Revisions /\ None \notin Kids \cup Keys \cup Origins \cup Requests
  /\ MaxEdits \in Nat

VARIABLES
  env,       \* bundle -> its origin, revision, kid and private key now
  edits,
  apps,      \* bundle -> the application bound to it, or None
  caches,    \* number of issuer caches created
  entries,   \* bundle -> the creators of the loads in its key material cache
  load,      \* request -> the load it started: the label's revision, the key read
  pc, at, origin, kid,  \* request -> its stage, bundle, validated origin, kid read
  app,       \* request -> the application that serves it
  from,      \* request -> the creator of the load it awaits or is signed with
  during     \* history: request -> the revisions, kids and keys its bundle had while it ran

vars == <<env, edits, apps, caches, entries, load, pc, at, origin, kid, app, from, during>>
bundles == <<env, edits>>
isolate == <<apps, caches, entries, load>>

Configurations ==
  [origin : Origins, revision : Revisions \cup {NoRevision}, kid : Kids, key : Keys]
\* What the signer of a request depends on.
Basis(c) == [revision |-> c.revision, kid |-> c.kid, key |-> c.key]

Pending == {"reading", "checking"}
NoLoad == [state |-> "none", revision |-> NoRevision, key |-> None]

Init ==
  /\ env \in [Bundles -> Configurations]
  /\ edits = 0 /\ caches = 0
  /\ apps = [e \in Bundles |-> None] /\ entries = [e \in Bundles |-> {}]
  /\ load = [r \in Requests |-> NoLoad]
  /\ pc = [r \in Requests |-> "idle"]
  /\ at \in [Requests -> Bundles]
  /\ origin = [r \in Requests |-> None] /\ kid = [r \in Requests |-> None]
  /\ app = [r \in Requests |-> None] /\ from = [r \in Requests |-> None]
  /\ during = [r \in Requests |-> {}]

-----------------------------------------------------------------------------
\* dispatch up to the limiter: the origin is read, the revision is not.
Arrive(r) ==
  /\ pc[r] = "idle"
  /\ pc' = [pc EXCEPT ![r] = "limiting"]
  /\ origin' = [origin EXCEPT ![r] = env[at[r]].origin]
  /\ during' = [during EXCEPT ![r] = {Basis(env[at[r]])}]
  /\ UNCHANGED <<bundles, isolate, at, kid, app, from>>

\* Mutation of Reusable: only a change of the revision counts.
ReusableByRevision(e, o) ==
  apps[e] # None /\ apps[e].revision = env[e].revision
\* Mutation of Reusable: without a version there is nothing to compare.
ReusableIfVersioned(e, o) ==
  /\ apps[e] # None
  /\ apps[e].identity = o
  /\ apps[e].revision = env[e].revision /\ env[e].revision # NoRevision

Reusable(e, o) ==
  apps[e] # None /\ apps[e].identity = o /\ apps[e].revision = env[e].revision

\* The limiter has answered: getApp.
Bind(r) ==
  LET e == at[r]
      created == [identity |-> origin[r], revision |-> env[e].revision, cache |-> caches + 1]
      bound == IF Reusable(e, origin[r]) THEN apps[e] ELSE created
  IN /\ pc[r] = "limiting"
     /\ pc' = [pc EXCEPT ![r] = "verifying"]
     /\ apps' = [apps EXCEPT ![e] = bound]
     /\ caches' = IF Reusable(e, origin[r]) THEN caches ELSE caches + 1
     /\ app' = [app EXCEPT ![r] = bound]
     /\ UNCHANGED <<bundles, entries, load, at, origin, kid, from, during>>

\* The token is accepted for an internal target: the active kid is read.
ReadKid(r) ==
  /\ pc[r] = "verifying"
  /\ pc' = [pc EXCEPT ![r] = "signing"]
  /\ kid' = [kid EXCEPT ![r] = env[at[r]].kid]
  /\ UNCHANGED <<bundles, isolate, at, origin, app, from, during>>

-----------------------------------------------------------------------------
(* CloudflareKeyMaterialCache.get and loadKeyMaterial.                     *)

\* Mutation of EntryFor: entries are kept by kid alone.
EntryForKid(r) == {o \in entries[at[r]] : kid[o] = kid[r]}

\* The load under the key of this instant: the revision is read here.
EntryFor(r) ==
  {o \in entries[at[r]] : load[o].revision = env[at[r]].revision /\ kid[o] = kid[r]}
Waiters(o) == {r \in Requests : pc[r] = "waiting" /\ from[r] = o}

\* Ready material is used, a pending load is joined.
FindEntry(r) ==
  /\ pc[r] = "signing"
  /\ \E o \in EntryFor(r) :
       /\ from' = [from EXCEPT ![r] = o]
       /\ pc' = [pc EXCEPT ![r] = IF load[o].state = "ready" THEN "signed" ELSE "waiting"]
  /\ UNCHANGED <<bundles, isolate, at, origin, kid, app, during>>

\* The entry is labelled now; its secrets are read by ReadSecret.
StartLoad(r) ==
  /\ pc[r] = "signing" /\ EntryFor(r) = {}
  /\ pc' = [pc EXCEPT ![r] = "waiting"] /\ from' = [from EXCEPT ![r] = r]
  /\ load' = [load EXCEPT ![r] =
       [state |-> "reading", revision |-> env[at[r]].revision, key |-> None]]
  /\ entries' = [entries EXCEPT ![at[r]] = @ \cup {r}]
  /\ UNCHANGED <<bundles, apps, caches, at, origin, kid, app, during>>

\* The binding answers with the private key of that instant.
ReadSecret(o) ==
  /\ load[o].state = "reading"
  /\ load' = [load EXCEPT ![o].state = "checking", ![o].key = env[at[o]].key]
  /\ UNCHANGED <<bundles, apps, caches, entries, pc, at, origin, kid, app, from, during>>

\* The pair check passes: the creator and all who joined get the material.
Succeed(o) ==
  /\ load[o].state = "checking"
  /\ load' = [load EXCEPT ![o].state = "ready"]
  /\ pc' = [r \in Requests |-> IF r \in Waiters(o) THEN "signed" ELSE pc[r]]
  /\ UNCHANGED <<bundles, apps, caches, entries, at, origin, kid, app, from, during>>

\* A read, an import, the check or the creator's deadline fails it.  The
\* creator deletes what is now under its key, be it another's load.
Fail(o) ==
  /\ load[o].state \in Pending
  /\ load' = [load EXCEPT ![o].state = "failed"]
  /\ entries' = [entries EXCEPT ![at[o]] =
       {p \in @ : load[p].revision # load[o].revision \/ kid[p] # kid[o]}]
  /\ pc' = [r \in Requests |-> IF r \in Waiters(o) THEN "done" ELSE pc[r]]
  /\ UNCHANGED <<bundles, apps, caches, at, origin, kid, app, from, during>>

\* An entry goes: expired, swept, or deleted by another who found its
\* predecessor expired.
Drop(e) ==
  /\ \E o \in entries[e] : entries' = [entries EXCEPT ![e] = @ \ {o}]
  /\ UNCHANGED <<bundles, apps, caches, load, pc, at, origin, kid, app, from, during>>

-----------------------------------------------------------------------------
\* Limited, refused, timed out, or answered without a signature.  A creator
\* that gives up is a failed load.
Leave(r) ==
  /\ \/ pc[r] \in {"limiting", "verifying", "signing"}
     \/ pc[r] = "waiting" /\ from[r] # r
  /\ pc' = [pc EXCEPT ![r] = "done"]
  /\ UNCHANGED <<bundles, isolate, at, origin, kid, app, from, during>>

\* A deployment or a live edit changes what a bundle holds.
Edit(e) ==
  /\ edits < MaxEdits /\ edits' = edits + 1
  /\ \E c \in Configurations \ {env[e]} :
       /\ env' = [env EXCEPT ![e] = c]
       /\ during' = [r \in Requests |->
            IF at[r] = e /\ pc[r] \notin {"idle", "signed", "done"}
            THEN during[r] \cup {Basis(c)} ELSE during[r]]
  /\ UNCHANGED <<isolate, pc, at, origin, kid, app, from>>

Next ==
  \/ \E r \in Requests :
       \/ Arrive(r) \/ Bind(r) \/ ReadKid(r) \/ Leave(r)
       \/ FindEntry(r) \/ StartLoad(r) \/ ReadSecret(r) \/ Succeed(r) \/ Fail(r)
  \/ \E e \in Bundles : Drop(e) \/ Edit(e)
Spec == Init /\ [][Next]_vars

-----------------------------------------------------------------------------
(* Properties.                                                             *)

\* A request is served under the identity it was validated against, which is
\* the issuer of its outbound token, although the origin is read before the
\* limiter is awaited and the application chosen after it; bundles never share
\* an issuer cache, and a cache never outlives the identity or the revision it
\* was created under (getApp; the comment at line 39).
ServedAsValidated ==
  /\ \A r \in Requests : app[r] # None => app[r].identity = origin[r]
  /\ \A r, s \in Requests : app[r] # None /\ app[s] # None /\ app[r].cache = app[s].cache =>
       app[r] = app[s] /\ at[r] = at[s]

\* While a bundle stays as it is, and once the requests of its previous origin
\* have been bound, every request gets the application the last one got: the
\* issuer cache stays warm, also without a version binding.
Settled(e) ==
  /\ apps[e] # None /\ apps[e].identity = env[e].origin /\ apps[e].revision = env[e].revision
  /\ \A r \in Requests : at[r] = e /\ pc[r] = "limiting" => origin[r] = env[e].origin
StaysWarm ==
  [][\A e \in Bundles : Settled(e) /\ env'[e] = env[e] => apps'[e] = apps[e]]_vars

\* The material a request is signed with was loaded from its own bundle, under
\* a revision and a kid the bundle had while the request ran, and its private
\* key is one the bundle had while the request that loaded it ran.  The label
\* is read (line 323) before the secrets (lines 356-359), so a deployment in
\* between puts the secrets of one revision under the label of another; only
\* when the bundle stayed as it was during the load is the key known to be
\* that of the label, however much later, and after which deployments and
\* rollbacks, the entry is found (the comment at lines 46-54).
SignsWithOwn ==
  \A r \in Requests : pc[r] = "signed" =>
    LET o == from[r]
        Had(q, field, value) == \E c \in during[q] : c[field] = value
    IN /\ at[o] = at[r]
       /\ Had(r, "revision", load[o].revision) /\ Had(r, "kid", kid[o])
       /\ Had(o, "key", load[o].key)
       /\ \A c \in during[o] : during[o] = {c} =>
            c.revision = load[o].revision /\ c.kid = kid[o] /\ c.key = load[o].key
=============================================================================
