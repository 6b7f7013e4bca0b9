-------------------------- MODULE AppBindingProofs --------------------------
(***************************************************************************)
(* Proofs about AppBinding, for any requests, bundles, origins, revisions, *)
(* kids, private keys and number of edits.                                 *)
(***************************************************************************)
EXTENDS AppBinding, TLAPS

App == [identity : Origins, revision : Revisions \cup {NoRevision}, cache : Nat]
Load == [state : Pending \cup {"none", "ready", "failed"},
         revision : Revisions \cup {NoRevision}, key : Keys \cup {None}]
Bases == [revision : Revisions \cup {NoRevision}, kid : Kids, key : Keys]
Early == {"idle", "limiting", "verifying", "signing"}
Running == {"limiting", "verifying", "signing", "waiting"}

TypeOK ==
  /\ env \in [Bundles -> Configurations] /\ edits \in Nat /\ caches \in Nat
  /\ apps \in [Bundles -> App \cup {None}]
  /\ entries \in [Bundles -> SUBSET Requests]
  /\ load \in [Requests -> Load]
  /\ pc \in [Requests -> Running \cup {"idle", "signed", "done"}]
  /\ at \in [Requests -> Bundles]
  /\ origin \in [Requests -> Origins \cup {None}]
  /\ kid \in [Requests -> Kids \cup {None}]
  /\ app \in [Requests -> App \cup {None}]
  /\ from \in [Requests -> Requests \cup {None}]
  /\ during \in [Requests -> SUBSET Bases]
  /\ \A r \in Requests : pc[r] = "limiting" => origin[r] \in Origins

\* The applications still referred to: bound to a bundle, or serving a request.
CachesTraced ==
  /\ \A e \in Bundles : apps[e] # None => apps[e].cache <= caches
  /\ \A r \in Requests : app[r] # None => app[r].cache <= caches /\ app[r].identity = origin[r]
  /\ \A r \in Requests : pc[r] \in {"idle", "limiting"} => app[r] = None
  /\ \A e, f \in Bundles :
       apps[e] # None /\ apps[f] # None /\ apps[e].cache = apps[f].cache => e = f
  /\ \A e \in Bundles, r \in Requests :
       apps[e] # None /\ app[r] # None /\ apps[e].cache = app[r].cache =>
         apps[e] = app[r] /\ at[r] = e
  /\ \A r, s \in Requests : app[r] # None /\ app[s] # None /\ app[r].cache = app[s].cache =>
       app[r] = app[s] /\ at[r] = at[s]

\* Request q met a configuration with this revision, kid or key.
MetRevision(q, v) == \E c \in during[q] : c.revision = v
MetKid(q, k) == \E c \in during[q] : c.kid = k
MetKey(q, x) == \E c \in during[q] : c.key = x

\* What a bundle holds, and the kid read from it, is in the history of the
\* requests at work on it.
HistoryTraced ==
  /\ \A r \in Requests : pc[r] \in Running => Basis(env[at[r]]) \in during[r]
  /\ \A r \in Requests : pc[r] \in {"signing", "waiting", "signed"} => MetKid(r, kid[r])

\* A load is its creator's: none before it looks for an entry, pending only
\* while it waits, of a label and a key it met.  Entries are of live loads.
LoadsTraced ==
  /\ \A o \in Requests : pc[o] \in Early => load[o].state = "none"
  /\ \A o \in Requests : load[o].state \in Pending => pc[o] = "waiting" /\ from[o] = o
  /\ \A o \in Requests : load[o].state # "none" =>
       MetRevision(o, load[o].revision) /\ MetKid(o, kid[o])
  /\ \A o \in Requests : load[o].state \in {"checking", "ready"} => MetKey(o, load[o].key)
  /\ \A e \in Bundles : \A o \in entries[e] :
       at[o] = e /\ load[o].state \in Pending \cup {"ready"}

\* A request waits for a pending load, and is signed with a ready one, of its
\* own bundle, of the kid it read and of a revision it met.
WaitersTraced ==
  \A r \in Requests : pc[r] \in {"waiting", "signed"} =>
    /\ from[r] \in Requests
    /\ at[from[r]] = at[r] /\ kid[from[r]] = kid[r]
    /\ MetRevision(r, load[from[r]].revision)
    /\ pc[r] = "waiting" => load[from[r]].state \in Pending
    /\ pc[r] = "signed" => load[from[r]].state = "ready"

SignersTraced == HistoryTraced /\ LoadsTraced /\ WaitersTraced

Traced == TypeOK /\ CachesTraced /\ SignersTraced

-----------------------------------------------------------------------------
(* The invariant holds at the start, and every step keeps each part of it. *)

LEMMA InitTraced == Init => Traced
<1> SUFFICES ASSUME Init PROVE Traced
  OBVIOUS
<1>1. TypeOK
  BY BindingAssumption DEF Init, TypeOK, Load, NoLoad, Running
<1>2. CachesTraced
  BY DEF Init, CachesTraced
<1>3. SignersTraced
  BY DEF Init, SignersTraced, HistoryTraced, LoadsTraced, WaitersTraced, Running, Early,
         NoLoad, Pending
<1> QED
  BY <1>1, <1>2, <1>3 DEF Traced

LEMMA TypeStep == TypeOK /\ [Next]_vars => TypeOK'
<1> SUFFICES ASSUME TypeOK, [Next]_vars PROVE TypeOK'
  OBVIOUS
<1> USE DEF TypeOK, Running
<1>1. ASSUME NEW r \in Requests, Arrive(r) PROVE TypeOK'
  BY <1>1 DEF Arrive, Configurations, Bases, Basis, bundles, isolate
<1>2. ASSUME NEW r \in Requests, Bind(r) PROVE TypeOK'
  BY <1>2 DEF Bind, App, Configurations, bundles
<1>3. ASSUME NEW r \in Requests, ReadKid(r) PROVE TypeOK'
  BY <1>3 DEF ReadKid, Configurations, bundles, isolate
<1>4. ASSUME NEW r \in Requests, FindEntry(r) PROVE TypeOK'
  BY <1>4 DEF FindEntry, EntryFor, bundles, isolate
<1>5. ASSUME NEW r \in Requests, StartLoad(r) PROVE TypeOK'
  BY <1>5 DEF StartLoad, Load, Pending, Configurations, bundles
<1>6. ASSUME NEW o \in Requests, ReadSecret(o) PROVE TypeOK'
  <2>1. env[at[o]].key \in Keys /\ load[o] \in Load
    BY DEF Configurations
  <2>2. [load[o] EXCEPT !.state = "checking", !.key = env[at[o]].key] \in Load
    BY <2>1 DEF Load, Pending
  <2>3. load' \in [Requests -> Load]
    BY <1>6, <2>2 DEF ReadSecret
  <2> QED
    BY <1>6, <2>3 DEF ReadSecret, bundles
<1>7. ASSUME NEW o \in Requests, Succeed(o) PROVE TypeOK'
  BY <1>7 DEF Succeed, Load, bundles
<1>8. ASSUME NEW o \in Requests, Fail(o) PROVE TypeOK'
  <2>1. load' \in [Requests -> Load]
    <3>1. load[o] \in Load
      OBVIOUS
    <3>2. [load[o] EXCEPT !.state = "failed"] \in Load
      BY <3>1 DEF Load
    <3> QED
      BY <1>8, <3>2 DEF Fail
  <2>2. entries' \in [Bundles -> SUBSET Requests]
    BY <1>8 DEF Fail
  <2>3. pc' \in [Requests -> Running \cup {"idle", "signed", "done"}]
    BY <1>8 DEF Fail
  <2> QED
    BY <1>8, <2>1, <2>2, <2>3 DEF Fail, bundles
<1>9. ASSUME NEW r \in Requests, Leave(r) PROVE TypeOK'
  BY <1>9 DEF Leave, bundles, isolate
<1>10. ASSUME NEW e \in Bundles, Drop(e) PROVE TypeOK'
  BY <1>10 DEF Drop, bundles
<1>11. ASSUME NEW e \in Bundles, Edit(e) PROVE TypeOK'
  BY <1>11 DEF Edit, Configurations, Bases, Basis, isolate
<1>12. CASE UNCHANGED vars
  BY <1>12 DEF vars
<1> QED
  BY <1>1, <1>2, <1>3, <1>4, <1>5, <1>6, <1>7, <1>8, <1>9, <1>10, <1>11, <1>12 DEF Next

LEMMA CachesStep == TypeOK /\ CachesTraced /\ [Next]_vars => CachesTraced'
<1> SUFFICES ASSUME TypeOK, CachesTraced, [Next]_vars PROVE CachesTraced'
  OBVIOUS
<1>1. ASSUME NEW r \in Requests, Arrive(r) PROVE CachesTraced'
  BY <1>1 DEF Arrive, TypeOK, CachesTraced, Running, bundles, isolate
<1>2. ASSUME NEW r \in Requests, Bind(r) PROVE CachesTraced'
  <2> DEFINE e == at[r]
  <2>1. e \in Bundles /\ caches \in Nat
    BY DEF TypeOK
  <2>2. app' = [app EXCEPT ![r] = apps'[e]] /\ at' = at /\ origin' = origin
        /\ pc' = [pc EXCEPT ![r] = "verifying"]
    BY <1>2, <2>1 DEF Bind, TypeOK
  <2>3. CASE Reusable(e, origin[r])
    <3>1. apps' = apps /\ caches' = caches
      BY <1>2, <2>1, <2>3 DEF Bind, TypeOK
    <3>2. apps[e] # None /\ apps[e].identity = origin[r]
      BY <2>3 DEF Reusable
    <3> QED
      BY <2>1, <2>2, <3>1, <3>2 DEF CachesTraced, TypeOK
  <2>4. CASE ~Reusable(e, origin[r])
    <3>1. caches' = caches + 1 /\ apps' = [apps EXCEPT ![e] = apps'[e]]
          /\ apps'[e].cache = caches + 1 /\ apps'[e].identity = origin[r]
      BY <1>2, <2>1, <2>4 DEF Bind, TypeOK
    <3>2. \A f \in Bundles : apps[f] # None => apps[f].cache \in Nat /\ apps[f].cache <= caches
      BY DEF TypeOK, App, CachesTraced
    <3>3. \A s \in Requests : app[s] # None => app[s].cache \in Nat /\ app[s].cache <= caches
      BY DEF TypeOK, App, CachesTraced
    <3>4. \A f, g \in Bundles :
            apps'[f] # None /\ apps'[g] # None /\ apps'[f].cache = apps'[g].cache => f = g
      BY <2>1, <3>1, <3>2 DEF CachesTraced, TypeOK
    <3>5. \A f \in Bundles, s \in Requests :
            apps'[f] # None /\ app'[s] # None /\ apps'[f].cache = app'[s].cache =>
              apps'[f] = app'[s] /\ at[s] = f
      BY <2>1, <2>2, <3>1, <3>2, <3>3 DEF CachesTraced, TypeOK
    <3>6. \A s, t \in Requests :
            app'[s] # None /\ app'[t] # None /\ app'[s].cache = app'[t].cache =>
              app'[s] = app'[t] /\ at[s] = at[t]
      BY <2>1, <2>2, <3>1, <3>3 DEF CachesTraced, TypeOK
    <3>7. \A f \in Bundles : apps'[f] # None => apps'[f].cache <= caches'
      BY <2>1, <3>1, <3>2 DEF TypeOK
    <3>8. \A s \in Requests :
             app'[s] # None => app'[s].cache <= caches' /\ app'[s].identity = origin[s]
      BY <2>1, <2>2, <3>1, <3>3 DEF CachesTraced, TypeOK
    <3>9. \A s \in Requests : pc'[s] \in {"idle", "limiting"} => app'[s] = None
      BY <2>2 DEF CachesTraced, TypeOK
    <3> QED
      BY <2>2, <3>4, <3>5, <3>6, <3>7, <3>8, <3>9 DEF CachesTraced
  <2> QED
    BY <2>3, <2>4
<1>3. ASSUME NEW r \in Requests, ReadKid(r) PROVE CachesTraced'
  BY <1>3 DEF ReadKid, TypeOK, CachesTraced, Running, bundles, isolate
<1>4. ASSUME NEW r \in Requests, FindEntry(r) PROVE CachesTraced'
  BY <1>4 DEF FindEntry, TypeOK, CachesTraced, Running, bundles, isolate
<1>5. ASSUME NEW r \in Requests, StartLoad(r) PROVE CachesTraced'
  BY <1>5 DEF StartLoad, TypeOK, CachesTraced, Running, bundles
<1>6. ASSUME NEW o \in Requests, ReadSecret(o) PROVE CachesTraced'
  BY <1>6 DEF ReadSecret, CachesTraced
<1>7. ASSUME NEW o \in Requests, Succeed(o) PROVE CachesTraced'
  BY <1>7 DEF Succeed, Waiters, TypeOK, CachesTraced, Running
<1>8. ASSUME NEW o \in Requests, Fail(o) PROVE CachesTraced'
  BY <1>8 DEF Fail, Waiters, TypeOK, CachesTraced, Running
<1>9. ASSUME NEW r \in Requests, Leave(r) PROVE CachesTraced'
  BY <1>9 DEF Leave, TypeOK, CachesTraced, Running, bundles, isolate
<1>10. ASSUME NEW e \in Bundles, Drop(e) PROVE CachesTraced'
  BY <1>10 DEF Drop, CachesTraced
<1>11. ASSUME NEW e \in Bundles, Edit(e) PROVE CachesTraced'
  BY <1>11 DEF Edit, CachesTraced, isolate
<1>12. CASE UNCHANGED vars
  BY <1>12 DEF vars, CachesTraced
<1> QED
  BY <1>1, <1>2, <1>3, <1>4, <1>5, <1>6, <1>7, <1>8, <1>9, <1>10, <1>11, <1>12 DEF Next

\* What a bundle holds now has been met by the requests at work on it.
LEMMA MetNow ==
  ASSUME HistoryTraced, NEW r \in Requests, pc[r] \in Running
  PROVE  /\ MetRevision(r, env[at[r]].revision) /\ MetKid(r, env[at[r]].kid)
         /\ MetKey(r, env[at[r]].key)
<1>1. Basis(env[at[r]]) \in during[r]
  BY DEF HistoryTraced
<1> QED
  BY <1>1 DEF Basis, MetRevision, MetKid, MetKey

LEMMA SignersStep == TypeOK /\ SignersTraced /\ [Next]_vars => SignersTraced'
<1> SUFFICES ASSUME TypeOK, SignersTraced, [Next]_vars PROVE SignersTraced'
  OBVIOUS
<1> USE DEF SignersTraced, HistoryTraced, LoadsTraced, WaitersTraced, MetRevision, MetKid,
            MetKey, Running, Early, Pending
<1>1. ASSUME NEW r \in Requests, Arrive(r) PROVE SignersTraced'
  BY <1>1 DEF Arrive, TypeOK, bundles, isolate
<1>2. ASSUME NEW r \in Requests, Bind(r) PROVE SignersTraced'
  BY <1>2 DEF Bind, TypeOK, bundles
<1>3. ASSUME NEW r \in Requests, ReadKid(r) PROVE SignersTraced'
  <2>1. at[r] \in Bundles /\ pc[r] = "verifying" /\ load[r].state = "none"
        /\ Basis(env[at[r]]) \in during[r] /\ Basis(env[at[r]]).kid = env[at[r]].kid
    BY <1>3 DEF ReadKid, Basis, TypeOK
  <2>2. pc' = [pc EXCEPT ![r] = "signing"] /\ kid' = [kid EXCEPT ![r] = env[at[r]].kid]
        /\ UNCHANGED <<env, entries, load, at, from, during>>
    BY <1>3 DEF ReadKid, bundles, isolate
  <2>3. HistoryTraced'
    BY <2>1, <2>2 DEF TypeOK
  <2>4. LoadsTraced'
    BY <2>1, <2>2 DEF TypeOK
  <2>5. WaitersTraced'
    BY <2>1, <2>2 DEF TypeOK
  <2> QED
    BY <2>3, <2>4, <2>5
<1>4. ASSUME NEW r \in Requests, FindEntry(r) PROVE SignersTraced'
  <2>1. pc[r] \in Running
    BY <1>4 DEF FindEntry
  <2>2. /\ MetRevision(r, env[at[r]].revision) /\ MetKid(r, env[at[r]].kid)
        /\ MetKey(r, env[at[r]].key)
    BY <2>1, MetNow
  <2> QED
    BY <1>4, <2>2 DEF FindEntry, EntryFor, TypeOK, bundles, isolate
<1>5. ASSUME NEW r \in Requests, StartLoad(r) PROVE SignersTraced'
  <2>1. pc[r] \in Running
    BY <1>5 DEF StartLoad
  <2>2. /\ MetRevision(r, env[at[r]].revision) /\ MetKid(r, env[at[r]].kid)
        /\ MetKey(r, env[at[r]].key)
    BY <2>1, MetNow
  <2> QED
    BY <1>5, <2>2 DEF StartLoad, TypeOK, bundles
<1>6. ASSUME NEW o \in Requests, ReadSecret(o) PROVE SignersTraced'
  <2>1. pc[o] \in Running
    BY <1>6 DEF ReadSecret
  <2>2. /\ MetRevision(o, env[at[o]].revision) /\ MetKid(o, env[at[o]].kid)
        /\ MetKey(o, env[at[o]].key)
    BY <2>1, MetNow
  <2> QED
    BY <1>6, <2>2 DEF ReadSecret, TypeOK, Load, bundles
<1>7. ASSUME NEW o \in Requests, Succeed(o) PROVE SignersTraced'
  BY <1>7 DEF Succeed, Waiters, TypeOK, Load, bundles
<1>8. ASSUME NEW o \in Requests, Fail(o) PROVE SignersTraced'
  BY <1>8 DEF Fail, Waiters, TypeOK, Load, bundles
<1>9. ASSUME NEW r \in Requests, Leave(r) PROVE SignersTraced'
  BY <1>9 DEF Leave, TypeOK, bundles, isolate
<1>10. ASSUME NEW e \in Bundles, Drop(e) PROVE SignersTraced'
  BY <1>10 DEF Drop, TypeOK, bundles
<1>11. ASSUME NEW e \in Bundles, Edit(e) PROVE SignersTraced'
  BY <1>11 DEF Edit, TypeOK, isolate
<1>12. CASE UNCHANGED vars
  BY <1>12 DEF vars
<1> QED
  BY <1>1, <1>2, <1>3, <1>4, <1>5, <1>6, <1>7, <1>8, <1>9, <1>10, <1>11, <1>12 DEF Next

LEMMA AlwaysTraced == Spec => []Traced
<1>1. Traced /\ [Next]_vars => Traced'
  BY TypeStep, CachesStep, SignersStep DEF Traced
<1> QED
  BY <1>1, InitTraced, PTL DEF Spec

-----------------------------------------------------------------------------
(* Theorems.                                                               *)

\* Every state is well typed.
THEOREM TypeCorrect == Spec => []TypeOK
<1>1. Traced => TypeOK
  BY DEF Traced
<1> QED
  BY <1>1, AlwaysTraced, PTL

\* Whatever is edited while a request waits, it is served under the identity
\* its origin was validated for, and an issuer cache belongs to one
\* application of one bundle (getApp).
THEOREM ServedAsAlwaysValidated == Spec => []ServedAsValidated
<1>1. Traced => ServedAsValidated
  BY DEF Traced, CachesTraced, ServedAsValidated
<1> QED
  BY <1>1, AlwaysTraced, PTL

\* Whatever was deployed between the instants at which the kid, the revision
\* and the private key were read, and since: the material is the request's own
\* bundle's, its label was in force while the request ran and its key while it
\* was loaded, and the two belong together when the load met one configuration
\* only (the entry key of the key material cache, lines 317-341 and 356-359).
THEOREM SignsAlwaysWithOwn == Spec => []SignsWithOwn
<1>1. ASSUME SignersTraced, NEW r \in Requests, pc[r] = "signed",
             NEW o \in Requests, o = from[r]
      PROVE  /\ at[o] = at[r] /\ MetRevision(r, load[o].revision) /\ MetKid(r, kid[o])
             /\ MetRevision(o, load[o].revision) /\ MetKid(o, kid[o])
             /\ MetKey(o, load[o].key)
  BY <1>1 DEF SignersTraced, HistoryTraced, LoadsTraced, WaitersTraced
<1>2. SignersTraced => SignsWithOwn
  <2> SUFFICES ASSUME SignersTraced PROVE SignsWithOwn
    OBVIOUS
  <2>1. \A r \in Requests : pc[r] = "signed" => from[r] \in Requests
    BY DEF SignersTraced, WaitersTraced
  <2> QED
    BY <1>1, <2>1 DEF SignsWithOwn, MetRevision, MetKid, MetKey
<1> QED
  BY <1>2, AlwaysTraced, PTL DEF Traced

\* No step takes a settled bundle's application away while the bundle stays as
\* it is (getApp).
THEOREM StaysAlwaysWarm == Spec => StaysWarm
<1>1. ASSUME TypeOK, [Next]_vars, NEW e \in Bundles, Settled(e), env'[e] = env[e]
      PROVE  apps'[e] = apps[e]
  <2>1. ASSUME NEW r \in Requests, Bind(r) PROVE apps'[e] = apps[e]
    <3>1. CASE at[r] = e
      BY <1>1, <2>1, <3>1 DEF Bind, Settled, Reusable, TypeOK
    <3>2. CASE at[r] # e
      BY <1>1, <2>1, <3>2 DEF Bind, TypeOK
    <3> QED
      BY <3>1, <3>2
  <2>2. CASE apps' = apps
    BY <2>2
  <2>3. (\E r \in Requests : Bind(r)) \/ apps' = apps
    BY <1>1 DEF Next, vars, Arrive, ReadKid, FindEntry, StartLoad,
         ReadSecret, Succeed, Fail, Leave, Drop, Edit, isolate
  <2> QED
    BY <2>1, <2>2, <2>3
<1>2. TypeOK /\ [Next]_vars =>
      [\A e \in Bundles : Settled(e) /\ env'[e] = env[e] => apps'[e] = apps[e]]_vars
  BY <1>1
<1> QED
  BY <1>2, TypeCorrect, PTL DEF Spec, StaysWarm
=============================================================================
