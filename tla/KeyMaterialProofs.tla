-------------------------- MODULE KeyMaterialProofs --------------------------
(***************************************************************************)
(* Proofs about KeyMaterial, for any requests, kids, keys, start states and*)
(* edits of the bindings, and any life and deadline.                       *)
(***************************************************************************)
EXTENDS KeyMaterial, TLAPS

Codes == {"signer_unavailable", "deadline_exceeded"}
Named == {"lookup", "resuming", "waiting", "signing"}

\* Where each request is, what it holds and whom it waits for.
Flow ==
  /\ \A r \in Requests : pc[r] \in {"idle", "naming", "lookup", "resuming"} => load[r].state = "none"
  /\ \A r \in Requests : pc[r] \in Named => kid[r] \in Kids
  /\ \A r \in Requests : pc[r] \in {"resuming", "waiting", "signing"} =>
       waitOn[r] \in Requests /\ load[waitOn[r]].kid = kid[r]
  /\ \A r \in Requests : pc[r] \in {"resuming", "signing"} => load[waitOn[r]].state = "ready"
  /\ EntriesSound

\* What a load has passed.
Checked ==
  /\ \A o \in Requests : load[o].state \in {"importing", "pairing", "ready"} => load[o].pem # NoKey
  /\ \A o \in Requests : load[o].state = "ready" => load[o].jwks[load[o].kid] = load[o].pem

\* No request outlives its deadline, nor material its life when it is given out.
Timely ==
  /\ clock >= 1
  /\ \A r \in Requests : Running(r) => start[r] <= clock /\ clock <= start[r] + Deadline
  /\ \A r \in Requests : pc[r] = "signing" => start[r] < load[waitOn[r]].expiresAt
  /\ \A o \in Requests : load[o].state = "ready" => load[o].expiresAt <= clock + TTL

\* A value was configured at t or later.
KidSince(k, t) == activeKid = k \/ (kidLeft[k] # 0 /\ kidLeft[k] >= t)
PemSince(x, t) == pem = x \/ (pemLeft[x] # 0 /\ pemLeft[x] >= t)
SetSince(s, t) ==
  \A k \in Kids : s[k] # NoKey =>
    jwks[k] = s[k] \/ (jwksLeft[k][s[k]] # 0 /\ jwksLeft[k][s[k]] >= t)

\* Since when the values in use may be out of the configuration.
Origin(o) == IF load[o].state = "ready" THEN load[o].expiresAt - TTL - Deadline ELSE start[o]
Configured ==
  /\ \A r \in Requests : pc[r] \in Named => KidSince(kid[r], start[r])
  /\ \A o \in Requests : load[o].state \in Pending \cup {"ready"} =>
       /\ load[o].pem # NoKey => PemSince(load[o].pem, Origin(o))
       /\ SetSince(load[o].jwks, Origin(o))

Justified == TypeOK /\ Flow /\ Checked /\ Timely /\ Configured

LEMMA Units == TTL \in Nat /\ Deadline \in Nat /\ TTL > 0 /\ Deadline > 0
BY BoundsAssumption

-----------------------------------------------------------------------------
(* Start states.                                                           *)

LEMMA InitJustified == Init => Justified
<1> SUFFICES ASSUME Init PROVE Justified
  OBVIOUS
<1>1. TypeOK
  BY DEF Init, TypeOK, Loads, NoLoad, KeySets, NoSet, Pending
<1>2. Flow
  BY NamesAssumption DEF Init, Flow, EntriesSound, Named, NoLoad, Pending
<1>3. Checked
  BY DEF Init, Checked, NoLoad
<1>4. Timely
  BY DEF Init, Timely, Running, NoLoad
<1>5. Configured
  BY DEF Init, Configured, Named, NoLoad, Pending
<1> QED
  BY <1>1, <1>2, <1>3, <1>4, <1>5 DEF Justified

-----------------------------------------------------------------------------
(* Kinds of steps.                                                         *)

\* A pending load rejects.
Fails(o) ==
  /\ load[o].state \in Pending
  /\ \E code, own \in Codes : Fail(o, code, own)
  /\ mismatch' \in SUBSET Requests
  /\ UNCHANGED clock

\* A load that stays pending gets on.
Advances(o) ==
  /\ load[o].state \in Pending
  /\ \E l \in Loads :
       /\ load' = [load EXCEPT ![o] = l]
       /\ l.state \in Pending /\ l.kid = load[o].kid
       /\ l.state # "reading" => l.pem # NoKey
       /\ l.pem \in {load[o].pem, pem, NoKey} /\ l.jwks \in {load[o].jwks, jwks, NoSet}
  /\ UNCHANGED <<clock, bindings, entries, request, mismatch>>

\* A request ends alone.
Leaves(r) ==
  /\ pc[r] \in {"naming", "lookup", "resuming", "waiting", "signing"} /\ load[r].state \notin Pending
  /\ \E code \in Codes \cup {"signed"} : Finish(r, code) /\ (code = "signed" => pc[r] = "signing")
  /\ UNCHANGED <<clock, bindings, entries, load, mismatch>>

LEMMA FailKinds ==
  ASSUME TypeOK, NEW o \in Requests,
         Unusable(o) \/ PairCheckFails(o) \/ AbortLoad(o) \/ AbortPairCheck(o)
  PROVE  Fails(o)
BY DEF Unusable, PairCheckFails, AbortLoad, AbortPairCheck, Fails, Fail, Codes, Pending,
       TypeOK, bindings

LEMMA AdvanceKinds ==
  ASSUME TypeOK, Checked, NEW o \in Requests,
         ReadBinding(o) \/ StartImport(o) \/ StartPairCheck(o)
  PROVE  Advances(o)
<1>1. load[o] \in Loads /\ pem \in Keys \cup {NoKey} /\ jwks \in KeySets /\ NoSet \in KeySets
  BY DEF TypeOK, NoSet, KeySets
<1>2. ASSUME ReadBinding(o) PROVE Advances(o)
  <2>1. ASSUME NEW x \in {pem, NoKey},
               load' = [load EXCEPT ![o].pem = x, ![o].left = @ \ {"pem"}]
        PROVE  Advances(o)
    <3> DEFINE l == [load[o] EXCEPT !.pem = x, !.left = @ \ {"pem"}]
    <3>1. l \in Loads
      BY <1>1 DEF Loads
    <3>2. load' = [load EXCEPT ![o] = l]
      BY <2>1 DEF TypeOK
    <3>3. l.state = "reading" /\ l.kid = load[o].kid /\ l.pem = x /\ l.jwks = load[o].jwks
      BY <1>1, <1>2 DEF ReadBinding, Loads
    <3> HIDE DEF l
    <3> QED
      BY <1>2, <3>1, <3>2, <3>3 DEF Advances, ReadBinding, Pending
  <2>2. ASSUME NEW s \in {jwks, NoSet},
               load' = [load EXCEPT ![o].jwks = s, ![o].left = @ \ {"jwks"}]
        PROVE  Advances(o)
    <3> DEFINE l == [load[o] EXCEPT !.jwks = s, !.left = @ \ {"jwks"}]
    <3>1. l \in Loads
      BY <1>1 DEF Loads
    <3>2. load' = [load EXCEPT ![o] = l]
      BY <2>2 DEF TypeOK
    <3>3. l.state = "reading" /\ l.kid = load[o].kid /\ l.pem = load[o].pem /\ l.jwks = s
      BY <1>1, <1>2 DEF ReadBinding, Loads
    <3> HIDE DEF l
    <3> QED
      BY <1>2, <3>1, <3>2, <3>3 DEF Advances, ReadBinding, Pending
  <2> QED
    BY <1>2, <2>1, <2>2 DEF ReadBinding
<1>3. ASSUME NEW s \in {"importing", "pairing"}, load' = [load EXCEPT ![o].state = s],
             load[o].state \in Pending, load[o].pem # NoKey,
             UNCHANGED <<clock, bindings, entries, request, mismatch>>
      PROVE  Advances(o)
  <2> DEFINE l == [load[o] EXCEPT !.state = s]
  <2>1. l \in Loads
    BY <1>1 DEF Loads, Pending
  <2>2. load' = [load EXCEPT ![o] = l]
    BY <1>3 DEF TypeOK
  <2>3. l.state = s /\ l.kid = load[o].kid /\ l.pem = load[o].pem /\ l.jwks = load[o].jwks
    BY <1>1 DEF Loads
  <2> HIDE DEF l
  <2> QED
    BY <1>3, <2>1, <2>2, <2>3 DEF Advances, Pending
<1>4. StartImport(o) => load[o].pem # NoKey /\ load[o].state = "reading"
                        /\ load' = [load EXCEPT ![o].state = "importing"]
                        /\ UNCHANGED <<clock, bindings, entries, request, mismatch>>
  BY DEF StartImport, Present
<1>5. StartPairCheck(o) => load[o].pem # NoKey /\ load[o].state = "importing"
                           /\ load' = [load EXCEPT ![o].state = "pairing"]
                           /\ UNCHANGED <<clock, bindings, entries, request, mismatch>>
  BY DEF StartPairCheck, Checked
<1> QED
  BY <1>2, <1>3, <1>4, <1>5 DEF Pending

LEMMA LeaveKinds ==
  ASSUME TypeOK, Flow, NEW r \in Requests, NoActiveKid(r) \/ Sign(r) \/ Abort(r)
  PROVE  Leaves(r)
BY DEF NoActiveKid, Sign, Abort, Leaves, Due, Running, Codes, Flow, EntriesSound, Creates,
       TypeOK, Pending

\* Every step is of one of these kinds.
LEMMA StepKinds ==
  ASSUME TypeOK, Flow, Checked, [Next]_vars
  PROVE  \/ \E r \in Requests : \/ Begin(r) \/ ReadKid(r) \/ Join(r) \/ Find(r) \/ Hit(r)
                                \/ StartLoad(r) \/ Advances(r) \/ Fails(r) \/ Succeed(r)
                                \/ Leaves(r)
         \/ Edit \/ Tick \/ UNCHANGED vars
BY FailKinds, AdvanceKinds, LeaveKinds DEF Next, Step, Lookup, Expire

-----------------------------------------------------------------------------
(* Every step keeps each part of the invariant.                            *)

LEMMA SucceedLoad ==
  ASSUME TypeOK, NEW o \in Requests, Succeed(o)
  PROVE  /\ load[o].state = "pairing" /\ load'[o] \in Loads
         /\ load'[o].state = "ready" /\ load'[o].expiresAt = clock + TTL
         /\ load'[o].kid = load[o].kid /\ load'[o].pem = load[o].pem
         /\ load'[o].jwks = load[o].jwks
         /\ load' = [load EXCEPT ![o] = load'[o]]
         /\ \A q \in Requests : q # o => load'[q] = load[q]
<1> DEFINE l == [load[o] EXCEPT !.state = "ready", !.expiresAt = clock + TTL]
<1>1. load[o] \in Loads /\ clock + TTL \in Nat
  BY Units DEF TypeOK
<1>2. /\ l \in Loads /\ l.state = "ready" /\ l.expiresAt = clock + TTL
      /\ l.kid = load[o].kid /\ l.pem = load[o].pem /\ l.jwks = load[o].jwks
  BY <1>1 DEF Loads
<1>3. load' = [load EXCEPT ![o] = l] /\ load[o].state = "pairing"
  BY DEF Succeed, TypeOK
<1> HIDE DEF l
<1>4. load'[o] = l /\ \A q \in Requests : q # o => load'[q] = load[q]
  BY <1>3 DEF TypeOK
<1> QED
  BY <1>2, <1>3, <1>4

LEMMA TypeStep ==
  ASSUME TypeOK, Flow, Checked, [Next]_vars
  PROVE  TypeOK'
<1> USE DEF TypeOK, bindings, request
<1>1. ASSUME NEW r \in Requests, Begin(r) PROVE TypeOK'
  BY <1>1 DEF Begin
<1>2. ASSUME NEW r \in Requests, ReadKid(r) PROVE TypeOK'
  BY <1>2 DEF ReadKid
<1>3. ASSUME NEW r \in Requests, Join(r) PROVE TypeOK'
  BY <1>3 DEF Join, Flow, Named
<1>4. ASSUME NEW r \in Requests, Find(r) PROVE TypeOK'
  BY <1>4 DEF Find, Flow, Named
<1>5. ASSUME NEW r \in Requests, Hit(r) PROVE TypeOK'
  BY <1>5 DEF Hit, Deliver
<1>6. ASSUME NEW r \in Requests, StartLoad(r) PROVE TypeOK'
  BY <1>6 DEF StartLoad, Loads, NoLoad, NoSet, KeySets, Pending
<1>7. ASSUME NEW o \in Requests, Advances(o) PROVE TypeOK'
  BY <1>7 DEF Advances
<1>8. ASSUME NEW o \in Requests, Fails(o) PROVE TypeOK'
  <2>1. [NoLoad EXCEPT !.state = "failed"] \in Loads
    BY DEF NoLoad, Loads, NoSet, KeySets
  <2>2. load' = [load EXCEPT ![o] = [NoLoad EXCEPT !.state = "failed"]]
    BY <1>8 DEF Fails, Fail
  <2>3. load' \in [Requests -> Loads]
    BY <2>1, <2>2
  <2>4. /\ pc' \in [Requests -> {"idle", "naming", "lookup", "resuming", "waiting", "signing", "done"}]
        /\ kid' \in [Requests -> Kids \cup {NoKid}] /\ start' \in [Requests -> Nat]
    BY <1>8 DEF Fails, Fail, Ends
  <2>5. entries' \in [Kids -> Requests \cup {NoReq}]
    BY <1>8 DEF Fails, Fail
  <2> QED
    BY <1>8, <2>3, <2>4, <2>5 DEF Fails, Fail, Codes
<1>9. ASSUME NEW o \in Requests, Succeed(o) PROVE TypeOK'
  <2>1. load' \in [Requests -> Loads]
    BY <1>9, SucceedLoad
  <2> QED
    BY <1>9, <2>1 DEF Succeed, Deliver
<1>10. ASSUME NEW r \in Requests, Leaves(r) PROVE TypeOK'
  BY <1>10 DEF Leaves, Finish, Ends, Codes
<1>11. ASSUME Edit PROVE TypeOK'
  <2>1. /\ edits' \in Nat /\ activeKid' \in Kids \cup {NoKid} /\ pem' \in Keys \cup {NoKey}
        /\ jwks' \in KeySets
    BY <1>11 DEF Edit
  <2>2. kidLeft' \in [Kids -> Nat]
    BY <1>11 DEF Edit
  <2>3. pemLeft' \in [Keys -> Nat]
    BY <1>11 DEF Edit
  <2>4. jwksLeft' \in [Kids -> [Keys -> Nat]]
    <3>1. CASE UNCHANGED jwksLeft
      BY <3>1
    <3>2. CASE jwksLeft' = [k \in Kids |-> [x \in Keys |->
                 IF jwks[k] = x /\ jwks'[k] # x THEN clock ELSE jwksLeft[k][x]]]
      <4>1. \A k \in Kids : \A x \in Keys : clock \in Nat /\ jwksLeft[k][x] \in Nat
        OBVIOUS
      <4> QED
        BY <3>2, <4>1
    <3> QED
      BY <1>11, <3>1, <3>2 DEF Edit
  <2> QED
    BY <1>11, <2>1, <2>2, <2>3, <2>4 DEF Edit
<1>12. ASSUME Tick PROVE TypeOK'
  BY <1>12 DEF Tick
<1>13. CASE UNCHANGED vars
  BY <1>13 DEF vars, bindings, request
<1> QED
  BY <1>1, <1>2, <1>3, <1>4, <1>5, <1>6, <1>7, <1>8, <1>9, <1>10, <1>11, <1>12, <1>13, StepKinds

LEMMA FlowStep ==
  ASSUME TypeOK, Flow, Checked, [Next]_vars
  PROVE  Flow'
<1> USE DEF TypeOK, Flow, EntriesSound, Creates, Named, Pending, bindings, request
<1>1. ASSUME NEW r \in Requests, Begin(r) PROVE Flow'
  BY <1>1 DEF Begin
<1>2. ASSUME NEW r \in Requests, ReadKid(r) PROVE Flow'
  BY <1>2 DEF ReadKid
<1>3. ASSUME NEW r \in Requests, Join(r) PROVE Flow'
  BY <1>3 DEF Join
<1>4. ASSUME NEW r \in Requests, Find(r) PROVE Flow'
  BY <1>4 DEF Find
<1>5. ASSUME NEW r \in Requests, Hit(r) PROVE Flow'
  BY <1>5 DEF Hit, Deliver
<1>6. ASSUME NEW r \in Requests, StartLoad(r) PROVE Flow'
  BY <1>6, NamesAssumption DEF StartLoad, NoLoad
<1>7. ASSUME NEW o \in Requests, Advances(o) PROVE Flow'
  BY <1>7 DEF Advances, Loads
<1>8. ASSUME NEW o \in Requests, Fails(o) PROVE Flow'
  BY <1>8 DEF Fails, Fail, Ends, Waiters, NoLoad
<1>9. ASSUME NEW o \in Requests, Succeed(o) PROVE Flow'
  BY <1>9 DEF Succeed, Deliver, Waiters, Loads
<1>10. ASSUME NEW r \in Requests, Leaves(r) PROVE Flow'
  BY <1>10 DEF Leaves, Finish, Ends
<1>11. ASSUME Edit PROVE Flow'
  BY <1>11 DEF Edit
<1>12. ASSUME Tick PROVE Flow'
  BY <1>12 DEF Tick
<1>13. CASE UNCHANGED vars
  BY <1>13 DEF vars, bindings, request
<1> QED
  BY <1>1, <1>2, <1>3, <1>4, <1>5, <1>6, <1>7, <1>8, <1>9, <1>10, <1>11, <1>12, <1>13, StepKinds

LEMMA CheckedStep ==
  ASSUME TypeOK, Flow, Checked, [Next]_vars
  PROVE  Checked'
<1> USE DEF TypeOK, Checked, bindings, request
<1>1. ASSUME NEW r \in Requests, Begin(r) PROVE Checked'
  BY <1>1 DEF Begin
<1>2. ASSUME NEW r \in Requests, ReadKid(r) PROVE Checked'
  BY <1>2 DEF ReadKid
<1>3. ASSUME NEW r \in Requests, Join(r) PROVE Checked'
  BY <1>3 DEF Join
<1>4. ASSUME NEW r \in Requests, Find(r) PROVE Checked'
  BY <1>4 DEF Find
<1>5. ASSUME NEW r \in Requests, Hit(r) PROVE Checked'
  BY <1>5 DEF Hit
<1>6. ASSUME NEW r \in Requests, StartLoad(r) PROVE Checked'
  BY <1>6 DEF StartLoad, NoLoad
<1>7. ASSUME NEW o \in Requests, Advances(o) PROVE Checked'
  BY <1>7 DEF Advances, Pending
<1>8. ASSUME NEW o \in Requests, Fails(o) PROVE Checked'
  BY <1>8 DEF Fails, Fail, NoLoad
<1>9. ASSUME NEW o \in Requests, Succeed(o) PROVE Checked'
  BY <1>9 DEF Succeed, Paired, Loads
<1>10. ASSUME NEW r \in Requests, Leaves(r) PROVE Checked'
  BY <1>10 DEF Leaves
<1>11. ASSUME Edit PROVE Checked'
  BY <1>11 DEF Edit
<1>12. ASSUME Tick PROVE Checked'
  BY <1>12 DEF Tick
<1>13. CASE UNCHANGED vars
  BY <1>13 DEF vars, bindings, request
<1> QED
  BY <1>1, <1>2, <1>3, <1>4, <1>5, <1>6, <1>7, <1>8, <1>9, <1>10, <1>11, <1>12, <1>13, StepKinds

LEMMA TimelyStep ==
  ASSUME TypeOK, Flow, Checked, Timely, [Next]_vars
  PROVE  Timely'
<1> USE DEF TypeOK, Timely, Running, bindings, request
<1>1. ASSUME NEW r \in Requests, Begin(r) PROVE Timely'
  BY <1>1, Units DEF Begin
<1>2. ASSUME NEW r \in Requests, ReadKid(r) PROVE Timely'
  BY <1>2 DEF ReadKid
<1>3. ASSUME NEW r \in Requests, Join(r) PROVE Timely'
  BY <1>3 DEF Join
<1>4. ASSUME NEW r \in Requests, Find(r) PROVE Timely'
  BY <1>4 DEF Find
<1>5. ASSUME NEW r \in Requests, Hit(r) PROVE Timely'
  <2>1. waitOn[r] \in Requests /\ load[waitOn[r]].state = "ready" /\ Running(r)
    BY <1>5 DEF Hit, Flow
  <2>2. clock < load[waitOn[r]].expiresAt /\ start[r] <= clock
    <3>1. load[waitOn[r]] \in Loads /\ waitOn[r] # NoReq
      BY <2>1, NamesAssumption
    <3>2. load[waitOn[r]].expiresAt \in Nat
      BY <3>1 DEF Loads
    <3>3. ~(load[waitOn[r]].expiresAt <= clock)
      BY <1>5, <2>1, <3>1 DEF Hit, Expired
    <3> QED
      BY <2>1, <3>2, <3>3
  <2> QED
    BY <1>5, <2>1, <2>2 DEF Hit, Deliver, Loads
<1>6. ASSUME NEW r \in Requests, StartLoad(r) PROVE Timely'
  BY <1>6 DEF StartLoad, NoLoad, Flow
<1>7. ASSUME NEW o \in Requests, Advances(o) PROVE Timely'
  BY <1>7 DEF Advances, Flow, Pending
<1>8. ASSUME NEW o \in Requests, Fails(o) PROVE Timely'
  BY <1>8 DEF Fails, Fail, Ends, NoLoad, Flow, Pending
<1>9. ASSUME NEW o \in Requests, Succeed(o) PROVE Timely'
  <2> USE DEF Flow, Pending
  <2>2. clock' = clock /\ load'[o].expiresAt = clock + TTL
        /\ \A q \in Requests : q # o => load'[q] = load[q]
    BY <1>9, SucceedLoad DEF Succeed
  <2>3. \A r \in Requests : pc'[r] \notin {"idle", "done"} =>
          pc[r] \notin {"idle", "done"} /\ start'[r] = start[r]
    BY <1>9 DEF Succeed, Deliver, Waiters
  <2>4. ASSUME NEW r \in Requests, pc'[r] = "signing"
        PROVE  start'[r] < load'[waitOn'[r]].expiresAt
    <3>1. start[r] <= clock /\ start'[r] = start[r] /\ start[r] \in Nat
      BY <2>3, <2>4
    <3>2. CASE waitOn'[r] = o
      BY <2>2, <3>1, <3>2, Units
    <3>3. CASE waitOn'[r] # o
      <4>1. pc[r] = "signing" /\ waitOn'[r] = waitOn[r] /\ waitOn[r] \in Requests
        BY <1>9, <2>4, <3>3 DEF Succeed, Deliver, Waiters
      <4> QED
        BY <2>2, <3>1, <3>3, <4>1
    <3> QED
      BY <3>2, <3>3
  <2>5. \A q \in Requests : load'[q].state = "ready" => load'[q].expiresAt <= clock + TTL
    BY <2>2, Units
  <2> QED
    BY <2>2, <2>3, <2>4, <2>5
<1>10. ASSUME NEW r \in Requests, Leaves(r) PROVE Timely'
  BY <1>10 DEF Leaves, Finish, Ends
<1>11. ASSUME Edit PROVE Timely'
  BY <1>11 DEF Edit
<1>12. ASSUME Tick PROVE Timely'
  <2>1. \A r \in Requests : Running(r) => clock < start[r] + Deadline
    BY <1>12, Units DEF Tick, Due
  <2>2. \A q \in Requests : load[q].expiresAt \in Nat
    BY DEF Loads
  <2> QED
    BY <1>12, <2>1, <2>2, Units DEF Tick
<1>13. CASE UNCHANGED vars
  BY <1>13 DEF vars, bindings, request
<1> QED
  BY <1>1, <1>2, <1>3, <1>4, <1>5, <1>6, <1>7, <1>8, <1>9, <1>10, <1>11, <1>12, <1>13, StepKinds

\* A load that is under way or ready and stays as it is.
LEMMA LoadKept ==
  ASSUME TypeOK, Flow, Configured, UNCHANGED bindings, NEW q \in Requests,
         load[q].state \in Pending \cup {"ready"}, load'[q] = load[q],
         load[q].state \in Pending => start'[q] = start[q]
  PROVE  /\ load'[q].pem # NoKey => PemSince(load[q].pem, Origin(q))'
         /\ SetSince(load[q].jwks, Origin(q))'
<1>1. Origin(q)' = Origin(q)
  BY DEF Origin
<1>2. load[q].pem # NoKey => PemSince(load[q].pem, Origin(q))
  BY DEF Configured
<1>3. SetSince(load[q].jwks, Origin(q))
  BY DEF Configured
<1>4. load[q].pem # NoKey => PemSince(load[q].pem, Origin(q))'
  BY <1>1, <1>2 DEF PemSince, bindings
<1>5. SetSince(load[q].jwks, Origin(q))'
  BY <1>1, <1>3 DEF SetSince, bindings
<1> QED
  BY <1>4, <1>5

\* A request that keeps the kid it has read.
LEMMA KidKept ==
  ASSUME Configured, UNCHANGED bindings, NEW r \in Requests,
         pc[r] \in Named, kid'[r] = kid[r], start'[r] = start[r]
  PROVE  KidSince(kid[r], start[r])'
BY DEF Configured, KidSince, bindings

\* A load's values, as the invariant says it of the load q.
LoadConfigured(q) ==
  /\ load[q].pem # NoKey => PemSince(load[q].pem, Origin(q))
  /\ SetSince(load[q].jwks, Origin(q))

KidsFollow ==
  \A r \in Requests : pc'[r] \in Named =>
    \/ pc[r] \in Named /\ kid'[r] = kid[r] /\ start'[r] = start[r]
    \/ kid'[r] = activeKid'
LoadsFollow ==
  \A q \in Requests : load'[q].state \in Pending \cup {"ready"} =>
    \/ load'[q] = load[q] /\ (load[q].state \in Pending => start'[q] = start[q])
    \/ LoadConfigured(q)'

LEMMA ConfiguredKept ==
  ASSUME TypeOK, Flow, Configured, UNCHANGED bindings, KidsFollow, LoadsFollow
  PROVE  Configured'
<1>1. ASSUME NEW r \in Requests, pc'[r] \in Named PROVE KidSince(kid[r], start[r])'
  <2>1. CASE kid'[r] = activeKid'
    BY <2>1 DEF KidSince
  <2>2. CASE kid'[r] # activeKid'
    BY <1>1, <2>2, KidKept DEF KidsFollow
  <2> QED
    BY <2>1, <2>2
<1>2. ASSUME NEW q \in Requests, load'[q].state \in Pending \cup {"ready"}
      PROVE  LoadConfigured(q)'
  BY <1>2, LoadKept DEF LoadsFollow, LoadConfigured
<1> QED
  BY <1>1, <1>2 DEF Configured, LoadConfigured

LEMMA ConfiguredStep ==
  ASSUME TypeOK, Flow, Checked, Timely, Configured, [Next]_vars
  PROVE  Configured'
<1>0. \A q \in Requests : load[q].state \in Pending => pc[q] = "waiting"
  BY DEF Flow, EntriesSound, Creates
<1>1. ASSUME NEW r \in Requests, Begin(r) \/ ReadKid(r) \/ Join(r) \/ Find(r) \/ Hit(r) \/ Leaves(r)
      PROVE  Configured'
  <2>1. UNCHANGED <<bindings, load>>
    BY <1>1 DEF Begin, ReadKid, Join, Find, Hit, Leaves
  <2>2. KidsFollow
    BY <1>1, <2>1 DEF Begin, ReadKid, Join, Find, Hit, Deliver, Leaves, Finish, Ends, KidsFollow,
                      TypeOK, Named, bindings
  <2>3. \A q \in Requests : pc[q] = "waiting" => start'[q] = start[q] \/ load[q].state \notin Pending
    BY <1>1 DEF Begin, ReadKid, Join, Find, Hit, Deliver, Leaves, Finish, Ends, TypeOK
  <2> QED
    BY <1>0, <2>1, <2>2, <2>3, ConfiguredKept DEF LoadsFollow
<1>2. ASSUME NEW r \in Requests, StartLoad(r) PROVE Configured'
  <2>1. UNCHANGED <<bindings, start>> /\ \A q \in Requests : q # r => load'[q] = load[q]
    BY <1>2 DEF StartLoad, TypeOK
  <2>2. KidsFollow
    BY <1>2 DEF StartLoad, KidsFollow, TypeOK, Named
  <2>3. load'[r].pem = NoKey /\ load'[r].jwks = NoSet
    BY <1>2 DEF StartLoad, NoLoad, TypeOK
  <2>4. LoadConfigured(r)'
    BY <2>3 DEF LoadConfigured, SetSince, NoSet
  <2> QED
    BY <2>1, <2>2, <2>4, ConfiguredKept DEF LoadsFollow
<1>3. ASSUME NEW o \in Requests, Advances(o) PROVE Configured'
  <2>1. PICK l \in Loads :
          /\ load' = [load EXCEPT ![o] = l]
          /\ l.state \in Pending
          /\ l.pem \in {load[o].pem, pem, NoKey} /\ l.jwks \in {load[o].jwks, jwks, NoSet}
    BY <1>3 DEF Advances
  <2>2. UNCHANGED <<bindings, request>> /\ load'[o] = l /\ load[o].state \in Pending
        /\ \A q \in Requests : q # o => load'[q] = load[q]
    BY <1>3, <2>1 DEF Advances, TypeOK
  <2>3. KidsFollow
    BY <2>2 DEF KidsFollow, request
  <2>4. Origin(o) = start[o] /\ Origin(o)' = start[o]
    BY <2>1, <2>2 DEF Origin, Pending, request
  <2>5. l.pem # NoKey => PemSince(l.pem, start[o])'
    BY <2>1, <2>2, <2>4 DEF Configured, PemSince, bindings, request
  <2>6. SetSince(l.jwks, start[o])'
    BY <2>1, <2>2, <2>4 DEF Configured, SetSince, NoSet, bindings, request
  <2>7. LoadConfigured(o)'
    BY <2>2, <2>4, <2>5, <2>6 DEF LoadConfigured, PemSince, SetSince, request
  <2> QED
    BY <2>2, <2>3, <2>7, ConfiguredKept DEF LoadsFollow, request
<1>4. ASSUME NEW o \in Requests, Fails(o) PROVE Configured'
  <2>1. UNCHANGED bindings /\ load'[o].state = "failed"
        /\ \A q \in Requests : q # o => load'[q] = load[q]
    BY <1>4 DEF Fails, Fail, NoLoad, TypeOK
  <2>2. \A q \in Requests :
          \/ pc'[q] = "done"
          \/ pc'[q] = pc[q] /\ kid'[q] = kid[q] /\ start'[q] = start[q]
    <3>1. Ends(Waiters(o))
      BY <1>4 DEF Fails, Fail
    <3>2. \A q \in Requests \ Waiters(o) : pc'[q] = pc[q] /\ kid'[q] = kid[q] /\ start'[q] = start[q]
      BY <3>1 DEF Ends
    <3>3. \A q \in Waiters(o) : q \in Requests => pc'[q] = "done"
      BY <3>1 DEF Ends
    <3> QED
      BY <3>2, <3>3
  <2>3. KidsFollow
    BY <2>2 DEF KidsFollow, Named
  <2>4. \A q \in Requests : q # o /\ load[q].state \in Pending => start'[q] = start[q]
    BY <1>0, <1>4 DEF Fails, Fail, Ends, Waiters, Flow, EntriesSound, Creates
  <2> QED
    BY <2>1, <2>3, <2>4, ConfiguredKept DEF LoadsFollow, Pending
<1>5. ASSUME NEW o \in Requests, Succeed(o) PROVE Configured'
  <2>1. UNCHANGED bindings /\ load[o].state \in Pending
    BY <1>5 DEF Succeed, Pending
  <2>2. KidsFollow
    BY <1>5 DEF Succeed, Deliver, Waiters, KidsFollow, TypeOK, Named
  <2>3. \A q \in Requests : q # o /\ load[q].state \in Pending => start'[q] = start[q]
    BY <1>0, <1>5 DEF Succeed, Deliver, Waiters, Flow, EntriesSound, Creates
  <2>4. Origin(o) = start[o] /\ Origin(o)' = (clock + TTL) - TTL - Deadline
    <3>1. load[o].state # "ready" /\ load'[o].state = "ready" /\ load'[o].expiresAt = clock + TTL
      BY <1>5, SucceedLoad
    <3>2. Origin(o) = start[o]
      BY <3>1 DEF Origin
    <3>3. Origin(o)' = load'[o].expiresAt - TTL - Deadline
      BY <3>1 DEF Origin
    <3> QED
      BY <3>1, <3>2, <3>3, Zenon
  <2>5. clock \in Nat /\ start[o] \in Nat /\ clock <= start[o] + Deadline
    BY <1>0, <2>1 DEF Timely, Running, TypeOK
  <2>6. Origin(o)' <= start[o] /\ Origin(o)' \in Int
    BY <2>4, <2>5, Units
  <2>7. UNCHANGED <<pem, pemLeft, jwks, jwksLeft>> /\ load'[o].pem = load[o].pem
        /\ load'[o].jwks = load[o].jwks
    BY <1>5, <2>1, SucceedLoad DEF bindings
  <2>8. load'[o].pem # NoKey => PemSince(load[o].pem, Origin(o))'
    <3>1. load[o].pem # NoKey => PemSince(load[o].pem, start[o])
      BY <2>1, <2>4 DEF Configured
    <3>2. load[o].pem # NoKey => pemLeft[load[o].pem] \in Nat
      BY DEF TypeOK, Loads
    <3> QED
      BY <2>5, <2>6, <2>7, <3>1, <3>2 DEF PemSince
  <2>9. SetSince(load[o].jwks, Origin(o))'
    <3>1. SetSince(load[o].jwks, start[o])
      BY <2>1, <2>4 DEF Configured
    <3>2. \A k \in Kids : load[o].jwks[k] # NoKey => jwksLeft[k][load[o].jwks[k]] \in Nat
      BY DEF TypeOK, Loads, KeySets
    <3> QED
      BY <2>5, <2>6, <2>7, <3>1, <3>2 DEF SetSince
  <2>10. LoadConfigured(o)'
    BY <2>8, <2>9 DEF LoadConfigured
  <2> QED
    BY <1>5, <2>1, <2>2, <2>3, <2>10, ConfiguredKept, SucceedLoad DEF LoadsFollow
<1>6. ASSUME Edit PROVE Configured'
  <2> USE DEF Edit
  <2>1. UNCHANGED <<clock, load, request>> /\ clock \in Nat /\ clock >= 1
    BY <1>6 DEF Timely, TypeOK
  <2>2. ASSUME NEW r \in Requests, pc[r] \in Named PROVE KidSince(kid[r], start[r])'
    <3>1. KidSince(kid[r], start[r]) /\ kid[r] \in Kids /\ start[r] \in Nat /\ start[r] <= clock
      BY <2>2 DEF Configured, Flow, Timely, Running, Named, TypeOK
    <3> QED
      BY <1>6, <2>1, <3>1 DEF KidSince, TypeOK, request
  <2>3. ASSUME NEW q \in Requests, load[q].state \in Pending \cup {"ready"}
        PROVE  LoadConfigured(q)'
    <3>1. LoadConfigured(q) /\ Origin(q)' = Origin(q)
      BY <2>1, <2>3 DEF Configured, LoadConfigured, Origin, request
    <3>2. Origin(q) \in Int /\ Origin(q) <= clock
      <4>1. CASE load[q].state = "ready"
        BY <2>1, <4>1, Units DEF Origin, Timely, TypeOK, Loads
      <4>2. CASE load[q].state # "ready"
        BY <1>0, <2>1, <2>3, <4>2 DEF Origin, Timely, Running, TypeOK
      <4> QED
        BY <4>1, <4>2
    <3>3. load[q].pem # NoKey => PemSince(load[q].pem, Origin(q))'
      <4>1. load[q].pem # NoKey => load[q].pem \in Keys
        BY DEF TypeOK, Loads
      <4> QED
        BY <1>6, <2>1, <3>1, <3>2, <4>1 DEF LoadConfigured, PemSince, TypeOK
    <3>4. SetSince(load[q].jwks, Origin(q))'
      <4>1. \A k \in Kids : load[q].jwks[k] # NoKey => load[q].jwks[k] \in Keys
        BY DEF TypeOK, Loads, KeySets
      <4> QED
        BY <1>6, <2>1, <3>1, <3>2, <4>1 DEF LoadConfigured, SetSince, TypeOK
    <3> QED
      BY <2>1, <3>3, <3>4 DEF LoadConfigured
  <2> QED
    BY <2>1, <2>2, <2>3 DEF Configured, LoadConfigured, request
<1>7. ASSUME Tick \/ UNCHANGED vars PROVE Configured'
  <2>1. UNCHANGED <<bindings, load, request>>
    BY <1>7 DEF Tick, vars
  <2> QED
    BY <2>1, ConfiguredKept DEF KidsFollow, LoadsFollow, request
<1> QED
  BY <1>1, <1>2, <1>3, <1>4, <1>5, <1>6, <1>7, StepKinds

LEMMA AlwaysJustified == Spec => []Justified
<1>1. Justified /\ [Next]_vars => Justified'
  BY TypeStep, FlowStep, CheckedStep, TimelyStep, ConfiguredStep DEF Justified
<1> QED
  BY <1>1, InitJustified, PTL DEF Spec

-----------------------------------------------------------------------------
(* Theorems.                                                               *)

\* Every state is well typed.
THEOREM TypeCorrect == Spec => []TypeOK
<1>1. Justified => TypeOK
  BY DEF Justified
<1> QED
  BY <1>1, AlwaysJustified, PTL

\* Whatever order the bindings are read and edited in, ready material holds the
\* private key of the public key its set lists under its kid (loadKeyMaterial).
THEOREM AlwaysMatched == Spec => []Matched
<1>1. Justified => Matched
  BY DEF Justified, Checked, Matched
<1> QED
  BY <1>1, AlwaysJustified, PTL

\* Entries are loads of their kid, and nobody waits for a load that has settled
\* or that nobody carries on (get).
THEOREM EntriesAlwaysSound == Spec => []EntriesSound
<1>1. Justified => EntriesSound
  BY DEF Justified, Flow
<1> QED
  BY <1>1, AlwaysJustified, PTL

\* How a request can end.
LEMMA Outcomes ==
  ASSUME TypeOK, Flow, Checked, [Next]_vars, NEW r \in Requests
  PROVE  \/ outcome'[r] \in {outcome[r]} \cup Codes
         \/ outcome'[r] = "published" /\ \E o \in Requests : Hit(o) \/ Succeed(o)
         \/ outcome'[r] = "signed" /\ Leaves(r) /\ pc[r] = "signing"
<1>1. ASSUME NEW q \in Requests, Hit(q) \/ Succeed(q) PROVE outcome'[r] \in {outcome[r], "published"}
  BY <1>1 DEF Hit, Succeed, Deliver
<1>2. ASSUME NEW q \in Requests, Fails(q) PROVE outcome'[r] \in {outcome[r]} \cup Codes
  BY <1>2 DEF Fails, Fail
<1>3. ASSUME NEW q \in Requests, Leaves(q)
      PROVE  \/ outcome'[r] \in {outcome[r]} \cup Codes
             \/ outcome'[r] = "signed" /\ Leaves(r) /\ pc[r] = "signing"
  BY <1>3 DEF Leaves, Finish, TypeOK
<1>4. ASSUME NEW q \in Requests,
             Begin(q) \/ ReadKid(q) \/ Join(q) \/ Find(q) \/ StartLoad(q) \/ Advances(q)
      PROVE  outcome' = outcome
  BY <1>4 DEF Begin, ReadKid, Join, Find, StartLoad, Advances, request
<1>5. Edit \/ Tick \/ UNCHANGED vars => outcome' = outcome
  BY DEF Edit, Tick, vars, request
<1> QED
  BY <1>1, <1>2, <1>3, <1>4, <1>5, StepKinds

\* Material that is given out in this step.
LEMMA PublishedMaterial ==
  ASSUME Justified, [Next]_vars, NEW r \in Requests,
         outcome[r] = "none", outcome'[r] = "published"
  PROVE  LET m == load'[waitOn'[r]] IN
         /\ waitOn'[r] \in Requests /\ m.state = "ready" /\ clock < m.expiresAt
         /\ UNCHANGED <<clock, bindings>>
<1> USE DEF Justified
<1>1. (\E q \in Requests : Hit(q)) \/ \E o \in Requests : Succeed(o)
  BY Outcomes DEF Codes
<1>2. ASSUME NEW q \in Requests, Hit(q)
      PROVE  LET m == load'[waitOn'[r]] IN
             /\ waitOn'[r] \in Requests /\ m.state = "ready" /\ clock < m.expiresAt
             /\ UNCHANGED <<clock, bindings>>
  <2>1. r = q /\ waitOn'[r] = waitOn[q] /\ UNCHANGED <<clock, bindings, load>>
    BY <1>2 DEF Hit, Deliver
  <2>2. waitOn[q] \in Requests /\ load[waitOn[q]].state = "ready" /\ waitOn[q] # NoReq
    BY <1>2, NamesAssumption DEF Hit, Flow
  <2>3. load[waitOn[q]].expiresAt \in Nat /\ clock \in Nat
    BY <2>2 DEF TypeOK, Loads
  <2>4. ~(load[waitOn[q]].expiresAt <= clock)
    BY <1>2, <2>2 DEF Hit, Expired
  <2> QED
    BY <2>1, <2>2, <2>3, <2>4
<1>3. ASSUME NEW o \in Requests, Succeed(o)
      PROVE  LET m == load'[waitOn'[r]] IN
             /\ waitOn'[r] \in Requests /\ m.state = "ready" /\ clock < m.expiresAt
             /\ UNCHANGED <<clock, bindings>>
  <2>1. waitOn'[r] = o /\ UNCHANGED <<clock, bindings>>
    BY <1>3 DEF Succeed, Deliver
  <2>2. clock \in Nat
    BY DEF TypeOK
  <2> QED
    BY <1>3, <2>1, <2>2, SucceedLoad, Units
<1> QED
  BY <1>1, <1>2, <1>3

\* What Retires says of one step.
RetireStep ==
  \A r \in Requests :
    LET m == load'[waitOn'[r]] IN
    /\ outcome[r] = "none" /\ outcome'[r] = "signed" =>
         /\ activeKid = m.kid \/ (kidLeft[m.kid] # 0 /\ kidLeft[m.kid] >= start[r])
         /\ pem = m.pem \/ Within(pemLeft[m.pem], TTL + 2 * Deadline)
    /\ outcome[r] = "none" /\ outcome'[r] = "published" =>
         \A k \in Kids : m.jwks[k] # NoKey =>
           jwks[k] = m.jwks[k] \/ Within(jwksLeft[k][m.jwks[k]], TTL + Deadline)

\* A withdrawn kid is out of use for requests that come later, a withdrawn
\* private key after the life of material and two deadlines, a withdrawn public
\* key after the life and one deadline, for any life and deadline (get and
\* loadKeyMaterial).
THEOREM AlwaysRetires == Spec => Retires
<1>1. ASSUME Justified, [Next]_vars, NEW r \in Requests,
             outcome[r] = "none", outcome'[r] = "signed"
      PROVE  LET m == load'[waitOn'[r]] IN
             /\ activeKid = m.kid \/ (kidLeft[m.kid] # 0 /\ kidLeft[m.kid] >= start[r])
             /\ pem = m.pem \/ Within(pemLeft[m.pem], TTL + 2 * Deadline)
  <2> USE DEF Justified
  <2> DEFINE m == load[waitOn[r]]
  <2>1. Leaves(r) /\ pc[r] = "signing"
    BY <1>1, Outcomes DEF Codes
  <2>2. UNCHANGED <<load, waitOn>>
    BY <2>1 DEF Leaves, Finish
  <2>3. /\ waitOn[r] \in Requests /\ m.kid = kid[r] /\ m.state = "ready" /\ m \in Loads
        /\ m.pem # NoKey
    BY <1>1, <2>1 DEF Flow, Checked, TypeOK
  <2>4. KidSince(kid[r], start[r])
    BY <1>1, <2>1 DEF Configured, Named
  <2>5. PemSince(m.pem, m.expiresAt - TTL - Deadline)
    BY <1>1, <2>3 DEF Configured, Origin
  <2>6. clock <= start[r] + Deadline /\ start[r] < m.expiresAt
    BY <1>1, <2>1 DEF Timely, Running
  <2>7. clock \in Nat /\ start[r] \in Nat /\ m.expiresAt \in Nat /\ pemLeft[m.pem] \in Nat
    BY <1>1, <2>3 DEF TypeOK, Loads
  <2>8. pem = m.pem \/ Within(pemLeft[m.pem], TTL + 2 * Deadline)
    <3> HIDE DEF m
    <3> QED
      BY <2>5, <2>6, <2>7, Units DEF PemSince, Within
  <2> QED
    BY <2>2, <2>3, <2>4, <2>8 DEF KidSince
<1>2. ASSUME Justified, [Next]_vars, NEW r \in Requests,
             outcome[r] = "none", outcome'[r] = "published", NEW k \in Kids,
             load'[waitOn'[r]].jwks[k] # NoKey
      PROVE  LET x == load'[waitOn'[r]].jwks[k] IN
             jwks[k] = x \/ Within(jwksLeft[k][x], TTL + Deadline)
  <2>1. PICK o \in Requests : o = waitOn'[r] /\ load'[o].state = "ready"
                              /\ clock < load'[o].expiresAt /\ UNCHANGED <<clock, bindings>>
    BY <1>2, PublishedMaterial
  <2> DEFINE x == load'[o].jwks[k]
             t == load'[o].expiresAt - TTL - Deadline
  <2>2. TypeOK' /\ Configured'
    BY <1>2, TypeStep, ConfiguredStep DEF Justified
  <2>3. SetSince(load[o].jwks, Origin(o))' /\ Origin(o)' = t
    BY <2>1, <2>2 DEF Configured, Origin
  <2>4. jwks[k] = x \/ (jwksLeft[k][x] # 0 /\ jwksLeft[k][x] >= t)
    BY <1>2, <2>1, <2>3 DEF SetSince, bindings
  <2>5. load'[o] \in Loads /\ jwksLeft \in [Kids -> [Keys -> Nat]] /\ clock \in Nat
    BY <2>1, <2>2 DEF TypeOK, bindings
  <2>6. load'[o].expiresAt \in Nat /\ jwksLeft[k][x] \in Nat
    BY <1>2, <2>1, <2>5 DEF Loads, KeySets
  <2>7. t \in Int /\ clock < t + TTL + Deadline
    BY <2>1, <2>5, <2>6, Units
  <2> HIDE DEF x, t
  <2>8. jwks[k] = x \/ Within(jwksLeft[k][x], TTL + Deadline)
    BY <2>4, <2>5, <2>6, <2>7, Units DEF Within
  <2> QED
    BY <2>1, <2>8 DEF x
<1>3. Justified /\ [Next]_vars => [RetireStep]_vars
  BY <1>1, <1>2 DEF RetireStep
<1>4. Retires <=> [][RetireStep]_vars
  BY DEF Retires, RetireStep
<1> QED
  BY <1>3, <1>4, AlwaysJustified, PTL DEF Spec
=============================================================================
