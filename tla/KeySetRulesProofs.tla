-------------------------- MODULE KeySetRulesProofs --------------------------
(***************************************************************************)
(* Proofs about KeySetRules, for any kids and documents of any length up to*)
(* any bound.                                                              *)
(***************************************************************************)
EXTENDS KeySetRules, TLAPS

\* What the members looked at so far have come to.
Read ==
  /\ \A i \in 1 .. index : doc[i].object /\ ~doc[i].private
  /\ \A k \in Kids : k \in seen <=> \E i \in 1 .. index : IsVerificationJwk(doc[i]) /\ doc[i].kid = k
  /\ \A i, j \in 1 .. index :
       IsVerificationJwk(doc[i]) /\ IsVerificationJwk(doc[j]) /\ doc[i].kid = doc[j].kid => i = j
Kept ==
  /\ \A i \in 1 .. index : IsVerificationJwk(doc[i]) => \E u \in 1 .. Len(usable) : usable[u] = doc[i]
  /\ \A u \in 1 .. Len(usable) : usable[u].kid \in seen
  /\ \A u, v \in 1 .. Len(usable) : usable[u].kid = usable[v].kid => u = v
  /\ seen = {} <=> Len(usable) = 0
  /\ (\A i \in 1 .. index : IsVerificationJwk(doc[i])) =>
       Len(usable) = index /\ \A i \in 1 .. index : usable[i] = doc[i]
Offends ==
  \/ \E i \in DOMAIN doc : ~doc[i].object \/ doc[i].private
  \/ \E i, j \in Positions : i # j /\ doc[i].kid = doc[j].kid
  \/ Positions = {}
Judged ==
  /\ verdict = "trusted" => index = Len(doc) /\ Len(usable) # 0
  /\ verdict = "distrusted" => Offends
Walked == TypeOK /\ Read /\ Kept /\ Judged

LEMMA MemberTypes ==
  ASSUME NEW m \in Keys
  PROVE  IsVerificationJwk(m) => m.kid \in Kids
BY DEF Keys, Members, Scalar, IsVerificationJwk

LEMMA InitWalked == Init => Walked
<1> SUFFICES ASSUME Init PROVE Walked
  OBVIOUS
<1>1. doc \in Seq(Keys)
  <2>1. PICK n \in 0 .. MaxKeys : doc \in [1 .. n -> Keys]
    BY DEF Init
  <2>2. n \in Nat
    BY DocumentAssumption
  <2> QED
    BY <2>1, <2>2
<1>2. Len(doc) \in Nat /\ Len(usable) = 0 /\ usable \in Seq(Keys)
  BY <1>1 DEF Init
<1> QED
  BY <1>1, <1>2 DEF Init, Walked, TypeOK, Read, Kept, Judged

LEMMA WalkedStep == Walked /\ [Next]_vars => Walked'
<1> SUFFICES ASSUME Walked, [Next]_vars PROVE Walked'
  OBVIOUS
<1>1. /\ doc \in Seq(Keys) /\ usable \in Seq(Keys) /\ Len(doc) \in Nat /\ Len(usable) \in Nat
      /\ index \in 0 .. Len(doc) /\ DOMAIN doc = 1 .. Len(doc)
      /\ \A i \in 1 .. Len(doc) : doc[i] \in Keys
  BY DEF Walked, TypeOK
<1>2. CASE Distrust
  <2>1. index + 1 \in 1 .. Len(doc)
    BY <1>1, <1>2 DEF Distrust, Looking
  <2>2. Offends
    <3>1. CASE ~Here.object \/ Here.private
      BY <1>1, <2>1, <3>1 DEF Offends, Here
    <3>2. CASE IsVerificationJwk(Here) /\ Here.kid \in seen
      <4>1. Here.kid \in Kids
        BY <1>1, <2>1, <3>2, MemberTypes DEF Here
      <4>2. PICK i \in 1 .. index : IsVerificationJwk(doc[i]) /\ doc[i].kid = Here.kid
        BY <3>2, <4>1 DEF Walked, Read
      <4>3. i \in Positions /\ index + 1 \in Positions /\ i # index + 1
        BY <1>1, <2>1, <3>2, <4>2 DEF Positions, Here
      <4> QED
        BY <4>2, <4>3 DEF Offends, Here
    <3> QED
      BY <1>2, <3>1, <3>2 DEF Distrust
  <2> QED
    BY <1>2, <2>2 DEF Distrust, Walked, TypeOK, Read, Kept, Judged, Offends, Positions
<1>3. CASE Drop
  <2>1. /\ index' = index + 1 /\ index + 1 \in 1 .. Len(doc) /\ UNCHANGED <<doc, usable, seen, verdict>>
        /\ doc[index + 1].object /\ ~doc[index + 1].private /\ ~IsVerificationJwk(doc[index + 1])
        /\ verdict = "open"
    BY <1>1, <1>3 DEF Drop, Looking, Here
  <2>2. TypeOK' /\ Judged'
    BY <1>1, <2>1 DEF Walked, TypeOK, Judged
  <2>3. Read'
    BY <1>1, <2>1 DEF Walked, Read
  <2>4. Kept'
    BY <1>1, <2>1 DEF Walked, Kept
  <2> QED
    BY <2>2, <2>3, <2>4 DEF Walked
<1>4. CASE Keep
  <2> DEFINE here == doc[index + 1]
  <2>1. /\ index' = index + 1 /\ index + 1 \in 1 .. Len(doc) /\ UNCHANGED <<doc, verdict>>
        /\ here.object /\ ~here.private /\ IsVerificationJwk(here) /\ here.kid \notin seen
        /\ usable' = Append(usable, here) /\ seen' = seen \cup {here.kid} /\ verdict = "open"
    BY <1>1, <1>4 DEF Keep, Looking, Here
  <2>2. here \in Keys /\ here.kid \in Kids
    BY <1>1, <2>1, MemberTypes
  <2>3. /\ usable' \in Seq(Keys) /\ Len(usable') = Len(usable) + 1
        /\ usable'[Len(usable) + 1] = here
        /\ \A u \in 1 .. Len(usable) : usable'[u] = usable[u]
    BY <1>1, <2>1, <2>2
  <2>4. TypeOK' /\ Judged'
    BY <1>1, <2>1, <2>2, <2>3 DEF Walked, TypeOK, Judged
  <2>5. \A i \in 1 .. index : IsVerificationJwk(doc[i]) => doc[i].kid # here.kid
    BY <1>1, <2>1, <2>2 DEF Walked, Read
  <2>6. Read'
    BY <1>1, <2>1, <2>2, <2>5 DEF Walked, Read
  <2>7. Kept'
    <3>1. \A i \in 1 .. index' : IsVerificationJwk(doc[i]) =>
            \E u \in 1 .. Len(usable') : usable'[u] = doc[i]
      <4> SUFFICES ASSUME NEW i \in 1 .. index + 1, IsVerificationJwk(doc[i])
                   PROVE  \E u \in 1 .. Len(usable) + 1 : usable'[u] = doc[i]
        BY <2>1, <2>3
      <4>1. CASE i = index + 1
        BY <1>1, <2>3, <4>1
      <4>2. CASE i \in 1 .. index
        <5>1. PICK u \in 1 .. Len(usable) : usable[u] = doc[i]
          BY <4>2 DEF Walked, Kept
        <5> QED
          BY <1>1, <2>3, <5>1
      <4> QED
        BY <1>1, <4>1, <4>2
    <3>2. \A u \in 1 .. Len(usable') : usable'[u].kid \in seen'
      <4> SUFFICES ASSUME NEW u \in 1 .. Len(usable) + 1
                   PROVE  usable'[u].kid \in seen'
        BY <2>3
      <4>1. CASE u = Len(usable) + 1
        BY <2>1, <2>3, <4>1
      <4>2. CASE u \in 1 .. Len(usable)
        BY <2>1, <2>3, <4>2 DEF Walked, Kept
      <4> QED
        BY <1>1, <4>1, <4>2
    <3>3. \A u, v \in 1 .. Len(usable') : usable'[u].kid = usable'[v].kid => u = v
      <4>1. \A u \in 1 .. Len(usable) : usable'[u].kid # here.kid
        BY <2>1, <2>3 DEF Walked, Kept
      <4>2. \A u, v \in 1 .. Len(usable) : usable'[u].kid = usable'[v].kid => u = v
        BY <2>3 DEF Walked, Kept
      <4>3. \A u \in 1 .. Len(usable') : u \in 1 .. Len(usable) \/ u = Len(usable) + 1
        BY <1>1, <2>3
      <4> QED
        BY <2>3, <4>1, <4>2, <4>3
    <3>4. seen' = {} <=> Len(usable') = 0
      BY <1>1, <2>1, <2>3
    <3>5. (\A i \in 1 .. index' : IsVerificationJwk(doc[i])) =>
            Len(usable') = index' /\ \A i \in 1 .. index' : usable'[i] = doc[i]
      <4> SUFFICES ASSUME \A i \in 1 .. index + 1 : IsVerificationJwk(doc[i])
                   PROVE  /\ Len(usable') = index + 1
                          /\ \A i \in 1 .. index + 1 : usable'[i] = doc[i]
        BY <2>1
      <4>1. \A i \in 1 .. index : i \in 1 .. index + 1
        BY <1>1
      <4>2. Len(usable) = index /\ \A i \in 1 .. index : usable[i] = doc[i]
        BY <4>1 DEF Walked, Kept
      <4>3. \A i \in 1 .. index + 1 : i \in 1 .. index \/ i = index + 1
        BY <1>1
      <4> QED
        BY <2>3, <4>2, <4>3
    <3> QED
      BY <2>1, <3>1, <3>2, <3>3, <3>4, <3>5 DEF Kept, IsVerificationJwk
  <2> QED
    BY <2>4, <2>6, <2>7 DEF Walked
<1>5. CASE Conclude
  <2>1. UNCHANGED <<doc, index, usable, seen>> /\ index = Len(doc)
        /\ verdict' = IF usable # <<>> THEN "trusted" ELSE "distrusted"
    BY <1>5 DEF Conclude
  <2>2. Len(usable) = 0 => Positions = {}
    <3> SUFFICES ASSUME Len(usable) = 0, NEW i \in Positions PROVE FALSE
      OBVIOUS
    <3>1. i \in 1 .. index /\ IsVerificationJwk(doc[i])
      BY <1>1, <2>1 DEF Positions
    <3> QED
      BY <3>1 DEF Walked, Kept
  <2>3. Len(usable) = 0 <=> usable = <<>>
    BY <1>1
  <2> QED
    BY <2>1, <2>2, <2>3 DEF Walked, TypeOK, Read, Kept, Judged, Offends, Positions
<1>6. CASE UNCHANGED vars
  BY <1>6 DEF vars, Walked, TypeOK, Read, Kept, Judged, Offends, Positions
<1> QED
  BY <1>2, <1>3, <1>4, <1>5, <1>6 DEF Next

LEMMA AlwaysWalked == Spec => []Walked
BY InitWalked, WalkedStep, PTL DEF Spec

\* Every state is well typed.
THEOREM TypeCorrect == Spec => []TypeOK
<1>1. Walked => TypeOK
  BY DEF Walked
<1> QED
  BY <1>1, AlwaysWalked, PTL

LEMMA VerdictOfWalk == Walked => VerdictIgnoresOrder
<1> SUFFICES ASSUME Walked PROVE VerdictIgnoresOrder
  OBVIOUS
<1>1. /\ doc \in Seq(Keys) /\ Len(doc) \in Nat /\ DOMAIN doc = 1 .. Len(doc)
      /\ \A i \in 1 .. Len(doc) : doc[i] \in Keys
      /\ verdict \in {"open", "trusted", "distrusted"}
  BY DEF Walked, TypeOK
<1>2. CASE verdict = "trusted"
  <2>1. index = Len(doc) /\ Len(usable) # 0
    BY <1>2 DEF Walked, Judged
  <2>2. PICK k \in seen : k \in Kids
    BY <2>1 DEF Walked, Kept, TypeOK
  <2>3. PICK i \in 1 .. Len(doc) : IsVerificationJwk(doc[i])
    BY <2>1, <2>2 DEF Walked, Read
  <2> QED
    BY <1>1, <1>2, <2>1, <2>3 DEF Walked, Read, VerdictIgnoresOrder, Positions
<1>3. CASE verdict = "distrusted"
  BY <1>3 DEF Walked, Judged, Offends, VerdictIgnoresOrder, Positions
<1> QED
  BY <1>1, <1>2, <1>3 DEF VerdictIgnoresOrder

\* Whatever the length and the order of a document, the walk that stops at the
\* first offence decides as the whole set would (parseJwks).
THEOREM VerdictAlwaysIgnoresOrder == Spec => []VerdictIgnoresOrder
BY VerdictOfWalk, AlwaysWalked, PTL

\* Every kid of a trusted set resolves to one key, and no usable key was lost
\* (parseJwks, the find of getKey).
THEOREM KidsAlwaysResolve == Spec => []KidsResolve
<1>1. Walked => KidsResolve
  <2> SUFFICES ASSUME Walked, verdict = "trusted" PROVE KidsResolve
    BY DEF KidsResolve
  <2>1. index = Len(doc) /\ DOMAIN doc = 1 .. Len(doc) /\ DOMAIN usable = 1 .. Len(usable)
    BY DEF Walked, Judged, TypeOK
  <2> QED
    BY <2>1 DEF Walked, Kept, KidsResolve, Positions
<1> QED
  BY <1>1, AlwaysWalked, PTL

\* What validateJumpJwks lets Jump publish, parseJwks keeps to the last key.
THEOREM PublishedAlwaysReadable == Spec => []PublishedIsReadable
<1>1. Walked => PublishedIsReadable
  <2> SUFFICES ASSUME Walked, verdict # "open", JumpAccepts(doc)
               PROVE  verdict = "trusted" /\ usable = doc
    BY DEF PublishedIsReadable
  <2>1. /\ doc \in Seq(Keys) /\ usable \in Seq(Keys) /\ Len(doc) \in Nat /\ Len(usable) \in Nat
        /\ DOMAIN doc = 1 .. Len(doc) /\ index \in 0 .. Len(doc)
    BY DEF Walked, TypeOK
  <2>2. Len(doc) # 0
    BY <2>1 DEF JumpAccepts
  <2>3. \A i \in 1 .. Len(doc) : doc[i].object /\ ~doc[i].private /\ IsVerificationJwk(doc[i])
    BY <2>1 DEF JumpAccepts, ValidPublicJwk, IsVerificationJwk
  <2>4. Positions # {}
    BY <2>1, <2>2, <2>3 DEF Positions
  <2>5. verdict = "trusted"
    BY <2>1, <2>3, <2>4, VerdictOfWalk DEF VerdictIgnoresOrder, JumpAccepts, Positions
  <2>6. index = Len(doc)
    BY <2>5 DEF Walked, Judged
  <2>7. Len(usable) = Len(doc) /\ \A i \in 1 .. Len(doc) : usable[i] = doc[i]
    BY <2>3, <2>6 DEF Walked, Kept
  <2> QED
    BY <2>1, <2>5, <2>7
<1> QED
  BY <1>1, AlwaysWalked, PTL
=============================================================================
