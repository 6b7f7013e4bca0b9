---------------------------- MODULE KeySetRules ----------------------------
(***************************************************************************)
(* Which key set documents are believed.  parseJwks (core/fetch_jwks.ts)   *)
(* walks an issuer's document key by key, drops the keys it cannot use and *)
(* gives up on the whole set at the first sign that it cannot be trusted;  *)
(* validateJumpJwks (core/jump_jwks.ts) is all or nothing about the set    *)
(* Jump itself publishes, which the receivers read.                        *)
(***************************************************************************)
EXTENDS Integers, Sequences, FiniteSets

CONSTANTS
  Kids,    \* key identifiers of at most 128 characters
  NoKid,   \* kid absent, empty, too long or not a string
  MaxKeys  \* bound: keys in a document

ASSUME DocumentAssumption == NoKid \notin Kids /\ MaxKeys \in Nat

\* What the rules look at in one member of "keys".
Members ==
  [object  : BOOLEAN,                     \* an object (an array is none for Jump)
   kid     : Kids \cup {NoKid},
   es384   : BOOLEAN,   \* kty EC, crv P-384, alg ES384, x and y 64 characters
   use     : {"absent", "sig", "other"},
   ops     : {"absent", "verify", "other"},
   private : BOOLEAN]                     \* some private field is defined
Scalar == [object |-> FALSE, kid |-> NoKid, es384 |-> FALSE,
           use |-> "absent", ops |-> "absent", private |-> FALSE]
Keys == {m \in Members : m.object} \cup {Scalar}

VARIABLES
  doc,     \* the members of the document's "keys"
  index,   \* members parseJwks has looked at
  usable,  \* those it kept
  seen,    \* their kids
  verdict  \* "open", "trusted" or "distrusted"

vars == <<doc, index, usable, seen, verdict>>

-----------------------------------------------------------------------------
(* parseJwks, one member of the document per step.                         *)

\* Mutation of IsVerificationJwk: a key need not have a kid.
IsNamelessJwk(m) ==
  /\ m.es384
  /\ m.use \in {"absent", "sig"}
  /\ m.ops \in {"absent", "verify"}

IsVerificationJwk(m) ==
  /\ m.es384
  /\ m.kid # NoKid
  /\ m.use \in {"absent", "sig"}
  /\ m.ops \in {"absent", "verify"}

Init ==
  /\ \E n \in 0 .. MaxKeys : doc \in [1 .. n -> Keys]
  /\ index = 0 /\ usable = <<>> /\ seen = {} /\ verdict = "open"

Here == doc[index + 1]
Looking == verdict = "open" /\ index < Len(doc)

Distrust ==
  /\ Looking
  /\ \/ ~Here.object \/ Here.private
     \/ IsVerificationJwk(Here) /\ Here.kid \in seen
  /\ verdict' = "distrusted"
  /\ UNCHANGED <<doc, index, usable, seen>>

\* Mutation of Drop: a key that cannot be used is dropped before its private
\* fields are looked at.
DropFirst ==
  /\ Looking /\ Here.object /\ ~IsVerificationJwk(Here)
  /\ index' = index + 1
  /\ UNCHANGED <<doc, usable, seen, verdict>>

Drop ==
  /\ Looking /\ Here.object /\ ~Here.private /\ ~IsVerificationJwk(Here)
  /\ index' = index + 1
  /\ UNCHANGED <<doc, usable, seen, verdict>>

\* Mutation of Keep: the kids seen so far are not consulted.
KeepTwice ==
  /\ Looking /\ Here.object /\ ~Here.private /\ IsVerificationJwk(Here)
  /\ usable' = Append(usable, Here) /\ seen' = seen \cup {Here.kid}
  /\ index' = index + 1
  /\ UNCHANGED <<doc, verdict>>

Keep ==
  /\ Looking /\ Here.object /\ ~Here.private /\ IsVerificationJwk(Here)
  /\ Here.kid \notin seen
  /\ usable' = Append(usable, Here) /\ seen' = seen \cup {Here.kid}
  /\ index' = index + 1
  /\ UNCHANGED <<doc, verdict>>

Conclude ==
  /\ verdict = "open" /\ index = Len(doc)
  /\ verdict' = IF usable # <<>> THEN "trusted" ELSE "distrusted"
  /\ UNCHANGED <<doc, index, usable, seen>>

Next == Distrust \/ Drop \/ Keep \/ Conclude
Spec == Init /\ [][Next]_vars

-----------------------------------------------------------------------------
(* validateJumpJwks.                                                       *)

\* Mutation of ValidPublicJwk: key_ops is not looked at.
ValidAnyOps(m) ==
  /\ m.object /\ ~m.private
  /\ m.es384
  /\ m.kid # NoKid
  /\ m.use = "sig"

ValidPublicJwk(m) ==
  /\ m.object /\ ~m.private
  /\ m.es384
  /\ m.kid # NoKid
  /\ m.use = "sig"
  /\ m.ops \in {"absent", "verify"}

JumpAccepts(d) ==
  /\ d # <<>>
  /\ \A i \in DOMAIN d : ValidPublicJwk(d[i])
  /\ \A i, j \in DOMAIN d : d[i].kid = d[j].kid => i = j

-----------------------------------------------------------------------------
(* Properties.                                                             *)

TypeOK ==
  /\ doc \in Seq(Keys) /\ usable \in Seq(Keys)
  /\ index \in 0 .. Len(doc)
  /\ seen \subseteq Kids
  /\ verdict \in {"open", "trusted", "distrusted"}

Positions == {i \in DOMAIN doc : IsVerificationJwk(doc[i])}

\* The verdict is that of the set and not of its order: a set is trusted
\* exactly when every member is an object without private fields, its usable
\* keys have different kids and there is one, although the walk stops at the
\* first offence and forgets the members it drops (parseJwks lines 171-188).
VerdictIgnoresOrder ==
  verdict # "open" =>
    (verdict = "trusted" <=>
       /\ \A i \in DOMAIN doc : doc[i].object /\ ~doc[i].private
       /\ \A i, j \in Positions : doc[i].kid = doc[j].kid => i = j
       /\ Positions # {})

\* Every kid of a trusted set resolves to one key, whatever find() meets first,
\* and no usable key was lost on the way (getKey line 62 of jwks_cache.ts).
KidsResolve ==
  verdict = "trusted" =>
    /\ \A i \in Positions : \E u \in DOMAIN usable : usable[u] = doc[i]
    /\ \A u, v \in DOMAIN usable : usable[u].kid = usable[v].kid => u = v

\* What Jump publishes, a reader with Jump's own rules for issuers can use to
\* the last key: validateJumpJwks asks for everything parseJwks looks at.
PublishedIsReadable ==
  verdict # "open" /\ JumpAccepts(doc) => verdict = "trusted" /\ usable = doc
=============================================================================
