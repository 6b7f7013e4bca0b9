------------------------------ MODULE Registry ------------------------------
(***************************************************************************)
(* The issuer registry and the walks it permits: buildRegistry turns the   *)
(* tables of nodes and edges into the registry, row by row                 *)
(* (config/registry.umaxica.ts); dispatch and validateRegistry refuse one  *)
(* that mentions the service itself (cloudflare.ts, index.ts); getIssuer   *)
(* and assertDestinationPolicy decide each internal jump (core/registry.ts,*)
(* core/policy.ts).  A user who follows jump after jump walks the graph.   *)
(***************************************************************************)
EXTENDS Integers, Sequences, FiniteSets

CONSTANTS
  Ids,        \* node ids, the malformed ones included
  Malformed,  \* ids that do not have the form aaaa-bbb-cc
  Tld,        \* id -> its middle part
  Origins,    \* origins in their canonical form
  Unsafe,     \* origins normalizeOrigin refuses
  Service,    \* the origin the service runs at
  Nowhere,    \* not an origin: the user has not started
  MaxNodes, MaxEdges   \* bounds: rows of the tables

ASSUME RegistryAssumption ==
  /\ Malformed \subseteq Ids /\ Unsafe \subseteq Origins
  /\ Service \in Origins /\ Nowhere \notin Origins
  /\ Tld \in [Ids -> {Tld[id] : id \in Ids}]
  /\ {MaxNodes, MaxEdges} \subseteq Nat

VARIABLES
  nodeTable, edgeTable,  \* the two tables
  phase,     \* "nodes", "edges", "built", "serving" or "failed"
  row,       \* rows of the current table that have been read
  origins,   \* id -> its origin, for the nodes read
  allowed,   \* origin of an issuer -> its allowed_dst_internal
  user       \* where the user is

vars == <<nodeTable, edgeTable, phase, row, origins, allowed, user>>
tables == <<nodeTable, edgeTable>>

Tables(rows, max) == UNION {[1 .. n -> rows] : n \in 0 .. max}
Image(f) == {f[x] : x \in DOMAIN f}

TypeOK ==
  /\ nodeTable \in Seq(Ids \X Origins) /\ edgeTable \in Seq(Ids \X Ids)
  /\ phase \in {"nodes", "edges", "built", "serving", "failed"}
  /\ row \in 0 .. Len(nodeTable) + Len(edgeTable)
  /\ DOMAIN origins \subseteq Ids /\ Image(origins) \subseteq Origins
  /\ DOMAIN allowed \subseteq Origins
  /\ \A o \in DOMAIN allowed : allowed[o] \subseteq Origins
  /\ user \in Origins \cup {Nowhere}

Init ==
  /\ nodeTable \in Tables(Ids \X Origins, MaxNodes)
  /\ edgeTable \in Tables(Ids \X Ids, MaxEdges)
  /\ phase = "nodes" /\ row = 0
  /\ origins = <<>> /\ allowed = <<>>
  /\ user = Nowhere

-----------------------------------------------------------------------------
(* buildRegistry.                                                          *)

\* Mutation of NodeAccepted: two ids may share an origin.
NodeAcceptedTwice(id, origin) ==
  id \notin Malformed \cup DOMAIN origins /\ origin \notin Unsafe

NodeAccepted(id, origin) ==
  id \notin Malformed \cup DOMAIN origins /\ origin \notin Image(origins) \cup Unsafe

ReadNode ==
  /\ phase = "nodes" /\ row < Len(nodeTable)
  /\ LET id == nodeTable[row + 1][1]  origin == nodeTable[row + 1][2] IN
       \/ /\ NodeAccepted(id, origin)
          /\ origins' = [x \in DOMAIN origins \cup {id} |->
                           IF x = id THEN origin ELSE origins[x]]
          /\ row' = row + 1 /\ UNCHANGED phase
       \/ /\ ~NodeAccepted(id, origin)
          /\ phase' = "failed" /\ UNCHANGED <<origins, row>>
  /\ UNCHANGED <<tables, allowed, user>>

\* Mutation of NodesRead: the registry is keyed by id.
NodesReadById ==
  /\ phase = "nodes" /\ row = Len(nodeTable)
  /\ phase' = "edges" /\ row' = 0
  /\ allowed' = [id \in DOMAIN origins |-> {}]
  /\ UNCHANGED <<tables, origins, user>>

NodesRead ==
  /\ phase = "nodes" /\ row = Len(nodeTable)
  /\ phase' = "edges" /\ row' = 0
  /\ allowed' = [o \in Image(origins) |-> {}]
  /\ UNCHANGED <<tables, origins, user>>

\* Mutation of EdgeAccepted: edges may cross top level domains.
EdgeAcceptedAcross(src, dst) ==
  /\ {src, dst} \subseteq DOMAIN origins
  /\ src # dst
  /\ <<src, dst>> \notin {edgeTable[i] : i \in 1 .. row}

EdgeAccepted(src, dst) ==
  /\ {src, dst} \subseteq DOMAIN origins
  /\ src # dst
  /\ Tld[src] = Tld[dst]
  /\ <<src, dst>> \notin {edgeTable[i] : i \in 1 .. row}

ReadEdge ==
  /\ phase = "edges" /\ row < Len(edgeTable)
  /\ LET src == edgeTable[row + 1][1]  dst == edgeTable[row + 1][2] IN
       \/ /\ EdgeAccepted(src, dst)
          /\ allowed' = [allowed EXCEPT ![origins[src]] = @ \cup {origins[dst]}]
          /\ row' = row + 1 /\ UNCHANGED phase
       \/ /\ ~EdgeAccepted(src, dst)
          /\ phase' = "failed" /\ UNCHANGED <<allowed, row>>
  /\ UNCHANGED <<tables, origins, user>>

EdgesRead ==
  /\ phase = "edges" /\ row = Len(edgeTable)
  /\ phase' = "built"
  /\ UNCHANGED <<tables, row, origins, allowed, user>>

-----------------------------------------------------------------------------
\* The first request: a registry that names the service is refused.
Mentioned == DOMAIN allowed \cup UNION Image(allowed)

Serve ==
  /\ phase = "built"
  /\ phase' = IF Service \in Mentioned THEN "failed" ELSE "serving"
  /\ UNCHANGED <<tables, row, origins, allowed, user>>

\* The user opens a site.
Open(o) ==
  /\ phase = "serving" /\ user = Nowhere
  /\ user' = o
  /\ UNCHANGED <<tables, phase, row, origins, allowed>>

\* The site the user is at sends him, with a token of its own, to an internal
\* destination.
JumpAllowed(iss, target) ==
  /\ iss \in DOMAIN allowed
  /\ target # Service      \* normalizeUrl: self link
  /\ target # iss
  /\ target \in allowed[iss]

Jump(target) ==
  /\ phase = "serving" /\ user # Nowhere
  /\ JumpAllowed(user, target)
  /\ user' = target
  /\ UNCHANGED <<tables, phase, row, origins, allowed>>

Next ==
  \/ ReadNode \/ NodesRead \/ ReadEdge \/ EdgesRead \/ Serve
  \/ \E o \in Origins : Open(o) \/ Jump(o)

Spec == Init /\ [][Next]_vars

-----------------------------------------------------------------------------
(* Properties.                                                             *)

TldsOf(o) == {Tld[id] : id \in {n \in DOMAIN origins : origins[n] = o}}

\* No sequence of jumps leads from one top level domain to another or back to
\* the service, and every step of it is a row of the edge table (the crossing
\* and self loop checks of buildRegistry lines 68-75, JumpAllowed).
WalksStayInside ==
  [][user # Nowhere /\ user' # user =>
       /\ TldsOf(user) = TldsOf(user') /\ Cardinality(TldsOf(user')) = 1
       /\ user' # Service
       /\ \E i \in DOMAIN edgeTable :
            origins[edgeTable[i][1]] = user /\ origins[edgeTable[i][2]] = user']_vars

\* A served registry is its two tables, whole: every row made it in, one
\* origin per id and one id per origin (buildRegistry lines 50-84).
NothingLost ==
  phase = "serving" =>
    /\ \A i \in DOMAIN nodeTable : origins[nodeTable[i][1]] = nodeTable[i][2]
    /\ DOMAIN allowed = {nodeTable[i][2] : i \in DOMAIN nodeTable}
    /\ Cardinality(DOMAIN allowed) = Len(nodeTable)
    /\ \A s, d \in DOMAIN origins :
         origins[d] \in allowed[origins[s]] <=> <<s, d>> \in Image(edgeTable)
=============================================================================
