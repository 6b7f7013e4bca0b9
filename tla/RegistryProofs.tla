---------------------------- MODULE RegistryProofs ----------------------------
(***************************************************************************)
(* Proofs about Registry, for any ids, origins, top level domains and      *)
(* tables of any length up to any bound.                                   *)
(***************************************************************************)
EXTENDS Registry, FiniteSetTheorems, TLAPS

\* The first n rows of a node table are the nodes, one to one.
NodesIn(table, n, os) ==
  /\ os \in [DOMAIN os -> Origins]
  /\ DOMAIN os = {table[i][1] : i \in 1 .. n}
  /\ Image(os) = {table[i][2] : i \in 1 .. n}
  /\ \A i \in 1 .. n : os[table[i][1]] = table[i][2]
  /\ \A x, y \in DOMAIN os : os[x] = os[y] => x = y
  /\ IsFiniteSet(Image(os)) /\ Cardinality(Image(os)) = n

\* The first n rows of an edge table are what is allowed, and stay within a
\* top level domain.
EdgesIn(table, n, os, al) ==
  /\ al \in [Image(os) -> SUBSET Image(os)]
  /\ \A i \in 1 .. n : Tld[table[i][1]] = Tld[table[i][2]]
  /\ \A s, d \in DOMAIN os :
       os[d] \in al[os[s]] <=> \E i \in 1 .. n : table[i] = <<s, d>>

AllNodes == NodesIn(nodeTable, Len(nodeTable), origins)
Assembled ==
  /\ TypeOK
  /\ phase = "nodes" =>
       row \in 0 .. Len(nodeTable) /\ NodesIn(nodeTable, row, origins) /\ allowed = <<>>
  /\ phase \in {"edges", "built", "serving"} =>
       AllNodes /\ EdgesIn(edgeTable, row, origins, allowed)
  /\ phase = "edges" => row \in 0 .. Len(edgeTable)
  /\ phase \in {"built", "serving"} => row = Len(edgeTable)
  /\ phase # "serving" => user = Nowhere

LEMMA Rows ==
  ASSUME NEW S, NEW max \in Nat, NEW t \in Tables(S, max)
  PROVE  t \in Seq(S)
<1>1. PICK n \in 0 .. max : t \in [1 .. n -> S]
  BY DEF Tables
<1>2. n \in Nat
  OBVIOUS
<1> QED
  BY <1>1, <1>2

LEMMA InitAssembled == Init => Assembled
<1> SUFFICES ASSUME Init PROVE Assembled
  OBVIOUS
<1>1. nodeTable \in Seq(Ids \X Origins) /\ edgeTable \in Seq(Ids \X Ids)
  BY Rows, RegistryAssumption DEF Init
<1>2. Len(nodeTable) \in Nat /\ Len(edgeTable) \in Nat
  BY <1>1
<1>3. DOMAIN origins = {} /\ Image(origins) = {} /\ DOMAIN allowed = {} /\ Image(allowed) = {}
  BY DEF Init, Image
<1>4. TypeOK
  BY <1>1, <1>2, <1>3 DEF Init, TypeOK
<1>5. NodesIn(nodeTable, 0, origins)
  <2>1. origins \in [{} -> Origins]
    BY DEF Init
  <2> QED
    BY <1>3, <2>1, FS_EmptySet DEF NodesIn
<1> QED
  BY <1>2, <1>4, <1>5 DEF Init, Assembled

-----------------------------------------------------------------------------
(* One row of the node table.                                              *)

LEMMA ReadNodeKeeps == Assembled /\ ReadNode => Assembled'
<1> SUFFICES ASSUME Assembled, ReadNode PROVE Assembled'
  OBVIOUS
<1> DEFINE id == nodeTable[row + 1][1]
           origin == nodeTable[row + 1][2]
<1>1. /\ nodeTable \in Seq(Ids \X Origins) /\ Len(nodeTable) \in Nat /\ Len(edgeTable) \in Nat
      /\ row \in 0 .. Len(nodeTable) /\ row < Len(nodeTable) /\ NodesIn(nodeTable, row, origins) /\ phase = "nodes"
      /\ allowed = <<>> /\ user = Nowhere
  BY DEF Assembled, TypeOK, ReadNode
<1>2. nodeTable[row + 1] \in Ids \X Origins
  BY <1>1
<1>3. id \in Ids /\ origin \in Origins
  BY <1>2
<1>4. CASE phase' = "failed"
  BY <1>1, <1>4 DEF Assembled, TypeOK, ReadNode, tables
<1>5. CASE phase' # "failed"
  <2>1. /\ id \notin DOMAIN origins /\ origin \notin Image(origins)
        /\ origins' = [x \in DOMAIN origins \cup {id} |-> IF x = id THEN origin ELSE origins[x]]
        /\ row' = row + 1 /\ phase' = "nodes" /\ UNCHANGED <<tables, allowed, user>>
    BY <1>1, <1>5 DEF ReadNode, NodeAccepted
  <2>2. row + 1 \in 1 .. Len(nodeTable) /\ \A i \in 1 .. row + 1 : i \in 1 .. row \/ i = row + 1
    BY <1>1
  <2> HIDE DEF id, origin
  <2>3. DOMAIN origins' = DOMAIN origins \cup {id} /\ Image(origins') = Image(origins) \cup {origin}
    BY <2>1 DEF Image
  <2>4. origins' \in [DOMAIN origins' -> Origins]
    BY <1>1, <1>3, <2>1 DEF NodesIn
  <2>5. DOMAIN origins' = {nodeTable[i][1] : i \in 1 .. row + 1}
    BY <1>1, <2>2, <2>3 DEF NodesIn, id
  <2>6. Image(origins') = {nodeTable[i][2] : i \in 1 .. row + 1}
    BY <1>1, <2>2, <2>3 DEF NodesIn, origin
  <2>7. \A i \in 1 .. row + 1 : origins'[nodeTable[i][1]] = nodeTable[i][2]
    <3>1. \A i \in 1 .. row : nodeTable[i][1] \in DOMAIN origins
      BY <1>1 DEF NodesIn
    <3>2. origins'[id] = origin /\ \A x \in DOMAIN origins : origins'[x] = origins[x]
      BY <2>1
    <3> QED
      BY <1>1, <2>2, <3>1, <3>2 DEF NodesIn, id, origin
  <2>8. \A x, y \in DOMAIN origins' : origins'[x] = origins'[y] => x = y
    <3>1. \A x \in DOMAIN origins : origins[x] # origin
      BY <2>1 DEF Image
    <3> QED
      BY <1>1, <2>1, <2>3, <3>1 DEF NodesIn
  <2>9. IsFiniteSet(Image(origins')) /\ Cardinality(Image(origins')) = row + 1
    <3>1. IsFiniteSet(Image(origins)) /\ Cardinality(Image(origins)) = row
      BY <1>1 DEF NodesIn
    <3>2. /\ IsFiniteSet(Image(origins) \cup {origin})
          /\ Cardinality(Image(origins) \cup {origin}) = row + 1
      BY <2>1, <3>1, FS_AddElement
    <3> QED
      BY <2>3, <3>2
  <2>10. NodesIn(nodeTable, row + 1, origins')
    BY <2>1, <2>4, <2>5, <2>6, <2>7, <2>8, <2>9 DEF NodesIn
  <2>11. TypeOK'
    <3>1. DOMAIN origins' \subseteq Ids /\ Image(origins') \subseteq Origins
      BY <1>3, <2>3 DEF Assembled, TypeOK
    <3>2. row' \in 0 .. Len(nodeTable) + Len(edgeTable)
      BY <1>1, <2>1, <2>2
    <3> QED
      BY <1>1, <2>1, <3>1, <3>2 DEF Assembled, TypeOK, tables
  <2> QED
    BY <1>1, <2>1, <2>2, <2>10, <2>11 DEF Assembled, tables
<1> QED
  BY <1>4, <1>5

LEMMA NodesReadKeeps == Assembled /\ NodesRead => Assembled'
<1> SUFFICES ASSUME Assembled, NodesRead PROVE Assembled'
  OBVIOUS
<1>1. /\ phase = "nodes" /\ row = Len(nodeTable) /\ phase' = "edges" /\ row' = 0
      /\ allowed' = [o \in Image(origins) |-> {}]
      /\ UNCHANGED <<nodeTable, edgeTable, origins, user>>
      /\ Len(nodeTable) \in Nat /\ Len(edgeTable) \in Nat /\ AllNodes /\ user = Nowhere
  BY DEF Assembled, AllNodes, TypeOK, NodesRead, tables
<1>2. AllNodes'
  BY <1>1 DEF AllNodes
<1>3. EdgesIn(edgeTable, 0, origins, allowed')
  <2>1. \A s \in DOMAIN origins : origins[s] \in Image(origins)
    BY DEF Image
  <2> QED
    BY <1>1, <2>1 DEF EdgesIn, Image
<1>4. TypeOK'
  BY <1>1 DEF Assembled, TypeOK
<1> QED
  BY <1>1, <1>2, <1>3, <1>4 DEF Assembled

-----------------------------------------------------------------------------
(* One row of the edge table.                                              *)

LEMMA ReadEdgeKeeps == Assembled /\ ReadEdge => Assembled'
<1> SUFFICES ASSUME Assembled, ReadEdge PROVE Assembled'
  OBVIOUS
<1> DEFINE src == edgeTable[row + 1][1]
           dst == edgeTable[row + 1][2]
<1>1. /\ edgeTable \in Seq(Ids \X Ids) /\ Len(nodeTable) \in Nat /\ Len(edgeTable) \in Nat
      /\ row \in 0 .. Len(edgeTable) /\ row < Len(edgeTable) /\ phase = "edges"
      /\ AllNodes /\ EdgesIn(edgeTable, row, origins, allowed) /\ user = Nowhere
      /\ UNCHANGED <<nodeTable, edgeTable, origins, user>>
  BY DEF Assembled, TypeOK, ReadEdge, tables
<1>2. edgeTable[row + 1] = <<src, dst>>
  BY <1>1
<1>3. AllNodes'
  BY <1>1 DEF AllNodes
<1>4. CASE phase' = "failed"
  BY <1>1, <1>4 DEF Assembled, TypeOK, ReadEdge, tables
<1>5. CASE phase' # "failed"
  <2>1. /\ src \in DOMAIN origins /\ dst \in DOMAIN origins /\ Tld[src] = Tld[dst]
        /\ allowed' = [allowed EXCEPT ![origins[src]] = @ \cup {origins[dst]}]
        /\ row' = row + 1 /\ phase' = "edges"
    BY <1>1, <1>5 DEF ReadEdge, EdgeAccepted
  <2> HIDE DEF src, dst
  <2>2. row + 1 \in 1 .. Len(edgeTable) /\ \A i \in 1 .. row + 1 : i \in 1 .. row \/ i = row + 1
    BY <1>1
  <2>3. \A s \in DOMAIN origins : origins[s] \in Image(origins)
    BY DEF Image
  <2>4. /\ allowed' \in [Image(origins) -> SUBSET Image(origins)]
        /\ allowed'[origins[src]] = allowed[origins[src]] \cup {origins[dst]}
        /\ \A o \in Image(origins) : o # origins[src] => allowed'[o] = allowed[o]
    BY <1>1, <2>1, <2>3 DEF EdgesIn
  <2>5. \A i \in 1 .. row + 1 : Tld[edgeTable[i][1]] = Tld[edgeTable[i][2]]
    BY <1>1, <1>2, <2>1, <2>2 DEF EdgesIn, src, dst
  <2>6. ASSUME NEW s \in DOMAIN origins, NEW d \in DOMAIN origins
        PROVE  origins[d] \in allowed'[origins[s]] <=>
                 \E i \in 1 .. row + 1 : edgeTable[i] = <<s, d>>
    <3>1. origins[d] \in allowed[origins[s]] <=> \E i \in 1 .. row : edgeTable[i] = <<s, d>>
      BY <1>1 DEF EdgesIn
    <3>2. (\E i \in 1 .. row + 1 : edgeTable[i] = <<s, d>>) <=>
            (\E i \in 1 .. row : edgeTable[i] = <<s, d>>) \/ <<src, dst>> = <<s, d>>
      <4>1. row + 1 \in 1 .. row + 1 /\ \A i \in 1 .. row : i \in 1 .. row + 1
        BY <1>1
      <4> QED
        BY <1>2, <2>2, <4>1
    <3>3. /\ origins[s] = origins[src] => s = src
          /\ origins[d] = origins[dst] => d = dst
      BY <1>1, <2>1 DEF AllNodes, NodesIn
    <3>4. CASE s = src
      BY <2>4, <3>1, <3>2, <3>3, <3>4
    <3>5. CASE s # src
      BY <2>3, <2>4, <3>1, <3>2, <3>3, <3>5
    <3> QED
      BY <3>4, <3>5
  <2>7. EdgesIn(edgeTable, row + 1, origins, allowed')
    BY <1>1, <2>1, <2>4, <2>5, <2>6 DEF EdgesIn
  <2>8. TypeOK'
    <3>1. Image(origins) \subseteq Origins
      BY DEF Assembled, TypeOK
    <3> QED
      BY <1>1, <2>1, <2>2, <2>4, <3>1 DEF Assembled, TypeOK
  <2> QED
    BY <1>1, <1>3, <2>1, <2>2, <2>7, <2>8 DEF Assembled
<1> QED
  BY <1>4, <1>5

LEMMA StepKeeps == Assembled /\ [Next]_vars => Assembled'
<1> SUFFICES ASSUME Assembled, [Next]_vars PROVE Assembled'
  OBVIOUS
<1>9. ASSUME UNCHANGED <<nodeTable, edgeTable, origins, allowed, row>>,
             phase' \in {"nodes", "edges", "built", "serving", "failed"},
             user' \in Origins \cup {Nowhere}
      PROVE  TypeOK'
  BY <1>9 DEF Assembled, TypeOK, Image
<1> USE DEF tables
<1>1. CASE ReadNode
  BY <1>1, ReadNodeKeeps
<1>2. CASE NodesRead
  BY <1>2, NodesReadKeeps
<1>3. CASE ReadEdge
  BY <1>3, ReadEdgeKeeps
<1>4. CASE EdgesRead
  BY <1>9, <1>4 DEF EdgesRead, Assembled, AllNodes, TypeOK
<1>5. CASE Serve
  BY <1>9, <1>5 DEF Serve, Assembled, AllNodes, TypeOK
<1>6. ASSUME NEW o \in Origins, Open(o) PROVE Assembled'
  BY <1>9, <1>6 DEF Open, Assembled, AllNodes, TypeOK
<1>7. ASSUME NEW o \in Origins, Jump(o) PROVE Assembled'
  BY <1>9, <1>7 DEF Jump, Assembled, AllNodes, TypeOK
<1>8. CASE UNCHANGED vars
  BY <1>9, <1>8 DEF vars, Assembled, AllNodes, TypeOK
<1> QED
  BY <1>1, <1>2, <1>3, <1>4, <1>5, <1>6, <1>7, <1>8 DEF Next

LEMMA AlwaysAssembled == Spec => []Assembled
BY InitAssembled, StepKeeps, PTL DEF Spec

\* Every state is well typed.
THEOREM TypeCorrect == Spec => []TypeOK
<1>1. Assembled => TypeOK
  BY DEF Assembled
<1> QED
  BY <1>1, AlwaysAssembled, PTL

\* For tables of any length: a registry that is served holds every row of both,
\* one origin per id and one id per origin (buildRegistry).
THEOREM NothingIsLost == Spec => []NothingLost
<1>1. Assembled => NothingLost
  <2> SUFFICES ASSUME Assembled, phase = "serving" PROVE NothingLost
    BY DEF NothingLost
  <2>1. /\ DOMAIN nodeTable = 1 .. Len(nodeTable) /\ DOMAIN edgeTable = 1 .. Len(edgeTable)
        /\ AllNodes /\ EdgesIn(edgeTable, Len(edgeTable), origins, allowed)
    BY DEF Assembled, TypeOK
  <2>2. DOMAIN allowed = Image(origins)
    BY <2>1 DEF EdgesIn
  <2>3. \A s, d \in DOMAIN origins :
          origins[d] \in allowed[origins[s]] <=> <<s, d>> \in Image(edgeTable)
    BY <2>1 DEF EdgesIn, Image
  <2> QED
    BY <2>1, <2>2, <2>3 DEF AllNodes, NodesIn, NothingLost
<1> QED
  BY <1>1, AlwaysAssembled, PTL

\* No sequence of jumps, over any registry, leads out of a top level domain or
\* to the service, and each of them is a row of the table (assertDestinationPolicy).
THEOREM WalksAlwaysStayInside == Spec => WalksStayInside
<1>1. ASSUME Assembled, [Next]_vars, user # Nowhere, user' # user
      PROVE  /\ TldsOf(user) = TldsOf(user') /\ Cardinality(TldsOf(user')) = 1
             /\ user' # Service
             /\ \E i \in DOMAIN edgeTable :
                  origins[edgeTable[i][1]] = user /\ origins[edgeTable[i][2]] = user'
  <2>1. PICK target \in Origins : Jump(target)
    BY <1>1 DEF Next, vars, tables, ReadNode, NodesRead, ReadEdge, EdgesRead, Serve, Open, Assembled
  <2>2. /\ phase = "serving" /\ user' = target /\ origins' = origins /\ target # Service
        /\ user \in DOMAIN allowed /\ target \in allowed[user]
    BY <2>1 DEF Jump, JumpAllowed
  <2>3. /\ DOMAIN edgeTable = 1 .. Len(edgeTable)
        /\ AllNodes /\ EdgesIn(edgeTable, Len(edgeTable), origins, allowed)
    BY <1>1, <2>2 DEF Assembled, TypeOK
  <2>4. PICK s \in DOMAIN origins : origins[s] = user
    BY <2>2, <2>3 DEF EdgesIn, Image
  <2>5. PICK d \in DOMAIN origins : origins[d] = target
    BY <2>2, <2>3 DEF EdgesIn, Image
  <2>6. PICK i \in DOMAIN edgeTable : edgeTable[i] = <<s, d>>
    BY <2>2, <2>3, <2>4, <2>5 DEF EdgesIn
  <2>7. Tld[s] = Tld[d]
    BY <2>3, <2>6 DEF EdgesIn
  <2>8. TldsOf(user) = {Tld[s]} /\ TldsOf(user') = {Tld[d]}
    <3>1. \A n \in DOMAIN origins : origins[n] = user <=> n = s
      BY <2>3, <2>4 DEF AllNodes, NodesIn
    <3>2. \A n \in DOMAIN origins : origins[n] = user' <=> n = d
      BY <2>2, <2>3, <2>5 DEF AllNodes, NodesIn
    <3> QED
      BY <3>1, <3>2 DEF TldsOf
  <2> QED
    BY <2>2, <2>4, <2>5, <2>6, <2>7, <2>8, FS_Singleton
<1>2. Assembled /\ [Next]_vars =>
        [user # Nowhere /\ user' # user =>
           /\ TldsOf(user) = TldsOf(user') /\ Cardinality(TldsOf(user')) = 1
           /\ user' # Service
           /\ \E i \in DOMAIN edgeTable :
                origins[edgeTable[i][1]] = user /\ origins[edgeTable[i][2]] = user']_vars
  BY <1>1
<1> QED
  BY <1>2, AlwaysAssembled, PTL DEF Spec, WalksStayInside
===============================================================================
