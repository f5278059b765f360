-------------------------- MODULE MemoryStoreProofs --------------------------
(***************************************************************************)
(* Proofs about MemoryStore for every set of ids, types, values and edges: *)
(* the adjacency maps stay mirrors of each other, Secrets stay references, *)
(* and the store implements the GraphStore contract.                       *)
(***************************************************************************)
EXTENDS MemoryStore, TLAPS

\* After DeleteResource each map holds exactly the edges not incident on id:
\* what the two-sided cascade of the code amounts to when the maps mirror.
LEMMA DeleteResourceEffect ==
    ASSUME StoreInv, NEW id \in Ids, DeleteResource(id)
    PROVE  /\ outgoing' = [f \in Ids |-> [k \in Keys |->
                              IF f = id \/ k[1] = id THEN NoEdge ELSE outgoing[f][k]]]
           /\ incoming' = [t \in Ids |-> [k \in Keys |->
                              IF t = id \/ k[1] = id THEN NoEdge ELSE incoming[t][k]]]
<1> DEFINE in1  == DropMirrors(id, outgoing[id], incoming)
           out1 == [outgoing EXCEPT ![id] = EmptyPeers]
<1>1. /\ outgoing' = DropMirrors(id, in1[id], out1)
      /\ incoming' = [in1 EXCEPT ![id] = EmptyPeers]
  BY DEF DeleteResource
<1>2. /\ outgoing \in [Ids -> [Keys -> Attrs \cup {NoEdge}]]
      /\ incoming \in [Ids -> [Keys -> Attrs \cup {NoEdge}]]
      /\ \A f, t \in Ids, ty \in Types : outgoing[f][<<t, ty>>] = incoming[t][<<f, ty>>]
  BY DEF StoreInv, TypeOK, AdjacencyMirror
<1>3. in1 = [o \in Ids |-> [k \in Keys |->
               IF k[1] = id /\ outgoing[id][<<o, k[2]>>] # NoEdge THEN NoEdge ELSE incoming[o][k]]]
  BY DEF DropMirrors
<1>4. \A o \in Ids, k \in Keys : in1[o][k] = IF k[1] = id THEN NoEdge ELSE incoming[o][k]
  <2> SUFFICES ASSUME NEW o \in Ids, NEW k \in Keys
               PROVE  in1[o][k] = IF k[1] = id THEN NoEdge ELSE incoming[o][k]
    OBVIOUS
  <2>1. PICK j \in Ids, ty \in Types : k = <<j, ty>>
    BY DEF Keys
  <2>2. in1[o][k] = IF j = id /\ outgoing[id][<<o, ty>>] # NoEdge THEN NoEdge ELSE incoming[o][k]
    BY <1>3, <2>1
  <2>3. CASE j = id
    <3>1. incoming[o][k] = outgoing[id][<<o, ty>>]
      BY <1>2, <2>1, <2>3
    <3> QED BY <3>1, <2>1, <2>2, <2>3
  <2>4. CASE j # id
    BY <2>1, <2>2, <2>4
  <2> QED BY <2>3, <2>4
<1>5. out1 = [f \in Ids |-> IF f = id THEN EmptyPeers ELSE outgoing[f]]
  BY <1>2
<1> HIDE DEF in1, out1
<1>6. outgoing' = [f \in Ids |-> [k \in Keys |->
                      IF k[1] = id /\ in1[id][<<f, k[2]>>] # NoEdge THEN NoEdge ELSE out1[f][k]]]
  BY <1>1 DEF DropMirrors
<1>7. \A f \in Ids, k \in Keys :
        (IF k[1] = id /\ in1[id][<<f, k[2]>>] # NoEdge THEN NoEdge ELSE out1[f][k])
          = (IF f = id \/ k[1] = id THEN NoEdge ELSE outgoing[f][k])
  <2> SUFFICES ASSUME NEW f \in Ids, NEW k \in Keys
               PROVE  (IF k[1] = id /\ in1[id][<<f, k[2]>>] # NoEdge THEN NoEdge ELSE out1[f][k])
                        = (IF f = id \/ k[1] = id THEN NoEdge ELSE outgoing[f][k])
    OBVIOUS
  <2>1. PICK t \in Ids, ty \in Types : k = <<t, ty>>
    BY DEF Keys
  <2>2. <<f, ty>> \in Keys /\ <<t, ty>> \in Keys
    BY <2>1 DEF Keys
  <2>3. CASE f = id
    BY <2>3, <2>1, <2>2, <1>5 DEF EmptyPeers
  <2>4. CASE f # id
    <3>1. in1[id][<<f, ty>>] = incoming[id][<<f, ty>>]
      BY <1>4, <2>2, <2>4
    <3>2. t = id => incoming[id][<<f, ty>>] = outgoing[f][k]
      BY <1>2, <2>1
    <3>3. out1[f][k] = outgoing[f][k]
      BY <1>5, <2>4
    <3> QED BY <3>1, <3>2, <3>3, <2>1, <2>4
  <2> QED BY <2>3, <2>4
<1>8. incoming' = [t \in Ids |-> [k \in Keys |->
                      IF t = id \/ k[1] = id THEN NoEdge ELSE incoming[t][k]]]
  <2>1. incoming' = [t \in Ids |-> IF t = id THEN EmptyPeers ELSE in1[t]]
    BY <1>1, <1>3
  <2>2. ASSUME NEW t \in Ids
        PROVE  (IF t = id THEN EmptyPeers ELSE in1[t])
                 = [k \in Keys |-> IF t = id \/ k[1] = id THEN NoEdge ELSE incoming[t][k]]
    <3>1. CASE t = id
      BY <3>1 DEF EmptyPeers
    <3>2. CASE t # id
      <4>1. in1[t] = [k \in Keys |-> in1[t][k]]
        BY <1>3
      <4> QED BY <4>1, <1>4, <3>2
    <3> QED BY <3>1, <3>2
  <2> QED BY <2>1, <2>2
<1> QED BY <1>6, <1>7, <1>8

\* UpsertEdge and DeleteEdge both write x under one key of each map.
LEMMA WriteEdgeKeepsMirror ==
    ASSUME StoreInv, NEW f \in Ids, NEW t \in Ids, NEW ty \in Types, NEW x \in Attrs \cup {NoEdge},
           outgoing' = [outgoing EXCEPT ![f] = [@ EXCEPT ![<<t, ty>>] = x]],
           incoming' = [incoming EXCEPT ![t] = [@ EXCEPT ![<<f, ty>>] = x]]
    PROVE  /\ outgoing' \in [Ids -> [Keys -> Attrs \cup {NoEdge}]]
           /\ incoming' \in [Ids -> [Keys -> Attrs \cup {NoEdge}]]
           /\ AdjacencyMirror'
<1>1. /\ outgoing \in [Ids -> [Keys -> Attrs \cup {NoEdge}]]
      /\ incoming \in [Ids -> [Keys -> Attrs \cup {NoEdge}]]
      /\ AdjacencyMirror
  BY DEF StoreInv, TypeOK
<1>2. <<t, ty>> \in Keys /\ <<f, ty>> \in Keys
  BY DEF Keys
<1>3. /\ outgoing' \in [Ids -> [Keys -> Attrs \cup {NoEdge}]]
      /\ incoming' \in [Ids -> [Keys -> Attrs \cup {NoEdge}]]
  BY <1>1, <1>2
<1>4. ASSUME NEW g \in Ids, NEW u \in Ids, NEW tz \in Types
      PROVE  outgoing'[g][<<u, tz>>] = incoming'[u][<<g, tz>>]
  <2>1. <<u, tz>> \in Keys /\ <<g, tz>> \in Keys
    BY DEF Keys
  <2>2. outgoing'[g][<<u, tz>>] = IF g = f /\ u = t /\ tz = ty THEN x ELSE outgoing[g][<<u, tz>>]
    BY <1>1, <1>2, <2>1
  <2>3. incoming'[u][<<g, tz>>] = IF g = f /\ u = t /\ tz = ty THEN x ELSE incoming[u][<<g, tz>>]
    BY <1>1, <1>2, <2>1
  <2> QED BY <1>1, <2>2, <2>3 DEF AdjacencyMirror
<1> QED BY <1>3, <1>4 DEF AdjacencyMirror

LEMMA InitInv == Init => StoreInv
BY StoreAssumption DEF Init, StoreInv, TypeOK, AdjacencyMirror, SecretsAreReferences, EmptyPeers, Keys

LEMMA NextInv == StoreInv /\ [Next]_vars => StoreInv'
<1> SUFFICES ASSUME StoreInv, [Next]_vars PROVE StoreInv'
  OBVIOUS
<1> USE StoreAssumption
<1>1. ASSUME NEW id \in Ids, NEW v \in Values, UpsertResource(id, v) PROVE StoreInv'
  BY <1>1 DEF UpsertResource, Sanitize, StoreInv, TypeOK, AdjacencyMirror, SecretsAreReferences
<1>2. ASSUME NEW id \in Ids, DeleteResource(id) PROVE StoreInv'
  <2>1. resources' = [resources EXCEPT ![id] = Absent]
    BY <1>2 DEF DeleteResource
  <2>2. /\ outgoing' = [f \in Ids |-> [k \in Keys |->
                            IF f = id \/ k[1] = id THEN NoEdge ELSE outgoing[f][k]]]
        /\ incoming' = [t \in Ids |-> [k \in Keys |->
                            IF t = id \/ k[1] = id THEN NoEdge ELSE incoming[t][k]]]
    BY <1>2, DeleteResourceEffect
  <2>3. TypeOK'
    BY <2>1, <2>2 DEF StoreInv, TypeOK
  <2>4. AdjacencyMirror'
    <3> SUFFICES ASSUME NEW f \in Ids, NEW t \in Ids, NEW ty \in Types
                 PROVE  outgoing'[f][<<t, ty>>] = incoming'[t][<<f, ty>>]
      BY DEF AdjacencyMirror
    <3>1. <<t, ty>> \in Keys /\ <<f, ty>> \in Keys
      BY DEF Keys
    <3> QED BY <2>2, <3>1 DEF StoreInv, AdjacencyMirror
  <2>5. SecretsAreReferences'
    BY <2>1 DEF StoreInv, TypeOK, SecretsAreReferences
  <2> QED BY <2>3, <2>4, <2>5 DEF StoreInv
<1>3. ASSUME NEW e \in EdgeInputs, NEW a \in Attrs, UpsertEdge(e[1], e[2], e[3], a)
      PROVE  StoreInv'
  <2>1. e[1] \in Ids /\ e[2] \in Ids /\ e[3] \in Types
    OBVIOUS
  <2>2. /\ outgoing' \in [Ids -> [Keys -> Attrs \cup {NoEdge}]]
        /\ incoming' \in [Ids -> [Keys -> Attrs \cup {NoEdge}]]
        /\ AdjacencyMirror'
    BY <1>3, <2>1, WriteEdgeKeepsMirror DEF UpsertEdge
  <2>3. resources' \in [Ids -> Values \cup {SecretRef, Absent}] /\ SecretsAreReferences'
    BY <1>3, <2>1 DEF UpsertEdge, StoreInv, TypeOK, SecretsAreReferences
  <2> QED BY <2>2, <2>3 DEF StoreInv, TypeOK
<1>4. ASSUME NEW e \in EdgeInputs, DeleteEdge(e[1], e[2], e[3]) PROVE StoreInv'
  <2>1. e[1] \in Ids /\ e[2] \in Ids /\ e[3] \in Types
    OBVIOUS
  <2>2. /\ outgoing' \in [Ids -> [Keys -> Attrs \cup {NoEdge}]]
        /\ incoming' \in [Ids -> [Keys -> Attrs \cup {NoEdge}]]
        /\ AdjacencyMirror'
    BY <1>4, <2>1, WriteEdgeKeepsMirror DEF DeleteEdge
  <2> QED BY <2>2, <1>4 DEF DeleteEdge, StoreInv, TypeOK, SecretsAreReferences
<1>5. CASE UNCHANGED vars
  BY <1>5 DEF vars, StoreInv, TypeOK, AdjacencyMirror, SecretsAreReferences
<1> QED BY <1>1, <1>2, <1>3, <1>4, <1>5 DEF Next

\* In every reachable state of the in-memory store the types hold, the two
\* adjacency maps mirror each other and Secrets are references.
THEOREM StoreInvariant == Spec => []StoreInv
BY InitInv, NextInv, PTL DEF Spec

\* The incoming and outgoing maps of memory.Store hold the same edges.
THEOREM MirrorHolds == Spec => []AdjacencyMirror
BY StoreInvariant, PTL DEF StoreInv

\* No history of upserts leaves a Secret payload in memory.Store.
THEOREM SecretsHold == Spec => []SecretsAreReferences
BY StoreInvariant, PTL DEF StoreInv

\* memory.Store implements the GraphStore contract: every method, the
\* two-sided cascade of DeleteResource included, is one contract operation.
THEOREM StoreImplementsContract == Spec => ImplementsContract
<1>1. Init => Contract!Init
  BY DEF Init, Contract!Init, EmptyPeers, Keys, Contract!Keys
<1>2. StoreInv /\ [Next]_vars => [Contract!Next]_(Contract!vars)
  <2> SUFFICES ASSUME StoreInv, [Next]_vars PROVE [Contract!Next]_(Contract!vars)
    OBVIOUS
  <2> USE StoreAssumption
  <2>1. ASSUME NEW id \in Ids, NEW v \in Values, UpsertResource(id, v) PROVE Contract!Mutate
    <3>1. Contract!UpsertResource(id, v)
      BY <2>1 DEF UpsertResource, Contract!UpsertResource, Sanitize, Contract!Sanitize
    <3> QED BY <3>1 DEF Contract!Mutate
  <2>2. ASSUME NEW id \in Ids, DeleteResource(id) PROVE Contract!Mutate
    <3>1. Contract!DeleteResource(id)
      BY <2>2, DeleteResourceEffect DEF DeleteResource, Contract!DeleteResource, Keys, Contract!Keys
    <3> QED BY <3>1 DEF Contract!Mutate
  <2>3. ASSUME NEW e \in EdgeInputs, NEW a \in Attrs, UpsertEdge(e[1], e[2], e[3], a)
        PROVE  Contract!Mutate
    <3>1. Contract!UpsertEdge(e[1], e[2], e[3], a)
      BY <2>3 DEF UpsertEdge, Contract!UpsertEdge
    <3>2. e[1] \in Ids /\ e[2] \in Ids /\ e[3] \in Types
      OBVIOUS
    <3> QED BY <3>1, <3>2 DEF Contract!Mutate
  <2>4. ASSUME NEW e \in EdgeInputs, DeleteEdge(e[1], e[2], e[3]) PROVE Contract!Mutate
    <3>1. Contract!DeleteEdge(e[1], e[2], e[3])
      BY <2>4 DEF DeleteEdge, Contract!DeleteEdge
    <3>2. e[1] \in Ids /\ e[2] \in Ids /\ e[3] \in Types
      OBVIOUS
    <3> QED BY <3>1, <3>2 DEF Contract!Mutate
  <2>5. CASE UNCHANGED vars
    BY <2>5 DEF vars, Contract!vars
  <2> QED BY <2>1, <2>2, <2>3, <2>4, <2>5 DEF Next, Contract!Next
<1> QED BY <1>1, <1>2, StoreInvariant, PTL DEF Spec, ImplementsContract, Contract!Spec
=============================================================================
