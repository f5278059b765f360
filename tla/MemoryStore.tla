----------------------------- MODULE MemoryStore -----------------------------
(***************************************************************************)
(* pkg/store/memory/store.go: the Tier 1 backend.  Resources by id and two *)
(* adjacency maps, outgoing by source and incoming by target, that every   *)
(* mutation has to keep in step.  Each method holds the store's mutex for  *)
(* its whole body, so each is one action.  An inner map that is nil and    *)
(* one that is empty behave the same and are not told apart.               *)
(***************************************************************************)
EXTENDS Integers, FiniteSets

CONSTANTS
    Ids, SecretIds, RefIds, Types, Values, SecretRef, Attrs, Absent, NoEdge,
    NamespaceOf,    \* the namespace part of an id
    ClusterOf,      \* the cluster part of an id
    KindOf,         \* the kind part of an id
    LabelsOf(_),    \* the labels a stored value carries
    EdgeInputs      \* the (from, to, type) triples callers pass to the store

ASSUME StoreAssumption ==
    /\ SecretIds \subseteq Ids /\ RefIds \subseteq SecretIds
    /\ Absent \notin Values \cup {SecretRef}
    /\ NoEdge \notin Attrs
    /\ EdgeInputs \subseteq Ids \X Ids \X Types

VARIABLES
    resources,      \* Store.resources: Ids -> value or Absent
    outgoing,       \* Store.outgoing: from -> edgeKey{to, type} -> edge
    incoming        \* Store.incoming: to -> edgeKey{from, type} -> edge

vars == <<resources, outgoing, incoming>>

\* edgeKey{other, typ}: the peer and the edge type.
Keys == Ids \X Types
EmptyPeers == [k \in Keys |-> NoEdge]

TypeOK ==
    /\ resources \in [Ids -> Values \cup {SecretRef, Absent}]
    /\ outgoing \in [Ids -> [Keys -> Attrs \cup {NoEdge}]]
    /\ incoming \in [Ids -> [Keys -> Attrs \cup {NoEdge}]]

Init ==
    /\ resources = [id \in Ids |-> Absent]
    /\ outgoing = [id \in Ids |-> EmptyPeers]
    /\ incoming = [id \in Ids |-> EmptyPeers]

\* SanitizeResource: a Secret is stored as a reference, anything else as it is.
Sanitize(id, v) == IF id \in SecretIds THEN SecretRef ELSE v

UpsertResource(id, v) ==
    /\ resources' = [resources EXCEPT ![id] = Sanitize(id, v)]
    /\ UNCHANGED <<outgoing, incoming>>

\* One side of the cascade: for every key of peers (the adjacency of id in
\* one map), drop the mirrored entry from the other map.
DropMirrors(id, peers, other) ==
    [o \in Ids |-> [k \in Keys |->
        IF k[1] = id /\ peers[<<o, k[2]>>] # NoEdge THEN NoEdge ELSE other[o][k]]]

\* As if the edges of a deleted resource were left to its peers.
DeleteResourceKeepsPeers(id) ==
    /\ resources' = [resources EXCEPT ![id] = Absent]
    /\ UNCHANGED <<outgoing, incoming>>

\* First the outgoing edges of id and their incoming mirrors, then whatever
\* is left incoming on id and its outgoing mirrors, in the code's order.
DeleteResource(id) ==
    LET in1  == DropMirrors(id, outgoing[id], incoming)
        out1 == [outgoing EXCEPT ![id] = EmptyPeers]
    IN  /\ resources' = [resources EXCEPT ![id] = Absent]
        /\ outgoing' = DropMirrors(id, in1[id], out1)
        /\ incoming' = [in1 EXCEPT ![id] = EmptyPeers]

\* As if a second upsert of the same key left the incoming copy as it was.
UpsertEdgeStaleMirror(f, t, ty, a) ==
    /\ resources' = IF t \in RefIds
                    THEN [resources EXCEPT ![t] = SecretRef]
                    ELSE resources
    /\ outgoing' = [outgoing EXCEPT ![f] = [@ EXCEPT ![<<t, ty>>] = a]]
    /\ incoming' = [incoming EXCEPT ![t] =
                      [@ EXCEPT ![<<f, ty>>] = IF @ = NoEdge THEN a ELSE @]]

\* The reference-only endpoint first, then the edge in both maps.
UpsertEdge(f, t, ty, a) ==
    /\ resources' = IF t \in RefIds
                    THEN [resources EXCEPT ![t] = SecretRef]
                    ELSE resources
    /\ outgoing' = [outgoing EXCEPT ![f] = [@ EXCEPT ![<<t, ty>>] = a]]
    /\ incoming' = [incoming EXCEPT ![t] = [@ EXCEPT ![<<f, ty>>] = a]]

DeleteEdge(f, t, ty) ==
    /\ outgoing' = [outgoing EXCEPT ![f] = [@ EXCEPT ![<<t, ty>>] = NoEdge]]
    /\ incoming' = [incoming EXCEPT ![t] = [@ EXCEPT ![<<f, ty>>] = NoEdge]]
    /\ UNCHANGED resources

Next ==
    \/ \E id \in Ids, v \in Values : UpsertResource(id, v)
    \/ \E id \in Ids : DeleteResource(id)
    \/ \E e \in EdgeInputs, a \in Attrs : UpsertEdge(e[1], e[2], e[3], a)
    \/ \E e \in EdgeInputs : DeleteEdge(e[1], e[2], e[3])

Spec == Init /\ [][Next]_vars

-----------------------------------------------------------------------------
(* The reads.  Each takes the read lock once and is a function of the state. *)

Stored(id) == resources[id] # Absent

Edge(f, t, ty, a) == [from |-> f, to |-> t, type |-> ty, attrs |-> a]

\* ListEdges: outgoing from one map, incoming from the other.
ListEdges(id, dir) ==
    IF dir = "outgoing"
    THEN {Edge(id, k[1], k[2], outgoing[id][k]) :
             k \in {j \in Keys : outgoing[id][j] # NoEdge}}
    ELSE {Edge(k[1], id, k[2], incoming[id][k]) :
             k \in {j \in Keys : incoming[id][j] # NoEdge}}

\* Snapshot reads edges from outgoing only.
SnapshotEdges == UNION {ListEdges(id, "outgoing") : id \in Ids}

\* ListReachable's depth: default 5, cap 10.
ClampDepth(d) == IF d <= 0 THEN 5 ELSE IF d > 10 THEN 10 ELSE d

\* The peers one hop from cur along the allowed types.
Peers(cur, dir, types) ==
    LET adj == IF dir = "incoming" THEN incoming[cur] ELSE outgoing[cur]
    IN  {k[1] : k \in {j \in Keys : adj[j] # NoEdge /\ j[2] \in types}}

\* The breadth-first walk: visited grows by the unvisited peers of the
\* frontier, hop by hop; ids with no resource are walked through, not returned.
ListReachable(start, dir, types, maxDepth) ==
    LET depth == ClampDepth(maxDepth)
        bfs[hop \in 0..depth] ==
            IF hop = 0
            THEN [visited |-> {start}, frontier |-> {start}]
            ELSE LET b == bfs[hop - 1]
                     next == UNION {Peers(c, dir, types) : c \in b.frontier} \ b.visited
                 IN  [visited |-> b.visited \cup next, frontier |-> next]
    IN  {id \in bfs[depth].visited \ {start} : Stored(id)}

\* labelsMatch: every requested label is carried.
LabelsMatch(id, labels) == Stored(id) /\ labels \subseteq LabelsOf(resources[id])

\* ListResources / GetNamespaceSubgraph's visible set.
InNamespace(ns, labels) == {id \in Ids : NamespaceOf[id] = ns /\ LabelsMatch(id, labels)}

GetNamespaceSubgraph(ns, labels) ==
    LET inNS == InNamespace(ns, labels)
    IN  [resources |-> inNS,
         edges |-> {e \in SnapshotEdges : e.from \in inNS /\ e.to \in inNS}]

\* CountCrossNamespaceEdges: one count per (from-namespace, to-namespace).
CountCrossNamespaceEdges(labels) ==
    LET counted == {e \in SnapshotEdges : LabelsMatch(e.from, labels) /\ LabelsMatch(e.to, labels)}
        nss == {NamespaceOf[id] : id \in Ids}
    IN  [p \in nss \X nss |->
            Cardinality({e \in counted : <<NamespaceOf[e.from], NamespaceOf[e.to]>> = p})]

\* ListResources with its optional fields; ListResourcesInCluster asks for one.
ListResources(kinds, nss, clusters, labels) ==
    {id \in Ids : /\ KindOf[id] \in kinds /\ NamespaceOf[id] \in nss
                  /\ ClusterOf[id] \in clusters /\ LabelsMatch(id, labels)}

\* CountKindsByNamespace: one count per (namespace, kind).
CountKindsByNamespace(labels) ==
    [p \in {<<NamespaceOf[id], KindOf[id]>> : id \in Ids} |->
        Cardinality({id \in Ids : <<NamespaceOf[id], KindOf[id]>> = p /\ LabelsMatch(id, labels)})]

\* ListLabelStats: how many resources carry each label.
ListLabelStats ==
    [l \in UNION {LabelsOf(v) : v \in Values} |-> Cardinality({id \in Ids : LabelsMatch(id, {l})})]

\* A Search by fields alone: the total is counted before the list is cut.
Search(kinds, nss, limit) ==
    LET hits == {id \in Ids : Stored(id) /\ KindOf[id] \in kinds /\ NamespaceOf[id] \in nss}
    IN  [total |-> Cardinality(hits),
         matches |-> IF Cardinality(hits) > limit THEN limit ELSE Cardinality(hits)]

\* ListEdgesAcrossClusters: both endpoints stored and in the cluster set.
ListEdgesAcrossClusters(clusters) ==
    {e \in SnapshotEdges :
        \A id \in {e.from, e.to} : Stored(id) /\ ClusterOf[id] \in clusters}

-----------------------------------------------------------------------------
(* What has to hold. *)

\* The two adjacency maps hold the same edges with the same attributes: what
\* UpsertEdge, DeleteEdge and the cascade of DeleteResource must keep in step.
AdjacencyMirror ==
    \A f, t \in Ids, ty \in Types : outgoing[f][<<t, ty>>] = incoming[t][<<f, ty>>]

\* A Secret id holds the reference-only value or nothing, whichever of
\* UpsertResource and UpsertEdge wrote it last (graph/security.go).
SecretsAreReferences == \A id \in SecretIds : resources[id] \in {SecretRef, Absent}

\* Both, with the types: what every operation keeps.
StoreInv == TypeOK /\ AdjacencyMirror /\ SecretsAreReferences

Contract == INSTANCE GraphContract WITH edges <- outgoing

\* The store implements the GraphStore contract: in particular the two-sided
\* cascade of DeleteResource removes every edge incident on the id.
ImplementsContract == Contract!Spec

Directions == {"incoming", "outgoing"}

\* The ends of the walks of exactly n edges of the allowed types from a.
WalkEnds(a, dir, types, n) ==
    LET ends[k \in 0..n] == IF k = 0 THEN {a}
                            ELSE UNION {Peers(c, dir, types) : c \in ends[k - 1]}
    IN  ends[n]

\* ListReachable returns exactly the stored resources other than the start
\* that some walk of at most MaxDepth edges reaches: the visited set loses no
\* longer walk, and an id with no resource is walked through.
ReachIsBoundedWalks ==
    \A start \in Ids, dir \in Directions, types \in SUBSET Types \ {{}}, d \in {1, 3} :
        ListReachable(start, dir, types, d) =
            {id \in UNION {WalkEnds(start, dir, types, n) : n \in 1..d} \ {start} : Stored(id)}

\* The cluster view's in-namespace counts agree with the namespace view:
\* the diagonal of CountCrossNamespaceEdges counts the edges of
\* GetNamespaceSubgraph under every label filter.
AggregatesAgree ==
    \A ns \in {NamespaceOf[id] : id \in Ids} :
        \A labels \in SUBSET UNION {LabelsOf(v) : v \in Values} :
            CountCrossNamespaceEdges(labels)[<<ns, ns>>] =
                Cardinality(GetNamespaceSubgraph(ns, labels).edges)
=============================================================================
