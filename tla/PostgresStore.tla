---------------------------- MODULE PostgresStore ----------------------------
(***************************************************************************)
(* pkg/store/postgres: the Tier 2 backend.  Every mutation writes the      *)
(* resources and edges tables and mirrors them as vertices and arcs of an  *)
(* Apache AGE graph in one transaction; the reads use the tables.          *)
(*                                                                         *)
(* A mutation is a program of SQL statements that ends in a commit.  The   *)
(* informers of different types call the store from their own goroutines,  *)
(* so the statements of two mutations interleave.  PostgreSQL is external: *)
(* read committed, where a statement sees what is committed plus its own   *)
(* transaction's writes, and waits for a row another open transaction has  *)
(* written.  Any statement, the commit included, may fail and roll back.   *)
(***************************************************************************)
EXTENDS Integers, Sequences, FiniteSets, TLC

CONSTANTS
    Ids, SecretIds, RefIds, Types, Values, SecretRef, Attrs, Absent, NoEdge,
    NamespaceOf, ClusterOf, KindOf, LabelsOf(_), EdgeInputs,    \* as in MemoryStore
    KnownIds,       \* ids whose Kind has an AGE vertex label
    KnownTypes,     \* edge types with an AGE edge label
    Clients,        \* goroutines that mutate the store
    OwnerOf,        \* id -> the informer goroutine of its type, if it has one
    EmittedBy       \* client -> the edges its extractors and Rego rules emit

VARIABLES
    db,             \* what is committed: item -> value
    todo,           \* client -> the statements its call has still to run
    writes,         \* client -> items its open transaction has written
    late            \* client -> edges others committed while its call runs

vars == <<db, todo, writes, late>>

\* A table row or a graph element is Absent or NoEdge where there is none.
EdgeItems == {<<"edge", e>> : e \in EdgeInputs}
ArcItems == {<<"arc", e>> : e \in EdgeInputs}

Nothing == <<>>     \* no statement left, no item written

Init ==
    /\ db = [i \in {"row", "vertex"} \X Ids |-> Absent]
            @@ [i \in EdgeItems \cup ArcItems |-> NoEdge]
    /\ todo = [c \in Clients |-> Nothing]
    /\ writes = [c \in Clients |-> Nothing]
    /\ late = [c \in Clients |-> {}]

-----------------------------------------------------------------------------
(* The mutations, as programs. *)

Statement(do, on, value) == [do |-> do, on |-> on, value |-> value]
Commit == <<Statement("commit", 0, 0)>>
When(cond, program) == IF cond THEN program ELSE Nothing

\* Kinds and types without a label stay out of the AGE graph.
VertexLabelKnown(id) == id \in KnownIds
EdgeLabelKnown(type) == type \in KnownTypes

\* The graph's share of a mutation.
UpsertVertex(id) == When(VertexLabelKnown(id), <<Statement("vertex", id, "vertex")>>)
DeleteVertex(id) == <<Statement("detach", id, 0)>>
MirrorEdge(e) == When(EdgeLabelKnown(e[3]), <<Statement("arc", e, "arc")>>)
UnmirrorEdge(e) == When(EdgeLabelKnown(e[3]), <<Statement("dropArc", e, 0)>>)

\* SanitizeResource: a Secret is stored as a reference, anything else as it is.
Sanitize(id, v) == IF id \in SecretIds THEN SecretRef ELSE v

\* As if the row were committed before its vertex is merged.
UpsertResourceTwoCommits(id, v) ==
    <<Statement("row", id, Sanitize(id, v))>> \o Commit \o UpsertVertex(id) \o Commit

UpsertResource(id, v) ==
    <<Statement("row", id, Sanitize(id, v))>> \o UpsertVertex(id) \o Commit

\* As if the tables cascaded only to the edges that leave the resource.
DeleteResourceOutgoingOnly(id) ==
    <<Statement("cascadeOut", id, 0), Statement("dropRow", id, 0)>> \o DeleteVertex(id) \o Commit

DeleteResource(id) ==
    <<Statement("cascade", id, 0), Statement("dropRow", id, 0)>> \o DeleteVertex(id) \o Commit

\* The reference-only Secret is a transaction of its own, before the edge's.
UpsertEdge(e, a) ==
    When(e[2] \in RefIds, UpsertResource(e[2], SecretRef))
        \o <<Statement("edge", e, a)>> \o MirrorEdge(e) \o Commit

DeleteEdge(e) ==
    <<Statement("dropEdge", e, 0)>> \o UnmirrorEdge(e) \o Commit

\* What the callers do: the events of one type come from one goroutine, so a
\* resource is upserted and deleted by its owner alone, and a Secret, which no
\* informer watches, only by reference.
Mutations(c) ==
    LET own == {id \in Ids : OwnerOf[id] = c}
    IN  {UpsertResource(id, v) : id \in own, v \in Values} \cup {DeleteResource(id) : id \in own}
        \cup {UpsertEdge(e, a) : e \in EmittedBy[c], a \in Attrs}
        \cup {DeleteEdge(e) : e \in EmittedBy[c]}

-----------------------------------------------------------------------------
(* Running a program. *)

\* What client c's statements see.
View(c) == writes[c] @@ db

\* The visible items that touch id.
Incident(c, items, id) ==
    {i \in items : View(c)[i] # NoEdge /\ id \in {i[2][1], i[2][2]}}

\* The arc is merged only where both vertices match.
MergeArc(c, e, value) ==
    IF \A id \in {e[1], e[2]} : View(c)[<<"vertex", id>>] # Absent
    THEN <<"arc", e>> :> value ELSE Nothing

\* Deleting an item that is not visible writes nothing.
Drop(c, item, none) == [i \in {j \in {item} : View(c)[j] # none} |-> none]

\* DETACH DELETE takes the vertex and its arcs.
Detach(c, id) ==
    Drop(c, <<"vertex", id>>, Absent) @@ [i \in Incident(c, ArcItems, id) |-> NoEdge]

\* The items statement s of client c writes, and what it writes.
Effect(c, s) ==
    CASE s.do \in {"row", "vertex", "edge"} -> <<s.do, s.on>> :> s.value
      [] s.do = "arc" -> MergeArc(c, s.on, s.value)
      [] s.do = "cascade" -> [i \in Incident(c, EdgeItems, s.on) |-> NoEdge]
      [] s.do = "cascadeOut" ->
            [i \in {j \in Incident(c, EdgeItems, s.on) : j[2][1] = s.on} |-> NoEdge]
      [] s.do = "dropRow" -> Drop(c, <<"row", s.on>>, Absent)
      [] s.do = "detach" -> Detach(c, s.on)
      [] s.do = "dropEdge" -> Drop(c, <<"edge", s.on>>, NoEdge)
      [] s.do = "dropArc" -> Drop(c, <<"arc", s.on>>, NoEdge)

Call(c) ==
    /\ todo[c] = Nothing
    /\ \E p \in Mutations(c) : todo' = [todo EXCEPT ![c] = p]
    /\ late' = [late EXCEPT ![c] = {}]
    /\ UNCHANGED <<db, writes>>

\* A row another open transaction has written makes the statement wait.
Execute(c) ==
    /\ todo[c] # Nothing
    /\ Head(todo[c]).do # "commit"
    /\ LET w == Effect(c, Head(todo[c]))
       IN  /\ \A o \in Clients \ {c} : DOMAIN w \cap DOMAIN writes[o] = {}
           /\ writes' = [writes EXCEPT ![c] = w @@ @]
    /\ todo' = [todo EXCEPT ![c] = Tail(@)]
    /\ UNCHANGED <<db, late>>

CommitTx(c) ==
    /\ todo[c] # Nothing
    /\ Head(todo[c]).do = "commit"
    /\ db' = View(c)
    /\ writes' = [writes EXCEPT ![c] = Nothing]
    /\ todo' = [todo EXCEPT ![c] = Tail(@)]
    /\ late' = [o \in Clients |->
                   IF o = c \/ todo[o] = Nothing THEN late[o]
                   ELSE late[o] \cup {i[2] : i \in {j \in DOMAIN writes[c] \cap EdgeItems :
                                                     writes[c][j] # NoEdge}}]

\* withAGETx rolls back on any error, and the mutation returns it.
Rollback(c) ==
    /\ todo[c] # Nothing
    /\ writes' = [writes EXCEPT ![c] = Nothing]
    /\ todo' = [todo EXCEPT ![c] = Nothing]
    /\ UNCHANGED <<db, late>>

Next == \E c \in Clients : Call(c) \/ Execute(c) \/ CommitTx(c) \/ Rollback(c)

Spec == Init /\ [][Next]_vars

-----------------------------------------------------------------------------
(* The reads: one query each, over what is committed. *)

Rows == [id \in Ids |-> db[<<"row", id>>]]
Stored(id) == db[<<"row", id>>] # Absent
Edges == {e \in EdgeInputs : db[<<"edge", e>>] # NoEdge}
AttrsOf(e) == IF e \in EdgeInputs THEN db[<<"edge", e>>] ELSE NoEdge

\* (data->'labels') @> filter, where a NULL filter lets every row pass.
LabelsMatch(id, labels) == Stored(id) /\ labels \subseteq LabelsOf(Rows[id])

\* ListReachable's recursive query pairs nodes with depths and is cut at the
\* depth asked for; the rows joined to it at the end are the stored ones.
ListReachable(start, dir, types, maxDepth) ==
    LET depth == IF maxDepth <= 0 THEN 5 ELSE IF maxDepth > 10 THEN 10 ELSE maxDepth
        hop(n) == {IF dir = "incoming" THEN e[1] ELSE e[2] : e \in
                      {x \in Edges : x[3] \in types /\ n = IF dir = "incoming" THEN x[2] ELSE x[1]}}
        walk[d \in 1..depth] == IF d = 1 THEN hop(start) ELSE UNION {hop(n) : n \in walk[d - 1]}
    IN  {id \in UNION {walk[d] : d \in 1..depth} : Stored(id)}

ListResources(kinds, nss, clusters, labels) ==
    {id \in Ids : /\ LabelsMatch(id, labels) /\ ClusterOf[id] \in clusters
                  /\ KindOf[id] \in kinds /\ NamespaceOf[id] \in nss}

ListEdges(id, dir) == {e \in Edges : id = IF dir = "incoming" THEN e[2] ELSE e[1]}

\* Both counts are a GROUP BY: of the rows, and of the rows' labels.
CountKindsByNamespace(labels) ==
    [p \in {<<NamespaceOf[id], KindOf[id]>> : id \in Ids} |->
        Cardinality({id \in Ids : LabelsMatch(id, labels) /\ <<NamespaceOf[id], KindOf[id]>> = p})]

ListLabelStats ==
    [l \in UNION {LabelsOf(v) : v \in Values} |->
        Cardinality({id \in Ids : Stored(id) /\ l \in LabelsOf(Rows[id])})]

\* count(*) OVER() is taken before LIMIT, and read from the rows returned.
Search(kinds, nss, limit) ==
    LET hits == ListResources(kinds, nss, {ClusterOf[id] : id \in Ids}, {})
        n == IF Cardinality(hits) > limit THEN limit ELSE Cardinality(hits)
    IN  [total |-> IF n = 0 THEN 0 ELSE Cardinality(hits), matches |-> n]

ListEdgesAcrossClusters(clusters) ==
    {e \in Edges : \A id \in {e[1], e[2]} : Stored(id) /\ ClusterOf[id] \in clusters}

GetNamespaceSubgraph(ns, labels) ==
    [resources |-> {id \in Ids : NamespaceOf[id] = ns /\ LabelsMatch(id, labels)},
     edges |-> {e \in Edges : \A id \in {e[1], e[2]} :
                                NamespaceOf[id] = ns /\ LabelsMatch(id, labels)}]

\* As if the filter were asked of one endpoint of the edge only.
CountCrossNamespaceEdgesEither(labels) ==
    LET nss == {NamespaceOf[id] : id \in Ids}
        counted == {e \in Edges : /\ \A id \in {e[1], e[2]} : Stored(id)
                                  /\ \E id \in {e[1], e[2]} : LabelsMatch(id, labels)}
    IN  [p \in nss \X nss |-> Cardinality({e \in counted : <<NamespaceOf[e[1]], NamespaceOf[e[2]]>> = p})]

CountCrossNamespaceEdges(labels) ==
    LET nss == {NamespaceOf[id] : id \in Ids}
        counted == {e \in Edges : \A id \in {e[1], e[2]} : LabelsMatch(id, labels)}
    IN  [p \in nss \X nss |-> Cardinality({e \in counted : <<NamespaceOf[e[1]], NamespaceOf[e[2]]>> = p})]

-----------------------------------------------------------------------------
(* What has to hold. *)

\* The tables and the AGE graph commit together, whatever fails in between:
\* a vertex for every stored row of a known Kind and for no other, and no arc
\* that the edges table does not have.
MirrorInStep ==
    /\ \A id \in Ids : (db[<<"vertex", id>>] # Absent) <=> (Stored(id) /\ VertexLabelKnown(id))
    /\ \A e \in EdgeInputs : db[<<"arc", e>>] # NoEdge => e \in Edges

Contract == INSTANCE GraphContract
    WITH resources <- Rows,
         edges <- [f \in Ids |-> [k \in Ids \X Types |-> AttrsOf(<<f, k[1], k[2]>>)]]

\* Client c deletes id, and edges committed while it ran stay.
DeleteMissesEdges(c, id) ==
    LET incident == {e \in Edges : id \in {e[1], e[2]}}
    IN  /\ todo'[c] # todo[c]
        /\ Rows' = [Rows EXCEPT ![id] = Absent]
        /\ Edges \ incident \subseteq Edges' /\ Edges' \subseteq Edges
        /\ incident \cap Edges' \subseteq late[c]

\* Every commit is a step of the GraphStore contract, except that the cascade
\* of a delete misses edges that another transaction commits while it runs:
\* that is all that read committed and the Secret's own transaction show.
CommitsFollowContract ==
    [][db' # db => \/ Contract!Next
                   \/ UNCHANGED <<Rows, Edges>>
                   \/ \E c \in Clients, id \in Ids : DeleteMissesEdges(c, id)]_vars

Mem == INSTANCE MemoryStore
    WITH resources <- Rows,
         outgoing <- [f \in Ids |-> [k \in Ids \X Types |-> AttrsOf(<<f, k[1], k[2]>>)]],
         incoming <- [t \in Ids |-> [k \in Ids \X Types |-> AttrsOf(<<k[1], t, k[2]>>)]]

MemEdges(es) == {<<e.from, e.to, e.type>> : e \in es}

AllLabels == UNION {LabelsOf(v) : v \in Values}
AllNamespaces == {NamespaceOf[id] : id \in Ids}

\* On the same rows both backends give the same views: lists, counts and
\* search by field, the namespace and the federated view, and the resources a
\* walk of known types reaches besides its start.
BackendsAgree ==
    (\A c \in Clients : todo[c] = Nothing) =>
        /\ ListLabelStats = Mem!ListLabelStats
        /\ \A start \in Ids, dir \in {"incoming", "outgoing"} :
              /\ ListEdges(start, dir) = MemEdges(Mem!ListEdges(start, dir))
              /\ \A d \in {1, 2} : ListReachable(start, dir, KnownTypes, d) \ {start}
                                     = Mem!ListReachable(start, dir, KnownTypes, d)
        /\ \A labels \in SUBSET AllLabels :
              /\ CountKindsByNamespace(labels) = Mem!CountKindsByNamespace(labels)
              /\ CountCrossNamespaceEdges(labels) = Mem!CountCrossNamespaceEdges(labels)
              /\ \A ns \in AllNamespaces :
                    LET m == Mem!GetNamespaceSubgraph(ns, labels)
                        p == GetNamespaceSubgraph(ns, labels)
                    IN  p.resources = m.resources /\ p.edges = MemEdges(m.edges)
        /\ \A kinds \in SUBSET {KindOf[id] : id \in Ids} :
              /\ \A limit \in 1..2 : Search(kinds, AllNamespaces, limit)
                                       = Mem!Search(kinds, AllNamespaces, limit)
              /\ \A clusters \in SUBSET {ClusterOf[id] : id \in Ids} :
                    ListResources(kinds, AllNamespaces, clusters, AllLabels)
                       = Mem!ListResources(kinds, AllNamespaces, clusters, AllLabels)
        /\ \A clusters \in SUBSET {ClusterOf[id] : id \in Ids} :
              ListEdgesAcrossClusters(clusters) = MemEdges(Mem!ListEdgesAcrossClusters(clusters))

=============================================================================
