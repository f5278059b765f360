----------------------------- MODULE LiveGraph -----------------------------
(* A read request against a store that keeps changing.  A handler, an          *)
(* aggregator or an analysis answers from a chain of store calls; every call   *)
(* sees one state of the graph (a lock or a transaction), the informers change *)
(* the graph between two calls, and a call may fail.                           *)
(* The pending ids of a loop are a set: the store lists edges and resources in *)
(* map order, so the order in which a loop meets them is open.                 *)
EXTENDS Naturals, FiniteSets, FiniteSetsExt

CONSTANTS
    Requests,       \* [handler, root, ids, arcs]: a request and the part of the graph it meets;
                    \* a federated one also names its clusters
    KindOf, NamespaceOf, ClusterOf,
    MaxChanges,     \* bound: store changes during the request
    MaxFaults       \* bound: store calls that fail

VARIABLES
    stored, edges,              \* the graph
    req, stage, todo,           \* the request, where it is, the ids left to read
    answer,                     \* what the response will say, a set of facts
    everStored, everEdges,      \* history: in the graph at some time since the request began
    alwaysStored, alwaysEdges,  \* history: in the graph all that time
    changes, faults

vars == <<stored, edges, req, stage, todo, answer,
          everStored, everEdges, alwaysStored, alwaysEdges, changes, faults>>
graph == <<stored, edges, everStored, everEdges, alwaysStored, alwaysEdges, changes>>

In(E, id) == {e \in E : e.to = id}
Out(E, id) == {e \in E : e.from = id}
OfType(E, t) == {e \in E : e.type = t}
Sources(E) == {e.from : e \in E}
Targets(E) == {e.to : e \in E}
Facts(tag, S) == {<<tag, x>> : x \in S}
Of(tag) == {f[2] : f \in {g \in answer : g[1] = tag}}

Answered == stage \in {"done", "notfound", "failed"}

\* A request arrives while any part of its corner of the graph is stored; an
\* edge may name a resource that is not.
Init ==
    /\ req \in Requests
    /\ stored \in SUBSET req.ids /\ edges \in SUBSET req.arcs
    /\ stage = "start" /\ todo = {} /\ answer = {}
    /\ everStored = stored /\ alwaysStored = stored
    /\ everEdges = edges /\ alwaysEdges = edges
    /\ changes = 0 /\ faults = 0

Change(S, E) ==
    /\ changes < MaxChanges /\ ~Answered
    /\ <<S, E>> # <<stored, edges>>
    /\ stored' = S /\ edges' = E
    /\ everStored' = everStored \cup S /\ everEdges' = everEdges \cup E
    /\ alwaysStored' = alwaysStored \cap S /\ alwaysEdges' = alwaysEdges \cap E
    /\ changes' = changes + 1
    /\ UNCHANGED <<req, stage, todo, answer, faults>>

UpsertResource == \E id \in req.ids : Change(stored \cup {id}, edges)
DeleteResource ==
    \E id \in stored : Change(stored \ {id}, edges \ (In(edges, id) \cup Out(edges, id)))
UpsertEdge == \E e \in req.arcs : Change(stored, edges \cup {e})
DeleteEdge == \E e \in edges : Change(stored, edges \ {e})

StoreChanges == UpsertResource \/ DeleteResource \/ UpsertEdge \/ DeleteEdge

-----------------------------------------------------------------------------
(* The shape of a step of a request. *)

At(handlers, s) == req.handler \in handlers /\ stage = s

\* The call is answered: note the facts, go on with next and its ids.
Go(next, ids, facts) ==
    /\ stage' = next /\ todo' = ids /\ answer' = answer \cup facts
    /\ UNCHANGED <<req, faults>> /\ UNCHANGED graph

\* An iteration of the loop of stage s: one pending id.
Each(handlers, s, Body(_)) == At(handlers, s) /\ \E id \in todo : Body(id)

\* GetResource of the requested id: writeNotFoundOr500 when it is not there.
GetRoot(handlers, next, ids) ==
    /\ At(handlers, "start")
    /\ IF req.root \in stored THEN Go(next, ids, {<<"root", req.root>>})
       ELSE Go("notfound", {}, {})

\* The store call of a stage fails and the handler answers 500.
Fails(handlers, stages) ==
    /\ faults < MaxFaults /\ req.handler \in handlers /\ stage \in stages
    /\ stage' = "failed" /\ todo' = {} /\ faults' = faults + 1
    /\ UNCHANGED <<req, answer>> /\ UNCHANGED graph

\* A failure the handler swallows: the iteration is skipped, or the loop left.
Swallows(handlers, s, ids, next) ==
    /\ faults < MaxFaults /\ At(handlers, s)
    /\ stage' = next /\ todo' = ids /\ faults' = faults + 1
    /\ UNCHANGED <<req, answer>> /\ UNCHANGED graph

=============================================================================
