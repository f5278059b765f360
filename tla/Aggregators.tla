---------------------------- MODULE Aggregators ----------------------------
(* The graph views (pkg/aggregator): workload, resource, namespace, cluster    *)
(* and the federated view, built from several store calls while the graph      *)
(* changes.                                                                    *)
EXTENDS LiveGraph

CONSTANTS
    OwnerOf,                \* OwnerReferences[0] of an id, or NoOwner
    NoOwner,
    MaxResourceNeighbors

workloadKinds == {"Deployment", "StatefulSet", "DaemonSet", "Job", "CronJob", "Service", "Ingress",
                  "HTTPRoute"}
passthroughKinds == {"ConfigMap", "Secret", "ServiceAccount", "PersistentVolumeClaim", "Gateway",
                     "HorizontalPodAutoscaler"}
absorbedKinds == {"Pod", "ReplicaSet"}

-----------------------------------------------------------------------------
(* WorkloadAggregator *)

WorkloadRoot == GetRoot({"workload"}, "owned", {req.root})

\* Down the OWNS edges: an owned resource points at its owner.
ExpandOwned ==
    Each({"workload"}, "owned", LAMBDA id :
        LET owns == OfType(In(edges, id), "OWNS")
            new == Sources(owns) \ (Of("owned") \cup {req.root} \cup todo)
        IN  Go("owned", (todo \ {id}) \cup new,
               Facts("edge", owns) \cup Facts("owned", Sources(owns))))

OwnedDone == At({"workload"}, "owned") /\ todo = {} /\ Go("refs", Of("owned") \cup {req.root}, {})

\* What the workload and its descendants refer to.
CollectRefs ==
    Each({"workload"}, "refs", LAMBDA id :
        LET refs == {e \in Out(edges, id) : e.type # "OWNS"}
        IN  Go("refs", todo \ {id}, Facts("edge", refs) \cup Facts("ref", Targets(refs))))

RefsDone ==
    /\ At({"workload"}, "refs") /\ todo = {}
    /\ Go("nodes", Of("owned") \cup Of("ref") \cup {req.root}, {})

\* Every id of the view is looked up; one that is gone is shown as missing.
LookUp ==
    Each({"workload", "resource"}, "nodes", LAMBDA id :
        Go("nodes", todo \ {id}, {IF id \in stored THEN <<"node", id>> ELSE <<"missing", id>>}))

LookUpDone == At({"workload", "resource"}, "nodes") /\ todo = {} /\ Go("done", {}, {})

-----------------------------------------------------------------------------
(* ResourceAggregator *)

ResourceRoot == GetRoot({"resource"}, "in", {})

ListIncoming == At({"resource"}, "in") /\ Go("out", {}, Facts("seen", In(edges, req.root)))

\* Only edges whose other end was kept.
KeepEdges(all, keep) == {e \in all : {e.from, e.to} \subseteq keep \cup {req.root}}

\* One hop in both directions, at most MaxResourceNeighbors of them.
ListOutgoing ==
    /\ At({"resource"}, "out")
    /\ LET all == Of("seen") \cup Out(edges, req.root)
           near == Sources(In(all, req.root)) \cup Targets(Out(all, req.root))
           cut == Cardinality(near) > MaxResourceNeighbors
       IN  \E keep \in IF cut THEN kSubset(MaxResourceNeighbors, near) ELSE {near} :
               Go("nodes", keep,
                  Facts("edge", KeepEdges(all, keep)) \cup {<<"node", req.root>>}
                      \cup (IF cut THEN {<<"truncated", TRUE>>} ELSE {}))

-----------------------------------------------------------------------------
(* NamespaceAggregator: one GetNamespaceSubgraph, then arithmetic on it. *)

\* walkToWorkload: up the first owner references, within the namespace read.
walkToWorkload(id, S) ==
    LET step(x) == IF x = NoOwner \/ KindOf[x] \in workloadKinds THEN x
                   ELSE IF OwnerOf[x] \in S THEN OwnerOf[x] ELSE NoOwner
        up[n \in 0..Cardinality(S)] == IF n = 0 THEN id ELSE step(up[n - 1])
        top == up[Cardinality(S)]
    IN  IF top # NoOwner /\ KindOf[top] \in workloadKinds THEN top ELSE NoOwner

\* normalizeEndpoint: a Pod or ReplicaSet stands for its workload.
normalizeEndpoint(id, S) ==
    IF KindOf[id] \in workloadKinds \cup passthroughKinds THEN id
    ELSE IF KindOf[id] \in absorbedKinds THEN walkToWorkload(id, S) ELSE NoOwner

\* The edges of the namespace, each under the pair of nodes it is drawn between.
NamespaceEdges(S, E) ==
    {<<e, normalizeEndpoint(e.from, S), normalizeEndpoint(e.to, S)>> : e \in E}

AggregateNamespace ==
    /\ At({"namespace"}, "start")
    /\ LET S == {id \in stored : NamespaceOf[id] = req.root}
           E == {e \in edges : {e.from, e.to} \subseteq S}
           drawn == {d \in NamespaceEdges(S, E) : NoOwner \notin {d[2], d[3]}}
       IN  Go("done", {},
              Facts("node", {id \in S : KindOf[id] \in workloadKinds \cup passthroughKinds})
              \cup Facts("child", {<<id, walkToWorkload(id, S)>> :
                                      id \in {i \in S : KindOf[i] \in absorbedKinds}})
              \cup Facts("drawn", drawn))

-----------------------------------------------------------------------------
(* ClusterAggregator: two counting queries, one after the other.  A count is   *)
(* kept as the set it counts.                                                  *)

CountKinds == At({"cluster"}, "start") /\ Go("cross", {}, Facts("counted", stored))

CountCross ==
    /\ At({"cluster"}, "cross")
    /\ Go("done", {}, Facts("crossing",
           {e \in edges : /\ {e.from, e.to} \subseteq stored
                          /\ NamespaceOf[e.from] # NamespaceOf[e.to]}))

-----------------------------------------------------------------------------
(* MergeClusters: the members one after the other, then the edges.             *)
(* MergeClustersAtClusterLevel stops after the members.                        *)

MergeStart == At({"federated", "members"}, "start") /\ Go("members", req.clusters, {})

ListMember ==
    Each({"federated", "members"}, "members", LAMBDA c :
        Go("members", todo \ {c}, Facts("node", {id \in stored : ClusterOf[id] = c})))

MembersDone ==
    /\ At({"federated", "members"}, "members") /\ todo = {}
    /\ Go(IF req.handler = "federated" THEN "across" ELSE "done", {}, {})

ListAcross ==
    /\ At({"federated"}, "across")
    /\ Go("done", {}, Facts("edge",
           {e \in edges : \A id \in {e.from, e.to} : id \in stored /\ ClusterOf[id] \in req.clusters}))

\* Any error of the store ends the view; only a lookup of a neighbour is
\* swallowed, and its node shown as missing.
ViewFails ==
    \/ Fails({"workload", "resource", "namespace", "cluster"}, {"start", "in", "out", "cross"})
    \/ todo # {} /\ Fails({"workload", "federated", "members"}, {"owned", "refs", "members"})
    \/ Fails({"federated"}, {"across"})
    \/ \E id \in todo :
          /\ faults < MaxFaults /\ At({"workload", "resource"}, "nodes")
          /\ todo' = todo \ {id} /\ answer' = answer \cup {<<"missing", id>>}
          /\ faults' = faults + 1
          /\ UNCHANGED <<req, stage>> /\ UNCHANGED graph

ViewSteps ==
    \/ WorkloadRoot \/ ExpandOwned \/ OwnedDone \/ CollectRefs \/ RefsDone
    \/ LookUp \/ LookUpDone \/ ResourceRoot \/ ListIncoming \/ ListOutgoing
    \/ AggregateNamespace \/ CountKinds \/ CountCross
    \/ MergeStart \/ ListMember \/ MembersDone \/ ListAcross

-----------------------------------------------------------------------------
(* What a view may say, whatever happens to the graph meanwhile. *)

Shown == Of("node") \cup Of("missing")
EdgesShown == Of("edge")

\* The resources that reach the root of the request along OWNS edges.
Descendants(E) ==
    LET down[n \in 0..Cardinality(req.ids)] ==
            IF n = 0 THEN {req.root}
            ELSE down[n - 1] \cup {e.from : e \in {f \in OfType(E, "OWNS") : f.to \in down[n - 1]}}
    IN  down[Cardinality(req.ids)]

\* The workload view of a graph that stands still.
WorkloadEdges(E) ==
    {e \in E : IF e.type = "OWNS" THEN e.to \in Descendants(E) ELSE e.from \in Descendants(E)}

\* Every edge of a workload or resource view joins two of its nodes, however the
\* graph changed between the calls that listed the edges and the ones that
\* looked the nodes up; nodes shown as missing were absent (or unreadable), the
\* others were there.  The cluster and federated views, whose edges come from a
\* call of their own, are closed when nothing changed in between.
ViewsClosed ==
    stage = "done" =>
        /\ req.handler \in {"workload", "resource"} =>
               /\ \A e \in EdgesShown : {e.from, e.to} \subseteq Shown
               /\ Of("node") \subseteq everStored
               /\ faults = 0 => Of("missing") \cap alwaysStored = {}
        /\ req.handler = "federated" /\ changes = 0 =>
               \A e \in EdgesShown : {e.from, e.to} \subseteq Shown
        /\ req.handler = "cluster" /\ changes = 0 =>
               \A e \in Of("crossing") : {e.from, e.to} \subseteq Of("counted")

\* A view leaves out nothing that was in the graph all along and shows nothing
\* that never was: the workload view lies between the one of what stayed and
\* the one of all there ever was; a resource view that is not marked truncated
\* has every lasting neighbour, and never exceeds its cap; a Pod rolls up to the
\* workload its owner rolls up to.
ViewsBetween ==
    stage = "done" =>
        /\ req.handler = "workload" =>
               /\ WorkloadEdges(alwaysEdges) \subseteq EdgesShown
               /\ EdgesShown \subseteq WorkloadEdges(everEdges)
        /\ req.handler = "resource" =>
               /\ Cardinality(Shown) <= MaxResourceNeighbors + 1
               /\ Of("truncated") = {} =>
                      In(alwaysEdges, req.root) \cup Out(alwaysEdges, req.root) \subseteq EdgesShown
        /\ req.handler \in {"federated", "members"} =>
               {id \in alwaysStored : ClusterOf[id] \in req.clusters} \subseteq Of("node")
        /\ req.handler = "namespace" =>
               \A c \in Of("child") :
                   LET owner == OwnerOf[c[1]]
                   IN  c[2] = IF owner \notin stored THEN NoOwner
                              ELSE IF KindOf[owner] \in workloadKinds THEN owner
                              ELSE IF \E d \in Of("child") : d[1] = owner
                                   THEN (CHOOSE d \in Of("child") : d[1] = owner)[2] ELSE NoOwner

=============================================================================
