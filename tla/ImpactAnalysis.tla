--------------------------- MODULE ImpactAnalysis ---------------------------
(***************************************************************************)
(* AnalyzeImpact of pkg/graph/analysis: what depends on a resource, or     *)
(* what it depends on, in one projection of the graph.  The ordinary facet *)
(* walks the modelled relations breadth first, within a depth and a result *)
(* limit; the authorization facet then walks the role, binding, account    *)
(* and workload motif that belongs to the class of the root, with the same *)
(* queue and its own limits.  A walk pops one arc at a time from the heap  *)
(* of the resource at the head of the queue.                               *)
(*                                                                         *)
(* Ids are numbers, ordered as the heap orders them.  An edge is [from,    *)
(* to, type, refUids], refUids being the UIDs in the owner references of   *)
(* its child that name the owner.                                          *)
(***************************************************************************)
EXTENDS Integers, Sequences, FiniteSets

CONSTANTS KindOf, NamespaceOf, UidOf,   \* by id
          Foreign,       \* ids of another cluster
          Inputs         \* the calls: [resources, edges, root, opts], with opts
                         \* a record [relation, expectedUID, maxDepth, limit]

VARIABLES resources, edges, root, opts,    \* the projection and the request
          phase,         \* "begin", "ordinary", "authorization", "done" or an error
          queue, head, arcs, visited, depthLimited, resultLimited, totals,
          report         \* facet -> its result

projection == <<resources, edges, root, opts>>
walk == <<queue, head, arcs, visited, depthLimited, resultLimited, totals>>
vars == <<projection, phase, walk, report>>

NodeIds == DOMAIN KindOf

----------------------------------------------------------------------------
(* The ordinary facet.                                                     *)

Modelled == {"OWNS", "USES_CONFIGMAP", "USES_SECRET", "MOUNTS_VOLUME", "SELECTS",
             "ROUTES_TO", "ATTACHED_TO", "USES_SERVICEACCOUNT"}

impactExcludedType(type) ==
  CASE type \in Modelled -> ""
    [] type \in {"BINDS_ROLE", "BINDS_SUBJECT"} -> "authorization_separate"
    [] type = "CALLS_AT_RUNTIME" -> "runtime_relationship_excluded"
    [] OTHER -> "unmodeled_relationship"

impactOwnerUIDStatus(e) ==
  CASE UidOf[e.to] = "" -> "unknown"
    [] UidOf[e.to] \in e.refUids -> "matched"
    [] e.refUids \ {""} # {} -> "mismatch"
    [] OTHER -> "unknown"

Near(e) == IF opts.relation = "dependents" THEN e.to ELSE e.from
Far(e) == IF opts.relation = "dependents" THEN e.from ELSE e.to

\* Why an edge that leaves a resource is not followed, "" when it is.
ordinaryReason(e) ==
  CASE impactExcludedType(e.type) # "" -> impactExcludedType(e.type)
    [] Far(e) \notin resources ->
         IF Far(e) \in Foreign THEN "cross_cluster_relationship_excluded" ELSE "missing_resource"
    [] e.type = "OWNS" /\ impactOwnerUIDStatus(e) = "mismatch" -> "owner_uid_mismatch"
    [] OTHER -> ""

----------------------------------------------------------------------------
(* The authorization facet.                                                *)

impactAuthorizationClass(id) ==
  LET namespaced == NamespaceOf[id] # ""
  IN CASE id \notin resources -> ""
       [] KindOf[id] = "Role" -> IF namespaced THEN "role" ELSE ""
       [] KindOf[id] = "ClusterRole" -> IF namespaced THEN "" ELSE "role"
       [] KindOf[id] = "RoleBinding" -> IF namespaced THEN "binding" ELSE ""
       [] KindOf[id] = "ClusterRoleBinding" -> IF namespaced THEN "" ELSE "binding"
       [] KindOf[id] = "ServiceAccount" -> IF namespaced THEN "account" ELSE ""
       [] KindOf[id] \in {"Pod", "Deployment"} -> IF namespaced THEN "workload" ELSE ""
       [] OTHER -> ""

rootClass == impactAuthorizationClass(root)

\* The edges that say something about authorization and touch the projection.
unique ==
  {e \in edges : /\ e.type \in {"BINDS_ROLE", "BINDS_SUBJECT", "USES_SERVICEACCOUNT"}
                 /\ e.from \in resources \/ e.to \in resources}

Refs(id, type) == {e \in unique : e.from = id /\ e.type = type}

impactAuthorizationTransition(class, type, reverse) ==
  CASE class = "role" -> rootClass = "role" /\ type = "BINDS_ROLE" /\ reverse
    [] class = "binding" ->
         /\ ~reverse
         /\ \/ type = "BINDS_ROLE" /\ rootClass # "role"
            \/ type = "BINDS_SUBJECT" /\ rootClass \in {"role", "binding"}
    [] class = "account" ->
         /\ reverse
         /\ \/ type = "BINDS_SUBJECT" /\ rootClass \in {"account", "workload"}
            \/ type = "USES_SERVICEACCOUNT" /\ rootClass # "workload"
    [] class = "workload" -> rootClass = "workload" /\ type = "USES_SERVICEACCOUNT" /\ ~reverse
    [] OTHER -> FALSE

ValidBinding(e) ==
  LET from == impactAuthorizationClass(e.from)
      to == impactAuthorizationClass(e.to)
  IN CASE e.type = "BINDS_ROLE" ->
            /\ from = "binding" /\ to = "role"
            /\ \/ KindOf[e.to] = "ClusterRole"
               \/ KindOf[e.from] = "RoleBinding" /\ NamespaceOf[e.from] = NamespaceOf[e.to]
       [] e.type = "BINDS_SUBJECT" -> from = "binding" /\ to = "account"
       [] OTHER -> from = "workload" /\ to = "account" /\ NamespaceOf[e.from] = NamespaceOf[e.to]

impactAuthorizationEdgeReason(e) ==
  CASE e.from \in Foreign \/ e.to \in Foreign -> "cross_cluster_relationship_excluded"
    [] e.type # "BINDS_SUBJECT" /\ Cardinality(Refs(e.from, e.type)) > 1 -> "ambiguous_authorization_reference"
    [] e.type = "BINDS_SUBJECT" /\ KindOf[e.to] \in {"User", "Group"} -> "user_or_group_not_modeled"
    [] ~({e.from, e.to} \subseteq resources) -> "missing_resource"
    [] ~ValidBinding(e) -> "invalid_authorization_association"
    [] OTHER -> ""

----------------------------------------------------------------------------
(* The arcs and the notices of a resource, by facet.                       *)

Leaving(id) ==
  IF phase = "ordinary"
  THEN {[edge |-> e, to |-> Far(e), reason |-> ordinaryReason(e)] : e \in {d \in edges : Near(d) = id}}
  ELSE {[edge |-> e, to |-> e.to, reason |-> impactAuthorizationEdgeReason(e)] :
          e \in {d \in unique : d.from = id /\ impactAuthorizationTransition(impactAuthorizationClass(id), d.type, FALSE)}}
       \cup
       {[edge |-> e, to |-> e.from, reason |-> impactAuthorizationEdgeReason(e)] :
          e \in {d \in unique : d.to = id /\ impactAuthorizationTransition(impactAuthorizationClass(id), d.type, TRUE)}}

Adjacency(id) == {a \in Leaving(id) : a.reason = ""}

\* The reasons noted when a resource comes to the head of the queue.
addImpactNotice(id) ==
  ({a.reason : a \in Leaving(id)} \ {""})
  \cup (IF phase = "ordinary"
        THEN IF \E a \in Adjacency(id) : a.edge.type = "OWNS" /\ impactOwnerUIDStatus(a.edge) = "unknown"
             THEN {"owner_uid_unknown"} ELSE {}
        ELSE (IF impactAuthorizationClass(id) = "binding" /\ Refs(id, "BINDS_ROLE") = {}
              THEN {"missing_role_reference"} ELSE {})
             \cup
             (IF impactAuthorizationClass(id) = "workload" /\ Refs(id, "USES_SERVICEACCOUNT") = {}
              THEN {"missing_serviceaccount_reference"} ELSE {}))

----------------------------------------------------------------------------

Enqueue ==
  /\ queue' = <<[id |-> root, depth |-> 0, path |-> <<>>]>>
  /\ head' = 0
  /\ arcs' = {}
  /\ visited' = {root}
  /\ depthLimited' = FALSE /\ resultLimited' = FALSE
  /\ totals' = {}

\* The projection is indexed, the root found and its UID compared.
Index ==
  /\ phase = "begin"
  /\ phase' = CASE root \notin resources -> "root_not_found"
                [] opts.expectedUID # "" /\ UidOf[root] = "" -> "uid_unknown"
                [] opts.expectedUID \notin {"", UidOf[root]} -> "uid_mismatch"
                [] OTHER -> "ordinary"
  /\ Enqueue
  /\ UNCHANGED <<projection, report>>

Walking == phase \in {"ordinary", "authorization"}

Dequeue ==
  /\ Walking /\ arcs = {} /\ head < Len(queue)
  /\ head' = head + 1
  /\ totals' = totals \cup addImpactNotice(queue[head + 1].id)
  /\ arcs' = Adjacency(queue[head + 1].id)
  /\ UNCHANGED <<projection, phase, queue, visited, depthLimited, resultLimited, report>>

\* The heap orders the arcs of one resource by their target, then their type.
Least(set) == CHOOSE a \in set : \A b \in set : a.to <= b.to

\* As if the limits were looked at before the visited set.
PopLimitsFirst ==
  /\ Walking /\ arcs # {}
  /\ LET step == Least(arcs)
         current == queue[head]
         deep == current.depth = opts.maxDepth
         full == Len(queue) - 1 = opts.limit
         taken == step.to \notin visited /\ ~deep /\ ~full
     IN /\ arcs' = arcs \ {step}
        /\ depthLimited' = (depthLimited \/ deep)
        /\ resultLimited' = (resultLimited \/ (~deep /\ full))
        /\ visited' = IF taken THEN visited \cup {step.to} ELSE visited
        /\ queue' = IF taken
                    THEN Append(queue, [id |-> step.to, depth |-> current.depth + 1,
                                        path |-> Append(current.path, step)])
                    ELSE queue
  /\ UNCHANGED <<projection, phase, head, totals, report>>

Pop ==
  /\ Walking /\ arcs # {}
  /\ LET step == Least(arcs)
         current == queue[head]
         fresh == step.to \notin visited
         deep == current.depth = opts.maxDepth
         full == Len(queue) - 1 = opts.limit
         taken == fresh /\ ~deep /\ ~full
     IN /\ arcs' = arcs \ {step}
        /\ depthLimited' = (depthLimited \/ (fresh /\ deep))
        /\ resultLimited' = (resultLimited \/ (fresh /\ ~deep /\ full))
        /\ visited' = IF taken THEN visited \cup {step.to} ELSE visited
        /\ queue' = IF taken
                    THEN Append(queue, [id |-> step.to, depth |-> current.depth + 1,
                                        path |-> Append(current.path, step)])
                    ELSE queue
  /\ UNCHANGED <<projection, phase, head, totals, report>>

\* The ordinary count is a lower bound after a truncation, a missing resource
\* or a replaced owner; the authorization count after any notice at all.
LowerBound ==
  \/ depthLimited \/ resultLimited
  \/ totals \cap (IF phase = "ordinary" THEN {"missing_resource", "owner_uid_mismatch"} ELSE totals) # {}

Facet ==
  [applicable |-> TRUE, resources |-> Tail(queue), truncated |-> depthLimited \/ resultLimited,
   notices |-> totals, complete |-> ~LowerBound]

NotApplicable ==
  [applicable |-> FALSE, resources |-> <<>>, truncated |-> FALSE, notices |-> {}, complete |-> FALSE]

Walked == Walking /\ arcs = {} /\ head = Len(queue)

FinishOrdinary ==
  /\ phase = "ordinary" /\ Walked
  /\ IF rootClass = ""
     THEN /\ phase' = "done"
          /\ report' = [report EXCEPT !.ordinary = Facet, !.authorization = NotApplicable]
          /\ UNCHANGED walk
     ELSE /\ phase' = "authorization"
          /\ report' = [report EXCEPT !.ordinary = Facet]
          /\ Enqueue
  /\ UNCHANGED projection

FinishAuthorization ==
  /\ phase = "authorization" /\ Walked
  /\ phase' = "done"
  /\ report' = [report EXCEPT !.authorization = Facet]
  /\ UNCHANGED <<projection, walk>>

\* Every loop looks at the context, and the paths of the authorization facet
\* and the reference evidence are charged to a budget: either ends the call
\* with an error in place of a report.
Abandon ==
  /\ phase \in {"begin", "ordinary", "authorization"}
  /\ phase' = "abandoned"
  /\ UNCHANGED <<projection, walk, report>>

Init ==
  /\ \E call \in Inputs :
       resources = call.resources /\ edges = call.edges /\ root = call.root /\ opts = call.opts
  /\ phase = "begin"
  /\ queue = <<>> /\ head = 0 /\ arcs = {} /\ visited = {} /\ totals = {}
  /\ depthLimited = FALSE /\ resultLimited = FALSE
  /\ report = [ordinary |-> NotApplicable, authorization |-> NotApplicable]

Next == Index \/ Dequeue \/ Pop \/ FinishOrdinary \/ FinishAuthorization \/ Abandon

Spec == Init /\ [][Next]_vars

----------------------------------------------------------------------------
(* What the walks should find.                                             *)

\* The resources within k steps of the root over a relation.
Ball(Follows(_, _), n) ==
  LET ball[k \in 0 .. n] ==
        IF k = 0 THEN {root}
        ELSE LET near == ball[k - 1]
             IN near \cup {b \in resources : \E a \in near : Follows(a, b)}
  IN ball

Listed(facet) == {m.id : m \in {facet.resources[i] : i \in DOMAIN facet.resources}}

\* One shortest path for each resource, nearest first and within the limits;
\* all that the relation reaches when nothing was truncated and something less
\* when it was; and what was left out is no nearer than what is listed.
IsClosure(facet, Follows(_, _)) ==
  LET n == Cardinality(resources)
      ball == Ball(Follows, n)
      all == ball[n] \ {root}
      match(i) == facet.resources[i]
      indices == DOMAIN facet.resources
  IN /\ \A i \in indices :
          LET m == match(i) IN
          /\ m.depth \in 1 .. opts.maxDepth /\ Len(m.path) = m.depth
          /\ m.id \in ball[m.depth] \ ball[m.depth - 1]
          /\ m.path[m.depth].to = m.id
          /\ \A k \in 1 .. m.depth :
               Follows(IF k = 1 THEN root ELSE m.path[k - 1].to, m.path[k].to)
     /\ \A i, j \in indices : i < j => match(i).id # match(j).id /\ match(i).depth <= match(j).depth
     /\ Len(facet.resources) <= opts.limit
     /\ Listed(facet) \subseteq all
     /\ facet.truncated <=> Listed(facet) # all
     /\ \A i \in indices :
          (ball[match(i).depth - 1] \ {root}) \subseteq Listed(facet)

FollowsOrdinary(a, b) ==
  \E e \in edges : Near(e) = a /\ Far(e) = b /\ ordinaryReason(e) = ""

\* The ordinary facet is the closure of the modelled relations (AnalyzeImpact).
\* Reported complete, it names every resource that a modelled edge of the
\* projection leads to from the root or from a listed resource, save another
\* cluster's.
OrdinaryIsClosure ==
  phase = "done" =>
    /\ IsClosure(report.ordinary, FollowsOrdinary)
    /\ report.ordinary.complete =>
         \A e \in edges :
           e.type \in Modelled /\ Near(e) \in Listed(report.ordinary) \cup {root} =>
             Far(e) \in Listed(report.ordinary) \cup {root} \cup Foreign

\* The motif of the root, read from the edges that are not excluded.
Bound(type, from, to) ==
  \E e \in unique : e.type = type /\ e.from = from /\ e.to = to /\ impactAuthorizationEdgeReason(e) = ""

Motif ==
  LET binds(b, r) == Bound("BINDS_ROLE", b, r)
      names(b, a) == Bound("BINDS_SUBJECT", b, a)
      uses(w, a) == Bound("USES_SERVICEACCOUNT", w, a)
      bindingsOf(a) == {b \in NodeIds : names(b, a)}
      accountsOf(b) == {a \in NodeIds : names(b, a)}
      workloadsOf(a) == {w \in NodeIds : uses(w, a)}
      rolesOf(b) == {r \in NodeIds : binds(b, r)}
      down(bs) == LET as == UNION {accountsOf(b) : b \in bs}
                  IN as \cup UNION {workloadsOf(a) : a \in as}
      up(bs) == bs \cup UNION {rolesOf(b) : b \in bs}
      callers == {b \in NodeIds : binds(b, root)}
      accounts == {a \in NodeIds : uses(root, a)}
  IN CASE rootClass = "role" -> callers \cup down(callers)
       [] rootClass = "binding" -> rolesOf(root) \cup down({root})
       [] rootClass = "account" -> up(bindingsOf(root)) \cup workloadsOf(root)
       [] rootClass = "workload" -> accounts \cup up(UNION {bindingsOf(a) : a \in accounts})
       [] OTHER -> {}

\* The authorization facet stays inside the motif of its root (comment of
\* impactAuthorizationTransition: no walk of the connected component, so a
\* workload never reaches its peers through a shared role), lists all of the
\* motif unless truncated, and is complete only if no edge of the motif was
\* ambiguous, invalid or dangling.
AuthorizationIsMotif ==
  phase = "done" /\ report.authorization.applicable =>
    LET facet == report.authorization IN
    /\ Listed(facet) \subseteq Motif
    /\ ~facet.truncated => Listed(facet) = Motif
    /\ Len(facet.resources) <= opts.limit
    /\ \A i \in DOMAIN facet.resources : facet.resources[i].depth <= opts.maxDepth
    /\ facet.complete =>
         \A b \in Listed(facet) \cup {root} :
           impactAuthorizationClass(b) = "binding" => Cardinality(Refs(b, "BINDS_ROLE")) >= 1

\* AnalyzeImpact: the ordinary facet is the closure of its root within the
\* limits, and the authorization facet the binding motif around it; a facet that
\* is not marked truncated leaves nothing out.
FacetsAreExact == OrdinaryIsClosure /\ AuthorizationIsMotif
=============================================================================
