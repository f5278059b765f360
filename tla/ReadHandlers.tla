---------------------------- MODULE ReadHandlers ---------------------------
(* The read handlers of pkg/api that chain store calls (RBAC, network policy,  *)
(* policy, resource detail) and the analyses behind them                       *)
(* (pkg/graph/analysis: orphans, blast radius, diagnose).                      *)
EXTENDS LiveGraph

CONSTANTS
    OwnedPods,      \* Pods with an OwnerReference
    Engines         \* policyEngine: what the policy kinds belong to

topLevelKinds ==
    {"Namespace", "Node", "PersistentVolume", "StorageClass", "ClusterRole", "ClusterRoleBinding",
     "CustomResourceDefinition", "Deployment", "StatefulSet", "DaemonSet", "Service", "Ingress",
     "Gateway", "HTTPRoute", "ConfigMap", "Secret", "ServiceAccount", "Role", "RoleBinding", "Job",
     "CronJob", "PersistentVolumeClaim", "NetworkPolicy"}

\* The handler's own copy of the list.
v1TopLevelKinds ==
    {"Namespace", "Node", "PersistentVolume", "StorageClass", "ClusterRole", "ClusterRoleBinding",
     "CustomResourceDefinition", "Deployment", "StatefulSet", "DaemonSet", "Service", "Ingress",
     "Gateway", "HTTPRoute", "ConfigMap", "Secret", "ServiceAccount", "Role", "RoleBinding", "Job",
     "CronJob", "PersistentVolumeClaim", "NetworkPolicy"}

-----------------------------------------------------------------------------
(* RBAC: from a subject or a role over its bindings to the other side.  A      *)
(* pending item is <<call, binding, role>>; the calls of one binding are made  *)
(* before the next binding is looked at.                                       *)

Bindings == {"subject", "role"}

bindingsFor(handler, type) ==
    /\ At({handler}, "start")
    /\ Go("bindings", {<<"get", b, b>> : b \in Sources(OfType(In(edges, req.root), type))}, {})
bindingsForSubject == bindingsFor("subject", "BINDS_SUBJECT")
bindingsForRole == bindingsFor("role", "BINDS_ROLE")

\* The binding may be gone since it was listed: skipped.
GetBinding ==
    Each(Bindings, "bindings", LAMBDA t :
        /\ \A u \in todo : u[1] = "get"
        /\ Go("bindings",
              (todo \ {t}) \cup (IF t[2] \in stored THEN {<<"out", t[2], t[2]>>} ELSE {}), {}))

\* roleForBinding: the first BINDS_ROLE edge whose role is there.
roleForBinding ==
    Each({"subject"}, "bindings", LAMBDA t :
        /\ t[1] = "out"
        /\ Go("bindings",
              (todo \ {t}) \cup
                  {<<"role", t[2], r>> : r \in Targets(OfType(Out(edges, t[2]), "BINDS_ROLE"))},
              {<<"binding", t[2]>>}))

\* As if the rest of the edges were followed too once a role was found.
GetRoleAll ==
    Each({"subject"}, "bindings", LAMBDA t :
        /\ t[1] = "role"
        /\ Go("bindings", todo \ {t}, {<<"granted", <<t[2], t[3]>>>>}))

GetRole ==
    Each({"subject"}, "bindings", LAMBDA t :
        /\ t[1] = "role"
        /\ IF t[3] \in stored
           THEN Go("bindings", {u \in todo : u[1] = "get"}, {<<"granted", <<t[2], t[3]>>>>})
           ELSE Go("bindings", todo \ {t}, {}))

\* subjectsForBinding: decoded from the ids of the edges, with no lookup.
subjectsForBinding ==
    Each({"role"}, "bindings", LAMBDA t :
        /\ t[1] = "out"
        /\ Go("bindings", todo \ {t},
              {<<"binding", t[2]>>} \cup
                  {<<"bound", <<t[2], s>>>> : s \in Targets(OfType(Out(edges, t[2]), "BINDS_SUBJECT"))}))

BindingsDone == At(Bindings, "bindings") /\ todo = {} /\ Go("done", {}, {})

-----------------------------------------------------------------------------
(* Network policies and policy engines: an enforcing resource and its targets. *)

Targeting == {"selected", "allow", "affected"}

lookupNetworkPolicy == GetRoot({"selected", "allow"}, "out", {})

\* handlePolicyConstraintAffected finds the constraint by name in a snapshot.
FindConstraint ==
    /\ At({"affected"}, "start")
    /\ IF req.root \in stored /\ KindOf[req.root] \in DOMAIN Engines
       THEN Go("out", {}, {}) ELSE Go("notfound", {}, {})

TargetTypes ==
    CASE req.handler = "selected" -> {"SELECTS_NP"}
      [] req.handler = "allow" -> {"ALLOWS_FROM", "ALLOWS_TO"}
      [] req.handler = "affected" -> {"ENFORCES"}

ListTargets ==
    /\ At(Targeting, "out")
    /\ Go("targets", {e \in Out(edges, req.root) : e.type \in TargetTypes}, {})

\* resolveEdgeTargets: a target that was deleted meanwhile is left out.
resolveEdgeTargets ==
    Each(Targeting, "targets", LAMBDA e :
        Go("targets", todo \ {e}, IF e.to \in stored THEN {<<"target", e>>} ELSE {}))

TargetsDone == At(Targeting, "targets") /\ todo = {} /\ Go("done", {}, {})

\* handlePolicyConstraints: the policies of a snapshot; a gatekeeper constraint
\* carries its violations, a Kyverno policy's are edges read one by one.
handlePolicyConstraints ==
    /\ At({"constraints"}, "start")
    /\ LET policies == {id \in stored : KindOf[id] \in DOMAIN Engines}
       IN  Go("violations", {id \in policies : Engines[KindOf[id]] = "kyverno"},
              Facts("policy", policies))
policyViolations ==
    Each({"constraints"}, "violations", LAMBDA id :
        Go("violations", todo \ {id}, Facts("violation", OfType(Out(edges, id), "ENFORCES"))))
PoliciesDone == At({"constraints"}, "violations") /\ todo = {} /\ Go("done", {}, {})

-----------------------------------------------------------------------------
(* Analyses *)

\* BlastRadius: everything that reaches id.
BlastRadius(id, S, E) ==
    LET up[n \in 0..Cardinality(req.ids)] ==
            IF n = 0 THEN {id} ELSE up[n - 1] \cup {e.from : e \in {f \in E : f.to \in up[n - 1]}}
    IN  (up[Cardinality(req.ids)] \ {id}) \cap S

\* DetectCycles: the resources on a cycle of two or more stored members.
OnCycle(S, E) ==
    LET live == {e \in E : {e.from, e.to} \subseteq S}
    IN  {id \in S : \E x \in BlastRadius(id, S, live) : id \in BlastRadius(x, S, live)}

\* DetectOrphans' case of a Pod: decided by its owner reference alone.
OrphanAtOnce(id) == KindOf[id] = "Pod" /\ id \notin OwnedPods

DetectOrphans ==
    LET scope == {id \in stored : req.root \in {"all", NamespaceOf[id]}}
    IN  Go("incoming",
           {id \in scope : KindOf[id] # "Pod" /\ KindOf[id] \notin topLevelKinds},
           Facts("orphan", {id \in scope : OrphanAtOnce(id)}))

ListOrphans == At({"orphans"}, "start") /\ DetectOrphans

CheckIncoming ==
    Each({"orphans", "diagnose"}, "incoming", LAMBDA id :
        Go("incoming", todo \ {id}, IF In(edges, id) = {} THEN {<<"orphan", id>>} ELSE {}))

OrphansDone ==
    /\ At({"orphans", "diagnose"}, "incoming") /\ todo = {}
    /\ Go(IF req.handler = "orphans" THEN "done" ELSE "cycles", {}, {})

\* isOrphanResource, on the edges the detail request read.
isOrphanResource(id, in) ==
    IF KindOf[id] = "Pod" THEN id \notin OwnedPods
    ELSE KindOf[id] \notin v1TopLevelKinds /\ in = {}

\* handleResource and buildResourceDetailV1.
handleResource == GetRoot({"detail"}, "in", {})
DetailIncoming ==
    /\ At({"detail"}, "in")
    /\ LET in == In(edges, req.root)
       IN  Go("out", {}, Facts("in", in)
              \cup (IF isOrphanResource(req.root, in) THEN {<<"orphan", req.root>>} ELSE {}))
DetailOutgoing == At({"detail"}, "out") /\ Go("radius", {}, Facts("out", Out(edges, req.root)))
DetailRadius ==
    /\ At({"detail"}, "radius")
    /\ Go("cycle", {}, Facts("affected", BlastRadius(req.root, stored, edges)))
DetailCycle ==
    /\ At({"detail"}, "cycle")
    /\ Go("done", {}, Facts("cycle", {req.root} \cap OnCycle(stored, edges)))

\* handleBlastRadius: the source, what reaches it, and the source again when it
\* is asked for: gone by then, the request fails.
handleBlastRadius == GetRoot({"blast"}, "radius", {})
ListAffected ==
    /\ At({"blast"}, "radius")
    /\ Go("source", {}, Facts("affected", BlastRadius(req.root, stored, edges)))
IncludeSource ==
    /\ At({"blast"}, "source")
    /\ IF req.root \in stored THEN Go("done", {}, {<<"affected", req.root>>})
       ELSE Go("failed", {}, {})
NoSource == At({"blast"}, "source") /\ Go("done", {}, {})

\* GenerateReport: graph, orphans, cycles, and a blast radius per resource of
\* the graph, each from calls of its own.
ReportGraph ==
    /\ At({"diagnose"}, "start")
    /\ LET scope == {id \in stored : req.root \in {"all", NamespaceOf[id]}}
           within == {e \in edges : req.root = "all" \/ {e.from, e.to} \subseteq scope}
       IN  Go("list", {}, Facts("node", scope) \cup Facts("edge", within))
ReportOrphans == At({"diagnose"}, "list") /\ DetectOrphans
ReportCycles ==
    /\ At({"diagnose"}, "cycles")
    /\ LET on == OnCycle(stored, edges)
           seen == {id \in on : \E m \in on :
                       /\ m \in BlastRadius(id, stored, edges) \cup {id}
                       /\ id \in BlastRadius(m, stored, edges) \cup {m}
                       /\ req.root \in {"all", NamespaceOf[m]}}
       IN  Go("top", Of("node"), Facts("cycle", seen))
topBlastRadius ==
    Each({"diagnose"}, "top", LAMBDA id :
        Go("top", todo \ {id}, Facts("top", {id} \X BlastRadius(id, stored, edges))))
ReportDone == At({"diagnose"}, "top") /\ todo = {} /\ Go("done", {}, {})

\* A store call fails: most handlers answer 500 ...
CallFails ==
    \/ Fails(Bindings \cup {"affected", "constraints", "orphans", "detail", "blast", "diagnose"}
                 \cup {"selected", "allow"}, {"start", "in", "out"})
    \/ Fails({"blast"}, {"radius", "source"})
    \/ Fails({"diagnose"}, {"list", "cycles"})
    \/ todo # {} /\ Fails(Bindings \cup {"orphans", "diagnose"}, {"bindings", "incoming", "top"})

\* ... a target that cannot be read ends its list (resolveEdgeTargets) or is
\* skipped (affected); violations count as none; a detail goes without the
\* blast radius or the cycle flag.
CallSwallowed ==
    \/ \E e \in todo :
          \/ Swallows({"selected", "allow"}, "targets", {f \in todo : f.type # e.type}, "targets")
          \/ Swallows({"affected"}, "targets", todo \ {e}, "targets")
          \/ Swallows({"constraints"}, "violations", todo \ {e}, "violations")
    \/ Swallows({"detail"}, "radius", {}, "cycle")
    \/ Swallows({"detail"}, "cycle", {}, "done")

HandlerSteps ==
    \/ bindingsForSubject \/ bindingsForRole \/ GetBinding \/ roleForBinding \/ GetRole
    \/ subjectsForBinding \/ BindingsDone
    \/ lookupNetworkPolicy \/ FindConstraint \/ ListTargets \/ resolveEdgeTargets \/ TargetsDone
    \/ handlePolicyConstraints \/ policyViolations \/ PoliciesDone
    \/ ListOrphans \/ CheckIncoming \/ OrphansDone
    \/ handleResource \/ DetailIncoming \/ DetailOutgoing \/ DetailRadius \/ DetailCycle
    \/ handleBlastRadius \/ ListAffected \/ IncludeSource \/ NoSource
    \/ ReportGraph \/ ReportOrphans \/ ReportCycles \/ topBlastRadius \/ ReportDone

-----------------------------------------------------------------------------
(* What an answer may say, whatever happens to the graph meanwhile. *)

A(f, t, ty) == [from |-> f, to |-> t, type |-> ty]

\* A permission that is reported was granted by a binding that named the
\* subject and the role at some time during the request, each binding has at
\* most one role, and a binding that stood all the time with its role is there.
PermissionsTold ==
    req.handler = "subject" =>
        /\ \A g \in Of("granted") :
               /\ {A(g[1], req.root, "BINDS_SUBJECT"), A(g[1], g[2], "BINDS_ROLE")} \subseteq everEdges
               /\ {g[1], g[2]} \subseteq everStored
               /\ \A h \in Of("granted") : g[1] = h[1] => g = h
        /\ \A b \in Sources(OfType(In(alwaysEdges, req.root), "BINDS_SUBJECT")) \cap alwaysStored :
               /\ b \in Of("binding")
               /\ Targets(OfType(Out(alwaysEdges, b), "BINDS_ROLE")) \cap alwaysStored # {} =>
                      \E g \in Of("granted") : g[1] = b

SubjectsTold ==
    req.handler = "role" =>
        /\ Of("bound") \subseteq {<<e.from, e.to>> : e \in OfType(everEdges, "BINDS_SUBJECT")}
        /\ \A b \in Sources(OfType(In(alwaysEdges, req.root), "BINDS_ROLE")) \cap alwaysStored :
               {<<b, s>> : s \in Targets(OfType(Out(alwaysEdges, b), "BINDS_SUBJECT"))}
                   \subseteq Of("bound")

TargetsTold ==
    req.handler \in Targeting =>
        /\ Of("target") \subseteq {e \in everEdges : e.to \in everStored}
        /\ faults = 0 => {e \in Out(alwaysEdges, req.root) :
                             e.type \in TargetTypes /\ e.to \in alwaysStored} \subseteq Of("target")

\* DetectOrphans and the detail's flag: an orphan had no referrer at some time,
\* and what had none all along is one; when the graph stood still the two
\* agree, as the comment on isOrphanResource asks.
Orphaned(id, E) ==
    IF KindOf[id] = "Pod" THEN id \notin OwnedPods
    ELSE KindOf[id] \notin topLevelKinds /\ In(E, id) = {}
OrphansTold ==
    req.handler \in {"orphans", "diagnose", "detail"} =>
        LET asked == IF req.handler = "detail" THEN {req.root}
                     ELSE {id \in req.ids : req.root \in {"all", NamespaceOf[id]}}
        IN  /\ \A id \in Of("orphan") : id \in everStored \cap asked /\ Orphaned(id, alwaysEdges)
            /\ \A id \in alwaysStored \cap asked : Orphaned(id, everEdges) => id \in Of("orphan")

\* A blast radius names what reached the source, and everything that did all along.
RadiusTold ==
    /\ req.handler \in {"blast", "detail"} =>
           /\ Of("affected") \subseteq BlastRadius(req.root, everStored, everEdges) \cup {req.root}
           /\ faults = 0 => BlastRadius(req.root, alwaysStored, alwaysEdges) \subseteq Of("affected")
    /\ req.handler = "diagnose" =>
           \A p \in Of("top") : p[1] \in Of("node") /\ p[2] \in BlastRadius(p[1], everStored, everEdges)

\* Every answer of a handler lies between what held throughout the request and
\* what held at some time during it.
AnswersBetween ==
    stage = "done" =>
        PermissionsTold /\ SubjectsTold /\ TargetsTold /\ OrphansTold /\ RadiusTold

=============================================================================
