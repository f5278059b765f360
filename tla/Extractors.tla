----------------------------- MODULE Extractors -----------------------------
(***************************************************************************)
(* The extractors of pkg/extractor, and the reader of reference fields in  *)
(* pkg/graph/analysis that explains, for an impact report, the edges that  *)
(* the extractors drew.  They are two readings of one object: the          *)
(* extractors read it when it is observed and write edges into the graph,  *)
(* the reader reads the projection a store makes of it (the few fields of  *)
(* ImpactReferenceShape) when a report is asked for.                       *)
(*                                                                         *)
(* A resource is [id, known, version, rawVersion, raw, labels, template,   *)
(* refs, selector, types, peers, matches].  The nested maps of Raw become  *)
(* the set refs of the references found in them: [at, kind, ns, name,      *)
(* form, mount], where at names the field path, "" stands for an absent    *)
(* string, and form is "bad" when the value at that path has the wrong     *)
(* type or the volume it belongs to no name of its own.  labels and        *)
(* template (the labels of the pod template) are sets of key=value pairs.  *)
(* known says that the group version is the one whose schema the reader    *)
(* knows, version stands for the UID and the resourceVersion, rawVersion   *)
(* for the identity found inside Raw.                                      *)
(***************************************************************************)
EXTENDS Integers, FiniteSets

CONSTANTS Objects,      \* the resources an extraction may be run for
          Population    \* the resources the store may hold

VARIABLES object,     \* the resource observed
          stored,     \* what ListResources draws from
          listing,    \* do the calls of ListResources succeed
          edges,      \* the edges ExtractAll returned
          firstErr,   \* did ExtractAll return an error
          source,     \* the version they were extracted from
          evidence,   \* what the reader says of each reference edge
          phase

vars == <<object, stored, listing, edges, firstErr, source, evidence, phase>>

hasPodTemplate(kind) ==
  kind \in {"Deployment", "StatefulSet", "DaemonSet", "Job", "CronJob", "ReplicaSet"}

PodLike(kind) == kind = "Pod" \/ hasPodTemplate(kind)

Or(value, default) == IF value = "" THEN default ELSE value

ContainerLists == {"containers", "initContainers", "ephemeralContainers"}

ContainerFields == ContainerLists \X {"envFrom", "env"}

\* The references at the given paths whose name the extractors can read:
\* nestedSlice and nestedString pass over values of another type.
nestedString(r, paths) ==
  {f \in r.refs : f.at \in paths /\ f.form = "ok" /\ f.name # ""}

Edge(r, type, kind, ns, name) ==
  [from |-> r.id, type |-> type,
   to |-> [cluster |-> r.id.cluster, kind |-> kind, ns |-> ns, name |-> name]]

----------------------------------------------------------------------------
(* Extractors that read the object alone.                                  *)

OwnsExtractor(r) ==
  {Edge(r, "OWNS", o.kind, r.id.ns, o.name) : o \in {f \in r.refs : f.at = <<"ownerReferences">>}}

podTemplateContainers == {<<"containers", "envFrom">>, <<"containers", "env">>}

ConfigMapExtractor(r) ==
  IF ~PodLike(r.id.kind) THEN {}
  ELSE {Edge(r, "USES_CONFIGMAP", "ConfigMap", r.id.ns, f.name) :
          f \in {g \in nestedString(r, podTemplateContainers \cup {<<"volumes">>}) :
                   g.kind = "ConfigMap"}}

\* Where a kind of object may name a Secret.
SecretPaths(kind) ==
  CASE PodLike(kind) -> ContainerFields \cup {<<"volumes">>, <<"projected">>, <<"imagePullSecrets">>}
    [] kind = "ServiceAccount" -> {<<"secrets">>, <<"imagePullSecrets">>}
    [] kind = "Ingress" -> {<<"tls">>}
    [] OTHER -> {}

SecretExtractor(r) ==
  {Edge(r, "USES_SECRET", "Secret", r.id.ns, f.name) :
     f \in {g \in nestedString(r, SecretPaths(r.id.kind)) : g.kind = "Secret"}}
  \cup
  {Edge(r, "USES_SECRET", "Secret", Or(f.ns, r.id.ns), f.name) :
     f \in {g \in nestedString(r, {<<"certificateRefs">>}) :
              r.id.kind = "Gateway" /\ g.kind \in {"", "Secret"}}}

VolumeExtractor(r) ==
  IF ~PodLike(r.id.kind) THEN {}
  ELSE {Edge(r, "MOUNTS_VOLUME", "PersistentVolumeClaim", r.id.ns, f.name) :
          f \in {g \in nestedString(r, {<<"volumes">>}) : g.kind = "PersistentVolumeClaim"}}

ServiceAccountExtractor(r) ==
  LET at(path) == nestedString(r, {<<path>>})
      names == CASE at("serviceAccountName") # {} -> {f.name : f \in at("serviceAccountName")}
                 [] at("serviceAccount") # {} -> {f.name : f \in at("serviceAccount")}
                 [] OTHER -> {"default"}
  IN IF ~PodLike(r.id.kind) THEN {}
     ELSE {Edge(r, "USES_SERVICEACCOUNT", "ServiceAccount", r.id.ns, n) : n \in names}

ingressEdges(r) ==
  {Edge(r, "ROUTES_TO", "Service", r.id.ns, f.name) : f \in nestedString(r, {<<"paths">>})}

openshiftRouteEdges(r) ==
  {Edge(r, "ROUTES_TO", Or(f.kind, "Service"), r.id.ns, f.name) :
     f \in nestedString(r, {<<"to">>, <<"alternateBackends">>})}

httpRouteBackendEdges(r) ==
  {Edge(r, "ROUTES_TO", Or(f.kind, "Service"), Or(f.ns, r.id.ns), f.name) :
     f \in nestedString(r, {<<"backendRefs">>})}

RoutesExtractor(r) ==
  CASE r.id.kind = "Ingress" -> ingressEdges(r)
    [] r.id.kind = "HTTPRoute" -> httpRouteBackendEdges(r)
    [] r.id.kind = "Route" -> openshiftRouteEdges(r)
    [] OTHER -> {}

AttachedExtractor(r) ==
  IF r.id.kind # "HTTPRoute" THEN {}
  ELSE {Edge(r, "ATTACHED_TO", "Gateway", Or(f.ns, r.id.ns), f.name) :
          f \in {g \in nestedString(r, {<<"parentRefs">>}) : g.kind \in {"", "Gateway"}}}

Binding(kind) == kind \in {"RoleBinding", "ClusterRoleBinding"}

BindsSubjectExtractor(r) ==
  {Edge(r, "BINDS_SUBJECT", f.kind,
        IF f.kind = "ServiceAccount" /\ r.id.kind = "RoleBinding" THEN Or(f.ns, r.id.ns) ELSE f.ns,
        f.name) :
     f \in {g \in nestedString(r, {<<"subjects">>}) : Binding(r.id.kind) /\ g.kind # ""}}

BindsRoleExtractor(r) ==
  {Edge(r, "BINDS_ROLE", f.kind, IF f.kind = "Role" THEN r.id.ns ELSE "", f.name) :
     f \in {g \in nestedString(r, {<<"roleRef">>}) : Binding(r.id.kind) /\ g.kind # ""}}

ScalesExtractor(r) ==
  {Edge(r, "SCALES", f.kind, r.id.ns, f.name) :
     f \in {g \in nestedString(r, {<<"scaleTargetRef">>}) :
              r.id.kind = "HorizontalPodAutoscaler" /\ g.kind # ""}}

\* A ServiceAccount's annotation or label names an identity of the platform.
externalIdentityID(r, path, platform) ==
  {Edge(r, "BINDS_PLATFORM_IDENTITY", platform, "_external", f.name) :
     f \in {g \in nestedString(r, {<<path>>}) : r.id.kind = "ServiceAccount"}}

EKSIdentityExtractor(r) == externalIdentityID(r, "eks.amazonaws.com/role-arn", "IAMRole")
AKSIdentityExtractor(r) == externalIdentityID(r, "azure.workload.identity/client-id", "AADManagedIdentity")
GKEIdentityExtractor(r) == externalIdentityID(r, "iam.gke.io/gcp-service-account", "GCPServiceAccount")

----------------------------------------------------------------------------
(* Extractors that list the store.                                         *)

\* graph.Filter: an empty field does not filter, an empty label set matches.
ListResources(kind, ns, labels, cluster) ==
  {t \in stored : /\ kind \in {"", t.id.kind}
                  /\ ns \in {"", t.id.ns}
                  /\ cluster \in {"", t.id.cluster}
                  /\ labels \subseteq t.labels}

\* A selector without labels selects nothing for a Service ...
labelsMatch(have, want) == want # {} /\ want \subseteq have

\* ... and everything for a NetworkPolicy.
matchLabelSelector(have, want) == want \subseteq have

podTemplateMeta(t) == IF t.id.kind = "Pod" THEN t.labels ELSE t.template

podLikeMatches(t, want) == PodLike(t.id.kind) /\ matchLabelSelector(podTemplateMeta(t), want)

EdgesTo(r, type, targets) == {[from |-> r.id, to |-> t.id, type |-> type] : t \in targets}

SelectsExtractor(r) ==
  IF r.id.kind # "Service" THEN {}
  ELSE EdgesTo(r, "SELECTS",
         {t \in ListResources("", r.id.ns, {}, r.id.cluster) :
            PodLike(t.id.kind) /\ labelsMatch(podTemplateMeta(t), r.selector)})

SelectsNPExtractor(r) ==
  IF r.id.kind # "NetworkPolicy" THEN {}
  ELSE EdgesTo(r, "SELECTS_NP",
         {t \in ListResources("", r.id.ns, {}, r.id.cluster) : podLikeMatches(t, r.selector)})

\* The selectors of a peer are <<>> when absent and <<labels>> when present; a
\* peer with an ipBlock alone has neither.
NamespacesOf(r, peer) ==
  {n \in ListResources("Namespace", "", {}, r.id.cluster) :
     matchLabelSelector(n.labels, peer.namespaces[1])}

PodsOf(r, peer, ns) ==
  {t \in ListResources("", ns, {}, r.id.cluster) : podLikeMatches(t, peer.pods[1])}

peerEdges(r, peer, type) ==
  CASE peer.pods = <<>> /\ peer.namespaces = <<>> -> {}
    [] peer.pods = <<>> /\ peer.namespaces # <<>> -> EdgesTo(r, type, NamespacesOf(r, peer))
    [] peer.pods # <<>> /\ peer.namespaces = <<>> -> EdgesTo(r, type, PodsOf(r, peer, r.id.ns))
    [] OTHER -> EdgesTo(r, type, UNION {PodsOf(r, peer, n.id.name) : n \in NamespacesOf(r, peer)})

hasPolicyType(r, want) == want \in r.types

extractPeerEdges(r, direction, type) ==
  UNION {peerEdges(r, p, type) : p \in {q \in r.peers : q.direction = direction}}

AllowsFromExtractor(r) ==
  IF r.id.kind = "NetworkPolicy" /\ hasPolicyType(r, "Ingress")
  THEN extractPeerEdges(r, "ingress", "ALLOWS_FROM") ELSE {}

AllowsToExtractor(r) ==
  IF r.id.kind = "NetworkPolicy" /\ hasPolicyType(r, "Egress")
  THEN extractPeerEdges(r, "egress", "ALLOWS_TO") ELSE {}

\* What a constraint or a validate rule matches: some kinds, in some
\* namespaces (all when none is named), carrying some labels.
Matched(r, match, namespaces) ==
  UNION {ListResources(k, n, match.labels, r.id.cluster) :
           k \in match.kinds, n \in IF namespaces = {} THEN {""} ELSE namespaces}

GatekeeperExtractor(r) ==
  UNION {EdgesTo(r, "ENFORCES", Matched(r, m, m.namespaces)) :
           m \in {n \in r.matches : r.id.kind = "Constraint"}}

KyvernoExtractor(r) ==
  UNION {EdgesTo(r, "ENFORCES",
                 Matched(r, m, IF r.id.kind = "Policy" THEN {r.id.ns} ELSE m.namespaces)) :
           m \in {n \in r.matches : r.id.kind \in {"ClusterPolicy", "Policy"} /\ n.validate}}

----------------------------------------------------------------------------

\* Default: the extractors that need no listing, and those that do.
Reading(r) ==
  OwnsExtractor(r) \cup ConfigMapExtractor(r) \cup SecretExtractor(r) \cup VolumeExtractor(r)
  \cup ServiceAccountExtractor(r) \cup RoutesExtractor(r) \cup AttachedExtractor(r)
  \cup BindsSubjectExtractor(r) \cup BindsRoleExtractor(r) \cup ScalesExtractor(r)
  \cup EKSIdentityExtractor(r) \cup AKSIdentityExtractor(r) \cup GKEIdentityExtractor(r)

Listing(r) ==
  SelectsExtractor(r) \cup SelectsNPExtractor(r) \cup AllowsFromExtractor(r)
  \cup AllowsToExtractor(r) \cup GatekeeperExtractor(r) \cup KyvernoExtractor(r)

Lists(r) ==
  \/ r.id.kind = "NetworkPolicy"
  \/ r.id.kind = "Service" /\ r.selector # {}
  \/ r.id.kind \in {"Constraint", "ClusterPolicy", "Policy"}
       /\ \E m \in r.matches : m.kinds # {} /\ (r.id.kind # "Constraint" => m.validate)

\* One extractor's error loses that extractor's edges and no other's.
ExtractAll ==
  /\ phase = "observed"
  /\ edges' = Reading(object) \cup IF listing THEN Listing(object) ELSE {}
  /\ firstErr' = (~listing /\ Lists(object))
  /\ phase' = "extracted"
  /\ source' = object
  /\ UNCHANGED <<object, stored, listing, evidence>>

\* A later version of the object is stored; its edges are not yet replaced.
Replace(next) ==
  /\ phase = "extracted"
  /\ next.id = object.id /\ next.version # object.version
  /\ object' = next
  /\ phase' = "replaced"
  /\ UNCHANGED <<stored, listing, edges, firstErr, source, evidence>>

----------------------------------------------------------------------------
(* The reader of reference fields.                                         *)

isImpactReference(type) == type \in {"USES_CONFIGMAP", "USES_SECRET", "MOUNTS_VOLUME"}

ImpactPodSpecPath(r) == PodLike(r.id.kind) /\ r.known

\* The paths that ImpactReferenceShape keeps.
makeImpactReferenceShape == ContainerFields \cup {<<"volumes">>, <<"projected">>}

\* As if a value of the wrong type were left out of the projection.
projectImpactValueDropping(refs) ==
  {f \in refs : f.at \in makeImpactReferenceShape /\ f.form = "ok"}

\* A value of another type than the shape's is kept as a null, not left out.
projectImpactValue(refs) == {f \in refs : f.at \in makeImpactReferenceShape}

projectReferenceFields(r) ==
  IF ~ImpactPodSpecPath(r) \/ ~r.raw \/ r.version = ""
  THEN [r EXCEPT !.raw = FALSE, !.refs = {}]
  ELSE [r EXCEPT !.refs = projectImpactValue(r.refs)]

\* The references that containers and volumes visit.
Visited(r) == {f \in r.refs : f.at \in ContainerFields \cup {<<"volumes">>, <<"projected">>}}

malformed(r) == \E f \in Visited(r) : f.form = "bad" \/ f.name = ""

EdgeTypeFor(kind) ==
  CASE kind = "Secret" -> "USES_SECRET"
    [] kind = "PersistentVolumeClaim" -> "MOUNTS_VOLUME"
    [] OTHER -> "USES_CONFIGMAP"

volumeUse(f) ==
  CASE f.at \notin {<<"volumes">>, <<"projected">>} -> "environment"
    [] f.mount = "none" -> "volume_declaration"
    [] f.mount = "subPath" -> "volume_subpath"
    [] OTHER -> "volume_mount"

RefreshOf(f) ==
  CASE f.kind = "PersistentVolumeClaim" -> "storage_dependent"
    [] volumeUse(f) = "environment" -> "container_restart_required"
    [] volumeUse(f) = "volume_subpath" -> "no_automatic_updates"
    [] volumeUse(f) = "volume_mount" -> "eventual_projection"
    [] OTHER -> "unknown"

addUses(r) ==
  {[edge |-> Edge(r, EdgeTypeFor(f.kind), f.kind, r.id.ns, f.name),
    mode |-> volumeUse(f), refresh |-> RefreshOf(f)] : f \in Visited(r)}

parse(r) ==
  CASE r.version = "" -> "missing_source_version"
    [] ~ImpactPodSpecPath(r) -> "unsupported_source_schema"
    [] ~r.raw -> "source_fields_unavailable"
    [] r.rawVersion # r.version -> "source_identity_or_version_mismatch"
    [] malformed(r) -> "malformed_reference_fields"
    [] OTHER -> ""

explain(r, e) ==
  LET uses == {u \in addUses(r) : u.edge = e}
      unknown(reason) == [edge |-> e, status |-> "unknown", reason |-> reason, uses |-> {}]
  IN CASE parse(r) # "" -> unknown(parse(r))
       [] uses = {} -> unknown("reference_not_found_or_not_modeled")
       [] OTHER -> [edge |-> e, status |-> "version_bound", reason |-> "", uses |-> uses]

\* An impact report explains the reference edges the store holds, from the
\* projection of the source the store holds.
Explain ==
  /\ phase \in {"extracted", "replaced"}
  /\ evidence' = {explain(projectReferenceFields(object), e) :
                    e \in {d \in edges : isImpactReference(d.type)}}
  /\ phase' = "explained"
  /\ UNCHANGED <<object, stored, listing, edges, firstErr, source>>

----------------------------------------------------------------------------

Init ==
  /\ object \in Objects
  /\ stored \in SUBSET Population
  /\ listing \in BOOLEAN
  /\ edges = {} /\ firstErr = FALSE /\ source = object
  /\ evidence = {}
  /\ phase = "observed"

Next == ExtractAll \/ (\E next \in Objects : Replace(next)) \/ Explain

Spec == Init /\ [][Next]_vars

\* The target of edge e is named by field f of r.
Names(r, f, e) == f.kind = e.to.kind /\ f.name = e.to.name /\ r.id.ns = e.to.ns

\* The two readings of a pod spec agree (secret.go, configmap.go and volume.go
\* against impact_references.go and impact_reference_projection.go).  What the
\* reader says of the projection is what it would say of the object.  It calls
\* an edge version_bound only if the version it names holds that reference.
\* When the edges are those of that version and the reader gives no reason to
\* refuse the source, every edge is explained but one to a Secret that only
\* imagePullSecrets names, and every Secret and volume claim the reader
\* finds has its edge.
ReferencesAgree ==
  phase = "explained" =>
    \A v \in evidence :
      /\ v = explain(object, v.edge)
      /\ v.status = "version_bound" =>
           \E f \in object.refs : f.form = "ok" /\ Names(object, f, v.edge)
      /\ source = object /\ parse(object) = "" =>
           /\ v.status = "unknown" =>
                /\ v.edge.type = "USES_SECRET"
                /\ \A f \in object.refs : Names(object, f, v.edge) => f.at = <<"imagePullSecrets">>
           /\ \A u \in addUses(object) :
                u.edge.type # "USES_CONFIGMAP" => u.edge \in edges

\* The pods that Kubernetes lets a peer of a policy reach: those whose labels
\* match, in the policy's namespace or in the namespaces that match.
Admitted(r, peer) ==
  {t \in stored :
     /\ PodLike(t.id.kind)
     /\ t.id.cluster = r.id.cluster
     /\ peer.pods # <<>> \/ peer.namespaces # <<>>
     /\ peer.pods # <<>> => peer.pods[1] \subseteq podTemplateMeta(t)
     /\ IF peer.namespaces = <<>> THEN t.id.ns = r.id.ns
        ELSE \E n \in stored : /\ n.id.kind = "Namespace" /\ n.id.name = t.id.ns
                               /\ n.id.cluster = r.id.cluster
                               /\ peer.namespaces[1] \subseteq n.labels}

\* An edge to a Namespace stands for the pods in it.
Reached(type) ==
  {t \in stored : /\ PodLike(t.id.kind)
                  /\ \E e \in edges : /\ e.type = type
                                      /\ \/ e.to = t.id
                                         \/ /\ e.to.kind = "Namespace"
                                            /\ e.to.name = t.id.ns /\ e.to.cluster = t.id.cluster}

\* The ALLOWS_FROM and ALLOWS_TO edges of a NetworkPolicy lead to the pods that
\* Kubernetes would admit, one direction at a time, and to no pod of another
\* cluster (peerEdges and extractPeerEdges in networkpolicy.go); a listing
\* that fails leaves no edge rather than some of them.
PeersAsKubernetes ==
  phase = "extracted" /\ object.id.kind = "NetworkPolicy" =>
    \A d \in {[of |-> "ingress", type |-> "ALLOWS_FROM", policy |-> "Ingress"],
               [of |-> "egress", type |-> "ALLOWS_TO", policy |-> "Egress"]} :
      Reached(d.type) =
        IF listing /\ d.policy \in object.types
        THEN UNION {Admitted(object, p) : p \in {q \in object.peers : q.direction = d.of}}
        ELSE {}

\* Edges mean what Kubernetes means by the fields they were read from: the
\* extractors and the impact reader find the same references in a pod spec, and
\* the peers of a policy are the pods its selectors admit.
EdgesAreMeant == ReferencesAgree /\ PeersAsKubernetes
=============================================================================
