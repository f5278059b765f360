----------------------------- MODULE ReadCases -----------------------------
(* A Deployment, its ReplicaSet, two Pods and what they use; one resource in   *)
(* another namespace and cluster.                                              *)

Arc(f, t, ty) == [from |-> f, to |-> t, type |-> ty]

ReadIds == {"web", "rs", "pod", "svc", "cfg", "far", "acct", "bind", "bind2", "reader", "netpol",
          "policy", "limit"}
ReadKindOf == [web |-> "Deployment", rs |-> "ReplicaSet", pod |-> "Pod", svc |-> "Service",
             cfg |-> "ConfigMap", far |-> "ConfigMap", acct |-> "ServiceAccount",
             bind |-> "RoleBinding", bind2 |-> "RoleBinding", reader |-> "Role",
             netpol |-> "NetworkPolicy", policy |-> "ClusterPolicy", limit |-> "K8sLimit"]
ReadEngines == [ClusterPolicy |-> "kyverno", K8sLimit |-> "gatekeeper"]
ReadNamespaceOf == [id \in ReadIds |-> IF id = "far" THEN "core" ELSE "shop"]
ReadClusterOf == [id \in ReadIds |-> IF id = "far" THEN "west" ELSE "east"]
ReadOwnerOf == [id \in ReadIds |-> IF id = "rs" THEN "web" ELSE IF id = "pod" THEN "rs" ELSE "nobody"]

ReadRequests ==
    {[handler |-> "workload", root |-> "web", ids |-> {"web", "rs", "pod", "far"},
      arcs |-> {Arc("rs", "web", "OWNS"), Arc("pod", "rs", "OWNS"), Arc("pod", "far", "USES_CONFIGMAP")}],
     [handler |-> "resource", root |-> "pod", ids |-> {"rs", "pod", "svc", "cfg"},
      arcs |-> {Arc("pod", "rs", "OWNS"), Arc("svc", "pod", "SELECTS"), Arc("pod", "cfg", "USES_CONFIGMAP")}],
     [handler |-> "namespace", root |-> "shop", ids |-> {"web", "rs", "pod", "svc"},
      arcs |-> {Arc("rs", "web", "OWNS"), Arc("pod", "rs", "OWNS"), Arc("svc", "pod", "SELECTS")}],
     [handler |-> "cluster", root |-> "all", ids |-> {"pod", "cfg", "far"},
      arcs |-> {Arc("pod", "cfg", "USES_CONFIGMAP"), Arc("pod", "far", "USES_CONFIGMAP")}],
     [handler |-> "federated", root |-> "all", clusters |-> {"east", "west"}, ids |-> {"pod", "far"},
      arcs |-> {Arc("pod", "far", "USES_CONFIGMAP")}],
     [handler |-> "members", root |-> "all", clusters |-> {"east"}, ids |-> {"pod", "far"},
      arcs |-> {Arc("pod", "far", "USES_CONFIGMAP")}]}
    \cup
    {[handler |-> h, root |-> IF h = "subject" THEN "acct" ELSE "reader",
      ids |-> {"acct", "bind", "bind2", "reader"},
      arcs |-> {Arc("bind", "acct", "BINDS_SUBJECT"), Arc("bind2", "acct", "BINDS_SUBJECT"),
                Arc("bind", "reader", "BINDS_ROLE"), Arc("bind", "other", "BINDS_ROLE")}] :
        h \in {"subject", "role"}}
    \cup
    {[handler |-> h, root |-> "netpol", ids |-> {"netpol", "pod", "web"},
      arcs |-> {Arc("netpol", "pod", "SELECTS_NP"), Arc("netpol", "pod", "ALLOWS_FROM"),
                Arc("netpol", "web", "ALLOWS_FROM"), Arc("netpol", "web", "ALLOWS_TO")}] :
        h \in {"selected", "allow"}}
    \cup
    {[handler |-> h, root |-> "policy", ids |-> {"policy", "limit", "pod"},
      arcs |-> {Arc("policy", "pod", "ENFORCES"), Arc("limit", "pod", "ENFORCES")}] :
        h \in {"affected", "constraints"}}
    \cup
    {[handler |-> h, root |-> r, ids |-> {"rs", "pod", "far"},
      arcs |-> {Arc("pod", "rs", "OWNS"), Arc("rs", "far", "USES_CONFIGMAP"), Arc("far", "rs", "OWNS")}] :
        h \in {"orphans", "diagnose"}, r \in {"all", "shop"}}
    \cup
    {[handler |-> h, root |-> "rs", ids |-> {"rs", "pod", "web"},
      arcs |-> {Arc("pod", "rs", "OWNS"), Arc("rs", "web", "OWNS"), Arc("web", "rs", "USES_CONFIGMAP")}] :
        h \in {"detail", "blast"}}
=============================================================================
