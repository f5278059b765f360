--------------------------- MODULE AnalysisCases ---------------------------
(* Two projections: a small graph with cycles, a missing resource, a foreign   *)
(* one and owner references of every status; and an authorization graph with   *)
(* shared roles, a second role, a second account and a user.                   *)
EXTENDS Integers, FiniteSets

AnalysisKindOf ==
  <<"ConfigMap", "Deployment", "Pod", "Service", "Pod",
    "Role", "ClusterRole", "RoleBinding", "RoleBinding", "ServiceAccount", "ServiceAccount",
    "Pod", "Deployment", "User">>
AnalysisNamespaceOf == [i \in 1 .. 14 |-> IF i \in {7, 14} THEN "" ELSE IF i = 9 THEN "core" ELSE "shop"]
AnalysisUidOf == [i \in 1 .. 14 |-> IF i = 4 THEN "" ELSE "u"]

Fact(from, to, type, uids) == [from |-> from, to |-> to, type |-> type, refUids |-> uids]

OrdinaryEdges ==
  {Fact(2, 1, "USES_CONFIGMAP", {}), Fact(3, 1, "USES_CONFIGMAP", {}), Fact(3, 2, "OWNS", {"u"}),
   Fact(3, 2, "OWNS", {"", "old"}), Fact(4, 3, "SELECTS", {}), Fact(2, 4, "OWNS", {""}),
   Fact(1, 4, "ROUTES_TO", {}), Fact(5, 1, "SELECTS", {}), Fact(2, 1, "CALLS_AT_RUNTIME", {})}

AuthorizationEdges ==
  {Fact(8, 6, "BINDS_ROLE", {}), Fact(8, 7, "BINDS_ROLE", {}), Fact(9, 7, "BINDS_ROLE", {}),
   Fact(8, 10, "BINDS_SUBJECT", {}), Fact(9, 10, "BINDS_SUBJECT", {}), Fact(9, 11, "BINDS_SUBJECT", {}),
   Fact(9, 14, "BINDS_SUBJECT", {}), Fact(12, 10, "USES_SERVICEACCOUNT", {}),
   Fact(13, 10, "USES_SERVICEACCOUNT", {}), Fact(13, 11, "USES_SERVICEACCOUNT", {})}

AnalysisForeign == {5}

AnalysisRequests ==
  {[relation |-> r, expectedUID |-> "", maxDepth |-> d, limit |-> l] :
     r \in {"dependents", "dependencies"}, d \in {1, 3}, l \in {2, 9}}
  \cup {[relation |-> "dependents", expectedUID |-> u, maxDepth |-> 2, limit |-> 1] : u \in {"u", "x"}}

OneOwner(edges_) == Cardinality({e \in edges_ : e.type = "OWNS" /\ e.from = 3}) <= 1

\* The walk of the authorization facet does not depend on the relation.
AnalysisInputs ==
  [resources : {1 .. 4, 1 .. 3}, edges : {s \in SUBSET OrdinaryEdges : OneOwner(s)},
   root : {1, 4}, opts : AnalysisRequests]
  \cup
  [resources : {6 .. 13}, edges : SUBSET AuthorizationEdges, root : {7, 8, 9, 10, 12, 13},
   opts : {o \in AnalysisRequests : o.relation = "dependents" /\ o.expectedUID = "" /\ o.maxDepth = 3}]
=============================================================================
