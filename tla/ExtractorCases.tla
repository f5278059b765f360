--------------------------- MODULE ExtractorCases ---------------------------
(* Pods with up to two references, NetworkPolicies with up to two peers and    *)
(* one object of every other kind that an extractor reads.                     *)

Id(cluster, kind, ns, name) == [cluster |-> cluster, kind |-> kind, ns |-> ns, name |-> name]

Blank(id) ==
  [id |-> id, known |-> TRUE, version |-> "1", rawVersion |-> "1", raw |-> TRUE,
   labels |-> {}, template |-> {}, refs |-> {}, selector |-> {}, types |-> {},
   peers |-> {}, matches |-> {}]

Ref(at, kind, name) == [at |-> at, kind |-> kind, ns |-> "", name |-> name, form |-> "ok", mount |-> "none"]

Containers ==
  {"containers", "initContainers", "ephemeralContainers"} \X {"envFrom", "env"}

\* Every place of a pod spec that names a ConfigMap, a Secret or a claim.
PodRefs ==
  {Ref(at, k, "a") : at \in Containers \cup {<<"volumes">>, <<"projected">>}, k \in {"ConfigMap", "Secret"}}
  \cup {[Ref(<<"volumes">>, k, "a") EXCEPT !.mount = m] :
          k \in {"Secret", "PersistentVolumeClaim"}, m \in {"mount", "subPath"}}
  \cup {Ref(<<"imagePullSecrets">>, "Secret", n) : n \in {"a", "b"}}
  \cup {Ref(<<"containers", "env">>, "Secret", ""), [Ref(<<"volumes">>, "ConfigMap", "a") EXCEPT !.form = "bad"]}

Pods ==
  {[Blank(Id("east", "Pod", "shop", "p")) EXCEPT !.refs = s] :
     s \in {{}} \cup {{f, g} : f \in PodRefs, g \in PodRefs}}
  \cup {[Blank(Id("east", "Pod", "shop", "p")) EXCEPT !.refs = {f}, !.version = "2", !.rawVersion = "2"] :
          f \in PodRefs}
  \cup {[Blank(Id("east", "Pod", "shop", "p")) EXCEPT !.rawVersion = "0"],
        [Blank(Id("east", "Pod", "shop", "p")) EXCEPT !.version = ""],
        [Blank(Id("east", "Job", "shop", "p")) EXCEPT !.known = FALSE, !.refs = PodRefs]}

Peer(direction, pods, namespaces) == [direction |-> direction, pods |-> pods, namespaces |-> namespaces]

Selectors == {<<>>, <<{}>>, <<{"x=1"}>>}

Policies ==
  {[Blank(Id("east", "NetworkPolicy", "shop", "np")) EXCEPT !.peers = {Peer("ingress", s, n), q}, !.types = t] :
     s \in Selectors, n \in Selectors,
     q \in {Peer("egress", <<{}>>, <<>>), Peer("ingress", <<>>, <<{"x=1"}>>)},
     t \in {{"Ingress"}, {"Ingress", "Egress"}}}

Match == [kinds |-> {"Pod"}, namespaces |-> {"shop"}, labels |-> {"x=1"}, validate |-> TRUE]

Others ==
  {[Blank(Id("east", "Ingress", "shop", "i")) EXCEPT !.refs = {Ref(<<"paths">>, "Service", "s"), Ref(<<"tls">>, "Secret", "a")}],
   [Blank(Id("east", "HTTPRoute", "shop", "h")) EXCEPT !.refs = {Ref(<<"backendRefs">>, "", "s"), Ref(<<"parentRefs">>, "", "g")}],
   [Blank(Id("east", "Route", "shop", "o")) EXCEPT !.refs = {Ref(<<"to">>, "", "s")}],
   [Blank(Id("east", "Gateway", "shop", "g")) EXCEPT !.refs = {Ref(<<"certificateRefs">>, "", "a")}],
   [Blank(Id("east", "ServiceAccount", "shop", "sa")) EXCEPT
      !.refs = {Ref(<<"secrets">>, "Secret", "a"), Ref(<<"iam.gke.io/gcp-service-account">>, "", "x")}],
   [Blank(Id("east", "RoleBinding", "shop", "rb")) EXCEPT
      !.refs = {Ref(<<"subjects">>, "ServiceAccount", "sa"), Ref(<<"roleRef">>, "Role", "r")}],
   [Blank(Id("east", "HorizontalPodAutoscaler", "shop", "hpa")) EXCEPT !.refs = {Ref(<<"scaleTargetRef">>, "Job", "p")}],
   [Blank(Id("east", "Service", "shop", "s")) EXCEPT !.selector = {"x=1"}],
   [Blank(Id("east", "Constraint", "", "c")) EXCEPT !.matches = {Match}],
   [Blank(Id("east", "Policy", "shop", "k")) EXCEPT !.matches = {Match}]}

ExtractorObjects == Pods \cup Policies \cup Others

ExtractorPopulation ==
  {[Blank(Id("east", "Pod", "shop", "one")) EXCEPT !.labels = {"x=1"}],
   [Blank(Id("east", "Job", "core", "two")) EXCEPT !.template = {"x=1"}],
   [Blank(Id("west", "Pod", "core", "three")) EXCEPT !.labels = {"x=1"}],
   [Blank(Id("east", "Namespace", "", "core")) EXCEPT !.labels = {"x=1"}],
   Blank(Id("east", "Namespace", "", "shop"))}

=============================================================================
