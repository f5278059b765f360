------------------------------- MODULE Cycles ------------------------------
(* DetectCycles (pkg/graph/analysis/cycles.go): Tarjan's algorithm over a      *)
(* snapshot, its components of two or more members classified, against the     *)
(* definition of a strongly connected component.                               *)
EXTENDS Integers, Sequences, SequencesExt, FiniteSets

CONSTANTS
    Count,          \* resources are 1..Count, in the order of the snapshot
    Ghosts,         \* ids an edge may name that have no resource
    Secret          \* the index of the one resource of kind Secret

VARIABLES edges, owners, marked, reports
vars == <<edges, owners, marked, reports>>

Nodes == 1..Count

\* adj: edges that name an unknown resource are skipped.
adj(v) == SetToSortSeq({e[2] : e \in {f \in edges : f[1] = v /\ f[2] \in Nodes}}, <)

\* The fields of type tarjan.
Fresh == [index |-> [v \in Nodes |-> -1], lowlink |-> [v \in Nodes |-> -1], onStack |-> {},
          stack |-> <<>>, counter |-> 0, components |-> {}]

Lower(t, v, n) == IF n < t.lowlink[v] THEN [t EXCEPT !.lowlink[v] = n] ELSE t

\* The stack down to and including v is a component.
PopComponent(t, v) ==
    LET from == CHOOSE i \in DOMAIN t.stack : t.stack[i] = v
        comp == {t.stack[i] : i \in from..Len(t.stack)}
    IN  [t EXCEPT !.stack = SubSeq(t.stack, 1, from - 1), !.onStack = @ \ comp,
                  !.components = @ \cup {comp}]

\* As if a neighbour in a finished component still lowered the link.
OnStackAlways(t, w) == TRUE

OnStack(t, w) == w \in t.onStack

RECURSIVE strongConnect(_, _), Follow(_, _, _)
strongConnect(t, v) ==
    LET entered == [t EXCEPT !.index[v] = t.counter, !.lowlink[v] = t.counter, !.counter = @ + 1,
                             !.stack = Append(@, v), !.onStack = @ \cup {v}]
        walked == Follow(entered, v, adj(v))
    IN  IF walked.lowlink[v] = walked.index[v] THEN PopComponent(walked, v) ELSE walked
Follow(t, v, ws) ==
    IF ws = <<>> THEN t
    ELSE LET w == Head(ws)
             deeper == strongConnect(t, w)
             next == IF t.index[w] = -1 THEN Lower(deeper, v, deeper.lowlink[w])
                     ELSE IF OnStack(t, w) THEN Lower(t, v, t.index[w]) ELSE t
         IN  Follow(next, v, Tail(ws))

\* secretOwnsName, isBootstrapCertCycle, classifyCycle.
secretOwnsName(s, owner) == s = Secret /\ <<s, owner>> \in owners
isBootstrapCertCycle(members) ==
    /\ Cardinality(members) = 2
    /\ \E s, owner \in members : s # owner /\ secretOwnsName(s, owner)
classifyCycle(members) ==
    IF isBootstrapCertCycle(members) THEN "bootstrap-cert"
    ELSE IF members \cap marked # {} THEN "intentional" ELSE "unknown"

Tarjan ==
    LET run[n \in 0..Count] ==
            IF n = 0 THEN Fresh
            ELSE IF run[n - 1].index[n] = -1 THEN strongConnect(run[n - 1], n) ELSE run[n - 1]
    IN  run[Count].components

Init ==
    /\ edges \in SUBSET ({e \in Nodes \X Nodes : e[1] # e[2]} \cup ({1} \X Ghosts))
    /\ owners \in SUBSET {<<Secret, 1>>}
    /\ marked \in SUBSET {Count}
    /\ reports = <<>>

DetectCycles ==
    /\ reports = <<>>
    /\ reports' = <<{[members |-> c, category |-> classifyCycle(c)] :
                      c \in {d \in Tarjan : Cardinality(d) >= 2}}>>
    /\ UNCHANGED <<edges, owners, marked>>

Next == DetectCycles
Spec == Init /\ [][Next]_vars

-----------------------------------------------------------------------------
Live == {e \in edges : e[2] \in Nodes}

\* Reachability among the resources, by composing the edges Count times.
Reach ==
    LET r[n \in 0..Count] ==
            IF n = 0 THEN {<<v, v>> : v \in Nodes}
            ELSE {pq \in Nodes \X Nodes : pq \in r[n - 1] \/
                     \E m \in Nodes : <<pq[1], m>> \in r[n - 1] /\ <<m, pq[2]>> \in Live}
    IN  r[Count]

\* The reports are exactly the classes of two or more resources that all reach
\* each other over edges between stored resources: none missed, none split,
\* none merged, whatever the order of the snapshot; and a pair counts as a
\* certificate bootstrap only when the Secret names the other as its owner.
CyclesAreComponents ==
    reports # <<>> =>
        /\ {r.members : r \in reports[1]} =
               {c \in {{w \in Nodes : {<<v, w>>, <<w, v>>} \subseteq Reach} : v \in Nodes} :
                    Cardinality(c) >= 2}
        /\ \A r \in reports[1] :
               (r.category = "bootstrap-cert") <=>
                   (owners # {} /\ r.members = {Secret, 1})

=============================================================================
