----------------------------- MODULE Correlator -----------------------------
(* pkg/otel/correlator.go, pkg/otel/retention.go and the tables behind them    *)
(* (pkg/store/postgres/otel.go): spans arrive, also twice; passes of the       *)
(* correlator read a window of them and fold the calls they show into runtime  *)
(* edges; both tables are pruned.                                              *)
EXTENDS Integers, Sequences, FiniteSets, SequencesExt, FiniteSetsExt

CONSTANTS
    Spans,        \* the spans there are: [id, parent, service, ns, dep, pod, start]
    Resources,    \* resource ids <<namespace, kind, name>> the graph may hold
    Window, Retention, Limit, Batch,   \* lookback, retention, maxCorrelateSpans, prune batch
    MaxClock, MaxFaults, MaxWrites     \* bounds

VARIABLES
    clock,
    present,   \* the resources in the graph
    table,     \* otel_spans: the stored spans, with received_at
    edges,     \* otel_runtime_edges: (from, to) -> first, last, count
    pass,      \* the pass under way, or the last one
    prune,     \* the cutoff of the retention sweep under way, -1 between sweeps
    everStored,\* spans stored at some time
    writes, faults

vars == <<clock, present, table, edges, pass, prune, everStored, writes, faults>>

None == ""

Init ==
    /\ clock = 0 /\ present \in SUBSET Resources
    /\ table = <<>> /\ edges = <<>>
    /\ pass = [at |-> "idle", now |-> 0, spans |-> {}, next |-> 0] /\ prune = -1
    /\ everStored = {} /\ writes = 0 /\ faults = 0

-----------------------------------------------------------------------------
(* One pass over a set of spans. *)

SpanById(spans, id) == {s \in spans : s.id = id}

\* inferCalls: a parent in the batch, of another, named service.
InferCalls(spans) ==
    {c \in spans \X spans :
        /\ c[2].parent # None /\ c[1] \in SpanById(spans, c[2].parent)
        /\ c[1].service # None /\ c[2].service # None /\ c[1].service # c[2].service}

\* The ids a span may have run as, best first.
Candidates(s) ==
    IF s.ns = None THEN <<>>
    ELSE (IF s.dep = None THEN <<>> ELSE <<<<s.ns, "Deployment", s.dep>>>>)
         \o (IF s.pod = None THEN <<>> ELSE <<<<s.ns, "Pod", s.pod>>>>)
         \o (IF s.service = None THEN <<>>
             ELSE [i \in 1..4 |-> <<s.ns, <<"Deployment", "StatefulSet", "DaemonSet", "Service">>[i],
                                    s.service>>])

\* buildResolver lists the namespaces of the batch.
BuildResolver(spans) == {r \in present : \E s \in spans : s.ns # None /\ s.ns = r[1]}

Resolved(s, ids) == SelectSeq(Candidates(s), LAMBDA r : r \in ids)

\* correlate: the calls between two resolved, different resources, folded per
\* pair of them.
Endpoints(c, ids) == <<Resolved(c[1], ids)[1], Resolved(c[2], ids)[1]>>

Attributed(spans) ==
    LET ids == BuildResolver(spans) IN
    {c \in InferCalls(spans) : /\ Resolved(c[1], ids) # <<>> /\ Resolved(c[2], ids) # <<>>
                               /\ Endpoints(c, ids)[1] # Endpoints(c, ids)[2]}

Correlate(spans) ==
    LET calls == Attributed(spans)
        ids == BuildResolver(spans)
    IN  [p \in {Endpoints(c, ids) : c \in calls} |->
            LET starts == {<<c[2].id, c[2].start>> : c \in {d \in calls : Endpoints(d, ids) = p}}
            IN  [first |-> Min({x[2] : x \in starts}), last |-> Max({x[2] : x \in starts}),
                 count |-> Cardinality(starts)]]

-----------------------------------------------------------------------------
(* The tables. *)

\* WriteSpans: a span sent again keeps the received_at of its row.
WriteSpans(batch) ==
    /\ writes < MaxWrites /\ writes' = writes + 1
    /\ \A s \in batch : s.start <= clock
    /\ table' = [s \in DOMAIN table \cup batch |-> IF s \in DOMAIN table THEN table[s] ELSE clock]
    /\ everStored' = everStored \cup batch
    /\ UNCHANGED <<clock, present, edges, pass, prune, faults>>

\* QuerySpans: the newest of the window, by start time.
QuerySpans(since) ==
    LET window == {s \in DOMAIN table : s.start >= since} IN
    {found \in SUBSET window :
        /\ Cardinality(found) = IF Cardinality(window) > Limit THEN Limit ELSE Cardinality(window)
        /\ \A s \in found, t \in window \ found : s.start >= t.start}

\* As if a pass added its count to the row's.
FoldSumming(old, new) ==
    [first |-> Min({old.first, new.first}), last |-> Max({old.last, new.last}),
     count |-> old.count + new.count]

\* UpsertRuntimeEdges: LEAST, GREATEST and GREATEST.
Fold(old, new) ==
    [first |-> Min({old.first, new.first}), last |-> Max({old.last, new.last}),
     count |-> Max({old.count, new.count})]

UpsertRuntimeEdges(new) ==
    [p \in DOMAIN edges \cup DOMAIN new |->
        IF p \notin DOMAIN new THEN edges[p]
        ELSE IF p \notin DOMAIN edges THEN new[p] ELSE Fold(edges[p], new[p])]

DeleteOldRuntimeEdges(cutoff) ==
    [p \in {q \in DOMAIN edges : edges[q].last >= cutoff} |-> edges[p]]

-----------------------------------------------------------------------------
(* Correlator.Start and runOnce. *)

Fault == faults < MaxFaults /\ faults' = faults + 1

\* A tick: the window is fixed and the spans are read.
Query ==
    /\ pass.at = "idle" /\ pass.next <= clock
    /\ \/ \E found \in QuerySpans(clock - Window) :
             /\ pass' = [at |-> "upsert", now |-> clock, spans |-> found, next |-> clock + 1]
             /\ UNCHANGED faults
       \/ Fault /\ pass' = [pass EXCEPT !.next = clock + 1]
    /\ UNCHANGED <<clock, present, table, edges, prune, everStored, writes>>

Upsert ==
    /\ pass.at = "upsert"
    /\ \/ edges' = UpsertRuntimeEdges(Correlate(pass.spans)) /\ UNCHANGED faults
       \/ Fault /\ UNCHANGED edges
    /\ pass' = [pass EXCEPT !.at = "prune", !.spans = {}]
    /\ UNCHANGED <<clock, present, table, prune, everStored, writes>>

PruneEdges ==
    /\ pass.at = "prune"
    /\ \/ edges' = DeleteOldRuntimeEdges(pass.now - Retention) /\ UNCHANGED faults
       \/ Fault /\ UNCHANGED edges
    /\ pass' = [pass EXCEPT !.at = "idle"]
    /\ UNCHANGED <<clock, present, table, prune, everStored, writes>>

\* SpanRetainer.pruneOnce: the cutoff, then batches until one is not full.
BeginPrune ==
    /\ prune = -1 /\ \E s \in DOMAIN table : table[s] < clock - Retention
    /\ prune' = clock - Retention
    /\ UNCHANGED <<clock, present, table, edges, pass, everStored, writes, faults>>

DeleteOldSpans ==
    /\ prune # -1
    /\ LET old == {s \in DOMAIN table : table[s] < prune} IN
       \/ /\ \E gone \in SUBSET old :
                /\ Cardinality(gone) = IF Cardinality(old) > Batch THEN Batch ELSE Cardinality(old)
                /\ table' = [s \in DOMAIN table \ gone |-> table[s]]
                /\ prune' = IF Cardinality(gone) < Batch THEN -1 ELSE prune
          /\ UNCHANGED faults
       \/ Fault /\ prune' = -1 /\ UNCHANGED table
    /\ UNCHANGED <<clock, present, edges, pass, everStored, writes>>

\* A tick of the interval passes only once the pass it started has been taken.
Tick ==
    /\ clock < MaxClock /\ pass.next > clock
    /\ clock' = clock + 1
    /\ UNCHANGED <<present, table, edges, pass, prune, everStored, writes, faults>>

Next ==
    \/ \E s, t \in Spans : WriteSpans({s, t})
    \/ Query \/ Upsert \/ PruneEdges \/ BeginPrune \/ DeleteOldSpans \/ Tick

Spec == Init /\ [][Next]_vars

-----------------------------------------------------------------------------
(* Properties. *)

\* What a runtime edge says was observed: its times are start times of calls
\* between its two resources, and its count never exceeds the number of such
\* calls, however often passes see the same spans (the windows overlap), spans
\* are sent again or a pass fails half way.
EdgesAreCalls ==
    \A p \in DOMAIN edges :
        LET calls == {c \in Attributed(everStored) : Endpoints(c, BuildResolver(everStored)) = p}
            starts == {c[2].start : c \in calls}
        IN  /\ {edges[p].first, edges[p].last} \subseteq starts
            /\ edges[p].first <= edges[p].last
            /\ edges[p].count \in 1..Cardinality({c[2] : c \in calls})

=============================================================================
