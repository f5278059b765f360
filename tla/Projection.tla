----------------------------- MODULE Projection -----------------------------
(* Bounded reads of a store: SnapshotImpact and ReadHistoryEvents of both       *)
(* backends with the builders of pkg/graph/impact_snapshot.go and               *)
(* history_events.go.  Rows are read one by one against a limit on their number *)
(* and a byte budget, while writers go on.  The in-memory store holds its read  *)
(* lock; PostgreSQL reads one snapshot and asks for one row more than it may    *)
(* return.                                                                      *)
EXTENDS Integers, FiniteSets

CONSTANTS
    Rows,       \* rows of all tables, events in the order of (ts, id)
    Scope,      \* those of the cluster (and namespace, and window) asked for
    Size,       \* row -> bytes of its text fields
    Max,        \* MaxResources, MaxEdges, Limit
    MaxBytes,   \* MaxBytes
    MaxWrites   \* bound on writes during a read

Parts == {"resources", "edges", "events"}

ASSUME ProjectionAssumption ==
    /\ Rows \subseteq Nat /\ IsFiniteSet(Rows) /\ Scope \subseteq Rows
    /\ Size \in [Rows -> Nat]
    /\ Max \in [Parts -> Nat \ {0}] /\ MaxBytes \in Nat \ {0} /\ MaxWrites \in Nat

VARIABLES
    stored,     \* table -> rows
    seen,       \* every state of the tables during the read
    writes,     \* writes since then
    backend,
    kind,       \* graph: SnapshotImpact; page: ReadHistoryEvents
    phase,      \* the table being read; idle, done, failed
    snap,       \* what the read is a read of
    todo,       \* rows still to be delivered
    got,        \* Graph, Page.Events
    remaining,  \* of the byte budget
    truncated   \* Page.Truncated

vars == <<stored, seen, writes, backend, kind, phase, snap, todo, got, remaining, truncated>>

Empty == [p \in Parts |-> {}]
InScope(table, p) == table[p] \cap Scope

Init ==
    /\ stored \in [Parts -> SUBSET Rows] /\ seen = {stored} /\ writes = 0
    /\ backend \in {"memory", "postgres"} /\ kind \in {"graph", "page"}
    /\ phase = "idle" /\ snap = stored /\ todo = {} /\ got = Empty
    /\ remaining = MaxBytes /\ truncated = FALSE

\* Under the read lock of the in-memory store there are none.
Write(p, row) ==
    /\ phase \in Parts /\ backend = "postgres"
    /\ writes < MaxWrites /\ writes' = writes + 1
    /\ stored' = [stored EXCEPT ![p] = IF row \in @ THEN @ \ {row} ELSE @ \cup {row}]
    /\ seen' = seen \cup {stored'}
    /\ UNCHANGED <<backend, kind, phase, snap, todo, got, remaining, truncated>>

\* Rows in any order, but events from the oldest on.
Before(p, x, y) == p = "events" => x < y

\* As if no more rows were asked for than may be returned.
FetchNoMore(p, table) ==
    LET all == InScope(table, p) IN
    IF backend = "memory" \/ Cardinality(all) <= Max[p] THEN {all}
    ELSE {S \in SUBSET all : /\ Cardinality(S) = Max[p]
                             /\ \A x \in S, y \in all \ S : Before(p, x, y)}

\* What a table delivers: all rows in memory, and Max + 1 from the SELECT.
Fetch(p, table) ==
    LET all == InScope(table, p) IN
    IF backend = "memory" \/ Cardinality(all) <= Max[p] THEN {all}
    ELSE {S \in SUBSET all : /\ Cardinality(S) = Max[p] + 1
                             /\ \A x \in S, y \in all \ S : Before(p, x, y)}

Begin ==
    /\ phase = "idle"
    /\ phase' = IF kind = "graph" THEN "resources" ELSE "events"
    /\ todo' \in Fetch(phase', stored)
    /\ UNCHANGED <<stored, seen, writes, backend, kind, snap, got, remaining, truncated>>

Overhead(p) == IF p = "edges" THEN 96 ELSE 512

\* charge, and the same sums in HistoryEventPageBuilder.Add: the division comes
\* before the multiplication.
Affordable(p, row) ==
    /\ Overhead(p) <= remaining
    /\ Size[row] <= (remaining - Overhead(p)) \div 6

Charge(p, row) == remaining - Overhead(p) - 6 * Size[row]

\* AddResource, AddEdge, Add.
Add(row) ==
    /\ phase \in Parts /\ row \in todo
    /\ \A other \in todo \ {row} : Before(phase, row, other)
    /\ Cardinality(got[phase]) # Max[phase] /\ Affordable(phase, row)
    /\ got' = [got EXCEPT ![phase] = @ \cup {row}]
    /\ todo' = todo \ {row}
    /\ remaining' = Charge(phase, row)
    /\ UNCHANGED <<stored, seen, writes, backend, kind, phase, snap, truncated>>

\* A graph that would be cut is refused; a page says that it is.
LimitReached(row) ==
    /\ phase \in Parts /\ row \in todo
    /\ Cardinality(got[phase]) = Max[phase]
    /\ phase' = IF phase = "events" THEN "done" ELSE "failed"
    /\ truncated' = (phase = "events")
    /\ UNCHANGED <<stored, seen, writes, backend, kind, snap, todo, got, remaining>>

BudgetExceeded(row) ==
    /\ phase \in Parts /\ row \in todo
    /\ Cardinality(got[phase]) # Max[phase] /\ ~Affordable(phase, row)
    /\ phase' = "failed"
    /\ UNCHANGED <<stored, seen, writes, backend, kind, snap, todo, got, remaining, truncated>>

\* The edges follow the resources, in the same transaction or under the same lock.
NextTable ==
    /\ phase \in Parts /\ todo = {}
    /\ IF phase = "resources" THEN phase' = "edges" /\ todo' \in Fetch("edges", snap)
       ELSE phase' = "done" /\ todo' = {}
    /\ UNCHANGED <<stored, seen, writes, backend, kind, snap, got, remaining, truncated>>

\* The context ends, or the database fails.
Abort ==
    /\ phase \in Parts /\ phase' = "failed"
    /\ UNCHANGED <<stored, seen, writes, backend, kind, snap, todo, got, remaining, truncated>>

Next ==
    \/ \E p \in Parts, row \in Rows : Write(p, row)
    \/ Begin
    \/ \E row \in Rows : Add(row) \/ LimitReached(row) \/ BudgetExceeded(row)
    \/ NextTable \/ Abort

Spec == Init /\ [][Next]_vars

-----------------------------------------------------------------------------
(* Properties. *)

Whole(table) == \A p \in {"resources", "edges"} : got[p] = InScope(table, p)

\* A page is the beginning of what was asked for, and says whether it is all.
Page(table) ==
    LET all == InScope(table, "events") IN
    /\ got["events"] \subseteq all
    /\ \A x \in got["events"], y \in all \ got["events"] : x < y
    /\ truncated <=> got["events"] # all

\* "All budgets fail closed, never truncate" (ImpactSnapshotOptions) and "one
\* extra matching row establishes truncation" (HistoryEventPageBuilder): a
\* projection that is returned is all of the cluster, resources and edges as
\* they were together at one moment of the read; a page is its oldest events,
\* marked truncated exactly when there are more; and the budget is never
\* overdrawn.
ReadsAreWhole ==
    /\ remaining >= 0
    /\ phase = "done" => \E table \in seen : IF kind = "graph" THEN Whole(table) ELSE Page(table)
=============================================================================
