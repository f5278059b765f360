-------------------------- MODULE ProjectionProofs --------------------------
(* ReadsAreWhole for all tables, limits and budgets.  A read cannot tell that   *)
(* it is whole from what it got; the invariant says why it may: what it got and *)
(* what is still to come is either all there is or too much to be returned.     *)
EXTENDS Projection, FiniteSetTheorems, TLAPS

All == InScope(snap, phase)

Reading ==
    /\ phase \in (IF kind = "graph" THEN {"resources", "edges"} ELSE {"events"})
    /\ todo \subseteq All /\ got[phase] \subseteq All /\ todo \cap got[phase] = {}
    /\ Cardinality(got[phase]) <= Max[phase]
    /\ got[phase] \cup todo = All \/ Cardinality(got[phase] \cup todo) > Max[phase]
    /\ phase = "edges" => got["resources"] = InScope(snap, "resources")
    /\ phase = "resources" => got["edges"] = {}
    /\ phase = "events" => /\ \A x \in got["events"], y \in All \ got["events"] : x < y
                           /\ \A x \in todo, y \in All \ (got["events"] \cup todo) : x < y
                           /\ truncated = FALSE

\* The inductive invariant.
Inv ==
    /\ snap \in [Parts -> SUBSET Rows] /\ stored \in [Parts -> SUBSET Rows]
    /\ snap \in seen
    /\ kind \in {"graph", "page"} /\ backend \in {"memory", "postgres"}
    /\ got \in [Parts -> SUBSET Rows] /\ todo \subseteq Rows
    /\ remaining \in Nat
    /\ phase \in Parts \cup {"idle", "done", "failed"}
    /\ phase = "idle" => snap = stored /\ got = Empty /\ truncated = FALSE /\ todo = {}
    /\ phase \in Parts => Reading
    /\ phase = "done" => IF kind = "graph" THEN Whole(snap) ELSE Page(snap)

\* Dividing before multiplying charges exactly what the row costs: a charge that
\* is accepted leaves the budget non-negative (ImpactProjectionBuilder.charge).
LEMMA ChargeIsExact ==
    ASSUME NEW r \in Nat, NEW size \in Nat
    PROVE  size <= r \div 6 <=> 6 * size <= r
<1>1. /\ r \div 6 \in Nat /\ 6 * (r \div 6) <= r /\ r < 6 * (r \div 6) + 6
  OBVIOUS
<1> QED BY <1>1

\* Init establishes the invariant.
LEMMA InitInv == Init => Inv
<1> SUFFICES ASSUME Init PROVE Inv
  OBVIOUS
<1> USE ProjectionAssumption DEF Init, Inv
<1>1. MaxBytes \in Nat
  OBVIOUS
<1>2. got \in [Parts -> SUBSET Rows]
  BY DEF Empty
<1> QED BY <1>1, <1>2 DEF Parts

\* Rows are finite, and so is every part of them.
LEMMA Finite == \A S \in SUBSET Rows : IsFiniteSet(S) /\ Cardinality(S) \in Nat
BY ProjectionAssumption, FS_Subset, FS_CardinalityType

\* What a table delivers is all there is or more than may be returned, and
\* events are the oldest (FetchNoMore breaks this).
LEMMA FetchEnough ==
    ASSUME NEW p \in Parts, NEW table \in [Parts -> SUBSET Rows], NEW S \in Fetch(p, table)
    PROVE  /\ S \subseteq InScope(table, p) /\ S \subseteq Rows
           /\ S = InScope(table, p) \/ Cardinality(S) > Max[p]
           /\ p = "events" => \A x \in S, y \in InScope(table, p) \ S : x < y
<1> DEFINE all == InScope(table, p)
<1>1. all \subseteq Rows /\ Max[p] \in Nat
  BY ProjectionAssumption DEF InScope
<1>2. CASE backend = "memory" \/ Cardinality(all) <= Max[p]
  BY <1>1, <1>2 DEF Fetch
<1>3. CASE ~(backend = "memory" \/ Cardinality(all) <= Max[p])
  <2>1. S \subseteq all /\ Cardinality(S) = Max[p] + 1 /\ \A x \in S, y \in all \ S : Before(p, x, y)
    BY <1>3 DEF Fetch
  <2> QED BY <1>1, <2>1 DEF Before
<1> QED BY <1>2, <1>3

\* Begin: the first table of the read.
LEMMA BeginInv == Inv /\ Begin => Inv'
<1> SUFFICES ASSUME Inv, Begin PROVE Inv'
  OBVIOUS
<1> DEFINE p == IF kind = "graph" THEN "resources" ELSE "events"
<1>1. phase' = p /\ p \in Parts /\ snap = stored /\ got = Empty /\ truncated = FALSE
  BY DEF Inv, Begin, Parts
<1>2. todo' \in Fetch(p, stored) /\ stored \in [Parts -> SUBSET Rows]
  BY <1>1 DEF Begin, Inv
<1>3. /\ todo' \subseteq InScope(snap, p) /\ todo' \subseteq Rows
      /\ todo' = InScope(snap, p) \/ Cardinality(todo') > Max[p]
      /\ p = "events" => \A x \in todo', y \in InScope(snap, p) \ todo' : x < y
  BY <1>1, <1>2, FetchEnough
<1>4. UNCHANGED <<stored, seen, writes, backend, kind, snap, got, remaining, truncated>>
  BY DEF Begin
<1>5. \A q \in Parts : got[q] = {}
  BY <1>1 DEF Empty
<1>6. Max[p] \in Nat /\ Cardinality({}) = 0
  BY <1>1, ProjectionAssumption, FS_EmptySet
<1>7. InScope(snap, phase)' = InScope(snap, p)
  BY <1>1, <1>4 DEF InScope
<1>8. Reading'
  <2>1. got'[phase'] = {}
    BY <1>1, <1>4, <1>5
  <2>2. got'[phase'] \cup todo' = todo'
    BY <2>1
  <2> QED BY <1>1, <1>3, <1>4, <1>5, <1>6, <1>7, <2>1, <2>2 DEF Reading, All, Parts
<1> QED BY <1>1, <1>3, <1>4, <1>8 DEF Inv, Parts

\* Add: one row moves from what is to come to what was got.
LEMMA AddInv == ASSUME NEW row \in Rows PROVE Inv /\ Add(row) => Inv'
<1> SUFFICES ASSUME Inv, Add(row) PROVE Inv'
  OBVIOUS
<1>1. /\ phase \in Parts /\ row \in todo /\ Reading
      /\ got' = [got EXCEPT ![phase] = @ \cup {row}] /\ todo' = todo \ {row}
      /\ UNCHANGED <<stored, seen, writes, backend, kind, phase, snap, truncated>>
  BY DEF Add, Inv
<1>2. got[phase] \subseteq Rows /\ Cardinality(got[phase]) \in Nat /\ IsFiniteSet(got[phase])
  BY <1>1, Finite DEF Inv
<1>3. got'[phase] = got[phase] \cup {row} /\ \A q \in Parts \ {phase} : got'[q] = got[q]
  BY <1>1 DEF Inv
<1>4. Cardinality(got'[phase]) <= Max[phase]
  <2>1. row \notin got[phase] /\ Cardinality(got[phase]) # Max[phase] /\ Cardinality(got[phase]) <= Max[phase]
    BY <1>1 DEF Reading, Add
  <2>2. Cardinality(got[phase] \cup {row}) = Cardinality(got[phase]) + 1
    BY <1>2, <2>1, FS_AddElement
  <2>3. Max[phase] \in Nat
    BY <1>1, ProjectionAssumption
  <2>4. Cardinality(got[phase]) + 1 <= Max[phase]
    BY <1>2, <2>1, <2>3
  <2> QED BY <1>3, <2>2, <2>4
<1>5. got'[phase] \cup todo' = got[phase] \cup todo
  BY <1>1, <1>3
<1>6. remaining' \in Nat
  <2> DEFINE left == remaining - Overhead(phase)
  <2>1. left \in Nat /\ Size[row] \in Nat /\ Size[row] <= left \div 6 /\ remaining' = left - 6 * Size[row]
    BY <1>1, ProjectionAssumption DEF Add, Affordable, Charge, Overhead, Inv
  <2> HIDE DEF left
  <2>2. 6 * Size[row] <= left
    BY <2>1, ChargeIsExact
  <2> QED BY <2>1, <2>2
<1>7. All' = All /\ row \in All
  BY <1>1 DEF All, InScope, Reading
<1>8. Reading'
  <2>1. phase = "events" =>
          /\ \A x \in got'["events"], y \in All \ got'["events"] : x < y
          /\ \A x \in todo', y \in All \ (got'["events"] \cup todo') : x < y
    <3> SUFFICES ASSUME phase = "events" PROVE
          /\ \A x \in got'["events"], y \in All \ got'["events"] : x < y
          /\ \A x \in todo', y \in All \ (got'["events"] \cup todo') : x < y
      OBVIOUS
    <3>1. \A y \in All \ (got["events"] \cup {row}) : row < y
      <4>1. \A other \in todo \ {row} : row < other
        BY DEF Add, Before
      <4>2. \A y \in All \ (got["events"] \cup todo) : row < y
        BY <1>1 DEF Reading
      <4> QED BY <4>1, <4>2
    <3>2. \A x \in got["events"], y \in All \ got["events"] : x < y
      BY <1>1 DEF Reading
    <3>3. \A x \in todo, y \in All \ (got["events"] \cup todo) : x < y
      BY <1>1 DEF Reading
    <3> QED BY <1>1, <1>3, <1>5, <3>1, <3>2, <3>3
  <2>2. got'[phase] \subseteq All /\ todo' \subseteq All /\ todo' \cap got'[phase] = {}
    BY <1>1, <1>3, <1>7 DEF Reading
  <2>3. got[phase] \cup todo = All \/ Cardinality(got[phase] \cup todo) > Max[phase]
    BY <1>1 DEF Reading
  <2>4. /\ phase = "edges" => got'["resources"] = InScope(snap', "resources")
        /\ phase = "resources" => got'["edges"] = {}
        /\ phase \in (IF kind = "graph" THEN {"resources", "edges"} ELSE {"events"})
        /\ phase = "events" => truncated = FALSE
    BY <1>1, <1>3 DEF Reading, Parts, InScope
  <2> QED BY <1>1, <1>4, <1>5, <1>7, <2>1, <2>2, <2>3, <2>4 DEF Reading
<1>9. got' \in [Parts -> SUBSET Rows] /\ todo' \subseteq Rows
  BY <1>1 DEF Inv
<1> QED BY <1>1, <1>6, <1>8, <1>9 DEF Inv, Parts

\* LimitReached: a graph fails, a page is cut and says so.
LEMMA LimitReachedInv == ASSUME NEW row \in Rows PROVE Inv /\ LimitReached(row) => Inv'
<1> SUFFICES ASSUME Inv, LimitReached(row) PROVE Inv'
  OBVIOUS
<1>1. /\ phase \in Parts /\ row \in todo /\ Reading
      /\ phase' = IF phase = "events" THEN "done" ELSE "failed"
      /\ truncated' = (phase = "events")
      /\ UNCHANGED <<stored, seen, writes, backend, kind, snap, todo, got, remaining>>
  BY DEF LimitReached, Inv
<1>2. ASSUME phase = "events" PROVE kind = "page" /\ Page(snap)'
  <2>1. kind = "page"
    BY <1>1, <1>2 DEF Reading, Inv
  <2>2. /\ row \in InScope(snap, "events") /\ row \notin got["events"]
        /\ got["events"] \subseteq InScope(snap, "events")
        /\ \A x \in got["events"], y \in InScope(snap, "events") \ got["events"] : x < y
    BY <1>1, <1>2 DEF Reading, All
  <2>3. truncated' /\ got["events"] # InScope(snap, "events")
    BY <1>1, <1>2, <2>2
  <2>4. InScope(snap, "events")' = InScope(snap, "events")
    BY <1>1 DEF InScope
  <2> QED BY <1>1, <2>1, <2>2, <2>3, <2>4 DEF Page
<1>3. CASE phase = "events"
  <2>1. phase' = "done"
    BY <1>1, <1>3
  <2> QED BY <1>1, <1>2, <1>3, <2>1 DEF Inv, Parts
<1>4. CASE phase # "events"
  <2>1. phase' = "failed"
    BY <1>1, <1>4
  <2> QED BY <1>1, <2>1 DEF Inv, Parts
<1> QED BY <1>3, <1>4

\* NextTable: a table that has been delivered in full was read in full, for one
\* that exceeds the limit could not have been.
LEMMA NextTableInv == Inv /\ NextTable => Inv'
<1> SUFFICES ASSUME Inv, NextTable PROVE Inv'
  OBVIOUS
<1>1. /\ phase \in Parts /\ todo = {} /\ Reading
      /\ UNCHANGED <<stored, seen, writes, backend, kind, snap, got, remaining, truncated>>
  BY DEF NextTable, Inv
<1>2. got[phase] = All
  <2>1. got[phase] \cup todo = got[phase]
    BY <1>1
  <2>2. Cardinality(got[phase]) <= Max[phase] /\ Cardinality(got[phase]) \in Nat /\ Max[phase] \in Nat
    BY <1>1, Finite, ProjectionAssumption DEF Reading, Inv
  <2>3. got[phase] \cup todo = All \/ Cardinality(got[phase] \cup todo) > Max[phase]
    BY <1>1 DEF Reading
  <2> QED BY <2>1, <2>2, <2>3
<1>3. \A p \in Parts : InScope(snap, p)' = InScope(snap, p)
  BY <1>1 DEF InScope
<1>4. CASE phase = "resources"
  <2>1. phase' = "edges" /\ todo' \in Fetch("edges", snap) /\ kind = "graph"
    BY <1>1, <1>4 DEF NextTable, Reading, Inv
  <2>2. /\ todo' \subseteq InScope(snap, "edges") /\ todo' \subseteq Rows
        /\ todo' = InScope(snap, "edges") \/ Cardinality(todo') > Max["edges"]
    BY <2>1, FetchEnough DEF Inv, Parts
  <2>3. got["edges"] = {} /\ got["resources"] = InScope(snap, "resources")
    BY <1>1, <1>2, <1>4 DEF Reading, All
  <2>4. Max["edges"] \in Nat /\ Cardinality({}) = 0
    BY ProjectionAssumption, FS_EmptySet DEF Parts
  <2>5. Reading'
    <3>1. All' = InScope(snap, "edges") /\ InScope(snap', "resources") = InScope(snap, "resources")
      BY <1>1, <2>1 DEF All, InScope
    <3>2. got'[phase'] = {} /\ got'[phase'] \cup todo' = todo'
      BY <1>1, <2>1, <2>3
    <3> QED BY <1>1, <2>1, <2>2, <2>3, <2>4, <3>1, <3>2 DEF Reading
  <2> QED BY <1>1, <2>1, <2>2, <2>5 DEF Inv, Parts
<1>5. CASE phase # "resources"
  <2>1. phase' = "done" /\ todo' = {}
    BY <1>5 DEF NextTable
  <2>2. IF kind = "graph" THEN Whole(snap)' ELSE Page(snap)'
    <3>1. CASE phase = "edges"
      <4>1. kind = "graph" /\ got["edges"] = InScope(snap, "edges") /\ got["resources"] = InScope(snap, "resources")
        BY <1>1, <1>2, <3>1 DEF Reading, All, Inv
      <4> QED BY <1>1, <1>3, <4>1 DEF Whole, Parts
    <3>2. CASE phase = "events"
      <4>1. kind = "page" /\ got["events"] = InScope(snap, "events") /\ truncated = FALSE
        BY <1>1, <1>2, <3>2 DEF Reading, All, Inv
      <4> QED BY <1>1, <1>3, <4>1 DEF Page, Parts
    <3> QED BY <1>1, <1>5, <3>1, <3>2 DEF Parts
  <2> QED BY <1>1, <2>1, <2>2 DEF Inv, Parts
<1> QED BY <1>4, <1>5

\* The other steps change the tables, or end the read without a result.
LEMMA OtherInv ==
    ASSUME Inv,
           \/ \E p \in Parts, row \in Rows : Write(p, row)
           \/ \E row \in Rows : BudgetExceeded(row)
           \/ Abort \/ UNCHANGED vars
    PROVE  Inv'
<1>1. CASE \E p \in Parts, row \in Rows : Write(p, row)
  <2>1. /\ stored' \in [Parts -> SUBSET Rows] /\ snap \in seen' /\ phase \in Parts
        /\ UNCHANGED <<backend, kind, phase, snap, todo, got, remaining, truncated>>
    BY <1>1 DEF Write, Inv
  <2>2. Reading'
    BY <2>1 DEF Inv, Reading, All, InScope
  <2> QED BY <2>1, <2>2 DEF Inv, Parts
<1>2. CASE (\E row \in Rows : BudgetExceeded(row)) \/ Abort
  <2>1. phase' = "failed" /\ UNCHANGED <<stored, seen, backend, kind, snap, todo, got, remaining, truncated>>
    BY <1>2 DEF BudgetExceeded, Abort
  <2> QED BY <2>1 DEF Inv, Parts
<1>3. CASE UNCHANGED vars
  BY <1>3 DEF vars, Inv, Reading, All, InScope, Whole, Page
<1> QED BY <1>1, <1>2, <1>3

\* For every table, limit and budget: a projection that is returned is whole, a
\* page says whether it is, and no charge overdraws the budget (SnapshotImpact,
\* ReadHistoryEvents and the two builders).
THEOREM ReadsAreWholeAlways == Spec => []ReadsAreWhole
<1>1. Inv /\ [Next]_vars => Inv'
  BY BeginInv, AddInv, LimitReachedInv, NextTableInv, OtherInv DEF Next
<1>2. Inv => ReadsAreWhole
  BY DEF Inv, ReadsAreWhole
<1> QED BY <1>1, <1>2, InitInv, PTL DEF Spec
=============================================================================
