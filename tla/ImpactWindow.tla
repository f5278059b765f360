---------------------------- MODULE ImpactWindow ----------------------------
(* pkg/graph/analysis/impact_store.go with impact_observation.go,               *)
(* impact_sources.go and impact_inventory.go: an impact report reads the        *)
(* coverage evidence, then the graph, then the evidence again, and says what    *)
(* the three reads together establish.  The evidence changes in between in the  *)
(* ways Coverage and Inventory let it: every change of a row, a source or the   *)
(* inventory moves its revision, except growing old.                            *)
EXTENDS Integers, FiniteSets

CONSTANTS
    Types,          \* impactObservedTypes
    Authorization,  \* those of the authorization profile
    Optional,       \* those of optionalImpactAPI
    Requests,       \* what a report may be asked: [available, applicable, known, complete, empty]
    MaxChanges      \* bound

VARIABLES
    generation,  \* of the session of the static collector, 0 before the first
    rows,        \* type -> [state, revision, stopped]; revision 0: not watched
    sources,     \* source -> {} or {[state, revision, limited, types]}
    inventory,   \* {} or {[state, revision, stale, stopped, limited, resources]}
    changes,
    phase,
    request,
    before, after,
    touched      \* what changed since the first reading of the evidence

vars == <<generation, rows, sources, inventory, changes, phase, request, before, after, touched>>

Names == {"crd", "gatekeeper"}
States == {"unknown", "initializing", "observed", "partial", "stale"}
Unwatched == [state |-> "unknown", revision |-> 0, stopped |-> FALSE]
Evidence == [generation |-> generation, rows |-> rows, sources |-> sources, inventory |-> inventory]

Row(s) == [state |-> s, revision |-> 1, stopped |-> FALSE]
Source(s, revision) == {[state |-> s, revision |-> revision, limited |-> s = "partial", types |-> {}]}

\* Before any collector reported, or with collectors that have caught up.
Init ==
    /\ \/ generation = 0 /\ rows = [t \in Types |-> Unwatched] /\ sources = [n \in Names |-> {}]
       \/ generation = 1 /\ rows = [t \in Types |-> Row("observed")] /\ sources = [n \in Names |-> Source("observed", 1)]
    /\ inventory = {} /\ changes = 0
    /\ phase = "start" /\ request \in Requests
    /\ before = Evidence /\ after = Evidence /\ touched = {}

-----------------------------------------------------------------------------
(* The evidence changes. *)

Changed(what) ==
    /\ changes < MaxChanges /\ changes' = changes + 1
    /\ touched' = touched \cup what
    /\ UNCHANGED <<phase, request, before, after>>

\* A session starts, on a first or another attempt, and watches some types.
BeginSession(watched) ==
    /\ Changed({"session"} \cup Types)
    /\ generation' = generation + 1
    /\ rows' = [t \in Types |-> IF t \in watched THEN Row("initializing") ELSE Unwatched]
    /\ UNCHANGED <<sources, inventory>>

ChangeRow(t, s) ==
    /\ rows[t].revision > 0
    /\ Changed({t})
    /\ rows' = [rows EXCEPT ![t] = [state |-> s, revision |-> @.revision + 1, stopped |-> FALSE]]
    /\ UNCHANGED <<generation, sources, inventory>>

\* A gap that is not closed makes a row stale, by the passing of time.
Age(t) ==
    /\ rows[t].state = "partial"
    /\ rows' = [rows EXCEPT ![t].state = "stale"]
    /\ touched' = touched \cup {t}
    /\ UNCHANGED <<generation, sources, inventory, changes, phase, request, before, after>>

NextRevision(record) == IF record = {} THEN 1 ELSE (CHOOSE x \in record : TRUE).revision + 1

ChangeSource(n, s) ==
    /\ Changed({n})
    /\ sources' = [sources EXCEPT ![n] = Source(s, NextRevision(@))]
    /\ UNCHANGED <<generation, rows, inventory>>

ChangeInventory(s, resources) ==
    /\ Changed({"inventory"})
    /\ inventory' = {[state |-> s, revision |-> NextRevision(inventory), stale |-> FALSE, stopped |-> FALSE,
                      limited |-> FALSE, resources |-> resources]}
    /\ UNCHANGED <<generation, rows, sources>>

-----------------------------------------------------------------------------
(* What the report makes of the two readings. *)

Rank(s) ==
    CASE s = "observed" -> 0 [] s = "unknown" -> 1 [] s = "initializing" -> 2
      [] s = "partial" -> 3 [] s = "stale" -> 4

worseImpactCoverage(a, b) == IF Rank(b) > Rank(a) THEN b ELSE a

impactCoverageRequirements(authorization) == IF authorization THEN Authorization ELSE Types

subsetImpactCoverage(snapshot, required) ==
    LET states == {snapshot.rows[t].state : t \in required}
        worst == CHOOSE s \in states \cup {"observed"} : \A x \in states : Rank(x) <= Rank(s)
    IN  IF worst = "unknown" /\ states # {"unknown"} THEN "partial" ELSE worst

\* As if a window were stable when both readings showed the same states.
StableByState(pre, post, required) ==
    /\ pre.generation # 0 /\ pre.generation = post.generation
    /\ \A t \in required : pre.rows[t].revision # 0 /\ pre.rows[t].state = post.rows[t].state

Stable(pre, post, required) ==
    /\ pre.generation # 0 /\ pre.generation = post.generation
    /\ \A t \in required : pre.rows[t].revision # 0 /\ pre.rows[t] = post.rows[t]

\* The facet after the sources have been looked at.  One that neither reading
\* has leaves the window unstable; one that differs does too.
attachImpactSourceCoverage(facet, pre, post) ==
    LET named == {n \in Names : pre[n] # {} /\ post[n] # {}}
        seen == UNION {pre[n] \cup post[n] : n \in named}
        reported == {x.state : x \in seen} \cup {"partial" : x \in {y \in seen : y.limited}} \cup {facet.state}
        worst == CHOOSE s \in reported : \A x \in reported : Rank(x) <= Rank(s)
        stable == facet.stable /\ named = Names /\ pre = post
    IN  [facet EXCEPT !.stable = stable,
                      !.state = IF ~stable /\ worst = "observed" THEN "partial" ELSE worst]

qualifiedImpactInventory(e) ==
    \E x \in e : x.state = "complete" /\ ~x.stale /\ ~x.stopped /\ ~x.limited

\* resources: type -> how the API server serves it (same, other version, unsuited).
impactAPIPresence(e, t) ==
    IF ~qualifiedImpactInventory(e) THEN "unknown"
    ELSE LET served == (CHOOSE x \in e : TRUE).resources
         IN  IF t \in DOMAIN served THEN served[t] ELSE "not_advertised"

attachImpactInventory(facet, pre, post) ==
    LET served == UNION {{t \in DOMAIN x.resources : x.resources[t] = "advertised"} : x \in post.inventory}
        registered == {t \in Types : post.rows[t].revision # 0 /\ ~post.rows[t].stopped}
                         \cup UNION {UNION {x.types : x \in post.sources[n]} : n \in Names}
    IN  [stable |-> facet.stable /\ (pre.inventory = {} \/ post.inventory = {} \/ pre.inventory = post.inventory),
         state |-> facet.state,
         optional |-> [t \in Optional |-> <<impactAPIPresence(pre.inventory, t), impactAPIPresence(post.inventory, t)>>],
         unobserved |-> IF qualifiedImpactInventory(post.inventory) THEN served \ registered ELSE {}]

evaluateImpactCoverage(authorization) ==
    LET required == impactCoverageRequirements(authorization)
        state == worseImpactCoverage(subsetImpactCoverage(before, required), subsetImpactCoverage(after, required))
        stable == Stable(before, after, required)
        facet == [stable |-> stable, state |-> IF ~stable /\ state = "observed" THEN "partial" ELSE state,
                  optional |-> <<>>, unobserved |-> {}]
    IN  IF ~request.available THEN [facet EXCEPT !.stable = FALSE, !.state = "unknown"]
        ELSE IF authorization THEN facet
        ELSE attachImpactInventory(attachImpactSourceCoverage(facet, before.sources, after.sources), before, after)

impactEmptyAssessment(closed, facet) ==
    IF ~request.empty THEN "not_empty"
    ELSE IF request.complete /\ closed /\ facet.stable /\ facet.state = "observed"
         THEN "none_found_in_analyzed_scope"
    ELSE "none_observed_incomplete"

\* attachImpactObservation: the two facets as they are reported.  The types an
\* ordinary impact may come from are never all known.
Lower(facet, ok) == [facet EXCEPT !.state = IF ~ok /\ @ = "observed" THEN "partial" ELSE @]

Ordinary ==
    LET facet == Lower(evaluateImpactCoverage(FALSE), FALSE)
    IN  [facet |-> facet, assessment |-> impactEmptyAssessment(FALSE, facet)]

AuthorizationFacet ==
    LET facet == Lower(evaluateImpactCoverage(TRUE), request.known)
    IN  IF request.applicable
        THEN [facet |-> facet, assessment |-> impactEmptyAssessment(request.known, facet)]
        ELSE [facet |-> [facet EXCEPT !.state = "unknown"], assessment |-> "not_applicable"]

-----------------------------------------------------------------------------
(* analyzeStoredImpact *)

\* Without a provider nothing is known.
readImpactCoverage ==
    IF request.available THEN Evidence
    ELSE [generation |-> 0, rows |-> [t \in Types |-> Unwatched], sources |-> [n \in Names |-> {}], inventory |-> {}]

ReadBefore ==
    /\ phase = "start" /\ phase' = "before"
    /\ before' = readImpactCoverage /\ touched' = {}
    /\ UNCHANGED <<generation, rows, sources, inventory, changes, request, after>>

SnapshotImpact ==
    /\ phase = "before" /\ phase' = "projected"
    /\ UNCHANGED <<generation, rows, sources, inventory, changes, request, before, after, touched>>

\* The analysis works on what was read, and the availability is read last.
ReadAfter ==
    /\ phase = "projected" /\ phase' = "done"
    /\ after' = readImpactCoverage
    /\ UNCHANGED <<generation, rows, sources, inventory, changes, request, before, touched>>

\* An error of any step, or the end of the context, leaves no report.
Fail ==
    /\ phase \in {"start", "before", "projected"} /\ phase' = "failed"
    /\ UNCHANGED <<generation, rows, sources, inventory, changes, request, before, after, touched>>

Next ==
    \/ ReadBefore \/ SnapshotImpact \/ ReadAfter \/ Fail
    \/ phase \in {"start", "before", "projected"} /\
       \/ \E watched \in {Types, Authorization} : BeginSession(watched)
       \/ \E t \in Types : Age(t) \/ \E s \in {"observed", "partial"} : ChangeRow(t, s)
       \/ \E n \in Names, s \in {"observed", "partial"} : ChangeSource(n, s)
       \/ \E s \in {"complete", "partial"}, R \in SUBSET Optional :
             ChangeInventory(s, [t \in R |-> "advertised"])

Spec == Init /\ [][Next]_vars

-----------------------------------------------------------------------------
(* Property. *)

\* What a finished report claims held while the graph was read, not only when
\* the evidence was read (analyzeStoredImpact reads it before and after).  A
\* stable window saw no change of the evidence it is about, neither one that
\* was undone nor a collector that was replaced; "none found" for authorization
\* is only said when every type of the profile was observed all along; and an
\* ordinary impact never passes for complete.
ReportCoversWindow ==
    phase = "done" =>
        LET quiet(T) == touched \cap (T \cup {"session"}) = {}
            ends == {before, after}
        IN  /\ Ordinary.facet.stable =>
                  /\ quiet(Types \cup Names)
                  /\ (\A e \in ends : e.inventory # {}) => quiet({"inventory"})
            /\ AuthorizationFacet.facet.stable => quiet(Authorization)
            /\ AuthorizationFacet.assessment = "none_found_in_analyzed_scope" =>
                  quiet(Authorization) /\ \A t \in Authorization : rows[t].state = "observed"
            /\ Ordinary.facet.state # "observed" /\ Ordinary.assessment # "none_found_in_analyzed_scope"
=============================================================================
