------------------------------ MODULE Coverage ------------------------------
(***************************************************************************)
(* pkg/operations/observation_coverage.go and coverage_sources.go: what    *)
(* the process may say about how completely it observes each resource      *)
(* type.  One cluster and one source are modelled; the tracker keeps them  *)
(* apart by map key.  Every method is one step under the tracker's mutex,  *)
(* but the callers are not ordered: collectors that have been stopped or   *)
(* replaced, and streams that have been closed, still call back.           *)
(*                                                                         *)
(* A session is replaced by Begin; a row of a dynamic source is registered *)
(* with a token by BeginType.  The model names both by number, so a caller *)
(* is a handle [gen, tok, g], with tok = 0 for the session of Begin.       *)
(***************************************************************************)
EXTENDS Integers, FiniteSets

CONSTANTS
    Gvrs,        \* resource types
    Kinds,       \* kinds of data gap: processing, extraction, persistence
    Failures,    \* what a failed list or watch is reported as: failed, denied
    Sources,     \* sources explored, one per behaviour: whether its types come one by one
                 \* (crd, gatekeeper), MaxCoverageTypes, bounds on sessions, tokens, revisions
    StaleAfter,  \* CoverageTracker.staleAfter, in clock ticks
    MaxClock     \* bound on the clock

ASSUME CoverageAssumption ==
    /\ IsFiniteSet(Gvrs)
    /\ Sources \subseteq [dynamic : BOOLEAN, types : Nat, gens : Nat, toks : Nat,
                    revs : Nat]
    /\ StaleAfter \in Nat \ {0} /\ MaxClock \in Nat \ {0}

VARIABLES
    source,    \* the source explored
    gen,       \* generation of the current session, 0 before the first Begin
    stopped,   \* CoverageSession.stopped of the current session
    limited,   \* CoverageSession.limited of the current session
    tok,       \* tokens issued by BeginType
    rows,      \* CoverageSession.resources of the current session
    handles,   \* every handle ever given out
    streams,   \* coverageWatch streams not yet stopped
    errors,    \* Error events read from a stream, not yet reported
    reported,  \* per type: gaps recorded by the collector at work
    refused,   \* BeginType once refused a type for want of room
    clock

vars == <<source, gen, stopped, limited, tok, rows, handles, streams, errors, reported, refused,
          clock>>
tracker == <<source, gen, stopped, limited, tok, rows, handles, reported, refused>>

Dynamic == source.dynamic
MaxTypes == source.types
MaxGen == source.gens
MaxTok == source.toks
MaxRevision == source.revs

NoRow == [tok |-> -1]
Present(g) == rows[g] # NoRow
Reasons == {"ok", "pending", "closed"} \cup Failures
Row == [tok : 0..MaxTok, done : BOOLEAN, list : {"ok"} \cup Failures, est : BOOLEAN,
        watch : Reasons, epoch : Nat, stopped : BOOLEAN, since : 0..MaxClock,
        gaps : SUBSET Kinds, revision : Nat]
Handle == [gen : 1..MaxGen, tok : 0..MaxTok, g : Gvrs]

TypeOK ==
    /\ source \in Sources
    /\ gen \in 0..MaxGen /\ tok \in 0..MaxTok /\ clock \in 1..MaxClock
    /\ stopped \in BOOLEAN /\ limited \in BOOLEAN /\ refused \in BOOLEAN
    /\ rows \in [Gvrs -> Row \cup {NoRow}]
    /\ \A g \in Gvrs : Present(g) /\ rows[g].est => ~rows[g].stopped
    /\ handles \subseteq Handle
    /\ streams \subseteq [h : handles, epoch : Nat, bad : BOOLEAN]
    /\ errors \subseteq [h : handles, epoch : Nat]
    /\ reported \in [Gvrs -> SUBSET Kinds]

Init ==
    /\ source \in Sources
    /\ gen = 0 /\ stopped = FALSE /\ limited = FALSE /\ tok = 0
    /\ rows = [g \in Gvrs |-> NoRow]
    /\ handles = {} /\ streams = {} /\ errors = {}
    /\ reported = [g \in Gvrs |-> {}] /\ refused = FALSE
    /\ clock = 1

-----------------------------------------------------------------------------
(* Sessions and registrations. *)

Fresh(t, gaps, revision) ==
    [tok |-> t, done |-> FALSE, list |-> "ok", est |-> FALSE, watch |-> "pending",
     epoch |-> 0, stopped |-> FALSE, since |-> 0, gaps |-> gaps, revision |-> revision]

\* A row whose collector is gone.
Halted(r, revision) ==
    [r EXCEPT !.stopped = TRUE, !.est = FALSE, !.revision = revision,
              !.since = IF @ = 0 THEN clock ELSE @]

Gaps(g) == IF Present(g) THEN rows[g].gaps ELSE {}

\* As if a new session or registration started without the known data gaps.
CarriedGapsNone(g) == {}

CarriedGaps(g) == Gaps(g)

StaysLimited == limited

\* begin: rows of the previous session stay as stopped rows, the types of the
\* new one start afresh with the known data gaps, and an excess of types is
\* refused before anything changes.
Begin(G) ==
    /\ gen < MaxGen
    /\ Cardinality(G \cup {g \in Gvrs : Present(g)}) <= MaxTypes
    /\ gen' = gen + 1
    /\ stopped' = FALSE /\ limited' = StaysLimited
    /\ rows' = [g \in Gvrs |-> IF g \in G THEN Fresh(0, CarriedGaps(g), 1)
                               ELSE IF Present(g) THEN Halted(rows[g], 1) ELSE NoRow]
    /\ handles' = handles \cup {[gen |-> gen + 1, tok |-> 0, g |-> g] : g \in G}
    /\ UNCHANGED <<source, tok, streams, errors, reported, refused, clock>>

BeginSession ==
    \/ ~Dynamic /\ \E G \in SUBSET Gvrs : Begin(G)
    \/ Dynamic /\ Begin({})

\* As if a type registered again started counting from one.
NextRevisionRestarts(g) == 1

NextRevision(g) == IF Present(g) THEN rows[g].revision + 1 ELSE 1

\* BeginType: one registration of a type at a time; the token replaces a row
\* whose collector has stopped and keeps its data gaps.
BeginType(g) ==
    /\ Dynamic /\ gen > 0 /\ ~stopped /\ tok < MaxTok
    /\ Present(g) => rows[g].stopped
    /\ IF ~Present(g) /\ Cardinality({k \in Gvrs : Present(k)}) >= MaxTypes
       THEN /\ limited' = TRUE /\ refused' = TRUE
            /\ UNCHANGED <<tok, rows, handles>>
       ELSE /\ tok' = tok + 1
            /\ rows' = [rows EXCEPT ![g] = Fresh(tok + 1, CarriedGaps(g), NextRevision(g))]
            /\ handles' = handles \cup {[gen |-> gen, tok |-> tok + 1, g |-> g]}
            /\ UNCHANGED <<limited, refused>>
    /\ UNCHANGED <<source, gen, stopped, streams, errors, reported, clock>>

\* The collector that is really at work on a type: the last one registered in
\* the running session, not stopped since.
Collecting(h) ==
    /\ h.gen = gen /\ ~stopped /\ ~rows[h.g].stopped
    /\ \A k \in handles : k.g = h.g /\ k.gen = gen => k.tok <= h.tok

-----------------------------------------------------------------------------
(* Callbacks: update, with activeLocked and ownsTypeLocked. *)

InCharge(h) ==
    /\ h.gen = gen /\ ~stopped
    /\ Present(h.g) /\ ~rows[h.g].stopped
    /\ rows[h.g].tok = h.tok

Roomy(h) == InCharge(h) => rows[h.g].revision < MaxRevision

Apply(h, row) == rows' = IF InCharge(h) THEN [rows EXCEPT ![h.g] = row] ELSE rows

InitialDeliveryComplete(h) ==
    /\ Roomy(h)
    /\ Apply(h, LET r == rows[h.g]
                IN  IF r.done THEN r ELSE [r EXCEPT !.done = TRUE, !.revision = @ + 1])
    /\ UNCHANGED <<source, gen, stopped, limited, tok, handles, streams, errors, reported, refused,
                   clock>>

ListResult(h, result) ==
    /\ Roomy(h)
    /\ Apply(h, [rows[h.g] EXCEPT !.list = result, !.revision = @ + 1])
    /\ UNCHANGED <<source, gen, stopped, limited, tok, handles, streams, errors, reported, refused,
                   clock>>

WithGap(r, kind) ==
    IF kind \in r.gaps THEN r ELSE [r EXCEPT !.gaps = @ \cup {kind}, !.revision = @ + 1]

RecordGap(h, kind) ==
    /\ Roomy(h)
    /\ Apply(h, WithGap(rows[h.g], kind))
    /\ reported' = IF Collecting(h) THEN [reported EXCEPT ![h.g] = @ \cup {kind}] ELSE reported
    /\ UNCHANGED <<source, gen, stopped, limited, tok, handles, streams, errors, refused, clock>>

\* coverageResourceClient.Watch: a stream, and the epoch WatchStarted returned
\* (zero from a session that is no longer in charge).
Watching(h) == \E s \in streams : s.h = h

WatchStarted(h) ==
    /\ ~Watching(h) /\ Roomy(h)
    /\ LET epoch == rows[h.g].epoch + 1 IN
       /\ Apply(h, [rows[h.g] EXCEPT !.epoch = epoch, !.est = TRUE, !.watch = "ok",
                                     !.since = 0, !.revision = @ + 1])
       /\ streams' = streams \cup
            {[h |-> h, epoch |-> IF InCharge(h) THEN epoch ELSE 0, bad |-> FALSE]}
    /\ UNCHANGED <<source, gen, stopped, limited, tok, handles, errors, reported, refused, clock>>

\* As if the stream that ends were not compared with the newest one.
EndedAnyEpoch(r, epoch, reason) ==
    [r EXCEPT !.est = FALSE, !.revision = @ + 1,
              !.since = IF @ = 0 THEN clock ELSE @,
              !.watch = IF reason # "closed" \/ @ \in {"ok", "pending"} THEN reason ELSE @]

\* WatchEnded: epoch zero is an attempt that gave no stream; a close keeps the
\* reason of the error before it.
Ended(r, epoch, reason) ==
    IF epoch # 0 /\ r.epoch # epoch THEN r
    ELSE [r EXCEPT !.est = FALSE, !.revision = @ + 1,
                   !.since = IF @ = 0 THEN clock ELSE @,
                   !.watch = IF reason # "closed" \/ @ \in {"ok", "pending"} THEN reason ELSE @]

WatchFails(h, reason) ==
    /\ ~Watching(h) /\ Roomy(h)
    /\ Apply(h, Ended(rows[h.g], 0, reason))
    /\ UNCHANGED <<source, gen, stopped, limited, tok, handles, streams, errors, reported, refused,
                   clock>>

\* coverageWatch.forward reads an Error event ...
ReadError(s) ==
    /\ s \in streams
    /\ errors' = errors \cup {[h |-> s.h, epoch |-> s.epoch]}
    /\ UNCHANGED <<tracker, streams, clock>>

\* ... and reports it, perhaps after the stream was stopped and replaced.
ReportError(x, reason) ==
    /\ x \in errors /\ Roomy(x.h)
    /\ Apply(x.h, Ended(rows[x.h.g], x.epoch, reason))
    /\ errors' = errors \ {x}
    /\ streams' = {IF s.h = x.h /\ s.epoch = x.epoch THEN [s EXCEPT !.bad = TRUE] ELSE s :
                     s \in streams}
    /\ UNCHANGED <<source, gen, stopped, limited, tok, handles, reported, refused, clock>>

\* coverageWatch.Stop, once per stream.
StopStream(s) ==
    /\ s \in streams /\ Roomy(s.h)
    /\ Apply(s.h, Ended(rows[s.h.g], s.epoch, "closed"))
    /\ streams' = streams \ {s}
    /\ UNCHANGED <<source, gen, stopped, limited, tok, handles, errors, reported, refused, clock>>

\* CoverageSession.Stop of the current session, and of one registration; from
\* any other it does nothing.
StopSession ==
    /\ gen > 0 /\ ~stopped
    /\ stopped' = TRUE
    /\ rows' = [g \in Gvrs |-> IF Present(g) /\ ~rows[g].stopped
                               THEN Halted(rows[g], rows[g].revision + 1) ELSE rows[g]]
    /\ UNCHANGED <<source, gen, limited, tok, handles, streams, errors, reported, refused, clock>>

StopType(h) ==
    /\ Dynamic /\ h.tok > 0 /\ InCharge(h)
    /\ rows' = [rows EXCEPT ![h.g] = Halted(@, @.revision + 1)]
    /\ UNCHANGED <<source, gen, stopped, limited, tok, handles, streams, errors, reported, refused,
                   clock>>

Tick ==
    /\ clock < MaxClock
    /\ clock' = clock + 1
    /\ UNCHANGED <<tracker, streams, errors>>

Callback(h) ==
    \/ InitialDeliveryComplete(h)
    \/ \E result \in {"ok"} \cup Failures : ListResult(h, result)
    \/ \E kind \in Kinds : RecordGap(h, kind)
    \/ WatchStarted(h)
    \/ \E reason \in Failures : WatchFails(h, reason)
    \/ StopType(h)

Next ==
    \/ BeginSession
    \/ \E g \in Gvrs : BeginType(g)
    \/ \E h \in handles : Callback(h)
    \/ \E s \in streams : ReadError(s) \/ StopStream(s)
    \/ \E x \in errors, reason \in Failures : ReportError(x, reason)
    \/ StopSession
    \/ Tick

Spec == Init /\ [][Next]_vars

-----------------------------------------------------------------------------
(* Snapshots: what is reported of a row, of the required types, of a source. *)

Stale(r) == r.since # 0 /\ clock - r.since >= StaleAfter

RowState(r) ==
    IF Stale(r) THEN "stale"
    ELSE IF \/ r.list # "ok" \/ r.stopped \/ r.gaps # {}
            \/ ~r.est /\ r.watch # "pending"
         THEN "partial"
    ELSE IF ~r.done \/ ~r.est THEN "initializing"
    ELSE "observed"

StateOf(g) == IF Present(g) THEN RowState(rows[g]) ELSE "unknown"

Rank(s) ==
    CASE s = "stale" -> 4 [] s = "partial" -> 3 [] s = "initializing" -> 2
      [] s = "unknown" -> 1 [] OTHER -> 0

Worst(S) == IF S = {} THEN "observed" ELSE CHOOSE s \in S : \A t \in S : Rank(t) <= Rank(s)

Snapshot(required) ==
    LET worst == Worst({"observed"} \cup {StateOf(g) : g \in required})
    IN  IF required = {} THEN "unknown"
        ELSE IF worst = "unknown" /\ \E g \in required : StateOf(g) # "unknown" THEN "partial"
        ELSE worst

SnapshotSource ==
    LET present == {g \in Gvrs : Present(g)}
        worst == IF present = {} THEN "unknown"
                 ELSE Worst({"observed"} \cup {StateOf(g) : g \in present})
    IN  IF (limited \/ stopped) /\ Rank(worst) < Rank("partial") THEN "partial" ELSE worst

\* What the impact report asks of a row and of a source before it uses them.
validImpactCoverageRow(r) ==
    RowState(r) = "observed" =>
        /\ r.done /\ r.est /\ r.list = "ok" /\ ~r.stopped
        /\ r.revision # 0 /\ r.since = 0 /\ r.gaps = {}

validateImpactSources ==
    SnapshotSource = "observed" =>
        /\ ~limited
        /\ \E g \in Gvrs : Present(g)
        /\ \A g \in Gvrs : Present(g) => RowState(rows[g]) = "observed"

-----------------------------------------------------------------------------
(* What has to hold. *)

\* The row says a watch is established exactly when the collector at work has
\* an unfailed stream open: neither a stopped or replaced collector nor a
\* closed stream of the same collector can raise or lower it.
EstablishedIsTrue ==
    \A g \in Gvrs : Present(g) =>
        (rows[g].est <=> \E s \in streams : s.h.g = g /\ Collecting(s.h) /\ ~s.bad)

\* "Known data gaps survive reattachment in the same process": a gap recorded
\* by the collector at work is in the row of every later session and
\* registration of the type.
GapsAreSticky == \A g \in Gvrs : reported[g] \subseteq Gaps(g)

\* No claim without evidence: a required set is "initialized_no_known_gap" only
\* if it is not empty and each of its types is watched now by the collector at
\* work, delivered, listed and free of any gap it ever had.  And "capacity
\* exhaustion stays visible": once a type was refused no source snapshot of any
\* later session says that all is observed.  The impact report, which checks
\* rows and sources again, accepts all that the tracker says.
ObservedIsEarned ==
    /\ validateImpactSources /\ \A g \in Gvrs : Present(g) => validImpactCoverageRow(rows[g])
    /\ \A R \in SUBSET Gvrs : Snapshot(R) = "observed" =>
          /\ R # {}
          /\ \A g \in R : /\ Present(g) /\ rows[g].done /\ rows[g].list = "ok"
                          /\ reported[g] = {}
                          /\ \E s \in streams : s.h.g = g /\ Collecting(s.h) /\ ~s.bad
    /\ refused => SnapshotSource # "observed"

\* CoverageTracker tells the truth: a gap, once recorded, stays through every
\* session and registration, and nothing is observed without a list, a live
\* watch and no gap.
CoverageSound == TypeOK /\ GapsAreSticky /\ ObservedIsEarned

Evidence(r) == [r EXCEPT !.revision = 0, !.since = 0]

\* "Monotonic within a session, including transient failures that recover
\* before a second capture": within a generation the continuity revision of a
\* type grows with every change of its evidence and never falls back, so two
\* captures that agree on it saw nothing happen in between.
ContinuityCounts ==
    [][gen' = gen => \A g \in Gvrs : Present(g) =>
          /\ Present(g)' /\ rows'[g].revision >= rows[g].revision
          /\ Evidence(rows'[g]) # Evidence(rows[g]) => rows'[g].revision > rows[g].revision]_vars
=============================================================================
