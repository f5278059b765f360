------------------------------- MODULE History -------------------------------
(***************************************************************************)
(* The resource-event history (F-111): the informer's events on their way  *)
(* through the snapshot writer's workers into the event stream of a store, *)
(* the retention worker that prunes it, the observer that samples what is  *)
(* retained, and the diff that GET /api/v1/snapshots/diff computes.        *)
(*                                                                         *)
(* SnapshotWriter models the writer's own queue, counters and shutdown.    *)
(* Here it is reduced to a queue and workers that append, retry for a      *)
(* while, or give up.  Time is a clock; the store stamps an event when it  *)
(* is appended, so the stream in append order is sorted by (ts, id).       *)
(***************************************************************************)
EXTENDS Integers, Sequences, FiniteSets

CONSTANTS
    Uids,           \* resources, by UID
    Workers,        \* the writer's workers (DefaultWorkers is 4)
    Retention,      \* KUBEATLAS_SNAPSHOTS_RETENTION, in clock ticks
    Cap,            \* maxMemoryEvents for the ring; more than MaxEvents for a table
    Batch,          \* pruneBatchSize
    ReadTimeout,    \* HistoryReadTimeout
    MaxEvents,      \* bound on the events observed
    MaxClock        \* bound on the clock

VARIABLES
    clock,
    life,           \* uid -> "unborn", "live" or "gone", as the informer saw it last
    observed,       \* events handed to the writer so far
    queue,          \* Writer.queue
    busy,           \* worker -> the event it is writing, or Idle
    lost,           \* an event has been given up (WriteFailed > 0)
    stream,         \* every event ever appended: [uid, type, ts], in append order
    kept,           \* the positions of the stream that the store still has
    cutoff,         \* the cutoff of a prune in progress, or 0
    marker,         \* timestamp of the latest snapshot marker, or 0
    reading,        \* the observer's query in flight: its To, or 0
    evidence        \* HistoryRetentionObserver.evidence

vars == <<clock, life, observed, queue, busy, lost, stream, kept, cutoff, marker, reading, evidence>>

Idle == <<>>
Zero == 0           \* time.Time{}
NotQueried == [state |-> "not_queried", checkedAt |-> Zero, from |-> Zero, to |-> Zero,
               first |-> Zero, last |-> Zero, marker |-> Zero]

\* The clock starts late enough that a retention window has a lower end.
Init ==
    /\ clock = Retention + 1
    /\ life = [u \in Uids |-> "unborn"]
    /\ observed = 0 /\ queue = <<>> /\ busy = [w \in Workers |-> Idle] /\ lost = FALSE
    /\ stream = <<>> /\ kept = {} /\ cutoff = Zero /\ marker = Zero
    /\ reading = Zero /\ evidence = NotQueried

-----------------------------------------------------------------------------
(* From the informer into the stream. *)

\* The handlers record an add, an update or a delete; the events of one
\* resource are enqueued in order.
Observe(u, type) ==
    /\ observed < MaxEvents
    /\ CASE type = "add" -> life[u] = "unborn" [] OTHER -> life[u] = "live"
    /\ life' = [life EXCEPT ![u] = IF type = "delete" THEN "gone" ELSE "live"]
    /\ observed' = observed + 1
    /\ queue' = Append(queue, [uid |-> u, type |-> type])
    /\ UNCHANGED <<clock, busy, lost, stream, kept, cutoff, marker, reading, evidence>>

Take(w) ==
    /\ busy[w] = Idle /\ queue # <<>>
    /\ busy' = [busy EXCEPT ![w] = <<Head(queue)>>]
    /\ queue' = Tail(queue)
    /\ UNCHANGED <<clock, life, observed, lost, stream, kept, cutoff, marker, reading, evidence>>

\* As if a full ring kept what it had and dropped the new event.
KeepOldest(s, k) == IF Cardinality(k) = Cap THEN k ELSE k \cup {Len(s)}

\* The ring keeps the newest maxMemoryEvents; a table keeps all.
KeepNewest(s, k) ==
    {i \in k \cup {Len(s)} : Cardinality({j \in k \cup {Len(s)} : j >= i}) <= Cap}

\* AppendEvent stamps the event and appends it.
AppendEvent(w) ==
    /\ busy[w] # Idle
    /\ stream' = Append(stream, [uid |-> busy[w][1].uid, type |-> busy[w][1].type, ts |-> clock])
    /\ kept' = KeepNewest(stream', kept)
    /\ busy' = [busy EXCEPT ![w] = Idle]
    /\ UNCHANGED <<clock, life, observed, queue, lost, cutoff, marker, reading, evidence>>

\* writeWithRetry's budget is spent: the event is counted and dropped.
GiveUp(w) ==
    /\ busy[w] # Idle
    /\ busy' = [busy EXCEPT ![w] = Idle]
    /\ lost' = TRUE
    /\ UNCHANGED <<clock, life, observed, queue, stream, kept, cutoff, marker, reading, evidence>>

\* handleSnapshotTrigger counts the graph and appends a marker.
AppendSnapshotMeta ==
    /\ marker' = clock
    /\ UNCHANGED <<clock, life, observed, queue, busy, lost, stream, kept, cutoff, reading, evidence>>

Tick ==
    /\ clock < MaxClock
    /\ clock' = clock + 1
    /\ UNCHANGED <<life, observed, queue, busy, lost, stream, kept, cutoff, marker, reading, evidence>>

-----------------------------------------------------------------------------
(* Retention. *)

Expired == {i \in kept : stream[i].ts < cutoff}

PruneOnce ==
    /\ cutoff = Zero
    /\ cutoff' = clock - Retention
    /\ UNCHANGED <<clock, life, observed, queue, busy, lost, stream, kept, marker, reading, evidence>>

\* One batch of DeleteEventsBefore: any Batch of the expired events.  A short
\* batch is the last, and an error or a cancelled context ends the prune too.
DeleteBatch ==
    /\ cutoff # Zero
    /\ \E b \in SUBSET Expired :
          /\ Cardinality(b) = Batch \/ b = Expired
          /\ Cardinality(b) <= Batch
          /\ kept' = kept \ b
          /\ cutoff' \in (IF Cardinality(b) < Batch THEN {Zero} ELSE {cutoff, Zero})
    /\ UNCHANGED <<clock, life, observed, queue, busy, lost, stream, marker, reading, evidence>>

-----------------------------------------------------------------------------
(* The observer of retained history. *)

\* observe: the query's window ends when the read starts.
StartObserving ==
    /\ reading = Zero
    /\ reading' = clock
    /\ UNCHANGED <<clock, life, observed, queue, busy, lost, stream, kept, cutoff, marker, evidence>>

\* ReadHistoryBounds: the first and the last kept event of the window and the
\* latest marker in it.
Bounds(from, to) ==
    LET ts == {stream[i].ts : i \in kept} \cap from..to
    IN  [first |-> IF ts = {} THEN Zero ELSE CHOOSE t \in ts : \A o \in ts : t <= o,
         last |-> IF ts = {} THEN Zero ELSE CHOOSE t \in ts : \A o \in ts : o <= t,
         marker |-> IF marker \in from..to THEN marker ELSE Zero]

\* The answer, or a failure without records: an error, or a read that took
\* longer than its deadline.
FinishObserving ==
    /\ reading # Zero
    /\ LET b == Bounds(reading - Retention, reading)
           late == clock - reading > ReadTimeout
       IN  \E failed \in {late, TRUE} :
              evidence' = [state |-> IF failed THEN "failed" ELSE "observed", checkedAt |-> clock,
                           from |-> reading - Retention, to |-> reading,
                           first |-> IF failed THEN Zero ELSE b.first,
                           last |-> IF failed THEN Zero ELSE b.last,
                           marker |-> IF failed THEN Zero ELSE b.marker]
    /\ reading' = Zero
    /\ UNCHANGED <<clock, life, observed, queue, busy, lost, stream, kept, cutoff, marker>>

Next ==
    \/ \E u \in Uids, type \in {"add", "update", "delete"} : Observe(u, type)
    \/ \E w \in Workers : Take(w) \/ AppendEvent(w) \/ GiveUp(w)
    \/ AppendSnapshotMeta \/ Tick \/ PruneOnce \/ DeleteBatch \/ StartObserving \/ FinishObserving

Spec == Init /\ [][Next]_vars

-----------------------------------------------------------------------------
(* The diff of a window. *)

\* ListEvents, oldest first, as positions of the stream.
ListEvents(from, to) == {i \in kept : stream[i].ts \in from..to}

FirstOf(is) == CHOOSE i \in is : \A j \in is : i <= j
LastOf(is) == CHOOSE i \in is : \A j \in is : j <= i

\* DiffWindow: each resource by its first and its last event in the window.
DiffWindow(from, to) ==
    LET events == ListEvents(from, to)
        of(u) == {i \in events : stream[i].uid = u}
        seen == {u \in Uids : of(u) # {}}
        removed == {u \in seen : stream[LastOf(of(u))].type = "delete"}
        added == {u \in seen \ removed : stream[FirstOf(of(u))].type = "add"}
    IN  [added |-> added, removed |-> removed, modified |-> seen \ (removed \cup added)]

\* handleSnapshotDiff's checks of the window.
Accepted(from, to) ==
    /\ from < to /\ to <= clock
    /\ Retention > 0 => to - from <= Retention

-----------------------------------------------------------------------------

\* operations.HistoryRetentionEvidence.ValidFor, at a capture now.
ValidFor(e) ==
    LET noRecords == e.first = Zero /\ e.last = Zero /\ e.marker = Zero
    IN  /\ e.checkedAt <= clock
        /\ e.state = "not_queried" => /\ e.checkedAt = Zero /\ e.from = Zero /\ e.to = Zero
                                      /\ noRecords
        /\ e.state \in {"observed", "failed"} =>
             /\ e.checkedAt # Zero /\ e.to <= e.checkedAt /\ e.to - e.from = Retention
             /\ (e.first = Zero) = (e.last = Zero) /\ e.first <= e.last
             /\ {e.first, e.last, e.marker} \ {Zero} \subseteq e.from..e.to
             /\ e.state = "failed" => noRecords
             /\ e.state = "observed" => e.checkedAt - e.to <= ReadTimeout

\* What the observer publishes passes the check impact analysis makes of it,
\* however appends, pruning and time interleave with its read.
EvidenceValidates == ValidFor(evidence)

Drained == queue = <<>> /\ \A w \in Workers : busy[w] = Idle

\* The diff of an accepted window that ends now never takes a resource that
\* is gone for present or the reverse, once the events are delivered and none
\* was given up: neither pruning nor a full ring can take the event that
\* decides.  It needs the writer to run a single worker.
DiffTellsWhatIsThere ==
    Drained /\ ~lost =>
        \A from \in 1..clock - 1 : Accepted(from, clock) =>
            LET d == DiffWindow(from, clock)
            IN  /\ \A u \in d.removed : life[u] = "gone"
                /\ \A u \in d.added \cup d.modified : life[u] = "live"

\* snapshot_diff.go's rationale: the last event of a resource decides whether
\* it still exists.
LastEventDecides ==
    Drained /\ ~lost =>
        \A u \in Uids : LET is == {i \in kept : stream[i].uid = u}
                        IN  is # {} => (stream[LastOf(is)].type = "delete" <=> life[u] = "gone")

=============================================================================
