------------------------------- MODULE Monitor -------------------------------
(* pkg/operations/monitor.go and the availability derived from it: a loop that  *)
(* probes Kubernetes and the store and stamps the results with the time of the *)
(* tick, readers that turn the cached results into states at a later time, and *)
(* the impact report, which checks such evidence before it includes it.        *)
EXTENDS Integers, Sequences

CONSTANTS
    ProbeInterval, ProbeTimeout, StaleAfter,
    Writers,     \* what the history writer may report when asked: [started, stopped, lost, pending]
    Configs,     \* AnalysisAvailabilityConfig: [enabled, durable, federated, writer]
    MaxClock     \* bound

VARIABLES
    clock,
    up,        \* whether the API server and the store answer
    ticker,    \* the tick waiting in the ticker's channel, -1 for none
    at,        \* the loop: waiting, or which probe is running
    now,       \* the tick the running sample is stamped with
    since,     \* when the running probe was started
    result,    \* what the probes of the running sample returned
    snapshot,  \* Monitor.snapshot and storageCheckedAt; times are -1 for none
    answered,  \* when each dependency last answered a probe
    read,      \* <<>>, or <<what an availability reader got from StorageAvailability>>
    prompt     \* the process is scheduled promptly: only probes take time

vars == <<prompt, clock, up, ticker, at, now, since, result, snapshot, answered, read>>

Dependencies == {"kubernetes", "storage"}
Never == -1

Init ==
    /\ clock = 0 /\ up \in [Dependencies -> BOOLEAN] /\ ticker = Never
    /\ at = "kubernetes" /\ now = 0 /\ since = 0 /\ result = [d \in Dependencies |-> FALSE]
    /\ snapshot = [known |-> FALSE, checked |-> Never, reachable |-> [d \in Dependencies |-> FALSE],
                   last |-> [d \in Dependencies |-> Never]]
    /\ answered = [d \in Dependencies |-> Never] /\ prompt \in BOOLEAN /\ read = <<>>

Flip(d) ==
    /\ up' = [up EXCEPT ![d] = ~@]
    /\ UNCHANGED <<prompt, clock, ticker, at, now, since, result, snapshot, answered, read>>

\* Time passes, but not past the deadline of a running probe.  The ticker's
\* channel holds one tick: later ones are dropped until it is taken.
Tick ==
    /\ clock < MaxClock
    /\ at \in Dependencies => clock < since + ProbeTimeout
    /\ prompt => at \in Dependencies \/ (at = "waiting" /\ ticker = Never)
    /\ clock' = clock + 1
    /\ ticker' = IF ticker = Never /\ clock' % ProbeInterval = 0 THEN clock' ELSE ticker
    /\ UNCHANGED <<prompt, up, at, now, since, result, snapshot, answered, read>>

\* sample begins with the time of the tick that woke the loop.
BeginSample ==
    /\ at = "waiting" /\ ticker # Never
    /\ at' = "kubernetes" /\ now' = ticker /\ ticker' = Never /\ since' = clock
    /\ UNCHANGED <<prompt, clock, up, result, snapshot, answered, read>>

\* runProbe: an answer, or a failure at the latest when its context ends.
RunProbe(d) ==
    /\ at = d
    /\ \E ok \in {up[d]} \cup {FALSE} :
          /\ ok \/ ~up[d] \/ clock = since + ProbeTimeout
          /\ result' = [result EXCEPT ![d] = ok]
          /\ answered' = [answered EXCEPT ![d] = IF ok THEN clock ELSE @]
    /\ at' = IF d = "kubernetes" THEN "storage" ELSE "publish"
    /\ since' = clock
    /\ UNCHANGED <<prompt, clock, up, ticker, now, snapshot, read>>

\* As if the results were stamped with the time they are published.
PublishStampedLate ==
    /\ at = "publish"
    /\ snapshot' = [known |-> TRUE, checked |-> clock, reachable |-> result,
                    last |-> [d \in Dependencies |-> IF result[d] THEN clock ELSE snapshot.last[d]]]
    /\ at' = "waiting"
    /\ UNCHANGED <<prompt, clock, up, ticker, now, since, result, answered, read>>

\* The rest of sample, under the lock.
Publish ==
    /\ at = "publish"
    /\ snapshot' = [known |-> TRUE, checked |-> now, reachable |-> result,
                    last |-> [d \in Dependencies |-> IF result[d] THEN now ELSE snapshot.last[d]]]
    /\ at' = "waiting"
    /\ UNCHANGED <<prompt, clock, up, ticker, now, since, result, answered, read>>

-----------------------------------------------------------------------------
(* The readers, at the current time. *)

ObservationState(initialSync) ==
    CASE ~initialSync \/ ~snapshot.known -> "initializing"
      [] initialSync /\ snapshot.known ->
            IF snapshot.reachable["kubernetes"] THEN "synced"
            ELSE IF \/ snapshot.last["kubernetes"] = Never
                    \/ clock - snapshot.last["kubernetes"] >= StaleAfter THEN "stale"
            ELSE "degraded"

UnknownStorage == [state |-> "unknown", checked |-> Never, last |-> Never]

StorageAvailability ==
    LET checked == snapshot.checked
        last == snapshot.last["storage"]
    IN  IF ~snapshot.known \/ checked = Never \/ checked > clock \/ last > checked THEN UnknownStorage
        ELSE [state |-> IF clock - checked >= StaleAfter THEN "stale"
                        ELSE IF snapshot.reachable["storage"] THEN "available" ELSE "unavailable",
              checked |-> checked, last |-> last]

\* Writer.historyAvailability
historyAvailability(writer) ==
    [state |-> IF writer.stopped THEN "stopped" ELSE IF writer.lost THEN "degraded"
               ELSE IF writer.started THEN "recording" ELSE "initializing",
     started |-> writer.started, retention |-> TRUE, gap |-> writer.lost,
     reasons |-> (IF writer.started THEN {} ELSE {"start_pending"})
                   \cup (IF writer.lost THEN {"gap"} ELSE {})
                   \cup (IF writer.pending THEN {"delivery_pending"} ELSE {})
                   \cup (IF writer.stopped THEN {"writer_stopped"} ELSE {})]

NoHistory(state, reason) ==
    [state |-> state, started |-> FALSE, retention |-> FALSE, gap |-> FALSE, reasons |-> {reason}]

\* The history half of SnapshotAvailability, given its storage half.
SnapshotAvailability(storage, writer, config) ==
    CASE ~config.enabled -> NoHistory("disabled", "not_configured")
      [] config.enabled /\ ~config.durable -> NoHistory("unsupported", "requires_tier2")
      [] config.enabled /\ config.durable /\ config.federated -> NoHistory("unsupported", "scope_unknown")
      [] config.enabled /\ config.durable /\ ~config.federated /\ ~config.writer ->
            NoHistory("unknown", "writer_missing")
      [] OTHER ->
            [historyAvailability(writer) EXCEPT
               !.state = IF storage.state = "unavailable" /\ @ = "recording" THEN "degraded" ELSE @,
               !.reasons = @ \cup (IF storage.state = "available" THEN {}
                                   ELSE {"storage_" \o storage.state})]

\* The storage half is read first; the evidence is dated when all of it is read.
ReadStorage ==
    /\ read = <<>>
    /\ read' = <<StorageAvailability>>
    /\ UNCHANGED <<prompt, clock, up, ticker, at, now, since, result, snapshot, answered>>

Report ==
    /\ read # <<>>
    /\ read' = <<>>
    /\ UNCHANGED <<prompt, clock, up, ticker, at, now, since, result, snapshot, answered>>

validImpactStorage(s, captured) ==
    /\ s.checked <= captured /\ s.last <= s.checked
    /\ CASE s.state = "unknown" -> s.checked = Never /\ s.last = Never
         [] s.state = "available" ->
               s.checked # Never /\ s.last = s.checked /\ captured - s.checked < StaleAfter
         [] s.state = "unavailable" -> s.checked # Never
         [] s.state = "stale" -> s.checked # Never /\ captured - s.checked >= StaleAfter
         [] OTHER -> FALSE

\* The states that a reason may come with.
StatesFor(reason) ==
    CASE reason = "not_configured" -> {"disabled"}
      [] reason \in {"requires_tier2", "scope_unknown"} -> {"unsupported"}
      [] reason = "writer_missing" -> {"unknown"}
      [] reason = "start_pending" -> {"initializing", "degraded", "stopped"}
      [] reason = "writer_stopped" -> {"stopped"}
      [] reason = "gap" -> {"degraded", "stopped"}
      [] OTHER -> {"initializing", "recording", "degraded", "stopped"}

validImpactHistory(h) ==
    /\ \A reason \in h.reasons : h.state \in StatesFor(reason)
    /\ "start_pending" \in h.reasons => ~h.started
    /\ h.gap <=> "gap" \in h.reasons
    /\ CASE h.state = "unknown" -> ~h.started /\ ~h.gap
         [] h.state = "disabled" -> ~h.started /\ ~h.retention /\ h.reasons = {"not_configured"}
         [] h.state = "unsupported" ->
               ~h.started /\ ~h.retention /\ h.reasons \in {{"requires_tier2"}, {"scope_unknown"}}
         [] h.state = "initializing" -> ~h.started /\ h.retention /\ ~h.gap /\ "start_pending" \in h.reasons
         [] h.state = "recording" ->
               /\ h.started /\ h.retention /\ ~h.gap
               /\ h.reasons \cap {"writer_stopped", "start_pending", "storage_unavailable"} = {}
         [] h.state = "degraded" -> h.retention /\ (h.gap \/ "storage_unavailable" \in h.reasons)
         [] OTHER -> h.retention /\ "writer_stopped" \in h.reasons

\* Evidence that contradicts itself is refused (the last switch).
readImpactAvailability(s, h, captured, config) ==
    LET active == h.state \in {"initializing", "recording", "degraded", "stopped"}
    IN  /\ validImpactStorage(s, captured) /\ validImpactHistory(h)
        /\ active => config.durable
        /\ "requires_tier2" \in h.reasons => ~config.durable
        /\ "scope_unknown" \in h.reasons => config.federated
        /\ ~(h.state = "recording" /\ s.state = "unavailable")

Next == Tick \/ BeginSample \/ Publish \/ ReadStorage \/ Report
          \/ \E d \in Dependencies : Flip(d) \/ RunProbe(d)

Spec == Init /\ [][Next]_vars

-----------------------------------------------------------------------------
(* Properties. *)

Recently(d, span) == answered[d] # Never /\ clock - answered[d] <= span

\* What readers are told is no newer than what was seen.  Storage is available,
\* and history is recording without a reservation, only if the store answered
\* less than StaleAfter ago, also when the sampler no longer gets to run.  A
\* graph is degraded, and not yet stale, only if Kubernetes did.  A graph is
\* synced until the next sample says otherwise: its answer is at most an
\* interval and two rounds of probes old, if the process is scheduled promptly.
EvidenceIsFresh ==
    LET round == 2 * ProbeTimeout IN
    /\ StorageAvailability.state = "available" => Recently("storage", StaleAfter - 1)
    /\ \A writer \in Writers, config \in Configs :
       LET history == SnapshotAvailability(StorageAvailability, writer, config) IN
       history.state = "recording" /\ history.reasons = {}
         => Recently("storage", StaleAfter - 1) /\ writer.started /\ ~writer.stopped /\ ~writer.lost
    /\ prompt /\ ObservationState(TRUE) = "synced" => Recently("kubernetes", ProbeInterval + 2 * round)
    /\ ObservationState(TRUE) = "degraded" => Recently("kubernetes", StaleAfter - 1)

\* The report takes the evidence, whatever the writer said of itself.
Accepted ==
    \A writer \in Writers, config \in Configs :
        readImpactAvailability(read[1], SnapshotAvailability(read[1], writer, config), clock, config)

\* The impact report accepts the evidence of the process it runs in, whatever
\* the writer and the probes did (readImpactAvailability against
\* SnapshotAvailability); the one evidence it refuses is a store that was
\* available when read and whose probe grew stale before the evidence was dated.
OwnEvidenceAccepted ==
    read # <<>> => Accepted \/ (read[1].state = "available" /\ clock - read[1].checked >= StaleAfter)

=============================================================================
