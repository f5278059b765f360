----------------------------- MODULE MCEvidence -----------------------------
(* What is kept about the graph and what is concluded from it, one component   *)
(* per behaviour: bounded reads of the stores, the history with its retention  *)
(* and diff, the span correlator, the operational monitor, and the window over *)
(* which an impact report reads its evidence.                                  *)
EXTENDS Projection

\* One row is the most that a read may return; two are in scope.
MCSize == [r \in Rows |-> 100 * r]
MCMax == [p \in Parts |-> 1]

\* A call chain of three services, two calls of one pair, and a service that is
\* found only by the pod or the name its spans give.
Span(i, parent, service, dep, pod, start) ==
    [id |-> i, parent |-> parent, service |-> service, ns |-> "shop", dep |-> dep, pod |-> pod,
     start |-> start]
MCSpans == {Span("a", "", "web", "web", "", 0), Span("b", "a", "cart", "", "cart-0", 1),
            Span("c", "a", "cart", "", "", 1), Span("d", "b", "cart", "", "", 2)}
MCResources == {<<"shop", "Deployment", "web">>, <<"shop", "Pod", "cart-0">>,
                <<"shop", "StatefulSet", "cart">>}

\* A writer in every state, under every configuration that changes the answer.
MCWriters == [started : BOOLEAN, stopped : BOOLEAN, lost : BOOLEAN, pending : BOOLEAN]
On == [enabled |-> TRUE, durable |-> TRUE, federated |-> FALSE, writer |-> TRUE]
MCConfigs == {On, [On EXCEPT !.enabled = FALSE], [On EXCEPT !.durable = FALSE],
              [On EXCEPT !.federated = TRUE], [On EXCEPT !.writer = FALSE]}

\* A report about everything, and one with each thing left out.
Full == [available |-> TRUE, applicable |-> TRUE, known |-> TRUE, complete |-> TRUE, empty |-> TRUE]
MCRequests == {Full, [Full EXCEPT !.available = FALSE], [Full EXCEPT !.known = FALSE],
               [Full EXCEPT !.applicable = FALSE], [Full EXCEPT !.complete = FALSE],
               [Full EXCEPT !.empty = FALSE]}

VARIABLES
    which,
    hClock, hLife, hObserved, hQueue, hBusy, hLost, hStream, hKept, hCutoff, hMarker, hReading,
    hEvidence,
    cClock, cPresent, cTable, cEdges, cPass, cPrune, cEverStored, cWrites, cFaults,
    mPrompt, mClock, mUp, mTicker, mAt, mNow, mSince, mResult, mSnapshot, mAnswered, mRead,
    wGeneration, wRows, wSources, wInventory, wChanges, wPhase, wRequest, wBefore, wAfter, wTouched

H == INSTANCE History WITH
        clock <- hClock, life <- hLife, observed <- hObserved, queue <- hQueue, busy <- hBusy,
        lost <- hLost, stream <- hStream, kept <- hKept, cutoff <- hCutoff, marker <- hMarker,
        reading <- hReading, evidence <- hEvidence,
        Uids <- {"u1", "u2"}, Workers <- {"w1"}, Retention <- 1, Cap <- 2, Batch <- 1,
        ReadTimeout <- 1, MaxEvents <- 3, MaxClock <- 4
C == INSTANCE Correlator WITH
        clock <- cClock, present <- cPresent, table <- cTable, edges <- cEdges, pass <- cPass,
        prune <- cPrune, everStored <- cEverStored, writes <- cWrites,
        faults <- cFaults, Spans <- MCSpans, Resources <- MCResources,
        Window <- 2, Retention <- 1, Limit <- 3, Batch <- 1, MaxClock <- 4, MaxFaults <- 1,
        MaxWrites <- 2
M == INSTANCE Monitor WITH
        prompt <- mPrompt, clock <- mClock, up <- mUp, ticker <- mTicker, at <- mAt, now <- mNow,
        since <- mSince, result <- mResult, snapshot <- mSnapshot, answered <- mAnswered,
        read <- mRead, ProbeInterval <- 2, ProbeTimeout <- 1, StaleAfter <- 4,
        Writers <- MCWriters, Configs <- MCConfigs, MaxClock <- 7
W == INSTANCE ImpactWindow WITH
        generation <- wGeneration, rows <- wRows, sources <- wSources, inventory <- wInventory,
        changes <- wChanges, phase <- wPhase, request <- wRequest, before <- wBefore,
        after <- wAfter, touched <- wTouched,
        Types <- {"pods", "routes"}, Authorization <- {"pods"}, Optional <- {"routes"},
        Requests <- MCRequests, MaxChanges <- 3

history == <<hClock, hLife, hObserved, hQueue, hBusy, hLost, hStream, hKept, hCutoff, hMarker,
             hReading, hEvidence>>
correlator == <<cClock, cPresent, cTable, cEdges, cPass, cPrune, cEverStored, cWrites,
                cFaults>>
monitor == <<mPrompt, mClock, mUp, mTicker, mAt, mNow, mSince, mResult, mSnapshot, mAnswered, mRead>>
window == <<wGeneration, wRows, wSources, wInventory, wChanges, wPhase, wRequest, wBefore, wAfter,
            wTouched>>
all == <<which, vars, history, correlator, monitor, window>>

\* Every other component stays as it was.
Only(x) ==
    /\ which = x /\ UNCHANGED which
    /\ x # "projection" => UNCHANGED vars
    /\ x # "history" => UNCHANGED history
    /\ x # "correlator" => UNCHANGED correlator
    /\ x # "monitor" => UNCHANGED monitor
    /\ x # "window" => UNCHANGED window

\* Components that are not there in a behaviour.
NoMonitor ==
    /\ mPrompt = TRUE /\ mClock = 0 /\ mUp = <<>> /\ mTicker = 0 /\ mAt = "" /\ mNow = 0
    /\ mSince = 0 /\ mResult = <<>> /\ mSnapshot = <<>> /\ mAnswered = <<>> /\ mRead = <<>>
NoWindow ==
    /\ wGeneration = 0 /\ wRows = <<>> /\ wSources = <<>> /\ wInventory = {} /\ wChanges = 0
    /\ wPhase = "" /\ wRequest = <<>> /\ wBefore = <<>> /\ wAfter = <<>> /\ wTouched = {}
Untouched == stored = Empty /\ backend = "memory" /\ kind = "graph"

MCInit ==
    /\ which \in {"projection", "history", "correlator", "monitor", "window"}
    /\ Init /\ (which # "projection" => Untouched)
    /\ H!Init /\ C!Init /\ (which # "correlator" => cPresent = {})
    /\ IF which = "monitor" THEN M!Init ELSE NoMonitor
    /\ IF which = "window" THEN W!Init ELSE NoWindow

MCNext ==
    \/ Only("projection") /\ Next
    \/ Only("history") /\ H!Next
    \/ Only("correlator") /\ C!Next
    \/ Only("monitor") /\ M!Next
    \/ Only("window") /\ W!Next

MCSpec == MCInit /\ [][MCNext]_all

-----------------------------------------------------------------------------
\* History: a diff takes nothing that is gone for present, or the reverse.
DiffTellsWhatIsThere == which = "history" => H!DiffTellsWhatIsThere

\* Correlator: what a runtime edge says was observed.
EdgesAreCalls == which = "correlator" => C!EdgesAreCalls

\* History and Monitor: what they publish of themselves is fresh, and passes
\* the checks that the impact report makes of it.
EvidenceSound ==
    /\ which = "history" => H!EvidenceValidates
    /\ which = "monitor" => M!EvidenceIsFresh /\ M!OwnEvidenceAccepted

\* ImpactWindow: what a report claims held while the graph was read.
ReportCoversWindow == which = "window" => W!ReportCoversWindow
=============================================================================
