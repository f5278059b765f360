---------------------------- MODULE MCBackground ----------------------------
(* The goroutines that work behind the API, one component per behaviour: the  *)
(* snapshot writer, the OTLP receiver, the Gatekeeper discovery, and replicas *)
(* migrating a schema.  The others stand still meanwhile.                     *)
EXTENDS SnapshotWriter

VARIABLES
    which,
    rPhase, rCancelled, rServing, rGraceful, rHandlers, rQueue, rClosed, rWorkers, rSent, rFate,
    rFaults, rPanicked,
    gApi, gPhase, gCancelled, gStarted, gManagerDone, gTemplate, gChanges, gSeen, gEvents, gMetaGap,
    gConstraint, gRevisions, gRegistered, gRuns, gStored, gEdge, gFaults, gOverlap,
    mRecorded, mRan, mPc, mAt, mCrashes

R == INSTANCE OtelReceiver WITH
        phase <- rPhase, cancelled <- rCancelled, serving <- rServing, graceful <- rGraceful,
        handlers <- rHandlers, queue <- rQueue, closed <- rClosed, workers <- rWorkers,
        sent <- rSent, fate <- rFate, faults <- rFaults, panicked <- rPanicked,
        Handlers <- {"h1", "h2"}, Workers <- {"w1", "w2"}, BufferSize <- 1, MaxBatches <- 3,
        MaxFaults <- 1
G == INSTANCE Gatekeeper WITH
        api <- gApi, phase <- gPhase, cancelled <- gCancelled, started <- gStarted,
        managerDone <- gManagerDone, template <- gTemplate, changes <- gChanges, seen <- gSeen,
        events <- gEvents, metaGap <- gMetaGap, constraint <- gConstraint,
        revisions <- gRevisions, registered <- gRegistered, runs <- gRuns, stored <- gStored,
        edge <- gEdge, faults <- gFaults, overlap <- gOverlap,
        MaxTemplates <- 2, MaxRevision <- 2, MaxFaults <- 1
M == INSTANCE Migrations WITH
        recorded <- mRecorded, ran <- mRan, pc <- mPc, at <- mAt, crashes <- mCrashes,
        Replicas <- {1, 2, 3}, Supports <- <<2, 3, 3>>, MaxCrashes <- 2

receiver == <<rPhase, rCancelled, rServing, rGraceful, rHandlers, rQueue, rClosed, rWorkers, rSent,
              rFate, rFaults, rPanicked>>
gatekeeper == <<gApi, gPhase, gCancelled, gStarted, gManagerDone, gTemplate, gChanges, gSeen, gEvents,
                gMetaGap, gConstraint, gRevisions, gRegistered, gRuns, gStored, gEdge, gFaults,
                gOverlap>>
migrations == <<mRecorded, mRan, mPc, mAt, mCrashes>>

all == <<which, vars, receiver, gatekeeper, migrations>>

\* Every other component stays as it was.
Only(x) ==
    /\ which = x /\ UNCHANGED which
    /\ x # "writer" => UNCHANGED vars
    /\ x # "receiver" => UNCHANGED receiver
    /\ x # "gatekeeper" => UNCHANGED gatekeeper
    /\ x # "migrations" => UNCHANGED migrations

MCInit ==
    /\ which \in {"writer", "receiver", "gatekeeper", "migrations"}
    /\ Init /\ R!Init /\ G!Init /\ M!Init
    /\ which # "gatekeeper" => gApi = "served" /\ gTemplate = "none"

\* Where a component has come to its end.
AtEnd ==
    \/ which = "receiver" /\ rPhase = "returned"
    \/ which = "gatekeeper" /\ gPhase = "returned"
    \/ which = "migrations" /\ \A r \in {1, 2, 3} : mPc[r] \in {"open", "refused"}

MCNext ==
    \/ Only("writer") /\ Next
    \/ Only("receiver") /\ R!Next
    \/ Only("gatekeeper") /\ G!Next
    \/ Only("migrations") /\ M!Next
    \/ AtEnd /\ UNCHANGED all

\* The fairness of each component, for the steps it takes when it is the one
\* that runs.
Fair ==
    /\ \A p \in Producers : WF_all(Only("writer") /\ ~panicked /\ EnqueueStep(p))
    /\ WF_all(Only("receiver") /\ R!StartStep)
    /\ \A h \in {"h1", "h2"} : WF_all(Only("receiver") /\ R!Export(h))
    /\ \A w \in {"w1", "w2"} : WF_all(Only("receiver") /\ R!WorkerStep(w))
    /\ WF_all(Only("gatekeeper") /\ G!StartStep) /\ WF_all(Only("gatekeeper") /\ G!ManagerStep)
    /\ WF_all(Only("gatekeeper") /\ G!TemplateStep)
    /\ \A i \in 1..G!MaxRuns :
          /\ SF_all(Only("gatekeeper") /\ i \in G!Ids /\ G!ObserveConstraint(i))
          /\ WF_all(Only("gatekeeper") /\ i \in G!Ids /\ G!Resync(i))
          /\ WF_all(Only("gatekeeper") /\ i \in G!Ids /\ G!CallbackStep(i))
    /\ \A r \in {1, 2, 3} : WF_all(Only("migrations") /\ M!Step(r))

MCSpec == MCInit /\ [][MCNext]_all /\ Fair

-----------------------------------------------------------------------------
\* OtelReceiver: no Export sends on the closed queue, and a receiver that has
\* returned has dealt with every batch.
ReceiverSound == R!ReceiverSound

\* Gatekeeper: one informer for a template's kind, and a graph that follows it
\* but for callbacks that outlive their registration.
RegistrationSound == G!RegistrationSound

\* Migrations: each takes effect once, with its version, whoever dies when.
MigratedOnce == M!MigratedOnce

\* Whatever is to end ends: an Enqueue and a Stop of the writer, a receiver
\* whose context is cancelled, and the migrations of every replica that its
\* binary's age does not keep out.
BackgroundSettles ==
    /\ EnqueueReturns /\ StopReturns
    /\ R!ReceiverReturns
    /\ which = "migrations" => M!ReplicasSettle

\* Gatekeeper: a usable template whose constraint stays is followed, failures
\* and overlapping registrations included.
ConstraintsAppear == which = "gatekeeper" => G!ConstraintsAppear
=============================================================================
