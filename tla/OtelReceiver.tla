---------------------------- MODULE OtelReceiver ----------------------------
(* pkg/otel/receiver.go: the OTLP receiver.  Export handlers put batches into a *)
(* bounded queue or drop them; workers write them; the shutdown stops the gRPC *)
(* server, closes the queue and waits for the workers.  A batch is a number.   *)
EXTENDS Integers, Sequences, FiniteSets, SequencesExt

CONSTANTS
    Handlers,     \* RPCs that can be in flight at the same time
    Workers,      \* writeWorkers
    BufferSize,   \* capacity of the queue
    MaxBatches,   \* bound: batches sent
    MaxFaults     \* bound: writes that fail or panic

VARIABLES
    phase,      \* Start: "serving", "stopping" (in stopGRPC), "draining" (wg.Wait), "parked", "returned"
    cancelled,  \* the context of Start is cancelled
    serving,    \* Serve has not returned
    graceful,   \* GracefulStop has returned
    handlers,   \* the batch a running handler holds, 0 for none
    queue, closed,
    workers,    \* the batch a worker writes, 0 for none, -1 once the worker has returned
    sent,       \* batches sent so far
    fate,       \* what became of each batch that is done with
    faults,
    panicked    \* a handler sent on the closed queue

vars == <<phase, cancelled, serving, graceful, handlers, queue, closed, workers, sent, fate, faults,
          panicked>>

Init ==
    /\ phase = "serving" /\ cancelled = FALSE /\ serving = TRUE /\ graceful = FALSE
    /\ handlers = [h \in Handlers |-> 0] /\ queue = <<>> /\ closed = FALSE
    /\ workers = [w \in Workers |-> 0]
    /\ sent = 0 /\ fate = <<>> /\ faults = 0 /\ panicked = FALSE

Cancel ==
    /\ ~cancelled /\ cancelled' = TRUE
    /\ UNCHANGED <<phase, serving, graceful, handlers, queue, closed, workers, sent, fate, faults,
                   panicked>>

\* The listener breaks: Serve returns; connections and handlers live on.
ServeFails ==
    /\ serving /\ phase = "serving" /\ faults < MaxFaults
    /\ serving' = FALSE /\ faults' = faults + 1
    /\ UNCHANGED <<phase, cancelled, graceful, handlers, queue, closed, workers, sent, fate, panicked>>

\* The server starts a handler, as long as it is not being stopped.
Accept(h) ==
    /\ phase = "serving" /\ handlers[h] = 0 /\ sent < MaxBatches
    /\ sent' = sent + 1
    /\ handlers' = [handlers EXCEPT ![h] = sent + 1] /\ fate' = Append(fate, "received")
    /\ UNCHANGED <<phase, cancelled, serving, graceful, queue, closed, workers, faults, panicked>>

\* Export: the send never blocks; a full queue drops the batch.
Export(h) ==
    /\ handlers[h] # 0
    /\ handlers' = [handlers EXCEPT ![h] = 0]
    /\ panicked' = (panicked \/ closed)
    /\ IF closed \/ Len(queue) = BufferSize
       THEN fate' = [fate EXCEPT ![handlers[h]] = "dropped"] /\ UNCHANGED queue
       ELSE queue' = Append(queue, handlers[h]) /\ UNCHANGED fate
    /\ UNCHANGED <<phase, cancelled, serving, graceful, closed, workers, sent, faults>>

-----------------------------------------------------------------------------
(* Start, after the listener is up. *)

BeginStop ==
    /\ phase = "serving" /\ (cancelled \/ ~serving)
    /\ phase' = "stopping"
    /\ UNCHANGED <<cancelled, serving, graceful, handlers, queue, closed, workers, sent, fate, faults,
                   panicked>>

\* GracefulStop returns when no handler is left, after Stop has been called as
\* well: Stop closes the connections and does not end the handlers.
GracefulStop ==
    /\ phase = "stopping" /\ ~graceful /\ \A h \in Handlers : handlers[h] = 0
    /\ graceful' = TRUE /\ serving' = FALSE
    /\ UNCHANGED <<phase, cancelled, handlers, queue, closed, workers, sent, fate, faults, panicked>>

\* As if stopGRPC did not wait for done after the grace period.
CloseQueueAfterStop ==
    /\ phase = "stopping"
    /\ closed' = TRUE /\ phase' = "draining"
    /\ UNCHANGED <<cancelled, serving, graceful, handlers, queue, workers, sent, fate, faults, panicked>>

\* stopGRPC has returned; close(r.queue).
CloseQueue ==
    /\ phase = "stopping" /\ graceful
    /\ closed' = TRUE /\ phase' = "draining"
    /\ UNCHANGED <<cancelled, serving, graceful, handlers, queue, workers, sent, fate, faults, panicked>>

\* r.wg.Wait() returns; without a cancelled context Start stays parked.
WorkersDone ==
    /\ phase = "draining" /\ \A w \in Workers : workers[w] = -1
    /\ phase' = "parked"
    /\ UNCHANGED <<cancelled, serving, graceful, handlers, queue, closed, workers, sent, fate, faults,
                   panicked>>

Return ==
    /\ phase = "parked" /\ cancelled
    /\ phase' = "returned"
    /\ UNCHANGED <<cancelled, serving, graceful, handlers, queue, closed, workers, sent, fate, faults,
                   panicked>>

-----------------------------------------------------------------------------
(* worker and writeBatch. *)

Take(w) ==
    /\ workers[w] = 0 /\ queue # <<>>
    /\ workers' = [workers EXCEPT ![w] = Head(queue)] /\ queue' = Tail(queue)
    /\ UNCHANGED <<phase, cancelled, serving, graceful, handlers, closed, sent, fate, faults, panicked>>

Exit(w) ==
    /\ workers[w] = 0 /\ queue = <<>> /\ closed
    /\ workers' = [workers EXCEPT ![w] = -1]
    /\ UNCHANGED <<phase, cancelled, serving, graceful, handlers, queue, closed, sent, fate, faults,
                   panicked>>

\* A write that fails, times out or panics is logged; the worker goes on.
WriteBatch(w) ==
    /\ workers[w] > 0
    /\ workers' = [workers EXCEPT ![w] = 0]
    /\ \/ fate' = [fate EXCEPT ![workers[w]] = "written"] /\ UNCHANGED faults
       \/ faults < MaxFaults /\ faults' = faults + 1
          /\ fate' = [fate EXCEPT ![workers[w]] = "failed"]
    /\ UNCHANGED <<phase, cancelled, serving, graceful, handlers, queue, closed, sent, panicked>>

\* What Start does, and what a worker does.
StartStep == BeginStop \/ GracefulStop \/ CloseQueue \/ WorkersDone \/ Return
WorkerStep(w) == Take(w) \/ Exit(w) \/ WriteBatch(w)

Next ==
    \/ Cancel \/ ServeFails \/ StartStep
    \/ \E h \in Handlers : Accept(h) \/ Export(h)
    \/ \E w \in Workers : WorkerStep(w)

\* Goroutines that can run are scheduled.
Fairness ==
    /\ WF_vars(StartStep)
    /\ \A h \in Handlers : WF_vars(Export(h))
    /\ \A w \in Workers : WF_vars(WorkerStep(w))

Spec == Init /\ [][Next]_vars /\ Fairness

-----------------------------------------------------------------------------
(* Properties. *)

\* No Export sends on the closed queue (the process would panic), and a
\* receiver that has returned has dealt with every batch it answered: each was
\* written, or dropped at a full queue, or failed at the store.
ReceiverSound ==
    /\ ~panicked
    /\ phase \in {"parked", "returned"} =>
          /\ \A h \in Handlers : handlers[h] = 0
          /\ \A b \in 1..sent : fate[b] \in {"written", "dropped", "failed"}

\* A cancelled receiver returns, whatever clients and the store do.
ReceiverReturns == cancelled ~> phase = "returned"
=============================================================================
