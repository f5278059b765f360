--------------------------- MODULE SnapshotWriter ---------------------------
(***************************************************************************)
(* pkg/snapshot/writer.go: the queue and worker pool between the informer  *)
(* handlers and the event store.  Enqueue is not atomic: it loads the      *)
(* closed flag, tries to send, drops the oldest event when the buffer is   *)
(* full and tries once more, and other producers, the workers and Stop run *)
(* between those steps.  Stop, too, is three steps: swap the flag, close   *)
(* the channel, wait for the workers.  A drop and the increment of its     *)
(* counter are one step: nothing decides on the counter in between.        *)
(***************************************************************************)
EXTENDS Integers, Sequences, FiniteSets

CONSTANTS
    Producers,      \* informer handler goroutines calling Enqueue
    Workers,        \* Config.Workers goroutines
    Stoppers,       \* callers of Stop (main calls it once; a second is allowed)
    QueueSize,      \* Config.QueueSize
    MaxRetries,     \* maxRetries
    MaxOffered,     \* bound: how many Enqueue calls are explored
    Joined,         \* the producers that have returned before Stop is called
    CtxCancels,     \* whether Stop follows the cancellation of Start's context
    SinkHonoursCtx, \* AppendEvent fails once its context is cancelled (Postgres)
    SinkFails       \* AppendEvent may fail for any other reason

ASSUME WriterAssumption ==
    /\ IsFiniteSet(Producers) /\ IsFiniteSet(Workers) /\ Workers # {}
    /\ QueueSize \in Nat \ {0} /\ MaxRetries \in Nat \ {0} /\ MaxOffered \in Nat
    /\ Joined \subseteq Producers
    /\ CtxCancels \in BOOLEAN /\ SinkHonoursCtx \in BOOLEAN /\ SinkFails \in BOOLEAN

VARIABLES
    started,        \* Start has spawned the workers (Writer.observation)
    ctxDone,        \* the context given to Start is cancelled
    closed,         \* Writer.closed
    chanClosed,     \* the channel itself is closed
    queue,          \* the buffered channel
    ppc, pitem,     \* per producer: where it is in Enqueue, and its event
    wpc, witem,     \* per worker: idle, busy or exited, and the event it holds
    attempt,        \* per worker: the attempt of writeWithRetry it is on
    spc,            \* per stopper: where it is in Stop
    panicked,       \* a goroutine panicked: the process is gone
    offered,        \* Enqueue calls so far; an event is numbered by its call
    processed, failed, dropped,  \* Metrics
    history         \* the events AppendEvent stored, in the order it stored them

vars == <<started, ctxDone, closed, chanClosed, queue, ppc, pitem, wpc, witem,
          attempt, spc, panicked, offered, processed, failed, dropped, history>>

channel  == <<closed, chanClosed, queue>>
producer == <<ppc, pitem, offered>>
worker   == <<wpc, witem, attempt, processed, failed, history>>

NoEvent == [src |-> "none", n |-> 0]
Events == [src : Producers, n : 1..MaxOffered]

TypeOK ==
    /\ started \in BOOLEAN /\ ctxDone \in BOOLEAN /\ closed \in BOOLEAN
    /\ chanClosed \in BOOLEAN /\ panicked \in BOOLEAN
    /\ queue \in Seq(Events) /\ Len(queue) <= QueueSize
    /\ ppc \in [Producers -> {"idle", "send", "full", "retry", "panicked"}]
    /\ pitem \in [Producers -> Events \cup {NoEvent}]
    /\ \A p \in Producers : ppc[p] # "idle" => pitem[p] \in Events
    /\ wpc \in [Workers -> {"none", "idle", "busy", "exited"}]
    /\ witem \in [Workers -> Events \cup {NoEvent}]
    /\ \A w \in Workers : wpc[w] = "busy" => witem[w] \in Events
    /\ attempt \in [Workers -> 1..MaxRetries]
    /\ spc \in [Stoppers -> {"idle", "close", "wait", "done"}]
    /\ offered \in 0..MaxOffered
    /\ processed \in Nat /\ failed \in Nat /\ dropped \in Nat
    /\ history \in Seq(Events)

Init ==
    /\ started = FALSE /\ ctxDone = FALSE /\ closed = FALSE /\ chanClosed = FALSE
    /\ queue = <<>> /\ history = <<>>
    /\ ppc = [p \in Producers |-> "idle"] /\ pitem = [p \in Producers |-> NoEvent]
    /\ wpc = [w \in Workers |-> "none"] /\ witem = [w \in Workers |-> NoEvent]
    /\ attempt = [w \in Workers |-> 1]
    /\ spc = [s \in Stoppers |-> "idle"]
    /\ panicked = FALSE
    /\ offered = 0 /\ processed = 0 /\ failed = 0 /\ dropped = 0

\* Start: record the observation, spawn the workers.
Start ==
    /\ ~started
    /\ started' = TRUE
    /\ wpc' = [w \in Workers |-> "idle"]
    /\ UNCHANGED <<ctxDone, channel, producer, witem, attempt, processed, failed, history,
                   spc, panicked, dropped>>

\* runWatch cancels the context the workers were started with.
Cancel ==
    /\ CtxCancels /\ started /\ ~ctxDone
    /\ ctxDone' = TRUE
    /\ UNCHANGED <<started, channel, producer, worker, spc, panicked, dropped>>

-----------------------------------------------------------------------------
(* Enqueue *)

Stopping == \E s \in Stoppers : spc[s] # "idle"

\* The closed check: a closed writer counts the event as a drop and returns.
EnqueueLoad(p) ==
    /\ ppc[p] = "idle" /\ started /\ offered < MaxOffered
    /\ p \in Joined => ~Stopping
    /\ offered' = offered + 1
    /\ IF closed
       THEN dropped' = dropped + 1 /\ UNCHANGED <<ppc, pitem>>
       ELSE /\ ppc' = [ppc EXCEPT ![p] = "send"]
            /\ pitem' = [pitem EXCEPT ![p] = [src |-> p, n |-> offered + 1]]
            /\ UNCHANGED dropped
    /\ UNCHANGED <<started, ctxDone, channel, worker, spc, panicked>>

\* A send on the closed channel panics; into a free slot it returns.
Panic(p) ==
    /\ chanClosed
    /\ panicked' = TRUE
    /\ ppc' = [ppc EXCEPT ![p] = "panicked"]
    /\ UNCHANGED <<queue, pitem, dropped>>

Send(p) ==
    /\ ~chanClosed /\ Len(queue) < QueueSize
    /\ queue' = Append(queue, pitem[p])
    /\ ppc' = [ppc EXCEPT ![p] = "idle"]
    /\ pitem' = [pitem EXCEPT ![p] = NoEvent]
    /\ UNCHANGED <<panicked, dropped>>

EnqueueTrySend(p) ==
    /\ ppc[p] = "send"
    /\ \/ Panic(p)
       \/ Send(p)
       \/ /\ ~chanClosed /\ Len(queue) >= QueueSize
          /\ ppc' = [ppc EXCEPT ![p] = "full"]
          /\ UNCHANGED <<queue, pitem, panicked, dropped>>
    /\ UNCHANGED <<started, ctxDone, closed, chanClosed, offered, worker, spc>>

\* Drop the oldest.  The workers may have emptied the buffer since; a receive
\* from a closed and empty channel succeeds too and is counted.
EnqueueDropOldest(p) ==
    /\ ppc[p] = "full"
    /\ IF queue # <<>>
       THEN queue' = Tail(queue) /\ dropped' = dropped + 1
       ELSE UNCHANGED queue /\ dropped' = IF chanClosed THEN dropped + 1 ELSE dropped
    /\ ppc' = [ppc EXCEPT ![p] = "retry"]
    /\ UNCHANGED <<started, ctxDone, closed, chanClosed, pitem, offered, worker, spc, panicked>>

\* The second attempt; if another producer took the slot the event is dropped.
EnqueueRetry(p) ==
    /\ ppc[p] = "retry"
    /\ \/ Panic(p)
       \/ Send(p)
       \/ /\ ~chanClosed /\ Len(queue) >= QueueSize
          /\ dropped' = dropped + 1
          /\ ppc' = [ppc EXCEPT ![p] = "idle"]
          /\ pitem' = [pitem EXCEPT ![p] = NoEvent]
          /\ UNCHANGED <<queue, panicked>>
    /\ UNCHANGED <<started, ctxDone, closed, chanClosed, offered, worker, spc>>

EnqueueStep(p) == EnqueueTrySend(p) \/ EnqueueDropOldest(p) \/ EnqueueRetry(p)

-----------------------------------------------------------------------------
(* The workers *)

Take(w) ==
    /\ wpc[w] = "idle" /\ queue # <<>>
    /\ wpc' = [wpc EXCEPT ![w] = "busy"]
    /\ witem' = [witem EXCEPT ![w] = Head(queue)]
    /\ attempt' = [attempt EXCEPT ![w] = 1]
    /\ queue' = Tail(queue)
    /\ UNCHANGED <<started, ctxDone, closed, chanClosed, producer, processed, failed, history,
                   spc, panicked, dropped>>

\* As if a worker left as soon as the channel is closed.
ExitUndrained(w) ==
    /\ wpc[w] = "idle" /\ chanClosed
    /\ wpc' = [wpc EXCEPT ![w] = "exited"]
    /\ UNCHANGED <<started, ctxDone, channel, producer, witem, attempt, processed, failed, history,
                   spc, panicked, dropped>>

\* The range loop ends when the channel is closed and drained.
Exit(w) ==
    /\ wpc[w] = "idle" /\ chanClosed /\ queue = <<>>
    /\ wpc' = [wpc EXCEPT ![w] = "exited"]
    /\ UNCHANGED <<started, ctxDone, channel, producer, witem, attempt, processed, failed, history,
                   spc, panicked, dropped>>

SinkRefuses == ctxDone /\ SinkHonoursCtx

\* As if the retry loop went round again after a success.
AttemptSucceedsTwice(w) ==
    /\ wpc[w] = "busy" /\ ~SinkRefuses
    /\ history' = Append(history, witem[w])
    /\ IF attempt[w] < MaxRetries
       THEN attempt' = [attempt EXCEPT ![w] = @ + 1] /\ UNCHANGED <<wpc, witem, processed>>
       ELSE /\ wpc' = [wpc EXCEPT ![w] = "idle"] /\ witem' = [witem EXCEPT ![w] = NoEvent]
            /\ processed' = processed + 1 /\ UNCHANGED attempt
    /\ UNCHANGED <<started, ctxDone, channel, producer, failed, spc, panicked, dropped>>

AttemptSucceeds(w) ==
    /\ wpc[w] = "busy" /\ ~SinkRefuses
    /\ history' = Append(history, witem[w])
    /\ processed' = processed + 1
    /\ wpc' = [wpc EXCEPT ![w] = "idle"]
    /\ witem' = [witem EXCEPT ![w] = NoEvent]
    /\ UNCHANGED <<started, ctxDone, channel, producer, attempt, failed, spc, panicked, dropped>>

\* As if the writer retried forever.
AttemptFailsForever(w) ==
    /\ wpc[w] = "busy" /\ (SinkFails \/ SinkRefuses)
    /\ UNCHANGED vars

\* As if an event given up on were not counted.
AttemptFailsUncounted(w) ==
    /\ wpc[w] = "busy" /\ (SinkFails \/ SinkRefuses)
    /\ IF attempt[w] = MaxRetries
       THEN /\ wpc' = [wpc EXCEPT ![w] = "idle"]
            /\ witem' = [witem EXCEPT ![w] = NoEvent]
            /\ UNCHANGED attempt
       ELSE /\ attempt' = [attempt EXCEPT ![w] = @ + 1]
            /\ UNCHANGED <<wpc, witem>>
    /\ UNCHANGED <<started, ctxDone, channel, producer, processed, failed, history, spc,
                   panicked, dropped>>

\* A failed attempt: the last one gives the event up.
AttemptFails(w) ==
    /\ wpc[w] = "busy" /\ (SinkFails \/ SinkRefuses)
    /\ IF attempt[w] = MaxRetries
       THEN /\ failed' = failed + 1
            /\ wpc' = [wpc EXCEPT ![w] = "idle"]
            /\ witem' = [witem EXCEPT ![w] = NoEvent]
            /\ UNCHANGED attempt
       ELSE /\ attempt' = [attempt EXCEPT ![w] = @ + 1]
            /\ UNCHANGED <<failed, wpc, witem>>
    /\ UNCHANGED <<started, ctxDone, channel, producer, processed, history, spc, panicked, dropped>>

WorkerStep(w) == Take(w) \/ Exit(w) \/ AttemptSucceeds(w) \/ AttemptFails(w)

-----------------------------------------------------------------------------
(* Stop *)

\* As if the flag were read and set in two operations with no swap: a second
\* caller gets as far as the close.
StopSwapUnguarded(s) ==
    /\ spc[s] = "idle" /\ started /\ (CtxCancels => ctxDone)
    /\ \A p \in Joined : ppc[p] = "idle"
    /\ spc' = [spc EXCEPT ![s] = "close"]
    /\ closed' = TRUE
    /\ UNCHANGED <<started, ctxDone, chanClosed, queue, producer, worker, panicked, dropped>>

\* Swap the flag; whoever finds it set returns at once.
StopSwap(s) ==
    /\ spc[s] = "idle" /\ started /\ (CtxCancels => ctxDone)
    /\ \A p \in Joined : ppc[p] = "idle"
    /\ spc' = [spc EXCEPT ![s] = IF closed THEN "done" ELSE "close"]
    /\ closed' = TRUE
    /\ UNCHANGED <<started, ctxDone, chanClosed, queue, producer, worker, panicked, dropped>>

\* Closing a closed channel panics.
StopClose(s) ==
    /\ spc[s] = "close"
    /\ IF chanClosed
       THEN panicked' = TRUE /\ UNCHANGED <<chanClosed, spc>>
       ELSE /\ chanClosed' = TRUE
            /\ spc' = [spc EXCEPT ![s] = "wait"]
            /\ UNCHANGED panicked
    /\ UNCHANGED <<started, ctxDone, closed, queue, producer, worker, dropped>>

\* wg.Wait
StopReturn(s) ==
    /\ spc[s] = "wait" /\ \A w \in Workers : wpc[w] = "exited"
    /\ spc' = [spc EXCEPT ![s] = "done"]
    /\ UNCHANGED <<started, ctxDone, channel, producer, worker, panicked, dropped>>

StopStep(s) == StopSwap(s) \/ StopClose(s) \/ StopReturn(s)

\* The process ended: a panic, or every Stop returned.
Ended == panicked \/ \A s \in Stoppers : spc[s] = "done"
Finished == Ended /\ UNCHANGED vars

Step ==
    \/ Start \/ Cancel
    \/ \E p \in Producers : EnqueueLoad(p) \/ EnqueueStep(p)
    \/ \E w \in Workers : WorkerStep(w)
    \/ \E s \in Stoppers : StopStep(s)

Next == (~panicked /\ Step) \/ Finished

Spec == Init /\ [][Next]_vars

\* A goroutine inside Enqueue runs to its end; nothing else need move.
LiveSpec == Spec /\ \A p \in Producers : WF_vars(~panicked /\ EnqueueStep(p))

\* The scheduler also runs the workers and a Stop that has begun.
Scheduled ==
    /\ \A w \in Workers : WF_vars(~panicked /\ WorkerStep(w))
    /\ \A s \in Stoppers : WF_vars(~panicked /\ (StopClose(s) \/ StopReturn(s)))

-----------------------------------------------------------------------------
(* historyAvailability: what the analysis API reports of the recording. *)

HistoryState ==
    CASE closed \/ (started /\ ctxDone) -> "stopped"
      [] ~(closed \/ (started /\ ctxDone)) /\ (dropped > 0 \/ failed > 0) -> "degraded"
      [] OTHER -> IF started THEN "recording" ELSE "initializing"

-----------------------------------------------------------------------------
(* What has to hold. *)

Holding == {p \in Producers : ppc[p] # "idle"}
Busy == {w \in Workers : wpc[w] = "busy"}

\* No producer is inside Enqueue once the channel is closed.
Quiet == chanClosed => Holding = {}

\* Every event handed to Enqueue is in exactly one bucket: counted as
\* processed, failed or dropped, buffered, held by a worker, or still inside
\* Enqueue.  What /metrics reports adds up, whatever the interleaving.
Accounting ==
    Quiet => offered = processed + failed + dropped
                         + Len(queue) + Cardinality(Holding) + Cardinality(Busy)

Numbers(seq) == {seq[i].n : i \in 1..Len(seq)}
Pending == Numbers(queue) \cup {pitem[p].n : p \in Holding} \cup {witem[w].n : w \in Busy}

\* No event is stored twice or both stored and still pending: the drop in
\* Enqueue and the receive in a worker never hand out the same event.
OnePlace ==
    Cardinality(Pending \cup Numbers(history)) =
        Len(queue) + Cardinality(Holding) + Cardinality(Busy) + Len(history)

\* An event that is neither pending nor stored shows in what the analysis API
\* says of the history: historyAvailability never says "recording" over a loss.
LossIsVisible ==
    \A n \in 1..offered : n \notin Pending \cup Numbers(history) =>
        HistoryState \in {"degraded", "stopped"}

\* Enqueue and the workers: an event is in one place at a time, and one that is
\* neither pending nor stored shows in what historyAvailability says.
EventsTraced == OnePlace /\ LossIsVisible

\* Once a Stop that closed the channel has returned, no worker holds an event
\* and the buffer is empty: "lets workers drain every buffered event".
StoppedIsDrained ==
    (\A w \in Workers : wpc[w] = "exited") => queue = <<>>

\* Neither a send on the closed channel nor a second close of it happens,
\* except for a handler that is still running when Stop is called.
NoPanic == panicked => \E p \in Producers \ Joined : ppc[p] = "panicked"

\* "it never blocks and never panics" (writer.go).
NeverPanics == ~panicked

\* With a sink that fails only for its context, whatever was accepted by
\* Enqueue is in the store once the workers are gone.
DrainedToStore == ((\A w \in Workers : wpc[w] = "exited") /\ started) => failed = 0

\* Enqueue returns whatever the workers and Stop do: only the calling
\* goroutine has to be scheduled.
EnqueueReturns == \A p \in Producers : (ppc[p] # "idle") ~> (ppc[p] = "idle" \/ panicked)

\* Every call of Stop returns: the workers drain the queue within their retry
\* budgets.  (Each caller calls once, so once no call is under way all are over.)
StopReturns ==
    LET over == \A s \in Stoppers : spc[s] \in {"idle", "done"}
    IN  Scheduled => (~over ~> (over \/ panicked))
=============================================================================
