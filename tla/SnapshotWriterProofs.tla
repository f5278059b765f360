------------------------ MODULE SnapshotWriterProofs ------------------------
(***************************************************************************)
(* Proofs about SnapshotWriter for every number of handlers, workers and   *)
(* stoppers and every queue size: the counters account for every event,    *)
(* no event is in two places and none is lost unseen, a stopped writer is  *)
(* drained, and with the handlers joined before Stop no goroutine panics.  *)
(***************************************************************************)
EXTENDS SnapshotWriter, FiniteSetTheorems, TLAPS

\* What each counter step does to the cardinality it is balanced against.
LEMMA CardAdd ==
    ASSUME NEW S, IsFiniteSet(S), NEW x, x \notin S
    PROVE  Cardinality(S \cup {x}) = Cardinality(S) + 1
BY FS_AddElement

LEMMA CardRemove ==
    ASSUME NEW S, IsFiniteSet(S), NEW x \in S
    PROVE  Cardinality(S \ {x}) = Cardinality(S) - 1
BY FS_RemoveElement

LEMMA HoldingFinite == IsFiniteSet(Holding) /\ Cardinality(Holding) \in Nat
BY WriterAssumption, FS_Subset, FS_CardinalityType DEF Holding

LEMMA BusyFinite == IsFiniteSet(Busy) /\ Cardinality(Busy) \in Nat
BY WriterAssumption, FS_Subset, FS_CardinalityType DEF Busy

LEMMA TypeInit == Init => TypeOK
<1> SUFFICES ASSUME Init PROVE TypeOK
  OBVIOUS
<1>1. queue \in Seq(Events) /\ Len(queue) <= QueueSize /\ history \in Seq(Events)
  BY WriterAssumption DEF Init
<1>2. 1 \in 1..MaxRetries /\ 0 \in 0..MaxOffered
  BY WriterAssumption
<1> QED BY <1>1, <1>2 DEF Init, TypeOK

LEMMA TypeNext == TypeOK /\ [Next]_vars => TypeOK'
<1> SUFFICES ASSUME TypeOK, [Next]_vars PROVE TypeOK'
  OBVIOUS
<1> USE WriterAssumption
<1>1. CASE Start
  BY <1>1 DEF Start, TypeOK, channel, producer
<1>2. CASE Cancel
  BY <1>2 DEF Cancel, TypeOK, channel, producer, worker
<1>3. ASSUME NEW p \in Producers, EnqueueLoad(p) PROVE TypeOK'
  <2>1. offered + 1 \in 1..MaxOffered /\ offered' \in 0..MaxOffered
    BY <1>3 DEF EnqueueLoad, TypeOK
  <2>2. [src |-> p, n |-> offered + 1] \in Events
    BY <2>1 DEF Events
  <2>3. CASE closed
    BY <1>3, <2>1, <2>3 DEF EnqueueLoad, TypeOK, channel, worker
  <2>4. CASE ~closed
    BY <1>3, <2>1, <2>2, <2>4 DEF EnqueueLoad, TypeOK, channel, worker
  <2> QED BY <2>3, <2>4
<1>4. ASSUME NEW p \in Producers, Send(p), ppc[p] # "idle",
             UNCHANGED <<started, ctxDone, closed, chanClosed, offered, worker, spc>>
      PROVE TypeOK'
  <2>1. queue' \in Seq(Events) /\ Len(queue') <= QueueSize
    BY <1>4 DEF Send, TypeOK
  <2> QED BY <1>4, <2>1 DEF Send, TypeOK, worker
<1>5. ASSUME NEW p \in Producers, EnqueueTrySend(p) PROVE TypeOK'
  BY <1>4, <1>5 DEF EnqueueTrySend, Panic, TypeOK, worker
<1>6. ASSUME NEW p \in Producers, EnqueueDropOldest(p) PROVE TypeOK'
  <2>1. queue' \in Seq(Events) /\ Len(queue') <= QueueSize
    <3>1. CASE queue # <<>>
      <4>1. queue' = Tail(queue)
        BY <1>6, <3>1 DEF EnqueueDropOldest
      <4> QED BY <3>1, <4>1 DEF TypeOK
    <3>2. CASE queue = <<>>
      BY <1>6, <3>2 DEF EnqueueDropOldest, TypeOK
    <3> QED BY <3>1, <3>2
  <2>2. dropped' \in Nat
    BY <1>6 DEF EnqueueDropOldest, TypeOK
  <2> QED BY <1>6, <2>1, <2>2 DEF EnqueueDropOldest, TypeOK, worker
<1>7. ASSUME NEW p \in Producers, EnqueueRetry(p) PROVE TypeOK'
  <2>1. CASE Panic(p)
    BY <1>7, <2>1 DEF EnqueueRetry, Panic, TypeOK, worker
  <2>2. CASE Send(p)
    BY <1>4, <1>7, <2>2 DEF EnqueueRetry
  <2>3. CASE /\ dropped' = dropped + 1 /\ UNCHANGED <<queue, panicked>>
             /\ ppc' = [ppc EXCEPT ![p] = "idle"] /\ pitem' = [pitem EXCEPT ![p] = NoEvent]
    BY <1>7, <2>3 DEF EnqueueRetry, TypeOK, worker
  <2> QED BY <1>7, <2>1, <2>2, <2>3 DEF EnqueueRetry
<1>8. ASSUME NEW w \in Workers, Take(w) PROVE TypeOK'
  <2>1. Head(queue) \in Events /\ queue' \in Seq(Events) /\ Len(queue') <= QueueSize
    BY <1>8 DEF Take, TypeOK
  <2> QED BY <1>8, <2>1 DEF Take, TypeOK, producer
<1>9. ASSUME NEW w \in Workers, Exit(w) PROVE TypeOK'
  BY <1>9 DEF Exit, TypeOK, channel, producer
<1>10. ASSUME NEW w \in Workers, AttemptSucceeds(w) PROVE TypeOK'
  <2>1. history' \in Seq(Events)
    BY <1>10 DEF AttemptSucceeds, TypeOK
  <2> QED BY <1>10, <2>1 DEF AttemptSucceeds, TypeOK, channel, producer
<1>11. ASSUME NEW w \in Workers, AttemptFails(w) PROVE TypeOK'
  <2>1. attempt[w] \in 1..MaxRetries
    BY DEF TypeOK
  <2>2. CASE attempt[w] = MaxRetries
    <3>1. /\ failed' = failed + 1 /\ UNCHANGED attempt
          /\ wpc' = [wpc EXCEPT ![w] = "idle"] /\ witem' = [witem EXCEPT ![w] = NoEvent]
          /\ UNCHANGED <<started, ctxDone, channel, producer, processed, history, spc, panicked, dropped>>
      BY <1>11, <2>2 DEF AttemptFails
    <3> QED BY <3>1 DEF TypeOK, channel, producer
  <2>3. CASE attempt[w] # MaxRetries
    <3>1. attempt[w] + 1 \in 1..MaxRetries
      BY <2>1, <2>3
    <3>2. attempt' = [attempt EXCEPT ![w] = attempt[w] + 1]
      BY <1>11, <2>3 DEF AttemptFails
    <3>3. attempt' \in [Workers -> 1..MaxRetries]
      BY <3>1, <3>2 DEF TypeOK
    <3> QED BY <1>11, <2>3, <3>3 DEF AttemptFails, TypeOK, channel, producer
  <2> QED BY <2>2, <2>3
<1>12. ASSUME NEW s \in Stoppers, StopStep(s) PROVE TypeOK'
  BY <1>12 DEF StopStep, StopSwap, StopClose, StopReturn, TypeOK, channel, producer, worker
<1>13. CASE UNCHANGED vars
  BY <1>13 DEF vars, TypeOK
<1> QED BY <1>1, <1>2, <1>3, <1>5, <1>6, <1>7, <1>8, <1>9, <1>10, <1>11, <1>12, <1>13
        DEF Next, Step, EnqueueStep, WorkerStep, Finished

-----------------------------------------------------------------------------
(* Where the workers can be: none runs before Start, and one that left has *)
(* seen the channel closed and empty.                                       *)

WorkerInv ==
    /\ ~started => \A w \in Workers : wpc[w] = "none"
    /\ \A w \in Workers : wpc[w] = "exited" => chanClosed /\ queue = <<>>

LEMMA WorkerInvNext == TypeOK /\ WorkerInv /\ [Next]_vars => WorkerInv'
<1> SUFFICES ASSUME TypeOK, WorkerInv, [Next]_vars PROVE WorkerInv'
  OBVIOUS
<1>1. CASE Start
  BY <1>1 DEF Start, WorkerInv, TypeOK, channel
<1>2. CASE Cancel
  BY <1>2 DEF Cancel, WorkerInv, channel, worker
<1>3. ASSUME NEW p \in Producers, EnqueueLoad(p) PROVE WorkerInv'
  BY <1>3 DEF EnqueueLoad, WorkerInv, channel, worker
<1>4. ASSUME NEW p \in Producers, EnqueueStep(p) PROVE WorkerInv'
  <2>1. UNCHANGED <<started, wpc, chanClosed>> /\ (chanClosed /\ queue = <<>> => queue' = <<>>)
    BY <1>4 DEF EnqueueStep, EnqueueTrySend, EnqueueDropOldest, EnqueueRetry, Panic, Send, worker
  <2> QED BY <2>1 DEF WorkerInv
<1>5. ASSUME NEW w \in Workers, Take(w) PROVE WorkerInv'
  BY <1>5 DEF Take, WorkerInv, TypeOK
<1>6. ASSUME NEW w \in Workers, Exit(w) PROVE WorkerInv'
  BY <1>6 DEF Exit, WorkerInv, TypeOK, channel
<1>7. ASSUME NEW w \in Workers, AttemptSucceeds(w) PROVE WorkerInv'
  BY <1>7 DEF AttemptSucceeds, WorkerInv, TypeOK, channel
<1>8. ASSUME NEW w \in Workers, AttemptFails(w) PROVE WorkerInv'
  <2>1. UNCHANGED <<started, channel>> /\ wpc[w] = "busy"
        /\ (wpc' = wpc \/ wpc' = [wpc EXCEPT ![w] = "idle"])
    BY <1>8 DEF AttemptFails
  <2> QED BY <2>1 DEF WorkerInv, TypeOK, channel
<1>9. ASSUME NEW s \in Stoppers, StopStep(s) PROVE WorkerInv'
  BY <1>9 DEF StopStep, StopSwap, StopClose, StopReturn, WorkerInv, channel, worker
<1>10. CASE UNCHANGED vars
  BY <1>10 DEF vars, WorkerInv
<1> QED BY <1>1, <1>2, <1>3, <1>4, <1>5, <1>6, <1>7, <1>8, <1>9, <1>10
        DEF Next, Step, WorkerStep, Finished

-----------------------------------------------------------------------------
(* The balance of the counters.  Quiet is never regained once it is lost: a *)
(* producer inside Enqueue when the channel closes can only panic.          *)

\* Sending, or giving the event up, takes the producer out of Holding.
LEMMA ReleaseHolding ==
    ASSUME TypeOK, NEW p \in Producers, p \in Holding, ppc' = [ppc EXCEPT ![p] = "idle"]
    PROVE  Cardinality(Holding') = Cardinality(Holding) - 1
<1>1. Holding' = Holding \ {p}
  BY DEF Holding, TypeOK
<1> QED BY <1>1, HoldingFinite, CardRemove

\* Moving on inside Enqueue keeps it there.
LEMMA KeepHolding ==
    ASSUME TypeOK, NEW p \in Producers, p \in Holding, NEW c, c # "idle",
           ppc' = [ppc EXCEPT ![p] = c]
    PROVE  Holding' = Holding
BY DEF Holding, TypeOK

\* A worker that is done with its event leaves Busy.
LEMMA ReleaseBusy ==
    ASSUME TypeOK, NEW w \in Workers, wpc[w] = "busy", wpc' = [wpc EXCEPT ![w] = "idle"]
    PROVE  Cardinality(Busy') = Cardinality(Busy) - 1
<1>1. Busy' = Busy \ {w} /\ w \in Busy
  BY DEF Busy, TypeOK
<1> QED BY <1>1, BusyFinite, CardRemove

LEMMA AccountingNext == TypeOK /\ WorkerInv /\ Accounting /\ [Next]_vars => Accounting'
<1> DEFINE Sum == processed + failed + dropped
                    + Len(queue) + Cardinality(Holding) + Cardinality(Busy)
<1> SUFFICES ASSUME TypeOK, WorkerInv, Accounting, [Next]_vars, Quiet'
             PROVE  offered' = Sum'
  BY DEF Accounting
<1>h. Cardinality(Holding) \in Nat /\ Cardinality(Busy) \in Nat
  BY HoldingFinite, BusyFinite
<1>t. Len(queue) \in Nat /\ offered \in Nat /\ processed \in Nat /\ failed \in Nat /\ dropped \in Nat
  BY DEF TypeOK
<1>e. Quiet => offered = Sum
  BY DEF Accounting
<1>p. ASSUME UNCHANGED <<ppc, chanClosed>> PROVE Quiet /\ Holding' = Holding
  BY <1>p DEF Quiet, Holding
<1>i. ASSUME NEW p \in Holding, Quiet PROVE ~chanClosed
  BY <1>i DEF Quiet
<1>1. CASE Start
  <2>1. Busy' = {} /\ Busy = {}
    BY <1>1 DEF Start, Busy, WorkerInv
  <2>2. UNCHANGED <<ppc, chanClosed, offered, processed, failed, dropped, queue>>
    BY <1>1 DEF Start, channel, producer
  <2> QED BY <1>e, <1>p, <2>1, <2>2
<1>2. CASE Cancel
  <2>1. UNCHANGED <<ppc, chanClosed, offered, processed, failed, dropped, queue, wpc>>
    BY <1>2 DEF Cancel, channel, producer, worker
  <2> QED BY <1>e, <1>p, <2>1 DEF Busy
<1>3. ASSUME NEW p \in Producers, EnqueueLoad(p) PROVE offered' = Sum'
  <2>1. UNCHANGED <<chanClosed, processed, failed, queue, wpc>> /\ offered' = offered + 1
    BY <1>3 DEF EnqueueLoad, channel, worker
  <2>2. Busy' = Busy
    BY <2>1 DEF Busy
  <2>3. CASE closed
    <3>1. dropped' = dropped + 1 /\ ppc' = ppc
      BY <1>3, <2>3 DEF EnqueueLoad
    <3> QED BY <1>e, <1>h, <1>p, <1>t, <2>1, <2>2, <3>1
  <2>4. CASE ~closed
    <3>1. dropped' = dropped /\ ppc' = [ppc EXCEPT ![p] = "send"] /\ ppc[p] = "idle"
      BY <1>3, <2>4 DEF EnqueueLoad
    <3>2. Holding' = Holding \cup {p} /\ p \notin Holding
      BY <3>1 DEF Holding, TypeOK
    <3>3. Cardinality(Holding') = Cardinality(Holding) + 1
      BY <3>2, HoldingFinite, CardAdd
    <3>4. Quiet
      BY <2>1, <3>2 DEF Quiet
    <3> QED BY <1>e, <1>h, <1>t, <2>1, <2>2, <3>1, <3>3, <3>4
  <2> QED BY <2>3, <2>4
<1>4. ASSUME NEW p \in Producers, EnqueueStep(p) PROVE offered' = Sum'
  <2>1. UNCHANGED <<chanClosed, offered, processed, failed, wpc>> /\ p \in Holding
    BY <1>4 DEF EnqueueStep, EnqueueTrySend, EnqueueDropOldest, EnqueueRetry, Holding, worker
  <2>2. Busy' = Busy
    BY <2>1 DEF Busy
  <2>3. CASE Panic(p)
    <3>1. Holding' = Holding /\ chanClosed'
      BY <2>1, <2>3, KeepHolding DEF Panic
    <3> QED BY <2>1, <3>1 DEF Quiet
  <2>4. CASE Send(p)
    <3>1. Len(queue') = Len(queue) + 1 /\ dropped' = dropped /\ ~chanClosed
      <4>1. pitem[p] \in Events
        BY <2>1 DEF TypeOK, Holding
      <4> QED BY <2>4, <4>1 DEF Send, TypeOK
    <3>2. Cardinality(Holding') = Cardinality(Holding) - 1
      BY <2>1, <2>4, ReleaseHolding DEF Send
    <3>3. Quiet
      BY <3>1 DEF Quiet
    <3> QED BY <1>e, <1>h, <1>t, <2>1, <2>2, <3>1, <3>2, <3>3
  <2>5. CASE ~chanClosed /\ UNCHANGED <<queue, dropped>> /\ ppc' = [ppc EXCEPT ![p] = "full"]
    <3>1. Holding' = Holding /\ Quiet
      BY <2>1, <2>5, KeepHolding DEF Quiet
    <3> QED BY <1>e, <2>1, <2>2, <2>5, <3>1
  <2>6. CASE /\ ~chanClosed /\ queue' = queue /\ dropped' = dropped + 1
             /\ ppc' = [ppc EXCEPT ![p] = "idle"]
    <3>1. Cardinality(Holding') = Cardinality(Holding) - 1 /\ Quiet
      BY <2>1, <2>6, ReleaseHolding DEF Quiet
    <3> QED BY <1>e, <1>h, <1>t, <2>1, <2>2, <2>6, <3>1
  <2>7. CASE EnqueueDropOldest(p)
    <3>1. Holding' = Holding
      BY <2>1, <2>7, KeepHolding DEF EnqueueDropOldest
    <3>2. ~chanClosed /\ Quiet
      BY <2>1, <3>1 DEF Quiet
    <3>3. CASE queue # <<>>
      <4>1. queue' = Tail(queue)
        BY <2>7, <3>3 DEF EnqueueDropOldest
      <4>2. Len(queue') = Len(queue) - 1
        BY <3>3, <4>1 DEF TypeOK
      <4>3. dropped' = dropped + 1
        BY <2>7, <3>3 DEF EnqueueDropOldest
      <4> QED BY <1>e, <1>h, <1>t, <2>1, <2>2, <3>1, <3>2, <4>2, <4>3
    <3>4. CASE queue = <<>>
      <4>1. UNCHANGED <<queue, dropped>>
        BY <2>7, <3>2, <3>4 DEF EnqueueDropOldest
      <4> QED BY <1>e, <2>1, <2>2, <3>1, <3>2, <4>1
    <3> QED BY <3>3, <3>4
  <2> QED BY <1>4, <2>3, <2>4, <2>5, <2>6, <2>7 DEF EnqueueStep, EnqueueTrySend, EnqueueRetry
<1>5. ASSUME NEW w \in Workers, Take(w) PROVE offered' = Sum'
  <2>1. UNCHANGED <<ppc, chanClosed, offered, processed, failed, dropped>>
    BY <1>5 DEF Take, producer
  <2>2. Len(queue') = Len(queue) - 1
    BY <1>5 DEF Take, TypeOK
  <2>3. Busy' = Busy \cup {w} /\ w \notin Busy
    BY <1>5 DEF Take, Busy, TypeOK
  <2>4. Cardinality(Busy') = Cardinality(Busy) + 1
    BY <2>3, BusyFinite, CardAdd
  <2> QED BY <1>e, <1>h, <1>p, <1>t, <2>1, <2>2, <2>4
<1>6. ASSUME NEW w \in Workers, Exit(w) PROVE offered' = Sum'
  <2>1. UNCHANGED <<ppc, chanClosed, offered, processed, failed, dropped, queue>>
    BY <1>6 DEF Exit, channel, producer
  <2>2. Busy' = Busy
    BY <1>6 DEF Exit, Busy, TypeOK
  <2> QED BY <1>e, <1>p, <2>1, <2>2
<1>7. ASSUME NEW w \in Workers, AttemptSucceeds(w) PROVE offered' = Sum'
  <2>1. UNCHANGED <<ppc, chanClosed, offered, failed, dropped, queue>> /\ processed' = processed + 1
    BY <1>7 DEF AttemptSucceeds, channel, producer
  <2>2. Cardinality(Busy') = Cardinality(Busy) - 1
    BY <1>7, ReleaseBusy DEF AttemptSucceeds
  <2> QED BY <1>e, <1>h, <1>p, <1>t, <2>1, <2>2
<1>8. ASSUME NEW w \in Workers, AttemptFails(w) PROVE offered' = Sum'
  <2>1. UNCHANGED <<ppc, chanClosed, offered, processed, dropped, queue>> /\ wpc[w] = "busy"
    BY <1>8 DEF AttemptFails, channel, producer
  <2>2. CASE attempt[w] = MaxRetries
    <3>1. failed' = failed + 1 /\ wpc' = [wpc EXCEPT ![w] = "idle"]
      BY <1>8, <2>2 DEF AttemptFails
    <3>2. Cardinality(Busy') = Cardinality(Busy) - 1
      BY <2>1, <3>1, ReleaseBusy
    <3> QED BY <1>e, <1>h, <1>p, <1>t, <2>1, <3>1, <3>2
  <2>3. CASE attempt[w] # MaxRetries
    <3>1. failed' = failed /\ wpc' = wpc
      BY <1>8, <2>3 DEF AttemptFails
    <3> QED BY <1>e, <1>p, <2>1, <3>1 DEF Busy
  <2> QED BY <2>2, <2>3
<1>9. ASSUME NEW s \in Stoppers, StopStep(s) PROVE offered' = Sum'
  <2>1. UNCHANGED <<ppc, offered, processed, failed, dropped, queue, wpc>>
    BY <1>9 DEF StopStep, StopSwap, StopClose, StopReturn, channel, producer, worker
  <2>2. chanClosed => chanClosed'
    BY <1>9 DEF StopStep, StopSwap, StopClose, StopReturn, channel
  <2>3. Quiet /\ Holding' = Holding /\ Busy' = Busy
    BY <2>1, <2>2 DEF Quiet, Holding, Busy
  <2> QED BY <1>e, <2>1, <2>3
<1>10. CASE UNCHANGED vars
  <2>1. UNCHANGED <<ppc, chanClosed, offered, processed, failed, dropped, queue, wpc>>
    BY <1>10 DEF vars
  <2> QED BY <1>e, <1>p, <2>1 DEF Busy
<1> QED BY <1>1, <1>2, <1>3, <1>4, <1>5, <1>6, <1>7, <1>8, <1>9, <1>10
        DEF Next, Step, WorkerStep, Finished

-----------------------------------------------------------------------------
(* Stop.  The swap lets one caller through to the close; a handler that has *)
(* returned before is not inside Enqueue from then on.                      *)

StopInv ==
    /\ chanClosed => closed
    /\ closed => Stopping
    /\ \A s \in Stoppers : spc[s] \in {"close", "wait"} => closed
    /\ \A s \in Stoppers : spc[s] = "close" => ~chanClosed
    /\ \A s, t \in Stoppers :
          spc[s] \in {"close", "wait"} /\ spc[t] \in {"close", "wait"} => s = t
    /\ Stopping => \A p \in Joined : ppc[p] = "idle"
    /\ NoPanic

LEMMA StopInvNext == TypeOK /\ StopInv /\ [Next]_vars => StopInv'
<1> SUFFICES ASSUME TypeOK, StopInv, [Next]_vars PROVE StopInv'
  OBVIOUS
<1>1. ASSUME UNCHANGED <<closed, chanClosed, spc, ppc, panicked>> PROVE StopInv'
  BY <1>1 DEF StopInv, Stopping, NoPanic
<1>2. ASSUME ~panicked, NEW p \in Producers, EnqueueLoad(p) PROVE StopInv'
  <2>1. UNCHANGED <<closed, chanClosed, spc, panicked>> /\ (p \in Joined => ~Stopping)
    BY <1>2 DEF EnqueueLoad, channel
  <2>2. Stopping' = Stopping
    BY <2>1 DEF Stopping
  <2>3. \A q \in Producers \ {p} : ppc'[q] = ppc[q]
    BY <1>2 DEF EnqueueLoad, TypeOK
  <2>4. Stopping' => \A q \in Joined : ppc'[q] = "idle"
    BY <2>1, <2>2, <2>3, WriterAssumption DEF StopInv
  <2> QED BY <1>2, <2>1, <2>2, <2>4 DEF StopInv, NoPanic
<1>3. ASSUME ~panicked, NEW p \in Producers, EnqueueStep(p) PROVE StopInv'
  <2>1. UNCHANGED <<closed, chanClosed, spc>> /\ ppc[p] # "idle"
    BY <1>3 DEF EnqueueStep, EnqueueTrySend, EnqueueDropOldest, EnqueueRetry, channel
  <2>2. Stopping' = Stopping
    BY <2>1 DEF Stopping
  <2>3. p \in Joined => ~Stopping /\ ~chanClosed
    BY <2>1 DEF StopInv
  <2>4. panicked' = panicked \/ (chanClosed /\ ppc'[p] = "panicked")
    BY <1>3 DEF EnqueueStep, EnqueueTrySend, EnqueueDropOldest, EnqueueRetry, Panic, Send, TypeOK
  <2>5. \A q \in Producers \ {p} : ppc'[q] = ppc[q]
    BY <1>3 DEF EnqueueStep, EnqueueTrySend, EnqueueDropOldest, EnqueueRetry, Panic, Send, TypeOK
  <2>6. Stopping' => \A q \in Joined : ppc'[q] = "idle"
    BY <2>2, <2>3, <2>5, WriterAssumption DEF StopInv
  <2>7. NoPanic'
    BY <1>3, <2>3, <2>4 DEF NoPanic
  <2> QED BY <2>1, <2>2, <2>6, <2>7 DEF StopInv
<1>4. ASSUME NEW s \in Stoppers, StopSwap(s) PROVE StopInv'
  <2>1. UNCHANGED <<chanClosed, panicked, ppc>> /\ closed' = TRUE /\ spc[s] = "idle"
    BY <1>4 DEF StopSwap, producer
  <2>2. spc' = [spc EXCEPT ![s] = IF closed THEN "done" ELSE "close"]
    BY <1>4 DEF StopSwap
  <2>3. Stopping'
    BY <2>2 DEF Stopping, TypeOK
  <2>4. (\A p \in Joined : ppc'[p] = "idle") /\ NoPanic'
    BY <1>4, <2>1 DEF StopSwap, StopInv, NoPanic
  <2>5. CASE closed
    <3>1. spc' = [spc EXCEPT ![s] = "done"]
      BY <2>2, <2>5
    <3> QED BY <2>1, <2>3, <2>4, <2>5, <3>1 DEF StopInv, TypeOK
  <2>6. CASE ~closed
    <3>1. spc' = [spc EXCEPT ![s] = "close"]
      BY <2>2, <2>6
    <3>2. ~chanClosed /\ \A t \in Stoppers : spc[t] \notin {"close", "wait"}
      BY <2>6 DEF StopInv
    <3> QED BY <2>1, <2>3, <2>4, <3>1, <3>2 DEF StopInv, TypeOK
  <2> QED BY <2>5, <2>6
<1>5. ASSUME NEW s \in Stoppers, StopClose(s) PROVE StopInv'
  <2>1. spc[s] = "close" /\ ~chanClosed /\ closed
    BY <1>5 DEF StopClose, StopInv
  <2>2. /\ chanClosed' = TRUE /\ spc' = [spc EXCEPT ![s] = "wait"]
        /\ UNCHANGED <<panicked, closed, ppc>>
    BY <1>5, <2>1 DEF StopClose, producer
  <2>3. Stopping /\ Stopping' /\ NoPanic'
    BY <2>1, <2>2 DEF Stopping, StopInv, NoPanic, TypeOK
  <2> QED BY <2>1, <2>2, <2>3 DEF StopInv, TypeOK
<1>6. ASSUME NEW s \in Stoppers, StopReturn(s) PROVE StopInv'
  <2>1. /\ spc[s] = "wait" /\ spc' = [spc EXCEPT ![s] = "done"]
        /\ UNCHANGED <<panicked, closed, chanClosed, ppc>>
    BY <1>6 DEF StopReturn, channel, producer
  <2>2. Stopping /\ Stopping' /\ NoPanic'
    BY <2>1 DEF Stopping, StopInv, NoPanic, TypeOK
  <2> QED BY <2>1, <2>2 DEF StopInv, TypeOK
<1>7. CASE Start \/ Cancel \/ \E w \in Workers : WorkerStep(w)
  BY <1>1, <1>7 DEF Start, Cancel, WorkerStep, Take, Exit, AttemptSucceeds, AttemptFails, channel, producer
<1>8. CASE UNCHANGED vars
  BY <1>1, <1>8 DEF vars
<1> QED BY <1>2, <1>3, <1>4, <1>5, <1>6, <1>7, <1>8 DEF Next, Step, StopStep, Finished

-----------------------------------------------------------------------------
(* The theorems. *)

WriterInv == TypeOK /\ WorkerInv /\ StopInv /\ Accounting

LEMMA WriterInvInit == Init => WriterInv
<1> SUFFICES ASSUME Init PROVE WriterInv
  OBVIOUS
<1>1. TypeOK
  BY TypeInit
<1>2. Holding = {} /\ Busy = {} /\ Len(queue) = 0
  BY DEF Init, Holding, Busy
<1>3. Cardinality(Holding) = 0 /\ Cardinality(Busy) = 0
  BY <1>2, FS_EmptySet
<1>4. Accounting
  BY <1>2, <1>3 DEF Init, Accounting
<1>5. WorkerInv /\ StopInv
  BY <1>2 DEF Init, WorkerInv, StopInv, Stopping, NoPanic
<1> QED BY <1>1, <1>4, <1>5 DEF WriterInv

\* Types, the place of the workers, the order of Stop and the balance of the
\* counters are together an inductive invariant of the writer.
THEOREM WriterInvariant == Spec => []WriterInv
<1>1. WriterInv /\ [Next]_vars => WriterInv'
  BY TypeNext, WorkerInvNext, StopInvNext, AccountingNext DEF WriterInv
<1> QED BY <1>1, WriterInvInit, PTL DEF Spec

\* Metrics: processed, failed and dropped, with what is still under way,
\* always add up to the calls of Enqueue, for every number of handlers,
\* workers and queue slots.
THEOREM AccountingHolds == Spec => []Accounting
<1>1. WriterInv => Accounting
  BY DEF WriterInv
<1> QED BY <1>1, WriterInvariant, PTL

\* Stop: when the last worker has left, nothing is in the buffer, however
\* many events it held when the channel was closed.
THEOREM StoppedWriterIsDrained == Spec => []StoppedIsDrained
<1>1. WriterInv => StoppedIsDrained
  BY WriterAssumption DEF WriterInv, WorkerInv, StoppedIsDrained
<1> QED BY <1>1, WriterInvariant, PTL

\* Enqueue and Stop: whichever handlers have returned before Stop is called,
\* no other one sends on the closed channel, and no second Stop closes it again.
THEOREM NoPanicOnceJoined == Spec => []NoPanic
<1>1. WriterInv => NoPanic
  BY DEF WriterInv, StopInv
<1> QED BY <1>1, WriterInvariant, PTL

-----------------------------------------------------------------------------
(* Where an event is.  Every step moves a number from one place to the     *)
(* next or takes it out of the buffer, a handler or a worker for good; it  *)
(* is enough to follow the set of all the numbers and the room they take.  *)

Held == {pitem[p].n : p \in Holding}
InWork == {witem[w].n : w \in Busy}
Placed == Pending \cup Numbers(history)
Filled == Len(queue) + Cardinality(Holding) + Cardinality(Busy) + Len(history)

\* historyAvailability does not say "recording" any more.
LossShown == closed \/ (started /\ ctxDone) \/ dropped > 0 \/ failed > 0

TraceInv ==
    /\ Placed \subseteq 1..offered
    /\ OnePlace
    /\ LossShown \/ 1..offered \subseteq Placed

LEMMA PlacedIs == Placed = Numbers(queue) \cup Held \cup InWork \cup Numbers(history)
BY DEF Placed, Pending, Held, InWork

LEMMA NumbersAppend ==
    ASSUME NEW s \in Seq(Events), NEW e \in Events
    PROVE  Numbers(Append(s, e)) = Numbers(s) \cup {e.n}
<1>1. Len(Append(s, e)) = Len(s) + 1 /\ Len(s) \in Nat
  OBVIOUS
<1>2. Append(s, e)[Len(s) + 1] = e /\ \A i \in 1..Len(s) : Append(s, e)[i] = s[i]
  OBVIOUS
<1>3. \A i : i \in 1..(Len(s) + 1) <=> i \in 1..Len(s) \/ i = Len(s) + 1
  BY <1>1
<1> QED BY <1>1, <1>2, <1>3 DEF Numbers

LEMMA NumbersTail ==
    ASSUME NEW s \in Seq(Events), s # <<>>
    PROVE  /\ Numbers(s) = Numbers(Tail(s)) \cup {Head(s).n}
           /\ Len(Tail(s)) = Len(s) - 1
<1>1. Len(Tail(s)) = Len(s) - 1 /\ Len(s) \in Nat \ {0} /\ Head(s) = s[1]
  OBVIOUS
<1>2. \A i \in 1..(Len(s) - 1) : Tail(s)[i] = s[i + 1] /\ i + 1 \in 1..Len(s)
  BY <1>1
<1>3. \A i \in 1..Len(s) : i = 1 \/ (i - 1 \in 1..(Len(s) - 1) /\ Tail(s)[i - 1] = s[i])
  BY <1>1, <1>2
<1>4. 1 \in 1..Len(s)
  BY <1>1
<1>5. ASSUME NEW x \in Numbers(s) PROVE x \in Numbers(Tail(s)) \cup {Head(s).n}
  <2>1. PICK i \in 1..Len(s) : x = s[i].n
    BY DEF Numbers
  <2> QED BY <1>1, <1>3, <2>1 DEF Numbers
<1>6. ASSUME NEW x \in Numbers(Tail(s)) \cup {Head(s).n} PROVE x \in Numbers(s)
  BY <1>1, <1>2, <1>4 DEF Numbers
<1> QED BY <1>1, <1>5, <1>6

\* There are at most as many numbers as places that hold one.
LEMMA NumbersBound ==
    ASSUME NEW s \in Seq(Events)
    PROVE  IsFiniteSet(Numbers(s)) /\ Cardinality(Numbers(s)) <= Len(s) /\ Cardinality(Numbers(s)) \in Nat
<1> DEFINE f == [i \in 1..Len(s) |-> s[i].n]
<1>1. f \in Surjection(1..Len(s), Numbers(s))
  BY DEF Surjection, Numbers
<1>2. Len(s) \in Nat
  OBVIOUS
<1>3. IsFiniteSet(1..Len(s)) /\ Cardinality(1..Len(s)) = Len(s)
  BY <1>2, FS_Interval
<1> HIDE DEF f
<1> QED BY <1>1, <1>2, <1>3, FS_Surjection, FS_CardinalityType

LEMMA HeldBound ==
    IsFiniteSet(Held) /\ Cardinality(Held) <= Cardinality(Holding) /\ Cardinality(Held) \in Nat
<1> DEFINE f == [p \in Holding |-> pitem[p].n]
<1>1. f \in Surjection(Holding, Held)
  BY DEF Surjection, Held
<1> QED BY <1>1, HoldingFinite, FS_Surjection, FS_CardinalityType

LEMMA InWorkBound ==
    IsFiniteSet(InWork) /\ Cardinality(InWork) <= Cardinality(Busy) /\ Cardinality(InWork) \in Nat
<1> DEFINE f == [w \in Busy |-> witem[w].n]
<1>1. f \in Surjection(Busy, InWork)
  BY DEF Surjection, InWork
<1> QED BY <1>1, BusyFinite, FS_Surjection, FS_CardinalityType

LEMMA UnionBound ==
    ASSUME NEW S, IsFiniteSet(S), NEW T, IsFiniteSet(T)
    PROVE  IsFiniteSet(S \cup T) /\ Cardinality(S \cup T) <= Cardinality(S) + Cardinality(T)
<1>1. Cardinality(S) \in Nat /\ Cardinality(T) \in Nat
  BY FS_CardinalityType
<1>2. IsFiniteSet(S \cap T)
  BY FS_Intersection
<1>3. Cardinality(S \cap T) \in Nat
  BY <1>2, FS_CardinalityType
<1>4. /\ IsFiniteSet(S \cup T)
      /\ Cardinality(S \cup T) = Cardinality(S) + Cardinality(T) - Cardinality(S \cap T)
  BY FS_Union
<1> QED BY <1>1, <1>3, <1>4

RoomForAll ==
    /\ IsFiniteSet(Placed) /\ Cardinality(Placed) \in Nat
    /\ Cardinality(Placed) <= Filled /\ Filled \in Nat

LEMMA PlacedBound == TypeOK => RoomForAll
<1> SUFFICES ASSUME TypeOK PROVE RoomForAll
  OBVIOUS
<1>1. /\ IsFiniteSet(Numbers(queue)) /\ Cardinality(Numbers(queue)) <= Len(queue)
      /\ IsFiniteSet(Numbers(history)) /\ Cardinality(Numbers(history)) <= Len(history)
      /\ Cardinality(Numbers(queue)) \in Nat /\ Cardinality(Numbers(history)) \in Nat
  BY NumbersBound DEF TypeOK
<1>2. Len(queue) \in Nat /\ Len(history) \in Nat /\ Cardinality(Holding) \in Nat /\ Cardinality(Busy) \in Nat
  BY HoldingFinite, BusyFinite DEF TypeOK
<1> DEFINE A == Numbers(queue) \cup Held
           B == A \cup InWork
<1>3. IsFiniteSet(A) /\ Cardinality(A) <= Cardinality(Numbers(queue)) + Cardinality(Held) /\ Cardinality(A) \in Nat
  BY <1>1, HeldBound, UnionBound, FS_CardinalityType
<1>4. IsFiniteSet(B) /\ Cardinality(B) <= Cardinality(A) + Cardinality(InWork) /\ Cardinality(B) \in Nat
  <2> HIDE DEF A
  <2> QED BY <1>3, InWorkBound, UnionBound, FS_CardinalityType
<1>5. /\ IsFiniteSet(Placed) /\ Cardinality(Placed) <= Cardinality(B) + Cardinality(Numbers(history))
      /\ Cardinality(Placed) \in Nat
  <2>1. Placed = B \cup Numbers(history)
    BY PlacedIs
  <2> HIDE DEF B
  <2> QED BY <1>1, <1>4, <2>1, UnionBound, FS_CardinalityType
<1> HIDE DEF A, B
<1> QED BY <1>1, <1>2, <1>3, <1>4, <1>5, HeldBound, InWorkBound DEF Filled, RoomForAll

LEMMA OnePlaceIs == OnePlace <=> Cardinality(Placed) = Filled
BY DEF OnePlace, Placed, Filled

\* A step that moves numbers about.
LEMMA TraceMoves ==
    ASSUME TraceInv, Placed' = Placed, Filled' = Filled, offered' = offered, LossShown => LossShown'
    PROVE  TraceInv'
<1>1. OnePlace'
  BY OnePlaceIs DEF TraceInv, OnePlace, Placed, Filled
<1> QED BY <1>1 DEF TraceInv

\* A step that takes one out: what is left fills at most the places left.
LEMMA TraceLoses ==
    ASSUME TypeOK, TypeOK', TraceInv, NEW x, Placed' \subseteq Placed, Placed \subseteq Placed' \cup {x},
           Filled' = Filled - 1, offered' = offered, LossShown'
    PROVE  TraceInv'
<1>1. IsFiniteSet(Placed) /\ Cardinality(Placed) = Filled /\ Filled \in Nat
  BY PlacedBound, OnePlaceIs DEF TraceInv, RoomForAll
<1>r. RoomForAll'
  BY PlacedBound, PTL
<1>2. /\ IsFiniteSet(Placed') /\ Cardinality(Placed') \in Nat /\ Cardinality(Placed') <= Filled'
  BY <1>r DEF RoomForAll
<1>3. IsFiniteSet(Placed' \cup {x}) /\ Cardinality(Placed' \cup {x}) <= Cardinality(Placed') + 1
  BY <1>2, FS_AddElement
<1>4. Cardinality(Placed) <= Cardinality(Placed' \cup {x})
  BY <1>3, FS_Subset
<1>5. Cardinality(Placed' \cup {x}) \in Nat
  BY <1>3, FS_CardinalityType
<1>6. Cardinality(Placed') = Filled'
  BY <1>1, <1>2, <1>3, <1>4, <1>5
<1>7. OnePlace'
  BY <1>6 DEF OnePlace, Placed, Filled
<1> QED BY <1>7 DEF TraceInv

LEMMA HeldRelease ==
    ASSUME TypeOK, NEW p \in Producers, p \in Holding,
           ppc' = [ppc EXCEPT ![p] = "idle"], pitem' = [pitem EXCEPT ![p] = NoEvent]
    PROVE  Held = Held' \cup {pitem[p].n}
<1>1. Holding' = Holding \ {p} /\ \A q \in Holding' : pitem'[q] = pitem[q]
  BY DEF Holding, TypeOK
<1>2. Held' = {pitem'[q].n : q \in Holding'}
  BY DEF Held
<1> QED BY <1>1, <1>2 DEF Held

LEMMA InWorkRelease ==
    ASSUME TypeOK, NEW w \in Workers, wpc[w] = "busy",
           wpc' = [wpc EXCEPT ![w] = "idle"], witem' = [witem EXCEPT ![w] = NoEvent]
    PROVE  InWork = InWork' \cup {witem[w].n}
<1>1. w \in Busy /\ Busy' = Busy \ {w} /\ \A v \in Busy' : witem'[v] = witem[v]
  BY DEF Busy, TypeOK
<1>2. InWork' = {witem'[v].n : v \in Busy'}
  BY DEF InWork
<1> QED BY <1>1, <1>2 DEF InWork

LEMMA PlacedNext == Placed' = Numbers(queue') \cup Held' \cup InWork' \cup Numbers(history')
BY DEF Placed, Pending, Held, InWork

LEMMA FilledNext ==
    Filled' = Len(queue') + Cardinality(Holding') + Cardinality(Busy') + Len(history')
BY DEF Filled

\* Enqueue: an event gets the next number, or is dropped by a closed writer.
LEMMA TraceLoad ==
    ASSUME TypeOK, TypeOK', TraceInv, NEW p \in Producers, EnqueueLoad(p)
    PROVE  TraceInv'
<1>1. UNCHANGED <<queue, wpc, witem, history, closed, started, ctxDone, failed>> /\ offered' = offered + 1
  BY DEF EnqueueLoad, channel, worker
<1>2. InWork' = InWork /\ Busy' = Busy
  BY <1>1 DEF InWork, Busy
<1>3. offered \in Nat /\ 1..offered \subseteq 1..offered' /\ offered' \notin 1..offered
  BY <1>1 DEF TypeOK
<1>t. Filled \in Nat /\ Cardinality(Holding) \in Nat /\ Cardinality(Busy) \in Nat
      /\ Len(queue) \in Nat /\ Len(history) \in Nat /\ IsFiniteSet(Placed)
  BY PlacedBound, HoldingFinite, BusyFinite DEF RoomForAll, TypeOK
<1>4. CASE closed
  <2>1. Holding' = Holding /\ Held' = Held
    BY <1>4 DEF EnqueueLoad, Holding, Held
  <2>2. Placed' = Placed /\ Filled' = Filled
    BY <1>1, <1>2, <2>1, PlacedIs, PlacedNext, FilledNext DEF Filled
  <2>3. OnePlace'
    BY <2>2 DEF TraceInv, OnePlace, Placed, Filled
  <2>4. LossShown'
    BY <1>1, <1>4 DEF LossShown
  <2> QED BY <1>3, <2>2, <2>3, <2>4 DEF TraceInv
<1>5. CASE ~closed
  <2>1. /\ ppc[p] = "idle" /\ ppc' = [ppc EXCEPT ![p] = "send"] /\ dropped' = dropped
        /\ pitem' = [pitem EXCEPT ![p] = [src |-> p, n |-> offered + 1]]
    BY <1>5 DEF EnqueueLoad
  <2>2. /\ Holding' = Holding \cup {p} /\ p \notin Holding
        /\ \A q \in Holding : pitem'[q] = pitem[q]
        /\ pitem'[p].n = offered'
    BY <1>1, <2>1 DEF Holding, TypeOK
  <2>3. Held' = Held \cup {offered'}
    <3>1. Held' = {pitem'[q].n : q \in Holding'}
      BY DEF Held
    <3> QED BY <2>2, <3>1 DEF Held
  <2>4. Placed' = Placed \cup {offered'}
    BY <1>1, <1>2, <2>3, PlacedIs, PlacedNext
  <2>5. Cardinality(Holding') = Cardinality(Holding) + 1
    BY <2>2, HoldingFinite, CardAdd
  <2>6. Filled' = Filled + 1
    BY <1>1, <1>2, <1>t, <2>5, FilledNext DEF Filled
  <2>7. offered' \notin Placed
    BY <1>3 DEF TraceInv
  <2>8. Cardinality(Placed') = Cardinality(Placed) + 1
    BY <1>t, <2>4, <2>7, CardAdd
  <2>9. OnePlace'
    BY <2>6, <2>8 DEF TraceInv, OnePlace, Placed, Filled
  <2>10. 1..offered' = 1..offered \cup {offered'} /\ offered' \in 1..offered'
    BY <1>1, <1>3
  <2>11. LossShown => LossShown'
    BY <1>1, <2>1 DEF LossShown
  <2> QED BY <2>4, <2>9, <2>10, <2>11 DEF TraceInv
<1> QED BY <1>4, <1>5

\* The sends and the drops of Enqueue.
LEMMA TraceEnqueue ==
    ASSUME TypeOK, TypeOK', TraceInv, NEW p \in Producers, EnqueueStep(p)
    PROVE  TraceInv'
<1>1. /\ UNCHANGED <<wpc, witem, history, closed, started, ctxDone, failed, offered>>
      /\ p \in Holding
  BY DEF EnqueueStep, EnqueueTrySend, EnqueueDropOldest, EnqueueRetry, Holding, worker
<1>2. InWork' = InWork /\ Busy' = Busy
  BY <1>1 DEF InWork, Busy
<1>t. Filled \in Nat /\ Cardinality(Holding) \in Nat /\ Cardinality(Busy) \in Nat /\ dropped \in Nat
      /\ Len(queue) \in Nat /\ Len(history) \in Nat /\ pitem[p] \in Events /\ queue \in Seq(Events)
  BY <1>1, PlacedBound, HoldingFinite, BusyFinite DEF RoomForAll, TypeOK, Holding
<1>3. ASSUME UNCHANGED <<queue, pitem, dropped>>, NEW c, c # "idle", ppc' = [ppc EXCEPT ![p] = c]
      PROVE  TraceInv'
  <2>1. Holding' = Holding
    BY <1>1, <1>3, KeepHolding
  <2>2. Held' = Held
    BY <1>3, <2>1 DEF Held
  <2>3. Placed' = Placed /\ Filled' = Filled
    BY <1>1, <1>2, <1>3, <2>1, <2>2, PlacedIs, PlacedNext, FilledNext DEF Filled
  <2>4. LossShown => LossShown'
    BY <1>1, <1>3 DEF LossShown
  <2> QED BY <1>1, <2>3, <2>4, TraceMoves
<1>4. CASE Send(p)
  <2>1. /\ queue' = Append(queue, pitem[p]) /\ ppc' = [ppc EXCEPT ![p] = "idle"]
        /\ pitem' = [pitem EXCEPT ![p] = NoEvent] /\ dropped' = dropped
    BY <1>4 DEF Send
  <2>2. Numbers(queue') = Numbers(queue) \cup {pitem[p].n} /\ Len(queue') = Len(queue) + 1
    BY <1>t, <2>1, NumbersAppend
  <2>3. Held = Held' \cup {pitem[p].n}
    BY <1>1, <2>1, HeldRelease
  <2>4. Cardinality(Holding') = Cardinality(Holding) - 1
    BY <1>1, <2>1, ReleaseHolding
  <2>5. Placed' = Placed
    BY <1>1, <1>2, <2>2, <2>3, PlacedIs, PlacedNext
  <2>6. Filled' = Filled
    BY <1>1, <1>2, <1>t, <2>2, <2>4, FilledNext DEF Filled
  <2>7. LossShown => LossShown'
    BY <1>1, <2>1 DEF LossShown
  <2> QED BY <1>1, <2>5, <2>6, <2>7, TraceMoves
<1>5. CASE /\ queue' = queue /\ dropped' = dropped + 1
           /\ ppc' = [ppc EXCEPT ![p] = "idle"] /\ pitem' = [pitem EXCEPT ![p] = NoEvent]
  <2>1. Held = Held' \cup {pitem[p].n}
    BY <1>1, <1>5, HeldRelease
  <2>2. Cardinality(Holding') = Cardinality(Holding) - 1
    BY <1>1, <1>5, ReleaseHolding
  <2>3. Placed' \subseteq Placed /\ Placed \subseteq Placed' \cup {pitem[p].n}
    BY <1>1, <1>2, <1>5, <2>1, PlacedIs, PlacedNext
  <2>4. Filled' = Filled - 1
    BY <1>1, <1>2, <1>t, <1>5, <2>2, FilledNext DEF Filled
  <2>5. LossShown'
    BY <1>t, <1>5 DEF LossShown
  <2> QED BY <1>1, <2>3, <2>4, <2>5, TraceLoses
<1>6. CASE EnqueueDropOldest(p)
  <2>1. ppc' = [ppc EXCEPT ![p] = "retry"] /\ pitem' = pitem
    BY <1>6 DEF EnqueueDropOldest
  <2>2. Holding' = Holding
    BY <1>1, <2>1, KeepHolding
  <2>3. Held' = Held
    BY <2>1, <2>2 DEF Held
  <2>4. CASE queue # <<>>
    <3>1. queue' = Tail(queue) /\ dropped' = dropped + 1
      BY <1>6, <2>4 DEF EnqueueDropOldest
    <3>2. Numbers(queue) = Numbers(queue') \cup {Head(queue).n} /\ Len(queue') = Len(queue) - 1
      BY <1>t, <2>4, <3>1, NumbersTail
    <3>3. Placed' \subseteq Placed /\ Placed \subseteq Placed' \cup {Head(queue).n}
      BY <1>1, <1>2, <2>3, <3>2, PlacedIs, PlacedNext
    <3>4. Filled' = Filled - 1
      BY <1>1, <1>2, <1>t, <2>2, <3>2, FilledNext DEF Filled
    <3>5. LossShown'
      BY <1>t, <3>1 DEF LossShown
    <3> QED BY <1>1, <3>3, <3>4, <3>5, TraceLoses
  <2>5. CASE queue = <<>>
    <3>1. queue' = queue /\ dropped' \in {dropped, dropped + 1}
      BY <1>6, <2>5 DEF EnqueueDropOldest
    <3>2. Placed' = Placed /\ Filled' = Filled
      BY <1>1, <1>2, <2>2, <2>3, <3>1, PlacedIs, PlacedNext, FilledNext DEF Filled
    <3>3. LossShown => LossShown'
      BY <1>1, <1>t, <3>1 DEF LossShown
    <3> QED BY <1>1, <3>2, <3>3, TraceMoves
  <2> QED BY <2>4, <2>5
<1>7. CASE Panic(p)
  BY <1>3, <1>7 DEF Panic
<1>8. CASE UNCHANGED <<queue, pitem, dropped>> /\ ppc' = [ppc EXCEPT ![p] = "full"]
  BY <1>3, <1>8
<1> QED BY <1>4, <1>5, <1>6, <1>7, <1>8 DEF EnqueueStep, EnqueueTrySend, EnqueueRetry

\* A worker takes the oldest event, stores it, or gives it up.
LEMMA TraceWorker ==
    ASSUME TypeOK, TypeOK', TraceInv, NEW w \in Workers, WorkerStep(w)
    PROVE  TraceInv'
<1>1. UNCHANGED <<ppc, pitem, closed, started, ctxDone, dropped, offered>>
  BY DEF WorkerStep, Take, Exit, AttemptSucceeds, AttemptFails, channel, producer
<1>2. Held' = Held /\ Holding' = Holding
  BY <1>1 DEF Held, Holding
<1>t. Filled \in Nat /\ Cardinality(Holding) \in Nat /\ Cardinality(Busy) \in Nat /\ failed \in Nat
      /\ Len(queue) \in Nat /\ Len(history) \in Nat /\ history \in Seq(Events) /\ queue \in Seq(Events)
  BY PlacedBound, HoldingFinite, BusyFinite DEF RoomForAll, TypeOK
<1>3. ASSUME UNCHANGED <<queue, witem, history, failed>>, Busy' = Busy PROVE TraceInv'
  <2>1. InWork' = InWork
    BY <1>3 DEF InWork
  <2>2. Placed' = Placed /\ Filled' = Filled
    BY <1>2, <1>3, <2>1, PlacedIs, PlacedNext, FilledNext DEF Filled
  <2>3. LossShown => LossShown'
    BY <1>1, <1>3 DEF LossShown
  <2> QED BY <1>1, <2>2, <2>3, TraceMoves
<1>4. CASE Take(w)
  <2>1. /\ wpc[w] = "idle" /\ wpc' = [wpc EXCEPT ![w] = "busy"]
        /\ witem' = [witem EXCEPT ![w] = Head(queue)]
        /\ queue # <<>> /\ queue' = Tail(queue) /\ UNCHANGED <<history, failed>>
    BY <1>4 DEF Take
  <2>2. Busy' = Busy \cup {w} /\ w \notin Busy
        /\ (\A v \in Busy : witem'[v] = witem[v]) /\ witem'[w] = Head(queue)
    BY <2>1 DEF Busy, TypeOK
  <2>3. InWork' = InWork \cup {Head(queue).n}
    <3>1. InWork' = {witem'[v].n : v \in Busy'}
      BY DEF InWork
    <3> QED BY <2>2, <3>1 DEF InWork
  <2>4. Numbers(queue) = Numbers(queue') \cup {Head(queue).n} /\ Len(queue') = Len(queue) - 1
    BY <1>t, <2>1, NumbersTail
  <2>5. Cardinality(Busy') = Cardinality(Busy) + 1
    BY <2>2, BusyFinite, CardAdd
  <2>6. Placed' = Placed
    BY <1>2, <2>1, <2>3, <2>4, PlacedIs, PlacedNext
  <2>7. Filled' = Filled
    BY <1>2, <1>t, <2>1, <2>4, <2>5, FilledNext DEF Filled
  <2>8. LossShown => LossShown'
    BY <1>1, <2>1 DEF LossShown
  <2> QED BY <1>1, <2>6, <2>7, <2>8, TraceMoves
<1>5. CASE Exit(w)
  <2>1. UNCHANGED <<queue, witem, history, failed>>
    BY <1>5 DEF Exit, channel
  <2>2. Busy' = Busy
    BY <1>5 DEF Exit, Busy, TypeOK
  <2> QED BY <1>3, <2>1, <2>2
<1>6. CASE AttemptSucceeds(w)
  <2>1. /\ wpc[w] = "busy" /\ wpc' = [wpc EXCEPT ![w] = "idle"]
        /\ witem' = [witem EXCEPT ![w] = NoEvent]
        /\ history' = Append(history, witem[w]) /\ UNCHANGED <<queue, failed>>
    BY <1>6 DEF AttemptSucceeds, channel
  <2>2. witem[w] \in Events
    BY <2>1 DEF TypeOK
  <2>3. Numbers(history') = Numbers(history) \cup {witem[w].n} /\ Len(history') = Len(history) + 1
    BY <1>t, <2>1, <2>2, NumbersAppend
  <2>4. InWork = InWork' \cup {witem[w].n}
    BY <2>1, InWorkRelease
  <2>5. Cardinality(Busy') = Cardinality(Busy) - 1
    BY <2>1, ReleaseBusy
  <2>6. Placed' = Placed
    BY <1>2, <2>1, <2>3, <2>4, PlacedIs, PlacedNext
  <2>7. Filled' = Filled
    BY <1>2, <1>t, <2>1, <2>3, <2>5, FilledNext DEF Filled
  <2>8. LossShown => LossShown'
    BY <1>1, <2>1 DEF LossShown
  <2> QED BY <1>1, <2>6, <2>7, <2>8, TraceMoves
<1>7. CASE AttemptFails(w) /\ attempt[w] = MaxRetries
  <2>1. /\ wpc[w] = "busy" /\ wpc' = [wpc EXCEPT ![w] = "idle"]
        /\ witem' = [witem EXCEPT ![w] = NoEvent]
        /\ failed' = failed + 1 /\ UNCHANGED <<queue, history>>
    BY <1>7 DEF AttemptFails, channel
  <2>2. InWork = InWork' \cup {witem[w].n}
    BY <2>1, InWorkRelease
  <2>3. Cardinality(Busy') = Cardinality(Busy) - 1
    BY <2>1, ReleaseBusy
  <2>4. Placed' \subseteq Placed /\ Placed \subseteq Placed' \cup {witem[w].n}
    BY <1>2, <2>1, <2>2, PlacedIs, PlacedNext
  <2>5. Filled' = Filled - 1
    BY <1>2, <1>t, <2>1, <2>3, FilledNext DEF Filled
  <2>6. LossShown'
    BY <1>t, <2>1 DEF LossShown
  <2> QED BY <1>1, <2>4, <2>5, <2>6, TraceLoses
<1>8. CASE AttemptFails(w) /\ attempt[w] # MaxRetries
  <2>1. UNCHANGED <<queue, wpc, witem, history, failed>>
    BY <1>8 DEF AttemptFails, channel
  <2>2. Busy' = Busy
    BY <2>1 DEF Busy
  <2> QED BY <1>3, <2>1, <2>2
<1> QED BY <1>4, <1>5, <1>6, <1>7, <1>8 DEF WorkerStep

LEMMA TraceNext == TypeOK /\ TypeOK' /\ WorkerInv /\ TraceInv /\ [Next]_vars => TraceInv'
<1> SUFFICES ASSUME TypeOK, TypeOK', WorkerInv, TraceInv, [Next]_vars PROVE TraceInv'
  OBVIOUS
<1>1. ASSUME UNCHANGED <<queue, ppc, pitem, witem, history, offered>>, Busy' = Busy,
             LossShown => LossShown'
      PROVE  TraceInv'
  <2>1. Holding' = Holding
    BY <1>1 DEF Holding
  <2>2. Held' = Held /\ InWork' = InWork
    BY <1>1, <2>1 DEF Held, InWork
  <2>3. Placed' = Placed /\ Filled' = Filled
    BY <1>1, <2>1, <2>2, PlacedIs, PlacedNext, FilledNext DEF Filled
  <2> QED BY <1>1, <2>3, TraceMoves
<1>2. CASE Start
  <2>1. Busy' = {} /\ Busy = {}
    BY <1>2 DEF Start, Busy, WorkerInv
  <2>2. UNCHANGED <<queue, ppc, pitem, witem, history, offered>> /\ (LossShown => LossShown')
    BY <1>2 DEF Start, channel, producer, LossShown
  <2> QED BY <1>1, <2>1, <2>2
<1>3. CASE Cancel
  <2>1. UNCHANGED <<queue, ppc, pitem, wpc, witem, history, offered>> /\ LossShown'
    BY <1>3 DEF Cancel, channel, producer, worker, LossShown
  <2> QED BY <1>1, <2>1 DEF Busy
<1>4. ASSUME NEW s \in Stoppers, StopStep(s) PROVE TraceInv'
  <2>1. UNCHANGED <<queue, ppc, pitem, wpc, witem, history, offered>> /\ (LossShown => LossShown')
    BY <1>4 DEF StopStep, StopSwap, StopClose, StopReturn, channel, producer, worker, LossShown
  <2> QED BY <1>1, <2>1 DEF Busy
<1>5. CASE UNCHANGED vars
  <2>1. UNCHANGED <<queue, ppc, pitem, wpc, witem, history, offered>> /\ (LossShown => LossShown')
    BY <1>5 DEF vars, LossShown
  <2> QED BY <1>1, <2>1 DEF Busy
<1> QED BY <1>2, <1>3, <1>4, <1>5, TraceLoad, TraceEnqueue, TraceWorker DEF Next, Step, Finished

LEMMA TraceInit == Init => TraceInv
<1> SUFFICES ASSUME Init PROVE TraceInv
  OBVIOUS
<1>1. Holding = {} /\ Busy = {}
  BY DEF Init, Holding, Busy
<1>2. Numbers(queue) = {} /\ Numbers(history) = {} /\ Len(queue) = 0 /\ Len(history) = 0
  BY DEF Init, Numbers
<1>3. Placed = {}
  BY <1>1, <1>2 DEF Placed, Pending
<1>4. Filled = 0
  BY <1>1, <1>2, FS_EmptySet DEF Filled
<1>5. OnePlace
  BY <1>3, <1>4, FS_EmptySet, OnePlaceIs
<1>6. 1..offered = {}
  BY DEF Init
<1> QED BY <1>3, <1>5, <1>6 DEF TraceInv

\* Enqueue and the workers: no event is buffered, held or stored in two
\* places at once, for every number of handlers, workers and queue slots, and
\* one that is neither pending nor stored shows in historyAvailability.
THEOREM EventsAreTraced == Spec => []EventsTraced
<1>1. WriterInv /\ TraceInv /\ [Next]_vars => TraceInv'
  BY TypeNext, TraceNext DEF WriterInv
<1>2. WriterInv /\ TraceInv => EventsTraced
  <2> SUFFICES ASSUME WriterInv, TraceInv PROVE EventsTraced
    OBVIOUS
  <2>1. LossShown => HistoryState \in {"degraded", "stopped"}
    BY DEF LossShown, HistoryState
  <2> QED BY <2>1 DEF TraceInv, EventsTraced, LossIsVisible, Placed
<1> QED BY <1>1, <1>2, TraceInit, WriterInvariant, PTL DEF Spec
=============================================================================
