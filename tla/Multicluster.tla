----------------------------- MODULE Multicluster -----------------------------
(* pkg/multicluster/manager.go: the member clusters of a federation.  Callers *)
(* attach, remove and stop members concurrently; the mutex protects the map   *)
(* of members only, and is released while a cluster is dialled, while its     *)
(* informer is started, and while a caller waits for one to return.           *)
EXTENDS Integers, Sequences, FiniteSets

CONSTANTS
    Names,       \* cluster names
    Callers,     \* goroutines that call the manager
    MaxEntries   \* bound on clusterEntry values created

ASSUME MulticlusterAssumption == MaxEntries \in Nat

VARIABLES
    clusters,    \* m.clusters: the entry of each attached name, 0 for none
    entries,     \* every clusterEntry made so far
    pc,          \* what each caller is doing
    cancelled    \* the context the members were attached with is cancelled

vars == <<clusters, entries, pc, cancelled>>

Ids == 1..Len(entries)
Idle == [at |-> "idle"]
Busy(t) == pc[t].at # "idle"

TypeOK ==
    /\ clusters \in [Names -> 0..Len(entries)]
    /\ \A n \in Names : clusters[n] # 0 => entries[clusters[n]].name = n
    /\ \A i \in Ids : entries[i] \in
         [name : Names, cancelled : BOOLEAN, run : {"new", "running", "done"}, err : BOOLEAN]
    /\ \A i \in Ids : entries[i].err => entries[i].run = "done"
    /\ \A t \in Callers : \/ pc[t] = Idle
                          \/ pc[t] \in [at : {"dial"}, name : Names]
                          \/ pc[t] \in [at : {"launch"}, id : Ids]
                          \/ pc[t] \in [at : {"cancel", "wait"}, ids : SUBSET Ids]
    /\ cancelled \in BOOLEAN

Init ==
    /\ clusters = [n \in Names |-> 0] /\ entries = <<>>
    /\ pc = [t \in Callers |-> Idle] /\ cancelled = FALSE

-----------------------------------------------------------------------------
(* AddCluster: check, dial, check again, start. *)

AddCluster(t, n) ==
    /\ ~Busy(t) /\ clusters[n] = 0
    /\ pc' = [pc EXCEPT ![t] = [at |-> "dial", name |-> n]]
    /\ UNCHANGED <<clusters, entries, cancelled>>

DialFails(t) ==
    /\ pc[t].at = "dial"
    /\ pc' = [pc EXCEPT ![t] = Idle]
    /\ UNCHANGED <<clusters, entries, cancelled>>

\* As if the name were not looked up again after the dial.
TakenNotChecked(n) == FALSE

Taken(n) == clusters[n] # 0

Adopt(t) ==
    /\ pc[t].at = "dial"
    /\ LET n == pc[t].name
           id == Len(entries) + 1
       IN  IF Taken(n)
           THEN pc' = [pc EXCEPT ![t] = Idle] /\ UNCHANGED <<clusters, entries>>
           ELSE /\ id <= MaxEntries
                /\ entries' = Append(entries, [name |-> n, cancelled |-> FALSE, run |-> "new",
                                               err |-> FALSE])
                /\ clusters' = [clusters EXCEPT ![n] = id]
                /\ pc' = [pc EXCEPT ![t] = [at |-> "launch", id |-> id]]
    /\ UNCHANGED cancelled

\* As if a member removed in the meantime were not started.
LaunchedUnlessCancelled(e) == IF e.cancelled THEN e ELSE [e EXCEPT !.run = "running"]

Launched(e) == [e EXCEPT !.run = "running"]

Launch(t) ==
    /\ pc[t].at = "launch"
    /\ entries' = [entries EXCEPT ![pc[t].id] = Launched(@)]
    /\ pc' = [pc EXCEPT ![t] = Idle]
    /\ UNCHANGED <<clusters, cancelled>>

-----------------------------------------------------------------------------
(* The goroutine of a member: starter.Start(cctx), then close(done). *)

Failed(e) == [e EXCEPT !.run = "done", !.err = TRUE]

\* Start returns an error that is not a cancellation.
Fails(i) ==
    /\ entries[i].run = "running"
    /\ entries' = [entries EXCEPT ![i] = Failed(@)]
    /\ UNCHANGED <<clusters, pc, cancelled>>

Stopped(i) ==
    /\ entries[i].run = "running" /\ (entries[i].cancelled \/ cancelled)
    /\ entries' = [entries EXCEPT ![i] = [@ EXCEPT !.run = "done"]]
    /\ UNCHANGED <<clusters, pc, cancelled>>

-----------------------------------------------------------------------------
(* RemoveCluster and Stop: take out of the map, cancel, wait. *)

RemoveCluster(t, n) ==
    /\ ~Busy(t) /\ clusters[n] # 0
    /\ clusters' = [clusters EXCEPT ![n] = 0]
    /\ pc' = [pc EXCEPT ![t] = [at |-> "cancel", ids |-> {clusters[n]}]]
    /\ UNCHANGED <<entries, cancelled>>

Stop(t) ==
    /\ ~Busy(t)
    /\ clusters' = [n \in Names |-> 0]
    /\ pc' = [pc EXCEPT ![t] = [at |-> "cancel", ids |-> {clusters[n] : n \in Names} \ {0}]]
    /\ UNCHANGED <<entries, cancelled>>

Cancel(t) ==
    /\ pc[t].at = "cancel"
    /\ entries' = [i \in Ids |-> IF i \in pc[t].ids
                                 THEN [entries[i] EXCEPT !.cancelled = TRUE] ELSE entries[i]]
    /\ pc' = [pc EXCEPT ![t] = [@ EXCEPT !.at = "wait"]]
    /\ UNCHANGED <<clusters, cancelled>>

\* As if the callers did not wait for the informers they cancelled.
AllDoneAtOnce(ids) == TRUE

AllDone(ids) == \A i \in ids : entries[i].run = "done"

Return(t) ==
    /\ pc[t].at = "wait" /\ AllDone(pc[t].ids)
    /\ pc' = [pc EXCEPT ![t] = Idle]
    /\ UNCHANGED <<clusters, entries, cancelled>>

Shutdown ==
    /\ ~cancelled /\ cancelled' = TRUE
    /\ UNCHANGED <<clusters, entries, pc>>

Call(t) == \E n \in Names : AddCluster(t, n) \/ RemoveCluster(t, n)

Step(t) == DialFails(t) \/ Adopt(t) \/ Launch(t) \/ Cancel(t) \/ Return(t)

Next ==
    \/ \E t \in Callers : Call(t) \/ Stop(t) \/ Step(t)
    \/ \E i \in Ids : Fails(i) \/ Stopped(i)
    \/ Shutdown

Spec == Init /\ [][Next]_vars

(* Callers that do not wait proceed; an informer whose context is cancelled   *)
(* returns.                                                                   *)
LiveSpec ==
    /\ Spec
    /\ \A t \in Callers : WF_vars(Step(t))
    /\ \A i \in 1..MaxEntries : WF_vars(i \in Ids /\ Stopped(i))

-----------------------------------------------------------------------------
(* What is reported, and what has to hold. *)

Errors == {n \in Names : /\ clusters[n] # 0
                         /\ entries[clusters[n]].run = "done" /\ entries[clusters[n]].err}

\* No informer escapes control: one that may run and has not been cancelled is
\* attached under its name, or some caller is about to cancel it.  In
\* particular "concurrent AddCluster for the same name must lose cleanly".
NoOrphan ==
    \A i \in Ids : entries[i].run # "done" /\ ~entries[i].cancelled =>
        \/ clusters[entries[i].name] = i
        \/ \E t \in Callers : pc[t].at = "cancel" /\ i \in pc[t].ids

\* "cancels every attached cluster and waits for all of them to return": when
\* all calls have returned, an informer that still runs is that of an attached
\* member, so that after Stop none runs that a later write could come from.
QuietWhenRemoved ==
    (\A t \in Callers : ~Busy(t)) =>
        \A i \in Ids : entries[i].run # "done" => clusters[entries[i].name] = i

\* Every call returns, also a RemoveCluster or Stop that overtakes AddCluster
\* between its entry and the start of the informer.
CallsReturn == \A t \in Callers : Busy(t) ~> ~Busy(t)
=============================================================================
