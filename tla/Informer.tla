------------------------------ MODULE Informer ------------------------------
(***************************************************************************)
(* pkg/discovery/informer.go: the pipeline from the Kubernetes API to the  *)
(* graph store.  client-go keeps a cache per resource type (GVR) and calls *)
(* that type's handler serially; the handlers of different types run       *)
(* concurrently against one store.  Each store call of a handler is a step *)
(* of its own, may fail, and may fail after it took effect.                *)
(***************************************************************************)
EXTENDS Integers, Sequences, FiniteSets, Functions

CONSTANTS
    Gvrs,           \* watched resource types
    Objects,        \* object keys; an id belongs to one type
    GvrOf,          \* [Objects -> Gvrs]
    Bodies,         \* [Objects -> set of specs], each [refs, sel, lab]
    Versioned,      \* objects whose API reports a UID and a resourceVersion
    SecretIds,      \* ids of Secrets: never watched, only referenced
    MaxRev,         \* bound: how many API writes are explored
    MaxRestarts,    \* bound: how many process restarts are explored
    StoreFails,     \* store calls may return an error
    AckLost,        \* a failing store call may have taken effect (a commit error)
    BadObjects,     \* client-go may hand over something that is no object
    Persistence,    \* which stores are explored: whether one outlives the
                    \* process (PostgreSQL) or not (memory)
    None            \* no object, no store row

VARIABLES
    api, rev,       \* the API server: each key's object, and the last revision
    cache,          \* client-go's indexer: the object last queued for delivery
    todo,           \* per type: notifications not yet handled
    cur,            \* per type: what its handler is working on
    resources, secrets, edges,   \* the graph store
    persisted,      \* InformerManager.persisted
    recorded, last, duplicated,  \* the snapshot sink: (key, revision) pairs
                    \* recorded as written, each key's last event, keys whose
                    \* written revision was recorded a second time
    dirty,          \* keys with a store change no broadcast has followed
    gaps,           \* types with a recorded coverage gap
    ready, restarts,
    persistent,     \* whether the store outlives the process
    inherited       \* rows from before the restart no handler has touched since

server  == <<api, rev>>
client  == <<cache, todo>>
store   == <<resources, secrets, edges>>
sink    == <<recorded, last, duplicated>>
process == <<ready, restarts, persistent>>
vars == <<server, client, cur, store, persisted, sink, dirty, gaps, process, inherited>>

\* Besides a written revision, the last event of a key may be:
Unrecorded == 0
Deleted == -1

Idle == [pc |-> "idle"]
Of(g) == {o \in Objects : GvrOf[o] = g}
Ids == Objects \cup SecretIds
Object(o) == [rev : 1..MaxRev, body : Bodies[o]]

ASSUME InformerAssumption ==
    /\ GvrOf \in [Objects -> Gvrs] /\ Cardinality(Objects) \in Nat
    /\ \A o \in Objects : \A b \in Bodies[o] :
          b.refs \subseteq Ids /\ b.sel \in BOOLEAN /\ b.lab \in BOOLEAN
    /\ \A o \in Objects : None \notin Object(o)
    /\ MaxRev \in Nat /\ MaxRestarts \in Nat

TypeOK ==
    /\ rev \in 0..MaxRev
    /\ \A o \in Objects :
          /\ {api[o], cache[o], resources[o]} \subseteq Object(o) \cup {None}
          /\ persisted[o] \in 0..MaxRev
          /\ last[o] \in Deleted..MaxRev
    /\ secrets \subseteq SecretIds /\ edges \subseteq Objects \X Ids
    /\ recorded \subseteq Objects \X (1..MaxRev)
    /\ duplicated \subseteq Objects /\ dirty \subseteq Objects /\ gaps \subseteq Gvrs
    /\ \A g \in Gvrs : cur[g].pc \in {"idle", "extract", "write"}
    /\ ready \in BOOLEAN /\ restarts \in 0..MaxRestarts
    /\ persistent \in Persistence /\ inherited \subseteq Objects

\* What a fresh process knows.
Forgotten == [o \in Objects |-> None]

Init ==
    /\ api = Forgotten /\ rev = 0
    /\ cache = Forgotten /\ todo = [g \in Gvrs |-> <<>>]
    /\ cur = [g \in Gvrs |-> Idle]
    /\ resources = Forgotten /\ secrets = {} /\ edges = {}
    /\ persisted = [o \in Objects |-> 0]
    /\ recorded = {} /\ last = [o \in Objects |-> Unrecorded] /\ duplicated = {}
    /\ dirty = {} /\ gaps = {}
    /\ ready = FALSE /\ restarts = 0
    /\ persistent \in Persistence /\ inherited = {}

-----------------------------------------------------------------------------
(* The API server and client-go. *)

\* A client of the API server creates, changes, recreates or deletes an object.
Write(o) ==
    /\ rev < MaxRev
    /\ rev' = rev + 1
    /\ \E b \in Bodies[o] : api' = [api EXCEPT ![o] = [rev |-> rev + 1, body |-> b]]
    /\ UNCHANGED <<client, cur, store, persisted, sink, dirty, gaps, process, inherited>>

Erase(o) ==
    /\ api[o] # None /\ rev < MaxRev
    /\ rev' = rev + 1
    /\ api' = [api EXCEPT ![o] = None]
    /\ UNCHANGED <<client, cur, store, persisted, sink, dirty, gaps, process, inherited>>

Notification(op, o, obj) == [op |-> op, o |-> o, obj |-> obj]
Notify(g, n) == todo' = [todo EXCEPT ![g] = Append(@, n)]

\* A list or a watch event brings the cache up to date with the server; a
\* relist may skip revisions and reports a missed delete by a tombstone.
Observe(o) ==
    /\ cache[o] # api[o]
    /\ cache' = [cache EXCEPT ![o] = api[o]]
    /\ Notify(GvrOf[o],
              IF api[o] = None THEN Notification("delete", o, cache[o])
              ELSE Notification(IF cache[o] = None THEN "add" ELSE "update", o, api[o]))
    /\ UNCHANGED <<server, cur, store, persisted, sink, dirty, gaps, process, inherited>>

\* Resync replays the cache, in the order its map yields, to a handler that is
\* done with what it had.
Resync(g) ==
    /\ todo[g] = <<>> /\ cur[g] = Idle
    /\ \E n \in 1..Cardinality(Objects) :
         \E seen \in Bijection(1..n, {o \in Of(g) : cache[o] # None}) :
           todo' = [todo EXCEPT ![g] =
                      [i \in 1..n |-> Notification("update", seen[i], cache[seen[i]])]]
    /\ UNCHANGED <<server, cache, cur, store, persisted, sink, dirty, gaps, process, inherited>>

\* Start: every cache holds what the server has, so onSynced marks the process
\* ready; the handlers may still have work queued.
Synced ==
    /\ ~ready /\ cache = api
    /\ ready' = TRUE
    /\ UNCHANGED <<server, client, cur, store, persisted, sink, dirty, gaps, restarts,
                   persistent, inherited>>

-----------------------------------------------------------------------------
(* handleUpsert *)

Take(g) == todo' = [todo EXCEPT ![g] = Tail(@)]
Head1(g, ops) == cur[g] = Idle /\ todo[g] # <<>> /\ Head(todo[g]).op \in ops
Gap(g) == gaps' = gaps \cup {g}

\* What a store call may do: succeed, fail, or fail having taken effect.
Outcomes ==
    {out \in [done : BOOLEAN, ok : BOOLEAN] :
        /\ out.ok => out.done
        /\ ~out.ok => StoreFails /\ (out.done => AckLost)}

\* As if a failed store call were only logged.
ReportUnlessOkSilently(g, out) == UNCHANGED gaps

ReportUnlessOk(g, out) == gaps' = IF out.ok THEN gaps ELSE gaps \cup {g}

Changed(o, obj) == o \notin Versioned \/ persisted[o] # obj.rev

\* As if a version were remembered before its write is known to have worked.
RememberAlways(o, obj, out) ==
    persisted' = [persisted EXCEPT ![o] = IF o \in Versioned THEN obj.rev ELSE 0]

\* As if the handler did not remember what it has written.
RememberNothing(o, obj, out) == UNCHANGED persisted

Remember(o, obj, out) ==
    persisted' = IF ~out.ok THEN persisted
                 ELSE [persisted EXCEPT ![o] = IF o \in Versioned THEN obj.rev ELSE 0]

\* SnapshotSink.Enqueue of a written revision.
Record(o, r, out) ==
    IF ~out.ok THEN UNCHANGED sink
    ELSE /\ recorded' = recorded \cup {<<o, r>>}
         /\ last' = [last EXCEPT ![o] = r]
         /\ duplicated' = IF <<o, r>> \in recorded THEN duplicated \cup {o} ELSE duplicated

\* A failed write ends the handler.
CarryOn(g, o, obj, changed, out) ==
    cur' = IF ~out.ok THEN cur
           ELSE [cur EXCEPT ![g] = [pc |-> "extract", o |-> o, obj |-> obj, changed |-> changed]]

\* Write the resource unless this version is known to be stored; remember the
\* version and record the event if the write succeeds.
UpsertResource(g) ==
    /\ Head1(g, {"add", "update"})
    /\ Take(g)
    /\ LET o == Head(todo[g]).o
           obj == Head(todo[g]).obj
       IN  \/ /\ Changed(o, obj)
              /\ \E out \in Outcomes :
                   /\ resources' = IF out.done THEN [resources EXCEPT ![o] = obj] ELSE resources
                   /\ dirty' = IF out.done THEN dirty \cup {o} ELSE dirty
                   /\ Remember(o, obj, out)
                   /\ Record(o, obj.rev, out)
                   /\ CarryOn(g, o, obj, TRUE, out)
                   /\ ReportUnlessOk(g, out)
           \/ /\ ~Changed(o, obj)
              /\ CarryOn(g, o, obj, FALSE, [done |-> TRUE, ok |-> TRUE])
              /\ UNCHANGED <<resources, dirty, persisted, sink, gaps>>
    /\ inherited' = inherited \ {Head(todo[g]).o}
    /\ UNCHANGED <<server, cache, secrets, edges, process>>

\* ExtractAll: references come from the object alone, selected targets from a
\* query of the store.  A failing query loses only the selected ones.
RefEdges(o, obj) == {o} \X obj.body.refs
Selected(obj) ==
    IF obj.body.sel
    THEN {t \in Objects : resources[t] # None /\ resources[t].body.lab}
    ELSE {}
Derived(o, obj) == RefEdges(o, obj) \cup ({o} \X Selected(obj))

WorthTelling(changed, es) == changed \/ es # {}

Extract(g) ==
    /\ cur[g].pc = "extract"
    /\ \E ok \in IF StoreFails /\ cur[g].obj.body.sel THEN BOOLEAN ELSE {TRUE} :
         LET c == cur[g]
             es == IF ok THEN Derived(c.o, c.obj) ELSE RefEdges(c.o, c.obj)
         IN  /\ cur' = [cur EXCEPT ![g] =
                          [pc |-> "write", o |-> c.o, notify |-> WorthTelling(c.changed, es),
                           secs |-> {e[2] : e \in es} \cap SecretIds, es |-> es]]
             /\ IF ok THEN UNCHANGED gaps ELSE Gap(g)
    /\ UNCHANGED <<server, client, store, persisted, sink, dirty, process, inherited>>

\* A placeholder for every referenced Secret, before any edge.
UpsertSecret(g) ==
    /\ cur[g].pc = "write"
    /\ \E s \in cur[g].secs, out \in Outcomes :
         /\ cur' = [cur EXCEPT ![g].secs = @ \ {s}]
         /\ secrets' = IF out.done THEN secrets \cup {s} ELSE secrets
         /\ ReportUnlessOk(g, out)
    /\ UNCHANGED <<server, client, resources, edges, persisted, sink, dirty, process, inherited>>

UpsertEdge(g) ==
    /\ cur[g].pc = "write" /\ cur[g].secs = {}
    /\ \E e \in cur[g].es, out \in Outcomes :
         /\ cur' = [cur EXCEPT ![g].es = @ \ {e}]
         /\ edges' = IF out.done THEN edges \cup {e} ELSE edges
         /\ dirty' = IF out.done THEN dirty \cup {cur[g].o} ELSE dirty
         /\ ReportUnlessOk(g, out)
    /\ UNCHANGED <<server, client, resources, secrets, persisted, sink, process, inherited>>

\* Tell the clients: after the writes, if the resource or any edge was written.
Broadcast(g) ==
    /\ cur[g].pc = "write" /\ cur[g].secs = {} /\ cur[g].es = {}
    /\ dirty' = IF cur[g].notify THEN dirty \ {cur[g].o} ELSE dirty
    /\ cur' = [cur EXCEPT ![g] = Idle]
    /\ UNCHANGED <<server, client, store, persisted, sink, gaps, process, inherited>>

-----------------------------------------------------------------------------
(* handleDelete: forget the version, delete the resource and, whatever came *)
(* of that, record and announce the deletion.  The store cascades.          *)

Incident(o) == {e \in edges : o \in {e[1], e[2]}}

RecordDelete(o) ==
    /\ last' = [last EXCEPT ![o] = Deleted]
    /\ UNCHANGED <<recorded, duplicated>>

Delete(g) ==
    /\ Head1(g, {"delete"})
    /\ Take(g)
    /\ LET o == Head(todo[g]).o IN
       /\ persisted' = [persisted EXCEPT ![o] = 0]
       /\ \E out \in Outcomes :
            /\ resources' = IF out.done THEN [resources EXCEPT ![o] = None] ELSE resources
            /\ edges' = IF out.done THEN edges \ Incident(o) ELSE edges
            /\ ReportUnlessOk(g, out)
       /\ RecordDelete(o)
       /\ dirty' = dirty \ {o}
       /\ inherited' = inherited \ {o}
    /\ UNCHANGED <<server, cache, cur, secrets, process>>

\* Something that is no object is skipped with a gap, by either handler.
SkipBadObject(g) ==
    /\ BadObjects /\ cur[g] = Idle /\ todo[g] # <<>>
    /\ Take(g) /\ Gap(g)
    /\ UNCHANGED <<server, cache, cur, store, persisted, sink, dirty, process, inherited>>

Handler(g) ==
    \/ UpsertResource(g) \/ Extract(g) \/ UpsertSecret(g) \/ UpsertEdge(g) \/ Broadcast(g)
    \/ Delete(g)
    \/ SkipBadObject(g)

-----------------------------------------------------------------------------
(* The process dies at any point and starts again; an in-memory store is gone *)
(* with it, a PostgreSQL store is not.  Clients reconnect and read afresh.    *)

Restart ==
    /\ restarts < MaxRestarts
    /\ restarts' = restarts + 1
    /\ cache' = Forgotten /\ todo' = [g \in Gvrs |-> <<>>]
    /\ cur' = [g \in Gvrs |-> Idle]
    /\ persisted' = [o \in Objects |-> 0]
    /\ recorded' = {} /\ duplicated' = {}
    /\ IF persistent
       THEN UNCHANGED <<store, last>>
       ELSE /\ resources' = Forgotten /\ secrets' = {} /\ edges' = {}
            /\ last' = [o \in Objects |-> Unrecorded]
    /\ inherited' = {o \in Objects : resources'[o] # None}
    /\ dirty' = {} /\ gaps' = {} /\ ready' = FALSE
    /\ UNCHANGED <<server, persistent>>

Next ==
    \/ \E o \in Objects : Write(o) \/ Erase(o) \/ Observe(o)
    \/ \E g \in Gvrs : Resync(g) \/ Handler(g)
    \/ Synced
    \/ Restart

Spec == Init /\ [][Next]_vars

\* client-go keeps watching and resyncing, each handler goroutine is scheduled,
\* and a store that fails does not fail every call from some time on.
LiveSpec ==
    /\ Spec
    /\ \A o \in Objects : WF_vars(Observe(o))
    /\ \A g \in Gvrs :
         /\ WF_vars(Resync(g)) /\ WF_vars(Handler(g))
         /\ SF_vars(UpsertResource(g) /\ cur'[g] # Idle)
         /\ SF_vars(Extract(g) /\ cur'[g].es = Derived(cur[g].o, cur[g].obj))
         /\ \A e \in Of(g) \X Ids :
              SF_vars(UpsertEdge(g) /\ e \in edges' /\ e \in cur[g].es \ cur'[g].es)

-----------------------------------------------------------------------------
(* What has to hold. *)

\* The handler of g has handled all it was given.
Handled(g) == cur[g] = Idle /\ todo[g] = <<>>

\* Once a type's notifications are handled, its part of the graph is what the
\* informer's cache says, or the type has a coverage gap: an analysis over a
\* type without a gap is never based on resources that are not there or
\* revisions that are gone, whatever store calls failed.  The one exception is
\* a row an earlier process left in PostgreSQL for an object that is gone now.
DriftHasGap ==
    \A g \in Gvrs : Handled(g) /\ g \notin gaps =>
        \A o \in Of(g) : resources[o] = cache[o] \/ (o \in inherited /\ cache[o] = None)

\* The history agrees with the graph in the same way: the last event of a
\* resource is the revision stored, or its deletion.
HistoryMatchesGraph ==
    \A g \in Gvrs : Handled(g) /\ g \notin gaps =>
        \A o \in Of(g) \ inherited :
            last[o] = IF resources[o] # None THEN resources[o].rev
                      ELSE IF last[o] = Unrecorded THEN Unrecorded ELSE Deleted

\* No edge outlives its source: the handler of the source is serial, ends at a
\* failed write, and the delete cascades.
EdgesHaveSources == \A e \in edges : resources[e[1]] # None

\* "Already-persisted versions do not produce resource writes or duplicate
\* history events", through resyncs, failures and recreations.
NoDuplicateHistory == duplicated \cap Versioned = {}

\* A client that reads again at every broadcast is not left behind: a change no
\* broadcast has followed belongs to a handler still at work or to a gap.
ChangesAnnounced ==
    \A o \in dirty : cur[GvrOf[o]] # Idle \/ GvrOf[o] \in gaps

\* What handleUpsert and handleDelete leave in the graph: it differs from what a
\* handler was given only under a recorded gap, and no edge leaves a resource
\* that is not stored.
GraphSound == TypeOK /\ DriftHasGap /\ EdgesHaveSources

\* What they tell of it: the history ends with what the graph holds, has no
\* revision twice, and every change is followed by a broadcast, or there is a gap.
ChangesRecorded == HistoryMatchesGraph /\ NoDuplicateHistory /\ ChangesAnnounced

\* Resync repairs what failed or came too early: once the cluster is quiet,
\* every live object ends up stored with every edge it now has, late selector
\* targets and failed writes included.
EdgesCatchUp ==
    <>[](\A o \in Objects : api[o] # None =>
            resources[o] = api[o] /\ Derived(o, api[o]) \subseteq edges)
=============================================================================
