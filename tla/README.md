# KubeAtlas: a TLA+ verification of the observation pipeline

KubeAtlas watches Kubernetes clusters, derives a dependency graph from what it
sees, and serves that graph, its history and analyses over HTTP and websockets.
What makes it hard to get right is not any one function but the distance
between a change in a cluster and what a reader is told about it: informer
goroutines, a store that can fail, a lossy history queue, collectors that are
stopped and replaced while their callbacks are still under way, clients that
are too slow, and a process that may be told to stop at any moment.  The
modules in this directory model that path, TLC checks it on small instances,
and TLAPS proves the core of it for every instance.

Run `tlc -config X.cfg M` for the pairs in the table of runs, and
`tlapm MemoryStoreProofs.tla`, `tlapm SnapshotWriterProofs.tla`,
`tlapm MulticlusterProofs.tla` and `tlapm ProjectionProofs.tla` for the proofs.

## The system

| Part (source) | State | Operations | Interacts with |
|---|---|---|---|
| GraphStore contract (`pkg/graph/store.go`) | resources by id, edges by (from, to, type) | upsert and delete of resources and edges | every writer and reader |
| In-memory store (`pkg/store/memory`) | resources, two adjacency maps, event ring | the same, traversals, aggregates | informers, CRD discovery, API |
| PostgreSQL store (`pkg/store/postgres`) | rows and an AGE mirror, schema version | the same in transactions, migrations | the same |
| Informer pipeline (`pkg/discovery/informer.go`, `pkg/extractor`) | client-go caches, `persisted` versions | `handleUpsert`, `handleDelete`, resync, start | store, history, hub, coverage |
| Snapshot writer (`pkg/snapshot`) | queue, workers, metrics | `Enqueue`, `Start`, `Stop`, retention | informers, event store, analyses |
| Observation coverage (`pkg/operations`) | sessions, rows, tokens, epochs, gaps | `Begin`, `BeginType`, callbacks, `Stop`, snapshots | informers, CRD and Gatekeeper discovery, analyses |
| Monitor (`pkg/operations/monitor.go`) | probe results | sampling, observation state | readiness of analyses |
| CRD discovery (`pkg/crd`) | registrations, callback families | add, update, delete of a CRD, callbacks | store, coverage |
| Dynamic informers, Gatekeeper (`pkg/gatekeeper`) | informers by type | add, remove, callbacks | store, coverage |
| Multi-cluster manager (`pkg/multicluster`) | attached members | attach, remove, stop | one informer manager per member |
| WatchHub and browser (`pkg/api/websocket.go`, `web/src/api`) | subscriptions, send buffers | subscribe, broadcast, heartbeat, leave | informers, clients |
| REST API (`pkg/api`) | semaphores, readiness gate | handlers | store, aggregators, analyses |
| OTel receiver and correlator (`pkg/otel`) | span queue, correlated edges | export, batch, correlate, expire | store |
| API inventory (`pkg/discovery/api_inventory.go`, `pkg/operations/api_inventory.go`) | what the server serves, per session | begin, read, record, stop | impact reports |
| Impact analysis (`pkg/graph/analysis/impact*.go`, `pkg/graph/impact_snapshot.go`) | none; reads store and evidence | bounded projection, two walks, assessment | API, coverage, monitor, inventory |
| Views and other analyses (`pkg/aggregator`, `pkg/graph/analysis`) | none; read the store call by call | views, orphans, cycles, blast radius, diagnosis | API, CLI |
| Process (`cmd/kubeatlas/main.go`) | five components, one context | wiring, readiness, cascade, exit | all |

The behaviours that are hard to test, with the line where each can go wrong and
the property that would catch it, are the `hazards` of `PROJECT.json`; the parts
that are not modelled are its `components` with status `not_modelled`.

## Modules and their correspondence to the code

`map` in `PROJECT.json` gives the source lines of every definition.  A module
stands for one component.  The `MC` modules put the components of one layer
into one run, one component per behaviour: the variable `which` says which one
moves, and the others stand still in one of their initial states, so a run is
the union of the state spaces of its components and not their product.

### Stores and the graph

**GraphContract** is the abstract specification: what `GraphStore` promises
whatever the backend.  Deleting a resource deletes every incident edge, and a
Secret is never stored as more than a reference.

**MemoryStore** has one action for each mutating method, since each holds the
store's mutex for its whole body.  `outgoing` and `incoming` are the two
adjacency maps; `DeleteResource` performs the two halves of the cascade in the
order of the code.  `ListReachable`, `CountCrossNamespaceEdges`,
`GetNamespaceSubgraph` and the other queries are operators of the state.  It
refines GraphContract with `edges <- outgoing`.

**PostgresStore** is the second implementation.  A mutation is the program of
SQL statements its method sends, ended by a commit; the programs of two clients
interleave under read committed, wait for row locks, and may fail at any
statement.  The tables and the AGE graph are two parts of one database, and
kinds and edge types without a label stay out of the latter.  Commits are shown
to be steps of GraphContract, with one exception that the property names: a
`DeleteResource` whose cascade ran before another client's edge was committed
leaves that edge behind.  The queries are sets over the committed rows, and are
compared with the in-memory store on the same rows.

**Migrations** has one replica per process of a rollout, each reading the
version and applying what is missing, a transaction for each; a replica may
crash between any two of them.

**LiveGraph**, **Aggregators**, **ReadHandlers** and **Reads** model the readers
that make several store calls: the five views, and the handlers for RBAC,
network policies, policies, resource detail, orphans, blast radius and the
diagnosis.  Each call is a step, the graph may change between two, and a call
may fail, which some handlers answer with an error and others pass over.

**Cycles** is Tarjan's algorithm as `cycles.go` runs it, recursion included,
compared with the definition of a strongly connected component for every graph
of four nodes and a dangling end.

**Extractors** has the fields each extractor reads and the edges it makes of
them, and the second reading of the same fields in `impact_references.go`, over
the projection that a store keeps of the object.

**ImpactAnalysis** walks one projection arc by arc, in the order of the heap,
within depth and result limits; the ordinary facet and the authorization facet
are compared with their closures.

### The writing side

**SnapshotWriter** splits `Enqueue` into its atomic operations (load `closed`,
try to send, drop the oldest, try again), `Stop` into swap, close and wait, and
the workers into taking an event and single attempts.  A send on a closed
channel is a panic.  `Joined` says which handlers have returned when Stop is
called; `SinkHonoursCtx` and `CtxCancels` say how the sink treats the context
that `runWatch` cancels.  `HistoryState` is what `historyAvailability` reports.

**Informer** composes the API server, client-go's cache and queue per type, the
handlers, the store and the history sink.  Every store call of a handler is a
step of its own, may fail, and may fail after it took effect.  An object is its
revision and a body: the ids it refers to, whether it selects, and whether it
carries the selected label; `Selected` queries the store at that moment, as the
extractors do.  `Restart` drops everything the process knows; a `persistent`
store survives it.

**History** follows the events further: workers append them, the ring or the
table keeps them, retention prunes them in batches, an observer samples what is
left, and `DiffWindow` classifies resources by their first and last event.

### Collectors

**Coverage** models the tracker for one cluster and one source.  Its methods are
atomic under the mutex, but any handle ever given out may call at any time.
`Watch` streams carry the epoch they were given; an error may be read from a
stream and reported after its successor is open.  `RowState`, `Snapshot` and
`SnapshotSource` are what an analysis is told.

**CrdDiscovery** models one CRD with its incarnations and served versions, the
registrations made for it one after the other, one custom object, the callback
family with its reference count, and optionally the core informer that watches
the same type.

**Gatekeeper** models the wait for the template API, one template, the dynamic
manager's registrations for its constraint kind and their callbacks, which share
no lock with those of the next registration.

**Inventory** models collectors that read the API server's group versions and
then the resources of each, in separate requests, and record under a session
that a later collector takes over.

### Serving and steering

**WatchHub** models the reader, the writer goroutine and the bounded send buffer
of a connection, concurrent broadcasts, a transport that fills up, and a browser
that fetches again at each update.  A dropped update is a step of `Broadcast`.

**Multicluster** models `AddCluster` as check, dial, check again, launch,
`RemoveCluster` and `Stop` as take out, cancel, wait, and the goroutine of each
member.

**Process** models `runWatch`: the wiring of hub and server, readiness, the
component results, the cancellation cascade and the exit.  It uses the others
only through what they return: a component is running, cancelled or failed.

**Requests** models the impact handler and its worker, which share a slot of a
semaphore and a deadline, the export handler, and the federation handlers with
the clusters a token may see while members come and go.

### Evidence

**Projection** is the bounded read behind impact reports and event pages: rows
are charged one by one against a limit and a byte budget while writers go on.

**ImpactWindow** is the frame of an impact report: evidence, graph, evidence
again, and what the two readings of the evidence together establish.

**Monitor** is the sampling loop, the states derived from its cached results,
and the checks an impact report makes of them.

**OtelReceiver** is the queue between gRPC handlers and workers with its
shutdown; **Correlator** the passes over stored spans, the fold into runtime
edges, and both retentions.

Formatting, logging, label wording and the layout of payloads are left out.  The
definitions whose names begin like another definition and whose comment begins
"As if" are plausible faults of the definition that follows; the mutation table
in `PROJECT.json` uses them to show that each property depends on the code.

## Runs

| Run (module, config) | Question | States |
|---|---|---|
| `graph` (MCGraph, MCGraph.cfg) | Do both stores implement the contract and answer alike; do views and reports stay between what was and what is stored; are cycles, edges and impact facets what their definitions say? | 1,253,116 |
| `informer_safety` (MCInformer, InformerSafety.cfg) | Do graph, history, edges and broadcasts agree with the cache, or is there a gap? | 1,992,546 |
| `informer_catch_up` (MCInformer, InformerCatchUp.cfg) | Does resync repair failed writes and late selector targets? | 35,070 |
| `collectors` (MCCollectors, MCCollectors.cfg) | Do coverage rows tell the truth about watches, gaps and changes; does the newest registration of a CRD have the last word; was what an inventory lists served? | 1,755,461 |
| `watch_hub` (MCWatchHub, WatchHub.cfg) | Is no closed channel used, no client left behind, no dead connection kept? | 110,234 |
| `services` (MCServices, MCServices.cfg) | Does every member's informer stay under control, does readiness mean synced, is every request answered once and its slot given back, and does everything end that is told to? | 254,478 |
| `background` (MCBackground, MCBackground.cfg) | Is every event and span batch accounted for, is a loss visible, is shutdown free of panics and deadlocks, do migrations run once, do constraints appear? | 146,209 |
| `evidence` (MCEvidence, MCEvidence.cfg) | Is no truncated read, pruned history, reordered span, stale probe or interrupted window presented as whole and current? | 2,529,490 |
| `writer_stop_race` (SnapshotWriter, SnapshotWriterStopRace.cfg) | Can a handler that has not been joined panic? | violated |
| `writer_drain` (SnapshotWriter, SnapshotWriterDrain.cfg) | Does the drain at shutdown reach the store? | violated |
| `process_federated_updates` (Process, ProcessUpdates.cfg) | Do a federation's updates reach its clients? | violated |
| `history_last_event` (History, HistoryDiff.cfg) | Does the last event of a resource tell whether it exists? | violated |

What each property says is in the comment above it, and in the module of its
component where an `MC` module only gives it a name.

### Bounds

Each bound is a constant named in a guard.  Four ids with a cycle, a
self-reference, a parallel edge and a dangling endpoint contain every case of
the cascade.  A queue of one slot with two handlers and two workers makes all
the races of drop-oldest happen; three events are enough for a drop, a failure
and a success in one behaviour.  Three API writes allow create, change and
delete, or delete and recreate, of one object while another is handled; one
restart separates two processes.  Coverage has three instances in one run: a
session of two types, two sessions of one type, and a dynamic source with room
for one of two types, with two sessions and two tokens.  Three revisions of a row
let one type be observed while the other is stale or has a gap; five let an error
be reported of a stream after its successor is open.  WatchHub has one
connection, since connections share nothing but the map, and a buffer of two, so
that it fills up with an update under way; `PongLimit` below the buffer size
stands for one PING in 30 seconds against a buffer of 1024.  Multicluster has
two callers and two names, so that every pair of calls overlaps, and three
entries.  CRD discovery allows three registrations, so that a lock outlives a
chain of two, and the metadata and object informers lag by one event.

PostgreSQL has three ids, one of a kind AGE has no label for and one Secret, and
two clients of which each owns the resources of its type, so that any two
programs overlap.  Three replicas of two binaries with two crashes meet every
race for a version.  A read request sees two changes of the graph and one failed
call, enough for something to go, or come, between any two of its calls; the
resource view is cut at two neighbours.  Pods have up to two references of every
kind and place, policies up to two peers with every combination of selectors.
The two impact graphs contain cycles, a foreign and a missing resource, owner
references of every status, shared roles and a second account, for all roots,
directions and small limits.  A history of three events with a ring of two and
batches of one overflows and prunes; four spans of three services, two of them
the same pair, written up to twice, fall into several passes.  Probes take up to
their timeout, and an impact report sees up to three changes of its evidence.
Two requests share a semaphore of one slot: an impact request beside any other,
and two exports.  `Window`, `Retention`, `StaleAfter` and the like keep the
order they have in the code, not their values.

### Fairness

Safety is checked without fairness.  Liveness assumes, and the code justifies:

- *Writer*: a goroutine inside Enqueue runs on, for `EnqueueReturns`, which
  needs neither workers nor Stop; workers and a begun Stop run, for `StopReturns`.
- *Informers*: client-go keeps watching and resyncing, handlers are scheduled,
  and a store that fails does not fail the same call for ever (strong fairness,
  for `EdgesCatchUp` only).
- *WatchHub*: a websocket write ends by success or by its timeout, and Go's
  `select` picks among ready cases at random, hence strong fairness of each.
- *Process and members*: a component whose context is cancelled returns, calls
  of the manager run on, and the result loop receives.
- *Requests*: handler and worker are scheduled, and the analysis ends.
- *OTel receiver*: its goroutines are scheduled, and a running handler ends.
- *Migrations*: replicas run on, and one that failed is started again, as its
  Deployment does.
- *Gatekeeper*: goroutines run, resyncs come, and an informer delivers what it
  has seen although resyncs come in between (strong fairness: they are minutes
  apart); probes and writes fail finitely often.

New calls, API writes, failures and signals are never assumed to happen.  In a
composed run the fairness of a component is stated of its steps while it is the
one that moves.

CHECK_DEADLOCK is off where the system may come to rest (no more API writes,
every member attached, the process gone); it is on in `graph` and `background`,
whose ends are explicit steps.

## What is proved

The proof modules hold for every value of the constants that satisfies the
named assumptions of the modules (`StoreAssumption`: absent values are distinct
and edge inputs are well-typed; `WriterAssumption`: finite sets of handlers and
workers, at least one worker, positive queue size and retry budget;
`MulticlusterAssumption`: the bound on entries is a number;
`ProjectionAssumption`, see ProjectionProofs below).

*MemoryStoreProofs.*  `StoreInv` (types, mirror, Secrets) is inductive.  The
mirror is what makes it so: `DeleteResource` finds the entries to remove in one
map from the keys of the other, so the cascade is complete only if the maps
agreed before it.  The lemma `DeleteResourceEffect` says that then each map
loses exactly the edges incident on the id; `WriteEdgeKeepsMirror` covers
`UpsertEdge` and `DeleteEdge`.  From it follow `MirrorHolds`, `SecretsHold` and
`StoreImplementsContract`, in which each method maps to the contract operation
of the same name.

*SnapshotWriterProofs.*  `WriterInv` joins the types, `WorkerInv` (a worker that
has left saw the channel closed and empty, and nothing is sent afterwards),
`StopInv` (whoever is between swap and close is alone, the flag is set before
the channel is closed, and a joined handler is outside Enqueue by then) and
`Accounting`, whose preservation needs the cardinalities of the sets of handlers
inside Enqueue and of busy workers step by step.  Its consequences are
`AccountingHolds`, `StoppedWriterIsDrained` and `NoPanicOnceJoined`: the only
goroutine that can panic is a handler that was not joined before Stop.

*MulticlusterProofs.*  `NoOrphan` is not inductive: a launch sets an informer
running whatever it was before, so an entry that had ended could come back with
nobody holding it.  `LaunchInv` (an entry about to be launched is new, and one
caller launches it) rules that out, and `Attended` (an informer that has not
ended is attached or some caller is going to wait for it) is the same argument
carried on to the end of the wait.  `ControlInv` joins both with the types and
`NoOrphan`; its consequences are `NoMemberEscapes` and `RemovedMembersAreQuiet`.

*ProjectionProofs.*  A read cannot tell from what it got that it is whole.  The
invariant `Inv` says why it may: what a table has delivered and what is still to
come is all that is in scope, or more than may be returned, in which case the
read fails or is marked (`FetchEnough` is where the one row more than the limit
is needed), and for a page the rows come oldest first.  `ChargeIsExact` shows
that dividing the budget before comparing rejects exactly the rows that do not
fit.  `ReadsAreWholeAlways` follows for every table, size, limit and budget.

Only model-checked: everything else.  Liveness under fairness and ENABLED are
outside the prover, as is induction over data, so what `ListReachable` computes
for every graph, Tarjan's search, the impact walks and the temporal properties
stay with TLC.

## Where the code and its comments disagree

- *Stop race* (`writer_stop_race`).  `Enqueue` "never blocks and never panics",
  but it loads `closed` and sends later; `InformerManager.Start` returns without
  waiting for running handlers, so Stop can close the channel in between.
  `NoPanicOnceJoined` shows that joining the handlers is all that is missing.
- *Drain* (`writer_drain`).  "Drain the snapshot writer's buffered events into
  the store before exit": the workers run on the context that has just been
  cancelled, and the PostgreSQL sink refuses it.
- *Federated updates* (`process_federated_updates`).  "baseInformerOpts holds no
  reference to srv": it holds the hub of the first server, which never listens.
- *Order of events* (`history_last_event`).  "the last event decides whether the
  resource still exists at To": the writer's workers append the events of one
  resource in any order, and the store stamps them when they are appended.
  `DiffTellsWhatIsThere`, in `evidence`, shows that with one worker the diff is
  right whatever is pruned.

Met while modelling, and stated in the properties rather than as disagreements:
a failed `DeleteResource` is recorded and announced as a deletion while the row
stays, but a gap says so; a restart over PostgreSQL does not remove rows of
objects deleted in the meantime (the exception in `DriftHasGap`); a federated
process is ready before its members have synced (`ReadyMeansSynced` speaks of
the standalone one); a signal during the first sync ends the process with an
error; the core informer and CRD discovery do write the same objects of types
that are in `CoreGVRs` and defined by CRDs, and agree once both have delivered;
a PostgreSQL delete can leave an edge that was committed while it ran
(`DeleteMissesEdges`); a callback of a removed Gatekeeper registration can
overwrite what its successor wrote, until the next resync (`OnlyOverlapMisleads`
and `ConstraintsAppear`); an impact report refuses its own evidence when a probe
grows stale between the reading and the dating of it (`OwnEvidenceAccepted`);
and `ListReachable` returns its start when a cycle leads back to it.

## Not modelled

Telemetry (an opt-in ticker that posts counters), the command-line programs
(sequential, over the same store and analyses) and the user interface apart from
its websocket client.  Of modelled components: the text of SQL and Cypher and
the ranking of `Search`, which TLC cannot evaluate; the `Snapshot` of
PostgreSQL, two queries without a transaction, which LiveGraph treats as one
call; the Rego engine, whose rules users write and whose edges are inputs of
the stores; the reconnect backoff of the browser; flags and environment;
encodings of requests, exports and spans; handlers of a single store call; and
Kubernetes, client-go and PostgreSQL themselves, which appear through what this
code sees of them.

Open ends: a proof of `EstablishedIsTrue` and of the refinement of the
PostgreSQL store, several templates in Gatekeeper, and a run of the
informers over the PostgreSQL store, whose product is beyond TLC.
