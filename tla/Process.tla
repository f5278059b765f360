-------------------------------- MODULE Process --------------------------------
(* cmd/kubeatlas/main.go, runWatch: how one process wires its five long-lived *)
(* components, when it says it is ready, where the updates of its informers   *)
(* go, and how it winds down.  Standalone, the informer component watches one *)
(* cluster; federated, it is the multicluster starter with several members.   *)
EXTENDS Integers, FiniteSets

CONSTANTS
    Clusters,    \* the clusters of a federation
    MaxUpdates   \* bound on the updates announced

Components == {"informer", "api", "crd-discovery", "gatekeeper", "otel"}

VARIABLES
    federated,   \* KUBEATLAS_MULTICLUSTER_ENABLED, read once
    comp,        \* per component: "running", "cancelled" or "failed"
    tried,       \* members the informer component has tried to attach
    attached,    \* members whose informer runs
    synced,      \* members whose caches are synced
    ready,       \* the readiness gate of the server that listens
    bound,       \* the server whose hub the informers broadcast to
    served,      \* the server that listens
    told,        \* updates the informers have announced
    heard,       \* updates the hub of the listening server has got
    signalled,   \* SIGINT or SIGTERM has arrived
    cancelled,   \* the context of the components is cancelled
    collected,   \* components whose result runWatch has received
    stage        \* "wiring", "up", "draining", or the exit: "ok" or "fatal"

vars == <<federated, comp, tried, attached, synced, ready, bound, served, told, heard, signalled,
          cancelled, collected, stage>>

watching == <<tried, attached, synced, ready>>
hubs == <<bound, served, told, heard>>

\* A standalone process watches one cluster.
Members == IF federated THEN Clusters ELSE {CHOOSE m \in Clusters : TRUE}

TypeOK ==
    /\ comp \in [Components -> {"running", "cancelled", "failed"}]
    /\ synced \subseteq attached /\ attached \subseteq tried /\ tried \subseteq Members
    /\ ready \in BOOLEAN /\ bound \in 1..2 /\ served \in 1..2
    /\ told \in 0..MaxUpdates /\ heard \in 0..told
    /\ signalled \in BOOLEAN /\ cancelled \in BOOLEAN
    /\ collected \subseteq {c \in Components : comp[c] # "running"}
    /\ stage \in {"wiring", "up", "draining", "ok", "fatal"}
    /\ stage \in {"draining", "ok", "fatal"} => collected = Components

Init ==
    /\ federated \in BOOLEAN
    /\ comp = [c \in Components |-> "running"]
    /\ tried = {} /\ attached = {} /\ synced = {} /\ ready = FALSE
    /\ bound = 1 /\ served = 1 /\ told = 0 /\ heard = 0
    /\ signalled = FALSE /\ cancelled = FALSE /\ collected = {} /\ stage = "wiring"

ServesAnother == federated

\* The server that the first api.New makes gives the informers their
\* broadcaster; a federated process then makes a second one to listen.
Wire ==
    /\ stage = "wiring"
    /\ bound' = 1 /\ served' = IF ServesAnother THEN 2 ELSE 1
    /\ stage' = "up"
    /\ UNCHANGED <<federated, comp, watching, told, heard, signalled, cancelled, collected>>

Up(c) == stage = "up" /\ comp[c] = "running"

-----------------------------------------------------------------------------
(* The informer component. *)

\* InformerManager.Start, or AddFromSecret and AddCluster for a member.
Attach(m) ==
    /\ Up("informer") /\ m \notin tried
    /\ tried' = tried \cup {m}
    /\ attached' = attached \cup {m}
    /\ UNCHANGED <<federated, comp, synced, ready, hubs, signalled, cancelled, collected,
                   stage>>

\* A member that cannot be attached is skipped.
AttachFails(m) ==
    /\ federated
    /\ Up("informer") /\ m \notin tried
    /\ tried' = tried \cup {m}
    /\ UNCHANGED <<federated, comp, attached, synced, ready, hubs, signalled, cancelled, collected,
                   stage>>

Sync(m) ==
    /\ Up("informer") /\ ~cancelled /\ m \in attached \ synced
    /\ synced' = synced \cup {m}
    /\ UNCHANGED <<federated, comp, tried, attached, ready, hubs, signalled, cancelled, collected,
                   stage>>

\* As if a standalone process were ready with its informers started.
ReadyToServeEarly == tried = Members /\ attached # {}

\* onSynced after WaitForCacheSync; onReady after AddFromSecret when at least
\* one member is attached.
ReadyToServe ==
    tried = Members /\ IF federated THEN attached # {} ELSE synced = Members

MarkReady ==
    /\ Up("informer") /\ ~ready /\ ReadyToServe
    /\ ready' = TRUE
    /\ UNCHANGED <<federated, comp, tried, attached, synced, hubs, signalled, cancelled, collected,
                   stage>>

\* An event handler of a member announces a change.
Announce(m) ==
    /\ Up("informer") /\ ~cancelled /\ m \in attached /\ told < MaxUpdates
    /\ told' = told + 1
    /\ heard' = IF bound = served THEN heard + 1 ELSE heard
    /\ UNCHANGED <<federated, comp, watching, bound, served, signalled, cancelled, collected, stage>>

-----------------------------------------------------------------------------
(* How components return. *)

\* An early failure: no handler or coverage session, no member attached, no
\* listener.  The OTLP receiver and the placeholders have none.
MayFail(c) ==
    CASE c = "informer" -> IF federated THEN tried = Members /\ attached = {} ELSE tried = {}
      [] c = "api" -> TRUE
      [] c \in {"crd-discovery", "gatekeeper"} -> ~federated
      [] OTHER -> FALSE

\* As if the wait for the first sync did not end with the context.
InformerAfterCancelWaits ==
    IF tried # Members THEN {}
    ELSE IF federated /\ attached = {} THEN {"failed"}
    ELSE IF ready THEN {"cancelled"} ELSE {}

\* A standalone informer that is still waiting for its first sync returns an
\* error of its own; otherwise the component passes MarkReady first.
InformerAfterCancel ==
    IF tried # Members THEN {}
    ELSE IF IF federated THEN attached = {} ELSE synced # Members THEN {"failed"}
    ELSE IF ready THEN {"cancelled"} ELSE {}

\* What Start returns once its context is cancelled: a server with requests
\* that outlast the grace period returns an error of its own too.
AfterCancel(c) ==
    CASE c = "informer" -> InformerAfterCancel
      [] c = "api" -> {"cancelled", "failed"}
      [] OTHER -> {"cancelled"}

Fails(c) ==
    /\ Up(c) /\ MayFail(c)
    /\ comp' = [comp EXCEPT ![c] = "failed"]
    /\ UNCHANGED <<federated, watching, hubs, signalled, cancelled, collected, stage>>

Returns(c) ==
    /\ Up(c) /\ cancelled
    /\ \E result \in AfterCancel(c) : comp' = [comp EXCEPT ![c] = result]
    /\ UNCHANGED <<federated, watching, hubs, signalled, cancelled, collected, stage>>

Signal ==
    /\ stage = "up" /\ ~signalled
    /\ signalled' = TRUE /\ cancelled' = TRUE
    /\ UNCHANGED <<federated, comp, watching, hubs, collected, stage>>

-----------------------------------------------------------------------------
(* The result loop. *)

Cascade == TRUE

AllCollected(S) == S = Components

Collect(c) ==
    /\ stage = "up" /\ comp[c] # "running" /\ c \notin collected
    /\ collected' = collected \cup {c}
    /\ cancelled' = Cascade
    /\ stage' = IF AllCollected(collected') THEN "draining" ELSE stage
    /\ UNCHANGED <<federated, comp, watching, hubs, signalled>>

\* snapWriter.Stop has returned; the first error that is no cancellation is
\* fatal.
Exit ==
    /\ stage = "draining"
    /\ stage' = IF \E c \in Components : comp[c] = "failed" THEN "fatal" ELSE "ok"
    /\ UNCHANGED <<federated, comp, watching, hubs, signalled, cancelled, collected>>

Member(m) == Attach(m) \/ AttachFails(m) \/ Sync(m) \/ Announce(m)

Next ==
    \/ Wire \/ MarkReady \/ Signal \/ Exit
    \/ \E m \in Members : Member(m)
    \/ \E c \in Components : Fails(c) \/ Returns(c) \/ Collect(c)

Spec == Init /\ [][Next]_vars

(* Members are tried one after the other, a component whose context is        *)
(* cancelled returns, and runWatch receives.                                  *)
LiveSpec ==
    /\ Spec /\ WF_vars(Wire) /\ WF_vars(MarkReady) /\ WF_vars(Exit)
    /\ \A m \in Clusters : WF_vars(m \in Members /\ (Attach(m) \/ AttachFails(m)))
    /\ \A c \in Components : WF_vars(Returns(c)) /\ WF_vars(Collect(c))

-----------------------------------------------------------------------------
(* What has to hold. *)

\* "/readyz returns 503 until then so a ... probe can keep traffic off the Pod
\* during the 'informer is still listing' window" (pkg/api/readiness.go): a
\* standalone process that is ready has synced its cluster.  A federated one is
\* ready with one member attached.
ReadyMeansSynced == ready /\ ~federated => attached # {} /\ attached \subseteq synced

\* runWatch: what each variable can hold, no exit before every component is
\* collected, and a standalone process is ready only when it is synced.
ProcessSound == TypeOK /\ ReadyMeansSynced

\* "baseInformerOpts holds no reference to srv, so the swap is safe": what the
\* informers announce reaches the hub that clients are connected to.
UpdatesReachClients == told = heard

\* "If any returns a non-Canceled error (or the user hits Ctrl-C), the cancel
\* cascades and the others wind down": a component that fails takes the whole
\* process to an exit that says so, and a signal takes it to an exit in whatever
\* phase it arrives, while members are attached or before the first sync included.
WindsDown ==
    /\ (\E c \in Components : comp[c] = "failed") ~> stage = "fatal"
    /\ signalled ~> stage \in {"ok", "fatal"}
=============================================================================
