---------------------------- MODULE CrdDiscovery ----------------------------
(* pkg/crd/discovery.go: one CustomResourceDefinition, the informers that are *)
(* registered for it one after the other, and one custom object.  A new       *)
(* registration never waits for the callbacks of the old one, so their        *)
(* lifetimes overlap; the callbacks of all lifetimes share one family lock.   *)
(* With CoreWatched the type is also one of CoreGVRs (gateways, httproutes,   *)
(* policies, reports), and the core informer writes the same object.          *)
EXTENDS Integers, Sequences, FiniteSets, SequencesExt

CONSTANTS
    Versions,      \* versions of the CRD that can be served
    Scenarios,     \* explored one per behaviour: whether the type is watched by the core
                   \* informer too, the shapes the CRD takes (a version, or one that has no
                   \* served version or is refused), and bounds on its incarnations, the
                   \* registrations and the revisions of the object
    Lag            \* events an informer can be behind with its callbacks

VARIABLES
    scenario,    \* the scenario explored
    crd,         \* the CRD in the API server; uid 0 when there is none
    uids,        \* incarnations so far
    seen,        \* the CRD as the metadata informer last delivered it
    meta,        \* metadata events still to be handled, in order
    registered,  \* d.informers[name]: the current registration, 0 for none
    runs,        \* every registration so far, with its informer
    family,      \* d.families[name]: the current family, 0 for none
    refs,        \* its reference count
    families,    \* families made so far
    obj,         \* the object in the API server: its revision, 0 when absent
    revisions,   \* revisions so far
    stored,      \* the object in the graph store, 0 when absent
    edge,        \* the revision its Rego edge was derived from, 0 for no edge
    gap,         \* a data gap recorded by the registration in charge
    core,        \* the core informer's handler: the revision it has seen, and its step
    cancelled,   \* the context of Start is cancelled
    returned     \* Start has returned

vars == <<scenario, crd, uids, seen, meta, registered, runs, family, refs, families, obj, revisions,
          stored, edge, gap, core, cancelled, returned>>

cluster == <<scenario, crd, uids, obj, revisions>>
store == <<stored, edge, gap>>
registry == <<registered, runs, family, refs, families>>

CoreWatched == scenario.core
MaxUid == scenario.uids
MaxRuns == scenario.runs
MaxRevision == scenario.revisions

Absent == [uid |-> 0, ver |-> "unserved"]
Ids == 1..Len(runs)
None == -1
Stopped(i) == runs[i].cancelled \/ cancelled
Family(i) == {k \in Ids : runs[k].fam = runs[i].fam}

TypeOK ==
    /\ crd.uid \in 0..uids /\ seen.uid \in 0..uids
    /\ registered \in 0..Len(runs)
    /\ registered # 0 => ~runs[registered].cancelled /\ (runs[registered].live \/ cancelled)
    /\ \A i \in Ids : /\ runs[i].uid \in 1..uids /\ runs[i].ver \in Versions
                      /\ runs[i].fam \in 1..families
                      /\ runs[i].at \in {"idle", "write", "edges"}
                      /\ runs[i].val \in 0..revisions /\ runs[i].last \in None..revisions
    /\ family \in 0..families /\ refs \in Nat
    /\ obj \in 0..revisions /\ stored \in 0..revisions /\ edge \in 0..revisions
    /\ gap \in BOOLEAN /\ cancelled \in BOOLEAN /\ returned \in BOOLEAN

Init ==
    /\ scenario \in Scenarios
    /\ crd = Absent /\ uids = 0 /\ seen = Absent /\ meta = <<>>
    /\ registered = 0 /\ runs = <<>> /\ family = 0 /\ refs = 0 /\ families = 0
    /\ obj = 0 /\ revisions = 0 /\ stored = 0 /\ edge = 0 /\ gap = FALSE
    /\ core = [cache |-> 0, at |-> "idle", val |-> 0]
    /\ cancelled = FALSE /\ returned = FALSE

-----------------------------------------------------------------------------
(* The API server. *)

ChangeCrd(ver) ==
    /\ crd.ver # ver \/ crd.uid = 0
    /\ IF crd.uid = 0 THEN uids < MaxUid /\ uids' = uids + 1 ELSE uids' = uids
    /\ crd' = [uid |-> IF crd.uid = 0 THEN uids + 1 ELSE crd.uid, ver |-> ver]
    /\ UNCHANGED <<scenario, seen, meta, registry, obj, revisions, store, core, cancelled,
                   returned>>

DeleteCrd ==
    /\ crd.uid # 0
    /\ crd' = Absent /\ obj' = 0
    /\ UNCHANGED <<scenario, uids, seen, meta, registry, revisions, store, core, cancelled,
                   returned>>

ChangeObject ==
    /\ crd.uid # 0 /\ revisions < MaxRevision
    /\ revisions' = revisions + 1 /\ obj' = revisions + 1
    /\ UNCHANGED <<scenario, crd, uids, seen, meta, registry, store, core, cancelled, returned>>

DeleteObject ==
    /\ obj # 0
    /\ obj' = 0
    /\ UNCHANGED <<scenario, crd, uids, seen, meta, registry, revisions, store, core, cancelled,
                   returned>>

\* The metadata informer notices a change.  A CRD deleted and created again in
\* the meantime arrives as an update with a new UID.
ObserveCrd ==
    /\ seen # crd /\ ~cancelled /\ Len(meta) < Lag
    /\ seen' = crd
    /\ meta' = Append(meta, IF crd.uid = 0 THEN [op |-> "delete", crd |-> seen]
                            ELSE [op |-> "set", crd |-> crd])
    /\ UNCHANGED <<cluster, registry, store, core, cancelled, returned>>

-----------------------------------------------------------------------------
(* The registry, under d.mu. *)

\* stopLocked: the registration leaves the map and its context is cancelled.
Halted == [i \in Ids |-> IF i = registered THEN [runs[i] EXCEPT !.cancelled = TRUE] ELSE runs[i]]

FamilyFor == IF family = 0 THEN families + 1 ELSE family

RefsTaken == refs + 1

SameIdentity(c) == registered # 0 /\ runs[registered].uid = c.uid /\ runs[registered].ver = c.ver

MayReconcile == ~cancelled

\* onCRDAdd and reconcileCRD: the same identity changes nothing; any other one
\* retires the registration first and registers again if it can be watched.
onCRDAdd ==
    LET c == Head(meta).crd IN
    /\ meta # <<>> /\ Head(meta).op = "set"
    /\ meta' = Tail(meta)
    /\ IF ~MayReconcile \/ SameIdentity(c) THEN UNCHANGED registry
       ELSE IF c.ver \notin Versions
            THEN /\ runs' = Halted /\ registered' = 0
                 /\ UNCHANGED <<family, refs, families>>
            ELSE /\ Len(runs) < MaxRuns
                 /\ runs' = Append(Halted, [uid |-> c.uid, ver |-> c.ver, fam |-> FamilyFor,
                                            cancelled |-> FALSE, live |-> TRUE, cache |-> 0,
                                            todo |-> <<>>, at |-> "idle", val |-> 0,
                                            last |-> None])
                 /\ registered' = Len(runs) + 1
                 /\ family' = FamilyFor /\ refs' = RefsTaken
                 /\ families' = IF FamilyFor > families THEN FamilyFor ELSE families
    /\ UNCHANGED <<cluster, seen, store, core, cancelled, returned>>

\* onCRDDelete and deregisterCRD: only the incarnation that is registered.
onCRDDelete ==
    /\ meta # <<>> /\ Head(meta).op = "delete"
    /\ meta' = Tail(meta)
    /\ IF registered # 0 /\ runs[registered].uid = Head(meta).crd.uid
       THEN runs' = Halted /\ registered' = 0
       ELSE UNCHANGED <<runs, registered>>
    /\ UNCHANGED <<cluster, seen, family, refs, families, store, core, cancelled, returned>>

\* As if the lock were dropped with the first informer that ends.
FamilyAfterFirst == 0

FamilyAfter == IF refs = 1 THEN 0 ELSE family

\* informer.Run has returned, which it does after its last callback.
RunReturns(i) ==
    /\ runs[i].live /\ Stopped(i) /\ runs[i].at = "idle"
    /\ runs' = [runs EXCEPT ![i] = [@ EXCEPT !.live = FALSE, !.todo = <<>>, !.cache = 0,
                                             !.last = None]]
    /\ refs' = refs - 1
    /\ family' = FamilyAfter
    /\ UNCHANGED <<cluster, seen, meta, registered, families, store, core, cancelled, returned>>

Cancel ==
    /\ ~cancelled
    /\ cancelled' = TRUE
    /\ UNCHANGED <<cluster, seen, meta, registry, store, core, returned>>

\* Start returns through shutdown.
shutdown ==
    /\ cancelled /\ ~returned
    /\ runs' = Halted /\ registered' = 0 /\ returned' = TRUE
    /\ UNCHANGED <<cluster, seen, meta, family, refs, families, store, core, cancelled>>

-----------------------------------------------------------------------------
(* The informer of a registration and its callbacks. *)

Observe(i) ==
    /\ runs[i].live /\ ~Stopped(i) /\ runs[i].cache # obj /\ Len(runs[i].todo) < Lag
    /\ crd.uid # 0 \/ obj = 0
    /\ runs' = [runs EXCEPT ![i] = [@ EXCEPT !.cache = obj, !.todo = Append(@, obj)]]
    /\ UNCHANGED <<cluster, seen, meta, registered, family, refs, families, store, core,
                   cancelled, returned>>

LockFree(i) == \A k \in Family(i) : runs[k].at = "idle"

\* A callback takes the family lock and looks at its context once it has it.
Deliver(i) ==
    LET r == runs[i] IN
    /\ r.live /\ r.at = "idle" /\ r.todo # <<>> /\ LockFree(i)
    /\ runs' = [runs EXCEPT ![i] =
                  IF Stopped(i) THEN [r EXCEPT !.todo = Tail(@)]
                  ELSE [r EXCEPT !.todo = Tail(@), !.at = "write", !.val = Head(r.todo)]]
    /\ UNCHANGED <<cluster, seen, meta, registered, family, refs, families, store, core,
                   cancelled, returned>>

\* A failure is recorded as a data gap unless the registration was cancelled.
GapAfter(i) == gap \/ ~Stopped(i)

\* The store operation of handleUpsert or handleDelete.  It is under way and
\* takes effect even if the context has been cancelled since.
Write(i) ==
    LET r == runs[i] IN
    /\ r.at = "write"
    /\ \/ /\ stored' = r.val /\ edge' = (IF r.val = 0 THEN 0 ELSE edge) /\ gap' = gap
          /\ runs' = [runs EXCEPT ![i] = IF r.val = 0 \/ Stopped(i)
                        THEN [r EXCEPT !.last = r.val, !.at = "idle", !.val = 0]
                        ELSE [r EXCEPT !.last = r.val, !.at = "edges"]]
       \/ /\ gap' = GapAfter(i) /\ UNCHANGED <<stored, edge>>
          /\ runs' = [runs EXCEPT ![i] = [r EXCEPT !.last = r.val, !.at = "idle", !.val = 0]]
    /\ UNCHANGED <<cluster, seen, meta, registered, family, refs, families, core, cancelled,
                   returned>>

\* EvaluateForResource and UpsertEdge; the context was good when this began.
WriteEdge(i) ==
    /\ runs[i].at = "edges"
    /\ \/ edge' = runs[i].val /\ gap' = gap
       \/ edge' = edge /\ gap' = GapAfter(i)
    /\ runs' = [runs EXCEPT ![i] = [@ EXCEPT !.at = "idle", !.val = 0]]
    /\ UNCHANGED <<cluster, seen, meta, registered, family, refs, families, stored, core,
                   cancelled, returned>>

\* The core informer's handler for the same object.
CoreDeliver ==
    /\ CoreWatched /\ core.at = "idle" /\ core.cache # obj
    /\ core' = [cache |-> obj, at |-> "write", val |-> obj]
    /\ UNCHANGED <<cluster, seen, meta, registry, store, cancelled, returned>>

CoreGapAfter == TRUE

CoreWrite ==
    /\ core.at = "write"
    /\ \/ stored' = core.val /\ edge' = (IF core.val = 0 THEN 0 ELSE edge) /\ gap' = gap
       \/ gap' = CoreGapAfter /\ UNCHANGED <<stored, edge>>
    /\ core' = [core EXCEPT !.at = "idle", !.val = 0]
    /\ UNCHANGED <<cluster, seen, meta, registry, cancelled, returned>>

Api == (\E v \in scenario.shapes : ChangeCrd(v))
       \/ DeleteCrd \/ ChangeObject \/ DeleteObject

Run(i) == Observe(i) \/ Deliver(i) \/ Write(i) \/ WriteEdge(i) \/ RunReturns(i)

Next ==
    \/ Api \/ ObserveCrd \/ onCRDAdd \/ onCRDDelete \/ Cancel \/ shutdown
    \/ \E i \in Ids : Run(i)
    \/ CoreDeliver \/ CoreWrite

Spec == Init /\ [][Next]_vars

-----------------------------------------------------------------------------
(* What has to hold. *)

\* "its successor must wait for that delivery, then replace its data": what the
\* registration in charge delivered last is what the store has, however long
\* a write of a retired registration was under way, unless a gap is recorded.
\* Nor is an edge written for an object its successor has deleted.  (Of a type
\* that the core informer does not watch as well.)
SuccessorWins ==
    ~CoreWatched =>
        /\ registered # 0 /\ ~cancelled =>
              LET r == runs[registered] IN
              r.at = "idle" /\ r.last # None => stored = r.last \/ gap
        /\ edge # 0 => stored # 0

\* "Lock ownership is retained until the actual informer handler processor
\* exits and released after its last overlapping lifetime": the informers that
\* may still call back all share the current family, and there is none when
\* there are no informers.
LockLivesWithRuns ==
    LET live == {i \in Ids : runs[i].live} IN
    /\ \A i \in live : runs[i].fam = family
    /\ family # 0 => live # {}

\* Once the metadata events are handled, exactly the CRD that was last seen is
\* registered, with its incarnation and its served version; and nothing is
\* registered behind the back of a Start that has returned, also by a metadata
\* callback that was waiting for the lock.
RegistrationFollows ==
    /\ meta = <<>> /\ ~cancelled =>
          IF seen.uid # 0 /\ seen.ver \in Versions
          THEN /\ registered # 0
               /\ runs[registered].uid = seen.uid /\ runs[registered].ver = seen.ver
          ELSE registered = 0
    /\ returned => registered = 0

\* Two pipelines that write the same object still agree in the end: when both
\* have delivered what the API server has now, so has the store.
PipelinesSettle ==
    LET r == runs[registered] IN
    /\ registered # 0 /\ ~cancelled /\ r.at = "idle" /\ r.todo = <<>> /\ r.last = obj
    /\ CoreWatched /\ core.at = "idle" /\ core.cache = obj
    => stored = obj \/ gap

\* reconcileCRD and its callbacks: the registration follows the CRD, the lock of
\* a family lives as long as its informers, the newest registration has the last
\* word on an object, and the core informer agrees with it in the end.
PipelinesSound ==
    TypeOK /\ SuccessorWins /\ LockLivesWithRuns /\ RegistrationFollows /\ PipelinesSettle
=============================================================================
