----------------------------- MODULE Gatekeeper -----------------------------
(* pkg/gatekeeper and pkg/discovery/dynamic_informer.go: the discovery waits   *)
(* for the ConstraintTemplate API, watches one template, and has the dynamic   *)
(* manager run an informer for the constraint kind the template generates.     *)
(* Registrations of the same kind follow each other without waiting for the    *)
(* callbacks of the one before, and share no lock with them.                   *)
EXTENDS Integers, Sequences, FiniteSets

CONSTANTS
    MaxTemplates,   \* bound: changes of the template
    MaxRevision,    \* bound: revisions of the constraint
    MaxFaults       \* bound: probes, writes and extractions that fail

VARIABLES
    api,          \* whether the server advertises the template resource, and lets it be read
    phase,        \* how far Start has come
    cancelled,    \* the context of Start is cancelled
    started,      \* the manager's flag: registrations are accepted
    managerDone,  \* the manager has torn its informers down and returned
    template,     \* the template in the API server: "none", "good", or "bad" (no usable kind)
    changes,      \* changes of the template so far
    seen,         \* the template as its informer last delivered it
    events,       \* template events still to be handled
    metaGap,      \* a gap recorded against the template's own watch
    constraint,   \* the constraint in the API server: its revision, 0 when absent
    revisions,    \* revisions so far
    registered,   \* m.informers[gvr]: the registration in charge, 0 for none
    runs,         \* every registration so far, with its informer and its callback
    stored,       \* the constraint in the graph store, 0 when absent
    edge,         \* the revision its ENFORCES edge was derived from, 0 for no edge
    faults,       \* failures so far
    overlap       \* a callback that was under way when its informer was removed has written

vars == <<api, phase, cancelled, started, managerDone, template, changes, seen, events, metaGap,
          constraint, revisions, registered, runs, stored, edge, faults, overlap>>

world == <<api, cancelled, template, changes, constraint, revisions>>
starting == <<phase, started, managerDone>>
watch == <<seen, events, metaGap>>
store == <<stored, edge, overlap>>

Ids == 1..Len(runs)
Stopped(i) == runs[i].cancelled \/ cancelled

Init ==
    /\ api \in {"absent", "denied", "served"} /\ phase = "starting"
    /\ cancelled = FALSE /\ started = FALSE /\ managerDone = FALSE
    /\ template \in {"none", "good"} /\ changes = 0 /\ seen = "none" /\ events = <<>>
    /\ metaGap = FALSE
    /\ constraint = 0 /\ revisions = 0 /\ registered = 0 /\ runs = <<>>
    /\ stored = 0 /\ edge = 0 /\ faults = 0 /\ overlap = FALSE

-----------------------------------------------------------------------------
(* The API server. *)

ServeApi ==
    /\ api # "served" /\ api' = "served"
    /\ UNCHANGED <<cancelled, template, changes, constraint, revisions, starting, watch,
                   registered, runs, store, faults>>

\* Gatekeeper removes the constraints of a template with it.
ChangeTemplate(shape) ==
    /\ shape # template /\ changes < MaxTemplates
    /\ template' = shape /\ changes' = changes + 1
    /\ constraint' = IF shape = "none" THEN 0 ELSE constraint
    /\ UNCHANGED <<api, cancelled, revisions, starting, watch, registered, runs, store, faults>>

ChangeConstraint ==
    /\ template # "none"
    /\ \/ revisions < MaxRevision /\ revisions' = revisions + 1 /\ constraint' = revisions + 1
       \/ constraint # 0 /\ constraint' = 0 /\ UNCHANGED revisions
    /\ UNCHANGED <<api, cancelled, template, changes, starting, watch, registered, runs, store,
                   faults>>

Cancel ==
    /\ ~cancelled /\ cancelled' = TRUE
    /\ UNCHANGED <<api, template, changes, constraint, revisions, starting, watch, registered,
                   runs, store, faults>>

-----------------------------------------------------------------------------
(* Discovery.Start and the manager's Start, which runs beside it. *)

ManagerStarts ==
    /\ phase = "starting" /\ ~started /\ ~managerDone
    /\ IF cancelled THEN managerDone' = TRUE /\ UNCHANGED started
                    ELSE started' = TRUE /\ UNCHANGED managerDone
    /\ UNCHANGED <<world, phase, watch, registered, runs, store, faults>>

\* The loop of Start that waits for the manager.
AwaitManager ==
    /\ phase = "starting" /\ started /\ ~cancelled
    /\ phase' = "probing"
    /\ UNCHANGED <<world, started, managerDone, watch, registered, runs, store, faults>>

\* What one discovery request finds out.
DiscoverTemplateAPI ==
    {CASE api = "served" -> "advertised" [] api = "denied" -> "permission_denied"
       [] api = "absent" -> "not_advertised"}
        \cup (IF faults < MaxFaults THEN {"failed"} ELSE {})

\* As if a discovery request that failed ended the wait.
ProbeGivesUp ==
    /\ phase = "probing" /\ ~cancelled
    /\ \E state \in DiscoverTemplateAPI :
          /\ phase' = CASE state = "advertised" -> "watching" [] state = "failed" -> "given up"
                        [] OTHER -> "probing"
          /\ faults' = IF state = "failed" THEN faults + 1 ELSE faults
    /\ UNCHANGED <<world, started, managerDone, watch, registered, runs, store>>

\* One round of awaitConstraintTemplateCRD.
Probe ==
    /\ phase = "probing" /\ ~cancelled
    /\ \E state \in DiscoverTemplateAPI :
          /\ phase' = IF state = "advertised" THEN "watching" ELSE "probing"
          /\ faults' = IF state = "failed" THEN faults + 1 ELSE faults
    /\ UNCHANGED <<world, started, managerDone, watch, registered, runs, store>>

\* The entry goes and the informer's context is cancelled; a callback that is
\* past its look at the context writes all the same.
StopRegistered ==
    /\ registered' = 0
    /\ runs' = [i \in Ids |-> IF i # registered THEN runs[i]
                   ELSE [runs[i] EXCEPT !.cancelled = TRUE, !.late = (@ \/ runs[i].at \in {"write", "edges"})]]

\* removeAll, once the manager's context is done.
RemoveAll ==
    /\ started /\ cancelled
    /\ StopRegistered /\ started' = FALSE /\ managerDone' = TRUE
    /\ UNCHANGED <<world, phase, watch, store, faults>>

\* Every return of Start waits for the manager.
StartReturns ==
    /\ phase # "returned" /\ cancelled /\ managerDone
    /\ phase' = "returned"
    /\ UNCHANGED <<world, started, managerDone, watch, registered, runs, store, faults>>

-----------------------------------------------------------------------------
(* The template's informer and its handlers, one event at a time. *)

ObserveTemplate ==
    /\ phase = "watching" /\ ~cancelled /\ seen # template /\ events = <<>>
    /\ seen' = template
    /\ events' = <<IF template = "none" THEN [op |-> "delete", shape |-> seen]
                   ELSE [op |-> "set", shape |-> template]>>
    /\ UNCHANGED <<world, starting, metaGap, registered, runs, store, faults>>

NewRun == [cancelled |-> FALSE, cache |-> 0, at |-> "idle", val |-> 0, gap |-> FALSE, late |-> FALSE]

\* onTemplate as far as its first wait: a template with a usable kind is to be
\* registered.
OnTemplate ==
    /\ events # <<>> /\ Head(events).op = "set"
    /\ LET good == ~cancelled /\ Head(events).shape = "good"
       IN  /\ events' = IF good THEN <<[op |-> "register", shape |-> "good"]>> ELSE <<>>
           /\ metaGap' = (metaGap \/ (~cancelled /\ ~good))
    /\ UNCHANGED <<world, starting, seen, registered, runs, store, faults>>

\* AddObserved, under m.mu: a manager that is going down refuses, which is a
\* gap unless onTemplate has seen the context end before it asked; a kind that
\* has an informer keeps it.
AddObserved ==
    /\ events # <<>> /\ Head(events).op = "register" /\ events' = <<>>
    /\ IF cancelled
       THEN /\ metaGap' \in IF started THEN {TRUE} ELSE {metaGap, TRUE}
            /\ UNCHANGED <<registered, runs>>
       ELSE /\ UNCHANGED metaGap
            /\ IF registered # 0 THEN UNCHANGED <<registered, runs>>
               ELSE registered' = Len(runs) + 1 /\ runs' = Append(runs, NewRun)
    /\ UNCHANGED <<world, starting, seen, store, faults>>

\* Remove, under m.mu.
Remove == StopRegistered

\* The kind is read from the last state of the deleted template.
OnTemplateDelete ==
    /\ events # <<>> /\ Head(events).op = "delete" /\ events' = <<>>
    /\ IF Head(events).shape = "bad" THEN metaGap' = TRUE /\ UNCHANGED <<registered, runs>>
       ELSE Remove /\ UNCHANGED metaGap
    /\ UNCHANGED <<world, starting, seen, store, faults>>

-----------------------------------------------------------------------------
(* A constraint informer and its callback. *)

\* A list or watch brings a change.
ObserveConstraint(i) ==
    /\ ~Stopped(i) /\ runs[i].at = "idle" /\ runs[i].cache # constraint
    /\ runs' = [runs EXCEPT ![i].cache = constraint, ![i].val = constraint, ![i].at = "queued"]
    /\ UNCHANGED <<world, starting, watch, registered, store, faults>>

\* Every DefaultResyncPeriod the cache is delivered again.
Resync(i) ==
    /\ ~Stopped(i) /\ runs[i].at = "idle" /\ runs[i].cache # 0
    /\ runs' = [runs EXCEPT ![i].val = runs[i].cache, ![i].at = "queued"]
    /\ UNCHANGED <<world, starting, watch, registered, store, faults>>

\* As if the callbacks did not look at their context.
BeginCallbackAlways(i) ==
    /\ runs[i].at = "queued"
    /\ runs' = [runs EXCEPT ![i].at = "write"]
    /\ UNCHANGED <<world, starting, watch, registered, store, faults>>

\* The first lines of handleConstraint and handleConstraintDelete.
BeginCallback(i) ==
    /\ runs[i].at = "queued"
    /\ runs' = [runs EXCEPT ![i].at = IF Stopped(i) THEN "idle" ELSE "write"]
    /\ UNCHANGED <<world, starting, watch, registered, store, faults>>

\* The upsert of a constraint, or its delete, which takes the edge with it.
WriteConstraint(i) ==
    /\ runs[i].at = "write"
    /\ stored' = runs[i].val
    /\ edge' = IF runs[i].val = 0 THEN 0 ELSE edge
    /\ runs' = [runs EXCEPT ![i].at = IF runs[i].val # 0 THEN "edges" ELSE "idle"]
    /\ overlap' = (overlap \/ runs[i].late)
    /\ UNCHANGED <<world, starting, watch, registered, faults>>

\* ExtractAll and the upsert of the edge it returns; the store keeps edges
\* of resources that are gone.
WriteEdges(i) ==
    /\ runs[i].at = "edges"
    /\ edge' = runs[i].val
    /\ runs' = [runs EXCEPT ![i].at = "idle"]
    /\ overlap' = (overlap \/ runs[i].late)
    /\ UNCHANGED <<world, starting, watch, registered, stored, faults>>

\* A conversion, write or extraction that fails leaves a gap and ends the callback.
CallbackFails(i) ==
    /\ runs[i].at \in {"write", "edges"} /\ faults < MaxFaults
    /\ faults' = faults + 1
    /\ runs' = [runs EXCEPT ![i].at = "idle", ![i].gap = TRUE]
    /\ UNCHANGED <<world, starting, watch, registered, store>>

-----------------------------------------------------------------------------
\* What one goroutine does: Start, the manager, the template's informer, and
\* the callbacks of a constraint's informer.
StartStep == AwaitManager \/ Probe \/ StartReturns
ManagerStep == ManagerStarts \/ RemoveAll
TemplateStep == ObserveTemplate \/ OnTemplate \/ AddObserved \/ OnTemplateDelete
CallbackStep(i) == BeginCallback(i) \/ WriteConstraint(i) \/ WriteEdges(i)

Next ==
    \/ ServeApi \/ ChangeConstraint \/ Cancel
    \/ \E shape \in {"none", "good", "bad"} : ChangeTemplate(shape)
    \/ StartStep \/ ManagerStep \/ TemplateStep
    \/ \E i \in Ids : ObserveConstraint(i) \/ Resync(i) \/ CallbackStep(i) \/ CallbackFails(i)

\* A registration ends with its template, and the next needs the template back.
MaxRuns == 1 + MaxTemplates \div 2

\* Goroutines that can run are scheduled; informers deliver what they list, between
\* resyncs that are minutes apart; a probe that keeps being repeated is answered.
Fairness ==
    /\ WF_vars(StartStep) /\ WF_vars(ManagerStep) /\ WF_vars(TemplateStep)
    /\ \A i \in 1..MaxRuns :
          /\ SF_vars(i \in Ids /\ ObserveConstraint(i)) /\ WF_vars(i \in Ids /\ Resync(i))
          /\ WF_vars(i \in Ids /\ CallbackStep(i))

Spec == Init /\ [][Next]_vars /\ Fairness

-----------------------------------------------------------------------------
(* Properties. *)

Idle == \A i \in Ids : runs[i].at = "idle"
Settled == Idle /\ events = <<>> /\ ~cancelled

\* One informer at most watches the constraint kind, it is the registered one,
\* it is there exactly while the template is, unless the template's watch has a
\* gap, and once Start has returned there is none: a registration that races
\* the teardown is refused (AddObserved, removeAll).
OneInformer ==
    /\ Settled /\ ~metaGap => (registered # 0) = (seen # "none")
    /\ \A i \in Ids : ~runs[i].cancelled => i = registered
    /\ phase = "returned" => registered = 0

\* Where callbacks are quiet and the informer in charge has seen the constraint,
\* the graph holds it, unless a gap says otherwise or the callback of a removed
\* informer was already past its check when the informer went: handleConstraint
\* has no lock that would make the successor wait for it.
OnlyOverlapMisleads ==
    (/\ Settled /\ registered # 0
     /\ runs[registered].cache = constraint /\ ~runs[registered].gap /\ ~overlap)
        => stored = constraint \/ (constraint = 0 /\ \E i \in Ids : i # registered)

\* The two together: what the registry and the graph say of a template's kind.
RegistrationSound == OneInformer /\ OnlyOverlapMisleads

\* A usable template whose constraint stays is followed: sooner or later the
\* graph holds the constraint and its edge, failures and overlaps included,
\* because the informer in charge delivers its cache again.
ConstraintsAppear ==
    <>[](api = "served" /\ template = "good" /\ constraint # 0 /\ ~cancelled)
        => <>[](stored = constraint /\ edge = constraint)
=============================================================================
