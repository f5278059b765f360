------------------------------ MODULE Requests ------------------------------
(* pkg/api: requests with limited admission (impact_handler.go, export_handler.go) *)
(* and requests about member clusters (federation_handler.go with                *)
(* multicluster/rbac_scope.go).  An impact request is a handler and a worker    *)
(* goroutine that share one slot; clusters are attached and removed meanwhile.  *)
EXTENDS Integers, FiniteSets, Sequences

CONSTANTS
    Ids,          \* requests
    Queries,      \* what one may ask: [kind, token, clusters, valid]
    Rules,        \* NewRBACScope: token -> clusters; no tokens: RBAC is off
    Federated,    \* whether a cluster lister is wired
    MaxAttach,    \* bound on changes of the attached clusters
    Clusters,
    Capacity      \* impactConcurrency, exportConcurrency

VARIABLES
    query,
    at,        \* where the handler is
    worker,    \* where the goroutine of an impact request is
    parts,     \* outstanding: the parts of an admitted impact request not yet finished
    context,   \* live, deadline (impactRequestTimeout) or cancelled (the client is gone)
    result,    \* what the worker came to: <<>> or <<status, clusters it tells of>>
    reply,     \* what the handler is to write
    answers,   \* what it wrote
    expired,   \* impact requests whose context ended while the handler waited
    slots,     \* kind -> slots taken of impactSem, exportSem
    attached, changes

vars == <<query, at, worker, parts, context, result, reply, answers, expired, slots, attached, changes>>

NoToken == "none"
Kinds == {"impact", "export"}

Init ==
    /\ query \in [Ids -> Queries]
    /\ at = [r \in Ids |-> "new"] /\ worker = [r \in Ids |-> "none"] /\ parts = [r \in Ids |-> 0]
    /\ context = [r \in Ids |-> "live"] /\ result = [r \in Ids |-> <<>>]
    /\ reply = [r \in Ids |-> <<>>] /\ answers = [r \in Ids |-> <<>>] /\ expired = {}
    /\ slots = [k \in Kinds |-> 0] /\ attached \in SUBSET Clusters /\ changes = 0

-----------------------------------------------------------------------------
(* Who may see what. *)

Enabled == DOMAIN Rules # {}

\* RBACScope.VisibleClusters, as [status, allow]; everything is visible without rules.
clusterVisibility(token) ==
    IF ~Enabled THEN [status |-> 0, allow |-> Clusters]
    ELSE IF token = NoToken THEN [status |-> 401, allow |-> {}]
    ELSE IF token \notin DOMAIN Rules THEN [status |-> 403, allow |-> {}]
    ELSE [status |-> 0, allow |-> Rules[token]]

filterAllowedClusters(all, allow) == all \cap allow

-----------------------------------------------------------------------------
(* Steps of the world. *)

Attach(c) ==
    /\ changes < MaxAttach /\ changes' = changes + 1
    /\ attached' = IF c \in attached THEN attached \ {c} ELSE attached \cup {c}
    /\ UNCHANGED <<expired, result, query, at, worker, parts, context, reply, answers, slots>>

\* The deadline passes, or the client goes away.
ContextEnds(r, how) ==
    /\ context[r] = "live" /\ at[r] # "done" /\ query[r].kind = "impact"
    /\ context' = [context EXCEPT ![r] = how]
    /\ expired' = IF at[r] = "waiting" THEN expired \cup {r} ELSE expired
    /\ UNCHANGED <<result, query, at, worker, parts, reply, answers, slots, attached, changes>>

-----------------------------------------------------------------------------
(* handleImpact *)

Deadline(r) == IF context[r] = "cancelled" THEN <<>> ELSE <<504, {}>>

Respond(r, what) ==
    /\ at' = [at EXCEPT ![r] = "writing"]
    /\ reply' = [reply EXCEPT ![r] = what]

\* A context that is over and a busy server are answered without a slot.
Admit(r) ==
    /\ at[r] = "new" /\ query[r].kind = "impact"
    /\ IF context[r] # "live" \/ slots["impact"] = Capacity
       THEN /\ Respond(r, IF context[r] # "live" THEN Deadline(r) ELSE <<429, {}>>)
            /\ UNCHANGED <<slots, worker, parts>>
       ELSE /\ slots' = [slots EXCEPT !["impact"] = @ + 1]
            /\ at' = [at EXCEPT ![r] = "waiting"]
            /\ worker' = [worker EXCEPT ![r] = "authorize"]
            /\ parts' = [parts EXCEPT ![r] = 2]
            /\ UNCHANGED reply
    /\ UNCHANGED <<expired, result, query, context, answers, attached, changes>>

finishPart(r) ==
    /\ parts' = [parts EXCEPT ![r] = @ - 1]
    /\ slots' = IF parts[r] = 1 THEN [slots EXCEPT !["impact"] = @ - 1] ELSE slots

\* As if the reply of the worker were written whatever became of the context.
AwaitReplyLate(r) ==
    /\ at[r] = "waiting"
    /\ worker[r] = "sent"
    /\ at' = [at EXCEPT ![r] = "writing"]
    /\ reply' = [reply EXCEPT ![r] = result[r]]
    /\ UNCHANGED <<expired, result, query, worker, parts, context, answers, slots, attached, changes>>

\* The handler's select: the end of the context or the worker's reply, whichever
\* it sees; a reply is dropped when the context is over by then.
AwaitReply(r) ==
    /\ at[r] = "waiting"
    /\ context[r] # "live" \/ worker[r] = "sent"
    /\ at' = [at EXCEPT ![r] = "writing"]
    /\ reply' = [reply EXCEPT ![r] = IF context[r] # "live" THEN Deadline(r) ELSE result[r]]
    /\ UNCHANGED <<expired, result, query, worker, parts, context, answers, slots, attached, changes>>

\* writeImpactReply, or nothing for a client that is gone.
WriteReply(r) ==
    /\ at[r] = "writing"
    /\ at' = [at EXCEPT ![r] = IF parts[r] > 0 THEN "written" ELSE "done"]
    /\ answers' = [answers EXCEPT ![r] = IF reply[r] = <<>> THEN @ ELSE Append(@, reply[r])]
    /\ UNCHANGED <<expired, result, query, worker, parts, context, reply, slots, attached, changes>>

\* As if a handler whose client is gone returned before its defer.
HandlerReturnsHolding(r) ==
    /\ at[r] = "written" /\ at' = [at EXCEPT ![r] = "done"]
    /\ IF context[r] = "cancelled" THEN UNCHANGED <<parts, slots>> ELSE finishPart(r)
    /\ UNCHANGED <<expired, result, query, worker, context, reply, answers, attached, changes>>

HandlerReturns(r) ==
    /\ at[r] = "written" /\ at' = [at EXCEPT ![r] = "done"]
    /\ finishPart(r)
    /\ UNCHANGED <<expired, result, query, worker, context, reply, answers, attached, changes>>

-----------------------------------------------------------------------------
(* The worker: computeImpact, and its deferred end. *)

WorkerDone(r, what) ==
    /\ worker' = [worker EXCEPT ![r] = "finish"]
    /\ result' = [result EXCEPT ![r] = what]

\* parseImpactRequest, then the caller's clusters, then the context.
Authorize(r) ==
    LET seen == clusterVisibility(query[r].token) IN
    /\ worker[r] = "authorize"
    /\ IF ~query[r].valid THEN WorkerDone(r, <<400, {}>>)
       ELSE IF seen.status # 0 THEN WorkerDone(r, <<seen.status, {}>>)
       ELSE IF ~(query[r].clusters \subseteq seen.allow) THEN WorkerDone(r, <<403, {}>>)
       ELSE IF context[r] # "live" THEN WorkerDone(r, <<504, {}>>)
       ELSE worker' = [worker EXCEPT ![r] = "lookup"] /\ UNCHANGED result
    /\ UNCHANGED <<expired, query, at, parts, context, reply, answers, slots, attached, changes>>

LookUp(r) ==
    /\ worker[r] = "lookup"
    /\ IF Federated /\ ~(query[r].clusters \subseteq attached) THEN WorkerDone(r, <<404, query[r].clusters>>)
       ELSE IF context[r] # "live" THEN WorkerDone(r, <<504, {}>>)
       ELSE worker' = [worker EXCEPT ![r] = "analyze"] /\ UNCHANGED result
    /\ UNCHANGED <<expired, query, at, parts, context, reply, answers, slots, attached, changes>>

\* What an error of the analysis or the encoder becomes; 500 stands for 409,
\* 413 and 503 as well.
impactAnalysisFailure == {504, 404, 500}

\* The analysis ends, also long after its context and also with a panic (500).
Analyze(r) ==
    /\ worker[r] = "analyze"
    /\ \E status \in {200} \cup impactAnalysisFailure : WorkerDone(r, <<status, query[r].clusters>>)
    /\ UNCHANGED <<expired, query, at, parts, context, reply, answers, slots, attached, changes>>

FinishWork(r) ==
    /\ worker[r] = "finish" /\ worker' = [worker EXCEPT ![r] = "send"]
    /\ finishPart(r)
    /\ UNCHANGED <<expired, query, at, context, result, reply, answers, attached, changes>>

\* finished has room for one reply: the worker never blocks.
SendReply(r) ==
    /\ worker[r] = "send" /\ worker' = [worker EXCEPT ![r] = "sent"]
    /\ UNCHANGED <<expired, query, at, parts, context, result, reply, answers, slots, attached, changes>>

-----------------------------------------------------------------------------
(* handleExport *)

StartExport(r) ==
    /\ at[r] = "new" /\ query[r].kind = "export"
    /\ IF ~query[r].valid THEN Respond(r, <<400, {}>>) /\ UNCHANGED slots
       ELSE IF slots["export"] = Capacity THEN Respond(r, <<429, {}>>) /\ UNCHANGED slots
       ELSE /\ slots' = [slots EXCEPT !["export"] = @ + 1]
            /\ at' = [at EXCEPT ![r] = "render"]
            /\ UNCHANGED reply
    /\ UNCHANGED <<expired, result, query, worker, parts, context, answers, attached, changes>>

\* The read, the node cap, graphviz and the response, or a panic on the way,
\* which recoveryMiddleware answers; the slot is given back by a defer.
FinishExport(r) ==
    /\ at[r] = "render" /\ at' = [at EXCEPT ![r] = "done"]
    /\ \E status \in {200, 500, 413, 503} : answers' = [answers EXCEPT ![r] = Append(@, <<status, {}>>)]
    /\ slots' = [slots EXCEPT !["export"] = @ - 1]
    /\ UNCHANGED <<expired, result, query, worker, parts, context, reply, attached, changes>>

-----------------------------------------------------------------------------
(* handleFederationClusters, handleFederationGraph *)

ListFederation(r) ==
    LET seen == clusterVisibility(query[r].token) IN
    /\ at[r] = "new" /\ query[r].kind = "clusters"
    /\ IF ~Federated THEN Respond(r, <<200, {}>>)
       ELSE IF seen.status # 0 THEN Respond(r, <<seen.status, {}>>)
       ELSE Respond(r, <<200, filterAllowedClusters(attached, seen.allow)>>)
    /\ UNCHANGED <<expired, result, query, worker, parts, context, answers, slots, attached, changes>>

FederationGraph(r) ==
    LET seen == clusterVisibility(query[r].token) IN
    /\ at[r] = "new" /\ query[r].kind = "graph"
    /\ IF ~Federated THEN Respond(r, <<503, {}>>)
       ELSE IF seen.status # 0 THEN Respond(r, <<seen.status, {}>>)
       ELSE IF query[r].clusters = {} \/ ~(query[r].clusters \subseteq attached) THEN Respond(r, <<400, {}>>)
       ELSE IF ~(query[r].clusters \subseteq seen.allow) THEN Respond(r, <<403, {}>>)
       ELSE IF ~query[r].valid THEN Respond(r, <<400, {}>>)
       ELSE \E status \in {200, 500} : Respond(r, <<status, query[r].clusters>>)
    /\ UNCHANGED <<expired, result, query, worker, parts, context, answers, slots, attached, changes>>

Handler(r) ==
    \/ Admit(r) \/ AwaitReply(r) \/ WriteReply(r) \/ HandlerReturns(r)
    \/ StartExport(r) \/ FinishExport(r) \/ ListFederation(r) \/ FederationGraph(r)

Worker(r) == Authorize(r) \/ LookUp(r) \/ Analyze(r) \/ FinishWork(r) \/ SendReply(r)

Next ==
    \/ \E c \in Clusters : Attach(c)
    \/ \E r \in Ids : \/ \E how \in {"deadline", "cancelled"} : ContextEnds(r, how)
                      \/ Handler(r) \/ Worker(r)

\* Handlers and goroutines are scheduled, and the analysis ends.
Fairness == \A r \in Ids : WF_vars(Handler(r)) /\ WF_vars(Worker(r))

Spec == Init /\ [][Next]_vars /\ Fairness

-----------------------------------------------------------------------------
(* Properties. *)

Working(r) == worker[r] \in {"authorize", "lookup", "analyze"}
Holding(r) == at[r] \in {"waiting", "written"} \/ (at[r] = "writing" /\ parts[r] > 0)

\* "Admission stays occupied until BOTH work and response writing finish"
\* (handleImpact): no more requests are computing or being answered than there
\* are slots, also when the answer went out before the work ended, and the slots
\* taken are those of such requests.
AdmissionHolds ==
    /\ Cardinality({r \in Ids : Working(r) \/ Holding(r)}) <= Capacity
    /\ slots["impact"] = Cardinality({r \in Ids : parts[r] > 0})
    /\ slots["export"] = Cardinality({r \in Ids : at[r] = "render"}) /\ slots["export"] <= Capacity

\* "A cancelled/late worker cannot append JSON or convert a timeout to success":
\* a request is answered at most once, and one whose context ended while its
\* handler waited is told of the deadline or nothing, whatever the worker came
\* to.  An answer tells only of clusters that the caller's token gives access to.
AnswersAreEarned ==
    \A r \in Ids :
        /\ Len(answers[r]) <= 1
        /\ r \in expired => answers[r] \in {<<>>, <<Deadline(r)>>}
        /\ \A i \in 1..Len(answers[r]) :
              answers[r][i][2] \subseteq clusterVisibility(query[r].token).allow

\* handleImpact and handleExport: the semaphores hold one slot for each request
\* at work, a request is answered once, after its deadline only with the
\* deadline's reply, and with nothing its token does not give access to.
RequestsSound == AdmissionHolds /\ AnswersAreEarned

\* Every request ends, and every slot is free again when all have.
SlotsComeBack == <>[]((\A r \in Ids : at[r] = "done") /\ slots = [k \in Kinds |-> 0])
=============================================================================
