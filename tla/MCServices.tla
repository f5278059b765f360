----------------------------- MODULE MCServices -----------------------------
(* What serves and steers, one component per behaviour: the multi-cluster     *)
(* manager, the process around it, and the requests with limited admission.   *)
(* The others stand still meanwhile.                                          *)
EXTENDS Multicluster

VARIABLES
    which,
    pFederated, pComp, pTried, pAttached, pSynced, pReady, pBound, pServed, pTold, pHeard, pSignalled,
    pCancelled, pCollected, pStage,
    qQuery, qAt, qWorker, qParts, qContext, qResult, qReply, qAnswers, qExpired, qSlots, qAttached,
    qChanges

\* A token for one of two clusters, none, and one that no rule knows.
MCRules == [a |-> {"c1"}]
Query(kind, token, queried) == [kind |-> kind, token |-> token, clusters |-> queried, valid |-> TRUE]
MCQueries ==
    {Query("impact", "a", {"c1"}), Query("impact", "a", {"c2"}), Query("export", "none", {}),
     Query("clusters", "a", {}), Query("clusters", "none", {}), Query("graph", "a", {"c1"}),
     Query("graph", "b", {"c1"}), Query("graph", "a", {"c1", "c2"}),
     [Query("export", "a", {"c1"}) EXCEPT !.valid = FALSE]}

P == INSTANCE Process WITH
        federated <- pFederated, comp <- pComp, tried <- pTried, attached <- pAttached,
        synced <- pSynced, ready <- pReady, bound <- pBound, served <- pServed, told <- pTold,
        heard <- pHeard, signalled <- pSignalled, cancelled <- pCancelled,
        collected <- pCollected, stage <- pStage, Clusters <- {"m1", "m2"}, MaxUpdates <- 1
Q == INSTANCE Requests WITH
        query <- qQuery, at <- qAt, worker <- qWorker, parts <- qParts, context <- qContext,
        result <- qResult, reply <- qReply, answers <- qAnswers, expired <- qExpired,
        slots <- qSlots, attached <- qAttached, changes <- qChanges,
        Ids <- {1, 2}, Queries <- MCQueries, Rules <- MCRules, Federated <- TRUE, MaxAttach <- 1,
        Clusters <- {"c1", "c2"}, Capacity <- 1

process == <<pFederated, pComp, pTried, pAttached, pSynced, pReady, pBound, pServed, pTold, pHeard,
             pSignalled, pCancelled, pCollected, pStage>>
requests == <<qQuery, qAt, qWorker, qParts, qContext, qResult, qReply, qAnswers, qExpired, qSlots,
              qAttached, qChanges>>
all == <<which, vars, process, requests>>

\* Every other component stays as it was.
Only(x) ==
    /\ which = x /\ UNCHANGED which
    /\ x # "manager" => UNCHANGED vars
    /\ x # "process" => UNCHANGED process
    /\ x # "requests" => UNCHANGED requests

\* A request about impact runs beside any other, and two exports together;
\* one cluster is attached, and the other comes or goes.
MCInit ==
    /\ which \in {"manager", "process", "requests"}
    /\ Init /\ P!Init /\ Q!Init
    /\ which # "process" => ~pFederated
    /\ IF which = "requests"
       THEN /\ "c1" \in qAttached
            /\ \/ qQuery[1] = Query("impact", "a", {"c1"})
               \/ qQuery = [r \in {1, 2} |-> Query("export", "none", {})]
       ELSE qAttached = {} /\ qQuery = [r \in {1, 2} |-> Query("export", "none", {})]

MCNext ==
    \/ Only("manager") /\ Next
    \/ Only("process") /\ P!Next
    \/ Only("requests") /\ Q!Next

\* The fairness of each component, for the steps it takes when it is the one
\* that runs.
Fair ==
    /\ \A t \in Callers : WF_all(Only("manager") /\ Step(t))
    /\ \A i \in 1..MaxEntries : WF_all(Only("manager") /\ i \in Ids /\ Stopped(i))
    /\ WF_all(Only("process") /\ P!Wire) /\ WF_all(Only("process") /\ P!MarkReady)
    /\ WF_all(Only("process") /\ P!Exit)
    /\ \A m \in {"m1", "m2"} :
          WF_all(Only("process") /\ m \in P!Members /\ (P!Attach(m) \/ P!AttachFails(m)))
    /\ \A c \in P!Components :
          WF_all(Only("process") /\ P!Returns(c)) /\ WF_all(Only("process") /\ P!Collect(c))
    /\ \A r \in {1, 2} :
          WF_all(Only("requests") /\ Q!Handler(r)) /\ WF_all(Only("requests") /\ Q!Worker(r))

MCSpec == MCInit /\ [][MCNext]_all /\ Fair

-----------------------------------------------------------------------------
\* Process: what runWatch's variables can hold, and readiness that was earned.
ProcessSound == P!ProcessSound

\* Requests: a slot for each request at work, one answer for each request, and
\* none beyond its deadline or its token.
RequestsSound == Q!RequestsSound

\* Process: a failed component or a signal takes the process to its exit.
WindsDown == P!WindsDown

\* Requests: every request ends, and the slots are free again.
SlotsComeBack == which = "requests" => Q!SlotsComeBack
=============================================================================
