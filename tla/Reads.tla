------------------------------- MODULE Reads -------------------------------
(* The views and the read handlers, one request at a time: requests share      *)
(* nothing but the store.                                                      *)
EXTENDS Aggregators, ReadHandlers

Next == StoreChanges \/ ViewSteps \/ ViewFails \/ HandlerSteps \/ CallFails \/ CallSwallowed

Spec == Init /\ [][Next]_vars

\* Together: whatever the store does between the calls of a handler, its view is
\* closed, and its answer lies between what was stored at some time and what was
\* stored all the time.
ReadsFollowGraph == ViewsClosed /\ ViewsBetween /\ AnswersBetween
=============================================================================
