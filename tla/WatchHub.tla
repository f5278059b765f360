------------------------------- MODULE WatchHub -------------------------------
(* pkg/api/websocket.go: the hub that pushes graph changes to the browsers.   *)
(* Handler goroutines of the informers (Workers) change the graph and call    *)
(* BroadcastEvent; every connection has a reader (the HTTP handler), a writer *)
(* goroutine and a bounded send buffer; the browser (web/src/api/websocket.ts)*)
(* fetches the graph again whenever it receives a GRAPH_UPDATE.  An update is *)
(* only a hint to fetch again, so a dropped one does no harm while another is *)
(* on its way.  Revisions, patches and wire encoding are left out.            *)
EXTENDS Integers, Sequences, FiniteSets, SequencesExt

CONSTANTS
    Conns,        \* the connections
    Workers,      \* goroutines that broadcast
    Objects,      \* what changes: records with namespace and name
    Filters,      \* subscriptions: records with level, namespace and name
    SendBuffer,   \* sendBuffer, the capacity of a send channel
    WireBuffer,   \* what the transport holds for a client that does not read
    PongLimit,    \* PONGs the client can have queued at once
    MaxChanges

ASSUME WatchHubAssumption ==
    /\ SendBuffer \in Nat /\ WireBuffer \in Nat \ {0} /\ MaxChanges \in Nat
    /\ PongLimit \in Nat /\ PongLimit < SendBuffer
    /\ Filters # {}

(* The browser sends one PING in 30s and a write is given up after 5s, so few *)
(* PONGs can be queued in a buffer of 1024.                                   *)
VARIABLES
    graph,      \* number of changes made to the graph
    task,       \* per worker, the change it has to announce
    conn,       \* "new", "open" or "down"
    reader,     \* "first", "reading", "leaving" or "gone"
    writer,     \* "none", "select", the message being written, or "done"
    cancelled,  \* connections whose writerCtx is cancelled
    subs,       \* the registered subscriptions
    closed,     \* connections whose send channel is closed
    filter,     \* the filter of each connection
    send,       \* the send channels
    wire,       \* what is under way to each client
    due,        \* the latest change announced to each connection
    view,       \* the change up to which each client has seen the graph
    panicked    \* a send on a closed channel

vars == <<graph, task, conn, reader, writer, cancelled, subs, closed, filter, send, wire,
          due, view, panicked>>

server == <<reader, writer, cancelled, subs, closed, filter, send>>

Idle == [change |-> 0]
Messages == {"update", "ping", "pong"}

TypeOK ==
    /\ graph \in 0..MaxChanges
    /\ task \in [Workers -> {Idle} \cup [change : 1..MaxChanges, obj : Objects]]
    /\ conn \in [Conns -> {"new", "open", "down"}]
    /\ reader \in [Conns -> {"first", "reading", "leaving", "gone"}]
    /\ writer \in [Conns -> {"none", "select", "done"} \cup Messages]
    /\ \A c \in Conns : reader[c] = "gone" => writer[c] \in {"none", "done"}
    /\ subs \subseteq Conns /\ closed \subseteq Conns /\ cancelled \subseteq Conns
    /\ filter \in [Conns -> Filters]
    /\ \A c \in Conns : /\ Len(send[c]) <= SendBuffer /\ Range(send[c]) \subseteq Messages
                        /\ Len(wire[c]) <= WireBuffer /\ Range(wire[c]) \subseteq Messages
    /\ \A c \in Conns : view[c] \in 0..graph /\ due[c] \in 0..graph
    /\ panicked \in BOOLEAN

Init ==
    /\ graph = 0 /\ task = [w \in Workers |-> Idle]
    /\ conn = [c \in Conns |-> "new"] /\ reader = [c \in Conns |-> "first"]
    /\ writer = [c \in Conns |-> "none"] /\ cancelled = {} /\ subs = {} /\ closed = {}
    /\ filter \in [Conns -> {CHOOSE f \in Filters : TRUE}]
    /\ send = [c \in Conns |-> <<>>] /\ wire = [c \in Conns |-> <<>>]
    /\ due = [c \in Conns |-> 0] /\ view = [c \in Conns |-> 0]
    /\ panicked = FALSE

-----------------------------------------------------------------------------
(* Broadcasting. *)

\* The informer has written the store and calls BroadcastEvent.
Change(w, obj) ==
    /\ task[w] = Idle /\ graph < MaxChanges
    /\ graph' = graph + 1
    /\ task' = [task EXCEPT ![w] = [change |-> graph + 1, obj |-> obj]]
    /\ UNCHANGED <<conn, server, wire, due, view, panicked>>

\* A name here is a kind together with a name.
filterMatches(f, u) ==
    CASE f.level = "cluster" -> TRUE
      [] f.level = "namespace" -> f.namespace = u.namespace \/ u.namespace = ""
      [] f.level \in {"workload", "resource"} -> f.namespace = u.namespace /\ f.name = u.name
      [] OTHER -> FALSE

\* As if a buffer that overflows were flushed together with the update.
OfferFlushes(queue, msg) == IF Len(queue) < SendBuffer THEN Append(queue, msg) ELSE <<>>

\* select { case send <- msg: default: }
Offer(queue, msg) == IF Len(queue) < SendBuffer THEN Append(queue, msg) ELSE queue

\* Broadcast, under the read lock.
Broadcast(w) ==
    LET to == {c \in subs : filterMatches(filter[c], task[w].obj)} IN
    /\ task[w] # Idle
    /\ panicked' = (panicked \/ to \cap closed # {})
    /\ send' = [c \in Conns |-> IF c \in to \ closed THEN Offer(send[c], "update") ELSE send[c]]
    /\ due' = [c \in Conns |->
                 IF c \in to /\ task[w].change > due[c] THEN task[w].change ELSE due[c]]
    /\ task' = [task EXCEPT ![w] = Idle]
    /\ UNCHANGED <<graph, conn, reader, writer, cancelled, subs, closed, filter, wire, view>>

-----------------------------------------------------------------------------
(* The handler of a connection: Handle up to the reader loop, and the loop. *)

Subscribe(c, f) ==
    /\ reader[c] = "first" /\ conn[c] = "new"
    /\ conn' = [conn EXCEPT ![c] = "open"]
    /\ reader' = [reader EXCEPT ![c] = "reading"]
    /\ writer' = [writer EXCEPT ![c] = "select"]
    /\ subs' = subs \cup {c}
    /\ filter' = [filter EXCEPT ![c] = f]
    /\ UNCHANGED <<graph, task, cancelled, closed, send, wire, due, view, panicked>>

\* The first message is missing or is not SUBSCRIBE.
Refuse(c) ==
    /\ reader[c] = "first"
    /\ conn' = [conn EXCEPT ![c] = "down"]
    /\ reader' = [reader EXCEPT ![c] = "gone"]
    /\ UNCHANGED <<graph, task, writer, cancelled, subs, closed, filter, send, wire, due, view,
                   panicked>>

Pongs(c) == Cardinality({i \in 1..Len(send[c]) : send[c][i] = "pong"})

ReadPing(c) ==
    /\ reader[c] = "reading" /\ conn[c] = "open" /\ Pongs(c) < PongLimit
    /\ send' = [send EXCEPT ![c] = Offer(@, "pong")]
    /\ UNCHANGED <<graph, task, conn, reader, writer, cancelled, subs, closed, filter, wire, due,
                   view, panicked>>

updateFilter(c, f) ==
    /\ reader[c] = "reading" /\ conn[c] = "open"
    /\ filter' = IF c \in subs THEN [filter EXCEPT ![c] = f] ELSE filter
    /\ UNCHANGED <<graph, task, conn, reader, writer, cancelled, subs, closed, send, wire, due,
                   view, panicked>>

\* UNSUBSCRIBE, or a failed read: cancelWriter, then wait for the writer.
Leave(c) ==
    /\ reader' = [reader EXCEPT ![c] = "leaving"]
    /\ cancelled' = cancelled \cup {c}
    /\ UNCHANGED <<graph, task, conn, writer, subs, closed, filter, send, wire, due, view, panicked>>

ReadUnsubscribe(c) == reader[c] = "reading" /\ conn[c] = "open" /\ Leave(c)

\* As if the loop went on after a failed read.
ReadFailsContinues(c) == reader[c] = "reading" /\ conn[c] = "down" /\ UNCHANGED vars

ReadFails(c) == reader[c] = "reading" /\ conn[c] = "down" /\ Leave(c)

unregister(c) == subs' = subs \ {c} /\ closed' = closed \cup {c}

WriterDone(c) == writer[c] = "done"

\* <-writerDone, then the deferred unregister and CloseNow.
Return(c) ==
    /\ reader[c] = "leaving" /\ WriterDone(c)
    /\ reader' = [reader EXCEPT ![c] = "gone"]
    /\ conn' = [conn EXCEPT ![c] = "down"]
    /\ unregister(c)
    /\ UNCHANGED <<graph, task, writer, cancelled, filter, send, wire, due, view, panicked>>

-----------------------------------------------------------------------------
(* The writer goroutine, one action per case of its select. *)

SelectDone(c) ==
    /\ writer[c] = "select" /\ c \in cancelled
    /\ writer' = [writer EXCEPT ![c] = "done"]
    /\ UNCHANGED <<graph, task, conn, reader, cancelled, subs, closed, filter, send, wire, due,
                   view, panicked>>

Pending(c) == send[c] # <<>>

SelectSend(c) ==
    /\ writer[c] = "select" /\ Pending(c)
    /\ writer' = [writer EXCEPT ![c] = Head(send[c])]
    /\ send' = [send EXCEPT ![c] = Tail(@)]
    /\ UNCHANGED <<graph, task, conn, reader, cancelled, subs, closed, filter, wire, due, view,
                   panicked>>

\* The heartbeat; one PING under way at a time.
SelectTick(c) ==
    /\ writer[c] = "select" /\ "ping" \notin Range(wire[c])
    /\ writer' = [writer EXCEPT ![c] = "ping"]
    /\ UNCHANGED <<graph, task, conn, reader, cancelled, subs, closed, filter, send, wire, due,
                   view, panicked>>

\* writeWithTimeout succeeds ...
Written(c) ==
    /\ writer[c] \in Messages /\ conn[c] = "open" /\ Len(wire[c]) < WireBuffer
    /\ wire' = [wire EXCEPT ![c] = Append(@, writer[c])]
    /\ writer' = [writer EXCEPT ![c] = "select"]
    /\ UNCHANGED <<graph, task, conn, reader, cancelled, subs, closed, filter, send, due, view,
                   panicked>>

\* ... or fails: a failed write ends the writer, a cancelled one does not; the
\* websocket library closes the connection in both cases.
WriteFails(c) ==
    /\ writer[c] \in Messages
    /\ conn[c] = "down" \/ c \in cancelled \/ Len(wire[c]) = WireBuffer
    /\ conn' = [conn EXCEPT ![c] = "down"]
    /\ writer' = [writer EXCEPT ![c] = IF c \in cancelled THEN "select" ELSE "done"]
    /\ UNCHANGED <<graph, task, reader, cancelled, subs, closed, filter, send, wire, due, view,
                   panicked>>

-----------------------------------------------------------------------------
(* The network and the browser. *)

Disconnect(c) ==
    /\ conn[c] = "open"
    /\ conn' = [conn EXCEPT ![c] = "down"]
    /\ UNCHANGED <<graph, task, server, wire, due, view, panicked>>

\* handleMessage: every GRAPH_UPDATE invalidates the queries, which are then
\* fetched again.
Receive(c) ==
    /\ wire[c] # <<>>
    /\ wire' = [wire EXCEPT ![c] = Tail(@)]
    /\ view' = IF Head(wire[c]) = "update" THEN [view EXCEPT ![c] = graph] ELSE view
    /\ UNCHANGED <<graph, task, conn, server, due, panicked>>

ReadMessage(c) ==
    ReadPing(c) \/ (\E f \in Filters : updateFilter(c, f)) \/ ReadUnsubscribe(c)

Handler(c) == ReadFails(c) \/ Return(c)

Next ==
    \/ \E w \in Workers : Broadcast(w) \/ \E obj \in Objects : Change(w, obj)
    \/ \E c \in Conns :
         \/ Refuse(c) \/ (\E f \in Filters : Subscribe(c, f))
         \/ ReadMessage(c) \/ Handler(c)
         \/ SelectDone(c) \/ SelectSend(c) \/ SelectTick(c) \/ Written(c) \/ WriteFails(c)
         \/ Disconnect(c) \/ Receive(c)

Spec == Init /\ [][Next]_vars

(* A write ends, by success or by its timeout; select takes a case that stays *)
(* ready with probability one, which is more than its being enabled; the      *)
(* browser handles its messages.                                              *)
LiveSpec ==
    /\ Spec
    /\ \A w \in Workers : WF_vars(Broadcast(w))
    /\ \A c \in Conns :
         /\ WF_vars(Handler(c)) /\ WF_vars(Written(c) \/ WriteFails(c)) /\ WF_vars(Receive(c))
         /\ SF_vars(SelectDone(c)) /\ SF_vars(SelectSend(c))

-----------------------------------------------------------------------------
(* What has to hold. *)

\* Broadcast never sends on the channel that the handler of a leaving client
\* closes, whatever the order of the two.
NoSendOnClosed == ~panicked

Coming(c) == "update" \in Range(send[c]) \cup Range(wire[c]) \cup {writer[c]}

\* "a slow client must not block broadcast to everyone else" by dropping its
\* updates: a dropped update leaves no client behind, because an announced
\* change that the client has not seen always has an update on its way, as
\* long as the connection lasts.
MissedHasRefresh ==
    \A c \in subs : due[c] > view[c] /\ conn[c] = "open" /\ c \notin cancelled => Coming(c)

\* Broadcast and the handlers: nothing is sent on a closed channel, and a client
\* that an update was dropped for has another on its way.
HubSound == TypeOK /\ NoSendOnClosed /\ MissedHasRefresh

\* A connection that is down is forgotten: no zombie subscription, whichever of
\* reader and writer notices first, and whatever is still in the buffer.
ConnectionsForgotten == \A c \in Conns : conn[c] = "down" ~> c \notin subs

\* A client that stays connected sees every change announced to it.
ClientsCatchUp ==
    \A c \in Conns : \A n \in 1..MaxChanges :
        due[c] >= n ~> view[c] >= n \/ conn[c] = "down" \/ c \in cancelled

\* Handle: a connection that is down is unregistered, and a client that stays
\* connected gets to see every change announced to it.
ClientsServed == ConnectionsForgotten /\ ClientsCatchUp
=============================================================================
