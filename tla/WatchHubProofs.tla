--------------------------- MODULE WatchHubProofs ---------------------------
(***************************************************************************)
(* Proofs about WatchHub for any number of connections and broadcasting    *)
(* workers, any subscriptions and any buffer that the PONGs cannot fill:   *)
(* no broadcast meets a closed channel, and a client that an update was    *)
(* dropped for has another one on its way.                                 *)
(***************************************************************************)
EXTENDS WatchHub, FiniteSetTheorems, TLAPS

(* A send channel holds updates and PONGs; the heartbeat never goes through it. *)
Queued == {"update", "pong"}
PongsAt(s) == {i \in 1..Len(s) : s[i] = "pong"}

LEMMA PongsFinite ==
    ASSUME NEW s \in Seq(Queued)
    PROVE  IsFiniteSet(PongsAt(s)) /\ Cardinality(PongsAt(s)) \in Nat
<1>1. IsFiniteSet(1..Len(s)) /\ PongsAt(s) \in SUBSET (1..Len(s))
  BY FS_Interval DEF PongsAt
<1> QED BY <1>1, FS_Subset, FS_CardinalityType

\* Append counts one PONG more at most ...
LEMMA PongsAppend ==
    ASSUME NEW s \in Seq(Queued), NEW m \in Queued
    PROVE  Cardinality(PongsAt(Append(s, m))) = Cardinality(PongsAt(s)) + (IF m = "pong" THEN 1 ELSE 0)
<1>1. /\ Len(Append(s, m)) = Len(s) + 1 /\ Len(s) \in Nat
      /\ \A i \in 1..Len(s) : Append(s, m)[i] = s[i]
      /\ Append(s, m)[Len(s) + 1] = m
  OBVIOUS
<1>2. CASE m = "pong"
  <2>1. PongsAt(Append(s, m)) = PongsAt(s) \cup {Len(s) + 1}
    BY <1>1, <1>2 DEF PongsAt
  <2>2. Len(s) + 1 \notin PongsAt(s)
    BY <1>1 DEF PongsAt
  <2> QED BY <1>2, <2>1, <2>2, PongsFinite, FS_AddElement
<1>3. CASE m # "pong"
  <2>1. PongsAt(Append(s, m)) = PongsAt(s)
    BY <1>1, <1>3 DEF PongsAt
  <2> QED BY <1>3, <2>1, PongsFinite
<1> QED BY <1>2, <1>3

\* ... and Tail no more than there were.
LEMMA PongsTail ==
    ASSUME NEW s \in Seq(Queued), s # <<>>
    PROVE  Cardinality(PongsAt(Tail(s))) <= Cardinality(PongsAt(s))
<1> DEFINE next == [i \in PongsAt(Tail(s)) |-> i + 1]
<1>1. /\ Len(Tail(s)) = Len(s) - 1 /\ Len(s) \in Nat
      /\ \A i \in 1..Len(Tail(s)) : Tail(s)[i] = s[i + 1]
  OBVIOUS
<1>2. \A i \in PongsAt(Tail(s)) : i \in Int /\ i + 1 \in PongsAt(s)
  BY <1>1 DEF PongsAt
<1>3. next \in [PongsAt(Tail(s)) -> PongsAt(s)]
  BY <1>2
<1>4. \A i, j \in PongsAt(Tail(s)) : next[i] = next[j] => i = j
  BY <1>2
<1>5. next \in Injection(PongsAt(Tail(s)), PongsAt(s))
  BY <1>3, <1>4 DEF Injection, IsInjective
<1> QED BY <1>5, PongsFinite, FS_Injection

\* A full channel holds an update: the PONGs alone do not fill it.
LEMMA FullHasUpdate ==
    ASSUME NEW s \in Seq(Queued), Cardinality(PongsAt(s)) <= PongLimit, Len(s) >= SendBuffer
    PROVE  "update" \in Range(s)
<1>1. Len(s) \in Nat /\ DOMAIN s = 1..Len(s) /\ \A i \in 1..Len(s) : s[i] \in Queued
  OBVIOUS
<1>2. SUFFICES ASSUME "update" \notin Range(s) PROVE FALSE
  OBVIOUS
<1>3. \A i \in 1..Len(s) : s[i] = "pong"
  BY <1>1, <1>2 DEF Range, Queued
<1>4. PongsAt(s) = 1..Len(s)
  BY <1>3 DEF PongsAt
<1>5. Cardinality(1..Len(s)) = Len(s)
  <2>1. Cardinality(1..Len(s)) = IF 1 > Len(s) THEN 0 ELSE Len(s) - 1 + 1
    BY <1>1, FS_Interval
  <2> QED BY <1>1, <2>1
<1>6. Cardinality(PongsAt(s)) = Len(s)
  BY <1>4, <1>5
<1> QED BY <1>1, <1>6, WatchHubAssumption

\* What the two ends of a channel do to the messages in it.
LEMMA RangeAppend ==
    ASSUME NEW S, NEW s \in Seq(S), NEW m \in S
    PROVE  Range(Append(s, m)) = Range(s) \cup {m}
<1>1. /\ Len(Append(s, m)) = Len(s) + 1 /\ Len(s) \in Nat
      /\ DOMAIN s = 1..Len(s) /\ DOMAIN Append(s, m) = 1..Len(s) + 1
      /\ \A i \in 1..Len(s) : Append(s, m)[i] = s[i]
      /\ Append(s, m)[Len(s) + 1] = m
  OBVIOUS
<1> QED BY <1>1 DEF Range

LEMMA RangeTail ==
    ASSUME NEW S, NEW s \in Seq(S), s # <<>>
    PROVE  Range(s) = Range(Tail(s)) \cup {Head(s)}
<1>1. /\ Len(Tail(s)) = Len(s) - 1 /\ Len(s) \in Nat \ {0}
      /\ DOMAIN s = 1..Len(s) /\ DOMAIN Tail(s) = 1..Len(s) - 1
      /\ \A i \in 1..Len(s) - 1 : Tail(s)[i] = s[i + 1]
      /\ Head(s) = s[1]
  OBVIOUS
<1>2. Range(Tail(s)) \cup {Head(s)} \subseteq Range(s)
  BY <1>1 DEF Range
<1>3. ASSUME NEW i \in 1..Len(s) PROVE s[i] \in Range(Tail(s)) \cup {Head(s)}
  <2>1. CASE i = 1
    BY <1>1, <2>1
  <2>2. CASE i # 1
    <3>1. i - 1 \in 1..Len(s) - 1 /\ Tail(s)[i - 1] = s[i]
      BY <1>1, <2>2
    <3> QED BY <1>1, <3>1 DEF Range
  <2> QED BY <2>1, <2>2
<1> QED BY <1>1, <1>2, <1>3 DEF Range

-----------------------------------------------------------------------------
(* The inductive invariant.  Types: as TypeOK, with what a channel may hold  *)
(* and that nothing is announced before it happened.                         *)

HubTypes ==
    /\ graph \in 0..MaxChanges
    /\ task \in [Workers -> {Idle} \cup [change : 1..MaxChanges, obj : Objects]]
    /\ \A w \in Workers : task[w] # Idle => task[w].change <= graph
    /\ conn \in [Conns -> {"new", "open", "down"}]
    /\ reader \in [Conns -> {"first", "reading", "leaving", "gone"}]
    /\ writer \in [Conns -> {"none", "select", "done"} \cup Messages]
    /\ subs \subseteq Conns /\ closed \subseteq Conns /\ cancelled \subseteq Conns
    /\ filter \in [Conns -> Filters]
    /\ send \in [Conns -> Seq(Queued)] /\ wire \in [Conns -> Seq(Messages)]
    /\ due \in [Conns -> Nat] /\ view \in [Conns -> Nat]
    /\ \A c \in Conns : due[c] <= graph /\ view[c] <= graph
    /\ panicked \in BOOLEAN

\* The buffers, and the PONGs in a channel.
Buffers ==
    \A c \in Conns : /\ Len(send[c]) <= SendBuffer /\ Len(wire[c]) <= WireBuffer
                     /\ Cardinality(PongsAt(send[c])) <= PongLimit

\* Handle registers a connection before it reads on, and unregisters it, closing
\* the channel, only when both of its goroutines are done.
Lifecycle ==
    \A c \in Conns :
        /\ c \in subs <=> reader[c] \in {"reading", "leaving"}
        /\ c \in closed => reader[c] = "gone"
        /\ reader[c] = "first" => writer[c] = "none" /\ due[c] = 0
        /\ reader[c] = "gone" => writer[c] \in {"none", "done"}

HubInv == HubTypes /\ Buffers /\ Lifecycle /\ NoSendOnClosed /\ MissedHasRefresh

LEMMA OfferKeeps ==
    ASSUME NEW q \in Seq(Queued), NEW m \in Queued, Len(q) <= SendBuffer
    PROVE  /\ Offer(q, m) \in Seq(Queued) /\ Len(Offer(q, m)) <= SendBuffer
           /\ Range(q) \subseteq Range(Offer(q, m))
           /\ Cardinality(PongsAt(Offer(q, m)))
                <= Cardinality(PongsAt(q)) + (IF m = "pong" THEN 1 ELSE 0)
<1> USE WatchHubAssumption
<1>0. Cardinality(PongsAt(q)) \in Nat /\ Len(q) \in Nat
  BY PongsFinite
<1>1. CASE Len(q) < SendBuffer
  <2>1. Offer(q, m) = Append(q, m)
    BY <1>1 DEF Offer
  <2>2. Append(q, m) \in Seq(Queued) /\ Len(Append(q, m)) = Len(q) + 1
    OBVIOUS
  <2>3. Range(Append(q, m)) = Range(q) \cup {m}
    BY RangeAppend
  <2>4. Cardinality(PongsAt(Append(q, m)))
          = Cardinality(PongsAt(q)) + (IF m = "pong" THEN 1 ELSE 0)
    BY PongsAppend
  <2>5. Len(Append(q, m)) <= SendBuffer
    BY <1>0, <1>1, <2>2
  <2> QED BY <1>0, <2>1, <2>2, <2>3, <2>4, <2>5
<1>2. CASE ~(Len(q) < SendBuffer)
  <2>1. Offer(q, m) = q
    BY <1>2 DEF Offer
  <2> QED BY <1>0, <2>1
<1> QED BY <1>1, <1>2

LEMMA InitInv == Init => HubInv
<1> SUFFICES ASSUME Init PROVE HubInv
  OBVIOUS
<1> USE WatchHubAssumption
<1>1. <<>> \in Seq(Queued) /\ <<>> \in Seq(Messages) /\ Len(<<>>) = 0
  OBVIOUS
<1>2. Cardinality(PongsAt(<<>>)) = 0
  <2>1. PongsAt(<<>>) = {}
    BY <1>1 DEF PongsAt
  <2> QED BY <2>1, FS_EmptySet
<1>3. (CHOOSE f \in Filters : TRUE) \in Filters
  OBVIOUS
<1>4. HubTypes
  <2>1. filter \in [Conns -> Filters]
    BY <1>3 DEF Init
  <2>2. task \in [Workers -> {Idle}] /\ \A w \in Workers : task[w] = Idle
    BY DEF Init
  <2>3. /\ graph = 0 /\ due = [c \in Conns |-> 0] /\ view = [c \in Conns |-> 0]
        /\ send \in [Conns -> Seq(Queued)] /\ wire \in [Conns -> Seq(Messages)]
    BY <1>1 DEF Init
  <2>4. graph \in 0..MaxChanges /\ \A c \in Conns : due[c] <= graph /\ view[c] <= graph
    BY <2>3
  <2>5. due \in [Conns -> Nat] /\ view \in [Conns -> Nat]
    BY <2>3
  <2>6. /\ conn \in [Conns -> {"new", "open", "down"}]
        /\ reader \in [Conns -> {"first", "reading", "leaving", "gone"}]
        /\ writer \in [Conns -> {"none", "select", "done"} \cup Messages]
        /\ subs \subseteq Conns /\ closed \subseteq Conns /\ cancelled \subseteq Conns
    BY DEF Init
  <2>7. panicked \in BOOLEAN
    BY DEF Init
  <2> QED BY <2>1, <2>2, <2>3, <2>4, <2>5, <2>6, <2>7 DEF HubTypes
<1>5. Buffers
  BY <1>1, <1>2 DEF Init, Buffers
<1>6. Lifecycle /\ NoSendOnClosed /\ MissedHasRefresh
  BY DEF Init, Lifecycle, NoSendOnClosed, MissedHasRefresh
<1> QED BY <1>4, <1>5, <1>6 DEF HubInv

LEMMA TypesNext == HubInv /\ [Next]_vars => HubTypes'
<1> SUFFICES ASSUME HubInv, [Next]_vars PROVE HubTypes'
  OBVIOUS
<1> USE WatchHubAssumption DEF HubInv
<1>1. ASSUME NEW w \in Workers, NEW obj \in Objects, Change(w, obj) PROVE HubTypes'
  <2>1. graph + 1 \in 1..MaxChanges /\ graph' = graph + 1 /\ graph \in Nat
    BY <1>1 DEF Change, HubTypes
  <2>2. [change |-> graph + 1, obj |-> obj] \in [change : 1..MaxChanges, obj : Objects]
    BY <2>1
  <2>3. task' = [task EXCEPT ![w] = [change |-> graph + 1, obj |-> obj]]
    BY <1>1 DEF Change
  <2>4. task' \in [Workers -> {Idle} \cup [change : 1..MaxChanges, obj : Objects]]
    BY <2>2, <2>3 DEF HubTypes
  <2>5. \A v \in Workers : task'[v] # Idle => task'[v].change <= graph'
    <3> TAKE v \in Workers
    <3>1. CASE v = w
      BY <2>1, <2>3, <3>1 DEF HubTypes
    <3>2. CASE v # w
      <4>1. task'[v] = task[v] /\ (task[v] # Idle => task[v].change \in Nat)
        BY <2>3, <3>2 DEF HubTypes
      <4> QED BY <2>1, <4>1 DEF HubTypes
    <3> QED BY <3>1, <3>2
  <2>6. \A c \in Conns : due[c] <= graph' /\ view[c] <= graph'
    BY <2>1 DEF HubTypes
  <2>7. graph' \in 0..MaxChanges
    BY <2>1
  <2> QED BY <1>1, <2>4, <2>5, <2>6, <2>7 DEF Change, HubTypes, server
<1>2. ASSUME NEW w \in Workers, Broadcast(w) PROVE HubTypes'
  <2>1. send' \in [Conns -> Seq(Queued)]
    BY <1>2, OfferKeeps DEF Broadcast, HubTypes, Buffers, Queued
  <2>2. task[w].change \in Nat /\ task[w].change <= graph
    BY <1>2 DEF Broadcast, HubTypes
  <2>3. due' \in [Conns -> Nat] /\ \A c \in Conns : due'[c] <= graph
    BY <1>2, <2>2 DEF Broadcast, HubTypes
  <2>4. task' = [task EXCEPT ![w] = Idle]
    BY <1>2 DEF Broadcast
  <2>5. task' \in [Workers -> {Idle} \cup [change : 1..MaxChanges, obj : Objects]]
        /\ \A v \in Workers : task'[v] # Idle => task'[v].change <= graph
    BY <2>4 DEF HubTypes
  <2>6. panicked' \in BOOLEAN
    BY <1>2 DEF Broadcast
  <2> QED BY <1>2, <2>1, <2>3, <2>5, <2>6 DEF Broadcast, HubTypes
<1>3. ASSUME NEW c \in Conns, Refuse(c) PROVE HubTypes'
  BY <1>3 DEF Refuse, HubTypes
<1>4. ASSUME NEW c \in Conns, NEW f \in Filters, Subscribe(c, f) PROVE HubTypes'
  BY <1>4 DEF Subscribe, HubTypes
<1>5. ASSUME NEW c \in Conns, ReadPing(c) PROVE HubTypes'
  <2>1. Offer(send[c], "pong") \in Seq(Queued)
    BY OfferKeeps DEF HubTypes, Buffers, Queued
  <2> QED BY <1>5, <2>1 DEF ReadPing, HubTypes
<1>6. ASSUME NEW c \in Conns, NEW f \in Filters, updateFilter(c, f) PROVE HubTypes'
  BY <1>6 DEF updateFilter, HubTypes
<1>7. ASSUME NEW c \in Conns, Leave(c) PROVE HubTypes'
  BY <1>7 DEF Leave, HubTypes
<1>8. ASSUME NEW c \in Conns, Return(c) PROVE HubTypes'
  BY <1>8 DEF Return, unregister, HubTypes
<1>9. ASSUME NEW c \in Conns, SelectDone(c) PROVE HubTypes'
  BY <1>9 DEF SelectDone, HubTypes
<1>10. ASSUME NEW c \in Conns, SelectSend(c) PROVE HubTypes'
  <2>1. Head(send[c]) \in Messages /\ Tail(send[c]) \in Seq(Queued)
    BY <1>10 DEF SelectSend, Pending, HubTypes, Queued, Messages
  <2> QED BY <1>10, <2>1 DEF SelectSend, HubTypes
<1>11. ASSUME NEW c \in Conns, SelectTick(c) PROVE HubTypes'
  BY <1>11 DEF SelectTick, HubTypes, Messages
<1>12. ASSUME NEW c \in Conns, Written(c) PROVE HubTypes'
  <2>1. Append(wire[c], writer[c]) \in Seq(Messages)
    BY <1>12 DEF Written, HubTypes
  <2> QED BY <1>12, <2>1 DEF Written, HubTypes
<1>13. ASSUME NEW c \in Conns, WriteFails(c) PROVE HubTypes'
  BY <1>13 DEF WriteFails, HubTypes
<1>14. ASSUME NEW c \in Conns, Disconnect(c) PROVE HubTypes'
  BY <1>14 DEF Disconnect, HubTypes, server
<1>15. ASSUME NEW c \in Conns, Receive(c) PROVE HubTypes'
  <2>1. Tail(wire[c]) \in Seq(Messages)
    BY <1>15 DEF Receive, HubTypes
  <2>2. view' \in [Conns -> Nat] /\ \A d \in Conns : view'[d] <= graph
    BY <1>15 DEF Receive, HubTypes
  <2> QED BY <1>15, <2>1, <2>2 DEF Receive, HubTypes, server
<1>16. CASE UNCHANGED vars
  BY <1>16 DEF vars, HubTypes
<1> QED BY <1>1, <1>2, <1>3, <1>4, <1>5, <1>6, <1>7, <1>8, <1>9, <1>10, <1>11, <1>12, <1>13,
           <1>14, <1>15, <1>16
        DEF Next, ReadMessage, Handler, ReadUnsubscribe, ReadFails

LEMMA BuffersNext == HubInv /\ [Next]_vars => Buffers'
<1> SUFFICES ASSUME HubInv, [Next]_vars PROVE Buffers'
  OBVIOUS
<1> USE WatchHubAssumption DEF HubInv
<1>1. ASSUME UNCHANGED <<send, wire>> PROVE Buffers'
  BY <1>1 DEF Buffers
<1>2. ASSUME NEW w \in Workers, Broadcast(w) PROVE Buffers'
  <2> SUFFICES ASSUME NEW c \in Conns
               PROVE  /\ Len(send'[c]) <= SendBuffer
                      /\ Cardinality(PongsAt(send'[c])) <= PongLimit
    BY <1>2 DEF Broadcast, Buffers
  <2>1. send'[c] = send[c] \/ send'[c] = Offer(send[c], "update")
    BY <1>2 DEF Broadcast
  <2>2. /\ Len(Offer(send[c], "update")) <= SendBuffer
        /\ Cardinality(PongsAt(Offer(send[c], "update"))) <= Cardinality(PongsAt(send[c])) + 0
    BY OfferKeeps DEF HubTypes, Buffers, Queued
  <2>3. Offer(send[c], "update") \in Seq(Queued)
    BY OfferKeeps DEF HubTypes, Buffers, Queued
  <2>4. Cardinality(PongsAt(Offer(send[c], "update"))) \in Nat /\ Cardinality(PongsAt(send[c])) \in Nat
    BY <2>3, PongsFinite DEF HubTypes
  <2> QED BY <2>1, <2>2, <2>4 DEF Buffers
<1>3. ASSUME NEW c \in Conns, ReadPing(c) PROVE Buffers'
  <2>1. /\ Offer(send[c], "pong") \in Seq(Queued)
        /\ Len(Offer(send[c], "pong")) <= SendBuffer
        /\ Cardinality(PongsAt(Offer(send[c], "pong"))) <= Cardinality(PongsAt(send[c])) + 1
    BY OfferKeeps DEF HubTypes, Buffers, Queued
  <2>2. Cardinality(PongsAt(Offer(send[c], "pong"))) \in Nat /\ Cardinality(PongsAt(send[c])) \in Nat
    BY <2>1, PongsFinite DEF HubTypes
  <2>3. Cardinality(PongsAt(send[c])) < PongLimit
    BY <1>3 DEF ReadPing, Pongs, PongsAt
  <2>4. Cardinality(PongsAt(Offer(send[c], "pong"))) <= PongLimit
    BY <2>1, <2>2, <2>3
  <2>5. send' = [send EXCEPT ![c] = Offer(send[c], "pong")] /\ wire' = wire
    BY <1>3 DEF ReadPing
  <2> QED BY <2>1, <2>4, <2>5 DEF Buffers, HubTypes
<1>4. ASSUME NEW c \in Conns, SelectSend(c) PROVE Buffers'
  <2>1. send[c] \in Seq(Queued) /\ send[c] # <<>>
    BY <1>4 DEF SelectSend, Pending, HubTypes
  <2>2. /\ Tail(send[c]) \in Seq(Queued) /\ Len(Tail(send[c])) = Len(send[c]) - 1
        /\ Len(send[c]) \in Nat
    BY <2>1
  <2>3. Cardinality(PongsAt(Tail(send[c]))) <= Cardinality(PongsAt(send[c]))
    BY <2>1, PongsTail
  <2>4. Cardinality(PongsAt(Tail(send[c]))) \in Nat /\ Cardinality(PongsAt(send[c])) \in Nat
    BY <2>1, <2>2, PongsFinite
  <2>5. Len(Tail(send[c])) <= SendBuffer /\ Cardinality(PongsAt(Tail(send[c]))) <= PongLimit
    BY <2>2, <2>3, <2>4 DEF Buffers
  <2>6. send' = [send EXCEPT ![c] = Tail(send[c])] /\ wire' = wire
    BY <1>4 DEF SelectSend
  <2> QED BY <2>5, <2>6 DEF Buffers, HubTypes
<1>5. ASSUME NEW c \in Conns, Written(c) PROVE Buffers'
  <2>1. Len(Append(wire[c], writer[c])) = Len(wire[c]) + 1 /\ Len(wire[c]) \in Nat
    BY <1>5 DEF Written, HubTypes
  <2>2. Len(Append(wire[c], writer[c])) <= WireBuffer
    BY <1>5, <2>1 DEF Written
  <2> QED BY <1>5, <2>2 DEF Written, Buffers, HubTypes
<1>6. ASSUME NEW c \in Conns, Receive(c) PROVE Buffers'
  <2>1. Len(Tail(wire[c])) = Len(wire[c]) - 1 /\ Len(wire[c]) \in Nat
    BY <1>6 DEF Receive, HubTypes
  <2>2. Len(Tail(wire[c])) <= WireBuffer
    BY <2>1 DEF Buffers
  <2> QED BY <1>6, <2>2 DEF Receive, Buffers, HubTypes, server
<1> QED BY <1>1, <1>2, <1>3, <1>4, <1>5, <1>6
        DEF Next, ReadMessage, Handler, ReadUnsubscribe, ReadFails, Change, Refuse, Subscribe,
            updateFilter, Leave, Return, SelectDone, SelectTick, WriteFails, Disconnect, server, vars

LEMMA LifecycleNext == HubInv /\ [Next]_vars => Lifecycle' /\ NoSendOnClosed'
<1> SUFFICES ASSUME HubInv, [Next]_vars PROVE Lifecycle' /\ NoSendOnClosed'
  OBVIOUS
<1> USE DEF HubInv
<1>1. ASSUME UNCHANGED <<reader, writer, subs, closed, due, panicked>>
      PROVE  Lifecycle' /\ NoSendOnClosed'
  BY <1>1 DEF Lifecycle, NoSendOnClosed
<1>2. ASSUME NEW w \in Workers, Broadcast(w) PROVE Lifecycle' /\ NoSendOnClosed'
  <2>1. ~panicked'
    BY <1>2 DEF Broadcast, Lifecycle, NoSendOnClosed, HubTypes
  <2>2. \A c \in Conns : c \notin subs => due'[c] = due[c]
    BY <1>2 DEF Broadcast, HubTypes
  <2> QED BY <1>2, <2>1, <2>2 DEF Broadcast, Lifecycle, NoSendOnClosed
<1>3. ASSUME NEW c \in Conns, Refuse(c) PROVE Lifecycle' /\ NoSendOnClosed'
  BY <1>3 DEF Refuse, Lifecycle, NoSendOnClosed, HubTypes
<1>4. ASSUME NEW c \in Conns, NEW f \in Filters, Subscribe(c, f)
      PROVE  Lifecycle' /\ NoSendOnClosed'
  BY <1>4 DEF Subscribe, Lifecycle, NoSendOnClosed, HubTypes
<1>5. ASSUME NEW c \in Conns, Leave(c), reader[c] = "reading" PROVE Lifecycle' /\ NoSendOnClosed'
  BY <1>5 DEF Leave, Lifecycle, NoSendOnClosed, HubTypes
<1>6. ASSUME NEW c \in Conns, Return(c) PROVE Lifecycle' /\ NoSendOnClosed'
  BY <1>6 DEF Return, WriterDone, unregister, Lifecycle, NoSendOnClosed, HubTypes
<1>7. ASSUME NEW c \in Conns, SelectDone(c) PROVE Lifecycle' /\ NoSendOnClosed'
  BY <1>7 DEF SelectDone, Lifecycle, NoSendOnClosed, HubTypes
<1>8. ASSUME NEW c \in Conns, SelectSend(c) PROVE Lifecycle' /\ NoSendOnClosed'
  BY <1>8 DEF SelectSend, Lifecycle, NoSendOnClosed, HubTypes
<1>9. ASSUME NEW c \in Conns, SelectTick(c) PROVE Lifecycle' /\ NoSendOnClosed'
  BY <1>9 DEF SelectTick, Lifecycle, NoSendOnClosed, HubTypes
<1>10. ASSUME NEW c \in Conns, Written(c) \/ WriteFails(c) PROVE Lifecycle' /\ NoSendOnClosed'
  <2>1. reader[c] \in {"reading", "leaving"}
    BY <1>10 DEF Written, WriteFails, Messages, Lifecycle, HubTypes
  <2>2. /\ UNCHANGED <<reader, subs, closed, due, panicked>>
        /\ \A d \in Conns \ {c} : writer'[d] = writer[d]
    BY <1>10 DEF Written, WriteFails, HubTypes
  <2> QED BY <2>1, <2>2 DEF Lifecycle, NoSendOnClosed
<1> QED BY <1>1, <1>2, <1>3, <1>4, <1>5, <1>6, <1>7, <1>8, <1>9, <1>10
        DEF Next, ReadMessage, Handler, ReadUnsubscribe, ReadFails, Change, ReadPing,
            updateFilter, Disconnect, Receive, server, vars

LEMMA MissedNext == HubInv /\ [Next]_vars => MissedHasRefresh'
<1> SUFFICES ASSUME HubInv, [Next]_vars PROVE MissedHasRefresh'
  OBVIOUS
<1> USE WatchHubAssumption DEF HubInv
\* A step after which every connection has what it had.
<1>0. ASSUME \A c \in Conns :
                /\ c \in subs' /\ conn'[c] = "open" /\ c \notin cancelled'
                     => c \in subs /\ conn[c] = "open" /\ c \notin cancelled
                /\ due'[c] = due[c] /\ view'[c] = view[c]
                /\ Coming(c) /\ conn'[c] = "open" => Coming(c)',
             subs' \subseteq Conns
      PROVE  MissedHasRefresh'
  BY <1>0 DEF MissedHasRefresh
<1>1. ASSUME NEW w \in Workers, Broadcast(w) PROVE MissedHasRefresh'
  <2> SUFFICES ASSUME NEW c \in subs, due'[c] > view[c], conn[c] = "open", c \notin cancelled
               PROVE  Coming(c)'
    BY <1>1 DEF Broadcast, MissedHasRefresh
  <2>0. c \in Conns /\ c \notin closed
    BY DEF HubTypes, Lifecycle
  <2>1. CASE filterMatches(filter[c], task[w].obj)
    <3>1. send'[c] = Offer(send[c], "update")
      BY <1>1, <2>0, <2>1 DEF Broadcast
    <3>2. CASE Len(send[c]) < SendBuffer
      <4>1. send'[c] = Append(send[c], "update")
        BY <3>1, <3>2 DEF Offer
      <4>2. send[c] \in Seq(Queued) /\ "update" \in Queued
        BY <2>0 DEF HubTypes, Queued
      <4>3. Range(send'[c]) = Range(send[c]) \cup {"update"}
        BY <4>1, <4>2, RangeAppend
      <4> QED BY <4>3 DEF Coming
    <3>3. CASE ~(Len(send[c]) < SendBuffer)
      <4>1. send[c] \in Seq(Queued) /\ Len(send[c]) >= SendBuffer
        BY <2>0, <3>3 DEF HubTypes
      <4>2. "update" \in Range(send[c])
        BY <2>0, <4>1, FullHasUpdate DEF Buffers
      <4>3. send'[c] = send[c]
        BY <3>1, <3>3 DEF Offer
      <4> QED BY <4>2, <4>3 DEF Coming
    <3> QED BY <3>2, <3>3
  <2>2. CASE ~filterMatches(filter[c], task[w].obj)
    <3>1. due'[c] = due[c] /\ send'[c] = send[c]
      BY <1>1, <2>0, <2>2 DEF Broadcast
    <3> QED BY <1>1, <3>1 DEF Broadcast, MissedHasRefresh, Coming
  <2> QED BY <2>1, <2>2
<1>2. ASSUME NEW c \in Conns, NEW f \in Filters, Subscribe(c, f) PROVE MissedHasRefresh'
  <2>1. due[c] = 0 /\ view[c] \in Nat
    BY <1>2 DEF Subscribe, Lifecycle, HubTypes
  <2>2. ~(due[c] > view[c])
    BY <2>1
  <2>3. /\ UNCHANGED <<due, view, send, wire, cancelled>>
        /\ subs' = subs \cup {c}
        /\ \A d \in Conns \ {c} : conn'[d] = conn[d] /\ writer'[d] = writer[d]
    BY <1>2 DEF Subscribe, HubTypes
  <2> QED BY <2>2, <2>3 DEF MissedHasRefresh, Coming, HubTypes
<1>3. ASSUME NEW c \in Conns, ReadPing(c) PROVE MissedHasRefresh'
  <2>1. Range(send[c]) \subseteq Range(Offer(send[c], "pong"))
    BY OfferKeeps DEF HubTypes, Buffers, Queued
  <2>2. \A d \in Conns : Range(send[d]) \subseteq Range(send'[d])
    BY <1>3, <2>1 DEF ReadPing, HubTypes
  <2> QED BY <1>0, <1>3, <2>2 DEF ReadPing, Coming, HubTypes
<1>4. ASSUME NEW c \in Conns, SelectSend(c) PROVE MissedHasRefresh'
  <2>1. Range(send[c]) = Range(Tail(send[c])) \cup {Head(send[c])}
    BY <1>4, RangeTail DEF SelectSend, Pending, HubTypes
  <2>2. writer'[c] = Head(send[c]) /\ send'[c] = Tail(send[c]) /\ writer[c] = "select"
    BY <1>4 DEF SelectSend, HubTypes
  <2>3. Coming(c) => Coming(c)'
    BY <1>4, <2>1, <2>2 DEF SelectSend, Coming
  <2>4. \A d \in Conns \ {c} : Coming(d) => Coming(d)'
    BY <1>4 DEF SelectSend, Coming, HubTypes
  <2>5. UNCHANGED <<subs, conn, cancelled, due, view>>
    BY <1>4 DEF SelectSend
  <2> QED BY <1>0, <2>3, <2>4, <2>5 DEF HubTypes
<1>5. ASSUME NEW c \in Conns, Written(c) PROVE MissedHasRefresh'
  <2>1. Range(Append(wire[c], writer[c])) = Range(wire[c]) \cup {writer[c]}
    BY <1>5, RangeAppend DEF Written, HubTypes
  <2>2. wire'[c] = Append(wire[c], writer[c])
    BY <1>5 DEF Written, HubTypes
  <2>3. Coming(c) => Coming(c)'
    BY <1>5, <2>1, <2>2 DEF Written, Coming
  <2>4. \A d \in Conns \ {c} : Coming(d) => Coming(d)'
    BY <1>5 DEF Written, Coming, HubTypes
  <2>5. UNCHANGED <<subs, conn, cancelled, due, view>>
    BY <1>5 DEF Written
  <2> QED BY <1>0, <2>3, <2>4, <2>5 DEF HubTypes
<1>6. ASSUME NEW c \in Conns, Receive(c) PROVE MissedHasRefresh'
  <2>1. Range(wire[c]) = Range(Tail(wire[c])) \cup {Head(wire[c])}
    BY <1>6, RangeTail DEF Receive, HubTypes
  <2>2. /\ wire'[c] = Tail(wire[c])
        /\ \A d \in Conns \ {c} : wire'[d] = wire[d] /\ view'[d] = view[d]
        /\ UNCHANGED <<subs, conn, cancelled, due, send, writer>>
    BY <1>6 DEF Receive, HubTypes, server
  <2>3. CASE Head(wire[c]) = "update"
    <3>1. view'[c] = graph /\ ~(due[c] > graph)
      BY <1>6, <2>3 DEF Receive, HubTypes
    <3> QED BY <2>2, <3>1 DEF MissedHasRefresh, Coming, HubTypes
  <2>4. CASE Head(wire[c]) # "update"
    <3>1. view' = view
      BY <1>6, <2>4 DEF Receive
    <3>2. \A d \in Conns : Coming(d) => Coming(d)'
      BY <2>1, <2>2, <2>4 DEF Coming
    <3> QED BY <1>0, <2>2, <3>1, <3>2 DEF HubTypes
  <2> QED BY <2>3, <2>4
<1>7. ASSUME NEW c \in Conns, WriteFails(c) PROVE MissedHasRefresh'
  BY <1>0, <1>7 DEF WriteFails, Coming, HubTypes
<1>8. ASSUME NEW c \in Conns, SelectDone(c) \/ SelectTick(c) PROVE MissedHasRefresh'
  <2>1. \A d \in Conns : Coming(d) => Coming(d)'
    BY <1>8 DEF SelectDone, SelectTick, Coming, HubTypes
  <2> QED BY <1>0, <1>8, <2>1 DEF SelectDone, SelectTick, HubTypes
<1>9. ASSUME NEW c \in Conns, Refuse(c) \/ Leave(c) \/ Return(c) \/ Disconnect(c)
      PROVE  MissedHasRefresh'
  <2>1. /\ UNCHANGED <<send, wire, writer, due, view>>
        /\ subs' \subseteq subs /\ cancelled \subseteq cancelled'
        /\ \A d \in Conns : conn'[d] = conn[d] \/ conn'[d] = "down"
    BY <1>9 DEF Refuse, Leave, Return, unregister, Disconnect, server, HubTypes
  <2>2. \A d \in Conns : Coming(d) => Coming(d)'
    BY <2>1 DEF Coming
  <2> QED BY <1>0, <2>1, <2>2 DEF HubTypes
<1>10. ASSUME UNCHANGED <<send, wire, writer, due, view, subs, conn, cancelled>>
       PROVE  MissedHasRefresh'
  BY <1>10 DEF MissedHasRefresh, Coming
<1> QED BY <1>1, <1>2, <1>3, <1>4, <1>5, <1>6, <1>7, <1>8, <1>9, <1>10
        DEF Next, ReadMessage, Handler, ReadUnsubscribe, ReadFails, Change, updateFilter, server, vars

LEMMA InvNext == HubInv /\ [Next]_vars => HubInv'
BY TypesNext, BuffersNext, LifecycleNext, MissedNext DEF HubInv

\* The bookkeeping of channels, goroutines and announcements is inductive.
THEOREM HubInvariant == Spec => []HubInv
BY InitInv, InvNext, PTL DEF Spec

LEMMA InvSound == HubInv => HubSound
<1> SUFFICES ASSUME HubInv PROVE TypeOK
  BY DEF HubInv, HubSound
<1> USE DEF HubInv
<1>1. ASSUME NEW c \in Conns PROVE Range(send[c]) \subseteq Messages /\ Range(wire[c]) \subseteq Messages
  <2>1. send[c] \in Seq(Queued) /\ wire[c] \in Seq(Messages)
    BY DEF HubTypes
  <2>2. DOMAIN send[c] = 1..Len(send[c]) /\ DOMAIN wire[c] = 1..Len(wire[c])
    BY <2>1
  <2>3. (\A i \in 1..Len(send[c]) : send[c][i] \in Queued) /\ (\A i \in 1..Len(wire[c]) : wire[c][i] \in Messages)
    BY <2>1
  <2> QED BY <2>2, <2>3 DEF Range, Queued, Messages
<1>2. \A c \in Conns : view[c] \in 0..graph /\ due[c] \in 0..graph
  BY DEF HubTypes
<1> QED BY <1>1, <1>2 DEF TypeOK, HubTypes, Buffers, Lifecycle

\* Whatever the workers, handlers, writers and clients do and in whatever order,
\* Broadcast never sends on a channel that a leaving client closed, and a client
\* that is behind on an announced change has an update coming.
THEOREM HubIsSound == Spec => []HubSound
BY HubInvariant, InvSound, PTL
=============================================================================
