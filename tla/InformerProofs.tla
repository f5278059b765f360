--------------------------- MODULE InformerProofs ---------------------------
(***************************************************************************)
(* Proofs about Informer for any set of resource types and objects, any    *)
(* bodies, any number of API writes and restarts, and every failure of the *)
(* store: the graph a handler leaves is the one its cache says, or the     *)
(* type has a gap; and the history and the broadcasts follow the graph.    *)
(***************************************************************************)
EXTENDS InformerTypes

-----------------------------------------------------------------------------
(* What each step preserves. *)

\* A type's handler and its rows: the other types' steps do not touch them.
LEMMA HandlerNext ==
    ASSUME Types, HandlerInv, PersistInv, [Next]_vars
    PROVE  HandlerInv'
<1> USE DEF HandlerInv
<1>1. ASSUME UNCHANGED <<cur, resources>> PROVE HandlerInv'
  BY <1>1
<1>2. ASSUME NEW g \in Gvrs, UpsertResource(g) PROVE HandlerInv'
  <2> DEFINE o == Head(todo[g]).o
             obj == Head(todo[g]).obj
  <2>1. /\ todo[g] # <<>>
        /\ Worked(g, o, obj) \/ Failed(g, o, obj) \/ AlreadyKnown(g, o, obj)
    BY <1>2, UpsertCases
  <2>2. o \in Objects /\ obj # None /\ obj.rev \in 1..MaxRev
    BY <2>1, HeadTypes
  <2> HIDE DEF o, obj
  <2>3. \A p \in Objects : resources[p] # None => resources'[p] # None
    <3>1. resources' = resources \/ resources' = [resources EXCEPT ![o] = obj]
      BY <2>1, Zenon DEF Worked, Failed, AlreadyKnown
    <3> QED BY <2>2, <3>1 DEF Types
  <2>4. \A h \in Gvrs : cur'[h] = cur[h] \/ (h = g /\ cur'[h].pc = "extract" /\ cur'[h].o = o /\ resources'[o] # None)
    BY <2>1, <2>2 DEF Worked, Failed, AlreadyKnown, AtWork, Types, PersistInv
  <2> QED BY <2>3, <2>4, HandlerTypes
<1>3. ASSUME NEW g \in Gvrs, Extract(g) PROVE HandlerInv'
  <2>1. PICK new \in Writing : cur' = [cur EXCEPT ![g] = new] /\ new.o = cur[g].o /\ (new.es # {} => new.notify)
    BY <1>3, ExtractStep DEF Writing
  <2>2. cur[g] # Idle /\ UNCHANGED resources
    BY <1>3, HandlerTypes DEF Extract, store
  <2> QED BY <2>1, <2>2 DEF Types
<1>4. ASSUME NEW g \in Gvrs, UpsertSecret(g) \/ UpsertEdge(g) PROVE HandlerInv'
  <2>1. cur[g] \in Writing /\ cur[g] # Idle /\ UNCHANGED resources
    BY <1>4, HandlerTypes DEF UpsertSecret, UpsertEdge
  <2>2. /\ cur[g].pc = "write"
        /\ cur[g].secs \subseteq SecretIds /\ cur[g].es \subseteq Objects \X Ids
    BY <2>1 DEF Writing
  <2>3. /\ \A h \in Gvrs : h # g => cur'[h] = cur[h]
        /\ cur'[g].o = cur[g].o /\ cur'[g].es \subseteq cur[g].es /\ cur'[g].notify = cur[g].notify
    <3>1. CASE UpsertSecret(g)
      <4>1. PICK s : cur' = [cur EXCEPT ![g].secs = @ \ {s}]
        BY <3>1, Zenon DEF UpsertSecret
      <4> QED BY <2>1, <4>1 DEF Types, Writing
    <3>2. CASE UpsertEdge(g)
      <4>1. PICK e : cur' = [cur EXCEPT ![g].es = @ \ {e}]
        BY <3>2, Zenon DEF UpsertEdge
      <4> QED BY <2>1, <4>1 DEF Types, Writing
    <3> QED BY <1>4, <3>1, <3>2
  <2> QED BY <2>1, <2>2, <2>3
<1>5. ASSUME NEW g \in Gvrs, Broadcast(g) PROVE HandlerInv'
  BY <1>5 DEF Broadcast, Types, store
<1>6. ASSUME NEW g \in Gvrs, Delete(g) PROVE HandlerInv'
  <2> DEFINE o == Head(todo[g]).o
  <2>1. /\ cur[g] = Idle /\ todo[g] # <<>> /\ UNCHANGED cur
        /\ resources' = resources \/ resources' = [resources EXCEPT ![o] = None]
    BY <1>6, DeleteCases
  <2>2. o \in Objects /\ GvrOf[o] = g
    BY <2>1, HeadTypes
  <2> HIDE DEF o
  <2>3. \A h \in Gvrs : cur[h] # Idle => cur[h].o \in Objects /\ cur[h].o # o
    BY <2>1, <2>2, HandlerTypes
  <2>4. \A p \in Objects : p # o => resources'[p] = resources[p]
    BY <2>1, <2>2 DEF Types
  <2> QED BY <2>1, <2>3, <2>4
<1>7. ASSUME Restart PROVE HandlerInv'
  BY <1>7 DEF Restart
<1> QED BY <1>1, <1>2, <1>3, <1>4, <1>5, <1>6, <1>7
        DEF Next, Handler, vars, Write, Erase, Observe, Resync, Synced, SkipBadObject, store

LEMMA PersistNext ==
    ASSUME Types, PersistInv, [Next]_vars
    PROVE  PersistInv'
<1> USE DEF PersistInv
<1>1. ASSUME UNCHANGED <<persisted, resources, inherited>>, gaps \subseteq gaps' PROVE PersistInv'
  BY <1>1
<1>2. ASSUME NEW g \in Gvrs, UpsertResource(g) PROVE PersistInv'
  <2> DEFINE o == Head(todo[g]).o
             obj == Head(todo[g]).obj
  <2>1. /\ todo[g] # <<>>
        /\ Worked(g, o, obj) \/ Failed(g, o, obj) \/ AlreadyKnown(g, o, obj)
        /\ inherited' = inherited \ {o}
    BY <1>2, UpsertCases
  <2>2. o \in Objects /\ GvrOf[o] = g /\ obj # None /\ obj.rev \in 1..MaxRev
    BY <2>1, HeadTypes
  <2> HIDE DEF o, obj
  <2>3. CASE Worked(g, o, obj)
    BY <2>1, <2>2, <2>3 DEF Worked, Types
  <2>4. CASE Failed(g, o, obj)
    <3>1. /\ UNCHANGED persisted /\ gaps' = gaps \cup {g}
          /\ resources' = resources \/ resources' = [resources EXCEPT ![o] = obj]
      BY <2>4 DEF Failed
    <3>2. \A p \in Objects : p # o => resources'[p] = resources[p]
      BY <2>2, <3>1 DEF Types
    <3>3. resources[o] # None => resources'[o] # None
      BY <2>2, <3>1 DEF Types
    <3> QED BY <2>1, <2>2, <3>1, <3>2, <3>3
  <2>5. CASE AlreadyKnown(g, o, obj)
    BY <2>1, <2>5 DEF AlreadyKnown
  <2> QED BY <2>1, <2>3, <2>4, <2>5
<1>3. ASSUME NEW g \in Gvrs, Delete(g) PROVE PersistInv'
  <2> DEFINE o == Head(todo[g]).o
  <2>1. /\ todo[g] # <<>> /\ persisted' = [persisted EXCEPT ![o] = 0]
        /\ resources' = resources \/ resources' = [resources EXCEPT ![o] = None]
        /\ inherited' = inherited \ {o} /\ gaps \subseteq gaps'
    BY <1>3, DeleteCases
  <2>2. o \in Objects
    BY <2>1, HeadTypes
  <2> HIDE DEF o
  <2> QED BY <2>1, <2>2 DEF Types
<1>4. ASSUME Restart PROVE PersistInv'
  BY <1>4 DEF Restart
<1>5. ASSUME NEW g \in Gvrs, Extract(g) \/ UpsertSecret(g) \/ UpsertEdge(g) \/ Broadcast(g) \/ SkipBadObject(g)
      PROVE  UNCHANGED <<persisted, resources, inherited>> /\ gaps \subseteq gaps'
  BY <1>5, Zenon DEF Extract, UpsertSecret, UpsertEdge, Broadcast, SkipBadObject, store, Gap, ReportUnlessOk
<1> QED BY <1>1, <1>2, <1>3, <1>4, <1>5
        DEF Next, Handler, vars, Write, Erase, Observe, Resync, Synced, store

LEMMA HistoryNext ==
    ASSUME Types, PersistInv, HistoryInv, [Next]_vars
    PROVE  HistoryInv'
<1> USE DEF HistoryInv
<1>1. ASSUME UNCHANGED <<last, resources, inherited>>, gaps \subseteq gaps' PROVE HistoryInv'
  BY <1>1
<1>2. ASSUME NEW g \in Gvrs, UpsertResource(g) PROVE HistoryInv'
  <2> DEFINE o == Head(todo[g]).o
             obj == Head(todo[g]).obj
  <2>1. /\ todo[g] # <<>>
        /\ Worked(g, o, obj) \/ Failed(g, o, obj) \/ AlreadyKnown(g, o, obj)
        /\ inherited' = inherited \ {o}
    BY <1>2, UpsertCases
  <2>2. o \in Objects /\ GvrOf[o] = g /\ obj # None /\ obj.rev \in 1..MaxRev
    BY <2>1, HeadTypes
  <2> HIDE DEF o, obj
  <2>3. CASE Worked(g, o, obj)
    BY <2>1, <2>2, <2>3 DEF Worked, Types
  <2>4. CASE Failed(g, o, obj)
    BY <2>1, <2>2, <2>4 DEF Failed, Types
  <2>5. CASE AlreadyKnown(g, o, obj)
    <3>1. o \notin inherited
      BY <2>2, <2>5 DEF AlreadyKnown, PersistInv
    <3> QED BY <2>1, <2>5, <3>1 DEF AlreadyKnown
  <2> QED BY <2>1, <2>3, <2>4, <2>5
<1>3. ASSUME NEW g \in Gvrs, Delete(g) PROVE HistoryInv'
  <2> DEFINE o == Head(todo[g]).o
  <2>1. /\ todo[g] # <<>> /\ last' = [last EXCEPT ![o] = Deleted]
        /\ \/ resources' = [resources EXCEPT ![o] = None]
           \/ resources' = resources /\ g \in gaps'
        /\ inherited' = inherited \ {o} /\ gaps \subseteq gaps'
    BY <1>3, DeleteCases
  <2>2. o \in Objects /\ GvrOf[o] = g
    BY <2>1, HeadTypes
  <2> HIDE DEF o
  <2> QED BY <2>1, <2>2 DEF Types
<1>4. ASSUME Restart PROVE HistoryInv'
  BY <1>4 DEF Restart, store, Forgotten, Types
<1>5. ASSUME NEW g \in Gvrs, Extract(g) \/ UpsertSecret(g) \/ UpsertEdge(g) \/ Broadcast(g) \/ SkipBadObject(g)
      PROVE  UNCHANGED <<last, resources, inherited>> /\ gaps \subseteq gaps'
  BY <1>5, Zenon DEF Extract, UpsertSecret, UpsertEdge, Broadcast, SkipBadObject, store, sink, Gap, ReportUnlessOk
<1> QED BY <1>1, <1>2, <1>3, <1>4, <1>5, Zenon
        DEF Next, Handler, vars, Write, Erase, Observe, Resync, Synced, store, sink

\* Every change is the business of the handler at work, until its broadcast.
LEMMA DirtyNext ==
    ASSUME Types, HandlerInv, DirtyInv, [Next]_vars
    PROVE  DirtyInv'
<1>1. ASSUME UNCHANGED <<cur, dirty>>, gaps \subseteq gaps' PROVE DirtyInv'
  BY <1>1 DEF DirtyInv
<1>2. ASSUME NEW g \in Gvrs, UpsertResource(g) PROVE DirtyInv'
  <2> DEFINE o == Head(todo[g]).o
             obj == Head(todo[g]).obj
  <2>1. /\ cur[g] = Idle /\ todo[g] # <<>>
        /\ Worked(g, o, obj) \/ Failed(g, o, obj) \/ AlreadyKnown(g, o, obj)
    BY <1>2, UpsertCases
  <2>2. o \in Objects /\ GvrOf[o] = g
    BY <2>1, HeadTypes
  <2> HIDE DEF o, obj
  <2>3. \A p \in dirty : p \in Objects /\ GvrOf[p] \in Gvrs /\ (GvrOf[p] = g => g \in gaps)
    BY <2>1, InformerAssumption DEF DirtyInv, Types
  <2>4. /\ \A h \in Gvrs : h # g => cur'[h] = cur[h]
        /\ gaps \subseteq gaps'
        /\ dirty' = dirty \/ dirty' = dirty \cup {o}
    BY <2>1, Zenon DEF Worked, Failed, AlreadyKnown, Types
  <2>5. o \in dirty' /\ o \notin dirty /\ g \notin gaps' =>
          cur'[g] # Idle /\ cur'[g].o = o /\ cur'[g].pc = "extract" /\ cur'[g].changed
    BY <2>1 DEF Worked, Failed, AlreadyKnown, AtWork, Idle, Types
  <2> QED BY <2>2, <2>3, <2>4, <2>5 DEF DirtyInv
<1>3. ASSUME NEW g \in Gvrs, Extract(g) PROVE DirtyInv'
  <2>1. PICK new \in Writing : /\ cur' = [cur EXCEPT ![g] = new] /\ new.o = cur[g].o
                               /\ cur[g].changed => new.notify
    BY <1>3, ExtractStep, Zenon
  <2>2. new # Idle /\ new.pc = "write" /\ cur[g].pc = "extract" /\ UNCHANGED dirty /\ gaps \subseteq gaps'
    BY <1>3, <2>1 DEF Writing, Idle, Extract, Gap
  <2>3. cur'[g] = new /\ \A h \in Gvrs : h # g => cur'[h] = cur[h]
    BY <2>1 DEF Types
  <2>4. \A p \in dirty : GvrOf[p] \in Gvrs
    BY InformerAssumption DEF Types
  <2>5. \A p \in dirty : GvrOf[p] = g /\ g \notin gaps => p = new.o /\ new.notify
    BY <2>1, <2>2 DEF DirtyInv
  <2> QED BY <2>2, <2>3, <2>4, <2>5 DEF DirtyInv
<1>4. ASSUME NEW g \in Gvrs, UpsertSecret(g) PROVE DirtyInv'
  <2>1. cur[g] \in Writing /\ UNCHANGED dirty /\ gaps \subseteq gaps'
    BY <1>4, HandlerTypes DEF UpsertSecret, ReportUnlessOk
  <2>2. PICK s : cur' = [cur EXCEPT ![g].secs = @ \ {s}]
    BY <1>4, Zenon DEF UpsertSecret
  <2>3. /\ \A h \in Gvrs : h # g => cur'[h] = cur[h]
        /\ cur'[g].o = cur[g].o /\ (cur[g].notify => cur'[g].notify) /\ cur'[g].pc = "write" /\ cur[g].pc = "write"
    BY <2>1, <2>2 DEF Types, Writing
  <2>4. \A p \in dirty : GvrOf[p] \in Gvrs
    BY InformerAssumption DEF Types
  <2>5. cur'[g] # Idle
    BY <2>3 DEF Idle
  <2> QED BY <2>1, <2>3, <2>4, <2>5 DEF DirtyInv
<1>5. ASSUME NEW g \in Gvrs, UpsertEdge(g) PROVE DirtyInv'
  <2>1. /\ cur[g] \in Writing /\ cur[g] # Idle /\ gaps \subseteq gaps'
        /\ dirty' = dirty \/ dirty' = dirty \cup {cur[g].o}
        /\ GvrOf[cur[g].o] = g
    BY <1>5, HandlerTypes DEF UpsertEdge, ReportUnlessOk
  <2>2. PICK e \in cur[g].es : cur' = [cur EXCEPT ![g].es = @ \ {e}]
    BY <1>5, Zenon DEF UpsertEdge
  <2>3. /\ \A h \in Gvrs : h # g => cur'[h] = cur[h]
        /\ cur'[g].o = cur[g].o /\ (cur[g].notify => cur'[g].notify) /\ cur'[g].pc = "write" /\ cur[g].pc = "write"
    BY <2>1, <2>2 DEF Types, Writing
  <2>4. \A p \in dirty : GvrOf[p] \in Gvrs
    BY InformerAssumption DEF Types
  <2>5. cur'[g] # Idle
    BY <2>3 DEF Idle
  <2>6. cur[g].notify
    BY <2>1, <2>2, <2>3 DEF HandlerInv
  <2>7. \A p \in dirty' : GvrOf[p] = g /\ g \notin gaps => p = cur'[g].o
    BY <2>1, <2>3 DEF DirtyInv
  <2>8. \A p \in dirty' : GvrOf[p] # g => p \in dirty
    BY <2>1
  <2>9. cur'[g].notify
    BY <2>3, <2>6
  <2> QED BY <2>1, <2>3, <2>4, <2>5, <2>7, <2>8, <2>9 DEF DirtyInv
<1>6. ASSUME NEW g \in Gvrs, Broadcast(g) PROVE DirtyInv'
  <2>1. /\ cur[g].pc = "write" /\ cur' = [cur EXCEPT ![g] = Idle] /\ UNCHANGED gaps
        /\ dirty' = IF cur[g].notify THEN dirty \ {cur[g].o} ELSE dirty
    BY <1>6 DEF Broadcast
  <2>2. \A p \in dirty : GvrOf[p] \in Gvrs
    BY InformerAssumption DEF Types
  <2>3. \A p \in dirty : GvrOf[p] = g /\ g \notin gaps => p = cur[g].o /\ cur[g].notify
    BY <2>1 DEF DirtyInv
  <2>4. \A h \in Gvrs : h # g => cur'[h] = cur[h]
    BY <2>1 DEF Types
  <2>5. \A p \in dirty' : p \in dirty /\ (GvrOf[p] = g => g \in gaps)
    BY <2>1, <2>3
  <2> QED BY <2>1, <2>2, <2>4, <2>5 DEF DirtyInv
<1>7. ASSUME NEW g \in Gvrs, Delete(g) PROVE DirtyInv'
  <2>1. UNCHANGED cur /\ dirty' \subseteq dirty /\ gaps \subseteq gaps'
    BY <1>7, DeleteCases
  <2> QED BY <2>1 DEF DirtyInv
<1>8. ASSUME Restart PROVE DirtyInv'
  BY <1>8 DEF Restart, DirtyInv
<1> QED BY <1>1, <1>2, <1>3, <1>4, <1>5, <1>6, <1>7, <1>8
        DEF Next, Handler, vars, Write, Erase, Observe, Resync, Synced, SkipBadObject, Gap

LEMMA EdgesNext ==
    ASSUME Types, HandlerInv, EdgesHaveSources, [Next]_vars
    PROVE  EdgesHaveSources'
<1> USE DEF EdgesHaveSources
<1>1. ASSUME UNCHANGED <<resources, edges>> PROVE EdgesHaveSources'
  BY <1>1
<1>2. ASSUME NEW g \in Gvrs, UpsertResource(g) PROVE EdgesHaveSources'
  <2> DEFINE o == Head(todo[g]).o
             obj == Head(todo[g]).obj
  <2>1. /\ todo[g] # <<>> /\ UNCHANGED edges
        /\ Worked(g, o, obj) \/ Failed(g, o, obj) \/ AlreadyKnown(g, o, obj)
    BY <1>2, UpsertCases, Zenon
  <2>2. o \in Objects /\ obj # None
    BY <2>1, HeadTypes
  <2> HIDE DEF o, obj
  <2>3. resources' = resources \/ resources' = [resources EXCEPT ![o] = obj]
    BY <2>1, Zenon DEF Worked, Failed, AlreadyKnown
  <2>4. \A e \in edges : e[1] \in Objects
    BY DEF Types
  <2> QED BY <2>1, <2>2, <2>3, <2>4 DEF Types
<1>3. ASSUME NEW g \in Gvrs, UpsertEdge(g) PROVE EdgesHaveSources'
  <2>1. cur[g] \in Writing /\ resources[cur[g].o] # None /\ UNCHANGED resources
    BY <1>3, HandlerTypes DEF UpsertEdge, HandlerInv
  <2>2. PICK e \in cur[g].es : edges' \subseteq edges \cup {e}
    BY <1>3 DEF UpsertEdge
  <2>3. e[1] = cur[g].o
    BY <2>1, <2>2 DEF Writing
  <2> QED BY <2>1, <2>2, <2>3
<1>4. ASSUME NEW g \in Gvrs, Delete(g) PROVE EdgesHaveSources'
  <2> DEFINE o == Head(todo[g]).o
  <2>1. /\ todo[g] # <<>>
        /\ \/ resources' = [resources EXCEPT ![o] = None] /\ edges' = edges \ Incident(o)
           \/ UNCHANGED <<resources, edges>>
    BY <1>4, DeleteCases
  <2>2. o \in Objects
    BY <2>1, HeadTypes
  <2> HIDE DEF o
  <2>3. \A e \in edges \ Incident(o) : e[1] \in Objects /\ e[1] # o
    BY DEF Types, Incident
  <2> QED BY <2>1, <2>2, <2>3 DEF Types
<1>5. ASSUME Restart PROVE EdgesHaveSources'
  BY <1>5 DEF Restart, store
<1> QED BY <1>1, <1>2, <1>3, <1>4, <1>5, Zenon
        DEF Next, Handler, vars, Write, Erase, Observe, Resync, Synced, SkipBadObject, Extract,
            UpsertSecret, Broadcast, store

\* What the steps of client-go and the handlers do to the queue of an object.
LEMMA QueueType ==
    ASSUME Types, NEW o \in Objects
    PROVE  Queue(o) \in Seq(Notes) /\ GvrOf[o] \in Gvrs /\ Queue(o) = todo[GvrOf[o]]
BY InformerAssumption DEF Types, Queue

LEMMA QueueTake ==
    ASSUME Types, NEW g \in Gvrs, todo[g] # <<>>, Take(g), NEW o \in Objects
    PROVE  IF GvrOf[o] = g
           THEN /\ Queue(o) # <<>> /\ Head(Queue(o)) = Head(todo[g]) /\ Queue(o)' = Tail(Queue(o))
           ELSE Queue(o)' = Queue(o) /\ Head(todo[g]).o # o
<1>1. GvrOf[Head(todo[g]).o] = g
  BY HeadTypes
<1>2. todo'[g] = Tail(todo[g]) /\ \A h \in Gvrs : h # g => todo'[h] = todo[h]
  BY TakeTypes
<1> QED BY <1>1, <1>2, QueueType DEF Queue

LEMMA QueueObserve ==
    ASSUME Types, NEW o \in Objects, NEW n \in Notes, n.o = o,
           todo' = [todo EXCEPT ![GvrOf[o]] = Append(@, n)], NEW p \in Objects
    PROVE  /\ Queue(p)' = Queue(p) \/ Queue(p)' = Append(Queue(p), n)
           /\ p = o => Queue(p)' = Append(Queue(p), n)
BY QueueType, Zenon DEF Queue, Types

LEMMA QueueResync ==
    ASSUME Types, NEW g \in Gvrs, Resync(g), NEW p \in Objects
    PROVE  /\ Queue(p)' \in Seq(Notes)
           /\ \/ Queue(p)' = Queue(p)
              \/ /\ Queue(p) = <<>>
                 /\ \A i \in Places(Queue(p)', p) :
                      Queue(p)'[i].op # "delete" /\ Queue(p)'[i].obj = cache[p] /\ cache[p] # None
<1>1. /\ todo' \in [Gvrs -> Seq(Notes)]
      /\ \A h \in Gvrs : h # g => todo'[h] = todo[h]
      /\ \A i \in 1..Len(todo'[g]) :
           /\ todo'[g][i].op = "update"
           /\ todo'[g][i].obj = cache[todo'[g][i].o] /\ cache[todo'[g][i].o] # None
  BY ResyncQueue
<1>2. todo[g] = <<>>
  BY DEF Resync
<1>3. GvrOf[p] \in Gvrs
  BY InformerAssumption
<1> QED BY <1>1, <1>2, <1>3 DEF Queue, Places

LEMMA EmptyQueue ==
    ASSUME NEW o PROVE Places(<<>>, o) = {} /\ Upserts(<<>>, o) = {}
BY DEF Places, Upserts

-----------------------------------------------------------------------------

LEMMA QueueNext ==
    ASSUME Types, QueueInv, [Next]_vars
    PROVE  QueueInv'
<1>1. ASSUME UNCHANGED <<cache, todo>> PROVE QueueInv'
  BY <1>1 DEF QueueInv, Queue
<1>2. ASSUME NEW o \in Objects, Observe(o) PROVE QueueInv'
  <2>1. PICK n \in Notes :
             /\ n.o = o
             /\ IF api[o] = None THEN n.op = "delete" ELSE n.op # "delete" /\ n.obj = api[o]
             /\ todo' = [todo EXCEPT ![GvrOf[o]] = Append(@, n)]
    BY <1>2, ObserveQueue
  <2>2. cache' = [cache EXCEPT ![o] = api[o]]
    BY <1>2 DEF Observe
  <2> SUFFICES ASSUME NEW p \in Objects PROVE EndsWith(Queue(p)', p, cache'[p])
    BY DEF QueueInv
  <2>3. EndsWith(Queue(p), p, cache[p]) /\ Queue(p) \in Seq(Notes)
    BY QueueType DEF QueueInv
  <2>4. cache'[p] = IF p = o THEN api[o] ELSE cache[p]
    BY <2>2 DEF Types
  <2>5. EndsWith(Append(Queue(p), n), p, cache'[p])
    BY <2>1, <2>3, <2>4, EndsWithAppend
  <2>6. /\ Queue(p)' = Queue(p) \/ Queue(p)' = Append(Queue(p), n)
        /\ p = o => Queue(p)' = Append(Queue(p), n)
    BY <2>1, QueueObserve, Zenon
  <2> QED BY <2>3, <2>4, <2>5, <2>6, Zenon
<1>3. ASSUME NEW g \in Gvrs, Resync(g) PROVE QueueInv'
  <2> SUFFICES ASSUME NEW p \in Objects PROVE EndsWith(Queue(p)', p, cache'[p])
    BY DEF QueueInv
  <2>1. UNCHANGED cache
    BY <1>3 DEF Resync
  <2>2. \/ Queue(p)' = Queue(p)
        \/ \A i \in Places(Queue(p)', p) : Queue(p)'[i].op # "delete" /\ Queue(p)'[i].obj = cache[p]
    BY <1>3, QueueResync
  <2>3. EndsWith(Queue(p), p, cache[p])
    BY DEF QueueInv
  <2> QED BY <2>1, <2>2, <2>3 DEF EndsWith
<1>4. ASSUME NEW g \in Gvrs, todo[g] # <<>>, Take(g), UNCHANGED cache PROVE QueueInv'
  <2> SUFFICES ASSUME NEW p \in Objects PROVE EndsWith(Queue(p)', p, cache'[p])
    BY DEF QueueInv
  <2>1. EndsWith(Queue(p), p, cache[p]) /\ Queue(p) \in Seq(Notes)
    BY QueueType DEF QueueInv
  <2>2. Queue(p)' = Queue(p) \/ (Queue(p) # <<>> /\ Queue(p)' = Tail(Queue(p)))
    BY <1>4, QueueTake
  <2> QED BY <1>4, <2>1, <2>2, EndsWithTail, Zenon
<1>5. ASSUME NEW g \in Gvrs, UpsertResource(g) \/ Delete(g) \/ SkipBadObject(g)
      PROVE  todo[g] # <<>> /\ Take(g) /\ UNCHANGED cache
  BY <1>5, Zenon DEF UpsertResource, Delete, SkipBadObject, Head1
<1>6. ASSUME Restart PROVE QueueInv'
  <2> SUFFICES ASSUME NEW p \in Objects PROVE EndsWith(Queue(p)', p, cache'[p])
    BY DEF QueueInv
  <2>1. Queue(p)' = <<>>
    BY <1>6, InformerAssumption DEF Restart, Queue
  <2> QED BY <2>1, EmptyQueue DEF EndsWith
<1> QED BY <1>1, <1>2, <1>3, <1>4, <1>5, <1>6, Zenon
        DEF Next, Handler, vars, Write, Erase, Synced, Extract, UpsertSecret, UpsertEdge, Broadcast, client

LEMMA RevsNext ==
    ASSUME Types, RevsInv, [Next]_vars
    PROVE  RevsInv'
<1> DEFINE C(p) == Copies(Queue(p), p, api[p], cache[p], resources[p])
<1>1. ASSUME UNCHANGED <<rev, recorded>>, \A p \in Objects : C(p)' \subseteq C(p) PROVE RevsInv'
  BY <1>1 DEF RevsInv, Consistent
<1>2. ASSUME UNCHANGED <<api, rev, cache, todo, resources, recorded>> PROVE RevsInv'
  BY <1>2 DEF RevsInv, Consistent, Copies, Queue
<1>3. \A p \in Objects : \A x \in C(p) : x.rev \in 1..MaxRev /\ x.rev <= rev
  <2> SUFFICES ASSUME NEW p \in Objects, NEW x \in C(p) PROVE x.rev \in 1..MaxRev
    BY DEF RevsInv, Consistent
  <2>1. Queue(p) \in Seq(Notes) /\ {api[p], cache[p], resources[p]} \subseteq Object(p) \cup {None}
    BY QueueType DEF Types
  <2>2. \A i \in Places(Queue(p), p) : Queue(p)[i].obj.rev \in 1..MaxRev
    BY <2>1, QueueTypes DEF Places
  <2> QED BY <2>1, <2>2 DEF Copies, Object
<1>4. ASSUME NEW o \in Objects, Write(o) \/ Erase(o) PROVE RevsInv'
  <2>1. /\ rev' = rev + 1 /\ rev \in Nat /\ UNCHANGED <<cache, todo, resources, recorded>>
        /\ \E x : api' = [api EXCEPT ![o] = x] /\ (x = None \/ x.rev = rev + 1)
    BY <1>4 DEF Write, Erase, Types, client, store, sink
  <2>2. PICK x : api' = [api EXCEPT ![o] = x] /\ (x = None \/ x.rev = rev + 1)
    BY <2>1, Zenon
  <2>3. \A p \in Objects : C(p)' \subseteq C(p) \cup {x}
    BY <2>1, <2>2 DEF Copies, Queue, Types
  <2>4. \A p \in Objects : \A y \in C(p)' : y # None
    BY DEF Copies
  <2>5. \A y \in recorded : y[2] \in Int /\ y[2] <= rev
    BY DEF RevsInv, Types
  <2>6. \A y \in recorded' : y[2] <= rev'
    BY <2>1, <2>5
  <2>7. ASSUME NEW p \in Objects PROVE Consistent(C(p))'
    <3>1. \A y, z \in C(p) : y.rev \in Int /\ y.rev <= rev /\ (y.rev = z.rev => y = z)
      BY <1>3 DEF RevsInv, Consistent
    <3>2. \A y \in C(p)' : y \in C(p) \/ (y = x /\ y.rev = rev + 1)
      BY <2>2, <2>3, <2>4
    <3> HIDE DEF C
    <3>3. \A y, z \in C(p)' : y.rev <= rev + 1 /\ (y.rev = z.rev => y = z)
      BY <2>1, <3>1, <3>2
    <3> QED BY <2>1, <3>3 DEF Consistent
  <2> QED BY <2>6, <2>7 DEF RevsInv
<1>5. ASSUME NEW o \in Objects, Observe(o) PROVE RevsInv'
  <2>1. PICK n \in Notes :
             /\ n.o = o /\ n.obj \in {api[o], cache[o]}
             /\ todo' = [todo EXCEPT ![GvrOf[o]] = Append(@, n)]
    BY <1>5, ObserveQueue
  <2>2. cache' = [cache EXCEPT ![o] = api[o]] /\ UNCHANGED <<api, rev, resources, recorded>>
    BY <1>5 DEF Observe, server, store, sink
  <2>3. ASSUME NEW p \in Objects PROVE C(p)' \subseteq C(p)
    <3>1. /\ Queue(p)' = Queue(p) \/ Queue(p)' = Append(Queue(p), n)
          /\ p = o => Queue(p)' = Append(Queue(p), n)
      BY <2>1, QueueObserve, Zenon
    <3>2. cache'[p] = IF p = o THEN api[p] ELSE cache[p]
      BY <2>2 DEF Types
    <3>3. Queue(p) \in Seq(Notes)
      BY QueueType
    <3>4. Copies(Append(Queue(p), n), p, api[p], cache'[p], resources[p]) \subseteq C(p)
      BY <2>1, <3>2, <3>3, CopiesAppend
    <3> QED BY <2>2, <3>1, <3>2, <3>4, Zenon
  <2> QED BY <1>1, <2>2, <2>3
<1>6. ASSUME NEW g \in Gvrs, Resync(g) PROVE RevsInv'
  <2>1. UNCHANGED <<api, rev, cache, resources, recorded>>
    BY <1>6 DEF Resync, server, store, sink
  <2>2. ASSUME NEW p \in Objects PROVE C(p)' \subseteq C(p)
    <3>1. \/ Queue(p)' = Queue(p)
          \/ \A i \in Places(Queue(p)', p) : Queue(p)'[i].obj = cache[p]
      BY <1>6, QueueResync
    <3> QED BY <2>1, <3>1 DEF Copies
  <2> QED BY <1>1, <2>1, <2>2
<1>7. ASSUME NEW g \in Gvrs, todo[g] # <<>>, Take(g), UNCHANGED <<api, cache>>,
             \/ resources' = resources
             \/ resources' = [resources EXCEPT ![Head(todo[g]).o] = None]
             \/ resources' = [resources EXCEPT ![Head(todo[g]).o] = Head(todo[g]).obj],
             NEW p \in Objects
      PROVE  C(p)' \subseteq C(p)
  <2>1. Queue(p) \in Seq(Notes)
    BY QueueType
  <2>2. IF GvrOf[p] = g
        THEN /\ Queue(p) # <<>> /\ Head(Queue(p)) = Head(todo[g]) /\ Queue(p)' = Tail(Queue(p))
        ELSE Queue(p)' = Queue(p) /\ Head(todo[g]).o # p
    BY <1>7, QueueTake
  <2>3. resources'[p] \in {resources[p], None} \/ (Head(todo[g]).o = p /\ resources'[p] = Head(todo[g]).obj)
    BY <1>7 DEF Types
  <2>4. CASE GvrOf[p] = g
    BY <1>7, <2>1, <2>2, <2>3, <2>4, CopiesTail, Zenon
  <2>5. CASE GvrOf[p] # g
    BY <1>7, <2>2, <2>3, <2>5 DEF Copies
  <2> QED BY <2>4, <2>5
<1>8. ASSUME NEW g \in Gvrs, UpsertResource(g) PROVE RevsInv'
  <2> DEFINE o == Head(todo[g]).o
             obj == Head(todo[g]).obj
  <2>1. /\ todo[g] # <<>> /\ Take(g) /\ UNCHANGED <<api, rev, cache>>
        /\ Worked(g, o, obj) \/ Failed(g, o, obj) \/ AlreadyKnown(g, o, obj)
    BY <1>8, UpsertCases
  <2>2. resources' = resources \/ resources' = [resources EXCEPT ![o] = obj]
    BY <2>1, Zenon DEF Worked, Failed, AlreadyKnown
  <2>3. \A p \in Objects : C(p)' \subseteq C(p)
    BY <1>7, <2>1, <2>2
  <2>4. recorded' \subseteq recorded \cup {<<o, obj.rev>>}
    BY <2>1, Zenon DEF Worked, Failed, AlreadyKnown
  <2>5. obj.rev <= rev
    <3>1. o \in Objects /\ GvrOf[o] = g /\ obj # None
      BY <2>1, HeadTypes
    <3>2. Queue(o) \in Seq(Notes) /\ Queue(o) # <<>> /\ Queue(o) = todo[g]
      BY <2>1, <3>1, QueueType
    <3>3. 1 \in Places(Queue(o), o) /\ Queue(o)[1].obj = obj
      BY <3>2, PlacesTail DEF Places
    <3>4. obj \in C(o)
      BY <3>1, <3>3 DEF Copies
    <3> QED BY <1>3, <3>1, <3>4
  <2>6. \A x \in recorded' : x[2] <= rev
    BY <2>4, <2>5 DEF RevsInv
  <2>7. \A p \in Objects : Consistent(C(p))'
    BY <2>1, <2>3 DEF RevsInv, Consistent
  <2> QED BY <2>1, <2>6, <2>7 DEF RevsInv
<1>9. ASSUME NEW g \in Gvrs, Delete(g) PROVE RevsInv'
  <2>1. /\ todo[g] # <<>> /\ Take(g) /\ UNCHANGED <<api, rev, cache, recorded>>
        /\ resources' = resources \/ resources' = [resources EXCEPT ![Head(todo[g]).o] = None]
    BY <1>9, DeleteCases
  <2> QED BY <1>1, <1>7, <2>1
<1>10. ASSUME NEW g \in Gvrs, SkipBadObject(g) PROVE RevsInv'
  <2>1. /\ todo[g] # <<>> /\ Take(g) /\ UNCHANGED <<api, rev, cache, recorded, resources>>
    BY <1>10 DEF SkipBadObject, server, store, sink
  <2> QED BY <1>1, <1>7, <2>1
<1>11. ASSUME Restart PROVE RevsInv'
  <2>1. /\ UNCHANGED <<api, rev>> /\ recorded' = {}
        /\ \A p \in Objects : cache'[p] = None /\ Queue(p)' = <<>> /\ resources'[p] \in {resources[p], None}
    BY <1>11, InformerAssumption DEF Restart, server, store, Forgotten, Queue
  <2>2. \A p \in Objects : C(p)' \subseteq C(p)
    BY <2>1, EmptyQueue DEF Copies
  <2>3. \A p \in Objects : Consistent(C(p))'
    BY <2>1, <2>2 DEF RevsInv, Consistent
  <2> QED BY <2>1, <2>3 DEF RevsInv
<1> QED BY <1>2, <1>4, <1>5, <1>6, <1>8, <1>9, <1>10, <1>11, Zenon
        DEF Next, Handler, vars, Synced, Extract, UpsertSecret, UpsertEdge, Broadcast,
            server, client, store, sink

LEMMA DriftNext ==
    ASSUME Types, QueueInv, DriftInv, PersistInv, RevsInv, [Next]_vars
    PROVE  DriftInv'
<1>1. ASSUME UNCHANGED <<todo, cache, resources, inherited>>, gaps \subseteq gaps' PROVE DriftInv'
  BY <1>1 DEF DriftInv, Queue
<1>2. ASSUME NEW o \in Objects, Observe(o) PROVE DriftInv'
  <2>1. PICK n \in Notes : n.o = o /\ todo' = [todo EXCEPT ![GvrOf[o]] = Append(@, n)]
    BY <1>2, ObserveQueue
  <2>2. cache' = [cache EXCEPT ![o] = api[o]] /\ UNCHANGED <<resources, inherited, gaps>>
    BY <1>2 DEF Observe, store
  <2>3. ASSUME NEW p \in Objects, Places(Queue(p)', p) = {} PROVE p # o /\ Places(Queue(p), p) = {}
    <3>1. Queue(p) \in Seq(Notes)
      BY QueueType
    <3>2. /\ Queue(p)' = Queue(p) \/ Queue(p)' = Append(Queue(p), n)
          /\ p = o => Queue(p)' = Append(Queue(p), n)
      BY <2>1, QueueObserve, Zenon
    <3>3. Places(Append(Queue(p), n), p) = Places(Queue(p), p) \cup (IF n.o = p THEN {Len(Queue(p)) + 1} ELSE {})
      BY <3>1, PlacesAppend
    <3> QED BY <2>1, <2>3, <3>2, <3>3, Zenon
  <2> QED BY <2>2, <2>3, Zenon DEF DriftInv, Types
<1>3. ASSUME NEW g \in Gvrs, Resync(g) PROVE DriftInv'
  <2>1. UNCHANGED <<cache, resources, inherited, gaps>>
    BY <1>3 DEF Resync, store
  <2>2. ASSUME NEW p \in Objects, Places(Queue(p)', p) = {} PROVE Places(Queue(p), p) = {}
    <3>1. Queue(p)' = Queue(p) \/ Queue(p) = <<>>
      BY <1>3, QueueResync
    <3> QED BY <2>2, <3>1, EmptyQueue
  <2> QED BY <2>1, <2>2 DEF DriftInv
<1>4. ASSUME NEW g \in Gvrs, todo[g] # <<>>, Take(g), NEW p \in Objects, Places(Queue(p)', p) = {}
      PROVE  IF Head(todo[g]).o = p
             THEN cache[p] = IF Head(todo[g]).op = "delete" THEN None ELSE Head(todo[g]).obj
             ELSE Places(Queue(p), p) = {}
  <2>1. EndsWith(Queue(p), p, cache[p]) /\ Queue(p) \in Seq(Notes)
    BY QueueType DEF QueueInv
  <2>2. IF GvrOf[p] = g
        THEN /\ Queue(p) # <<>> /\ Head(Queue(p)) = Head(todo[g]) /\ Queue(p)' = Tail(Queue(p))
        ELSE Queue(p)' = Queue(p) /\ Head(todo[g]).o # p
    BY <1>4, QueueTake
  <2> QED BY <1>4, <2>1, <2>2, EndsWithTail, Zenon
<1>5. ASSUME NEW g \in Gvrs, UpsertResource(g) PROVE DriftInv'
  <2> DEFINE o == Head(todo[g]).o
             obj == Head(todo[g]).obj
  <2>1. /\ todo[g] # <<>> /\ Take(g) /\ Head(todo[g]).op # "delete" /\ UNCHANGED cache
        /\ Worked(g, o, obj) \/ Failed(g, o, obj) \/ AlreadyKnown(g, o, obj)
        /\ inherited' = inherited \ {o}
    BY <1>5, UpsertCases
  <2>2. o \in Objects /\ GvrOf[o] = g /\ obj # None /\ obj.rev \in 1..MaxRev
    BY <2>1, HeadTypes
  <2> SUFFICES ASSUME NEW p \in Objects, Places(Queue(p)', p) = {}, GvrOf[p] \notin gaps'
               PROVE  resources'[p] = cache'[p] \/ (p \in inherited' /\ cache'[p] = None)
    BY DEF DriftInv
  <2>3. IF o = p THEN cache[p] = obj ELSE Places(Queue(p), p) = {}
    BY <1>4, <2>1
  <2>4. g \notin gaps' => resources'[o] = obj
    <3>1. CASE Worked(g, o, obj)
      BY <2>2, <3>1 DEF Worked, Types
    <3>2. CASE Failed(g, o, obj)
      BY <3>2 DEF Failed
    <3>3. CASE AlreadyKnown(g, o, obj)
      <4>1. Queue(o) \in Seq(Notes) /\ Queue(o) # <<>> /\ Queue(o) = todo[g]
        BY <2>1, <2>2, QueueType
      <4>2. 1 \in Places(Queue(o), o) /\ Queue(o)[1].obj = obj
        BY <4>1, PlacesTail DEF Places
      <4>3. resources[o] # None /\ (g \notin gaps => resources[o].rev = obj.rev)
        BY <2>2, <3>3 DEF AlreadyKnown, PersistInv
      <4>4. {obj, resources[o]} \subseteq Copies(Queue(o), o, api[o], cache[o], resources[o])
        BY <2>2, <4>2, <4>3 DEF Copies
      <4>5. g \notin gaps => resources[o] = obj
        BY <2>2, <4>3, <4>4 DEF RevsInv, Consistent
      <4> QED BY <3>3, <4>5 DEF AlreadyKnown
    <3> QED BY <2>1, <3>1, <3>2, <3>3
  <2>5. gaps \subseteq gaps'
    BY <2>1, Zenon DEF Worked, Failed, AlreadyKnown
  <2>6. p # o => resources'[p] = resources[p]
    <3>1. resources' = resources \/ resources' = [resources EXCEPT ![o] = obj]
      BY <2>1, Zenon DEF Worked, Failed, AlreadyKnown
    <3> QED BY <3>1 DEF Types
  <2> HIDE DEF o, obj
  <2>7. CASE p = o
    BY <2>1, <2>2, <2>3, <2>4, <2>7
  <2>8. CASE p # o
    <3>1. resources[p] = cache[p] \/ (p \in inherited /\ cache[p] = None)
      BY <2>3, <2>5, <2>8 DEF DriftInv
    <3> QED BY <2>1, <2>6, <2>8, <3>1
  <2> QED BY <2>7, <2>8
<1>6. ASSUME NEW g \in Gvrs, Delete(g) PROVE DriftInv'
  <2> DEFINE o == Head(todo[g]).o
  <2>1. /\ todo[g] # <<>> /\ Take(g) /\ Head(todo[g]).op = "delete" /\ UNCHANGED cache
        /\ \/ resources' = [resources EXCEPT ![o] = None]
           \/ UNCHANGED resources /\ g \in gaps'
        /\ gaps \subseteq gaps' /\ inherited' = inherited \ {o}
    BY <1>6, DeleteCases
  <2>2. o \in Objects /\ GvrOf[o] = g
    BY <2>1, HeadTypes
  <2> SUFFICES ASSUME NEW p \in Objects, Places(Queue(p)', p) = {}, GvrOf[p] \notin gaps'
               PROVE  resources'[p] = cache'[p] \/ (p \in inherited' /\ cache'[p] = None)
    BY DEF DriftInv
  <2>3. IF o = p THEN cache[p] = None ELSE Places(Queue(p), p) = {}
    BY <1>4, <2>1
  <2> HIDE DEF o
  <2>4. /\ g \notin gaps' => resources'[o] = None
        /\ p # o => resources'[p] = resources[p]
    BY <2>1, <2>2 DEF Types
  <2>5. CASE p = o
    BY <2>1, <2>2, <2>3, <2>4, <2>5
  <2>6. CASE p # o
    <3>1. resources[p] = cache[p] \/ (p \in inherited /\ cache[p] = None)
      BY <2>1, <2>3, <2>6 DEF DriftInv
    <3> QED BY <2>1, <2>4, <2>6, <3>1
  <2> QED BY <2>5, <2>6
<1>7. ASSUME NEW g \in Gvrs, SkipBadObject(g) PROVE DriftInv'
  <2>1. /\ todo[g] # <<>> /\ Take(g) /\ gaps' = gaps \cup {g} /\ UNCHANGED <<cache, resources, inherited>>
    BY <1>7 DEF SkipBadObject, Gap, store
  <2>2. ASSUME NEW p \in Objects, GvrOf[p] # g PROVE Queue(p)' = Queue(p)
    BY <2>1, <2>2, QueueTake
  <2> QED BY <2>1, <2>2 DEF DriftInv
<1>8. ASSUME Restart PROVE DriftInv'
  BY <1>8 DEF Restart, DriftInv, Forgotten
<1>9. ASSUME NEW g \in Gvrs, Extract(g) \/ UpsertSecret(g) \/ UpsertEdge(g) \/ Broadcast(g)
      PROVE  UNCHANGED <<todo, cache, resources, inherited>> /\ gaps \subseteq gaps'
  BY <1>9, Zenon DEF Extract, UpsertSecret, UpsertEdge, Broadcast, Gap, ReportUnlessOk, client, store
<1> QED BY <1>1, <1>2, <1>3, <1>5, <1>6, <1>7, <1>8, <1>9
        DEF Next, Handler, vars, Write, Erase, Synced, client, store

LEMMA OrderNext ==
    ASSUME Types, OrderInv, RevsInv, [Next]_vars
    PROVE  OrderInv'
<1> DEFINE Ok(p) == Ordered(Queue(p), p, api[p], cache[p], Recorded(p), persisted[p])
<1> SUFFICES ASSUME NEW p \in Objects \cap Versioned PROVE Ok(p)'
  BY DEF OrderInv
<1>1. Ok(p)
  BY DEF OrderInv
<1>2. ASSUME UNCHANGED <<Queue(p), api[p], cache[p], recorded, persisted>> PROVE Ok(p)'
  BY <1>1, <1>2 DEF Recorded
<1>3. /\ Queue(p) \in Seq(Notes) /\ Recorded(p) \in SUBSET (1..MaxRev)
      /\ api[p] # None => api[p].rev \in Int
      /\ cache[p] # None => cache[p].rev \in Int
  <2>1. Queue(p) \in Seq(Notes) /\ Recorded(p) \in SUBSET (1..MaxRev)
    BY QueueType DEF Recorded
  <2>2. api[p] \in Object(p) \cup {None} /\ cache[p] \in Object(p) \cup {None}
    BY DEF Types
  <2>3. \A x \in Object(p) : x.rev \in Int
    BY DEF Object
  <2> QED BY <2>1, <2>2, <2>3
<1>4. ASSUME NEW o \in Objects, Write(o) \/ Erase(o) PROVE Ok(p)'
  <2>1. /\ UNCHANGED <<cache, todo, recorded, persisted>> /\ rev \in Int
        /\ \E x : api' = [api EXCEPT ![o] = x] /\ (x = None \/ x.rev = rev + 1)
    BY <1>4 DEF Write, Erase, Types, client, sink
  <2>2. PICK x : api' = [api EXCEPT ![o] = x] /\ (x = None \/ x.rev = rev + 1)
    BY <2>1, Zenon
  <2>3. UNCHANGED <<Queue(p), Recorded(p), cache[p], persisted[p]>>
    BY <2>1 DEF Queue, Recorded
  <2>4. CASE o # p
    <3>1. api'[p] = api[p]
      BY <2>2, <2>4 DEF Types
    <3> QED BY <1>1, <2>3, <3>1
  <2>5. CASE o = p
    <3>1. api'[p] = x
      BY <2>2, <2>5 DEF Types
    <3>2. \A i \in Upserts(Queue(p), p) : Queue(p)[i].obj.rev \in Int /\ Queue(p)[i].obj.rev <= rev
      <4>1. \A i \in Upserts(Queue(p), p) :
              /\ Queue(p)[i].obj.rev \in Int
              /\ Queue(p)[i].obj \in Copies(Queue(p), p, api[p], cache[p], resources[p])
        BY <1>3, QueueTypes DEF Upserts, Places, Copies
      <4> QED BY <4>1 DEF RevsInv, Consistent
    <3>3. \A r \in Recorded(p) : r \in Int /\ r <= rev
      BY DEF Recorded, RevsInv
    <3>4. cache[p] # None => cache[p].rev <= rev
      BY DEF RevsInv, Consistent, Copies
    <3> HIDE DEF Ok
    <3>5. Ordered(Queue(p), p, x, cache[p], Recorded(p), persisted[p])
      <4>1. x # None =>
              /\ \A i \in Upserts(Queue(p), p) : Queue(p)[i].obj.rev < x.rev
              /\ \A r \in Recorded(p) : r < x.rev
              /\ cache[p] # None => cache[p].rev < x.rev
        BY <1>3, <2>1, <2>2, <3>2, <3>3, <3>4
      <4> QED BY <1>1, <4>1 DEF Ok, Ordered
    <3> QED BY <2>3, <3>1, <3>5 DEF Ok
  <2> QED BY <2>4, <2>5
<1>5. ASSUME NEW o \in Objects, Observe(o) PROVE Ok(p)'
  <2>1. PICK n \in Notes :
             /\ n.o = o
             /\ IF api[o] = None THEN n.op = "delete" ELSE n.op # "delete" /\ n.obj = api[o]
             /\ todo' = [todo EXCEPT ![GvrOf[o]] = Append(@, n)]
    BY <1>5, ObserveQueue
  <2>2. /\ cache[o] # api[o] /\ cache' = [cache EXCEPT ![o] = api[o]]
        /\ UNCHANGED <<api, recorded, persisted>>
    BY <1>5 DEF Observe, server, sink
  <2>3. UNCHANGED <<Recorded(p), api[p], persisted[p]>> /\ cache'[p] = IF p = o THEN api[p] ELSE cache[p]
    BY <2>2 DEF Recorded, Types
  <2>4. /\ Queue(p)' = Queue(p) \/ Queue(p)' = Append(Queue(p), n)
        /\ p = o => Queue(p)' = Append(Queue(p), n)
    BY <2>1, QueueObserve, Zenon
  <2>5. CASE p = o
    <3>1. Ordered(Append(Queue(p), n), p, api[p], api[p], Recorded(p), persisted[p])
      BY <1>1, <1>3, <2>1, <2>2, <2>5, OrderedObserve, Zenon
    <3> QED BY <2>3, <2>4, <2>5, <3>1, Zenon
  <2>6. CASE p # o
    <3>1. Ordered(Append(Queue(p), n), p, api[p], cache[p], Recorded(p), persisted[p])
      BY <1>1, <1>3, <2>1, <2>6, OrderedAppendOther
    <3> QED BY <1>1, <2>3, <2>4, <2>6, <3>1, Zenon
  <2> QED BY <2>5, <2>6, Zenon
<1>6. ASSUME NEW g \in Gvrs, Resync(g) PROVE Ok(p)'
  <2>1. UNCHANGED <<api, cache, recorded, persisted>>
    BY <1>6 DEF Resync, server, sink
  <2>2. /\ Queue(p)' \in Seq(Notes)
        /\ \/ Queue(p)' = Queue(p)
           \/ /\ Queue(p) = <<>>
              /\ \A i \in Places(Queue(p)', p) :
                   Queue(p)'[i].op # "delete" /\ Queue(p)'[i].obj = cache[p] /\ cache[p] # None
    BY <1>6, QueueResync
  <2>3. CASE Queue(p)' = Queue(p)
    BY <1>2, <2>1, <2>3
  <2>4. CASE Queue(p) = <<>> /\ Queue(p)' # Queue(p)
    <3>1. Ordered(Queue(p)', p, api[p], cache[p], Recorded(p), persisted[p])
      BY <1>1, <1>3, <2>2, <2>4, OrderedResync
    <3>2. UNCHANGED <<Recorded(p), api[p], cache[p], persisted[p]>>
      BY <2>1 DEF Recorded
    <3> QED BY <3>1, <3>2
  <2> QED BY <2>2, <2>3, <2>4
<1>7. ASSUME NEW g \in Gvrs, todo[g] # <<>>, Take(g), UNCHANGED <<api, cache>>,
             \/ UNCHANGED <<recorded, persisted>>
             \/ /\ Head(todo[g]).op = "delete" /\ UNCHANGED recorded
                /\ persisted' = [persisted EXCEPT ![Head(todo[g]).o] = 0]
             \/ /\ Head(todo[g]).op # "delete"
                /\ recorded' = recorded \cup {<<Head(todo[g]).o, Head(todo[g]).obj.rev>>}
                /\ persisted' = [persisted EXCEPT ![Head(todo[g]).o] =
                                   IF Head(todo[g]).o \in Versioned THEN Head(todo[g]).obj.rev ELSE 0]
      PROVE  Ok(p)'
  <2> DEFINE h == Head(todo[g])
  <2>1. IF GvrOf[p] = g
        THEN /\ Queue(p) # <<>> /\ Head(Queue(p)) = h /\ Queue(p)' = Tail(Queue(p))
        ELSE Queue(p)' = Queue(p) /\ h.o # p
    BY <1>7, QueueTake
  <2>2. h.o \in Objects /\ h.obj.rev \in 1..MaxRev
    BY <1>7, HeadTypes
  <2>3. UNCHANGED <<api[p], cache[p]>>
    BY <1>7
  <2> HIDE DEF h
  <2>4. CASE h.o # p
    <3>1. UNCHANGED <<Recorded(p), persisted[p]>>
      BY <1>7, <2>2, <2>4 DEF Recorded, Types, h
    <3>2. CASE GvrOf[p] = g
      <4>1. Ordered(Tail(Queue(p)), p, api[p], cache[p], Recorded(p), persisted[p])
        BY <1>1, <1>3, <2>1, <2>4, <3>2, OrderedTailOther
      <4> QED BY <2>1, <2>3, <3>1, <3>2, <4>1, Zenon
    <3>3. CASE GvrOf[p] # g
      BY <1>1, <2>1, <2>3, <3>1, <3>3
    <3> QED BY <3>2, <3>3
  <2>5. CASE h.o = p
    <3>1. Queue(p) # <<>> /\ Head(Queue(p)) = h /\ Queue(p)' = Tail(Queue(p))
      BY <2>1, <2>5
    <3>2. \/ Recorded(p)' = Recorded(p) /\ persisted'[p] = persisted[p]
          \/ h.op = "delete" /\ Recorded(p)' = Recorded(p)
          \/ h.op # "delete" /\ Recorded(p)' = Recorded(p) \cup {h.obj.rev} /\ persisted'[p] = h.obj.rev
      <4>1. CASE UNCHANGED <<recorded, persisted>>
        BY <4>1 DEF Recorded
      <4>2. CASE h.op = "delete" /\ UNCHANGED recorded
        BY <4>2 DEF Recorded
      <4>3. CASE /\ h.op # "delete" /\ recorded' = recorded \cup {<<h.o, h.obj.rev>>}
                 /\ persisted' = [persisted EXCEPT ![h.o] = IF h.o \in Versioned THEN h.obj.rev ELSE 0]
        BY <2>2, <2>5, <4>3 DEF Recorded, Types
      <4> QED BY <1>7, <4>1, <4>2, <4>3 DEF h
    <3>3. Ordered(Tail(Queue(p)), p, api[p], cache[p], Recorded(p)', persisted'[p])
      BY <1>1, <1>3, <2>5, <3>1, <3>2, OrderedTake, Zenon
    <3> QED BY <2>3, <3>1, <3>3
  <2> QED BY <2>4, <2>5
<1>8. ASSUME NEW g \in Gvrs, UpsertResource(g) PROVE Ok(p)'
  <2> DEFINE o == Head(todo[g]).o
             obj == Head(todo[g]).obj
  <2>1. /\ todo[g] # <<>> /\ Take(g) /\ UNCHANGED <<api, cache>> /\ Head(todo[g]).op # "delete"
        /\ Worked(g, o, obj) \/ Failed(g, o, obj) \/ AlreadyKnown(g, o, obj)
    BY <1>8, UpsertCases, Zenon
  <2> HIDE DEF Ok
  <2> QED BY <1>7, <2>1, Zenon DEF Worked, Failed, AlreadyKnown
<1>9. ASSUME NEW g \in Gvrs, Delete(g) PROVE Ok(p)'
  <2>1. /\ todo[g] # <<>> /\ Take(g) /\ UNCHANGED <<api, cache, recorded>> /\ Head(todo[g]).op = "delete"
        /\ persisted' = [persisted EXCEPT ![Head(todo[g]).o] = 0]
    BY <1>9, DeleteCases, Zenon
  <2> HIDE DEF Ok
  <2> QED BY <1>7, <2>1, Zenon
<1>10. ASSUME NEW g \in Gvrs, SkipBadObject(g) PROVE Ok(p)'
  <2>1. todo[g] # <<>> /\ Take(g) /\ UNCHANGED <<api, cache, recorded, persisted>>
    BY <1>10 DEF SkipBadObject, server, sink
  <2> HIDE DEF Ok
  <2> QED BY <1>7, <2>1
<1>11. ASSUME Restart PROVE Ok(p)'
  <2>1. recorded' = {} /\ cache'[p] = None /\ Queue(p)' = <<>>
    BY <1>11, InformerAssumption, Zenon DEF Restart, Forgotten, Queue
  <2>2. Recorded(p)' = {}
    BY <2>1 DEF Recorded
  <2> QED BY <2>1, <2>2, EmptyQueue DEF Ordered
<1>12. ASSUME UNCHANGED <<api, cache, todo, recorded, persisted>> PROVE Ok(p)'
  BY <1>2, <1>12 DEF Queue
<1> HIDE DEF Ok
<1> QED BY <1>4, <1>5, <1>6, <1>8, <1>9, <1>10, <1>11, <1>12, Zenon
        DEF Next, Handler, vars, Synced, Extract, UpsertSecret, UpsertEdge, Broadcast,
            server, client, sink

LEMMA DuplicateNext ==
    ASSUME Types, OrderInv, NoDuplicateHistory, [Next]_vars
    PROVE  NoDuplicateHistory'
<1> USE DEF NoDuplicateHistory
<1>1. ASSUME NEW g \in Gvrs, UpsertResource(g) PROVE NoDuplicateHistory'
  <2> DEFINE o == Head(todo[g]).o
             obj == Head(todo[g]).obj
  <2>1. /\ todo[g] # <<>> /\ Head(todo[g]).op # "delete"
        /\ Worked(g, o, obj) \/ Failed(g, o, obj) \/ AlreadyKnown(g, o, obj)
    BY <1>1, UpsertCases
  <2>2. o \in Objects /\ GvrOf[o] = g /\ obj.rev \in 1..MaxRev
    BY <2>1, HeadTypes
  <2>3. CASE UNCHANGED duplicated
    BY <2>3
  <2>4. CASE Worked(g, o, obj) /\ duplicated' # duplicated
    <3>1. <<o, obj.rev>> \in recorded /\ duplicated' = duplicated \cup {o} /\ Changed(o, obj)
      BY <2>4 DEF Worked
    <3>2. ASSUME o \in Versioned PROVE FALSE
      <4>1. persisted[o] # obj.rev /\ obj.rev \in Recorded(o)
        BY <2>2, <3>1, <3>2 DEF Changed, Recorded
      <4>2. Queue(o) \in Seq(Notes) /\ Queue(o) # <<>> /\ Queue(o) = todo[g]
        BY <2>1, <2>2, QueueType
      <4>3. 1 \in Upserts(Queue(o), o) /\ Queue(o)[1].obj = obj
        BY <2>1, <4>2, PlacesTail DEF Places, Upserts
      <4>4. Ordered(Queue(o), o, api[o], cache[o], Recorded(o), persisted[o])
        BY <2>2, <3>2 DEF OrderInv
      <4>5. Precedes(obj.rev, Queue(o)[1].obj.rev, DeletedBetween(Queue(o), o, 0, 1) \/ persisted[o] # obj.rev)
        BY <4>1, <4>3, <4>4, Zenon DEF Ordered
      <4> QED BY <4>1, <4>3, <4>5 DEF Precedes
    <3> QED BY <3>1, <3>2
  <2> QED BY <2>1, <2>3, <2>4, Zenon DEF Failed, AlreadyKnown
<1>2. ASSUME NEW g \in Gvrs, Delete(g) PROVE NoDuplicateHistory'
  BY <1>2 DEF Delete, RecordDelete
<1>3. ASSUME Restart PROVE NoDuplicateHistory'
  BY <1>3 DEF Restart
<1>4. ASSUME UNCHANGED duplicated PROVE NoDuplicateHistory'
  BY <1>4
<1> QED BY <1>1, <1>2, <1>3, <1>4, Zenon
        DEF Next, Handler, vars, Write, Erase, Observe, Resync, Synced, SkipBadObject, Extract,
            UpsertSecret, UpsertEdge, Broadcast, sink

-----------------------------------------------------------------------------
(* The theorems. *)

LEMMA InitInv == Init => InformerInv
<1> SUFFICES ASSUME Init PROVE InformerInv
  OBVIOUS
<1>1. Types
  BY InitTypes
<1>2. \A o \in Objects : /\ api[o] = None /\ cache[o] = None /\ resources[o] = None
                         /\ persisted[o] = 0 /\ last[o] = Unrecorded /\ Queue(o) = <<>>
  BY InformerAssumption DEF Init, Forgotten, Queue
<1>3. HandlerInv /\ DirtyInv /\ PersistInv /\ HistoryInv
  BY <1>2 DEF Init, HandlerInv, DirtyInv, PersistInv, HistoryInv
<1>4. QueueInv /\ DriftInv
  BY <1>2, EmptyQueue DEF QueueInv, DriftInv, EndsWith
<1>5. RevsInv
  BY <1>2, EmptyQueue DEF Init, RevsInv, Consistent, Copies
<1>6. OrderInv
  <2>1. \A o \in Objects : Recorded(o) = {}
    BY DEF Init, Recorded
  <2> QED BY <1>2, <2>1, EmptyQueue DEF OrderInv, Ordered
<1>7. EdgesHaveSources /\ NoDuplicateHistory
  BY DEF Init, EdgesHaveSources, NoDuplicateHistory
<1> QED BY <1>1, <1>3, <1>4, <1>5, <1>6, <1>7 DEF InformerInv

LEMMA InvNext == InformerInv /\ [Next]_vars => InformerInv'
BY TypesNext, HandlerNext, DirtyNext, PersistNext, HistoryNext, QueueNext, DriftNext, RevsNext,
   OrderNext, EdgesNext, DuplicateNext DEF InformerInv

\* The inductive invariant holds of every behaviour, with any failures of the
\* store and any restarts.
THEOREM InformerInvariant == Spec => []InformerInv
BY InitInv, InvNext, PTL DEF Spec

\* What handleUpsert and handleDelete leave in the graph: once a type's
\* notifications are handled, every row is what the cache holds, or the type has
\* a recorded gap; and no edge leaves a resource that is not stored.
THEOREM GraphIsSound == Spec => []GraphSound
<1>1. InformerInv => GraphSound
  <2> SUFFICES ASSUME InformerInv PROVE GraphSound
    OBVIOUS
  <2>1. Types /\ EdgesHaveSources /\ DriftInv
    BY DEF InformerInv
  <2>2. \A g \in Gvrs : cur[g].pc \in {"idle", "extract", "write"}
    BY <2>1, HandlerTypes
  <2>3. TypeOK
    BY <2>1, <2>2 DEF Types, TypeOK
  <2>4. DriftHasGap
    <3> SUFFICES ASSUME NEW g \in Gvrs, Handled(g), g \notin gaps, NEW o \in Of(g)
                 PROVE  resources[o] = cache[o] \/ (o \in inherited /\ cache[o] = None)
      BY DEF DriftHasGap
    <3>1. o \in Objects /\ GvrOf[o] = g /\ Queue(o) = <<>>
      BY DEF Of, Handled, Queue
    <3> QED BY <2>1, <3>1, EmptyQueue DEF DriftInv
  <2> QED BY <2>1, <2>3, <2>4 DEF GraphSound
<1> QED BY <1>1, InformerInvariant, PTL

\* What they tell of it: the history ends with what the graph holds and has no
\* revision of a versioned object twice, and a change that no broadcast has
\* followed belongs to a handler at work or to a gap.
THEOREM ChangesAreRecorded == Spec => []ChangesRecorded
<1>1. InformerInv => ChangesRecorded
  <2> SUFFICES ASSUME InformerInv PROVE ChangesRecorded
    OBVIOUS
  <2>1. HistoryInv /\ DirtyInv /\ NoDuplicateHistory
    BY DEF InformerInv
  <2>2. HistoryMatchesGraph
    BY <2>1 DEF HistoryMatchesGraph, HistoryInv, Of, Deleted, Unrecorded
  <2>3. ChangesAnnounced
    BY <2>1 DEF ChangesAnnounced, DirtyInv
  <2> QED BY <2>1, <2>2, <2>3 DEF ChangesRecorded
<1> QED BY <1>1, InformerInvariant, PTL
=============================================================================
