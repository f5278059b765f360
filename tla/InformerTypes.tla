---------------------------- MODULE InformerTypes ---------------------------
(***************************************************************************)
(* What InformerProofs rests on: the inductive invariant of Informer, the  *)
(* lemmas about queues of notifications, what each step does to the queue  *)
(* and the row of an object, and that every step keeps the types.          *)
(***************************************************************************)
EXTENDS Informer, TLAPS

\* Objects with their revisions, what is queued about them, and what a handler
\* may be doing.
Objs == UNION {Object(o) : o \in Objects}
Notes == {n \in [op : {"add", "update", "delete"}, o : Objects, obj : Objs] : n.obj \in Object(n.o)}
Extracting ==
    {c \in [pc : {"extract"}, o : Objects, obj : Objs, changed : BOOLEAN] : c.obj \in Object(c.o)}
Writing ==
    {c \in [pc : {"write"}, o : Objects, notify : BOOLEAN, secs : SUBSET SecretIds,
            es : SUBSET (Objects \X Ids)] : c.es \subseteq {c.o} \X Ids}

Types ==
    /\ rev \in 0..MaxRev
    /\ api \in [Objects -> Objs \cup {None}] /\ \A o \in Objects : api[o] \in Object(o) \cup {None}
    /\ cache \in [Objects -> Objs \cup {None}] /\ \A o \in Objects : cache[o] \in Object(o) \cup {None}
    /\ resources \in [Objects -> Objs \cup {None}]
    /\ \A o \in Objects : resources[o] \in Object(o) \cup {None}
    /\ todo \in [Gvrs -> Seq(Notes)]
    /\ \A g \in Gvrs : \A i \in 1..Len(todo[g]) : GvrOf[todo[g][i].o] = g
    /\ cur \in [Gvrs -> {Idle} \cup Extracting \cup Writing]
    /\ \A g \in Gvrs : cur[g] # Idle => GvrOf[cur[g].o] = g
    /\ persisted \in [Objects -> 0..MaxRev] /\ last \in [Objects -> Deleted..MaxRev]
    /\ secrets \subseteq SecretIds /\ edges \subseteq Objects \X Ids
    /\ recorded \subseteq Objects \X (1..MaxRev)
    /\ duplicated \subseteq Objects /\ dirty \subseteq Objects /\ gaps \subseteq Gvrs
    /\ ready \in BOOLEAN /\ restarts \in 0..MaxRestarts
    /\ persistent \in Persistence /\ inherited \subseteq Objects

\* While the handler of a type is at work on an object, its row is there: only
\* that handler deletes it.  A handler that writes an edge will broadcast.
HandlerInv ==
    \A g \in Gvrs : cur[g] # Idle =>
        /\ resources[cur[g].o] # None
        /\ cur[g].pc = "write" /\ cur[g].es # {} => cur[g].notify

\* Without a gap, a change that was not announced is the one at work.
DirtyInv ==
    \A o \in dirty : GvrOf[o] \notin gaps =>
        LET c == cur[GvrOf[o]] IN
        c # Idle /\ c.o = o /\ (c.pc = "extract" => c.changed) /\ (c.pc = "write" => c.notify)

\* A remembered revision was stored by this process and is stored still, but for
\* writes that took effect and failed.
PersistInv ==
    \A o \in Objects : persisted[o] # 0 =>
        /\ resources[o] # None /\ o \notin inherited
        /\ GvrOf[o] \notin gaps => resources[o].rev = persisted[o]

\* The history of a row that this process has handled ends with it.
HistoryInv ==
    \A o \in Objects :
        /\ resources[o] = None => last[o] \in {Unrecorded, Deleted}
        /\ resources[o] # None /\ o \notin inherited /\ GvrOf[o] \notin gaps => last[o] = resources[o].rev

-----------------------------------------------------------------------------
(* What a queue q of notifications says about an object o. *)

Places(q, o) == {i \in 1..Len(q) : q[i].o = o}
Upserts(q, o) == {i \in Places(q, o) : q[i].op # "delete"}
DeletedBetween(q, o, i, j) == \E k \in Places(q, o) : i < k /\ k < j /\ q[k].op = "delete"

\* The last notification about an object is what the cache, with c, holds.
EndsWith(q, o, c) ==
    \A i \in Places(q, o) : (\A j \in Places(q, o) : j <= i) =>
        c = IF q[i].op = "delete" THEN None ELSE q[i].obj

\* Revisions come in order: r is at most s, and not s if something is between.
Precedes(r, s, between) == r <= s /\ (between => r # s)

\* In order are the revisions in the queue, those recorded before it, R, of which
\* only p can come again, that of the cache after it, c, and, if there is news,
\* that of the server, a.
Ordered(q, o, a, c, R, p) ==
    /\ \A i, j \in Upserts(q, o) : i < j =>
          Precedes(q[i].obj.rev, q[j].obj.rev, DeletedBetween(q, o, i, j))
    /\ \A j \in Upserts(q, o), r \in R :
          Precedes(r, q[j].obj.rev, DeletedBetween(q, o, 0, j) \/ p # r)
    /\ c # None =>
          /\ \A i \in Upserts(q, o) :
                Precedes(q[i].obj.rev, c.rev, DeletedBetween(q, o, i, Len(q) + 1))
          /\ \A r \in R : Precedes(r, c.rev, DeletedBetween(q, o, 0, Len(q) + 1) \/ p # r)
    /\ a # None /\ a # c =>
          /\ \A i \in Upserts(q, o) : q[i].obj.rev < a.rev
          /\ \A r \in R : r < a.rev
          /\ c # None => c.rev < a.rev

\* A revision of an object means one body, wherever it is kept.
Copies(q, o, a, c, s) ==
    {x \in {a, c, s} \cup {q[i].obj : i \in Places(q, o)} : x # None}
Consistent(S) == \A x, y \in S : x.rev <= rev /\ (x.rev = y.rev => x = y)

Queue(o) == todo[GvrOf[o]]
Recorded(o) == {r \in 1..MaxRev : <<o, r>> \in recorded}

QueueInv == \A o \in Objects : EndsWith(Queue(o), o, cache[o])

\* With nothing queued and no gap, the row is what the cache holds.
DriftInv ==
    \A o \in Objects : Places(Queue(o), o) = {} /\ GvrOf[o] \notin gaps =>
        resources[o] = cache[o] \/ (o \in inherited /\ cache[o] = None)

RevsInv ==
    /\ \A o \in Objects : Consistent(Copies(Queue(o), o, api[o], cache[o], resources[o]))
    /\ \A x \in recorded : x[2] <= rev

\* Only a versioned object's revision is remembered, so only there is it kept
\* from the history.
OrderInv ==
    \A o \in Objects \cap Versioned :
        Ordered(Queue(o), o, api[o], cache[o], Recorded(o), persisted[o])

InformerInv ==
    /\ Types /\ HandlerInv /\ DirtyInv /\ PersistInv /\ HistoryInv
    /\ QueueInv /\ DriftInv /\ RevsInv /\ OrderInv
    /\ EdgesHaveSources /\ NoDuplicateHistory

-----------------------------------------------------------------------------
(* Lemmas about queues. *)

LEMMA NoteTypes ==
    ASSUME NEW n \in Notes
    PROVE  /\ n.o \in Objects /\ n.obj \in Object(n.o) /\ n.obj # None
           /\ n.obj.rev \in 1..MaxRev /\ n.op \in {"add", "update", "delete"}
<1>1. /\ n.o \in Objects /\ n.obj \in Object(n.o) /\ n.op \in {"add", "update", "delete"}
  BY DEF Notes
<1> QED BY <1>1, InformerAssumption DEF Object

LEMMA QueueTypes ==
    ASSUME NEW q \in Seq(Notes)
    PROVE  /\ Len(q) \in Nat
           /\ \A i \in 1..Len(q) : q[i] \in Notes /\ q[i].obj.rev \in 1..MaxRev /\ q[i].obj # None
<1>1. Len(q) \in Nat /\ \A i \in 1..Len(q) : q[i] \in Notes
  OBVIOUS
<1> QED BY <1>1, NoteTypes

LEMMA PlacesAppend ==
    ASSUME NEW q \in Seq(Notes), NEW n \in Notes, NEW o
    PROVE  /\ Append(q, n) \in Seq(Notes)
           /\ Len(Append(q, n)) = Len(q) + 1
           /\ \A i \in 1..Len(q) : Append(q, n)[i] = q[i]
           /\ Append(q, n)[Len(q) + 1] = n
           /\ Places(Append(q, n), o) = Places(q, o) \cup (IF n.o = o THEN {Len(q) + 1} ELSE {})
<1>1. /\ Append(q, n) \in Seq(Notes) /\ Len(q) \in Nat
      /\ Len(Append(q, n)) = Len(q) + 1
      /\ \A i \in 1..Len(q) : Append(q, n)[i] = q[i]
      /\ Append(q, n)[Len(q) + 1] = n
  OBVIOUS
<1> QED BY <1>1 DEF Places

LEMMA PlacesTail ==
    ASSUME NEW q \in Seq(Notes), q # <<>>, NEW o
    PROVE  /\ Tail(q) \in Seq(Notes) /\ Head(q) \in Notes /\ Head(q) = q[1]
           /\ Len(q) \in Nat \ {0} /\ Len(Tail(q)) = Len(q) - 1
           /\ \A i \in 1..Len(q) - 1 : Tail(q)[i] = q[i + 1]
           /\ \A i \in 1..Len(q) - 1 : i \in Places(Tail(q), o) <=> i + 1 \in Places(q, o)
           /\ Places(Tail(q), o) \subseteq 1..Len(q) - 1
<1>1. /\ Tail(q) \in Seq(Notes) /\ Head(q) \in Notes /\ Head(q) = q[1]
      /\ Len(q) \in Nat \ {0} /\ Len(Tail(q)) = Len(q) - 1
      /\ \A i \in 1..Len(q) - 1 : Tail(q)[i] = q[i + 1]
  OBVIOUS
<1> QED BY <1>1 DEF Places

-----------------------------------------------------------------------------
(* What they do to the order of revisions. *)

\* A notification about another object changes nothing.
LEMMA OrderedAppendOther ==
    ASSUME NEW q \in Seq(Notes), NEW n \in Notes, NEW o, n.o # o,
           NEW a, NEW c, NEW R, NEW p, Ordered(q, o, a, c, R, p)
    PROVE  Ordered(Append(q, n), o, a, c, R, p)
<1> DEFINE q2 == Append(q, n)
<1>1. /\ Len(q) \in Nat /\ Len(q2) = Len(q) + 1 /\ Places(q2, o) = Places(q, o)
      /\ \A i \in Places(q, o) : i \in 1..Len(q) /\ q2[i] = q[i]
  BY PlacesAppend, QueueTypes DEF Places
<1>2. Upserts(q2, o) = Upserts(q, o)
  BY <1>1 DEF Upserts
<1>3. /\ \A i, j : DeletedBetween(q2, o, i, j) <=> DeletedBetween(q, o, i, j)
      /\ \A i : DeletedBetween(q2, o, i, Len(q2) + 1) => DeletedBetween(q, o, i, Len(q) + 1)
  BY <1>1 DEF DeletedBetween
<1>4. \A i \in Upserts(q, o) : q2[i] = q[i]
  BY <1>1 DEF Upserts
<1> SUFFICES Ordered(q2, o, a, c, R, p)
  OBVIOUS
<1> HIDE DEF q2
<1> QED BY <1>2, <1>3, <1>4 DEF Ordered, Precedes

\* client-go queues what is new on the server.
LEMMA OrderedObserve ==
    ASSUME NEW q \in Seq(Notes), NEW n \in Notes, NEW o, n.o = o,
           NEW a, NEW c, c # a, NEW R \in SUBSET (1..MaxRev), NEW p, Ordered(q, o, a, c, R, p),
           IF a = None THEN n.op = "delete" ELSE n.op # "delete" /\ n.obj = a
    PROVE  Ordered(Append(q, n), o, a, a, R, p)
<1> DEFINE q2 == Append(q, n)
           m == Len(q) + 1
<1>1. /\ Len(q) \in Nat /\ Len(q2) = m /\ Places(q2, o) = Places(q, o) \cup {m}
      /\ \A i \in Places(q, o) : i \in 1..Len(q) /\ q2[i] = q[i]
      /\ q2[m] = n
  BY PlacesAppend, QueueTypes DEF Places
<1>2. \A i \in Places(q, o) : q[i].obj.rev \in 1..MaxRev
  BY <1>1, QueueTypes
<1>3. Upserts(q2, o) = Upserts(q, o) \cup (IF a = None THEN {} ELSE {m})
  BY <1>1 DEF Upserts
<1>4. \A i \in Upserts(q, o) : i \in 1..Len(q) /\ q2[i] = q[i] /\ q[i].obj.rev \in 1..MaxRev
  BY <1>1, <1>2 DEF Upserts
<1>5. \A i, j \in 0..Len(q) : DeletedBetween(q2, o, i, j) => DeletedBetween(q, o, i, j)
  BY <1>1 DEF DeletedBetween
<1>6. n.obj.rev \in 1..MaxRev /\ MaxRev \in Nat
  BY NoteTypes, InformerAssumption
<1>7. ~DeletedBetween(q2, o, m, Len(q2) + 1)
  BY <1>1 DEF DeletedBetween
<1> SUFFICES Ordered(q2, o, a, a, R, p)
  OBVIOUS
<1> HIDE DEF q2
<1>8. CASE a = None
  BY <1>1, <1>3, <1>4, <1>5, <1>8 DEF Ordered, Precedes
<1>9. CASE a # None
  <2>1. /\ \A i \in Upserts(q, o) : q[i].obj.rev < a.rev
        /\ \A r \in R : r < a.rev
    BY <1>9 DEF Ordered
  <2>2. /\ \A i, j \in Upserts(q2, o) : i < j =>
              Precedes(q2[i].obj.rev, q2[j].obj.rev, DeletedBetween(q2, o, i, j))
    BY <1>1, <1>3, <1>4, <1>5, <1>6, <1>9, <2>1 DEF Ordered, Precedes
  <2>3. \A j \in Upserts(q2, o), r \in R :
              Precedes(r, q2[j].obj.rev, DeletedBetween(q2, o, 0, j) \/ p # r)
    BY <1>1, <1>3, <1>4, <1>5, <1>6, <1>9, <2>1 DEF Ordered, Precedes
  <2>4. /\ \A i \in Upserts(q2, o) :
                Precedes(q2[i].obj.rev, a.rev, DeletedBetween(q2, o, i, Len(q2) + 1))
        /\ \A r \in R : Precedes(r, a.rev, DeletedBetween(q2, o, 0, Len(q2) + 1) \/ p # r)
    <3>1. ASSUME NEW i \in Upserts(q, o)
          PROVE  Precedes(q2[i].obj.rev, a.rev, DeletedBetween(q2, o, i, Len(q2) + 1))
      BY <1>4, <1>6, <1>9, <2>1 DEF Precedes
    <3>2. Precedes(q2[m].obj.rev, a.rev, DeletedBetween(q2, o, m, Len(q2) + 1))
      BY <1>1, <1>6, <1>7, <1>9 DEF Precedes
    <3>3. ASSUME NEW r \in R
          PROVE  Precedes(r, a.rev, DeletedBetween(q2, o, 0, Len(q2) + 1) \/ p # r)
      BY <1>6, <1>9, <2>1 DEF Precedes
    <3> QED BY <1>3, <1>9, <3>1, <3>2, <3>3
  <2> QED BY <2>2, <2>3, <2>4 DEF Ordered
<1> QED BY <1>8, <1>9

\* A handler takes a notification about another object.
LEMMA OrderedTailOther ==
    ASSUME NEW q \in Seq(Notes), q # <<>>, NEW o, Head(q).o # o,
           NEW a, NEW c, NEW R, NEW p, Ordered(q, o, a, c, R, p)
    PROVE  Ordered(Tail(q), o, a, c, R, p)
<1> DEFINE q2 == Tail(q)
<1>1. /\ Len(q) \in Nat \ {0} /\ Len(q2) = Len(q) - 1
      /\ \A i \in Places(q2, o) : i \in 1..Len(q) - 1 /\ i + 1 \in Places(q, o) /\ q2[i] = q[i + 1]
  BY PlacesTail
<1>2. \A i \in Upserts(q2, o) : i \in 1..Len(q) - 1 /\ i + 1 \in Upserts(q, o) /\ q2[i] = q[i + 1]
  BY <1>1 DEF Upserts
<1>3. \A i, j \in 0..Len(q) : DeletedBetween(q2, o, i, j) =>
          DeletedBetween(q, o, i + 1, j + 1) /\ DeletedBetween(q, o, 0, j + 1)
  BY <1>1 DEF DeletedBetween
<1> SUFFICES Ordered(q2, o, a, c, R, p)
  OBVIOUS
<1> HIDE DEF q2
<1>4. \A i, j \in Upserts(q2, o) : i < j =>
          Precedes(q2[i].obj.rev, q2[j].obj.rev, DeletedBetween(q2, o, i, j))
  BY <1>1, <1>2, <1>3 DEF Ordered, Precedes
<1>5. \A j \in Upserts(q2, o), r \in R :
          Precedes(r, q2[j].obj.rev, DeletedBetween(q2, o, 0, j) \/ p # r)
  BY <1>1, <1>2, <1>3 DEF Ordered, Precedes
<1>6. c # None =>
          /\ \A i \in Upserts(q2, o) :
                Precedes(q2[i].obj.rev, c.rev, DeletedBetween(q2, o, i, Len(q2) + 1))
          /\ \A r \in R : Precedes(r, c.rev, DeletedBetween(q2, o, 0, Len(q2) + 1) \/ p # r)
  BY <1>1, <1>2, <1>3 DEF Ordered, Precedes
<1>7. a # None /\ a # c => \A i \in Upserts(q2, o) : q2[i].obj.rev < a.rev
  BY <1>2 DEF Ordered
<1> QED BY <1>4, <1>5, <1>6, <1>7 DEF Ordered

\* A handler takes a notification about the object: a deletion, after which no
\* revision is remembered; an upsert, after which its revision may be recorded
\* and then is the one remembered; or an upsert that is already recorded or fails.
LEMMA OrderedTake ==
    ASSUME NEW q \in Seq(Notes), q # <<>>, NEW o, Head(q).o = o,
           NEW a, NEW c, NEW R \in SUBSET (1..MaxRev), NEW p, Ordered(q, o, a, c, R, p),
           a # None => a.rev \in Int, c # None => c.rev \in Int,
           NEW R2, NEW p2,
           \/ R2 = R /\ p2 = p
           \/ Head(q).op = "delete" /\ R2 = R
           \/ Head(q).op # "delete" /\ R2 = R \cup {Head(q).obj.rev} /\ p2 = Head(q).obj.rev
    PROVE  Ordered(Tail(q), o, a, c, R2, p2)
<1> DEFINE q2 == Tail(q)
           h == q[1]
<1>1. /\ Len(q) \in Nat \ {0} /\ Len(q2) = Len(q) - 1 /\ Head(q) = h
      /\ \A i \in Places(q2, o) : i \in 1..Len(q) - 1 /\ i + 1 \in Places(q, o) /\ q2[i] = q[i + 1]
  BY PlacesTail
<1>2. \A i \in Upserts(q2, o) : /\ i \in 1..Len(q) - 1 /\ i + 1 \in Upserts(q, o) /\ q2[i] = q[i + 1]
                                /\ q[i + 1].obj.rev \in 1..MaxRev
  BY <1>1, QueueTypes DEF Upserts
<1>3. \A i, j \in 0..Len(q) : DeletedBetween(q2, o, i, j) =>
          DeletedBetween(q, o, i + 1, j + 1) /\ DeletedBetween(q, o, 0, j + 1)
  BY <1>1 DEF DeletedBetween
<1>4. /\ 1 \in Places(q, o) /\ h.obj.rev \in 1..MaxRev /\ MaxRev \in Nat
      /\ h.op # "delete" => 1 \in Upserts(q, o)
      /\ h.op = "delete" => \A j \in 2..Len(q) + 1 : DeletedBetween(q, o, 0, j)
  BY <1>1, QueueTypes, InformerAssumption DEF Places, Upserts, DeletedBetween
<1> SUFFICES Ordered(q2, o, a, c, R2, p2)
  OBVIOUS
<1> HIDE DEF q2, h
<1>5. \A i, j \in Upserts(q2, o) : i < j =>
          Precedes(q2[i].obj.rev, q2[j].obj.rev, DeletedBetween(q2, o, i, j))
  <2> SUFFICES ASSUME NEW i \in Upserts(q2, o), NEW j \in Upserts(q2, o), i < j
               PROVE  Precedes(q2[i].obj.rev, q2[j].obj.rev, DeletedBetween(q2, o, i, j))
    OBVIOUS
  <2>1. i + 1 \in Upserts(q, o) /\ j + 1 \in Upserts(q, o) /\ i + 1 < j + 1
    BY <1>2
  <2>2. Precedes(q[i + 1].obj.rev, q[j + 1].obj.rev, DeletedBetween(q, o, i + 1, j + 1))
    BY <2>1 DEF Ordered
  <2> QED BY <1>1, <1>2, <1>3, <2>2 DEF Precedes
<1>6. c # None => \A i \in Upserts(q2, o) :
                Precedes(q2[i].obj.rev, c.rev, DeletedBetween(q2, o, i, Len(q2) + 1))
  BY <1>1, <1>2, <1>3 DEF Ordered, Precedes
<1>7. a # None /\ a # c => /\ \A i \in Upserts(q2, o) : q2[i].obj.rev < a.rev
                           /\ c # None => c.rev < a.rev
  BY <1>2 DEF Ordered
<1>8. CASE R2 = R /\ (p2 = p \/ h.op = "delete")
  <2>1. \A j \in Upserts(q2, o), r \in R :
            Precedes(r, q2[j].obj.rev, DeletedBetween(q2, o, 0, j) \/ p2 # r)
    BY <1>1, <1>2, <1>3, <1>4, <1>8 DEF Ordered, Precedes
  <2>2. c # None => \A r \in R :
            Precedes(r, c.rev, DeletedBetween(q2, o, 0, Len(q2) + 1) \/ p2 # r)
    BY <1>1, <1>3, <1>4, <1>8 DEF Ordered, Precedes
  <2>3. a # None /\ a # c => \A r \in R : r < a.rev
    BY DEF Ordered
  <2> QED BY <1>5, <1>6, <1>7, <1>8, <2>1, <2>2, <2>3 DEF Ordered
<1>9. CASE h.op # "delete" /\ R2 = R \cup {h.obj.rev} /\ p2 = h.obj.rev
  <2>1. \A r \in R : r \in Int /\ r <= h.obj.rev
    <3>1. \A r \in R : Precedes(r, q[1].obj.rev, DeletedBetween(q, o, 0, 1) \/ p # r)
      BY <1>4, <1>9 DEF Ordered
    <3>2. \A r \in R : r \in Int
      OBVIOUS
    <3>3. q[1] = h
      BY DEF h
    <3> QED BY <3>1, <3>2, <3>3 DEF Precedes
  <2>2. \A j \in Upserts(q2, o) : /\ j \in 1..Len(q) - 1 /\ q2[j] = q[j + 1]
                                  /\ q[j + 1].obj.rev \in 1..MaxRev
                                  /\ Precedes(h.obj.rev, q[j + 1].obj.rev, DeletedBetween(q, o, 1, j + 1))
    BY <1>1, <1>2, <1>4, <1>9 DEF Ordered, h
  <2>3. \A j \in Upserts(q2, o) : DeletedBetween(q2, o, 0, j) => DeletedBetween(q, o, 1, j + 1)
    BY <1>1, <1>2, <1>3
  <2>4. \A j \in Upserts(q2, o), r \in R2 :
            Precedes(r, q2[j].obj.rev, DeletedBetween(q2, o, 0, j) \/ p2 # r)
    BY <1>4, <1>9, <2>1, <2>2, <2>3 DEF Precedes
  <2>5. c # None => Precedes(h.obj.rev, c.rev, DeletedBetween(q, o, 1, Len(q) + 1))
    BY <1>4, <1>9 DEF Ordered, h
  <2>6. c # None => \A r \in R2 :
            Precedes(r, c.rev, DeletedBetween(q2, o, 0, Len(q2) + 1) \/ p2 # r)
    <3> SUFFICES ASSUME c # None, NEW r \in R2
                 PROVE  Precedes(r, c.rev, DeletedBetween(q2, o, 0, Len(q2) + 1) \/ p2 # r)
      OBVIOUS
    <3>1. CASE r = h.obj.rev
      BY <1>1, <1>3, <1>9, <2>5, <3>1 DEF Precedes
    <3>2. CASE r \in R /\ r # h.obj.rev
      BY <1>4, <2>1, <2>5, <3>2 DEF Precedes
    <3> QED BY <1>9, <3>1, <3>2
  <2>7. a # None /\ a # c => \A r \in R2 : r < a.rev
    BY <1>4, <1>9 DEF Ordered, h
  <2> QED BY <1>5, <1>6, <1>7, <2>4, <2>6, <2>7 DEF Ordered
<1> QED BY <1>1, <1>8, <1>9

\* Resync queues what the cache holds, at most once per object.
LEMMA OrderedResync ==
    ASSUME NEW q \in Seq(Notes), NEW o, NEW a, NEW c, NEW R, NEW p, Ordered(<<>>, o, a, c, R, p),
           \A i \in Places(q, o) : c # None /\ q[i].op # "delete" /\ q[i].obj = c,
           c # None => c.rev \in Int
    PROVE  Ordered(q, o, a, c, R, p)
<1>1. \A i, j : ~DeletedBetween(q, o, i, j)
  BY DEF DeletedBetween
<1>2. \A i \in Upserts(q, o) : c # None /\ q[i].obj = c
  BY DEF Upserts
<1>3. ~DeletedBetween(<<>>, o, 0, Len(<<>>) + 1)
  BY DEF DeletedBetween, Places
<1> QED BY <1>1, <1>2, <1>3 DEF Ordered, Precedes

-----------------------------------------------------------------------------
(* ... to what they end with ... *)

LEMMA EndsWithAppend ==
    ASSUME NEW q \in Seq(Notes), NEW n \in Notes, NEW o, NEW c, NEW c2, EndsWith(q, o, c),
           IF n.o = o THEN c2 = IF n.op = "delete" THEN None ELSE n.obj ELSE c2 = c
    PROVE  EndsWith(Append(q, n), o, c2)
<1> DEFINE q2 == Append(q, n)
<1>1. /\ Len(q) \in Nat /\ q2[Len(q) + 1] = n
      /\ Places(q2, o) = Places(q, o) \cup (IF n.o = o THEN {Len(q) + 1} ELSE {})
      /\ \A i \in Places(q, o) : i \in 1..Len(q) /\ q2[i] = q[i]
  BY PlacesAppend, QueueTypes DEF Places
<1> SUFFICES EndsWith(q2, o, c2)
  OBVIOUS
<1> HIDE DEF q2
<1> QED BY <1>1 DEF EndsWith

LEMMA EndsWithTail ==
    ASSUME NEW q \in Seq(Notes), q # <<>>, NEW o, NEW c, EndsWith(q, o, c)
    PROVE  /\ EndsWith(Tail(q), o, c)
           /\ Head(q).o = o /\ Places(Tail(q), o) = {} =>
                c = IF Head(q).op = "delete" THEN None ELSE Head(q).obj
           /\ Head(q).o # o /\ Places(Tail(q), o) = {} => Places(q, o) = {}
<1> DEFINE q2 == Tail(q)
<1>1. /\ Len(q) \in Nat \ {0} /\ Head(q) = q[1]
      /\ \A i \in 1..Len(q) - 1 : q2[i] = q[i + 1]
      /\ \A i \in 1..Len(q) - 1 : i \in Places(q2, o) <=> i + 1 \in Places(q, o)
      /\ Places(q2, o) \subseteq 1..Len(q) - 1
  BY PlacesTail
<1>2. Places(q, o) \subseteq 1..Len(q) /\ (1 \in Places(q, o) <=> q[1].o = o)
  BY <1>1 DEF Places
<1>3. \A i \in Places(q, o) : i = 1 \/ i - 1 \in Places(q2, o)
  <2> SUFFICES ASSUME NEW i \in Places(q, o), i # 1 PROVE i - 1 \in Places(q2, o)
    OBVIOUS
  <2>1. i - 1 \in 1..Len(q) - 1 /\ (i - 1) + 1 = i
    BY <1>1, <1>2
  <2> QED BY <1>1, <2>1
<1> HIDE DEF q2
<1>4. EndsWith(q2, o, c)
  <2> SUFFICES ASSUME NEW i \in Places(q2, o), \A j \in Places(q2, o) : j <= i
               PROVE  c = IF q2[i].op = "delete" THEN None ELSE q2[i].obj
    BY DEF EndsWith
  <2>1. i + 1 \in Places(q, o) /\ q2[i] = q[i + 1] /\ i \in 1..Len(q) - 1
    BY <1>1
  <2>2. \A j \in Places(q, o) : j <= i + 1
    BY <1>1, <1>2, <1>3, <2>1
  <2> QED BY <2>1, <2>2 DEF EndsWith
<1>5. ASSUME Places(q2, o) = {} PROVE Places(q, o) \subseteq {1}
  BY <1>3, <1>5
<1>6. ASSUME q[1].o = o, Places(q2, o) = {}
      PROVE  c = IF q[1].op = "delete" THEN None ELSE q[1].obj
  BY <1>2, <1>5, <1>6 DEF EndsWith
<1> QED BY <1>1, <1>2, <1>4, <1>5, <1>6 DEF q2

(* ... and to the copies that are about. *)

LEMMA CopiesAppend ==
    ASSUME NEW q \in Seq(Notes), NEW n \in Notes, NEW o, NEW a, NEW c, NEW c2, NEW s,
           IF n.o = o THEN {n.obj, c2} \subseteq {a, c, None} ELSE c2 = c
    PROVE  Copies(Append(q, n), o, a, c2, s) \subseteq Copies(q, o, a, c, s)
<1> DEFINE q2 == Append(q, n)
<1>1. /\ q2[Len(q) + 1] = n
      /\ Places(q2, o) = Places(q, o) \cup (IF n.o = o THEN {Len(q) + 1} ELSE {})
      /\ \A i \in Places(q, o) : q2[i] = q[i]
  BY PlacesAppend, QueueTypes DEF Places
<1> SUFFICES Copies(q2, o, a, c2, s) \subseteq Copies(q, o, a, c, s)
  OBVIOUS
<1> HIDE DEF q2
<1> QED BY <1>1 DEF Copies

LEMMA CopiesTail ==
    ASSUME NEW q \in Seq(Notes), q # <<>>, NEW o, NEW a, NEW c, NEW s, NEW s2,
           s2 \in {s, None} \/ (Head(q).o = o /\ s2 = Head(q).obj)
    PROVE  Copies(Tail(q), o, a, c, s2) \subseteq Copies(q, o, a, c, s)
<1> DEFINE q2 == Tail(q)
<1>1. /\ \A i \in Places(q2, o) : i + 1 \in Places(q, o) /\ q2[i] = q[i + 1]
      /\ Head(q).o = o => 1 \in Places(q, o) /\ Head(q) = q[1]
  BY PlacesTail DEF Places
<1> SUFFICES Copies(q2, o, a, c, s2) \subseteq Copies(q, o, a, c, s)
  OBVIOUS
<1> HIDE DEF q2
<1> QED BY <1>1 DEF Copies

-----------------------------------------------------------------------------
(* Types. *)

\* What Resync queues: updates from the cache, of its own type.
LEMMA ResyncQueue ==
    ASSUME NEW g \in Gvrs, Types, Resync(g)
    PROVE  /\ todo' \in [Gvrs -> Seq(Notes)]
           /\ \A h \in Gvrs : h # g => todo'[h] = todo[h]
           /\ \A i \in 1..Len(todo'[g]) :
                /\ todo'[g][i].o \in Objects /\ GvrOf[todo'[g][i].o] = g
                /\ todo'[g][i].op = "update"
                /\ todo'[g][i].obj = cache[todo'[g][i].o] /\ cache[todo'[g][i].o] # None
<1> DEFINE S == {o \in Of(g) : cache[o] # None}
<1>0. PICK m \in 1..Cardinality(Objects) : \E seen \in Bijection(1..m, S) :
        todo' = [todo EXCEPT ![g] = [i \in 1..m |-> Notification("update", seen[i], cache[seen[i]])]]
  BY DEF Resync
<1>1. PICK seen \in Bijection(1..m, S) :
        todo' = [todo EXCEPT ![g] = [i \in 1..m |-> Notification("update", seen[i], cache[seen[i]])]]
  BY <1>0
<1>2. m \in Nat /\ seen \in [1..m -> S]
  BY InformerAssumption DEF Bijection, Injection
<1> DEFINE new == [i \in 1..m |-> Notification("update", seen[i], cache[seen[i]])]
<1>3. todo' = [todo EXCEPT ![g] = new]
  BY <1>1
<1>4. \A o \in S : o \in Objects /\ GvrOf[o] = g /\ cache[o] # None /\ cache[o] \in Object(o)
  BY DEF S, Of, Types
<1> HIDE DEF S
<1>5. \A o \in S : Notification("update", o, cache[o]) \in Notes
  BY <1>4 DEF Notes, Notification, Objs
<1>6. new \in [1..m -> Notes] /\ \A i \in 1..m : new[i] = Notification("update", seen[i], cache[seen[i]])
  BY <1>2, <1>5
<1> HIDE DEF new
<1>7. new \in Seq(Notes) /\ Len(new) = m
  BY <1>2, <1>6
<1>8. todo'[g] = new /\ todo' \in [Gvrs -> Seq(Notes)] /\ \A h \in Gvrs : h # g => todo'[h] = todo[h]
  BY <1>3, <1>7 DEF Types
<1>9. \A i \in 1..m : new[i].o = seen[i] /\ new[i].op = "update" /\ new[i].obj = cache[seen[i]] /\ seen[i] \in S
  BY <1>2, <1>6 DEF Notification
<1> QED BY <1>4, <1>7, <1>8, <1>9

\* What the head of a queue is.
LEMMA HeadTypes ==
    ASSUME NEW g \in Gvrs, Types, todo[g] # <<>>
    PROVE  LET n == Head(todo[g]) IN
           /\ n \in Notes /\ n.o \in Objects /\ GvrOf[n.o] = g /\ n.obj \in Object(n.o)
           /\ n.obj \in Objs /\ n.obj # None /\ n.obj.rev \in 1..MaxRev
<1>1. todo[g] \in Seq(Notes)
  BY DEF Types
<1>2. Head(todo[g]) \in Notes /\ Head(todo[g]) = todo[g][1] /\ 1 \in 1..Len(todo[g])
  BY <1>1
<1> QED BY <1>2, NoteTypes DEF Types, Notes

LEMMA TakeTypes ==
    ASSUME NEW g \in Gvrs, Types, todo[g] # <<>>, Take(g)
    PROVE  /\ todo' \in [Gvrs -> Seq(Notes)]
           /\ todo'[g] = Tail(todo[g])
           /\ \A h \in Gvrs : h # g => todo'[h] = todo[h]
           /\ \A h \in Gvrs : \A i \in 1..Len(todo'[h]) : GvrOf[todo'[h][i].o] = h
<1>1. todo[g] \in Seq(Notes) /\ todo \in [Gvrs -> Seq(Notes)]
  BY DEF Types
<1>2. /\ Tail(todo[g]) \in Seq(Notes) /\ Len(Tail(todo[g])) = Len(todo[g]) - 1 /\ Len(todo[g]) \in Nat
      /\ \A i \in 1..Len(todo[g]) - 1 : Tail(todo[g])[i] = todo[g][i + 1]
  BY <1>1
<1>3. /\ todo' \in [Gvrs -> Seq(Notes)]
      /\ todo'[g] = Tail(todo[g])
      /\ \A h \in Gvrs : h # g => todo'[h] = todo[h]
  BY <1>1, <1>2 DEF Take
<1>4. \A i \in 1..Len(todo'[g]) : GvrOf[todo'[g][i].o] = g
  BY <1>2, <1>3 DEF Types
<1> QED BY <1>3, <1>4, Zenon DEF Types

\* What client-go queues for a change of an object.
LEMMA ObserveQueue ==
    ASSUME NEW o \in Objects, Types, Observe(o)
    PROVE  \E n \in Notes :
             /\ n.o = o /\ n.obj \in {api[o], cache[o]}
             /\ IF api[o] = None THEN n.op = "delete" ELSE n.op # "delete" /\ n.obj = api[o]
             /\ todo' = [todo EXCEPT ![GvrOf[o]] = Append(@, n)]
<1> DEFINE n == IF api[o] = None THEN Notification("delete", o, cache[o])
                ELSE Notification(IF cache[o] = None THEN "add" ELSE "update", o, api[o])
<1>1. /\ api[o] \in Object(o) \cup {None} /\ cache[o] \in Object(o) \cup {None}
      /\ cache[o] # api[o]
  BY DEF Types, Observe
<1>2. n.o = o /\ n.obj \in {api[o], cache[o]} \ {None} /\ n.op \in {"add", "update", "delete"}
  BY <1>1 DEF Notification
<1>3. n \in [op : {"add", "update", "delete"}, o : Objects, obj : Objs]
  BY <1>1 DEF Notification, Objs
<1>4. n \in Notes
  BY <1>1, <1>2, <1>3 DEF Notes
<1>5. todo' = [todo EXCEPT ![GvrOf[o]] = Append(@, n)]
  BY DEF Observe, Notify
<1>6. IF api[o] = None THEN n.op = "delete" ELSE n.op # "delete" /\ n.obj = api[o]
  BY DEF Notification
<1> HIDE DEF n
<1> QED BY <1>2, <1>4, <1>5, <1>6, Zenon

\* The states of a handler.
LEMMA HandlerTypes ==
    ASSUME NEW g \in Gvrs, Types
    PROVE  /\ cur[g].pc = "extract" => cur[g] \in Extracting /\ cur[g] # Idle
           /\ cur[g].pc = "write" => cur[g] \in Writing /\ cur[g] # Idle
           /\ cur[g] # Idle => cur[g].o \in Objects /\ GvrOf[cur[g].o] = g
           /\ cur[g].pc \in {"idle", "extract", "write"}
<1>1. cur[g] \in {Idle} \cup Extracting \cup Writing
  BY DEF Types
<1>2. cur[g] # Idle => GvrOf[cur[g].o] = g
  BY DEF Types
<1> QED BY <1>1, <1>2 DEF Idle, Extracting, Writing

\* The edges that leave an object go to objects and Secrets.
LEMMA DerivedType ==
    ASSUME NEW o \in Objects, NEW x \in Object(o)
    PROVE  RefEdges(o, x) \subseteq {o} \X Ids /\ Derived(o, x) \subseteq {o} \X Ids
<1>1. x.body.refs \subseteq Ids
  BY InformerAssumption DEF Object
<1>2. Selected(x) \subseteq Ids
  BY DEF Selected, Ids
<1> QED BY <1>1, <1>2 DEF Derived, RefEdges

LEMMA ExtractStep ==
    ASSUME NEW g \in Gvrs, Types, Extract(g)
    PROVE  \E new \in Writing :
             /\ cur' = [cur EXCEPT ![g] = new]
             /\ new.o = cur[g].o /\ new.notify = (cur[g].changed \/ new.es # {})
<1>1. cur[g] \in Extracting /\ cur[g].o \in Objects /\ cur[g].obj \in Object(cur[g].o)
  BY HandlerTypes DEF Extract, Extracting
<1>2. PICK ok \in BOOLEAN :
        LET c == cur[g]
            es == IF ok THEN Derived(c.o, c.obj) ELSE RefEdges(c.o, c.obj)
        IN  cur' = [cur EXCEPT ![g] =
                      [pc |-> "write", o |-> c.o, notify |-> WorthTelling(c.changed, es),
                       secs |-> {e[2] : e \in es} \cap SecretIds, es |-> es]]
  BY Zenon DEF Extract
<1> DEFINE c == cur[g]
           es == IF ok THEN Derived(c.o, c.obj) ELSE RefEdges(c.o, c.obj)
           new == [pc |-> "write", o |-> c.o, notify |-> WorthTelling(c.changed, es),
                   secs |-> {e[2] : e \in es} \cap SecretIds, es |-> es]
<1>3. es \subseteq {c.o} \X Ids
  BY <1>1, DerivedType
<1>4. cur' = [cur EXCEPT ![g] = new]
  BY <1>2
<1>5. c.changed \in BOOLEAN /\ c.o \in Objects
  BY <1>1 DEF Extracting
<1> HIDE DEF es, c
<1>6. es \in SUBSET (Objects \X Ids)
  BY <1>3, <1>5
<1>7. WorthTelling(c.changed, es) \in BOOLEAN /\ WorthTelling(c.changed, es) = (c.changed \/ es # {})
  BY <1>5 DEF WorthTelling
<1>8. new \in Writing
  BY <1>3, <1>5, <1>6, <1>7 DEF Writing
<1>9. new.o = c.o /\ new.notify = (c.changed \/ new.es # {})
  BY <1>7
<1> HIDE DEF new
<1> QED BY <1>4, <1>8, <1>9, Zenon DEF c

\* What a store call may do.
LEMMA OutcomeTypes ==
    ASSUME NEW out \in Outcomes
    PROVE  out.done \in BOOLEAN /\ out.ok \in BOOLEAN /\ (out.ok => out.done)
BY DEF Outcomes

\* handleUpsert's write has three ends: it worked, it failed (and the row may be
\* written all the same), or there was nothing to write.
AtWork(o, obj, changed) == [pc |-> "extract", o |-> o, obj |-> obj, changed |-> changed]

Worked(g, o, obj) ==
    /\ Changed(o, obj)
    /\ resources' = [resources EXCEPT ![o] = obj] /\ dirty' = dirty \cup {o}
    /\ persisted' = [persisted EXCEPT ![o] = IF o \in Versioned THEN obj.rev ELSE 0]
    /\ recorded' = recorded \cup {<<o, obj.rev>>} /\ last' = [last EXCEPT ![o] = obj.rev]
    /\ duplicated' = IF <<o, obj.rev>> \in recorded THEN duplicated \cup {o} ELSE duplicated
    /\ cur' = [cur EXCEPT ![g] = AtWork(o, obj, TRUE)]
    /\ gaps' = gaps

Failed(g, o, obj) ==
    /\ \/ resources' = resources /\ dirty' = dirty
       \/ resources' = [resources EXCEPT ![o] = obj] /\ dirty' = dirty \cup {o}
    /\ gaps' = gaps \cup {g}
    /\ UNCHANGED <<persisted, recorded, last, duplicated, cur>>

AlreadyKnown(g, o, obj) ==
    /\ o \in Versioned /\ persisted[o] = obj.rev
    /\ cur' = [cur EXCEPT ![g] = AtWork(o, obj, FALSE)]
    /\ UNCHANGED <<resources, dirty, persisted, recorded, last, duplicated, gaps>>

LEMMA UpsertCases ==
    ASSUME NEW g \in Gvrs, Types, UpsertResource(g)
    PROVE  LET o == Head(todo[g]).o
               obj == Head(todo[g]).obj
           IN  /\ cur[g] = Idle /\ todo[g] # <<>> /\ Take(g) /\ Head(todo[g]).op # "delete"
               /\ Worked(g, o, obj) \/ Failed(g, o, obj) \/ AlreadyKnown(g, o, obj)
               /\ UNCHANGED <<api, rev, cache, secrets, edges, ready, restarts, persistent>>
               /\ inherited' = inherited \ {o}
<1> DEFINE o == Head(todo[g]).o
           obj == Head(todo[g]).obj
<1>1. /\ cur[g] = Idle /\ todo[g] # <<>> /\ Take(g) /\ Head(todo[g]).op # "delete"
      /\ UNCHANGED <<api, rev, cache, secrets, edges, ready, restarts, persistent>>
      /\ inherited' = inherited \ {o}
  BY DEF UpsertResource, Head1, server, process
<1>2. \/ /\ Changed(o, obj)
         /\ \E out \in Outcomes :
              /\ resources' = IF out.done THEN [resources EXCEPT ![o] = obj] ELSE resources
              /\ dirty' = IF out.done THEN dirty \cup {o} ELSE dirty
              /\ Remember(o, obj, out) /\ Record(o, obj.rev, out)
              /\ CarryOn(g, o, obj, TRUE, out) /\ ReportUnlessOk(g, out)
      \/ /\ ~Changed(o, obj)
         /\ CarryOn(g, o, obj, FALSE, [done |-> TRUE, ok |-> TRUE])
         /\ UNCHANGED <<resources, dirty, persisted, sink, gaps>>
  BY Zenon DEF UpsertResource
<1> HIDE DEF o, obj
<1>3. ASSUME ~Changed(o, obj), CarryOn(g, o, obj, FALSE, [done |-> TRUE, ok |-> TRUE]),
             UNCHANGED <<resources, dirty, persisted, sink, gaps>>
      PROVE  AlreadyKnown(g, o, obj)
  BY <1>3 DEF AlreadyKnown, Changed, CarryOn, AtWork, sink
<1>4. ASSUME Changed(o, obj), NEW out \in Outcomes,
             resources' = IF out.done THEN [resources EXCEPT ![o] = obj] ELSE resources,
             dirty' = IF out.done THEN dirty \cup {o} ELSE dirty,
             Remember(o, obj, out), Record(o, obj.rev, out),
             CarryOn(g, o, obj, TRUE, out), ReportUnlessOk(g, out)
      PROVE  Worked(g, o, obj) \/ Failed(g, o, obj)
  <2>1. CASE out.ok
    <3>1. out.done
      BY <2>1, OutcomeTypes
    <3> QED BY <1>4, <2>1, <3>1 DEF Worked, Remember, Record, CarryOn, AtWork, ReportUnlessOk
  <2>2. CASE ~out.ok
    <3>1. UNCHANGED <<persisted, recorded, last, duplicated, cur>> /\ gaps' = gaps \cup {g}
      BY <1>4, <2>2 DEF Remember, Record, CarryOn, ReportUnlessOk, sink
    <3> QED BY <1>4, <3>1 DEF Failed
  <2> QED BY <2>1, <2>2
<1>5. Worked(g, o, obj) \/ Failed(g, o, obj) \/ AlreadyKnown(g, o, obj)
  BY <1>2, <1>3, <1>4, Zenon
<1> QED BY <1>1, <1>5 DEF o, obj

LEMMA DeleteCases ==
    ASSUME NEW g \in Gvrs, Types, Delete(g)
    PROVE  LET o == Head(todo[g]).o IN
           /\ cur[g] = Idle /\ todo[g] # <<>> /\ Take(g) /\ Head(todo[g]).op = "delete"
           /\ \/ /\ resources' = [resources EXCEPT ![o] = None] /\ edges' = edges \ Incident(o)
                 /\ gaps \subseteq gaps'
              \/ UNCHANGED <<resources, edges>> /\ g \in gaps' /\ gaps \subseteq gaps'
           /\ gaps' \subseteq gaps \cup {g}
           /\ persisted' = [persisted EXCEPT ![o] = 0] /\ last' = [last EXCEPT ![o] = Deleted]
           /\ dirty' = dirty \ {o} /\ inherited' = inherited \ {o}
           /\ UNCHANGED <<api, rev, cache, cur, secrets, ready, restarts, persistent,
                          recorded, duplicated>>
<1>1. \A out \in Outcomes : ~out.done => ~out.ok
  BY OutcomeTypes
<1> QED BY <1>1 DEF Delete, Head1, RecordDelete, ReportUnlessOk, server, process

LEMMA InitTypes == Init => Types
<1> SUFFICES ASSUME Init PROVE Types
  OBVIOUS
<1>1. 0 \in 0..MaxRev /\ 0 \in 0..MaxRestarts /\ 0 \in Deleted..MaxRev
  BY InformerAssumption DEF Deleted
<1>2. /\ api \in [Objects -> Objs \cup {None}] /\ cache \in [Objects -> Objs \cup {None}]
      /\ resources \in [Objects -> Objs \cup {None}]
      /\ \A o \in Objects : api[o] = None /\ cache[o] = None /\ resources[o] = None
  BY DEF Init, Forgotten
<1>3. todo \in [Gvrs -> Seq(Notes)] /\ \A g \in Gvrs : todo[g] = <<>>
  BY DEF Init
<1>4. cur \in [Gvrs -> {Idle} \cup Extracting \cup Writing] /\ \A g \in Gvrs : cur[g] = Idle
  BY DEF Init
<1>5. persisted \in [Objects -> 0..MaxRev] /\ last \in [Objects -> Deleted..MaxRev]
  BY <1>1 DEF Init, Unrecorded
<1>6. \A g \in Gvrs : \A i \in 1..Len(todo[g]) : FALSE
  BY <1>3
<1> QED BY <1>1, <1>2, <1>3, <1>4, <1>5, <1>6, Zenon DEF Init, Types

LEMMA TypesNext == Types /\ [Next]_vars => Types'
<1> SUFFICES ASSUME Types, [Next]_vars PROVE Types'
  OBVIOUS
<1> USE InformerAssumption
<1>1. ASSUME NEW o \in Objects, Write(o) \/ Erase(o) PROVE Types'
  <2>1. PICK x \in Object(o) \cup {None} : api' = [api EXCEPT ![o] = x]
    BY <1>1 DEF Write, Erase, Types, Object
  <2>2. rev' \in 0..MaxRev
    BY <1>1 DEF Write, Erase, Types
  <2>3. api' \in [Objects -> Objs \cup {None}] /\ \A p \in Objects : api'[p] \in Object(p) \cup {None}
    BY <2>1 DEF Types, Objs
  <2>4. UNCHANGED <<client, cur, store, persisted, sink, dirty, gaps, process, inherited>>
    BY <1>1 DEF Write, Erase
  <2> QED BY <2>2, <2>3, <2>4 DEF Types, client, store, sink, process
<1>2. ASSUME NEW o \in Objects, Observe(o) PROVE Types'
  <2>1. PICK n \in Notes : n.o = o /\ todo' = [todo EXCEPT ![GvrOf[o]] = Append(@, n)]
    BY <1>2, ObserveQueue
  <2>2. cache' \in [Objects -> Objs \cup {None}] /\ \A p \in Objects : cache'[p] \in Object(p) \cup {None}
    BY <1>2 DEF Observe, Types
  <2>3. /\ GvrOf[o] \in Gvrs /\ todo[GvrOf[o]] \in Seq(Notes)
        /\ todo' \in [Gvrs -> Seq(Notes)] /\ todo'[GvrOf[o]] = Append(todo[GvrOf[o]], n)
        /\ \A g \in Gvrs : g # GvrOf[o] => todo'[g] = todo[g]
    BY <2>1 DEF Types
  <2>4. \A i \in 1..Len(todo'[GvrOf[o]]) : GvrOf[todo'[GvrOf[o]][i].o] = GvrOf[o]
    BY <2>1, <2>3, PlacesAppend, QueueTypes DEF Types
  <2>5. UNCHANGED <<server, cur, store, persisted, sink, dirty, gaps, process, inherited>>
    BY <1>2 DEF Observe
  <2> QED BY <2>2, <2>3, <2>4, <2>5, Zenon DEF Types, server, store, sink, process
<1>3. ASSUME NEW g \in Gvrs, Resync(g) PROVE Types'
  <2>1. /\ todo' \in [Gvrs -> Seq(Notes)]
        /\ \A h \in Gvrs : \A i \in 1..Len(todo'[h]) : GvrOf[todo'[h][i].o] = h
    <3>1. /\ todo' \in [Gvrs -> Seq(Notes)] /\ \A h \in Gvrs : h # g => todo'[h] = todo[h]
          /\ \A i \in 1..Len(todo'[g]) : GvrOf[todo'[g][i].o] = g
      BY <1>3, ResyncQueue
    <3> QED BY <3>1, Zenon DEF Types
  <2>2. UNCHANGED <<server, cache, cur, store, persisted, sink, dirty, gaps, process, inherited>>
    BY <1>3 DEF Resync
  <2> QED BY <2>1, <2>2 DEF Types, server, store, sink, process
<1>4. ASSUME NEW g \in Gvrs, UpsertResource(g) PROVE Types'
  <2> DEFINE o == Head(todo[g]).o
             obj == Head(todo[g]).obj
  <2>1. /\ todo[g] # <<>> /\ Take(g)
        /\ Worked(g, o, obj) \/ Failed(g, o, obj) \/ AlreadyKnown(g, o, obj)
        /\ UNCHANGED <<api, rev, cache, secrets, edges, ready, restarts, persistent>>
        /\ inherited' = inherited \ {o}
    BY <1>4, UpsertCases
  <2>2. /\ todo' \in [Gvrs -> Seq(Notes)]
        /\ \A h \in Gvrs : \A i \in 1..Len(todo'[h]) : GvrOf[todo'[h][i].o] = h
    BY <2>1, TakeTypes
  <2>3. o \in Objects /\ GvrOf[o] = g /\ obj \in Object(o) /\ obj \in Objs /\ obj.rev \in 1..MaxRev
    BY <2>1, HeadTypes
  <2> HIDE DEF o, obj
  <2>4. /\ AtWork(o, obj, TRUE) \in Extracting /\ AtWork(o, obj, TRUE).o = o
        /\ AtWork(o, obj, FALSE) \in Extracting /\ AtWork(o, obj, FALSE).o = o
    BY <2>3 DEF Extracting, AtWork
  <2>5. /\ cur' \in [Gvrs -> {Idle} \cup Extracting \cup Writing]
        /\ \A h \in Gvrs : cur'[h] # Idle => GvrOf[cur'[h].o] = h
    <3>1. PICK new \in {cur[g], AtWork(o, obj, TRUE), AtWork(o, obj, FALSE)} : cur' = [cur EXCEPT ![g] = new]
      <4>1. cur = [cur EXCEPT ![g] = cur[g]]
        BY DEF Types
      <4> QED BY <2>1, <4>1, Zenon DEF Worked, Failed, AlreadyKnown
    <3>2. new \in {Idle} \cup Extracting \cup Writing /\ (new # Idle => GvrOf[new.o] = g)
      <4>1. cur[g] \in {Idle} \cup Extracting \cup Writing /\ (cur[g] # Idle => GvrOf[cur[g].o] = g)
        BY DEF Types
      <4> QED BY <2>3, <2>4, <3>1, <4>1, Zenon
    <3> QED BY <3>1, <3>2 DEF Types
  <2>6. /\ resources' \in [Objects -> Objs \cup {None}]
        /\ \A p \in Objects : resources'[p] \in Object(p) \cup {None}
    BY <2>1, <2>3, Zenon DEF Types, Worked, Failed, AlreadyKnown
  <2>7. persisted' \in [Objects -> 0..MaxRev] /\ last' \in [Objects -> Deleted..MaxRev]
    <3>1. CASE Worked(g, o, obj)
      <4> DEFINE r == IF o \in Versioned THEN obj.rev ELSE 0
      <4>0. r \in 0..MaxRev
        <5>1. MaxRev \in Nat /\ obj.rev \in 1..MaxRev
          BY <2>3
        <5>2. obj.rev \in 0..MaxRev /\ 0 \in 0..MaxRev
          BY <5>1
        <5> QED BY <5>2
      <4>1. persisted' = [persisted EXCEPT ![o] = r]
        BY <3>1 DEF Worked
      <4> HIDE DEF r
      <4>2. obj.rev \in Deleted..MaxRev /\ last' = [last EXCEPT ![o] = obj.rev]
        BY <2>3, <3>1 DEF Worked, Deleted
      <4> QED BY <4>0, <4>1, <4>2, Zenon DEF Types
    <3>2. CASE UNCHANGED <<persisted, last>>
      BY <3>2 DEF Types
    <3> QED BY <2>1, <3>1, <3>2, Zenon DEF Failed, AlreadyKnown
  <2>8. recorded' \subseteq Objects \X (1..MaxRev) /\ duplicated' \subseteq Objects
    <3>1. <<o, obj.rev>> \in Objects \X (1..MaxRev)
      BY <2>3
    <3>2. recorded' \subseteq recorded \cup {<<o, obj.rev>>} /\ duplicated' \subseteq duplicated \cup {o}
      BY <2>1, Zenon DEF Worked, Failed, AlreadyKnown
    <3> QED BY <2>3, <3>1, <3>2 DEF Types
  <2>9. dirty' \subseteq Objects /\ gaps' \subseteq Gvrs /\ inherited' \subseteq Objects
    BY <2>1, <2>3, Zenon DEF Types, Worked, Failed, AlreadyKnown
  <2> QED BY <2>1, <2>2, <2>5, <2>6, <2>7, <2>8, <2>9 DEF Types
<1>5. ASSUME NEW g \in Gvrs, Extract(g) PROVE Types'
  <2>1. PICK new \in Writing : cur' = [cur EXCEPT ![g] = new] /\ new.o = cur[g].o
    BY <1>5, ExtractStep
  <2>2. cur[g] # Idle /\ GvrOf[cur[g].o] = g
    BY <1>5, HandlerTypes DEF Extract
  <2>3. /\ cur' \in [Gvrs -> {Idle} \cup Extracting \cup Writing]
        /\ \A h \in Gvrs : cur'[h] # Idle => GvrOf[cur'[h].o] = h
    BY <2>1, <2>2 DEF Types
  <2>4. /\ gaps' \subseteq Gvrs
        /\ UNCHANGED <<server, client, store, persisted, sink, dirty, process, inherited>>
    BY <1>5 DEF Extract, Gap, Types
  <2> QED BY <2>3, <2>4 DEF Types, server, client, store, sink, process
<1>6. ASSUME NEW g \in Gvrs, UpsertSecret(g) PROVE Types'
  <2>1. cur[g] \in Writing /\ cur[g] # Idle /\ GvrOf[cur[g].o] = g
    BY <1>6, HandlerTypes DEF UpsertSecret
  <2>2. PICK s \in cur[g].secs : cur' = [cur EXCEPT ![g].secs = @ \ {s}] /\ secrets' \subseteq secrets \cup {s}
    BY <1>6, Zenon DEF UpsertSecret
  <2>3. /\ cur' \in [Gvrs -> {Idle} \cup Extracting \cup Writing]
        /\ \A h \in Gvrs : cur'[h] # Idle => GvrOf[cur'[h].o] = h
    BY <2>1, <2>2, Zenon DEF Types, Writing
  <2>4. secrets' \subseteq SecretIds
    BY <2>1, <2>2 DEF Types, Writing
  <2>5. /\ gaps' \subseteq Gvrs
        /\ UNCHANGED <<server, client, resources, edges, persisted, sink, dirty, process, inherited>>
    BY <1>6 DEF UpsertSecret, ReportUnlessOk, Types
  <2> QED BY <2>3, <2>4, <2>5 DEF Types, server, client, sink, process
<1>7. ASSUME NEW g \in Gvrs, UpsertEdge(g) PROVE Types'
  <2>1. cur[g] \in Writing /\ cur[g] # Idle /\ GvrOf[cur[g].o] = g /\ cur[g].o \in Objects
    BY <1>7, HandlerTypes DEF UpsertEdge
  <2>2. PICK e \in cur[g].es : cur' = [cur EXCEPT ![g].es = @ \ {e}] /\ edges' \subseteq edges \cup {e}
    BY <1>7, Zenon DEF UpsertEdge
  <2>3. /\ cur' \in [Gvrs -> {Idle} \cup Extracting \cup Writing]
        /\ \A h \in Gvrs : cur'[h] # Idle => GvrOf[cur'[h].o] = h
    BY <2>1, <2>2, Zenon DEF Types, Writing
  <2>4. edges' \subseteq Objects \X Ids
    BY <2>1, <2>2 DEF Types, Writing
  <2>5. /\ gaps' \subseteq Gvrs /\ dirty' \subseteq Objects
        /\ UNCHANGED <<server, client, resources, secrets, persisted, sink, process, inherited>>
    BY <1>7, <2>1 DEF UpsertEdge, ReportUnlessOk, Types
  <2> QED BY <2>3, <2>4, <2>5 DEF Types, server, client, sink, process
<1>8. ASSUME NEW g \in Gvrs, Broadcast(g) PROVE Types'
  <2>1. /\ cur' \in [Gvrs -> {Idle} \cup Extracting \cup Writing]
        /\ \A h \in Gvrs : cur'[h] # Idle => GvrOf[cur'[h].o] = h
    BY <1>8 DEF Types, Broadcast
  <2>2. /\ dirty' \subseteq Objects
        /\ UNCHANGED <<server, client, store, persisted, sink, gaps, process, inherited>>
    BY <1>8 DEF Broadcast, Types
  <2> QED BY <2>1, <2>2 DEF Types, server, client, store, sink, process
<1>9. ASSUME NEW g \in Gvrs, Delete(g) PROVE Types'
  <2> DEFINE o == Head(todo[g]).o
  <2>1. /\ todo[g] # <<>> /\ Take(g)
        /\ resources' \in {resources, [resources EXCEPT ![o] = None]}
        /\ persisted' = [persisted EXCEPT ![o] = 0] /\ last' = [last EXCEPT ![o] = Deleted]
        /\ edges' \subseteq edges /\ gaps' \subseteq gaps \cup {g}
        /\ dirty' = dirty \ {o} /\ inherited' = inherited \ {o}
        /\ UNCHANGED <<api, rev, cache, cur, secrets, ready, restarts, persistent,
                       recorded, duplicated>>
    BY <1>9, DeleteCases, Zenon
  <2>2. /\ todo' \in [Gvrs -> Seq(Notes)]
        /\ \A h \in Gvrs : \A i \in 1..Len(todo'[h]) : GvrOf[todo'[h][i].o] = h
    BY <2>1, TakeTypes, Zenon
  <2>3. o \in Objects
    BY <2>1, HeadTypes
  <2> HIDE DEF o
  <2>4. /\ resources' \in [Objects -> Objs \cup {None}]
        /\ \A p \in Objects : resources'[p] \in Object(p) \cup {None}
    BY <2>1, <2>3, Zenon DEF Types
  <2>5. persisted' \in [Objects -> 0..MaxRev] /\ last' \in [Objects -> Deleted..MaxRev]
    BY <2>1, <2>3 DEF Types, Deleted
  <2> QED BY <2>1, <2>2, <2>4, <2>5, Zenon DEF Types
<1>10. ASSUME NEW g \in Gvrs, SkipBadObject(g) PROVE Types'
  <2>1. /\ todo' \in [Gvrs -> Seq(Notes)]
        /\ \A h \in Gvrs : \A i \in 1..Len(todo'[h]) : GvrOf[todo'[h][i].o] = h
    BY <1>10, TakeTypes, Zenon DEF SkipBadObject
  <2>2. /\ gaps' \subseteq Gvrs
        /\ UNCHANGED <<server, cache, cur, store, persisted, sink, dirty, process, inherited>>
    BY <1>10 DEF SkipBadObject, Gap, Types
  <2> QED BY <2>1, <2>2 DEF Types, server, store, sink, process
<1>11. ASSUME Synced PROVE Types'
  BY <1>11, Zenon DEF Synced, Types, server, client, store, sink
<1>12. ASSUME Restart PROVE Types'
  <2>0. todo' \in [Gvrs -> Seq(Notes)] /\ \A h \in Gvrs : todo'[h] = <<>>
    BY <1>12 DEF Restart
  <2>1. /\ cache' \in [Objects -> Objs \cup {None}] /\ \A p \in Objects : cache'[p] = None
        /\ cur' \in [Gvrs -> {Idle} \cup Extracting \cup Writing] /\ \A h \in Gvrs : cur'[h] = Idle
        /\ persisted' \in [Objects -> 0..MaxRev]
    BY <1>12 DEF Restart, Forgotten
  <2>2. /\ resources' \in [Objects -> Objs \cup {None}]
        /\ \A p \in Objects : resources'[p] \in Object(p) \cup {None}
        /\ secrets' \subseteq SecretIds /\ edges' \subseteq Objects \X Ids
        /\ last' \in [Objects -> Deleted..MaxRev]
    BY <1>12 DEF Restart, Forgotten, Types, store, Deleted, Unrecorded
  <2>3. /\ recorded' = {} /\ duplicated' = {} /\ dirty' = {} /\ gaps' = {} /\ ready' = FALSE
        /\ inherited' \subseteq Objects /\ restarts' \in 0..MaxRestarts
        /\ UNCHANGED <<server, persistent>>
    BY <1>12 DEF Restart, Types
  <2>4. \A h \in Gvrs : \A i \in 1..Len(todo'[h]) : FALSE
    BY <2>0
  <2> QED BY <2>0, <2>1, <2>2, <2>3, <2>4, Zenon DEF Types, server
<1>13. ASSUME UNCHANGED vars PROVE Types'
  BY <1>13 DEF Types, vars, server, client, store, sink, process
<1> QED BY <1>1, <1>2, <1>3, <1>4, <1>5, <1>6, <1>7, <1>8, <1>9, <1>10, <1>11, <1>12, <1>13
        DEF Next, Handler
=============================================================================
