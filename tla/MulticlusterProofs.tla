-------------------------- MODULE MulticlusterProofs --------------------------
(* Proofs about Multicluster for any names, callers and number of members: no *)
(* informer escapes control, and none runs on once the calls have returned.   *)
EXTENDS Multicluster, TLAPS

Entry == [name : Names, cancelled : BOOLEAN, run : {"new", "running", "done"}, err : BOOLEAN]

\* What the argument needs of the types: every number is that of an entry.
Typed ==
    /\ entries \in Seq(Entry)
    /\ clusters \in [Names -> 0..Len(entries)]
    /\ \A n \in Names : clusters[n] # 0 => entries[clusters[n]].name = n
    /\ pc = [t \in Callers |-> pc[t]]
    /\ \A t \in Callers : pc[t].at = "dial" => pc[t].name \in Names
    /\ \A t \in Callers : pc[t].at = "launch" => pc[t].id \in Ids
    /\ \A t \in Callers : pc[t].at \in {"cancel", "wait"} =>
          /\ pc[t] = [at |-> pc[t].at, ids |-> pc[t].ids]
          /\ pc[t].ids \subseteq Ids

\* An entry that is yet to be launched has not run, and one caller launches it.
LaunchInv ==
    \A t \in Callers : pc[t].at = "launch" =>
        /\ entries[pc[t].id].run = "new"
        /\ \A u \in Callers : pc[u].at = "launch" /\ pc[u].id = pc[t].id => u = t

\* An informer that may run is attached, or a caller is going to wait for it.
Attended ==
    \A i \in Ids : entries[i].run # "done" =>
        \/ clusters[entries[i].name] = i
        \/ \E t \in Callers : pc[t].at \in {"cancel", "wait"} /\ i \in pc[t].ids

ControlInv == Typed /\ LaunchInv /\ NoOrphan /\ Attended

\* Every entry made is a clusterEntry.
LEMMA EntryTyped ==
    ASSUME ControlInv
    PROVE  \A i \in Ids : entries[i] \in Entry
<1>1. entries \in Seq(Entry)
  BY DEF ControlInv, Typed
<1> QED BY <1>1 DEF Ids

\* No two callers are about to launch the same entry.
LEMMA LaunchersDiffer ==
    ASSUME ControlInv
    PROVE  \A u, v \in Callers :
              pc[u].at = "launch" /\ pc[v].at = "launch" /\ pc[u].id = pc[v].id => u = v
<1> SUFFICES ASSUME NEW u \in Callers, NEW v \in Callers, pc[u].at = "launch",
                    pc[v].at = "launch", pc[u].id = pc[v].id
             PROVE  u = v
  OBVIOUS
<1> QED BY DEF ControlInv, LaunchInv

\* A new manager has no entries and no callers.
LEMMA ControlInit == Init => ControlInv
<1> SUFFICES ASSUME Init PROVE ControlInv
  OBVIOUS
<1>1. Len(entries) = 0 /\ Ids = {} /\ entries \in Seq(Entry)
  BY DEF Init, Ids
<1>2. \A t \in Callers : pc[t].at = "idle"
  BY DEF Init, Idle
<1>3. Typed
  BY <1>1, <1>2 DEF Init, Typed
<1>4. LaunchInv /\ NoOrphan /\ Attended
  BY <1>1, <1>2 DEF LaunchInv, NoOrphan, Attended
<1> QED BY <1>3, <1>4 DEF ControlInv

\* A caller that only moves between states in which it neither launches nor
\* holds entries disturbs nothing.
LEMMA MoveKeeps ==
    ASSUME ControlInv, NEW t \in Callers, NEW c,
           pc[t].at \notin {"cancel", "wait"},
           pc' = [pc EXCEPT ![t] = c],
           c.at \in {"idle", "dial"}, c.at = "dial" => c.name \in Names,
           UNCHANGED <<clusters, entries>>
    PROVE  ControlInv'
<1>1. \A u \in Callers : pc'[u] = IF u = t THEN c ELSE pc[u]
  BY DEF ControlInv, Typed
<1>2. Typed'
  BY <1>1 DEF ControlInv, Typed, Ids
<1>3. LaunchInv'
  BY <1>1 DEF ControlInv, LaunchInv
<1>4. NoOrphan' /\ Attended'
  BY <1>1 DEF ControlInv, NoOrphan, Attended, Ids
<1> QED BY <1>2, <1>3, <1>4 DEF ControlInv

\* AddCluster after the dial: the name was free, so no entry loses its place.
LEMMA AdoptKeeps ==
    ASSUME ControlInv, NEW t \in Callers, Adopt(t)
    PROVE  ControlInv'
<1> DEFINE n == pc[t].name
           id == Len(entries) + 1
           e == [name |-> n, cancelled |-> FALSE, run |-> "new", err |-> FALSE]
<1>1. CASE Taken(n)
  <2>1. pc' = [pc EXCEPT ![t] = Idle] /\ UNCHANGED <<clusters, entries>> /\ pc[t].at = "dial"
    BY <1>1 DEF Adopt
  <2> QED BY <2>1, MoveKeeps DEF Idle
<1>2. CASE ~Taken(n)
  <2>1. /\ pc[t].at = "dial" /\ n \in Names /\ clusters[n] = 0
        /\ entries' = Append(entries, e)
        /\ clusters' = [clusters EXCEPT ![n] = id]
        /\ pc' = [pc EXCEPT ![t] = [at |-> "launch", id |-> id]]
    BY <1>2 DEF Adopt, Taken, ControlInv, Typed
  <2>2. /\ entries' \in Seq(Entry) /\ Len(entries') = id /\ entries'[id] = e
        /\ \A i \in Ids : entries'[i] = entries[i]
        /\ Ids' = Ids \cup {id} /\ id \notin Ids /\ id # 0 /\ Ids \subseteq Nat \ {0}
        /\ Len(entries) \in Nat
    <3>1. e \in Entry /\ entries \in Seq(Entry)
      BY <2>1 DEF Entry, ControlInv, Typed
    <3> HIDE DEF e
    <3>2. /\ entries' \in Seq(Entry) /\ Len(entries') = id /\ entries'[id] = e
          /\ \A i \in 1..Len(entries) : entries'[i] = entries[i]
          /\ Len(entries) \in Nat
      BY <3>1, <2>1
    <3> QED BY <3>2 DEF Ids
  <2>3. /\ \A u \in Callers : pc'[u] = IF u = t THEN [at |-> "launch", id |-> id] ELSE pc[u]
        /\ \A k \in Names : clusters'[k] = IF k = n THEN id ELSE clusters[k]
    BY <2>1 DEF ControlInv, Typed
  <2>4. Typed'
    <3>1. clusters' \in [Names -> 0..Len(entries')]
      BY <2>1, <2>2 DEF ControlInv, Typed
    <3>2. \A k \in Names : clusters'[k] # 0 => entries'[clusters'[k]].name = k
      BY <2>2, <2>3 DEF ControlInv, Typed, Ids
    <3>3. pc' = [u \in Callers |-> pc'[u]]
      BY <2>1 DEF ControlInv, Typed
    <3>4. \A u \in Callers : pc'[u].at = "dial" => pc'[u].name \in Names
      BY <2>3 DEF ControlInv, Typed
    <3>5. \A u \in Callers : pc'[u].at = "launch" => pc'[u].id \in Ids'
      BY <2>2, <2>3 DEF ControlInv, Typed
    <3>6. \A u \in Callers : pc'[u].at \in {"cancel", "wait"} =>
             /\ pc'[u] = [at |-> pc'[u].at, ids |-> pc'[u].ids]
             /\ pc'[u].ids \subseteq Ids'
      BY <2>2, <2>3 DEF ControlInv, Typed
    <3> QED BY <2>2, <3>1, <3>2, <3>3, <3>4, <3>5, <3>6 DEF Typed
  <2>5. LaunchInv'
    <3>1. \A u \in Callers : u # t /\ pc'[u].at = "launch" => pc[u].id \in Ids /\ pc'[u] = pc[u]
      BY <2>3 DEF ControlInv, Typed
    <3>2. pc'[t].at = "launch" /\ pc'[t].id = id /\ entries'[id].run = "new"
      BY <2>2, <2>3
    <3>3. \A u \in Callers : pc'[u].at = "launch" => entries'[pc'[u].id].run = "new"
      <4> SUFFICES ASSUME NEW u \in Callers, u # t, pc'[u].at = "launch"
                   PROVE  entries'[pc'[u].id].run = "new"
        BY <3>2
      <4>1. pc'[u] = pc[u] /\ entries[pc[u].id].run = "new" /\ pc[u].id \in Ids
        BY <3>1 DEF ControlInv, LaunchInv
      <4>2. entries'[pc[u].id] = entries[pc[u].id]
        BY <2>2, <4>1
      <4> QED BY <4>1, <4>2
    <3>4. \A u, v \in Callers :
             pc'[u].at = "launch" /\ pc'[v].at = "launch" /\ pc'[u].id = pc'[v].id => u = v
      <4>1. \A u \in Callers : u # t /\ pc'[u].at = "launch" => pc'[u].id # id
        BY <2>2, <3>1
      <4>2. \A u, v \in Callers :
               pc[u].at = "launch" /\ pc[v].at = "launch" /\ pc[u].id = pc[v].id => u = v
        BY LaunchersDiffer
      <4>3. ASSUME NEW u \in Callers, NEW v \in Callers, u # t, v # t,
                   pc'[u].at = "launch", pc'[v].at = "launch", pc'[u].id = pc'[v].id
            PROVE  u = v
        <5>1. pc'[u] = pc[u] /\ pc'[v] = pc[v]
          BY <3>1, <4>3
        <5>2. pc[u].at = "launch" /\ pc[v].at = "launch" /\ pc[u].id = pc[v].id
          BY <5>1, <4>3
        <5> QED BY <5>2, <4>2
      <4> HIDE DEF id
      <4> QED BY <4>1, <4>3, <3>2
    <3> QED BY <3>3, <3>4 DEF LaunchInv
  <2>6. \A i \in Ids : entries[i].name \in Names
    BY EntryTyped DEF Entry
  <2>7. \A i \in Ids : clusters[entries[i].name] = i => clusters'[entries[i].name] = i
    BY <2>1, <2>2, <2>3, <2>6
  <2>8. clusters'[entries'[id].name] = id
    BY <2>1, <2>2, <2>3
  <2>9. \A u \in Callers : pc[u].at \in {"cancel", "wait"} => pc'[u] = pc[u]
    BY <2>1, <2>3
  <2>10. NoOrphan'
    BY <2>2, <2>7, <2>8, <2>9 DEF ControlInv, NoOrphan
  <2>11. Attended'
    BY <2>2, <2>7, <2>8, <2>9 DEF ControlInv, Attended
  <2> QED BY <2>4, <2>5, <2>10, <2>11 DEF ControlInv
<1> QED BY <1>1, <1>2

\* A change of one entry that keeps its name.
LEMMA EntryChange ==
    ASSUME ControlInv, NEW i \in Ids, NEW e \in Entry, e.name = entries[i].name,
           entries' = [entries EXCEPT ![i] = e]
    PROVE  /\ entries' \in Seq(Entry) /\ Len(entries') = Len(entries) /\ Ids' = Ids
           /\ \A k \in Ids : entries'[k] = IF k = i THEN e ELSE entries[k]
           /\ \A k \in Ids : entries'[k].name = entries[k].name
<1>1. entries \in Seq(Entry) /\ i \in 1..Len(entries)
  BY DEF ControlInv, Typed, Ids
<1>2. /\ entries' \in Seq(Entry) /\ Len(entries') = Len(entries)
      /\ \A k \in 1..Len(entries) : entries'[k] = IF k = i THEN e ELSE entries[k]
  BY <1>1
<1> QED BY <1>2 DEF Ids

\* The informer starts: its entry was new, so it was attended before.
LEMMA LaunchKeeps ==
    ASSUME ControlInv, NEW t \in Callers, Launch(t)
    PROVE  ControlInv'
<1> DEFINE i == pc[t].id
           e == Launched(entries[i])
<1>1. /\ pc[t].at = "launch" /\ i \in Ids /\ entries[i].run = "new"
      /\ entries' = [entries EXCEPT ![i] = e]
      /\ pc' = [pc EXCEPT ![t] = Idle] /\ UNCHANGED clusters
  BY DEF Launch, ControlInv, Typed, LaunchInv
<1>2. /\ e \in Entry /\ e.name = entries[i].name
      /\ e.cancelled = entries[i].cancelled /\ e.run = "running"
  BY <1>1, EntryTyped DEF Launched, Entry
<1> HIDE DEF e
<1>3. /\ entries' \in Seq(Entry) /\ Len(entries') = Len(entries) /\ Ids' = Ids
      /\ \A k \in Ids : entries'[k] = IF k = i THEN e ELSE entries[k]
      /\ \A k \in Ids : entries'[k].name = entries[k].name
  BY <1>1, <1>2, EntryChange
<1>4. /\ \A u \in Callers : pc'[u] = IF u = t THEN Idle ELSE pc[u]
      /\ pc' = [u \in Callers |-> pc'[u]] /\ Idle.at = "idle"
  BY <1>1 DEF ControlInv, Typed, Idle
<1> HIDE DEF i
<1>5. Typed'
  <2>1. \A n \in Names : clusters[n] # 0 => clusters[n] \in Ids
    BY DEF ControlInv, Typed, Ids
  <2>2. \A n \in Names : clusters'[n] # 0 => entries'[clusters'[n]].name = n
    BY <1>1, <1>3, <2>1 DEF ControlInv, Typed
  <2> QED BY <1>1, <1>3, <1>4, <2>2 DEF ControlInv, Typed
<1>6. LaunchInv'
  <2> SUFFICES ASSUME NEW u \in Callers, pc'[u].at = "launch"
               PROVE  /\ entries'[pc'[u].id].run = "new"
                      /\ \A v \in Callers : pc'[v].at = "launch" /\ pc'[v].id = pc'[u].id => v = u
    BY DEF LaunchInv
  <2>1. u # t /\ pc'[u] = pc[u] /\ pc[u].id \in Ids /\ entries[pc[u].id].run = "new"
    BY <1>4 DEF ControlInv, Typed, LaunchInv
  <2>2. pc[u].id # i
    BY <1>1, <2>1 DEF ControlInv, LaunchInv, i
  <2>3. entries'[pc'[u].id].run = "new"
    BY <1>3, <2>1, <2>2
  <2> QED BY <2>1, <2>3, <1>4 DEF ControlInv, LaunchInv
<1>7. \A u \in Callers : pc[u].at \in {"cancel", "wait"} => pc'[u] = pc[u]
  BY <1>1, <1>4
<1>8. NoOrphan'
  BY <1>1, <1>2, <1>3, <1>7 DEF ControlInv, NoOrphan
<1>9. Attended'
  BY <1>1, <1>2, <1>3, <1>7 DEF ControlInv, Attended
<1> QED BY <1>5, <1>6, <1>8, <1>9 DEF ControlInv

\* The goroutine of a member ends.
LEMMA DoneKeeps ==
    ASSUME ControlInv, NEW i \in Ids, NEW e \in Entry, entries[i].run = "running",
           e.name = entries[i].name, e.run = "done",
           entries' = [entries EXCEPT ![i] = e], UNCHANGED <<clusters, pc>>
    PROVE  ControlInv'
<1>1. /\ entries' \in Seq(Entry) /\ Len(entries') = Len(entries) /\ Ids' = Ids
      /\ \A k \in Ids : entries'[k] = IF k = i THEN e ELSE entries[k]
      /\ \A k \in Ids : entries'[k].name = entries[k].name
  BY EntryChange
<1>2. \A n \in Names : clusters[n] # 0 => clusters[n] \in Ids
  BY DEF ControlInv, Typed, Ids
<1>3. \A n \in Names : clusters'[n] # 0 => entries'[clusters'[n]].name = n
  BY <1>1, <1>2 DEF ControlInv, Typed
<1>4. Typed'
  BY <1>1, <1>3 DEF ControlInv, Typed
<1>5. LaunchInv'
  <2>1. \A u \in Callers : pc[u].at = "launch" => pc[u].id \in Ids /\ pc[u].id # i
    BY DEF ControlInv, Typed, LaunchInv
  <2> QED BY <1>1, <2>1 DEF ControlInv, LaunchInv
<1>6. NoOrphan' /\ Attended'
  BY <1>1 DEF ControlInv, NoOrphan, Attended
<1> QED BY <1>4, <1>5, <1>6 DEF ControlInv

\* RemoveCluster and Stop: the entries of some names leave the map for the
\* hands of a caller.
LEMMA TakeOutKeeps ==
    ASSUME ControlInv, NEW t \in Callers, NEW S \in SUBSET Names, pc[t].at = "idle",
           clusters' = [n \in Names |-> IF n \in S THEN 0 ELSE clusters[n]],
           pc' = [pc EXCEPT ![t] = [at |-> "cancel", ids |-> {clusters[n] : n \in S} \ {0}]],
           UNCHANGED entries
    PROVE  ControlInv'
<1> DEFINE held == {clusters[n] : n \in S} \ {0}
           c == [at |-> "cancel", ids |-> held]
<1>1. /\ \A u \in Callers : pc'[u] = IF u = t THEN c ELSE pc[u]
      /\ pc' = [u \in Callers |-> pc'[u]] /\ pc[t].at = "idle"
      /\ c.at = "cancel" /\ c.ids = held /\ c = [at |-> c.at, ids |-> c.ids]
  <2>1. pc' = [pc EXCEPT ![t] = c] /\ pc = [u \in Callers |-> pc[u]]
    BY DEF ControlInv, Typed
  <2>2. c.at = "cancel" /\ c.ids = held
    OBVIOUS
  <2> HIDE DEF held
  <2>3. c = [at |-> c.at, ids |-> c.ids]
    BY <2>2
  <2> HIDE DEF c
  <2> QED BY <2>1, <2>2, <2>3
<1>2. held \subseteq Ids /\ Ids' = Ids /\ 0 \notin Ids
  BY DEF ControlInv, Typed, Ids
<1>3. \A i \in Ids : entries[i].name \in Names
  BY EntryTyped DEF Entry
<1>4. \A i \in Ids : clusters[entries[i].name] = i => clusters'[entries[i].name] = i \/ i \in held
  BY <1>2, <1>3
<1> HIDE DEF c, held
<1>5. clusters' \in [Names -> 0..Len(entries')]
  BY DEF ControlInv, Typed
<1>6. Typed'
  <2>1. \A n \in Names : clusters'[n] # 0 => entries'[clusters'[n]].name = n
    BY DEF ControlInv, Typed
  <2> QED BY <1>1, <1>2, <1>5, <2>1 DEF ControlInv, Typed
<1>7. LaunchInv'
  BY <1>1 DEF ControlInv, LaunchInv
<1>8. NoOrphan'
  BY <1>1, <1>2, <1>4 DEF ControlInv, NoOrphan
<1>9. Attended'
  BY <1>1, <1>2, <1>4 DEF ControlInv, Attended
<1> QED BY <1>6, <1>7, <1>8, <1>9 DEF ControlInv

\* The entries a caller holds are cancelled, and it goes on to wait for them.
LEMMA CancelKeeps ==
    ASSUME ControlInv, NEW t \in Callers, Cancel(t)
    PROVE  ControlInv'
<1> DEFINE c == [pc[t] EXCEPT !.at = "wait"]
<1>1. /\ pc[t].at = "cancel"
      /\ entries' = [i \in Ids |-> IF i \in pc[t].ids
                                   THEN [entries[i] EXCEPT !.cancelled = TRUE] ELSE entries[i]]
      /\ pc' = [pc EXCEPT ![t] = c] /\ UNCHANGED clusters
  BY DEF Cancel
<1>2. /\ entries' \in Seq(Entry) /\ Len(entries') = Len(entries) /\ Ids' = Ids
      /\ \A i \in Ids : /\ entries'[i].name = entries[i].name /\ entries'[i].run = entries[i].run
                        /\ (entries[i].cancelled \/ i \in pc[t].ids => entries'[i].cancelled)
  <2>1. \A i \in Ids : /\ entries'[i] \in Entry
                       /\ entries'[i].name = entries[i].name /\ entries'[i].run = entries[i].run
                       /\ (entries[i].cancelled \/ i \in pc[t].ids => entries'[i].cancelled)
    BY <1>1, EntryTyped DEF Entry
  <2>2. Len(entries) \in Nat /\ entries' = [i \in 1..Len(entries) |-> entries'[i]]
    BY <1>1 DEF ControlInv, Typed, Ids
  <2>3. entries' \in [1..Len(entries) -> Entry]
    BY <2>1, <2>2 DEF Ids
  <2>4. entries' \in Seq(Entry) /\ Len(entries') = Len(entries)
    BY <2>2, <2>3
  <2> QED BY <2>1, <2>4 DEF Ids
<1>3. /\ \A u \in Callers : u # t => pc'[u] = pc[u]
      /\ pc'[t] = c /\ pc' = [u \in Callers |-> pc'[u]]
  BY <1>1 DEF ControlInv, Typed
<1>4. /\ pc'[t].at = "wait" /\ pc'[t].ids = pc[t].ids
      /\ pc'[t] = [at |-> pc'[t].at, ids |-> pc'[t].ids]
  <2>1. pc[t] = [at |-> pc[t].at, ids |-> pc[t].ids]
    BY <1>1 DEF ControlInv, Typed
  <2>2. c = [at |-> "wait", ids |-> pc[t].ids]
    BY <2>1
  <2> QED BY <1>3, <2>2
<1> HIDE DEF c
<1>5. Typed'
  <2>1. \A n \in Names : clusters[n] # 0 => clusters[n] \in Ids
    BY DEF ControlInv, Typed, Ids
  <2>2. \A n \in Names : clusters'[n] # 0 => entries'[clusters'[n]].name = n
    BY <1>1, <1>2, <2>1 DEF ControlInv, Typed
  <2> QED BY <1>1, <1>2, <1>3, <1>4, <2>2 DEF ControlInv, Typed
<1>6. LaunchInv'
  <2>1. \A u \in Callers : pc'[u].at = "launch" => pc'[u] = pc[u] /\ pc[u].id \in Ids
    BY <1>3, <1>4 DEF ControlInv, Typed
  <2> SUFFICES ASSUME NEW u \in Callers, pc'[u].at = "launch"
               PROVE  /\ entries'[pc'[u].id].run = "new"
                      /\ \A v \in Callers : pc'[v].at = "launch" /\ pc'[v].id = pc'[u].id => v = u
    BY DEF LaunchInv
  <2>2. pc'[u] = pc[u] /\ pc[u].id \in Ids /\ entries[pc[u].id].run = "new"
    BY <2>1 DEF ControlInv, LaunchInv
  <2>3. entries'[pc'[u].id].run = "new"
    BY <1>2, <2>2
  <2>4. \A v \in Callers : pc'[v].at = "launch" /\ pc'[v].id = pc'[u].id => v = u
    BY <2>1, <2>2, LaunchersDiffer
  <2> QED BY <2>3, <2>4
<1>7. NoOrphan'
  <2> SUFFICES ASSUME NEW i \in Ids, entries'[i].run # "done", ~entries'[i].cancelled
               PROVE  \/ clusters'[entries'[i].name] = i
                      \/ \E u \in Callers : pc'[u].at = "cancel" /\ i \in pc'[u].ids
    BY <1>2 DEF NoOrphan
  <2>1. entries[i].run # "done" /\ ~entries[i].cancelled /\ i \notin pc[t].ids
    BY <1>2
  <2>2. \/ clusters[entries[i].name] = i
        \/ \E u \in Callers \ {t} : pc[u].at = "cancel" /\ i \in pc[u].ids
    BY <2>1 DEF ControlInv, NoOrphan
  <2> QED BY <1>1, <1>2, <1>3, <2>2
<1>8. Attended'
  BY <1>1, <1>2, <1>3, <1>4 DEF ControlInv, Attended
<1> QED BY <1>5, <1>6, <1>7, <1>8 DEF ControlInv

\* A caller returns when all it waits for has ended.
LEMMA ReturnKeeps ==
    ASSUME ControlInv, NEW t \in Callers, Return(t)
    PROVE  ControlInv'
<1>1. /\ pc[t].at = "wait" /\ \A i \in pc[t].ids : entries[i].run = "done"
      /\ pc' = [pc EXCEPT ![t] = Idle] /\ UNCHANGED <<clusters, entries>>
  BY DEF Return, AllDone
<1>2. /\ \A u \in Callers : pc'[u] = IF u = t THEN Idle ELSE pc[u]
      /\ pc' = [u \in Callers |-> pc'[u]] /\ Idle.at = "idle"
  BY <1>1 DEF ControlInv, Typed, Idle
<1>3. Ids' = Ids
  BY <1>1 DEF Ids
<1>4. Typed' /\ LaunchInv'
  BY <1>1, <1>2, <1>3 DEF ControlInv, Typed, LaunchInv
<1>5. NoOrphan' /\ Attended'
  BY <1>1, <1>2, <1>3 DEF ControlInv, NoOrphan, Attended
<1> QED BY <1>4, <1>5 DEF ControlInv

\* Every step of the callers and of the members keeps the invariant.
LEMMA ControlNext == ControlInv /\ [Next]_vars => ControlInv'
<1> SUFFICES ASSUME ControlInv, [Next]_vars PROVE ControlInv'
  OBVIOUS
<1>1. ASSUME NEW t \in Callers, NEW n \in Names, AddCluster(t, n) PROVE ControlInv'
  <2>1. [at |-> "dial", name |-> n].at = "dial" /\ [at |-> "dial", name |-> n].name = n
    OBVIOUS
  <2> QED BY <1>1, <2>1, MoveKeeps DEF AddCluster, Busy
<1>2. ASSUME NEW t \in Callers, NEW n \in Names, RemoveCluster(t, n) PROVE ControlInv'
  <2>1. /\ clusters' = [k \in Names |-> IF k \in {n} THEN 0 ELSE clusters[k]]
        /\ {clusters[k] : k \in {n}} \ {0} = {clusters[n]}
    BY <1>2 DEF RemoveCluster, ControlInv, Typed
  <2> QED BY <1>2, <2>1, TakeOutKeeps DEF RemoveCluster, Busy
<1>3. ASSUME NEW t \in Callers, Stop(t) PROVE ControlInv'
  <2>1. clusters' = [n \in Names |-> IF n \in Names THEN 0 ELSE clusters[n]]
    BY <1>3 DEF Stop
  <2> QED BY <1>3, <2>1, TakeOutKeeps DEF Stop, Busy
<1>4. ASSUME NEW t \in Callers, DialFails(t) PROVE ControlInv'
  BY <1>4, MoveKeeps DEF DialFails, Idle
<1>5. ASSUME NEW t \in Callers, Adopt(t) \/ Launch(t) \/ Cancel(t) \/ Return(t)
      PROVE  ControlInv'
  BY <1>5, AdoptKeeps, LaunchKeeps, CancelKeeps, ReturnKeeps
<1>6. ASSUME NEW i \in Ids, Fails(i) PROVE ControlInv'
  <2>1. Failed(entries[i]) \in Entry /\ Failed(entries[i]).name = entries[i].name
        /\ Failed(entries[i]).run = "done"
    BY EntryTyped DEF Failed, Entry
  <2> QED BY <1>6, <2>1, DoneKeeps DEF Fails
<1>7. ASSUME NEW i \in Ids, Stopped(i) PROVE ControlInv'
  <2> DEFINE e == [entries[i] EXCEPT !.run = "done"]
  <2>1. e \in Entry /\ e.name = entries[i].name /\ e.run = "done"
    BY EntryTyped DEF Entry
  <2>2. entries' = [entries EXCEPT ![i] = e] /\ entries[i].run = "running"
        /\ UNCHANGED <<clusters, pc>>
    BY <1>7 DEF Stopped
  <2> HIDE DEF e
  <2> QED BY <2>1, <2>2, DoneKeeps
<1>8. CASE UNCHANGED <<clusters, entries, pc>>
  BY <1>8 DEF ControlInv, Typed, LaunchInv, NoOrphan, Attended, Ids
<1> QED BY <1>1, <1>2, <1>3, <1>4, <1>5, <1>6, <1>7, <1>8
        DEF Next, Call, Step, Shutdown, vars

\* AddCluster, RemoveCluster and Stop, in every interleaving of any number of
\* callers: the control invariant that the next two rest on.
THEOREM ControlInvariant == Spec => []ControlInv
BY ControlInit, ControlNext, PTL DEF Spec

\* No member that may run escapes the manager: it is attached under its name,
\* cancelled, or in the hands of a caller that is about to cancel it.
THEOREM NoMemberEscapes == Spec => []NoOrphan
<1>1. ControlInv => NoOrphan
  BY DEF ControlInv
<1> QED BY <1>1, ControlInvariant, PTL

\* When every AddCluster, RemoveCluster and Stop has returned, an informer that
\* still runs is that of an attached member.
THEOREM RemovedMembersAreQuiet == Spec => []QuietWhenRemoved
<1>1. ControlInv => QuietWhenRemoved
  BY DEF ControlInv, Attended, QuietWhenRemoved, Busy
<1> QED BY <1>1, ControlInvariant, PTL
=============================================================================
