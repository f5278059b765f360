--------------------------- MODULE CoverageProofs ---------------------------
(***************************************************************************)
(* Proofs about Coverage for every set of resource types, every number of  *)
(* sessions, registrations, streams and late callbacks: a row says that it *)
(* is watched exactly when the collector at work has an unfailed stream,   *)
(* recorded gaps stay, nothing is observed without evidence, and the       *)
(* continuity revision counts every change of it.                          *)
(***************************************************************************)
EXTENDS Coverage, TLAPS

-----------------------------------------------------------------------------
(* What the tracker does to one row. *)

\* A row changes only with its revision, keeps its registration and its gaps,
\* and has no time of interruption while it is established.
RowGoes(r, q) ==
    /\ q \in Row /\ q.tok = r.tok /\ r.gaps \subseteq q.gaps
    /\ q.est => q.since = 0 /\ ~q.stopped
    /\ q.revision >= r.revision
    /\ q # r => q.revision > r.revision

\* The callbacks that are not about the watch.
Steady(r, q) == q.epoch = r.epoch /\ (q.est <=> r.est) /\ (q.stopped <=> r.stopped)

RowSound(r) == (r.est => r.since = 0 /\ ~r.stopped) /\ r.revision > 0

LEMMA RowIsPresent == NoRow \notin Row
<1>1. ASSUME NEW r \in Row, r = NoRow PROVE FALSE
  <2>1. r.tok \in 0..MaxTok
    BY DEF Row
  <2>2. r.tok = -1
    BY <1>1 DEF NoRow
  <2> QED BY <2>1, <2>2
<1> QED BY <1>1

LEMMA RowTypes ==
    ASSUME NEW r \in Row
    PROVE  /\ r.revision \in Nat /\ r.revision + 1 \in Nat /\ r.revision + 1 > r.revision
           /\ r.epoch \in Nat /\ r.epoch + 1 \in Nat
           /\ r.since \in 0..MaxClock /\ r.gaps \in SUBSET Kinds /\ r.tok \in 0..MaxTok
<1>1. r.revision \in Nat /\ r.epoch \in Nat
  BY DEF Row
<1>2. r.since \in 0..MaxClock /\ r.gaps \in SUBSET Kinds /\ r.tok \in 0..MaxTok
  BY DEF Row
<1> QED BY <1>1, <1>2

LEMMA FreshRow ==
    ASSUME TypeOK, NEW t \in 0..MaxTok, NEW G \in SUBSET Kinds, NEW n \in Nat
    PROVE  /\ Fresh(t, G, n) \in Row
           /\ Fresh(t, G, n).tok = t /\ Fresh(t, G, n).gaps = G /\ Fresh(t, G, n).revision = n
           /\ ~Fresh(t, G, n).est /\ ~Fresh(t, G, n).stopped
<1>1. 0 \in 0..MaxClock
  BY CoverageAssumption
<1> QED BY <1>1 DEF Fresh, Row, Reasons

LEMMA HaltedRow ==
    ASSUME TypeOK, NEW r \in Row, NEW n \in Nat
    PROVE  /\ Halted(r, n) \in Row /\ Halted(r, n).tok = r.tok /\ Halted(r, n).gaps = r.gaps
           /\ Halted(r, n).revision = n /\ Halted(r, n).stopped /\ ~Halted(r, n).est
<1>1. clock \in 0..MaxClock
  BY CoverageAssumption DEF TypeOK
<1> QED BY <1>1 DEF Halted, Row

LEMMA DeliveredRow ==
    ASSUME NEW r \in Row, RowSound(r),
           NEW q, q = IF r.done THEN r ELSE [r EXCEPT !.done = TRUE, !.revision = @ + 1]
    PROVE  RowGoes(r, q) /\ Steady(r, q)
<1>1. CASE r.done
  BY <1>1, RowTypes DEF RowGoes, Steady, RowSound
<1>2. CASE ~r.done
  <2>1. PICK n \in Nat : n = r.revision + 1 /\ n > r.revision
    BY RowTypes
  <2>2. q = [r EXCEPT !.done = TRUE, !.revision = n]
    BY <1>2, <2>1
  <2>3. q \in Row /\ q.tok = r.tok /\ q.gaps = r.gaps /\ q.revision = n /\ q.since = r.since
    BY <2>2 DEF Row
  <2>4. Steady(r, q)
    BY <2>2 DEF Row, Steady
  <2>5. q.est => q.since = 0 /\ ~q.stopped
    BY <2>3, <2>4 DEF RowSound, Steady
  <2> QED BY <2>1, <2>3, <2>4, <2>5, RowTypes DEF RowGoes
<1> QED BY <1>1, <1>2

LEMMA ListedRow ==
    ASSUME NEW r \in Row, RowSound(r), NEW result \in {"ok"} \cup Failures,
           NEW q, q = [r EXCEPT !.list = result, !.revision = @ + 1]
    PROVE  RowGoes(r, q) /\ Steady(r, q)
<1>1. PICK n \in Nat : n = r.revision + 1 /\ n > r.revision
  BY RowTypes
<1>2. q = [r EXCEPT !.list = result, !.revision = n]
  BY <1>1
<1>3. q \in Row /\ q.tok = r.tok /\ q.gaps = r.gaps /\ q.revision = n /\ q.since = r.since
  BY <1>2 DEF Row
<1>4. Steady(r, q)
  BY <1>2 DEF Row, Steady
<1>5. q.est => q.since = 0 /\ ~q.stopped
  BY <1>3, <1>4 DEF RowSound, Steady
<1> QED BY <1>1, <1>3, <1>4, <1>5, RowTypes DEF RowGoes

LEMMA GapRow ==
    ASSUME NEW r \in Row, RowSound(r), NEW kind \in Kinds, NEW q, q = WithGap(r, kind)
    PROVE  RowGoes(r, q) /\ Steady(r, q) /\ kind \in q.gaps
<1>1. CASE kind \in r.gaps
  BY <1>1, RowTypes DEF WithGap, RowGoes, Steady, RowSound
<1>2. CASE kind \notin r.gaps
  <2>1. PICK n \in Nat : n = r.revision + 1 /\ n > r.revision
    BY RowTypes
  <2>2. PICK G \in SUBSET Kinds : G = r.gaps \cup {kind}
    BY RowTypes
  <2>3. q = [r EXCEPT !.gaps = G, !.revision = n]
    BY <1>2, <2>1, <2>2 DEF WithGap
  <2>4. q \in Row /\ q.tok = r.tok /\ q.gaps = G /\ q.revision = n /\ q.since = r.since
    BY <2>3 DEF Row
  <2>5. Steady(r, q)
    BY <2>3 DEF Row, Steady
  <2>6. q.est => q.since = 0 /\ ~q.stopped
    BY <2>4, <2>5 DEF RowSound, Steady
  <2> QED BY <2>1, <2>2, <2>4, <2>5, <2>6, RowTypes DEF RowGoes
<1> QED BY <1>1, <1>2

LEMMA StartedRow ==
    ASSUME NEW r \in Row, RowSound(r), ~r.stopped,
           NEW q, q = [r EXCEPT !.epoch = r.epoch + 1, !.est = TRUE, !.watch = "ok",
                                !.since = 0, !.revision = @ + 1]
    PROVE  RowGoes(r, q) /\ q.epoch = r.epoch + 1 /\ q.est /\ ~q.stopped
<1>1. PICK n \in Nat : n = r.revision + 1 /\ n > r.revision
  BY RowTypes
<1>2. PICK e \in Nat : e = r.epoch + 1
  BY RowTypes
<1>3. PICK z \in 0..MaxClock : z = 0
  BY CoverageAssumption
<1>4. q = [r EXCEPT !.epoch = e, !.est = TRUE, !.watch = "ok", !.since = z, !.revision = n]
  BY <1>1, <1>2, <1>3
<1>5. q \in Row /\ q.tok = r.tok /\ q.gaps = r.gaps /\ q.revision = n /\ q.since = z /\ q.epoch = e
  BY <1>4 DEF Row, Reasons
<1>6. q.est /\ ~q.stopped
  BY <1>4 DEF Row
<1> QED BY <1>1, <1>2, <1>3, <1>5, <1>6, RowTypes DEF RowGoes

LEMMA EndedRow ==
    ASSUME TypeOK, NEW r \in Row, RowSound(r), NEW epoch \in Nat,
           NEW reason \in Failures \cup {"closed"}, NEW q, q = Ended(r, epoch, reason)
    PROVE  /\ RowGoes(r, q) /\ q.epoch = r.epoch /\ (q.stopped <=> r.stopped)
           /\ q.est <=> r.est /\ epoch # 0 /\ r.epoch # epoch
<1>1. CASE epoch # 0 /\ r.epoch # epoch
  BY <1>1, RowTypes DEF Ended, RowGoes, RowSound
<1>2. CASE ~(epoch # 0 /\ r.epoch # epoch)
  <2>1. PICK n \in Nat : n = r.revision + 1 /\ n > r.revision
    BY RowTypes
  <2>2. PICK z \in 0..MaxClock : z = IF r.since = 0 THEN clock ELSE r.since
    <3>1. clock \in 0..MaxClock
      BY CoverageAssumption DEF TypeOK
    <3> QED BY <3>1, RowTypes
  <2>3. PICK v \in Reasons : v = IF reason # "closed" \/ r.watch \in {"ok", "pending"} THEN reason ELSE r.watch
    <3>1. r.watch \in Reasons
      BY DEF Row
    <3> QED BY <3>1 DEF Reasons
  <2>4. q = [r EXCEPT !.est = FALSE, !.revision = n, !.since = z, !.watch = v]
    BY <1>2, <2>1, <2>2, <2>3 DEF Ended
  <2>5. q \in Row /\ q.tok = r.tok /\ q.gaps = r.gaps /\ q.revision = n /\ q.epoch = r.epoch
    BY <2>4 DEF Row
  <2>6. ~q.est /\ (q.stopped <=> r.stopped)
    BY <2>4 DEF Row
  <2> QED BY <1>2, <2>1, <2>5, <2>6, RowTypes DEF RowGoes
<1> QED BY <1>1, <1>2

-----------------------------------------------------------------------------
(* The inductive invariant. *)

RowInv == \A g \in Gvrs : Present(g) => RowSound(rows[g]) /\ rows[g].tok <= tok

\* A row that is not stopped belongs to the last handle of the running session.
HandleInv ==
    /\ \A h \in handles : h.gen <= gen
    /\ \A h \in handles : h.gen = gen => Present(h.g) /\ h.tok <= rows[h.g].tok
    /\ \A g \in Gvrs : Present(g) /\ ~rows[g].stopped =>
          ~stopped /\ [gen |-> gen, tok |-> rows[g].tok, g |-> g] \in handles

\* The stream of a handle in charge carries the epoch of the row.
StreamInv ==
    /\ \A s, t \in streams : s.h = t.h => s = t
    /\ \A s \in streams : InCharge(s.h) => s.epoch # 0 /\ s.epoch = rows[s.h.g].epoch
    /\ \A x \in errors : InCharge(x.h) => x.epoch # 0

Watched(g) == \E s \in streams : s.h.g = g /\ InCharge(s.h) /\ ~s.bad

EstInv == \A g \in Gvrs : Present(g) => (rows[g].est <=> Watched(g))

CoverageInv ==
    /\ TypeOK /\ RowInv /\ HandleInv /\ StreamInv /\ EstInv /\ GapsAreSticky
    /\ refused => limited

\* The token in the row is the newest of the session, so the tracker's own
\* test for a callback is right: it comes from the collector at work.
LEMMA InChargeIsCollecting ==
    ASSUME TypeOK, HandleInv, NEW h \in handles
    PROVE  InCharge(h) <=> Collecting(h)
<1>1. h.g \in Gvrs /\ h.tok \in Int
  BY DEF TypeOK, Handle
<1>2. ASSUME InCharge(h) PROVE Collecting(h)
  BY <1>2 DEF InCharge, Collecting, HandleInv
<1>3. ASSUME Collecting(h) PROVE InCharge(h)
  <2>1. h.gen = gen /\ ~stopped /\ ~rows[h.g].stopped /\ Present(h.g) /\ h.tok <= rows[h.g].tok
    BY <1>3 DEF Collecting, HandleInv
  <2>2. [gen |-> gen, tok |-> rows[h.g].tok, g |-> h.g] \in handles
    BY <1>1, <2>1 DEF HandleInv
  <2>3. rows[h.g].tok <= h.tok
    BY <1>3, <2>2 DEF Collecting
  <2>4. rows[h.g].tok \in Int
    BY <1>1, <2>1, RowTypes DEF TypeOK, Present
  <2> QED BY <1>1, <2>1, <2>3, <2>4 DEF InCharge
<1> QED BY <1>2, <1>3

LEMMA PresentRow ==
    ASSUME TypeOK, NEW g \in Gvrs
    PROVE  Present(g) <=> rows[g] \in Row
BY RowIsPresent DEF TypeOK, Present

\* What a callback of the collector at work may do to its row.
LEMMA ChangedRow ==
    ASSUME TypeOK, NEW h \in handles, InCharge(h), NEW q \in Row, q.tok = rows[h.g].tok,
           rows' = [rows EXCEPT ![h.g] = q], UNCHANGED <<gen, stopped>>
    PROVE  /\ h.g \in Gvrs /\ rows[h.g] \in Row /\ rows'[h.g] = q
           /\ \A g \in Gvrs : g # h.g => rows'[g] = rows[g]
           /\ \A g \in Gvrs : Present(g)' <=> Present(g)
           /\ ~q.stopped => \A k \in handles : InCharge(k)' <=> InCharge(k)
<1>1. h.g \in Gvrs /\ \A k \in handles : k.g \in Gvrs
  BY DEF TypeOK, Handle
<1>2. rows[h.g] \in Row
  BY <1>1, PresentRow DEF InCharge
<1>3. rows'[h.g] = q /\ \A g \in Gvrs : g # h.g => rows'[g] = rows[g]
  BY <1>1 DEF TypeOK
<1>4. \A g \in Gvrs : Present(g)' <=> Present(g)
  BY <1>2, <1>3, RowIsPresent DEF Present
<1>5. ASSUME ~q.stopped, NEW k \in handles PROVE InCharge(k)' <=> InCharge(k)
  <2>1. CASE k.g = h.g
    BY <1>1, <1>3, <1>4, <1>5, <2>1 DEF InCharge
  <2>2. CASE k.g # h.g
    BY <1>1, <1>3, <1>4, <2>2 DEF InCharge
  <2> QED BY <2>1, <2>2
<1> QED BY <1>1, <1>2, <1>3, <1>4, <1>5

\* The continuity revision, for one step within a session.
Counted ==
    \A g \in Gvrs : Present(g) =>
        /\ Present(g)' /\ rows'[g].revision >= rows[g].revision
        /\ rows'[g] # rows[g] => rows'[g].revision > rows[g].revision

\* The part of the invariant that a callback's row decides: whoever calls, the
\* same collectors are in charge afterwards.
Applied(h, q) ==
    /\ rows' \in [Gvrs -> Row \cup {NoRow}] /\ RowInv' /\ HandleInv' /\ Counted
    /\ \A g \in Gvrs : Present(g)' <=> Present(g)
    /\ \A k \in handles : InCharge(k)' <=> InCharge(k)
    /\ \A g \in Gvrs : Gaps(g) \subseteq Gaps(g)'
    /\ \A g \in Gvrs : g # h.g \/ ~InCharge(h) => rows'[g] = rows[g]
    /\ h.g \in Gvrs /\ (InCharge(h) => rows'[h.g] = q)

LEMMA ApplyStep ==
    ASSUME TypeOK, RowInv, HandleInv, NEW h \in handles, NEW q, Apply(h, q),
           InCharge(h) => RowGoes(rows[h.g], q) /\ ~q.stopped,
           UNCHANGED <<source, gen, stopped, tok, handles>>
    PROVE  Applied(h, q)
<1>1. h.g \in Gvrs /\ \A k \in handles : k.g \in Gvrs
  BY DEF TypeOK, Handle
<1>r. \A g \in Gvrs : Present(g) => rows[g] \in Row /\ rows[g].revision \in Nat
  BY PresentRow, RowTypes
<1>2. CASE ~InCharge(h)
  <2>1. rows' = rows
    BY <1>2 DEF Apply
  <2>2. \A g \in Gvrs : (Present(g)' <=> Present(g)) /\ Gaps(g)' = Gaps(g)
    BY <2>1 DEF Present, Gaps
  <2>3. \A k \in handles : InCharge(k)' <=> InCharge(k)
    BY <1>1, <2>1, <2>2 DEF InCharge
  <2>4. RowInv' /\ HandleInv'
    BY <2>1 DEF RowInv, HandleInv, RowSound, Present
  <2>5. Counted
    BY <1>r, <2>1, <2>2 DEF Counted
  <2> QED BY <1>1, <1>2, <2>1, <2>2, <2>3, <2>4, <2>5 DEF Applied, TypeOK
<1>3. CASE InCharge(h)
  <2>1. RowGoes(rows[h.g], q) /\ ~q.stopped /\ rows' = [rows EXCEPT ![h.g] = q]
    BY <1>3 DEF Apply
  <2>2. q \in Row /\ q.tok = rows[h.g].tok
    BY <2>1 DEF RowGoes
  <2>3. /\ rows[h.g] \in Row /\ rows'[h.g] = q
        /\ \A g \in Gvrs : g # h.g => rows'[g] = rows[g]
        /\ \A g \in Gvrs : Present(g)' <=> Present(g)
        /\ \A k \in handles : InCharge(k)' <=> InCharge(k)
    BY <1>3, <2>1, <2>2, ChangedRow
  <2>4. rows' \in [Gvrs -> Row \cup {NoRow}]
    BY <1>1, <2>1, <2>2 DEF TypeOK
  <2>5. RowInv'
    <3>1. RowSound(q) /\ q.tok <= tok
      <4>1. RowSound(rows[h.g]) /\ rows[h.g].tok <= tok
        BY <1>1, <1>3 DEF RowInv, InCharge
      <4>2. q.revision \in Nat /\ rows[h.g].revision \in Nat
        BY <2>2, <2>3, RowTypes
      <4>3. q.revision > 0
        BY <2>1, <4>1, <4>2 DEF RowSound, RowGoes
      <4> QED BY <2>1, <2>2, <4>1, <4>3 DEF RowSound, RowGoes
    <3> QED BY <2>3, <3>1 DEF RowInv, RowSound
  <2>6. HandleInv'
    <3>1. ~rows[h.g].stopped
      BY <1>3 DEF InCharge
    <3> QED BY <1>1, <2>2, <2>3, <3>1 DEF HandleInv
  <2>7. Counted
    <3>1. q.revision >= rows[h.g].revision /\ (q # rows[h.g] => q.revision > rows[h.g].revision)
      BY <2>1 DEF RowGoes
    <3> QED BY <1>1, <1>r, <2>3, <3>1 DEF Counted
  <2>8. \A g \in Gvrs : Gaps(g) \subseteq Gaps(g)'
    <3>1. rows[h.g].gaps \subseteq q.gaps
      BY <2>1 DEF RowGoes
    <3> QED BY <1>1, <2>3, <3>1 DEF Gaps
  <2> QED BY <1>1, <1>3, <2>3, <2>4, <2>5, <2>6, <2>7, <2>8 DEF Applied
<1> QED BY <1>2, <1>3

\* Whatever else a step does, the types hold once the rows are right.
LEMMA TypeStep ==
    ASSUME TypeOK, RowInv', source' = source, rows' \in [Gvrs -> Row \cup {NoRow}],
           gen' \in 0..MaxGen, tok' \in 0..MaxTok, clock' \in 1..MaxClock,
           stopped' \in BOOLEAN, limited' \in BOOLEAN, refused' \in BOOLEAN,
           handles' \subseteq Handle, streams' \subseteq [h : handles', epoch : Nat, bad : BOOLEAN],
           errors' \subseteq [h : handles', epoch : Nat], reported' \in [Gvrs -> SUBSET Kinds]
    PROVE  TypeOK'
<1>1. MaxGen' = MaxGen /\ MaxTok' = MaxTok
  BY DEF MaxGen, MaxTok
<1>2. Row' = Row /\ Handle' = Handle
  BY <1>1 DEF Row, Handle
<1>3. \A g \in Gvrs : Present(g)' /\ rows'[g].est => ~rows'[g].stopped
  BY DEF RowInv, RowSound
<1>4. source' \in Sources
  BY DEF TypeOK
<1> QED BY <1>1, <1>2, <1>3, <1>4 DEF TypeOK

-----------------------------------------------------------------------------
(* Streams and the established flag, callback by callback. *)

LEMMA StreamTypes ==
    ASSUME TypeOK, NEW s \in streams
    PROVE  s.h \in handles /\ s.h.g \in Gvrs /\ s.epoch \in Nat /\ s \in [h : handles, epoch : Nat, bad : BOOLEAN]
BY DEF TypeOK, Handle

LEMMA ErrorTypes ==
    ASSUME TypeOK, NEW x \in errors
    PROVE  x.h \in handles /\ x.h.g \in Gvrs /\ x.epoch \in Nat
BY DEF TypeOK, Handle

\* Two handles in charge of one type are the same handle.
LEMMA OneInCharge ==
    ASSUME TypeOK, NEW h \in handles, NEW k \in handles, InCharge(h), InCharge(k), h.g = k.g
    PROVE  h = k
<1>1. h.gen = k.gen /\ h.tok = k.tok
  BY DEF InCharge
<1> QED BY <1>1 DEF TypeOK, Handle

\* Initial delivery, a list result or a gap says nothing of the watch.
LEMMA SteadyWatch ==
    ASSUME TypeOK, StreamInv, EstInv, NEW h \in handles, NEW q, Applied(h, q),
           InCharge(h) => Steady(rows[h.g], q), UNCHANGED <<handles, streams, errors>>
    PROVE  StreamInv' /\ EstInv'
<1>1. \A g \in Gvrs : Present(g) =>
        rows'[g].epoch = rows[g].epoch /\ (rows'[g].est <=> rows[g].est)
  BY DEF Applied, Steady
<1>2. \A k \in handles : InCharge(k)' <=> InCharge(k)
  BY DEF Applied
<1>3. StreamInv'
  <2>1. ASSUME NEW s \in streams, InCharge(s.h)' PROVE s.epoch # 0 /\ s.epoch = rows'[s.h.g].epoch
    <3>1. InCharge(s.h) /\ s.h.g \in Gvrs
      BY <1>2, <2>1, StreamTypes
    <3> QED BY <1>1, <3>1 DEF StreamInv, InCharge
  <2>2. ASSUME NEW x \in errors, InCharge(x.h)' PROVE x.epoch # 0
    BY <1>2, <2>2, ErrorTypes DEF StreamInv
  <2> QED BY <2>1, <2>2 DEF StreamInv
<1>4. \A g \in Gvrs : Watched(g)' <=> Watched(g)
  BY <1>2, StreamTypes DEF Watched
<1> QED BY <1>1, <1>3, <1>4 DEF EstInv, Applied

LEMMA WatchStartedWatch ==
    ASSUME TypeOK, RowInv, StreamInv, EstInv, NEW h \in handles, NEW q, Applied(h, q),
           ~Watching(h), UNCHANGED <<handles, errors>>,
           InCharge(h) => q.est /\ q.epoch = rows[h.g].epoch + 1,
           streams' = streams \cup
               {[h |-> h, epoch |-> IF InCharge(h) THEN rows[h.g].epoch + 1 ELSE 0, bad |-> FALSE]}
    PROVE  StreamInv' /\ EstInv'
<1>0. PICK new : new = [h |-> h, epoch |-> IF InCharge(h) THEN rows[h.g].epoch + 1 ELSE 0, bad |-> FALSE]
  OBVIOUS
<1>1. \A k \in handles : InCharge(k)' <=> InCharge(k)
  BY DEF Applied
<1>2. new.h = h /\ ~new.bad /\ new.epoch = IF InCharge(h) THEN rows[h.g].epoch + 1 ELSE 0
  BY <1>0
<1>3. streams' = streams \cup {new} /\ \A s \in streams : s.h # h
  BY <1>0 DEF Watching
<1>4. \A s \in streams : InCharge(s.h) => s.h.g # h.g \/ ~InCharge(h)
  BY <1>3, OneInCharge, StreamTypes
<1>5. InCharge(h) => rows[h.g].epoch + 1 # 0
  BY PresentRow, RowTypes DEF InCharge, Applied
<1>6. StreamInv'
  <2>1. ASSUME NEW s \in streams, InCharge(s.h)' PROVE s.epoch # 0 /\ s.epoch = rows'[s.h.g].epoch
    <3>1. InCharge(s.h) /\ s.h.g \in Gvrs /\ (s.h.g # h.g \/ ~InCharge(h))
      BY <1>1, <1>4, <2>1, StreamTypes
    <3> QED BY <1>1, <1>4, <2>1, <3>1, StreamTypes DEF StreamInv, Applied
  <2>2. InCharge(new.h)' => new.epoch # 0 /\ new.epoch = rows'[new.h.g].epoch
    BY <1>1, <1>2, <1>5 DEF Applied
  <2>3. ASSUME NEW x \in errors, InCharge(x.h)' PROVE x.epoch # 0
    BY <1>1, <2>3, ErrorTypes DEF StreamInv
  <2>4. \A s, t \in streams' : s.h = t.h => s = t
    BY <1>2, <1>3 DEF StreamInv
  <2> QED BY <1>3, <2>1, <2>2, <2>3, <2>4 DEF StreamInv
<1>7. ASSUME NEW g \in Gvrs, Present(g)' PROVE rows'[g].est <=> Watched(g)'
  <2>1. CASE g = h.g /\ InCharge(h)
    <3>1. rows'[g].est
      BY <2>1 DEF Applied
    <3>2. new \in streams' /\ new.h.g = g /\ InCharge(new.h)' /\ ~new.bad
      BY <1>1, <1>2, <1>3, <2>1
    <3> QED BY <3>1, <3>2 DEF Watched
  <2>2. CASE g # h.g \/ ~InCharge(h)
    <3>1. rows'[g] = rows[g] /\ Present(g)
      BY <1>7, <2>2 DEF Applied
    <3>2. Watched(g)' <=> Watched(g)
      <4>1. ASSUME NEW s \in streams', s.h.g = g, InCharge(s.h)' PROVE s \in streams /\ InCharge(s.h)
        <5>1. CASE s = new
          BY <1>1, <1>2, <2>2, <4>1, <5>1
        <5>2. CASE s \in streams
          BY <1>1, <4>1, <5>2, StreamTypes
        <5> QED BY <1>3, <5>1, <5>2
      <4>2. ASSUME NEW s \in streams, InCharge(s.h) PROVE s \in streams' /\ InCharge(s.h)'
        BY <1>1, <1>3, <4>2, StreamTypes
      <4> QED BY <4>1, <4>2 DEF Watched
    <3> QED BY <3>1, <3>2 DEF EstInv
  <2> QED BY <2>1, <2>2
<1> QED BY <1>6, <1>7 DEF EstInv

\* An attempt that gave no stream, and the end of a stream: no stream of the
\* handle is left, and the row says so.
LEMMA EndedWatch ==
    ASSUME TypeOK, StreamInv, EstInv, NEW h \in handles, NEW q, Applied(h, q),
           InCharge(h) => ~q.est /\ q.epoch = rows[h.g].epoch,
           streams' \subseteq streams, \A s \in streams : s.h # h <=> s \in streams',
           UNCHANGED <<handles, errors>>
    PROVE  StreamInv' /\ EstInv'
<1>1. \A k \in handles : InCharge(k)' <=> InCharge(k)
  BY DEF Applied
<1>2. StreamInv'
  <2>1. ASSUME NEW s \in streams', InCharge(s.h)' PROVE s.epoch # 0 /\ s.epoch = rows'[s.h.g].epoch
    <3>1. s \in streams /\ s.h # h
      BY <2>1
    <3>2. InCharge(s.h) /\ s.h \in handles /\ s.h.g \in Gvrs
      BY <1>1, <2>1, <3>1, StreamTypes
    <3>3. s.h.g # h.g \/ ~InCharge(h)
      BY <3>1, <3>2, OneInCharge
    <3>4. rows'[s.h.g] = rows[s.h.g]
      BY <3>2, <3>3 DEF Applied
    <3> QED BY <3>1, <3>2, <3>4 DEF StreamInv
  <2>2. ASSUME NEW x \in errors, InCharge(x.h)' PROVE x.epoch # 0
    BY <1>1, <2>2, ErrorTypes DEF StreamInv
  <2> QED BY <2>1, <2>2 DEF StreamInv
<1>3. ASSUME NEW g \in Gvrs, Present(g)' PROVE rows'[g].est <=> Watched(g)'
  <2>1. CASE g = h.g /\ InCharge(h)
    <3>1. ~rows'[g].est
      BY <2>1 DEF Applied
    <3>2. ASSUME NEW s \in streams', s.h.g = g, InCharge(s.h)' PROVE FALSE
      <4>1. s \in streams /\ s.h # h
        BY <3>2
      <4> QED BY <1>1, <2>1, <3>2, <4>1, StreamTypes, OneInCharge
    <3> QED BY <3>1, <3>2 DEF Watched
  <2>2. CASE g # h.g \/ ~InCharge(h)
    <3>1. rows'[g] = rows[g] /\ Present(g)
      BY <1>3, <2>2 DEF Applied
    <3>2. ASSUME NEW s \in streams, s.h.g = g, InCharge(s.h) PROVE s \in streams' /\ InCharge(s.h)'
      BY <1>1, <2>2, <3>2, StreamTypes
    <3>3. ASSUME NEW s \in streams', InCharge(s.h)' PROVE s \in streams /\ InCharge(s.h)
      BY <1>1, <3>3, StreamTypes
    <3>4. Watched(g)' <=> Watched(g)
      BY <3>2, <3>3 DEF Watched
    <3> QED BY <3>1, <3>4 DEF EstInv
  <2> QED BY <2>1, <2>2
<1> QED BY <1>2, <1>3 DEF EstInv

\* A reported error fails the stream it was read from, if that is still the
\* stream of the row, and no other.
LEMMA ReportedWatch ==
    ASSUME TypeOK, StreamInv, EstInv, NEW x \in errors, NEW q, Applied(x.h, q),
           InCharge(x.h) => /\ q.epoch = rows[x.h.g].epoch
                            /\ q.est <=> rows[x.h.g].est /\ x.epoch # 0 /\ rows[x.h.g].epoch # x.epoch,
           streams' = {IF s.h = x.h /\ s.epoch = x.epoch THEN [s EXCEPT !.bad = TRUE] ELSE s : s \in streams},
           errors' = errors \ {x}, handles' = handles
    PROVE  StreamInv' /\ EstInv'
<1>0. x.h \in handles /\ x.h.g \in Gvrs
  BY ErrorTypes
<1>1. \A k \in handles : InCharge(k)' <=> InCharge(k)
  BY DEF Applied
<1>2. ASSUME NEW s \in streams'
      PROVE  \E t \in streams : /\ s.h = t.h /\ s.epoch = t.epoch
                               /\ IF t.h = x.h /\ t.epoch = x.epoch THEN s.bad ELSE s = t
  <2>1. PICK t \in streams : s = IF t.h = x.h /\ t.epoch = x.epoch THEN [t EXCEPT !.bad = TRUE] ELSE t
    BY <1>2
  <2>2. t \in [h : handles, epoch : Nat, bad : BOOLEAN]
    BY StreamTypes
  <2> QED BY <2>1, <2>2
<1>3. \A t \in streams : ~(t.h = x.h /\ t.epoch = x.epoch) => t \in streams'
  OBVIOUS
<1>4. \A g \in Gvrs : Present(g)' => rows'[g].epoch = rows[g].epoch
  BY DEF Applied
<1>5. StreamInv'
  <2>1. ASSUME NEW s \in streams', InCharge(s.h)' PROVE s.epoch # 0 /\ s.epoch = rows'[s.h.g].epoch
    <3>1. PICK t \in streams : s.h = t.h /\ s.epoch = t.epoch
      BY <1>2
    <3>2. InCharge(t.h) /\ t.h.g \in Gvrs /\ Present(t.h.g)'
      BY <1>1, <2>1, <3>1, StreamTypes DEF InCharge, Applied
    <3> QED BY <1>4, <3>1, <3>2 DEF StreamInv
  <2>2. ASSUME NEW y \in errors', InCharge(y.h)' PROVE y.epoch # 0
    BY <1>1, <2>2, ErrorTypes DEF StreamInv
  <2>3. ASSUME NEW s \in streams', NEW t \in streams', s.h = t.h PROVE s = t
    <3>1. PICK a \in streams : s = IF a.h = x.h /\ a.epoch = x.epoch THEN [a EXCEPT !.bad = TRUE] ELSE a
      OBVIOUS
    <3>2. PICK b \in streams : t = IF b.h = x.h /\ b.epoch = x.epoch THEN [b EXCEPT !.bad = TRUE] ELSE b
      OBVIOUS
    <3>3. s.h = a.h /\ t.h = b.h
      BY <3>1, <3>2, StreamTypes
    <3>4. a = b
      BY <2>3, <3>3 DEF StreamInv
    <3> QED BY <3>1, <3>2, <3>4
  <2> QED BY <2>1, <2>2, <2>3 DEF StreamInv
<1>6. ASSUME NEW g \in Gvrs, Present(g)' PROVE rows'[g].est <=> Watched(g)'
  <2>0. Present(g) /\ (rows[g].est <=> Watched(g))
    BY <1>6 DEF EstInv, Applied
  <2>1. CASE g = x.h.g /\ InCharge(x.h) /\ rows[g].epoch = x.epoch
    <3>1. ~rows'[g].est
      BY <2>1 DEF Applied
    <3>2. ASSUME NEW s \in streams', s.h.g = g, InCharge(s.h)' PROVE s.bad
      <4>1. PICK t \in streams : /\ s.h = t.h /\ s.epoch = t.epoch
                                 /\ IF t.h = x.h /\ t.epoch = x.epoch THEN s.bad ELSE s = t
        BY <1>2
      <4>2. InCharge(t.h) /\ t.h \in handles
        BY <1>1, <3>2, <4>1, StreamTypes
      <4>3. t.h = x.h
        BY <1>0, <2>1, <3>2, <4>1, <4>2, OneInCharge
      <4>4. t.epoch = x.epoch
        BY <2>1, <4>2, <4>3 DEF StreamInv
      <4> QED BY <4>1, <4>3, <4>4
    <3> QED BY <3>1, <3>2 DEF Watched
  <2>2. CASE ~(g = x.h.g /\ InCharge(x.h) /\ rows[g].epoch = x.epoch)
    <3>1. rows'[g].est <=> rows[g].est
      <4>1. CASE g = x.h.g /\ InCharge(x.h)
        BY <2>2, <4>1 DEF Applied, StreamInv
      <4>2. CASE ~(g = x.h.g /\ InCharge(x.h))
        BY <4>2 DEF Applied
      <4> QED BY <4>1, <4>2
    <3>2. \A t \in streams : t.h.g = g /\ InCharge(t.h) => ~(t.h = x.h /\ t.epoch = x.epoch)
      BY <2>2 DEF StreamInv
    <3>3. ASSUME NEW s \in streams', s.h.g = g, InCharge(s.h)' PROVE s \in streams /\ InCharge(s.h)
      BY <1>1, <1>2, <3>2, <3>3, StreamTypes
    <3>4. ASSUME NEW s \in streams, s.h.g = g, InCharge(s.h) PROVE s \in streams' /\ InCharge(s.h)'
      BY <1>1, <1>3, <3>2, <3>4, StreamTypes
    <3>5. Watched(g)' <=> Watched(g)
      BY <3>3, <3>4 DEF Watched
    <3> QED BY <2>0, <3>1, <3>5
  <2> QED BY <2>1, <2>2
<1> QED BY <1>5, <1>6 DEF EstInv

-----------------------------------------------------------------------------
(* The callbacks. *)

LEMMA CallbackInv ==
    ASSUME CoverageInv, NEW h \in handles, NEW q, Applied(h, q), StreamInv', EstInv', GapsAreSticky',
           UNCHANGED <<source, gen, stopped, limited, tok, handles, refused, clock>>,
           streams' \subseteq [h : handles, epoch : Nat, bad : BOOLEAN],
           errors' \subseteq [h : handles, epoch : Nat], reported' \in [Gvrs -> SUBSET Kinds]
    PROVE  CoverageInv' /\ Counted
<1>1. TypeOK /\ (refused => limited)
  BY DEF CoverageInv
<1>2. RowInv' /\ HandleInv' /\ Counted /\ rows' \in [Gvrs -> Row \cup {NoRow}]
  BY DEF Applied
<1>3. /\ gen' \in 0..MaxGen /\ tok' \in 0..MaxTok /\ clock' \in 1..MaxClock
      /\ stopped' \in BOOLEAN /\ limited' \in BOOLEAN /\ refused' \in BOOLEAN
      /\ handles' \subseteq Handle
  BY <1>1 DEF TypeOK
<1>4. TypeOK'
  BY <1>1, <1>2, <1>3, TypeStep
<1> QED BY <1>1, <1>2, <1>4 DEF CoverageInv

LEMMA StickyGaps ==
    ASSUME GapsAreSticky, NEW h, NEW q, Applied(h, q), reported' = reported
    PROVE  GapsAreSticky'
<1>1. \A g \in Gvrs : reported'[g] \subseteq Gaps(g) /\ Gaps(g) \subseteq Gaps(g)'
  BY DEF GapsAreSticky, Applied
<1> QED BY <1>1 DEF GapsAreSticky

\* The row of a collector in charge, as the callback finds it.
LEMMA ChargedRow ==
    ASSUME TypeOK, RowInv, NEW h \in handles, InCharge(h)
    PROVE  rows[h.g] \in Row /\ RowSound(rows[h.g]) /\ ~rows[h.g].stopped
BY PresentRow DEF InCharge, RowInv, TypeOK, Handle

LEMMA QuietNext ==
    ASSUME CoverageInv, NEW h \in handles, NEW q, Apply(h, q),
           InCharge(h) => RowGoes(rows[h.g], q) /\ Steady(rows[h.g], q), GapsAreSticky' \/ reported' = reported,
           UNCHANGED <<source, gen, stopped, limited, tok, handles, streams, errors, refused, clock>>,
           reported' \in [Gvrs -> SUBSET Kinds]
    PROVE  CoverageInv' /\ Counted
<1>1. TypeOK /\ RowInv /\ HandleInv /\ StreamInv /\ EstInv /\ GapsAreSticky
  BY DEF CoverageInv
<1>2. InCharge(h) => ~q.stopped
  BY <1>1, ChargedRow DEF Steady
<1>3. Applied(h, q)
  BY <1>1, <1>2, ApplyStep
<1>4. StreamInv' /\ EstInv'
  BY <1>1, <1>3, SteadyWatch
<1>5. GapsAreSticky'
  BY <1>1, <1>3, StickyGaps
<1>6. streams' \subseteq [h : handles, epoch : Nat, bad : BOOLEAN] /\ errors' \subseteq [h : handles, epoch : Nat]
  BY <1>1 DEF TypeOK
<1> QED BY <1>3, <1>4, <1>5, <1>6, CallbackInv

LEMMA DeliveryNext ==
    ASSUME CoverageInv, NEW h \in handles, InitialDeliveryComplete(h)
    PROVE  CoverageInv' /\ Counted
<1>1. TypeOK /\ RowInv
  BY DEF CoverageInv
<1>2. PICK q : q = IF rows[h.g].done THEN rows[h.g]
                   ELSE [rows[h.g] EXCEPT !.done = TRUE, !.revision = @ + 1]
  OBVIOUS
<1>3. Apply(h, q)
  BY <1>2 DEF InitialDeliveryComplete, Apply
<1>4. InCharge(h) => RowGoes(rows[h.g], q) /\ Steady(rows[h.g], q)
  BY <1>1, <1>2, ChargedRow, DeliveredRow
<1>5. /\ UNCHANGED <<source, gen, stopped, limited, tok, handles, streams, errors, refused, clock>>
      /\ reported' = reported
  BY DEF InitialDeliveryComplete
<1> QED BY <1>1, <1>3, <1>4, <1>5, QuietNext DEF TypeOK

LEMMA ListNext ==
    ASSUME CoverageInv, NEW h \in handles, NEW result \in {"ok"} \cup Failures, ListResult(h, result)
    PROVE  CoverageInv' /\ Counted
<1>1. TypeOK /\ RowInv
  BY DEF CoverageInv
<1>2. PICK q : q = [rows[h.g] EXCEPT !.list = result, !.revision = @ + 1]
  OBVIOUS
<1>3. Apply(h, q)
  BY <1>2 DEF ListResult, Apply
<1>4. InCharge(h) => RowGoes(rows[h.g], q) /\ Steady(rows[h.g], q)
  BY <1>1, <1>2, ChargedRow, ListedRow
<1>5. /\ UNCHANGED <<source, gen, stopped, limited, tok, handles, streams, errors, refused, clock>>
      /\ reported' = reported
  BY DEF ListResult
<1> QED BY <1>1, <1>3, <1>4, <1>5, QuietNext DEF TypeOK

LEMMA GapNext ==
    ASSUME CoverageInv, NEW h \in handles, NEW kind \in Kinds, RecordGap(h, kind)
    PROVE  CoverageInv' /\ Counted
<1>1. TypeOK /\ RowInv /\ HandleInv /\ GapsAreSticky
  BY DEF CoverageInv
<1>2. PICK q : q = WithGap(rows[h.g], kind)
  OBVIOUS
<1>3. Apply(h, q)
  BY <1>2 DEF RecordGap, Apply
<1>4. InCharge(h) => RowGoes(rows[h.g], q) /\ Steady(rows[h.g], q) /\ kind \in q.gaps
  BY <1>1, <1>2, ChargedRow, GapRow
<1>5. UNCHANGED <<source, gen, stopped, limited, tok, handles, streams, errors, refused, clock>>
  BY DEF RecordGap
<1>6. Applied(h, q)
  BY <1>1, <1>3, <1>4, <1>5, ChargedRow, ApplyStep DEF Steady
<1>7. reported' = IF InCharge(h) THEN [reported EXCEPT ![h.g] = @ \cup {kind}] ELSE reported
  BY <1>1, InChargeIsCollecting DEF RecordGap
<1>8. reported' \in [Gvrs -> SUBSET Kinds]
  BY <1>1, <1>7 DEF TypeOK, Handle
<1>9. GapsAreSticky'
  <2>1. ASSUME NEW g \in Gvrs PROVE reported'[g] \subseteq Gaps(g)'
    <3>1. reported[g] \subseteq Gaps(g)'
      BY <1>1, <1>6 DEF GapsAreSticky, Applied
    <3>2. CASE g = h.g /\ InCharge(h)
      <4>1. reported'[g] = reported[g] \cup {kind}
        BY <1>1, <1>7, <3>2 DEF TypeOK
      <4>2. Gaps(g)' = q.gaps
        BY <1>6, <3>2 DEF Gaps, Applied, InCharge
      <4> QED BY <1>4, <3>1, <3>2, <4>1, <4>2
    <3>3. CASE ~(g = h.g /\ InCharge(h))
      <4>1. reported'[g] = reported[g]
        BY <1>1, <1>7, <3>3 DEF TypeOK
      <4> QED BY <3>1, <4>1
    <3> QED BY <3>2, <3>3
  <2> QED BY <2>1 DEF GapsAreSticky
<1> QED BY <1>3, <1>4, <1>5, <1>8, <1>9, QuietNext

LEMMA StartedNext ==
    ASSUME CoverageInv, NEW h \in handles, WatchStarted(h)
    PROVE  CoverageInv' /\ Counted
<1>1. TypeOK /\ RowInv /\ HandleInv /\ StreamInv /\ EstInv /\ GapsAreSticky
  BY DEF CoverageInv
<1>2. PICK q : q = [rows[h.g] EXCEPT !.epoch = rows[h.g].epoch + 1, !.est = TRUE, !.watch = "ok",
                                     !.since = 0, !.revision = @ + 1]
  OBVIOUS
<1>3. Apply(h, q)
  BY <1>2 DEF WatchStarted, Apply
<1>4. InCharge(h) => RowGoes(rows[h.g], q) /\ q.epoch = rows[h.g].epoch + 1 /\ q.est /\ ~q.stopped
  BY <1>1, <1>2, ChargedRow, StartedRow
<1>5. /\ UNCHANGED <<source, gen, stopped, limited, tok, handles, errors, refused, clock, reported>>
      /\ ~Watching(h)
      /\ streams' = streams \cup
            {[h |-> h, epoch |-> IF InCharge(h) THEN rows[h.g].epoch + 1 ELSE 0, bad |-> FALSE]}
  BY DEF WatchStarted
<1>6. Applied(h, q)
  BY <1>1, <1>3, <1>4, <1>5, ApplyStep
<1>7. StreamInv' /\ EstInv'
  BY <1>1, <1>4, <1>5, <1>6, WatchStartedWatch
<1>8. PICK e \in Nat : e = IF InCharge(h) THEN rows[h.g].epoch + 1 ELSE 0
  BY <1>1, ChargedRow, RowTypes
<1>9. [h |-> h, epoch |-> e, bad |-> FALSE] \in [h : handles, epoch : Nat, bad : BOOLEAN]
  OBVIOUS
<1>10. streams' \subseteq [h : handles, epoch : Nat, bad : BOOLEAN]
  BY <1>1, <1>5, <1>8, <1>9 DEF TypeOK
<1>11. errors' \subseteq [h : handles, epoch : Nat] /\ reported' \in [Gvrs -> SUBSET Kinds]
  BY <1>1, <1>5 DEF TypeOK
<1>12. GapsAreSticky'
  BY <1>1, <1>5, <1>6, StickyGaps
<1> QED BY <1>5, <1>6, <1>7, <1>10, <1>11, <1>12, CallbackInv

LEMMA FailsNext ==
    ASSUME CoverageInv, NEW h \in handles, NEW reason \in Failures, WatchFails(h, reason)
    PROVE  CoverageInv' /\ Counted
<1>1. TypeOK /\ RowInv /\ HandleInv /\ StreamInv /\ EstInv /\ GapsAreSticky
  BY DEF CoverageInv
<1>2. PICK q : q = Ended(rows[h.g], 0, reason)
  OBVIOUS
<1>3. Apply(h, q)
  BY <1>2 DEF WatchFails, Apply
<1>4. InCharge(h) => RowGoes(rows[h.g], q) /\ q.epoch = rows[h.g].epoch /\ ~q.est /\ ~q.stopped
  BY <1>1, <1>2, ChargedRow, EndedRow
<1>5. /\ UNCHANGED <<source, gen, stopped, limited, tok, handles, streams, errors, refused, clock, reported>>
      /\ \A s \in streams : s.h # h
  BY DEF WatchFails, Watching
<1>6. Applied(h, q)
  BY <1>1, <1>3, <1>4, <1>5, ApplyStep
<1>7. StreamInv' /\ EstInv'
  BY <1>1, <1>4, <1>5, <1>6, EndedWatch
<1>8. /\ streams' \subseteq [h : handles, epoch : Nat, bad : BOOLEAN]
      /\ errors' \subseteq [h : handles, epoch : Nat] /\ reported' \in [Gvrs -> SUBSET Kinds]
  BY <1>1, <1>5 DEF TypeOK
<1>9. GapsAreSticky'
  BY <1>1, <1>5, <1>6, StickyGaps
<1> QED BY <1>5, <1>6, <1>7, <1>8, <1>9, CallbackInv

LEMMA StreamStopNext ==
    ASSUME CoverageInv, NEW s \in streams, StopStream(s)
    PROVE  CoverageInv' /\ Counted
<1>1. TypeOK /\ RowInv /\ HandleInv /\ StreamInv /\ EstInv /\ GapsAreSticky
  BY DEF CoverageInv
<1>h. s.h \in handles /\ s.epoch \in Nat
  BY <1>1, StreamTypes
<1>2. PICK q : q = Ended(rows[s.h.g], s.epoch, "closed")
  OBVIOUS
<1>3. Apply(s.h, q)
  BY <1>2 DEF StopStream, Apply
<1>4. InCharge(s.h) => RowGoes(rows[s.h.g], q) /\ q.epoch = rows[s.h.g].epoch /\ ~q.est /\ ~q.stopped
  <2>1. InCharge(s.h) => s.epoch = rows[s.h.g].epoch
    BY <1>1 DEF StreamInv
  <2> QED BY <1>1, <1>h, <1>2, <2>1, ChargedRow, EndedRow
<1>5. /\ UNCHANGED <<source, gen, stopped, limited, tok, handles, errors, refused, clock, reported>>
      /\ streams' = streams \ {s}
  BY DEF StopStream
<1>6. Applied(s.h, q)
  BY <1>1, <1>h, <1>3, <1>4, <1>5, ApplyStep
<1>7. StreamInv' /\ EstInv'
  <2>1. streams' \subseteq streams /\ \A t \in streams : t.h # s.h <=> t \in streams'
    BY <1>1, <1>5 DEF StreamInv
  <2> QED BY <1>1, <1>h, <1>4, <1>5, <1>6, <2>1, EndedWatch
<1>8. /\ streams' \subseteq [h : handles, epoch : Nat, bad : BOOLEAN]
      /\ errors' \subseteq [h : handles, epoch : Nat] /\ reported' \in [Gvrs -> SUBSET Kinds]
  BY <1>1, <1>5 DEF TypeOK
<1>9. GapsAreSticky'
  BY <1>1, <1>5, <1>6, StickyGaps
<1> QED BY <1>h, <1>5, <1>6, <1>7, <1>8, <1>9, CallbackInv

LEMMA ReportNext ==
    ASSUME CoverageInv, NEW x \in errors, NEW reason \in Failures, ReportError(x, reason)
    PROVE  CoverageInv' /\ Counted
<1>1. TypeOK /\ RowInv /\ HandleInv /\ StreamInv /\ EstInv /\ GapsAreSticky
  BY DEF CoverageInv
<1>h. x.h \in handles /\ x.epoch \in Nat
  BY <1>1, ErrorTypes
<1>2. PICK q : q = Ended(rows[x.h.g], x.epoch, reason)
  OBVIOUS
<1>3. Apply(x.h, q)
  BY <1>2 DEF ReportError, Apply
<1>4. InCharge(x.h) => /\ RowGoes(rows[x.h.g], q) /\ q.epoch = rows[x.h.g].epoch /\ ~q.stopped
                       /\ q.est <=> rows[x.h.g].est /\ x.epoch # 0 /\ rows[x.h.g].epoch # x.epoch
  BY <1>1, <1>h, <1>2, ChargedRow, EndedRow
<1>5. /\ UNCHANGED <<source, gen, stopped, limited, tok, handles, refused, clock, reported>>
      /\ errors' = errors \ {x}
      /\ streams' = {IF s.h = x.h /\ s.epoch = x.epoch THEN [s EXCEPT !.bad = TRUE] ELSE s :
                       s \in streams}
  BY DEF ReportError
<1>6. Applied(x.h, q)
  BY <1>1, <1>h, <1>3, <1>4, <1>5, ApplyStep
<1>7. StreamInv' /\ EstInv'
  BY <1>1, <1>4, <1>5, <1>6, ReportedWatch
<1>8. streams' \subseteq [h : handles, epoch : Nat, bad : BOOLEAN]
  BY <1>1, <1>5, StreamTypes
<1>9. errors' \subseteq [h : handles, epoch : Nat] /\ reported' \in [Gvrs -> SUBSET Kinds]
  BY <1>1, <1>5 DEF TypeOK
<1>10. GapsAreSticky'
  BY <1>1, <1>5, <1>6, StickyGaps
<1> QED BY <1>h, <1>5, <1>6, <1>7, <1>8, <1>9, <1>10, CallbackInv

-----------------------------------------------------------------------------
(* Sessions and registrations begin and end. *)

\* A row is as before, with the same handles in charge, or it starts or ends
\* without a watch and no earlier handle is in charge of it.
LEMMA ReplacedWatch ==
    ASSUME TypeOK, StreamInv, EstInv, UNCHANGED <<streams, errors>>,
           \A g \in Gvrs : Present(g)' =>
              \/ /\ rows'[g] = rows[g] /\ Present(g)
                 /\ \A k \in handles : k.g = g => (InCharge(k)' <=> InCharge(k))
              \/ ~rows'[g].est /\ \A k \in handles : k.g = g => ~InCharge(k)'
    PROVE  StreamInv' /\ EstInv'
<1>1. ASSUME NEW k \in handles, k.g \in Gvrs, InCharge(k)' PROVE InCharge(k) /\ rows'[k.g] = rows[k.g]
  <2>1. Present(k.g)'
    BY <1>1 DEF InCharge
  <2> QED BY <1>1, <2>1
<1>2. StreamInv'
  <2>1. ASSUME NEW s \in streams, InCharge(s.h)' PROVE s.epoch # 0 /\ s.epoch = rows'[s.h.g].epoch
    <3>1. InCharge(s.h) /\ rows'[s.h.g] = rows[s.h.g]
      BY <1>1, <2>1, StreamTypes
    <3> QED BY <3>1 DEF StreamInv
  <2>2. ASSUME NEW x \in errors, InCharge(x.h)' PROVE x.epoch # 0
    BY <1>1, <2>2, ErrorTypes DEF StreamInv
  <2> QED BY <2>1, <2>2 DEF StreamInv
<1>3. ASSUME NEW g \in Gvrs, Present(g)' PROVE rows'[g].est <=> Watched(g)'
  <2>1. CASE /\ rows'[g] = rows[g] /\ Present(g)
             /\ \A k \in handles : k.g = g => (InCharge(k)' <=> InCharge(k))
    <3>1. Watched(g)' <=> Watched(g)
      BY <2>1, StreamTypes DEF Watched
    <3> QED BY <2>1, <3>1 DEF EstInv
  <2>2. CASE ~rows'[g].est /\ \A k \in handles : k.g = g => ~InCharge(k)'
    <3>1. ~Watched(g)'
      BY <2>2, StreamTypes DEF Watched
    <3> QED BY <2>2, <3>1
  <2> QED BY <1>3, <2>1, <2>2
<1> QED BY <1>2, <1>3 DEF EstInv

\* Once the rows, the handles and the streams are right, so is the rest.
LEMMA SessionInv ==
    ASSUME CoverageInv, RowInv', HandleInv', StreamInv', EstInv', (refused => limited)',
           rows' \in [Gvrs -> Row \cup {NoRow}], gen' \in 0..MaxGen, tok' \in 0..MaxTok,
           stopped' \in BOOLEAN, limited' \in BOOLEAN, refused' \in BOOLEAN,
           handles \subseteq handles', handles' \subseteq Handle,
           \A g \in Gvrs : Gaps(g) \subseteq Gaps(g)',
           UNCHANGED <<source, streams, errors, reported, clock>>
    PROVE  CoverageInv'
<1>1. TypeOK /\ GapsAreSticky
  BY DEF CoverageInv
<1>2. GapsAreSticky'
  BY <1>1 DEF GapsAreSticky
<1>3. /\ streams' \subseteq [h : handles', epoch : Nat, bad : BOOLEAN]
      /\ errors' \subseteq [h : handles', epoch : Nat]
  BY <1>1 DEF TypeOK
<1>4. clock' \in 1..MaxClock /\ reported' \in [Gvrs -> SUBSET Kinds]
  BY <1>1 DEF TypeOK
<1>5. TypeOK'
  BY <1>1, <1>3, <1>4, TypeStep
<1> QED BY <1>2, <1>5 DEF CoverageInv

LEMMA TypeStopNext ==
    ASSUME CoverageInv, NEW h \in handles, StopType(h)
    PROVE  CoverageInv' /\ Counted
<1>1. TypeOK /\ RowInv /\ HandleInv /\ StreamInv /\ EstInv /\ (refused => limited) /\ InCharge(h)
  BY DEF CoverageInv, StopType
<1>2. rows[h.g] \in Row /\ RowSound(rows[h.g]) /\ h.g \in Gvrs /\ \A k \in handles : k.g \in Gvrs
  BY <1>1, ChargedRow DEF TypeOK, Handle
<1>3. PICK n \in Nat : n = rows[h.g].revision + 1 /\ n > rows[h.g].revision /\ rows[h.g].revision \in Nat
  BY <1>2, RowTypes
<1>4. PICK q : q = Halted(rows[h.g], n)
  OBVIOUS
<1>5. /\ q \in Row /\ q.tok = rows[h.g].tok /\ q.gaps = rows[h.g].gaps
      /\ q.revision = n /\ q.stopped /\ ~q.est
  BY <1>1, <1>2, <1>4, HaltedRow
<1>6. /\ rows' = [rows EXCEPT ![h.g] = q]
      /\ UNCHANGED <<source, gen, stopped, limited, tok, handles, streams, errors, reported, refused, clock>>
  BY <1>3, <1>4 DEF StopType
<1>7. /\ rows'[h.g] = q /\ \A g \in Gvrs : g # h.g => rows'[g] = rows[g]
      /\ \A g \in Gvrs : Present(g)' <=> Present(g)
  BY <1>1, <1>5, <1>6, ChangedRow
<1>8. rows' \in [Gvrs -> Row \cup {NoRow}]
  BY <1>1, <1>2, <1>5, <1>6 DEF TypeOK
<1>9. RowInv'
  <2>1. RowSound(q) /\ q.tok <= tok
    BY <1>1, <1>2, <1>3, <1>5 DEF RowInv, RowSound, InCharge
  <2> QED BY <1>1, <1>6, <1>7, <2>1 DEF RowInv, RowSound
<1>10. HandleInv'
  BY <1>1, <1>2, <1>5, <1>6, <1>7 DEF HandleInv
<1>11. Counted
  <2>1. \A g \in Gvrs : Present(g) => rows[g].revision \in Nat
    BY <1>1, PresentRow, RowTypes
  <2> QED BY <1>3, <1>5, <1>7, <2>1 DEF Counted
<1>12. StreamInv' /\ EstInv'
  <2>1. \A k \in handles : k.g = h.g => ~InCharge(k)'
    BY <1>5, <1>7 DEF InCharge
  <2>2. \A k \in handles : k.g # h.g => (InCharge(k)' <=> InCharge(k))
    BY <1>2, <1>6, <1>7 DEF InCharge
  <2>3. ASSUME NEW g \in Gvrs, Present(g)'
        PROVE  \/ /\ rows'[g] = rows[g] /\ Present(g)
                  /\ \A k \in handles : k.g = g => (InCharge(k)' <=> InCharge(k))
               \/ ~rows'[g].est /\ \A k \in handles : k.g = g => ~InCharge(k)'
    BY <1>5, <1>7, <2>1, <2>2, <2>3
  <2> QED BY <1>1, <1>6, <2>3, ReplacedWatch
<1>13. \A g \in Gvrs : Gaps(g) \subseteq Gaps(g)'
  BY <1>2, <1>5, <1>7 DEF Gaps
<1>14. gen' \in 0..MaxGen /\ tok' \in 0..MaxTok /\ stopped' \in BOOLEAN /\ limited' \in BOOLEAN
       /\ refused' \in BOOLEAN /\ handles' \subseteq Handle
  BY <1>1, <1>6 DEF TypeOK
<1> QED BY <1>1, <1>6, <1>8, <1>9, <1>10, <1>11, <1>12, <1>13, <1>14, SessionInv

LEMMA SessionStopNext ==
    ASSUME CoverageInv, StopSession
    PROVE  CoverageInv' /\ Counted
<1>1. TypeOK /\ RowInv /\ HandleInv /\ StreamInv /\ EstInv /\ (refused => limited)
  BY DEF CoverageInv
<1>2. /\ stopped' = TRUE
      /\ UNCHANGED <<source, gen, limited, tok, handles, streams, errors, reported, refused, clock>>
  BY DEF StopSession
<1>3. ASSUME NEW g \in Gvrs, Present(g)
      PROVE  /\ rows'[g] \in Row /\ rows'[g].tok = rows[g].tok /\ rows'[g].gaps = rows[g].gaps
             /\ RowSound(rows'[g]) /\ rows'[g].stopped /\ ~rows'[g].est
             /\ rows'[g].revision >= rows[g].revision
             /\ rows'[g] # rows[g] => rows'[g].revision > rows[g].revision
  <2>1. rows[g] \in Row /\ RowSound(rows[g])
    BY <1>1, <1>3, PresentRow DEF RowInv
  <2>2. PICK n \in Nat : n = rows[g].revision + 1 /\ n > rows[g].revision /\ rows[g].revision \in Nat
    BY <2>1, RowTypes
  <2>3. CASE rows[g].stopped
    <3>1. rows'[g] = rows[g]
      BY <1>3, <2>3 DEF StopSession
    <3> QED BY <2>1, <2>2, <2>3, <3>1 DEF RowSound
  <2>4. CASE ~rows[g].stopped
    <3>1. rows'[g] = Halted(rows[g], n)
      BY <1>3, <2>2, <2>4 DEF StopSession
    <3>2. /\ rows'[g] \in Row /\ rows'[g].tok = rows[g].tok /\ rows'[g].gaps = rows[g].gaps
          /\ rows'[g].revision = n /\ rows'[g].stopped /\ ~rows'[g].est
      BY <1>1, <2>1, <3>1, HaltedRow
    <3> QED BY <2>2, <3>2 DEF RowSound
  <2> QED BY <2>3, <2>4
<1>4. \A g \in Gvrs : Present(g)' <=> Present(g)
  <2>1. ASSUME NEW g \in Gvrs, ~Present(g) PROVE ~Present(g)'
    BY <2>1 DEF StopSession, Present
  <2> QED BY <1>3, <2>1, RowIsPresent DEF Present
<1>5. rows' \in [Gvrs -> Row \cup {NoRow}]
  <2>1. \A g \in Gvrs : rows'[g] \in Row \cup {NoRow}
    BY <1>3, <1>4 DEF Present
  <2>2. rows' = [g \in Gvrs |-> rows'[g]]
    BY DEF StopSession
  <2> QED BY <2>1, <2>2
<1>6. RowInv'
  BY <1>1, <1>2, <1>3, <1>4 DEF RowInv, RowSound
<1>7. HandleInv'
  <2>1. \A h \in handles : h.g \in Gvrs
    BY <1>1 DEF TypeOK, Handle
  <2> QED BY <1>1, <1>2, <1>3, <1>4, <2>1 DEF HandleInv
<1>8. Counted
  BY <1>3, <1>4 DEF Counted
<1>9. StreamInv' /\ EstInv'
  <2>1. \A k \in handles : ~InCharge(k)'
    BY <1>2 DEF InCharge
  <2> QED BY <1>1, <1>2, <1>3, <1>4, <2>1, ReplacedWatch
<1>10. \A g \in Gvrs : Gaps(g) \subseteq Gaps(g)'
  BY <1>3, <1>4 DEF Gaps
<1>11. gen' \in 0..MaxGen /\ tok' \in 0..MaxTok /\ stopped' \in BOOLEAN /\ limited' \in BOOLEAN
       /\ refused' \in BOOLEAN /\ handles' \subseteq Handle
  BY <1>1, <1>2 DEF TypeOK
<1> QED BY <1>1, <1>2, <1>5, <1>6, <1>7, <1>8, <1>9, <1>10, <1>11, SessionInv

LEMMA SourceTypes == TypeOK => MaxTypes \in Nat /\ MaxGen \in Nat /\ MaxTok \in Nat
BY CoverageAssumption DEF TypeOK, MaxTypes, MaxGen, MaxTok

LEMMA GapsTypes ==
    ASSUME TypeOK, NEW g \in Gvrs
    PROVE  CarriedGaps(g) \in SUBSET Kinds /\ CarriedGaps(g) = Gaps(g)
BY PresentRow, RowTypes DEF CarriedGaps, Gaps

LEMMA BeginNext ==
    ASSUME CoverageInv, NEW G \in SUBSET Gvrs, Begin(G)
    PROVE  CoverageInv' /\ gen' # gen
<1>1. TypeOK /\ RowInv /\ HandleInv /\ StreamInv /\ EstInv /\ (refused => limited)
  BY DEF CoverageInv
<1>2. /\ gen < MaxGen /\ gen' = gen + 1 /\ stopped' = FALSE /\ limited' = limited
      /\ handles' = handles \cup {[gen |-> gen + 1, tok |-> 0, g |-> g] : g \in G}
      /\ UNCHANGED <<source, tok, streams, errors, reported, refused, clock>>
  BY DEF Begin, StaysLimited
<1>t. /\ gen \in Nat /\ MaxGen \in Nat /\ tok \in Nat /\ MaxTok \in Nat
      /\ gen + 1 \in 1..MaxGen /\ gen + 1 \in 0..MaxGen /\ gen + 1 # gen
      /\ 0 \in 0..MaxTok /\ 0 <= tok
  BY <1>1, <1>2, SourceTypes DEF TypeOK
<1>3. ASSUME NEW g \in G
      PROVE  /\ rows'[g] \in Row /\ rows'[g].tok = 0 /\ rows'[g].gaps = Gaps(g)
             /\ rows'[g].revision = 1 /\ ~rows'[g].est /\ ~rows'[g].stopped
  <2>1. rows'[g] = Fresh(0, CarriedGaps(g), 1)
    BY DEF Begin
  <2>2. CarriedGaps(g) \in SUBSET Kinds /\ CarriedGaps(g) = Gaps(g)
    BY <1>1, GapsTypes
  <2> QED BY <1>1, <1>t, <2>1, <2>2, FreshRow
<1>4. ASSUME NEW g \in Gvrs, g \notin G, Present(g)
      PROVE  /\ rows'[g] \in Row /\ rows'[g].tok = rows[g].tok /\ rows'[g].gaps = Gaps(g)
             /\ rows'[g].revision = 1 /\ ~rows'[g].est /\ rows'[g].stopped
  <2>1. rows'[g] = Halted(rows[g], 1) /\ rows[g] \in Row
    BY <1>1, <1>4, PresentRow DEF Begin
  <2> QED BY <1>1, <1>4, <2>1, HaltedRow DEF Gaps
<1>5. ASSUME NEW g \in Gvrs, g \notin G, ~Present(g) PROVE rows'[g] = NoRow
  BY <1>5 DEF Begin
<1>6. rows' \in [Gvrs -> Row \cup {NoRow}]
  <2>1. \A g \in Gvrs : rows'[g] \in Row \cup {NoRow}
    BY <1>3, <1>4, <1>5
  <2>2. rows' = [g \in Gvrs |-> rows'[g]]
    BY DEF Begin
  <2> QED BY <2>1, <2>2
<1>7. \A g \in Gvrs : Present(g)' <=> g \in G \/ Present(g)
  BY <1>3, <1>4, <1>5, RowIsPresent DEF Present
<1>8. RowInv'
  <2>1. ASSUME NEW g \in Gvrs, Present(g)' PROVE RowSound(rows'[g]) /\ rows'[g].tok <= tok
    <3>1. CASE g \in G
      BY <1>t, <1>3, <3>1 DEF RowSound
    <3>2. CASE g \notin G
      BY <1>1, <1>4, <1>7, <2>1, <3>2 DEF RowSound, RowInv
    <3> QED BY <3>1, <3>2
  <2> QED BY <1>2, <2>1 DEF RowInv, RowSound
<1>9. HandleInv'
  <2>1. \A h \in handles : h.gen <= gen /\ h.gen \in Nat
    BY <1>1 DEF HandleInv, TypeOK, Handle
  <2>2. \A h \in handles : h.gen <= gen + 1 /\ h.gen # gen + 1
    BY <1>t, <2>1
  <2>3. ASSUME NEW h \in handles', h \notin handles
        PROVE  h.gen = gen + 1 /\ h.tok = 0 /\ h.g \in G
    BY <1>2, <2>3
  <2>4. \A h \in handles' : h.gen <= gen'
    BY <1>2, <1>t, <2>2, <2>3
  <2>5. \A h \in handles' : h.gen = gen' => Present(h.g)' /\ h.tok <= rows'[h.g].tok
    BY <1>2, <1>3, <1>7, <2>2, <2>3
  <2>6. ASSUME NEW g \in Gvrs, Present(g)', ~rows'[g].stopped
        PROVE  ~stopped' /\ [gen |-> gen', tok |-> rows'[g].tok, g |-> g] \in handles'
    <3>1. g \in G
      BY <1>4, <1>7, <2>6
    <3> QED BY <1>2, <1>3, <3>1
  <2> QED BY <2>4, <2>5, <2>6 DEF HandleInv
<1>10. StreamInv' /\ EstInv'
  <2>1. \A k \in handles : ~InCharge(k)'
    BY <1>1, <1>2, <1>t DEF InCharge, HandleInv
  <2>2. \A g \in Gvrs : Present(g)' => ~rows'[g].est
    BY <1>3, <1>4, <1>7
  <2> QED BY <1>1, <1>2, <2>1, <2>2, ReplacedWatch
<1>11. \A g \in Gvrs : Gaps(g) \subseteq Gaps(g)'
  <2>1. ASSUME NEW g \in Gvrs, g \in G \/ Present(g) PROVE Gaps(g)' = Gaps(g)
    <3>1. Gaps(g)' = rows'[g].gaps
      BY <1>7, <2>1 DEF Gaps
    <3> QED BY <1>3, <1>4, <2>1, <3>1
  <2>2. \A g \in Gvrs : ~Present(g) => Gaps(g) = {}
    BY DEF Gaps
  <2> QED BY <2>1, <2>2
<1>12. handles' \subseteq Handle /\ handles \subseteq handles'
  <2>1. \A g \in G : [gen |-> gen + 1, tok |-> 0, g |-> g] \in Handle
    BY <1>t DEF Handle
  <2> QED BY <1>1, <1>2, <2>1 DEF TypeOK
<1>13. gen' \in 0..MaxGen /\ tok' \in 0..MaxTok /\ stopped' \in BOOLEAN /\ limited' \in BOOLEAN
       /\ refused' \in BOOLEAN
  BY <1>1, <1>2, <1>t DEF TypeOK
<1>14. CoverageInv'
  BY <1>1, <1>2, <1>6, <1>8, <1>9, <1>10, <1>11, <1>12, <1>13, SessionInv
<1> QED BY <1>2, <1>t, <1>14

LEMMA BeginTypeNext ==
    ASSUME CoverageInv, NEW g \in Gvrs, BeginType(g)
    PROVE  CoverageInv' /\ Counted
<1>1. TypeOK /\ RowInv /\ HandleInv /\ StreamInv /\ EstInv /\ (refused => limited)
  BY DEF CoverageInv
<1>2. /\ ~stopped /\ tok < MaxTok /\ (Present(g) => rows[g].stopped)
      /\ UNCHANGED <<source, gen, stopped, streams, errors, reported, clock>>
  BY DEF BeginType
<1>t. /\ tok \in Nat /\ MaxTok \in Nat /\ tok + 1 \in 0..MaxTok /\ tok + 1 \in Nat
      /\ \A k \in handles : k.g \in Gvrs /\ k.tok \in Nat
  BY <1>1, <1>2, SourceTypes DEF TypeOK, Handle
<1>r. \A k \in Gvrs : Present(k) => rows[k] \in Row /\ rows[k].revision \in Nat /\ rows[k].tok \in Nat
  BY <1>1, <1>t, PresentRow, RowTypes
<1>3. CASE UNCHANGED <<tok, rows, handles>> /\ limited' = TRUE /\ refused' = TRUE
  <2>1. \A k \in Gvrs : (Present(k)' <=> Present(k)) /\ Gaps(k)' = Gaps(k)
    BY <1>3 DEF Present, Gaps
  <2>2. RowInv' /\ HandleInv'
    BY <1>1, <1>2, <1>3 DEF RowInv, RowSound, HandleInv, Present
  <2>3. StreamInv' /\ EstInv'
    <3>1. \A k \in handles : InCharge(k)' <=> InCharge(k)
      BY <1>2, <1>3 DEF InCharge, Present
    <3> QED BY <1>1, <1>2, <1>3, <2>1, <3>1, ReplacedWatch
  <2>4. Counted
    BY <1>r, <1>3, <2>1 DEF Counted
  <2>5. /\ rows' \in [Gvrs -> Row \cup {NoRow}] /\ gen' \in 0..MaxGen /\ tok' \in 0..MaxTok
        /\ stopped' \in BOOLEAN /\ limited' \in BOOLEAN /\ refused' \in BOOLEAN
        /\ handles \subseteq handles' /\ handles' \subseteq Handle
    BY <1>1, <1>2, <1>3 DEF TypeOK
  <2> QED BY <1>2, <1>3, <2>1, <2>2, <2>3, <2>4, <2>5, SessionInv
<1>4. CASE /\ tok' = tok + 1 /\ UNCHANGED <<limited, refused>>
           /\ rows' = [rows EXCEPT ![g] = Fresh(tok + 1, CarriedGaps(g), NextRevision(g))]
           /\ handles' = handles \cup {[gen |-> gen, tok |-> tok + 1, g |-> g]}
  <2>1. PICK n \in Nat : n = NextRevision(g) /\ n > 0 /\ (Present(g) => n > rows[g].revision)
    BY <1>r DEF NextRevision
  <2>2. PICK q : q = Fresh(tok + 1, CarriedGaps(g), n)
    OBVIOUS
  <2>3. q \in Row /\ q.tok = tok + 1 /\ q.gaps = Gaps(g) /\ q.revision = n /\ ~q.est /\ ~q.stopped
    <3>1. CarriedGaps(g) \in SUBSET Kinds /\ CarriedGaps(g) = Gaps(g)
      BY <1>1, GapsTypes
    <3> QED BY <1>1, <1>t, <2>2, <3>1, FreshRow
  <2>4. rows'[g] = q /\ (\A k \in Gvrs : k # g => rows'[k] = rows[k]) /\ rows' \in [Gvrs -> Row \cup {NoRow}]
    <3>1. rows' = [rows EXCEPT ![g] = q] /\ rows \in [Gvrs -> Row \cup {NoRow}]
      BY <1>1, <1>4, <2>1, <2>2 DEF TypeOK
    <3> QED BY <2>3, <3>1
  <2>5. Present(g)' /\ \A k \in Gvrs : k # g => (Present(k)' <=> Present(k))
    BY <2>3, <2>4, RowIsPresent DEF Present
  <2>6. RowInv'
    <3>1. RowSound(rows'[g]) /\ rows'[g].tok <= tok'
      BY <1>4, <1>t, <2>1, <2>3, <2>4 DEF RowSound
    <3>2. ASSUME NEW k \in Gvrs, k # g, Present(k)' PROVE RowSound(rows'[k]) /\ rows'[k].tok <= tok'
      <4>1. Present(k) /\ rows'[k] = rows[k]
        BY <2>4, <2>5, <3>2
      <4>2. RowSound(rows[k]) /\ rows[k].tok <= tok /\ rows[k].tok \in Nat
        BY <1>1, <1>r, <4>1 DEF RowInv
      <4> QED BY <1>4, <1>t, <4>1, <4>2
    <3> QED BY <3>1, <3>2 DEF RowInv, RowSound
  <2>7. ASSUME NEW h \in handles, h.gen = gen, h.g = g PROVE h.tok <= tok
    <3>1. Present(g) /\ h.tok <= rows[g].tok
      BY <1>1, <2>7 DEF HandleInv
    <3>2. rows[g].tok <= tok
      BY <1>1, <3>1 DEF RowInv
    <3> QED BY <1>r, <1>t, <3>1, <3>2
  <2>8. HandleInv'
    <3>1. PICK new : new = [gen |-> gen, tok |-> tok + 1, g |-> g]
      OBVIOUS
    <3>2. new.gen = gen /\ new.tok = tok + 1 /\ new.g = g /\ handles' = handles \cup {new}
      BY <1>4, <3>1
    <3>3. \A h \in handles' : h.gen <= gen'
      BY <1>1, <1>2, <3>2 DEF HandleInv, TypeOK
    <3>4. ASSUME NEW h \in handles', h.gen = gen' PROVE Present(h.g)' /\ h.tok <= rows'[h.g].tok
      <4>1. CASE h = new
        BY <1>t, <2>3, <2>4, <2>5, <3>2, <4>1
      <4>2. CASE h \in handles /\ h.g = g
        BY <1>2, <1>t, <2>3, <2>4, <2>5, <2>7, <3>4, <4>2
      <4>3. CASE h \in handles /\ h.g # g
        BY <1>1, <1>2, <1>t, <2>4, <2>5, <3>4, <4>3 DEF HandleInv
      <4> QED BY <3>2, <4>1, <4>2, <4>3
    <3>5. ASSUME NEW k \in Gvrs, Present(k)', ~rows'[k].stopped
          PROVE  ~stopped' /\ [gen |-> gen', tok |-> rows'[k].tok, g |-> k] \in handles'
      <4>1. CASE k = g
        BY <1>2, <2>3, <2>4, <3>1, <3>2, <4>1
      <4>2. CASE k # g
        BY <1>1, <1>2, <2>4, <2>5, <3>2, <3>5, <4>2 DEF HandleInv
      <4> QED BY <4>1, <4>2
    <3> QED BY <3>3, <3>4, <3>5 DEF HandleInv
  <2>9. StreamInv' /\ EstInv'
    <3>1. \A k \in handles : k.g = g => ~InCharge(k)'
      BY <1>2, <1>t, <2>3, <2>4, <2>7 DEF InCharge
    <3>2. \A k \in handles : k.g # g => (InCharge(k)' <=> InCharge(k))
      BY <1>2, <1>t, <2>4, <2>5 DEF InCharge
    <3>3. ASSUME NEW k \in Gvrs, Present(k)'
          PROVE  \/ /\ rows'[k] = rows[k] /\ Present(k)
                    /\ \A h \in handles : h.g = k => (InCharge(h)' <=> InCharge(h))
                 \/ ~rows'[k].est /\ \A h \in handles : h.g = k => ~InCharge(h)'
      BY <2>3, <2>4, <2>5, <3>1, <3>2, <3>3
    <3> QED BY <1>1, <1>2, <3>3, ReplacedWatch
  <2>10. Counted
    BY <1>r, <2>1, <2>3, <2>4, <2>5 DEF Counted
  <2>11. \A k \in Gvrs : Gaps(k) \subseteq Gaps(k)'
    <3>1. Gaps(g)' = Gaps(g)
      BY <2>3, <2>4, <2>5 DEF Gaps
    <3>2. \A k \in Gvrs : k # g => Gaps(k)' = Gaps(k)
      BY <2>4, <2>5 DEF Gaps
    <3> QED BY <3>1, <3>2
  <2>12. handles \subseteq handles' /\ handles' \subseteq Handle
    <3>1. gen \in 1..MaxGen
      BY <1>1, SourceTypes DEF BeginType, TypeOK
    <3>2. [gen |-> gen, tok |-> tok + 1, g |-> g] \in Handle
      BY <1>t, <3>1 DEF Handle
    <3> QED BY <1>1, <1>4, <3>2 DEF TypeOK
  <2>13. gen' \in 0..MaxGen /\ tok' \in 0..MaxTok /\ stopped' \in BOOLEAN /\ limited' \in BOOLEAN
         /\ refused' \in BOOLEAN /\ (refused => limited)'
    BY <1>1, <1>2, <1>4, <1>t DEF TypeOK
  <2> QED BY <1>2, <2>4, <2>6, <2>8, <2>9, <2>10, <2>11, <2>12, <2>13, SessionInv
<1> QED BY <1>3, <1>4 DEF BeginType

-----------------------------------------------------------------------------
(* Steps that leave the rows alone, and all steps together. *)

LEMMA RowsKept ==
    ASSUME CoverageInv, UNCHANGED <<source, gen, stopped, limited, tok, rows, handles, reported, refused, streams>>,
           clock' \in 1..MaxClock, errors' \subseteq [h : handles, epoch : Nat],
           \A x \in errors' : InCharge(x.h) => x.epoch # 0
    PROVE  CoverageInv' /\ Counted
<1>1. TypeOK /\ RowInv /\ HandleInv /\ StreamInv /\ EstInv /\ (refused => limited) /\ GapsAreSticky
  BY DEF CoverageInv
<1>2. \A g \in Gvrs : (Present(g)' <=> Present(g)) /\ Gaps(g)' = Gaps(g)
  BY DEF Present, Gaps
<1>3. RowInv' /\ HandleInv'
  BY <1>1 DEF RowInv, RowSound, HandleInv, Present
<1>4. \A k : InCharge(k)' <=> InCharge(k)
  BY DEF InCharge, Present
<1>5. StreamInv'
  BY <1>1, <1>4 DEF StreamInv
<1>6. EstInv'
  <2>1. \A g \in Gvrs : Watched(g)' <=> Watched(g)
    BY <1>4 DEF Watched
  <2> QED BY <1>1, <1>2, <2>1 DEF EstInv
<1>7. GapsAreSticky'
  BY <1>1, <1>2 DEF GapsAreSticky
<1>8. TypeOK'
  <2>1. /\ rows' \in [Gvrs -> Row \cup {NoRow}] /\ gen' \in 0..MaxGen /\ tok' \in 0..MaxTok
        /\ stopped' \in BOOLEAN /\ limited' \in BOOLEAN /\ refused' \in BOOLEAN
        /\ handles' \subseteq Handle /\ reported' \in [Gvrs -> SUBSET Kinds]
        /\ streams' \subseteq [h : handles', epoch : Nat, bad : BOOLEAN]
        /\ errors' \subseteq [h : handles', epoch : Nat]
    BY <1>1 DEF TypeOK
  <2> QED BY <1>1, <1>3, <2>1, TypeStep
<1>9. Counted
  <2>1. \A g \in Gvrs : Present(g) => rows[g].revision \in Nat
    BY <1>1, PresentRow, RowTypes
  <2> QED BY <1>2, <2>1 DEF Counted
<1> QED BY <1>1, <1>3, <1>5, <1>6, <1>7, <1>8, <1>9 DEF CoverageInv

LEMMA ReadNext ==
    ASSUME CoverageInv, NEW s \in streams, ReadError(s)
    PROVE  CoverageInv' /\ Counted
<1>1. TypeOK /\ StreamInv
  BY DEF CoverageInv
<1>2. /\ UNCHANGED <<source, gen, stopped, limited, tok, rows, handles, reported, refused, streams>>
      /\ errors' = errors \cup {[h |-> s.h, epoch |-> s.epoch]} /\ clock' = clock
  BY DEF ReadError, tracker
<1>3. [h |-> s.h, epoch |-> s.epoch] \in [h : handles, epoch : Nat]
  BY <1>1, StreamTypes
<1>4. errors' \subseteq [h : handles, epoch : Nat] /\ clock' \in 1..MaxClock
  BY <1>1, <1>2, <1>3 DEF TypeOK
<1>5. \A x \in errors' : InCharge(x.h) => x.epoch # 0
  BY <1>1, <1>2 DEF StreamInv
<1> QED BY <1>2, <1>4, <1>5, RowsKept

LEMMA InvNext ==
    ASSUME CoverageInv, [Next]_vars
    PROVE  CoverageInv' /\ (gen' = gen => Counted)
<1>0. TypeOK /\ StreamInv
  BY DEF CoverageInv
<1>1. CASE BeginSession
  BY <1>1, BeginNext DEF BeginSession
<1>2. ASSUME NEW h \in handles, Callback(h) PROVE CoverageInv' /\ Counted
  BY <1>2, DeliveryNext, ListNext, GapNext, StartedNext, FailsNext, TypeStopNext DEF Callback
<1>3. CASE Tick \/ UNCHANGED vars
  <2>1. UNCHANGED <<source, gen, stopped, limited, tok, rows, handles, reported, refused, streams, errors>>
    BY <1>3 DEF Tick, vars, tracker
  <2>2. clock' \in 1..MaxClock
    <3>1. CASE Tick
      <4>1. clock < MaxClock /\ clock' = clock + 1 /\ clock \in 1..MaxClock
        BY <1>0, <3>1 DEF Tick, TypeOK
      <4> QED BY <4>1, CoverageAssumption
    <3>2. CASE UNCHANGED vars
      BY <1>0, <3>2 DEF vars, TypeOK
    <3> QED BY <1>3, <3>1, <3>2
  <2>3. errors' \subseteq [h : handles, epoch : Nat] /\ \A x \in errors' : InCharge(x.h) => x.epoch # 0
    BY <1>0, <2>1 DEF TypeOK, StreamInv
  <2> QED BY <2>1, <2>2, <2>3, RowsKept
<1>4. CASE StopSession
  BY <1>4, SessionStopNext
<1> QED BY <1>1, <1>2, <1>3, <1>4, BeginTypeNext, ReadNext, StreamStopNext, ReportNext DEF Next

LEMMA InvInit == Init => CoverageInv
<1> SUFFICES ASSUME Init PROVE CoverageInv
  OBVIOUS
<1>1. \A g \in Gvrs : ~Present(g)
  BY DEF Init, Present
<1>2. source.gens \in Nat /\ source.toks \in Nat
  BY CoverageAssumption DEF Init
<1>3. 0 \in 0..MaxGen /\ 0 \in 0..MaxTok /\ 1 \in 1..MaxClock
  BY <1>2, CoverageAssumption DEF MaxGen, MaxTok
<1>4. TypeOK
  BY <1>1, <1>3 DEF Init, TypeOK
<1> QED BY <1>1, <1>4 DEF Init, CoverageInv, RowInv, HandleInv, StreamInv, EstInv, GapsAreSticky

\* The tracker: types, whose row it is, which stream carries the row's epoch,
\* and gaps and capacity exhaustion that stay, together an inductive invariant.
THEOREM CoverageInvariant == Spec => []CoverageInv
<1>1. CoverageInv /\ [Next]_vars => CoverageInv'
  BY InvNext
<1> QED BY <1>1, InvInit, PTL DEF Spec

\* WatchStarted, WatchEnded and the streams of coverage_sources.go: a row says
\* that a watch is established exactly when the collector at work has an
\* unfailed stream open, whatever stopped or replaced collectors and closed
\* streams still report, and in whatever order.
THEOREM EstablishedTellsTheTruth == Spec => []EstablishedIsTrue
<1>1. CoverageInv => EstablishedIsTrue
  <2> SUFFICES ASSUME CoverageInv, NEW g \in Gvrs, Present(g)
               PROVE  rows[g].est <=> \E s \in streams : s.h.g = g /\ Collecting(s.h) /\ ~s.bad
    BY DEF EstablishedIsTrue
  <2>1. TypeOK /\ HandleInv /\ EstInv
    BY DEF CoverageInv
  <2>2. \A s \in streams : InCharge(s.h) <=> Collecting(s.h)
    BY <2>1, InChargeIsCollecting, StreamTypes
  <2> QED BY <2>1, <2>2 DEF EstInv, Watched
<1> QED BY <1>1, CoverageInvariant, PTL

\* ContinuityRevision: within a session it never falls back and grows with
\* every change of a type's evidence, so two captures that agree on it saw
\* nothing happen in between, for every number of types and registrations.
THEOREM ContinuityIsCounted == Spec => ContinuityCounts
<1>1. CoverageInv /\ [Next]_vars =>
        [gen' = gen => \A g \in Gvrs : Present(g) =>
            /\ Present(g)' /\ rows'[g].revision >= rows[g].revision
            /\ Evidence(rows'[g]) # Evidence(rows[g]) => rows'[g].revision > rows[g].revision]_vars
  BY InvNext DEF Counted
<1> QED BY <1>1, CoverageInvariant, PTL DEF Spec, ContinuityCounts

-----------------------------------------------------------------------------
(* What the snapshots say. *)

States == {"stale", "partial", "initializing", "unknown", "observed"}

LEMMA StateTypes == \A g : StateOf(g) \in States
BY DEF StateOf, RowState, States

LEMMA RankTypes ==
    ASSUME NEW s \in States
    PROVE  Rank(s) \in 0..4 /\ (Rank(s) = 0 <=> s = "observed")
BY DEF States, Rank

\* Among the states of a snapshot there is a worst, and Worst names it.
LEMMA WorstIs ==
    ASSUME NEW S \in SUBSET States, S # {}
    PROVE  Worst(S) \in S /\ \A t \in S : Rank(t) <= Rank(Worst(S))
<1>1. /\ Rank("stale") = 4 /\ Rank("partial") = 3 /\ Rank("initializing") = 2
      /\ Rank("unknown") = 1 /\ Rank("observed") = 0
  BY DEF Rank
<1>2. \E s \in S : \A t \in S : Rank(t) <= Rank(s)
  <2>1. CASE "stale" \in S
    BY <1>1, <2>1 DEF States
  <2>2. CASE "stale" \notin S /\ "partial" \in S
    BY <1>1, <2>2 DEF States
  <2>3. CASE "stale" \notin S /\ "partial" \notin S /\ "initializing" \in S
    BY <1>1, <2>3 DEF States
  <2>4. CASE "stale" \notin S /\ "partial" \notin S /\ "initializing" \notin S /\ "unknown" \in S
    BY <1>1, <2>4 DEF States
  <2>5. CASE S = {"observed"}
    BY <1>1, <2>5
  <2> QED BY <2>1, <2>2, <2>3, <2>4, <2>5 DEF States
<1> QED BY <1>2 DEF Worst

\* Only observed types make an observed whole.
LEMMA WorstObserved ==
    ASSUME NEW G \in SUBSET Gvrs, Worst({"observed"} \cup {StateOf(g) : g \in G}) = "observed"
    PROVE  \A g \in G : StateOf(g) = "observed"
<1>1. PICK S : S = {"observed"} \cup {StateOf(g) : g \in G}
  OBVIOUS
<1>2. S \in SUBSET States /\ S # {}
  BY <1>1, StateTypes DEF States
<1>3. \A t \in S : Rank(t) <= Rank(Worst(S))
  BY <1>2, WorstIs
<1>4. Rank(Worst(S)) = 0
  BY <1>1 DEF Rank
<1>5. ASSUME NEW g \in G PROVE StateOf(g) = "observed"
  <2>1. StateOf(g) \in S /\ StateOf(g) \in States
    BY <1>1, StateTypes
  <2>2. Rank(StateOf(g)) <= 0 /\ Rank(StateOf(g)) \in 0..4
    BY <1>3, <1>4, <2>1, RankTypes
  <2> QED BY <2>1, <2>2, RankTypes
<1> QED BY <1>5

LEMMA ObservedRow ==
    ASSUME CoverageInv, NEW g \in Gvrs, StateOf(g) = "observed"
    PROVE  /\ Present(g) /\ rows[g].done /\ rows[g].est /\ rows[g].list = "ok" /\ ~rows[g].stopped
           /\ rows[g].revision # 0 /\ rows[g].since = 0 /\ rows[g].gaps = {}
<1>1. TypeOK /\ RowInv
  BY DEF CoverageInv
<1>2. Present(g) /\ RowState(rows[g]) = "observed"
  BY DEF StateOf
<1>3. rows[g].done /\ rows[g].est /\ rows[g].list = "ok" /\ ~rows[g].stopped /\ rows[g].gaps = {}
  BY <1>2 DEF RowState
<1>4. rows[g].since = 0 /\ rows[g].revision > 0
  BY <1>1, <1>2, <1>3 DEF RowInv, RowSound
<1> QED BY <1>1, <1>2, <1>3, <1>4

LEMMA SourceObserved ==
    ASSUME CoverageInv, SnapshotSource = "observed"
    PROVE  /\ ~limited /\ \E g \in Gvrs : Present(g)
           /\ \A g \in Gvrs : Present(g) => StateOf(g) = "observed"
<1>1. PICK P \in SUBSET Gvrs : P = {g \in Gvrs : Present(g)}
  OBVIOUS
<1>2. PICK worst : worst = IF P = {} THEN "unknown" ELSE Worst({"observed"} \cup {StateOf(g) : g \in P})
  OBVIOUS
<1>3. SnapshotSource = IF (limited \/ stopped) /\ Rank(worst) < Rank("partial") THEN "partial" ELSE worst
  BY <1>1, <1>2 DEF SnapshotSource
<1>4. worst = "observed"
  BY <1>3
<1>5. Rank(worst) < Rank("partial")
  BY <1>4 DEF Rank
<1>6. ~limited
  BY <1>3, <1>5
<1>7. P # {} /\ Worst({"observed"} \cup {StateOf(g) : g \in P}) = "observed"
  BY <1>2, <1>4
<1>8. \A g \in P : StateOf(g) = "observed"
  BY <1>7, WorstObserved
<1> QED BY <1>1, <1>6, <1>7, <1>8

LEMMA SnapshotObserved ==
    ASSUME CoverageInv, NEW R \in SUBSET Gvrs, Snapshot(R) = "observed"
    PROVE  R # {} /\ \A g \in R : StateOf(g) = "observed"
<1>1. R # {}
  BY DEF Snapshot
<1>2. PICK worst : worst = Worst({"observed"} \cup {StateOf(g) : g \in R})
  OBVIOUS
<1>3. Snapshot(R) = IF worst = "unknown" /\ \E g \in R : StateOf(g) # "unknown" THEN "partial" ELSE worst
  BY <1>1, <1>2 DEF Snapshot
<1>4. worst = "observed"
  BY <1>3
<1> QED BY <1>1, <1>2, <1>4, WorstObserved

LEMMA ObservedEarned == CoverageInv /\ EstablishedIsTrue => ObservedIsEarned
<1> SUFFICES ASSUME CoverageInv, EstablishedIsTrue PROVE ObservedIsEarned
  OBVIOUS
<1>1. GapsAreSticky /\ (refused => limited)
  BY DEF CoverageInv
<1>2. validateImpactSources
  BY SourceObserved DEF validateImpactSources, StateOf
<1>3. \A g \in Gvrs : Present(g) => validImpactCoverageRow(rows[g])
  BY ObservedRow DEF validImpactCoverageRow, StateOf
<1>4. ASSUME NEW R \in SUBSET Gvrs, Snapshot(R) = "observed", NEW g \in R
      PROVE  /\ Present(g) /\ rows[g].done /\ rows[g].list = "ok" /\ reported[g] = {}
             /\ \E s \in streams : s.h.g = g /\ Collecting(s.h) /\ ~s.bad
  <2>1. /\ Present(g) /\ rows[g].done /\ rows[g].est /\ rows[g].list = "ok" /\ rows[g].gaps = {}
    BY <1>4, SnapshotObserved, ObservedRow
  <2>2. reported[g] = {}
    BY <1>1, <2>1 DEF GapsAreSticky, Gaps
  <2> QED BY <2>1, <2>2 DEF EstablishedIsTrue
<1>5. \A R \in SUBSET Gvrs : Snapshot(R) = "observed" => R # {}
  BY SnapshotObserved
<1>6. refused => SnapshotSource # "observed"
  BY <1>1, SourceObserved
<1> QED BY <1>2, <1>3, <1>4, <1>5, <1>6 DEF ObservedIsEarned

\* CoverageTracker: gaps survive every session and registration; a required
\* set is observed only if each type is delivered, listed, watched now and
\* free of gaps; a refused type keeps its source from being observed; and the
\* impact report's own checks of rows and sources never fail on what it says.
THEOREM CoverageIsSound == Spec => []CoverageSound
<1>1. CoverageInv /\ EstablishedIsTrue => CoverageSound
  BY ObservedEarned DEF CoverageInv, CoverageSound
<1> QED BY <1>1, CoverageInvariant, EstablishedTellsTheTruth, PTL
=============================================================================
