--------------------------- MODULE DatabaseProofs ---------------------------
(***************************************************************************)
(* The static database keeps its ranges exact, answers a READ with a       *)
(* snapshot and announces every change, for any points, values, requests   *)
(* and any number of updates.                                              *)
(*                                                                         *)
(* Each operation of a map gets a lemma: that it keeps MapOk, and what it  *)
(* leaves alone.  The theorems then follow the maps through the actions.   *)
(***************************************************************************)
EXTENDS Database, WellFoundedInduction, NaturalsInduction, TLAPS

----------------------------------------------------------------------------
(* Least and greatest elements.                                            *)

\* A set of natural numbers that is not empty has a least element.
LEMMA LeastExists ==
  ASSUME NEW S \in SUBSET Nat, S # {}
  PROVE  Least(S) \in S /\ \A j \in S : Least(S) <= j
<1> DEFINE R == {p \in Nat \X Nat : p[1] < p[2]}
<1>1. IsWellFoundedOn(R, Nat)
  BY NatLessThanWellFounded DEF OpToRel
<1>2. PICK i \in S : \A j \in S : ~(<<j, i>> \in R)
  BY <1>1, WFMin, ZenonT(30)
<1>3. \A j \in S : ~(j < i)
  BY <1>2, Zenon
<1>4. \A j \in S : i <= j
  BY <1>3
<1>5. QED
  BY <1>4, Zenon DEF Least

\* The least upper bound of a bounded set is its greatest element.
LEMMA GreatestExists ==
  ASSUME NEW n \in Nat, NEW S \in SUBSET (0 .. n), S # {}
  PROVE  Greatest(S) \in S /\ \A j \in S : j <= Greatest(S)
<1> DEFINE U == {i \in Nat : \A j \in S : j <= i}
           g == Least(U)
<1>1. n \in U
  OBVIOUS
<1>2. g \in U /\ \A i \in U : g <= i
  <2> HIDE DEF U
  <2>1. U \in SUBSET Nat
    BY DEF U
  <2>2. QED
    BY <1>1, <2>1, LeastExists
<1> HIDE DEF g
<1>3. g \in S
  <2> SUFFICES ASSUME g \notin S PROVE FALSE
    OBVIOUS
  <2>1. PICK e \in S : TRUE
    BY ZenonT(30)
  <2>2. e \in Nat /\ e <= g /\ e # g /\ g \in Nat
    BY <1>2, <2>1
  <2>3. \A j \in S : j \in Nat /\ j <= g /\ j # g
    BY <1>2
  <2>4. g - 1 \in Nat /\ \A j \in S : j <= g - 1
    BY <2>2, <2>3
  <2>5. g - 1 \in U
    BY <2>4
  <2>6. QED
    BY <1>2, <2>2, <2>5
<1>4. \A j \in S : j <= g
  BY <1>2
<1>5. QED
  BY <1>3, <1>4, Zenon DEF Greatest

----------------------------------------------------------------------------
(* The operations of a map.                                                *)
Fields ==
  {"indices", "value", "last", "clazz", "config", "selected", "copy", "var", "range"}

\* A map of the points I, the range of which agrees with its flags.
MapOk(m, I) ==
  /\ DOMAIN m = Fields
  /\ m.indices = I
  /\ m.selected \subseteq I
  /\ m.range \in [start: Int, stop: Int]
  /\ RangeOf(m)

\* What selecting and iterating leave alone, and what updating leaves alone.
SameValues(m, n) == n.value = m.value /\ n.last = m.last /\ n.clazz = m.clazz
SameSelection(m, n) == n.selected = m.selected /\ n.copy = m.copy

Points == SUBSET (0 .. MaxIndex)

\* Indices are natural numbers below 2^16.
LEMMA PointsBounded ==
  MaxIndex \in Nat /\ \A S \in Points : \A i \in S : i \in Nat /\ i \in 0 .. MaxIndex
<1>1. MaxIndex \in Nat
  BY DEF MaxIndex
<1>2. ASSUME NEW S \in Points, NEW i \in S PROVE i \in Nat /\ i \in 0 .. MaxIndex
  BY <1>1 DEF Points
<1>3. QED
  BY <1>1, <1>2

\* The range from the first to the last of some points encloses them.
LEMMA EnclosingRange ==
  ASSUME NEW ids \in Points, ids # {}
  PROVE  /\ Least(ids) \in ids /\ Greatest(ids) \in ids
         /\ \A i \in ids : i \in Nat /\ Least(ids) <= i /\ i <= Greatest(ids)
BY PointsBounded, LeastExists, GreatestExists DEF Points

\* StaticDataMap starts with nothing selected.
LEMMA NewMapOk ==
  ASSUME NEW I \in Points, NEW s, NEW c
  PROVE  MapOk(NewMap(I, s, c), I)
BY DEF MapOk, NewMap, Fields, RangeOf, Invalid, From, IsValid

\* Marking cells and giving the map a range that starts at a selected cell and
\* encloses all of them.
LEMMA MarkOk ==
  ASSUME NEW I \in Points, NEW m, MapOk(m, I), NEW ids \in SUBSET I, ids # {}, NEW s,
         NEW r \in [start: Int, stop: Int],
         r.start \in m.selected \cup ids,
         \A i \in m.selected \cup ids : Contains(r, i)
  PROVE  LET n == [Mark(m, ids, s) EXCEPT !.range = r]
         IN  MapOk(n, I) /\ SameValues(m, n)
<1> DEFINE n == [Mark(m, ids, s) EXCEPT !.range = r]
<1>1. DOMAIN n = Fields
  BY DEF MapOk, Mark
<1>2. n.selected = m.selected \cup ids /\ n.range = r /\ n.indices = I /\ SameValues(m, n)
  BY DEF MapOk, Mark, Fields, SameValues
<1> HIDE DEF n
<1>3. IsValid(r)
  BY DEF Contains, IsValid
<1>4. RangeOf(n)
  BY <1>2, <1>3 DEF RangeOf
<1>5. MapOk(n, I)
  BY <1>1, <1>2, <1>4 DEF MapOk
<1>6. QED
  BY <1>2, <1>5 DEF n

\* select_all keeps the range exact and changes no value.
LEMMA SelectAllOk ==
  ASSUME NEW I \in Points, NEW m, MapOk(m, I), NEW s
  PROVE  MapOk(select_all(m, s), I) /\ SameValues(m, select_all(m, s))
<1>1. CASE I = {}
  BY <1>1 DEF select_all, MapOk, SameValues
<1>2. CASE I # {}
  <2> DEFINE r == From(Least(I), Greatest(I))
  <2>1. /\ r \in [start: Int, stop: Int] /\ r.start \in I
        /\ \A i \in I : Contains(r, i)
    BY <1>2, EnclosingRange DEF From, Contains
  <2>2. m.selected \cup I = I /\ m.indices = I
    BY DEF MapOk
  <2> HIDE DEF r
  <2>3. select_all(m, s) = [Mark(m, I, s) EXCEPT !.range = r]
    BY <1>2, <2>2 DEF select_all, r
  <2>4. QED
    BY <1>2, <2>1, <2>2, <2>3, MarkOk
<1>3. QED
  BY <1>1, <1>2

\* select of a range joins the selections and their ranges exactly.
LEMMA SelectOk ==
  ASSUME NEW I \in Points, NEW m, MapOk(m, I), NEW q, NEW s
  PROVE  MapOk(select(m, q, s), I) /\ SameValues(m, select(m, q, s))
<1> DEFINE ids == {i \in m.indices : Contains(q, i)}
<1>1. ids \in SUBSET I /\ ids \in Points
  BY ZenonT(30) DEF MapOk, Points
<1>2. CASE ids = {}
  BY <1>2 DEF select, SameValues
<1>3. CASE ids # {}
  <2> DEFINE new == From(Least(ids), Greatest(ids))
             r == Union(m.range, new)
  <2>0. select(m, q, s) = [Mark(m, ids, s) EXCEPT !.range = r]
    <3>1. "range" \in DOMAIN Mark(m, ids, s) /\ Mark(m, ids, s).range = m.range
      BY DEF MapOk, Mark, Fields
    <3>2. QED
      BY <1>3, <3>1 DEF select
  <2> HIDE DEF ids
  <2>1. /\ new \in [start: Int, stop: Int] /\ new.start \in ids
        /\ \A i \in ids : i \in Nat /\ Contains(new, i)
    BY <1>1, <1>3, EnclosingRange DEF From, Contains
  <2> HIDE DEF new
  <2>2. m.range \in [start: Int, stop: Int] /\ RangeOf(m) /\ m.selected \in SUBSET Nat
    BY PointsBounded DEF MapOk
  <2>3. CASE m.selected = {}
    <3>1. r = new
      BY <2>2, <2>3 DEF Union, RangeOf
    <3>2. QED
      BY <1>1, <1>3, <2>0, <2>1, <2>3, <3>1, MarkOk
  <2>4. CASE m.selected # {}
    <3>1. r = From(IF m.range.start <= new.start THEN m.range.start ELSE new.start,
                   IF m.range.stop >= new.stop THEN m.range.stop ELSE new.stop)
      BY <2>2, <2>4 DEF Union, RangeOf
    <3> HIDE DEF r
    <3>2. r \in [start: Int, stop: Int]
      BY <3>1, <2>1, <2>2 DEF From
    <3>3. r.start \in m.selected \cup ids
      BY <3>1, <2>1, <2>2, <2>4 DEF From, RangeOf
    <3>4. \A i \in m.selected \cup ids : Contains(r, i)
      BY <3>1, <2>1, <2>2 DEF From, RangeOf, Contains
    <3>5. QED
      BY <1>1, <1>3, <2>0, <3>2, <3>3, <3>4, MarkOk
  <2>5. QED
    BY <2>3, <2>4
<1>4. QED
  BY <1>2, <1>3

\* Iterating begins at the first selected cell.
LEMMA BeginAtStart ==
  ASSUME NEW I \in Points, NEW m, MapOk(m, I)
  PROVE  begin(m) = IF m.selected = {} THEN End ELSE m.range.start
<1>1. CASE m.selected = {}
  BY <1>1 DEF begin, MapOk, RangeOf
<1>2. CASE m.selected # {}
  <2> DEFINE b == m.range.start
             up == {j \in m.indices : b <= j}
  <2>1. IsValid(m.range) /\ b \in I /\ m.indices = I
    BY <1>2 DEF MapOk, RangeOf
  <2>2. b \in up /\ up \in Points /\ up # {}
    <3>1. b \in Nat
      BY <2>1, PointsBounded
    <3>2. b \in up
      BY <2>1, <3>1
    <3>3. up \in Points
      BY <2>1, ZenonT(30) DEF Points
    <3>4. QED
      BY <3>2, <3>3
  <2>3. Least(up) \in up /\ Least(up) <= b /\ Least(up) \in Nat
    BY <2>2, EnclosingRange, ZenonT(30)
  <2>4. b \in Nat
    BY <2>1, PointsBounded
  <2>5. Least(up) = b
    BY <2>3, <2>4
  <2>6. lower_bound(m, b) = IF up = {} THEN End ELSE Least(up)
    BY DEF lower_bound
  <2> HIDE DEF up
  <2>7. QED
    BY <1>2, <2>1, <2>2, <2>5, <2>6 DEF begin
<1>3. QED
  BY <1>1, <1>2

\* clear_selection reaches every selected cell, because it begins at the first.
LEMMA ClearOk ==
  ASSUME NEW I \in Points, NEW m, MapOk(m, I)
  PROVE  LET n == clear_selection(m)
         IN  MapOk(n, I) /\ SameValues(m, n) /\ n.selected = {}
<1>1. CASE m.selected = {}
  BY <1>1, BeginAtStart DEF clear_selection, SameValues
<1>2. CASE m.selected # {}
  <2> DEFINE n == [m EXCEPT !.selected = {}, !.range = Invalid]
  <2>1. begin(m) = m.range.start /\ m.range.start \in m.selected
    BY <1>2, BeginAtStart DEF MapOk, RangeOf
  <2>2. begin(m) \in Nat /\ \A i \in m.selected : i \in Nat /\ begin(m) <= i
    BY <2>1, PointsBounded DEF MapOk, RangeOf, Contains
  <2>3. {i \in m.selected : i < begin(m)} = {} /\ begin(m) # End
    BY <2>2 DEF End
  <2>4. clear_selection(m) = n
    BY <2>3, ZenonT(30) DEF clear_selection
  <2>5. /\ DOMAIN n = Fields /\ n.indices = I /\ n.selected = {} /\ n.range = Invalid
        /\ SameValues(m, n)
    BY DEF MapOk, Fields, SameValues
  <2> HIDE DEF n
  <2>6. MapOk(n, I)
    BY <2>5 DEF MapOk, RangeOf, Invalid, From, IsValid
  <2>7. QED
    BY <2>4, <2>5, <2>6
<1>3. QED
  BY <1>1, <1>2

\* Writing cells of the selection moves the range on to what is left.
LEMMA ConsumeOk ==
  ASSUME NEW I \in Points, NEW m, MapOk(m, I), NEW ids
  PROVE  LET n == Consume(m, ids)
         IN  /\ MapOk(n, I) /\ SameValues(m, n)
             /\ n.copy = m.copy /\ n.selected = m.selected \ ids
<1> DEFINE rest == m.selected \ ids
           r == IF rest = {} THEN Invalid ELSE [m.range EXCEPT !.start = Least(rest)]
           n == [m EXCEPT !.selected = rest, !.range = r]
<1>1. CASE ids = {}
  BY <1>1 DEF Consume, SameValues
<1>2. CASE ids # {}
  <2>1. Consume(m, ids) = n
    BY <1>2 DEF Consume, MapOk, Fields
  <2>2. /\ DOMAIN n = Fields /\ n.indices = I /\ n.selected = rest /\ n.range = r
        /\ n.copy = m.copy /\ SameValues(m, n)
    BY DEF MapOk, Fields, SameValues
  <2>3. rest \in SUBSET I /\ rest \in Points
    BY ZenonT(30) DEF MapOk, Points
  <2> HIDE DEF n
  <2>4. CASE rest = {}
    BY <2>1, <2>2, <2>4 DEF MapOk, RangeOf, Invalid, From, IsValid
  <2>5. CASE rest # {}
    <3>1. /\ Least(rest) \in rest
          /\ \A i \in rest : i \in Nat /\ Least(rest) <= i
      BY <2>3, <2>5, EnclosingRange
    <3>2. m.range \in [start: Int, stop: Int] /\ \A i \in rest : i <= m.range.stop
      BY DEF MapOk, RangeOf, Contains
    <3> HIDE DEF rest
    <3>3. /\ r \in [start: Int, stop: Int]
          /\ r.start = Least(rest) /\ r.stop = m.range.stop
      BY <2>5, <3>1, <3>2
    <3> HIDE DEF r
    <3>4. RangeOf(n)
      BY <2>2, <2>5, <3>1, <3>2, <3>3 DEF RangeOf, Contains, IsValid
    <3>5. MapOk(n, I)
      BY <2>2, <2>3, <3>3, <3>4 DEF MapOk
    <3>6. QED
      BY <2>1, <2>2, <3>5 DEF rest
  <2>6. QED
    BY <2>4, <2>5
<1>3. QED
  BY <1>1, <1>2

\* update touches neither the selection nor the copies.
LEMMA UpdateOk ==
  ASSUME NEW I \in Points, NEW m, MapOk(m, I), NEW f, NEW mode
  PROVE  LET n == update(m, f, mode)
         IN  MapOk(n, I) /\ SameSelection(m, n)
<1> DEFINE n == update(m, f, mode)
<1>1. DOMAIN n = Fields
  BY DEF MapOk, update
<1>2. n.indices = I /\ n.range = m.range /\ SameSelection(m, n)
  BY DEF MapOk, update, Fields, SameSelection
<1> HIDE DEF n
<1>3. MapOk(n, I)
  BY <1>1, <1>2 DEF MapOk, RangeOf, SameSelection
<1>4. QED
  BY <1>2, <1>3 DEF n

\* assign_class changes the event class only.
LEMMA AssignClassOk ==
  ASSUME NEW I \in Points, NEW m, MapOk(m, I), NEW c, NEW r
  PROVE  LET n == assign_class(m, c, r)
         IN  /\ MapOk(n, I) /\ SameSelection(m, n)
             /\ n.value = m.value /\ n.last = m.last
<1> DEFINE n == assign_class(m, c, r)
<1>1. DOMAIN n = Fields
  BY DEF MapOk, assign_class
<1>2. /\ n.indices = I /\ n.range = m.range /\ SameSelection(m, n)
      /\ n.value = m.value /\ n.last = m.last
  BY DEF MapOk, assign_class, Fields, SameSelection
<1> HIDE DEF n
<1>3. MapOk(n, I)
  BY <1>1, <1>2 DEF MapOk, RangeOf, SameSelection
<1>4. QED
  BY <1>2, <1>3 DEF n

----------------------------------------------------------------------------
(* The database.                                                           *)
DbOk(d) == DOMAIN d = Kinds /\ \A k \in Kinds : MapOk(d[k], Indices[k])

SameDbValues(d, e) == \A k \in Kinds : SameValues(d[k], e[k])

IsHeader(h) == h = NoHeader \/ h.kind \in Kinds \cup {"class0"}

\* The points of each kind have 16-bit indices.
LEMMA IndicesPoints == \A k \in Kinds : Indices[k] \in Points
BY IndicesOk DEF Points

\* Database::Unselect keeps the ranges exact and changes no value.
LEMMA UnselectOk ==
  ASSUME NEW d, DbOk(d)
  PROVE  DbOk(Unselect(d)) /\ SameDbValues(d, Unselect(d))
<1>1. ASSUME NEW k \in Kinds
      PROVE  MapOk(clear_selection(d[k]), Indices[k]) /\ SameValues(d[k], clear_selection(d[k]))
  BY ClearOk, IndicesPoints DEF DbOk
<1>2. QED
  BY <1>1 DEF DbOk, Unselect, SameDbValues

\* Selecting for a header of a READ does so, too.
LEMMA SelectHeaderOk ==
  ASSUME NEW d, DbOk(d), NEW h, IsHeader(h)
  PROVE  DbOk(SelectHeader(d, h)) /\ SameDbValues(d, SelectHeader(d, h))
<1> DEFINE e == SelectHeader(d, h)
<1>1. CASE h = NoHeader
  BY <1>1 DEF SelectHeader, SameDbValues, SameValues
<1>2. CASE h # NoHeader /\ h.kind = "class0"
  <2>1. e = [k \in Kinds |-> IF k \in ClassZero THEN select_all(d[k], AsConfigured) ELSE d[k]]
    BY <1>2 DEF SelectHeader
  <2> HIDE DEF e
  <2>2. ASSUME NEW k \in Kinds
        PROVE  MapOk(e[k], Indices[k]) /\ SameValues(d[k], e[k])
    <3>1. e[k] = select_all(d[k], AsConfigured) \/ e[k] = d[k]
      BY <2>1
    <3>2. MapOk(d[k], Indices[k]) /\ SameValues(d[k], d[k])
      BY DEF DbOk, SameValues
    <3>3. QED
      BY <3>1, <3>2, SelectAllOk, IndicesPoints
  <2>3. DOMAIN e = Kinds
    BY <2>1
  <2>4. QED
    BY <2>2, <2>3 DEF DbOk, SameDbValues, e
<1>3. CASE h # NoHeader /\ h.kind \in Kinds
  <2> DEFINE n == IF h.all THEN select_all(d[h.kind], h.var) ELSE select(d[h.kind], h.range, h.var)
  <2>0. h.kind # "class0"
    BY <1>3 DEF Kinds
  <2>1. e = [d EXCEPT ![h.kind] = n]
    BY <1>3, <2>0 DEF SelectHeader
  <2>2. MapOk(n, Indices[h.kind]) /\ SameValues(d[h.kind], n)
    BY <1>3, SelectAllOk, SelectOk, IndicesPoints DEF DbOk
  <2> HIDE DEF e, n
  <2>3. DOMAIN e = Kinds /\ \A k \in Kinds : e[k] = IF k = h.kind THEN n ELSE d[k]
    BY <1>3, <2>1 DEF DbOk
  <2>4. ASSUME NEW k \in Kinds
        PROVE  MapOk(e[k], Indices[k]) /\ SameValues(d[k], e[k])
    BY <2>2, <2>3 DEF DbOk, SameValues
  <2>5. QED
    BY <2>3, <2>4 DEF DbOk, SameDbValues, e
<1>4. QED
  BY <1>1, <1>2, <1>3 DEF IsHeader

----------------------------------------------------------------------------
(* The mirror.                                                             *)

\* Unless a point is hidden, the master saw the value last considered for an
\* event; unless it is ahead as well, that is its current value.
Reflects(r, m) ==
  \A i \in m.indices \ r.hidden :
    /\ r.seen[i] = m.last[i]
    /\ i \notin r.ahead => r.seen[i] = m.value[i]

\* An update and the event it announces, or does not, keep the mirror.
LEMMA ReflectUpdate ==
  ASSUME NEW I, NEW m, MapOk(m, I), NEW r, Reflects(r, m), NEW f, NEW mode \in EventModes
  PROVE  Reflects(Reflect(r, m, f, mode), update(m, f, mode))
<1> DEFINE n == update(m, f, mode)
           q == Reflect(r, m, f, mode)
<1> SUFFICES ASSUME NEW i \in n.indices \ q.hidden
             PROVE  q.seen[i] = n.last[i] /\ (i \notin q.ahead => q.seen[i] = n.value[i])
  BY DEF Reflects
<1>1. n.indices = I /\ m.indices = I
  BY DEF MapOk, update, Fields
<1>2. /\ n.value[i] = IF i \in DOMAIN f /\ mode # "EventOnly" THEN f[i] ELSE m.value[i]
      /\ n.last[i] = IF i \in DOMAIN f /\ Considered(m, i, f[i], mode)
                     THEN f[i] ELSE m.last[i]
  BY <1>1 DEF MapOk, update, Fields
<1> DEFINE told == i \in DOMAIN f /\ Announced(m, i, f[i], mode)
           mute == i \in DOMAIN f /\ (mode = "Suppress" \/ m.clazz[i] = 0)
<1>3. /\ q.seen[i] = IF told THEN f[i] ELSE r.seen[i]
      /\ i \in q.hidden <=> (i \in r.hidden \/ mute) /\ ~told
      /\ i \in q.ahead <=> IF mode = "EventOnly" THEN i \in r.ahead \/ i \in DOMAIN f
                           ELSE i \in r.ahead /\ i \notin DOMAIN f
  BY <1>1 DEF Reflect
<1>4. i \in I /\ i \notin q.hidden
  BY <1>1
<1> HIDE DEF n, q
<1>5. i \notin r.hidden => r.seen[i] = m.last[i] /\ (i \notin r.ahead => r.seen[i] = m.value[i])
  BY <1>1, <1>4 DEF Reflects
<1>6. CASE i \notin DOMAIN f
  BY <1>2, <1>3, <1>4, <1>5, <1>6
<1>7. CASE told
  BY <1>2, <1>3, <1>7 DEF Announced
<1>8. CASE i \in DOMAIN f /\ ~told
  <2>1. i \notin r.hidden /\ mode # "Suppress" /\ m.clazz[i] # 0
    BY <1>3, <1>4, <1>8
  <2>2. ~Considered(m, i, f[i], mode)
    BY <1>8, <2>1 DEF Announced
  <2>3. mode # "EventOnly" /\ f[i] = m.last[i]
    BY <2>2 DEF Considered, IsEvent
  <2>4. QED
    BY <1>2, <1>3, <1>5, <1>8, <2>1, <2>2, <2>3
<1>9. QED
  BY <1>6, <1>7, <1>8

\* What changes neither values nor the last events keeps the mirror.
LEMMA ReflectsSame ==
  ASSUME NEW r, NEW m, NEW n, Reflects(r, m), n.indices = m.indices,
         n.value = m.value, n.last = m.last
  PROVE  Reflects(r, n)
BY DEF Reflects

----------------------------------------------------------------------------
(* The response.                                                           *)

\* The points asked for, with their copies, are those sent and those selected.
Snapshot(a, s, m) == a = s \cup Copies(m) /\ s \cap Copies(m) = {}

\* What changes neither selection nor copies keeps the snapshot.
LEMMA SnapshotSame ==
  ASSUME NEW a, NEW s, NEW m, NEW n, Snapshot(a, s, m), SameSelection(m, n)
  PROVE  Snapshot(a, s, n)
BY DEF Snapshot, Copies, SameSelection

\* The cells that a fragment takes move from the selected to the sent.
LEMMA SnapshotLoad ==
  ASSUME NEW I \in Points, NEW m, MapOk(m, I), NEW ids \in SUBSET m.selected,
         NEW a, NEW s, Snapshot(a, s, m)
  PROVE  Snapshot(a, s \cup {<<i, m.copy[i]>> : i \in ids}, Consume(m, ids))
<1> DEFINE n == Consume(m, ids)
           new == {<<i, m.copy[i]>> : i \in ids}
<1>1. n.copy = m.copy /\ n.selected = m.selected \ ids
  BY ConsumeOk
<1> HIDE DEF n
<1>2. Copies(n) = {<<i, m.copy[i]>> : i \in m.selected \ ids}
  BY <1>1 DEF Copies
<1>3. Copies(m) = new \cup Copies(n)
  BY <1>2 DEF Copies
<1>4. new \cap Copies(n) = {}
  BY <1>2
<1> HIDE DEF new
<1>5. QED
  BY <1>3, <1>4 DEF Snapshot, n, new

\* Database::Load writes selected cells only.
LEMMA LoadedSelected ==
  ASSUME NEW d, NEW room, NEW k \in Kinds
  PROVE  Loaded(d, room)[k] \in SUBSET d[k].selected
BY DEF Loaded, Fitting, Kinds

----------------------------------------------------------------------------
(* The invariant.                                                          *)
Inv ==
  /\ DbOk(db)
  /\ DOMAIN mirror = Kinds
  /\ \A k \in Kinds : Reflects(mirror[k], db[k])
  /\ \A k \in Kinds \ {"counter"} : Snapshot(asked[k], sent[k], db[k])

\* The database after construction.
LEMMA InitInv == Init => Inv
<1> SUFFICES ASSUME Init PROVE Inv
  OBVIOUS
<1>1. ASSUME NEW k \in Kinds
      PROVE  MapOk(NewMap(Indices[k], Config[k], 1), Indices[k])
  BY NewMapOk, IndicesPoints
<1>2. DbOk(db)
  BY <1>1 DEF Init, DbOk
<1>3. DOMAIN mirror = Kinds
  BY DEF Init
<1>4. ASSUME NEW k \in Kinds PROVE Reflects(mirror[k], db[k])
  BY DEF Init, Reflects, NewMirror, NewMap
<1>5. ASSUME NEW k \in Kinds PROVE Snapshot(asked[k], sent[k], db[k])
  BY DEF Init, Snapshot, Copies, NewMap
<1>6. QED
  BY <1>2, <1>3, <1>4, <1>5 DEF Inv

\* A READ starts a new snapshot.
LEMMA ReadInv ==
  ASSUME Inv, NEW q \in Reads, Read(q)
  PROVE  Inv'
<1> DEFINE d == Unselect(db)
           e == SelectHeader(d, q[1])
<1>1. IsHeader(q[1]) /\ IsHeader(q[2])
  <2>1. ASSUME NEW h \in {q[1], q[2]} PROVE IsHeader(h)
    BY ReadsOk DEF IsHeader
  <2>2. QED
    BY <2>1
<1>2. DbOk(d) /\ SameDbValues(db, d)
  BY UnselectOk DEF Inv
<1> HIDE DEF d
<1>3. DbOk(e) /\ SameDbValues(d, e)
  BY <1>1, <1>2, SelectHeaderOk
<1> HIDE DEF e
<1>4. db' = SelectHeader(e, q[2])
  BY DEF Read, e, d
<1>5. DbOk(db') /\ SameDbValues(e, db')
  BY <1>1, <1>3, <1>4, SelectHeaderOk
<1>6. ASSUME NEW k \in Kinds PROVE Reflects(mirror'[k], db'[k])
  <2>1. db'[k].indices = db[k].indices
    BY <1>5 DEF Inv, DbOk, MapOk
  <2>2. db'[k].value = db[k].value /\ db'[k].last = db[k].last
    BY <1>2, <1>3, <1>5 DEF SameDbValues, SameValues
  <2>3. QED
    BY <2>1, <2>2, ReflectsSame DEF Inv, Read
<1>7. ASSUME NEW k \in Kinds PROVE Snapshot(asked'[k], sent'[k], db'[k])
  BY DEF Read, Snapshot
<1>8. QED
  BY <1>5, <1>6, <1>7 DEF Inv, Read

\* A fragment of the response.
LEMMA LoadInv ==
  ASSUME Inv, NEW room, LoadFragment(room)
  PROVE  Inv'
<1> DEFINE ids(k) == Loaded(db, room)[k]
<1>1. DOMAIN db' = Kinds /\ \A k \in Kinds : db'[k] = Consume(db[k], ids(k))
  BY DEF LoadFragment, Load
<1>2. ASSUME NEW k \in Kinds
      PROVE  /\ MapOk(db'[k], Indices[k]) /\ SameValues(db[k], db'[k])
             /\ Reflects(mirror'[k], db'[k])
  <2>1. MapOk(db[k], Indices[k]) /\ Reflects(mirror[k], db[k]) /\ mirror' = mirror
    BY DEF Inv, DbOk, LoadFragment
  <2>2. MapOk(db'[k], Indices[k]) /\ SameValues(db[k], db'[k])
    BY <1>1, <2>1, ConsumeOk, IndicesPoints
  <2>3. QED
    BY <2>1, <2>2, ReflectsSame DEF MapOk, SameValues
<1>3. ASSUME NEW k \in Kinds \ {"counter"}
      PROVE  Snapshot(asked'[k], sent'[k], db'[k])
  <2>1. /\ asked' = asked
        /\ sent'[k] = sent[k] \cup {<<i, db[k].copy[i]>> : i \in ids(k)}
    BY DEF LoadFragment
  <2>2. ids(k) \in SUBSET db[k].selected
    BY LoadedSelected, ZenonT(30)
  <2> HIDE DEF ids
  <2>3. QED
    BY <1>1, <2>1, <2>2, SnapshotLoad, IndicesPoints DEF Inv, DbOk
<1>4. QED
  BY <1>1, <1>2, <1>3, ZenonT(30) DEF Inv, DbOk, LoadFragment

\* An action that changes one map and leaves its selection alone.
LEMMA OneMapInv ==
  ASSUME Inv, NEW k \in Kinds, NEW n, MapOk(n, Indices[k]), SameSelection(db[k], n),
         db' = [db EXCEPT ![k] = n], UNCHANGED <<asked, sent>>,
         DOMAIN mirror' = Kinds, Reflects(mirror'[k], n),
         \A j \in Kinds \ {k} : mirror'[j] = mirror[j]
  PROVE  Inv'
<1>1. DbOk(db') /\ \A j \in Kinds : db'[j] = IF j = k THEN n ELSE db[j]
  BY DEF Inv, DbOk
<1>2. ASSUME NEW j \in Kinds PROVE Reflects(mirror'[j], db'[j])
  BY <1>1 DEF Inv
<1>3. ASSUME NEW j \in Kinds \ {"counter"} PROVE Snapshot(asked'[j], sent'[j], db'[j])
  BY <1>1, SnapshotSame DEF Inv
<1>4. QED
  BY <1>1, <1>2, <1>3 DEF Inv

\* An update of values by the user or by Modify.
LEMMA AssignInv ==
  ASSUME Inv, NEW k \in Kinds, NEW f, NEW mode \in EventModes,
         Assign(k, f, mode), UNCHANGED <<asked, sent>>
  PROVE  Inv'
<1> DEFINE n == update(db[k], f, mode)
           r == Reflect(mirror[k], db[k], f, mode)
<1>1. MapOk(db[k], Indices[k]) /\ Reflects(mirror[k], db[k])
  BY DEF Inv, DbOk
<1>2. MapOk(n, Indices[k]) /\ SameSelection(db[k], n)
  BY <1>1, UpdateOk, IndicesPoints
<1>3. Reflects(r, n)
  BY <1>1, ReflectUpdate
<1> HIDE DEF n, r
<1>4. db' = [db EXCEPT ![k] = n] /\ mirror' = [mirror EXCEPT ![k] = r]
  BY DEF Assign, n, r
<1>5. /\ DOMAIN mirror' = Kinds /\ mirror'[k] = r
      /\ \A j \in Kinds \ {k} : mirror'[j] = mirror[j]
  BY <1>4 DEF Inv
<1>6. QED
  BY <1>2, <1>3, <1>4, <1>5, OneMapInv, ZenonT(30)

\* A freeze, on a database d the counters of which were selected before.
LEMMA FreezeInv ==
  ASSUME Inv, NEW n, MapOk(n, Indices["counter"]), SameValues(db["counter"], n),
         NEW clear \in BOOLEAN, NEW mode \in EventModes,
         Freeze([db EXCEPT !["counter"] = n], clear, mode)
  PROVE  Inv'
<1> DEFINE d == [db EXCEPT !["counter"] = n]
           f == FrozenValues(d)
           c == ClearedValues(d)
           frozen == update(db["frozen"], f, mode)
           counter == IF clear THEN update(n, c, mode) ELSE n
           rf == Reflect(mirror["frozen"], db["frozen"], f, mode)
           rc == IF clear THEN Reflect(mirror["counter"], n, c, mode) ELSE mirror["counter"]
<1>0. /\ "counter" \in Kinds /\ "frozen" \in Kinds
      /\ DOMAIN db = Kinds /\ DOMAIN mirror = Kinds
      /\ \A k \in Kinds : MapOk(db[k], Indices[k]) /\ Reflects(mirror[k], db[k])
  BY DEF Kinds, Inv, DbOk
<1>1. d["counter"] = n /\ d["frozen"] = db["frozen"] /\ DOMAIN d = Kinds
  BY <1>0
<1> HIDE DEF d, f, c
<1>2. MapOk(frozen, Indices["frozen"]) /\ SameSelection(db["frozen"], frozen)
  BY <1>0, UpdateOk, IndicesPoints
<1>3. Reflects(rf, frozen)
  BY <1>0, ReflectUpdate
<1>4. Reflects(mirror["counter"], n)
  BY <1>0, ReflectsSame DEF MapOk, SameValues
<1>5. MapOk(counter, Indices["counter"]) /\ Reflects(rc, counter)
  <2>1. CASE clear
    BY <1>0, <1>4, <2>1, UpdateOk, ReflectUpdate, IndicesPoints
  <2>2. CASE ~clear
    BY <1>4, <2>2
  <2>3. QED
    BY <2>1, <2>2
<1> DEFINE last == clear_selection(counter)
<1>6. MapOk(last, Indices["counter"]) /\ Reflects(rc, last)
  <2> HIDE DEF counter, rc
  <2>1. MapOk(last, Indices["counter"]) /\ SameValues(counter, last)
    BY <1>0, <1>5, ClearOk, IndicesPoints
  <2> HIDE DEF last
  <2>2. QED
    BY <1>5, <2>1, ReflectsSame DEF MapOk, SameValues
<1>7. /\ db' = [d EXCEPT !["frozen"] = frozen, !["counter"] = last]
      /\ mirror' = [mirror EXCEPT !["frozen"] = rf, !["counter"] = rc]
      /\ UNCHANGED <<asked, sent>>
  BY <1>0, <1>1 DEF Freeze, Change, FreezeSelectedCounters, d, f, c
<1> HIDE DEF frozen, counter, last, rf, rc
<1>8. /\ DOMAIN db' = Kinds /\ DOMAIN mirror' = Kinds
      /\ db'["counter"] = last /\ mirror'["counter"] = rc
      /\ db'["frozen"] = frozen /\ mirror'["frozen"] = rf
  BY <1>0, <1>1, <1>7
<1>9. ASSUME NEW k \in Kinds \ {"counter", "frozen"}
      PROVE  db'[k] = db[k] /\ mirror'[k] = mirror[k]
  BY <1>0, <1>7 DEF d
<1>10. ASSUME NEW k \in Kinds
       PROVE  MapOk(db'[k], Indices[k]) /\ Reflects(mirror'[k], db'[k])
  BY <1>0, <1>2, <1>3, <1>6, <1>8, <1>9
<1>11. ASSUME NEW k \in Kinds \ {"counter"}
       PROVE  Snapshot(asked'[k], sent'[k], db'[k])
  <2>1. SameSelection(db[k], db'[k])
    BY <1>2, <1>8, <1>9 DEF SameSelection
  <2>2. QED
    BY <1>7, <2>1, SnapshotSame DEF Inv
<1>12. QED
  BY <1>8, <1>10, <1>11 DEF Inv, DbOk

\* Every action keeps the invariant.
LEMMA NextInv == Inv /\ [Next]_vars => Inv'
<1> SUFFICES ASSUME Inv, [Next]_vars PROVE Inv'
  OBVIOUS
<1>1. ASSUME NEW q \in Reads, Read(q) PROVE Inv'
  BY <1>1, ReadInv
<1>2. ASSUME NEW room \in Rooms, LoadFragment(room) PROVE Inv'
  BY <1>2, LoadInv
<1>3. ASSUME NEW k \in Kinds, NEW v \in Values, NEW mode \in Modes, NEW i \in Indices[k],
             Update(k, i, v, mode)
      PROVE  Inv'
  BY <1>3, AssignInv, ModesOk DEF Update, Change
<1>4. ASSUME NEW k \in Kinds, NEW r \in Ranges, NEW f \in FlagValues, Modify(k, r, f)
      PROVE  Inv'
  BY <1>4, AssignInv DEF Modify, Change, EventModes
<1>5. MapOk(db["counter"], Indices["counter"]) /\ Indices["counter"] \in Points
  BY IndicesPoints DEF Inv, DbOk, Kinds
<1>6. ASSUME NEW i \in Indices["counter"], NEW c \in BOOLEAN, NEW mode \in Modes,
             FreezeCounter(i, c, mode)
      PROVE  Inv'
  <2> DEFINE n == select(db["counter"], From(i, i), AsConfigured)
  <2>1. MapOk(n, Indices["counter"]) /\ SameValues(db["counter"], n)
    BY <1>5, SelectOk
  <2>2. Freeze([db EXCEPT !["counter"] = n], c, mode)
    BY <1>6 DEF FreezeCounter
  <2> HIDE DEF n
  <2>3. QED
    BY <2>1, <2>2, FreezeInv, ModesOk
<1>7. ASSUME NEW r \in Ranges, NEW c \in BOOLEAN, FreezeRange(r, c)
      PROVE  Inv'
  <2> DEFINE n == select(db["counter"], r, AsConfigured)
  <2>1. MapOk(n, Indices["counter"]) /\ SameValues(db["counter"], n)
    BY <1>5, SelectOk
  <2>2. Freeze([db EXCEPT !["counter"] = n], c, "Detect")
    BY <1>7 DEF FreezeRange
  <2> HIDE DEF n
  <2>3. QED
    BY <2>1, <2>2, FreezeInv DEF EventModes
<1>8. ASSUME NEW c \in BOOLEAN, FreezeAll(c)
      PROVE  Inv'
  <2> DEFINE n == select_all(db["counter"], AsConfigured)
  <2>1. MapOk(n, Indices["counter"]) /\ SameValues(db["counter"], n)
    BY <1>5, SelectAllOk
  <2>2. Freeze([db EXCEPT !["counter"] = n], c, "Detect")
    BY <1>8 DEF FreezeAll
  <2> HIDE DEF n
  <2>3. QED
    BY <2>1, <2>2, FreezeInv DEF EventModes
<1>9. ASSUME NEW k \in Kinds, NEW c \in PointClasses, NEW r \in Ranges, AssignClass(k, c, r)
      PROVE  Inv'
  <2> DEFINE n == assign_class(db[k], c, r)
  <2>1. MapOk(db[k], Indices[k]) /\ Reflects(mirror[k], db[k]) /\ DOMAIN mirror = Kinds
    BY DEF Inv, DbOk
  <2>2. /\ MapOk(n, Indices[k]) /\ SameSelection(db[k], n)
        /\ n.value = db[k].value /\ n.last = db[k].last
    BY <2>1, AssignClassOk, IndicesPoints
  <2>3. db' = [db EXCEPT ![k] = n] /\ mirror' = mirror /\ UNCHANGED <<asked, sent>>
    BY <1>9 DEF AssignClass, Change
  <2> HIDE DEF n
  <2>4. Reflects(mirror[k], n)
    BY <2>1, <2>2, ReflectsSame DEF MapOk
  <2>5. QED
    BY <2>1, <2>2, <2>3, <2>4, OneMapInv, ZenonT(30)
<1>10. CASE UNCHANGED vars
  BY <1>10 DEF vars, Inv
<1>11. QED
  BY <1>1, <1>2, <1>3, <1>4, <1>6, <1>7, <1>8, <1>9, <1>10 DEF Next

\* The invariant holds in every reachable state.
LEMMA AlwaysInv == Spec => []Inv
BY InitInv, NextInv, PTL DEF Spec

----------------------------------------------------------------------------
(* The theorems.                                                           *)

\* The range that StaticDataMap keeps agrees with the flags of its cells after
\* any sequence of reads, fragments, updates, freezes and class assignments.
THEOREM RangeCorrect == Spec => []RangeExact
<1>1. Inv => RangeExact
  BY DEF Inv, DbOk, MapOk, RangeExact
<1>2. QED
  BY <1>1, AlwaysInv, PTL

\* A response in any number of fragments carries the values of the moment of
\* the READ, each once, however it is cut and whatever is updated meanwhile.
THEOREM SnapshotCorrect == Spec => []ResponseIsSnapshot
<1>1. Inv => ResponseIsSnapshot
  BY DEF Inv, Snapshot, ResponseIsSnapshot
<1>2. QED
  BY <1>1, AlwaysInv, PTL

\* StaticDataMap::update announces every change that a point with a class
\* makes, whatever modes the updates of the point mix.
THEOREM MirrorCorrect == Spec => []MirrorExact
<1>1. Inv => MirrorExact
  BY DEF Inv, DbOk, MapOk, Reflects, MirrorExact
<1>2. QED
  BY <1>1, AlwaysInv, PTL
=============================================================================
