------------------------- MODULE EventBufferProofs -------------------------
(***************************************************************************)
(* The event buffer keeps its lists and its counters in agreement, for all *)
(* types, classes, capacities and limits, and under every order of calls.  *)
(*                                                                         *)
(* Each operation gets two lemmas: which records it leaves in which state, *)
(* class and type, and from that, that it keeps the inductive invariant    *)
(* Consistent.  What is counted is followed with the cardinality facts of  *)
(* FiniteSetTheorems.                                                      *)
(***************************************************************************)
EXTENDS EventBufferSpec, FiniteSetTheorems, TLAPS

\* The inductive invariant, of a buffer.
Consistent(b) == IsBuffer(b) /\ CountersOf(b) /\ ListsOf(b)

\* The records of a buffer are finitely many.
LEMMA RecordsFinite ==
  ASSUME NEW b, IsBuffer(b)
  PROVE  /\ IsFiniteSet(Ids(b))
         /\ \A S \in SUBSET Ids(b) : IsFiniteSet(S) /\ Cardinality(S) \in Nat
<1>1. IsFiniteSet(1 .. b.next - 1)
  BY FS_Interval DEF IsBuffer
<1>2. IsFiniteSet(Ids(b))
  BY <1>1, FS_Subset DEF IsBuffer
<1>3. QED
  BY <1>2, FS_Subset, FS_CardinalityType

\* Adding to a finite set the elements of a disjoint one adds their number.
LEMMA CountUnion ==
  ASSUME NEW S, NEW T, IsFiniteSet(S), IsFiniteSet(T), S \cap T = {}
  PROVE  Cardinality(S \cup T) = Cardinality(S) + Cardinality(T)
<1>1. Cardinality(S \cup T) = Cardinality(S) + Cardinality(T) - Cardinality(S \cap T)
  BY FS_Union
<1>2. Cardinality(S) \in Nat /\ Cardinality(T) \in Nat
  BY FS_CardinalityType
<1>3. Cardinality(S \cap T) = 0
  BY FS_EmptySet
<1>4. QED
  BY <1>1, <1>2, <1>3

\* Taking a subset away subtracts its number.
LEMMA CountDifference ==
  ASSUME NEW S, NEW T, IsFiniteSet(S), T \subseteq S
  PROVE  Cardinality(S \ T) = Cardinality(S) - Cardinality(T)
<1>1. S \cap T = T
  OBVIOUS
<1>2. QED
  BY <1>1, FS_Difference, ZenonT(30)

\* A list that is not empty has an oldest event.
LEMMA OldestExists ==
  ASSUME NEW S \in SUBSET Nat, S # {}
  PROVE  \E i \in S : \A j \in S : i <= j
<1> DEFINE R == {ss \in Nat \X Nat : ss[1] < ss[2]}
<1>1. IsWellFoundedOn(R, Nat)
  BY NatLessThanWellFounded DEF OpToRel
<1>2. PICK i \in S : \A j \in S : ~(<<j, i>> \in R)
  BY <1>1, WFMin, ZenonT(30)
<1>3. \A j \in S : ~(j < i)
  BY <1>2, Zenon
<1>4. QED
  BY <1>3

\* The two fields of a record that operations assign.
LEMMA RecordUpdate ==
  ASSUME NEW e \in Record
  PROVE  /\ \A st \in EventStates :
              LET f == [e EXCEPT !.state = st] IN
              /\ f \in Record /\ f.state = st
              /\ f.clazz = e.clazz /\ f.type = e.type /\ f.variation = e.variation
         /\ \A v \in Variations :
              LET f == [e EXCEPT !.variation = v] IN
              /\ f \in Record /\ f.variation = v
              /\ f.clazz = e.clazz /\ f.type = e.type /\ f.state = e.state
BY DEF Record

\* What the buffer holds under a number is a record.
LEMMA RecordOf ==
  ASSUME NEW b, IsBuffer(b), NEW i \in Ids(b)
  PROVE  b.events[i] \in Record
BY DEF IsBuffer

----------------------------------------------------------------------------
(* The empty buffer.                                                       *)

\* The buffer starts consistent.
LEMMA EmptyConsistent == Consistent(EmptyBuffer)
<1>1. Ids(EmptyBuffer) = {}
  BY DEF EmptyBuffer, Ids
<1>2. IsBuffer(EmptyBuffer)
  BY <1>1 DEF IsBuffer, EmptyBuffer, Ids
<1>3. /\ \A st : InState(EmptyBuffer, st) = {}
      /\ \A c : OfClass(EmptyBuffer, c) = {}
      /\ \A t : OfType(EmptyBuffer, t) = {}
  BY <1>1 DEF InState, OfClass, OfType
<1>4. CountersOf(EmptyBuffer)
  BY <1>3, FS_EmptySet, ZenonT(30) DEF CountersOf, EmptyBuffer
<1>5. ListsOf(EmptyBuffer)
  <2>1. Cardinality({}) = 0
    BY FS_EmptySet
  <2>2. \A t \in Types : EmptyBuffer.typed[t] = {} /\ Capacity[t] \in Nat
    BY CapacityNat DEF EmptyBuffer
  <2>3. QED
    BY <1>3, <2>1, <2>2 DEF ListsOf
<1>6. QED
  BY <1>2, <1>4, <1>5 DEF Consistent

----------------------------------------------------------------------------
(* Selection.                                                              *)

\* Select moves the records of ids from unselected to selected and leaves
\* everything else alone.
LEMMA SelectFields ==
  ASSUME NEW b, IsBuffer(b), NEW ids \in SUBSET InState(b, "unselected")
  PROVE  LET s == Select(b, ids) IN
         /\ IsBuffer(s)
         /\ Ids(s) = Ids(b)
         /\ InState(s, "selected") = InState(b, "selected") \cup ids
         /\ InState(s, "unselected") = InState(b, "unselected") \ ids
         /\ InState(s, "written") = InState(b, "written")
         /\ \A c : OfClass(s, c) = OfClass(b, c)
         /\ \A t : OfType(s, t) = OfType(b, t)
         /\ s.selected = b.selected + Cardinality(ids)
         /\ s.total = b.total /\ s.written = b.written /\ s.typed = b.typed
         /\ s.next = b.next /\ s.overflow = b.overflow
<1> DEFINE s == Select(b, ids)
<1>1. Cardinality(ids) \in Nat
  BY RecordsFinite DEF InState
<1>2. /\ DOMAIN s = DOMAIN b
      /\ s.events = [i \in Ids(b) |->
                      IF i \in ids THEN [b.events[i] EXCEPT !.state = "selected"]
                      ELSE b.events[i]]
      /\ s.selected = b.selected + Cardinality(ids)
      /\ s.total = b.total /\ s.written = b.written /\ s.typed = b.typed
      /\ s.next = b.next /\ s.overflow = b.overflow
  BY DEF Select, IsBuffer, EmptyBuffer
<1>3. Ids(s) = Ids(b)
  BY <1>2 DEF Ids
<1>4. \A i \in Ids(b) :
         /\ s.events[i] \in Record
         /\ s.events[i].state = IF i \in ids THEN "selected" ELSE b.events[i].state
         /\ s.events[i].clazz = b.events[i].clazz
         /\ s.events[i].type = b.events[i].type
  BY <1>2 DEF IsBuffer, Record, EventStates, Ids
<1>5. IsBuffer(s)
  <2>1. s.events \in [Ids(s) -> Record]
    BY <1>2, <1>3, <1>4
  <2>2. s.selected \in Nat
    BY <1>1, <1>2 DEF IsBuffer
  <2>3. QED
    BY <1>2, <1>3, <2>1, <2>2 DEF IsBuffer
<1>6. QED
  BY <1>2, <1>3, <1>4, <1>5 DEF InState, OfClass, OfType

\* Selecting keeps the buffer consistent.
LEMMA SelectConsistent ==
  ASSUME NEW b, Consistent(b), NEW ids \in SUBSET InState(b, "unselected")
  PROVE  Consistent(Select(b, ids))
<1> DEFINE s == Select(b, ids)
<1> USE DEF Consistent
<1>1. IsBuffer(s) /\ ListsOf(s)
  BY SelectFields DEF ListsOf
<1>2. Cardinality(InState(s, "selected")) = b.selected + Cardinality(ids)
  <2>1. InState(b, "selected") \cap ids = {}
    BY DEF InState
  <2>2. IsFiniteSet(InState(b, "selected")) /\ IsFiniteSet(ids)
    BY RecordsFinite DEF InState
  <2>3. QED
    BY <2>1, <2>2, CountUnion, SelectFields DEF CountersOf
<1>3. CountersOf(s)
  BY <1>2, SelectFields DEF CountersOf
<1>4. QED
  BY <1>1, <1>3

\* A selection neither adds nor removes records.
LEMMA SelectByClassIds ==
  ASSUME NEW b, NEW cs, NEW max, Consistent(b)
  PROVE  Ids(SelectByClass(b, cs, max)) = Ids(b)
<1>1. Oldest({i \in InState(b, "unselected") : b.events[i].clazz \in cs}, max)
        \subseteq InState(b, "unselected")
  BY DEF Oldest
<1>2. QED
  BY <1>1, SelectFields DEF SelectByClass, Consistent

\* The selection by class.
LEMMA SelectByClassConsistent ==
  ASSUME NEW b, Consistent(b), NEW cs, NEW max
  PROVE  Consistent(SelectByClass(b, cs, max))
<1>1. Oldest({i \in InState(b, "unselected") : b.events[i].clazz \in cs}, max)
        \subseteq InState(b, "unselected")
  BY DEF Oldest
<1>2. QED
  BY <1>1, SelectConsistent DEF SelectByClass

\* The selection by type also sets the variation, which nothing counts.
LEMMA SelectByTypeConsistent ==
  ASSUME NEW b, Consistent(b), NEW t \in Types, NEW v \in Variations, NEW max
  PROVE  /\ Consistent(SelectByType(b, t, v, max))
         /\ Ids(SelectByType(b, t, v, max)) = Ids(b)
<1> DEFINE ids == Oldest(b.typed[t] \cap InState(b, "unselected"), max)
           sel == Select(b, ids)
           s == SelectByType(b, t, v, max)
<1>1. ids \subseteq InState(b, "unselected")
  BY DEF Oldest
<1>2. Consistent(sel) /\ Ids(sel) = Ids(b)
  BY <1>1, SelectConsistent, SelectFields, ZenonT(30) DEF Consistent
<1> HIDE DEF ids
<1>3. /\ DOMAIN s = DOMAIN sel
      /\ s.events = [i \in Ids(b) |->
                       IF i \in ids THEN [sel.events[i] EXCEPT !.variation = v]
                       ELSE sel.events[i]]
      /\ s.selected = sel.selected /\ s.total = sel.total /\ s.written = sel.written
      /\ s.typed = sel.typed /\ s.next = sel.next /\ s.overflow = sel.overflow
  BY <1>2 DEF SelectByType, ids, Consistent, IsBuffer, EmptyBuffer
<1> HIDE DEF sel, s
<1>4. Ids(s) = Ids(sel)
  BY <1>2, <1>3 DEF Ids
<1>5. \A i \in Ids(sel) :
         /\ s.events[i] \in Record
         /\ s.events[i].state = sel.events[i].state
         /\ s.events[i].clazz = sel.events[i].clazz
         /\ s.events[i].type = sel.events[i].type
  <2> TAKE i \in Ids(sel)
  <2>1. sel.events[i] \in Record
    BY <1>2, RecordOf DEF Consistent
  <2>2. s.events[i] = IF i \in ids THEN [sel.events[i] EXCEPT !.variation = v]
                      ELSE sel.events[i]
    BY <1>2, <1>3
  <2>3. QED
    BY <2>1, <2>2, RecordUpdate
<1>6. IsBuffer(s)
  <2>1. s.events \in [Ids(s) -> Record]
    BY <1>2, <1>3, <1>4, <1>5
  <2>2. QED
    BY <1>2, <1>3, <1>4, <2>1 DEF Consistent, IsBuffer
<1>7. /\ \A st : InState(s, st) = InState(sel, st)
      /\ \A c : OfClass(s, c) = OfClass(sel, c)
      /\ \A u : OfType(s, u) = OfType(sel, u)
  BY <1>4, <1>5 DEF InState, OfClass, OfType
<1>8. QED
  BY <1>2, <1>3, <1>4, <1>6, <1>7 DEF Consistent, CountersOf, ListsOf, s

\* Unselect puts every record back to unselected.
LEMMA UnselectFields ==
  ASSUME NEW b, IsBuffer(b)
  PROVE  LET s == Unselect(b) IN
         /\ IsBuffer(s)
         /\ Ids(s) = Ids(b)
         /\ InState(s, "selected") = {} /\ InState(s, "written") = {}
         /\ InState(s, "unselected") = Ids(b)
         /\ \A c : OfClass(s, c) = OfClass(b, c)
         /\ \A t : OfType(s, t) = OfType(b, t)
         /\ s.selected = 0 /\ s.written = [c \in Classes |-> 0]
         /\ s.total = b.total /\ s.typed = b.typed
         /\ s.next = b.next /\ s.overflow = b.overflow
<1> DEFINE s == Unselect(b)
<1>1. /\ DOMAIN s = DOMAIN b
      /\ s.events = [i \in Ids(b) |-> [b.events[i] EXCEPT !.state = "unselected"]]
      /\ s.selected = 0 /\ s.written = [c \in Classes |-> 0]
      /\ s.total = b.total /\ s.typed = b.typed
      /\ s.next = b.next /\ s.overflow = b.overflow
  BY DEF Unselect, IsBuffer, EmptyBuffer
<1>2. Ids(s) = Ids(b)
  BY <1>1 DEF Ids
<1>3. \A i \in Ids(b) :
         /\ s.events[i] \in Record
         /\ s.events[i].state = "unselected"
         /\ s.events[i].clazz = b.events[i].clazz
         /\ s.events[i].type = b.events[i].type
  <2> TAKE i \in Ids(b)
  <2>1. b.events[i] \in Record
    BY RecordOf
  <2>2. s.events[i] = [b.events[i] EXCEPT !.state = "unselected"]
    BY <1>1
  <2>3. "unselected" \in EventStates
    BY DEF EventStates
  <2>4. QED
    BY <2>1, <2>2, <2>3, RecordUpdate
<1>4. IsBuffer(s)
  <2>1. s.events \in [Ids(s) -> Record]
    BY <1>1, <1>2, <1>3
  <2>2. QED
    BY <1>1, <1>2, <2>1 DEF IsBuffer
<1>5. QED
  BY <1>1, <1>2, <1>3, <1>4 DEF InState, OfClass, OfType

\* EventStorage::Unselect keeps the buffer consistent.
LEMMA UnselectConsistent ==
  ASSUME NEW b, Consistent(b)
  PROVE  Consistent(Unselect(b))
<1>1. Cardinality({}) = 0
  BY FS_EmptySet
<1>2. \A S : S \cap {} = {}
  OBVIOUS
<1>3. CountersOf(Unselect(b))
  <2> DEFINE s == Unselect(b)
  <2>1. s.selected = Cardinality(InState(s, "selected"))
    BY <1>1, UnselectFields DEF Consistent
  <2>2. ASSUME NEW c \in Classes
        PROVE  /\ s.total[c] = Cardinality(OfClass(s, c))
               /\ s.written[c] = Cardinality(OfClass(s, c) \cap InState(s, "written"))
    <3>1. s.total[c] = Cardinality(OfClass(s, c))
      BY UnselectFields, ZenonT(30) DEF Consistent, CountersOf
    <3>2. s.written[c] = 0 /\ OfClass(s, c) \cap InState(s, "written") = {}
      BY UnselectFields DEF Consistent
    <3>3. QED
      BY <1>1, <3>1, <3>2
  <2>3. QED
    BY <2>1, <2>2 DEF CountersOf
<1>4. QED
  BY <1>3, UnselectFields DEF Consistent, ListsOf

----------------------------------------------------------------------------
(* Writing and clearing.                                                   *)

\* Load moves the records of Written(b, room) from selected to written.
LEMMA LoadFields ==
  ASSUME NEW b, IsBuffer(b), CountersOf(b), NEW room
  PROVE  LET s == Load(b, room)
             ids == Written(b, room)
         IN
         /\ ids \subseteq InState(b, "selected")
         /\ IsBuffer(s)
         /\ Ids(s) = Ids(b)
         /\ InState(s, "selected") = InState(b, "selected") \ ids
         /\ InState(s, "written") = InState(b, "written") \cup ids
         /\ \A c : OfClass(s, c) = OfClass(b, c)
         /\ \A t : OfType(s, t) = OfType(b, t)
         /\ s.selected = b.selected - Cardinality(ids)
         /\ s.written = [c \in Classes |->
                           b.written[c] + Cardinality(ids \cap OfClass(b, c))]
         /\ s.total = b.total /\ s.typed = b.typed
         /\ s.next = b.next /\ s.overflow = b.overflow
<1> DEFINE s == Load(b, room)
           ids == Written(b, room)
<1>1. ids \subseteq InState(b, "selected")
  BY DEF Written, Oldest
<1> HIDE DEF ids
<1>2. /\ Cardinality(ids) \in Nat
      /\ \A c : Cardinality(ids \cap OfClass(b, c)) \in Nat
      /\ b.selected - Cardinality(ids) \in Nat
  <2>1. InState(b, "selected") \subseteq Ids(b)
    BY DEF InState
  <2>2. /\ Cardinality(ids) \in Nat
        /\ \A c : Cardinality(ids \cap OfClass(b, c)) \in Nat
    BY <1>1, <2>1, RecordsFinite
  <2>3. Cardinality(ids) <= Cardinality(InState(b, "selected"))
    BY <1>1, <2>1, RecordsFinite, FS_Subset
  <2>4. QED
    BY <2>2, <2>3 DEF CountersOf, IsBuffer
<1>3. /\ DOMAIN s = DOMAIN b
      /\ s.events = [i \in Ids(b) |->
                       IF i \in ids THEN [b.events[i] EXCEPT !.state = "written"]
                       ELSE b.events[i]]
      /\ s.selected = b.selected - Cardinality(ids)
      /\ s.written = [c \in Classes |->
                        b.written[c] + Cardinality(ids \cap OfClass(b, c))]
      /\ s.total = b.total /\ s.typed = b.typed
      /\ s.next = b.next /\ s.overflow = b.overflow
  BY DEF Load, ids, IsBuffer, EmptyBuffer
<1> HIDE DEF s
<1>4. Ids(s) = Ids(b)
  BY <1>3 DEF Ids
<1>5. \A i \in Ids(b) :
         /\ s.events[i] \in Record
         /\ s.events[i].state = IF i \in ids THEN "written" ELSE b.events[i].state
         /\ s.events[i].clazz = b.events[i].clazz
         /\ s.events[i].type = b.events[i].type
  <2> TAKE i \in Ids(b)
  <2>1. b.events[i] \in Record
    BY RecordOf
  <2>2. s.events[i] = IF i \in ids THEN [b.events[i] EXCEPT !.state = "written"]
                      ELSE b.events[i]
    BY <1>3
  <2>3. "written" \in EventStates
    BY DEF EventStates
  <2>4. QED
    BY <2>1, <2>2, <2>3, RecordUpdate
<1>6. IsBuffer(s)
  <2>1. s.events \in [Ids(s) -> Record]
    BY <1>3, <1>4, <1>5
  <2>2. s.written \in [Classes -> Nat]
    BY <1>2, <1>3 DEF IsBuffer
  <2>3. QED
    BY <1>2, <1>3, <1>4, <2>1, <2>2 DEF IsBuffer
<1>7. QED
  BY <1>1, <1>3, <1>4, <1>5, <1>6 DEF InState, OfClass, OfType, s, ids

\* Writing a fragment keeps the buffer consistent.
LEMMA LoadConsistent ==
  ASSUME NEW b, Consistent(b), NEW room
  PROVE  Consistent(Load(b, room))
<1> DEFINE s == Load(b, room)
           ids == Written(b, room)
<1>1. IsBuffer(b) /\ CountersOf(b) /\ ListsOf(b)
  BY DEF Consistent
<1>2. ids \subseteq InState(b, "selected") /\ InState(b, "selected") \subseteq Ids(b)
  BY DEF Written, Oldest, InState
<1>3. /\ IsBuffer(s)
      /\ Ids(s) = Ids(b)
      /\ InState(s, "selected") = InState(b, "selected") \ ids
      /\ InState(s, "written") = InState(b, "written") \cup ids
      /\ \A c : OfClass(s, c) = OfClass(b, c)
      /\ \A t : OfType(s, t) = OfType(b, t)
      /\ s.selected = b.selected - Cardinality(ids)
      /\ s.written = [c \in Classes |->
                        b.written[c] + Cardinality(ids \cap OfClass(b, c))]
      /\ s.total = b.total /\ s.typed = b.typed
  BY <1>1, LoadFields
<1> HIDE DEF s, ids
<1>4. s.selected = Cardinality(InState(s, "selected"))
  <2>1. Cardinality(InState(b, "selected") \ ids)
          = Cardinality(InState(b, "selected")) - Cardinality(ids)
    BY <1>1, <1>2, RecordsFinite, CountDifference
  <2>2. QED
    BY <1>3, <1>1, <2>1, ZenonT(30) DEF CountersOf
<1>5. ASSUME NEW c \in Classes
      PROVE  s.written[c] = Cardinality(OfClass(s, c) \cap InState(s, "written"))
  <2> DEFINE W == OfClass(b, c) \cap InState(b, "written")
  <2>1. OfClass(s, c) \cap InState(s, "written") = W \cup (ids \cap OfClass(b, c))
    BY <1>3
  <2>2. W \cap (ids \cap OfClass(b, c)) = {}
    BY <1>2 DEF InState
  <2>3. IsFiniteSet(W) /\ IsFiniteSet(ids \cap OfClass(b, c))
    BY <1>1, <1>2, RecordsFinite DEF OfClass
  <2>4. Cardinality(OfClass(s, c) \cap InState(s, "written"))
          = Cardinality(W) + Cardinality(ids \cap OfClass(b, c))
    BY <2>1, <2>2, <2>3, CountUnion
  <2>5. s.written[c] = b.written[c] + Cardinality(ids \cap OfClass(b, c))
    BY <1>3
  <2>6. QED
    BY <1>1, <2>4, <2>5 DEF CountersOf
<1>6. CountersOf(s)
  BY <1>3, <1>1, <1>4, <1>5, ZenonT(30) DEF CountersOf
<1>7. QED
  BY <1>3, <1>1, <1>6 DEF Consistent, ListsOf, s

\* ClearWritten takes the written records out of everything.
LEMMA ClearWrittenFields ==
  ASSUME NEW b, Consistent(b)
  PROVE  LET s == ClearWritten(b)
             gone == InState(b, "written")
         IN
         /\ IsBuffer(s)
         /\ Ids(s) = Ids(b) \ gone
         /\ \A i \in Ids(s) : s.events[i] = b.events[i]
         /\ s.selected = b.selected
         /\ \A c \in Classes :
              /\ s.total[c] = b.total[c] - Cardinality(gone \cap OfClass(b, c))
              /\ s.written[c] = 0
         /\ s.typed = [t \in Types |-> b.typed[t] \ (gone \cap OfType(b, t))]
         /\ s.next = b.next /\ s.overflow = b.overflow
<1> DEFINE s == ClearWritten(b)
           gone == InState(b, "written")
<1>1. IsBuffer(b) /\ CountersOf(b) /\ ListsOf(b)
  BY DEF Consistent
<1>2. gone \subseteq Ids(b)
  BY DEF InState
<1>3. \A c \in Classes :
         /\ Cardinality(gone \cap OfClass(b, c)) = b.written[c]
         /\ Cardinality(gone \cap OfClass(b, c)) \in Nat
         /\ Cardinality(gone \cap OfClass(b, c)) <= b.total[c]
  <2> TAKE c \in Classes
  <2>1. gone \cap OfClass(b, c) = OfClass(b, c) \cap InState(b, "written")
    OBVIOUS
  <2>2. IsFiniteSet(OfClass(b, c))
    BY <1>1, RecordsFinite DEF OfClass
  <2>3. Cardinality(OfClass(b, c) \cap InState(b, "written")) <= Cardinality(OfClass(b, c))
    BY <2>2, FS_Intersection
  <2>4. QED
    BY <1>1, <2>1, <2>3 DEF CountersOf, IsBuffer
<1>4. /\ DOMAIN s = DOMAIN b
      /\ s.events = [i \in Ids(b) \ gone |-> b.events[i]]
      /\ s.typed = [t \in Types |-> b.typed[t] \ (gone \cap OfType(b, t))]
      /\ s.written = [c \in Classes |-> b.written[c] - Cardinality(gone \cap OfClass(b, c))]
      /\ s.total = [c \in Classes |-> b.total[c] - Cardinality(gone \cap OfClass(b, c))]
      /\ s.selected = b.selected /\ s.next = b.next /\ s.overflow = b.overflow
  BY <1>1 DEF ClearWritten, IsBuffer, EmptyBuffer
<1> HIDE DEF s, gone
<1>5. Ids(s) = Ids(b) \ gone
  BY <1>4 DEF Ids
<1>6. \A c \in Classes :
         /\ s.total[c] = b.total[c] - Cardinality(gone \cap OfClass(b, c))
         /\ s.total[c] \in Nat /\ s.written[c] = 0
  <2> TAKE c \in Classes
  <2>1. /\ s.total[c] = b.total[c] - Cardinality(gone \cap OfClass(b, c))
        /\ s.written[c] = b.written[c] - Cardinality(gone \cap OfClass(b, c))
    BY <1>4
  <2>2. b.total[c] \in Nat /\ b.written[c] \in Nat
    BY <1>1 DEF IsBuffer
  <2>3. QED
    BY <1>3, <2>1, <2>2
<1>7. IsBuffer(s)
  <2>1. s.events \in [Ids(s) -> Record]
    BY <1>1, <1>4, <1>5, RecordOf
  <2>2. s.typed \in [Types -> SUBSET (1 .. s.next - 1)]
    BY <1>1, <1>4 DEF IsBuffer
  <2>3. s.total \in [Classes -> Nat] /\ s.written \in [Classes -> Nat]
    BY <1>4, <1>6
  <2>4. QED
    BY <1>1, <1>4, <1>5, <2>1, <2>2, <2>3 DEF IsBuffer
<1>8. QED
  BY <1>4, <1>5, <1>6, <1>7 DEF s, gone

\* Clearing keeps the buffer consistent.
LEMMA ClearWrittenConsistent ==
  ASSUME NEW b, Consistent(b)
  PROVE  Consistent(ClearWritten(b))
<1> DEFINE s == ClearWritten(b)
           gone == InState(b, "written")
<1>1. IsBuffer(b) /\ CountersOf(b) /\ ListsOf(b)
  BY DEF Consistent
<1>2. /\ IsBuffer(s)
      /\ Ids(s) = Ids(b) \ gone
      /\ \A i \in Ids(s) : s.events[i] = b.events[i]
      /\ s.selected = b.selected
      /\ \A c \in Classes :
           /\ s.total[c] = b.total[c] - Cardinality(gone \cap OfClass(b, c))
           /\ s.written[c] = 0
      /\ s.typed = [t \in Types |-> b.typed[t] \ (gone \cap OfType(b, t))]
  BY ClearWrittenFields
<1> HIDE DEF s
<1>3. /\ InState(s, "written") = {}
      /\ InState(s, "selected") = InState(b, "selected")
      /\ \A c : OfClass(s, c) = OfClass(b, c) \ (gone \cap OfClass(b, c))
      /\ \A t : OfType(s, t) = OfType(b, t) \ (gone \cap OfType(b, t))
  BY <1>2 DEF InState, OfClass, OfType
<1> HIDE DEF gone
<1>4. CountersOf(s)
  <2>1. s.selected = Cardinality(InState(s, "selected"))
    BY <1>1, <1>2, <1>3 DEF CountersOf
  <2>2. ASSUME NEW c \in Classes
        PROVE  /\ s.total[c] = Cardinality(OfClass(s, c))
               /\ s.written[c] = Cardinality(OfClass(s, c) \cap InState(s, "written"))
    <3>1. IsFiniteSet(OfClass(b, c))
      BY <1>1, RecordsFinite DEF OfClass
    <3>2. Cardinality(OfClass(s, c))
            = Cardinality(OfClass(b, c)) - Cardinality(gone \cap OfClass(b, c))
      BY <1>3, <3>1, CountDifference
    <3>3. Cardinality(OfClass(s, c) \cap InState(s, "written")) = 0
      BY <1>3, FS_EmptySet
    <3>4. QED
      BY <1>1, <1>2, <3>2, <3>3, ZenonT(30) DEF CountersOf
  <2>3. QED
    BY <2>1, <2>2 DEF CountersOf
<1>5. ASSUME NEW t \in Types
      PROVE  s.typed[t] = OfType(s, t) /\ Cardinality(s.typed[t]) <= Capacity[t]
  <2>1. s.typed[t] = OfType(s, t) /\ OfType(s, t) \subseteq b.typed[t]
    BY <1>1, <1>2, <1>3 DEF ListsOf
  <2>2. IsFiniteSet(b.typed[t]) /\ Cardinality(b.typed[t]) \in Nat
    BY <1>1, RecordsFinite DEF ListsOf, OfType
  <2>3. Cardinality(s.typed[t]) <= Cardinality(b.typed[t])
    BY <2>1, <2>2, FS_Subset
  <2>4. Cardinality(s.typed[t]) \in Nat
    BY <2>1, <2>2, FS_Subset, FS_CardinalityType
  <2>5. QED
    BY <1>1, <2>1, <2>2, <2>3, <2>4, CapacityNat DEF ListsOf
<1>6. QED
  BY <1>2, <1>4, <1>5 DEF Consistent, ListsOf, s

----------------------------------------------------------------------------
(* Updates.                                                                *)

\* The event that gives way: the oldest of its type.
Victim(b, t) == CHOOSE i \in b.typed[t] : \A j \in b.typed[t] : i <= j

\* The victim is in the list, oldest of it, and of its type.
LEMMA VictimIsOldest ==
  ASSUME NEW b, Consistent(b), NEW t \in Types, b.typed[t] # {}
  PROVE  /\ Victim(b, t) \in b.typed[t]
         /\ \A j \in b.typed[t] : Victim(b, t) <= j
         /\ Victim(b, t) \in Ids(b)
         /\ b.events[Victim(b, t)] \in Record
         /\ b.events[Victim(b, t)].type = t
<1>1. b.typed[t] \in SUBSET Nat
  BY DEF Consistent, IsBuffer
<1>2. \E i \in b.typed[t] : \A j \in b.typed[t] : i <= j
  BY <1>1, OldestExists
<1>3. Victim(b, t) \in b.typed[t] /\ \A j \in b.typed[t] : Victim(b, t) <= j
  BY <1>2 DEF Victim
<1>4. Victim(b, t) \in Ids(b) /\ b.events[Victim(b, t)].type = t
  BY <1>3 DEF Consistent, ListsOf, OfType
<1>5. QED
  BY <1>3, <1>4, RecordOf DEF Consistent

\* What taking record i, of type t, out of b leaves: s.
Removed(b, s, t, i) ==
  /\ DOMAIN s = DOMAIN b
  /\ Ids(s) = Ids(b) \ {i}
  /\ s.events \in [Ids(s) -> Record]
  /\ \A j \in Ids(s) : s.events[j] = b.events[j]
  /\ s.typed \in [Types -> SUBSET Nat]
  /\ s.typed[t] = b.typed[t] \ {i}
  /\ \A u \in Types \ {t} : s.typed[u] = b.typed[u]
  /\ b.events[i].state = "selected" => s.selected = b.selected - 1
  /\ b.events[i].state # "selected" => s.selected = b.selected
  /\ s.written \in [Classes -> Int] /\ s.total \in [Classes -> Int]
  /\ \A c \in Classes :
       /\ b.events[i].clazz = c /\ b.events[i].state = "written"
            => s.written[c] = b.written[c] - 1
       /\ ~(b.events[i].clazz = c /\ b.events[i].state = "written")
            => s.written[c] = b.written[c]
       /\ b.events[i].clazz = c => s.total[c] = b.total[c] - 1
       /\ b.events[i].clazz # c => s.total[c] = b.total[c]
  /\ s.next = b.next /\ s.overflow = TRUE

\* Evicting removes the victim.
LEMMA EvictFields ==
  ASSUME NEW b, Consistent(b), NEW t \in Types, b.typed[t] # {}
  PROVE  Removed(b, EvictOldest(b, t), t, Victim(b, t))
<1> DEFINE i == Victim(b, t)
           s == EvictOldest(b, t)
           e == b.events[i]
           r == OnRemove(b, i)
<1>1. IsBuffer(b) /\ e.clazz \in Classes
  BY VictimIsOldest DEF Consistent, Record
<1> HIDE DEF i
<1>2. /\ DOMAIN r = DOMAIN b
      /\ r.selected = IF e.state = "selected" THEN b.selected - 1 ELSE b.selected
      /\ r.written = [b.written EXCEPT ![e.clazz] = IF e.state = "written" THEN @ - 1 ELSE @]
      /\ r.total = [b.total EXCEPT ![e.clazz] = @ - 1]
      /\ r.events = b.events /\ r.typed = b.typed /\ r.next = b.next
      /\ r.overflow = b.overflow
  BY <1>1 DEF OnRemove, IsBuffer, EmptyBuffer
<1>3. s = [r EXCEPT !.events = [j \in Ids(b) \ {i} |-> b.events[j]],
                    !.typed[t] = @ \ {i},
                    !.overflow = TRUE]
  BY DEF EvictOldest, Victim, i
<1> HIDE DEF r, s
<1>4. /\ DOMAIN s = DOMAIN b
      /\ s.events = [j \in Ids(b) \ {i} |-> b.events[j]]
      /\ s.typed = [b.typed EXCEPT ![t] = @ \ {i}]
      /\ s.selected = r.selected /\ s.written = r.written /\ s.total = r.total
      /\ s.next = b.next /\ s.overflow = TRUE
  BY <1>1, <1>2, <1>3, ZenonT(30) DEF IsBuffer, EmptyBuffer
<1>5. /\ Ids(s) = Ids(b) \ {i}
      /\ \A j \in Ids(s) : s.events[j] = b.events[j]
      /\ s.events \in [Ids(s) -> Record]
  BY <1>1, <1>4 DEF Ids, IsBuffer
<1>6. /\ s.typed \in [Types -> SUBSET Nat]
      /\ s.typed[t] = b.typed[t] \ {i}
      /\ \A u \in Types \ {t} : s.typed[u] = b.typed[u]
  BY <1>1, <1>4 DEF IsBuffer
<1> HIDE DEF e
<1>7. /\ s.total \in [Classes -> Int]
      /\ \A c \in Classes : /\ e.clazz = c => s.total[c] = b.total[c] - 1
                            /\ e.clazz # c => s.total[c] = b.total[c]
  BY <1>1, <1>2, <1>4 DEF IsBuffer
<1>8. /\ s.written \in [Classes -> Int]
      /\ \A c \in Classes :
           /\ e.clazz = c /\ e.state = "written" => s.written[c] = b.written[c] - 1
           /\ ~(e.clazz = c /\ e.state = "written") => s.written[c] = b.written[c]
  <2>1. b.written \in [Classes -> Nat]
    BY <1>1 DEF IsBuffer
  <2>2. CASE e.state = "written"
    BY <1>1, <1>2, <1>4, <2>1, <2>2
  <2>3. CASE e.state # "written"
    <3>1. s.written = [b.written EXCEPT ![e.clazz] = @]
      BY <1>2, <1>4, <2>3
    <3>2. QED
      BY <1>1, <2>1, <2>3, <3>1
  <2>4. QED
    BY <2>2, <2>3
<1>9. QED
  BY <1>2, <1>4, <1>5, <1>6, <1>7, <1>8, Zenon DEF Removed, e, s, i

\* One element more or one element less.
LEMMA CountOne ==
  ASSUME NEW S, IsFiniteSet(S), NEW i
  PROVE  /\ IsFiniteSet(S \ {i}) /\ IsFiniteSet(S \cup {i})
         /\ Cardinality(S) \in Nat
         /\ i \in S => /\ Cardinality(S \ {i}) = Cardinality(S) - 1
                       /\ Cardinality(S) - 1 \in Nat
         /\ i \notin S => Cardinality(S \cup {i}) = Cardinality(S) + 1
<1>1. IsFiniteSet(S \ {i}) /\ Cardinality(S) \in Nat
  BY FS_RemoveElement, FS_CardinalityType
<1>2. IsFiniteSet(S \cup {i}) /\ (i \notin S => Cardinality(S \cup {i}) = Cardinality(S) + 1)
  BY FS_AddElement
<1>3. ASSUME i \in S
      PROVE  Cardinality(S \ {i}) = Cardinality(S) - 1
  BY <1>3, FS_RemoveElement
<1>4. Cardinality(S \ {i}) \in Nat
  BY <1>1, FS_CardinalityType
<1>5. QED
  BY <1>1, <1>2, <1>3, <1>4

\* A list that is full has an event to evict.
LEMMA FullNotEmpty ==
  ASSUME NEW b, NEW t \in Types, IsFull(b, t)
  PROVE  b.typed[t] # {}
<1>1. Cardinality({}) = 0
  BY FS_EmptySet
<1>2. SUFFICES ASSUME b.typed[t] = {}
               PROVE  FALSE
  OBVIOUS
<1>3. Cardinality(b.typed[t]) = 0
  BY <1>1, <1>2
<1>4. QED
  BY <1>3, CapacityNat DEF IsFull

\* Removing a record takes it out of its state, class and type.
LEMMA RemovedRecords ==
  ASSUME NEW b, NEW s, NEW t, NEW i, Removed(b, s, t, i)
  PROVE  /\ \A st : InState(s, st) = InState(b, st) \ {i}
         /\ \A c : OfClass(s, c) = OfClass(b, c) \ {i}
         /\ \A u : OfType(s, u) = OfType(b, u) \ {i}
BY DEF Removed, InState, OfClass, OfType

\* Removing a record keeps the buffer consistent and makes room for one event.
LEMMA RemovedConsistent ==
  ASSUME NEW b, Consistent(b), NEW t \in Types, NEW i \in Ids(b), b.events[i].type = t,
         NEW s, Removed(b, s, t, i)
  PROVE  /\ Consistent(s)
         /\ Cardinality(s.typed[t]) = Cardinality(b.typed[t]) - 1
<1> DEFINE e == b.events[i]
<1>1. IsBuffer(b) /\ CountersOf(b) /\ ListsOf(b)
  BY DEF Consistent
<1>2. e \in Record
  BY <1>1, RecordOf
<1>3. /\ e.clazz \in Classes /\ e.state \in EventStates
      /\ \A st : i \in InState(b, st) <=> st = e.state
      /\ \A c : i \in OfClass(b, c) <=> c = e.clazz
      /\ \A u : i \in OfType(b, u) <=> u = t
  BY <1>2 DEF Record, InState, OfClass, OfType
<1>4. /\ \A st : InState(s, st) = InState(b, st) \ {i}
      /\ \A c : OfClass(s, c) = OfClass(b, c) \ {i}
      /\ \A u : OfType(s, u) = OfType(b, u) \ {i}
  BY RemovedRecords
<1>5. ASSUME NEW S \in SUBSET Ids(b)
      PROVE  /\ Cardinality(S) \in Nat
             /\ i \in S => /\ Cardinality(S \ {i}) = Cardinality(S) - 1
                           /\ Cardinality(S) - 1 \in Nat
             /\ i \notin S => S \ {i} = S
  BY <1>1, RecordsFinite, CountOne
<1>7. s.selected = Cardinality(InState(s, "selected")) /\ s.selected \in Nat
  <2> DEFINE S == InState(b, "selected")
  <2>1. /\ S \in SUBSET Ids(b)
        /\ i \in S <=> e.state = "selected"
        /\ InState(s, "selected") = S \ {i}
        /\ b.selected = Cardinality(S)
    BY <1>1, <1>3, <1>4 DEF InState, CountersOf
  <2>2. /\ i \in S => s.selected = b.selected - 1
        /\ i \notin S => s.selected = b.selected
    BY <2>1 DEF Removed
  <2> HIDE DEF S
  <2>3. QED
    BY <1>5, <2>1, <2>2, ZenonT(30)
<1>8. ASSUME NEW c \in Classes
      PROVE  s.total[c] = Cardinality(OfClass(s, c)) /\ s.total[c] \in Nat
  <2> DEFINE S == OfClass(b, c)
  <2>1. /\ S \in SUBSET Ids(b)
        /\ i \in S <=> e.clazz = c
        /\ OfClass(s, c) = S \ {i}
        /\ b.total[c] = Cardinality(S)
    BY <1>1, <1>3, <1>4, ZenonT(30) DEF OfClass, CountersOf
  <2>2. /\ i \in S => s.total[c] = b.total[c] - 1
        /\ i \notin S => s.total[c] = b.total[c]
    BY <2>1 DEF Removed
  <2> HIDE DEF S
  <2>3. QED
    BY <1>5, <2>1, <2>2, ZenonT(30)
<1>9. ASSUME NEW c \in Classes
      PROVE  /\ s.written[c] = Cardinality(OfClass(s, c) \cap InState(s, "written"))
             /\ s.written[c] \in Nat
  <2> DEFINE S == OfClass(b, c) \cap InState(b, "written")
  <2>1. S \in SUBSET Ids(b)
    BY DEF OfClass
  <2>2. i \in S <=> e.clazz = c /\ e.state = "written"
    BY <1>3
  <2>3. OfClass(s, c) \cap InState(s, "written") = S \ {i}
    BY <1>4
  <2>4. b.written[c] = Cardinality(S)
    BY <1>1 DEF CountersOf
  <2>5. /\ i \in S => s.written[c] = b.written[c] - 1
        /\ i \notin S => s.written[c] = b.written[c]
    BY <2>2 DEF Removed
  <2> HIDE DEF S
  <2>6. QED
    BY <1>5, <2>1, <2>3, <2>4, <2>5
<1>10. ASSUME NEW u \in Types
       PROVE  /\ s.typed[u] = OfType(s, u)
              /\ Cardinality(s.typed[u]) <= Capacity[u]
              /\ s.typed[u] \subseteq b.typed[u]
  <2> DEFINE S == b.typed[u]
  <2>1. S = OfType(b, u) /\ Cardinality(S) <= Capacity[u]
    BY <1>1 DEF ListsOf
  <2>2. s.typed[u] = S \ {i}
    <3>1. CASE u = t
      BY <3>1 DEF Removed
    <3>2. CASE u # t
      BY <1>3, <2>1, <3>2 DEF Removed
    <3>3. QED
      BY <3>1, <3>2
  <2>3. S \in SUBSET Ids(b) /\ Capacity[u] \in Nat
    BY <2>1, CapacityNat DEF OfType
  <2>4. s.typed[u] = OfType(s, u)
    BY <1>4, <2>1, <2>2
  <2> HIDE DEF S
  <2>5. Cardinality(s.typed[u]) <= Capacity[u]
    <3>1. Cardinality(S) \in Nat
      BY <1>5, <2>3, ZenonT(30)
    <3>2. Cardinality(S \ {i}) <= Cardinality(S)
      BY <1>5, <2>3, <3>1
    <3>3. Cardinality(S \ {i}) \in Nat
      BY <1>5, <2>3, <3>1
    <3>4. QED
      BY <2>1, <2>2, <2>3, <3>1, <3>2, <3>3
  <2>6. QED
    BY <2>2, <2>4, <2>5 DEF S
<1>11. IsBuffer(s)
  <2>1. s.events \in [Ids(s) -> Record] /\ Ids(s) \subseteq 1 .. s.next - 1
    BY <1>1 DEF IsBuffer, Removed
  <2>2. s.total \in [Classes -> Nat] /\ s.written \in [Classes -> Nat]
    BY <1>1, <1>8, <1>9, ZenonT(30) DEF Removed
  <2>3. s.typed \in [Types -> SUBSET (1 .. s.next - 1)]
    BY <1>1, <1>10 DEF IsBuffer, Removed
  <2>4. QED
    BY <1>1, <1>7, <2>1, <2>2, <2>3, ZenonT(30) DEF IsBuffer, Removed
<1>12. Consistent(s)
  BY <1>7, <1>8, <1>9, <1>10, <1>11 DEF Consistent, CountersOf, ListsOf
<1>13. Cardinality(s.typed[t]) = Cardinality(b.typed[t]) - 1
  <2> DEFINE S == b.typed[t]
  <2>1. S \in SUBSET Ids(b) /\ i \in S /\ s.typed[t] = S \ {i}
    BY <1>1, <1>3 DEF ListsOf, OfType, Removed
  <2> HIDE DEF S
  <2>2. QED
    BY <1>5, <2>1 DEF S
<1>14. QED
  BY <1>12, <1>13

\* Evicting keeps the buffer consistent and makes room for one event.
LEMMA EvictConsistent ==
  ASSUME NEW b, Consistent(b), NEW t \in Types, b.typed[t] # {}
  PROVE  /\ Consistent(EvictOldest(b, t))
         /\ Cardinality(EvictOldest(b, t).typed[t]) = Cardinality(b.typed[t]) - 1
BY EvictFields, VictimIsOldest, RemovedConsistent

\* What adding a record of type t and class c to b makes: s.
Added(b, s, t, c) ==
  /\ DOMAIN s = DOMAIN b
  /\ Ids(s) = Ids(b) \cup {b.next}
  /\ s.events \in [Ids(s) -> Record]
  /\ \A j \in Ids(b) : s.events[j] = b.events[j]
  /\ s.events[b.next].type = t /\ s.events[b.next].clazz = c
  /\ s.events[b.next].state = "unselected"
  /\ s.typed \in [Types -> SUBSET Nat]
  /\ s.typed[t] = b.typed[t] \cup {b.next}
  /\ \A u \in Types \ {t} : s.typed[u] = b.typed[u]
  /\ s.selected = b.selected /\ s.written = b.written
  /\ s.total \in [Classes -> Nat]
  /\ s.total[c] = b.total[c] + 1
  /\ \A d \in Classes \ {c} : s.total[d] = b.total[d]
  /\ s.next = b.next + 1 /\ s.overflow = b.overflow

\* AddRecord adds one.
LEMMA AddFields ==
  ASSUME NEW b, IsBuffer(b), NEW t \in Types, NEW c \in Classes
  PROVE  Added(b, AddRecord(b, t, c), t, c)
<1> DEFINE s == AddRecord(b, t, c)
           e == [type |-> t, clazz |-> c, state |-> "unselected", variation |-> Default]
<1>1. /\ e \in Record /\ e.type = t /\ e.clazz = c /\ e.state = "unselected"
  BY DefaultVariation DEF Record, EventStates
<1>2. s = [b EXCEPT !.events = [j \in Ids(b) \cup {b.next} |->
                                  IF j = b.next THEN e ELSE b.events[j]],
                    !.typed[t] = @ \cup {b.next},
                    !.total[c] = @ + 1,
                    !.next = @ + 1]
  BY DEF AddRecord
<1> HIDE DEF s, e
<1>3. /\ DOMAIN s = DOMAIN b
      /\ s.events = [j \in Ids(b) \cup {b.next} |-> IF j = b.next THEN e ELSE b.events[j]]
      /\ s.typed = [b.typed EXCEPT ![t] = @ \cup {b.next}]
      /\ s.total = [b.total EXCEPT ![c] = @ + 1]
      /\ s.selected = b.selected /\ s.written = b.written
      /\ s.next = b.next + 1 /\ s.overflow = b.overflow
  BY <1>2, ZenonT(30) DEF IsBuffer, EmptyBuffer
<1>4. b.next \notin Ids(b) /\ b.next \in Nat
  BY DEF IsBuffer
<1>5. /\ Ids(s) = Ids(b) \cup {b.next}
      /\ s.events \in [Ids(s) -> Record]
      /\ \A j \in Ids(b) : s.events[j] = b.events[j]
      /\ s.events[b.next] = e
  <2>1. Ids(s) = Ids(b) \cup {b.next}
    BY <1>3 DEF Ids
  <2>2. \A j \in Ids(s) : s.events[j] = IF j = b.next THEN e ELSE b.events[j]
    BY <1>3, <2>1
  <2>3. \A j \in Ids(b) : b.events[j] \in Record
    BY RecordOf
  <2>4. \A j \in Ids(s) : s.events[j] \in Record
    BY <1>1, <2>1, <2>2, <2>3
  <2>5. s.events \in [Ids(s) -> Record]
    BY <1>3, <2>1, <2>4
  <2>6. QED
    BY <1>4, <2>1, <2>2, <2>5
<1>6. /\ s.typed \in [Types -> SUBSET Nat]
      /\ s.typed[t] = b.typed[t] \cup {b.next}
      /\ \A u \in Types \ {t} : s.typed[u] = b.typed[u]
  BY <1>3 DEF IsBuffer
<1>7. /\ s.total \in [Classes -> Nat]
      /\ s.total[c] = b.total[c] + 1
      /\ \A d \in Classes \ {c} : s.total[d] = b.total[d]
  BY <1>3 DEF IsBuffer
<1>8. QED
  BY <1>1, <1>3, <1>5, <1>6, <1>7 DEF Added, s

\* The new record is counted once, in its class and in its type.
LEMMA AddedRecords ==
  ASSUME NEW b, IsBuffer(b), NEW t, NEW c, NEW s, Added(b, s, t, c)
  PROVE  /\ b.next \notin Ids(b)
         /\ InState(s, "selected") = InState(b, "selected")
         /\ InState(s, "written") = InState(b, "written")
         /\ OfClass(s, c) = OfClass(b, c) \cup {b.next}
         /\ \A d \in Classes \ {c} : OfClass(s, d) = OfClass(b, d)
         /\ OfType(s, t) = OfType(b, t) \cup {b.next}
         /\ \A u \in Types \ {t} : OfType(s, u) = OfType(b, u)
<1>1. b.next \notin Ids(b)
  BY DEF IsBuffer
<1>2. QED
  BY <1>1 DEF Added, InState, OfClass, OfType

\* Adding a record to a list that has room keeps the buffer consistent.
LEMMA AddedConsistent ==
  ASSUME NEW b, Consistent(b), NEW t \in Types, NEW c \in Classes,
         Cardinality(b.typed[t]) < Capacity[t],
         NEW s, Added(b, s, t, c)
  PROVE  Consistent(s)
<1>1. IsBuffer(b) /\ CountersOf(b) /\ ListsOf(b)
  BY DEF Consistent
<1>2. /\ b.next \notin Ids(b)
      /\ InState(s, "selected") = InState(b, "selected")
      /\ InState(s, "written") = InState(b, "written")
      /\ OfClass(s, c) = OfClass(b, c) \cup {b.next}
      /\ \A d \in Classes \ {c} : OfClass(s, d) = OfClass(b, d)
      /\ OfType(s, t) = OfType(b, t) \cup {b.next}
      /\ \A u \in Types \ {t} : OfType(s, u) = OfType(b, u)
  BY <1>1, AddedRecords
<1>3. ASSUME NEW S \in SUBSET Ids(b)
      PROVE  Cardinality(S \cup {b.next}) = Cardinality(S) + 1
  BY <1>1, <1>2, RecordsFinite, CountOne
<1>4. s.selected = Cardinality(InState(s, "selected"))
  BY <1>1, <1>2 DEF Added, CountersOf
<1>5. ASSUME NEW d \in Classes
      PROVE  /\ s.total[d] = Cardinality(OfClass(s, d))
             /\ s.written[d] = Cardinality(OfClass(s, d) \cap InState(s, "written"))
  <2>1. OfClass(s, d) \cap InState(s, "written") = OfClass(b, d) \cap InState(b, "written")
    BY <1>2 DEF InState
  <2>2. s.written[d] = Cardinality(OfClass(s, d) \cap InState(s, "written"))
    BY <1>1, <2>1 DEF Added, CountersOf
  <2>3. CASE d = c
    <3>1. OfClass(b, d) \in SUBSET Ids(b)
      BY DEF OfClass
    <3>2. Cardinality(OfClass(s, d)) = Cardinality(OfClass(b, d)) + 1
      BY <1>2, <1>3, <2>3, <3>1
    <3>3. QED
      BY <1>1, <2>2, <2>3, <3>2, ZenonT(30) DEF Added, CountersOf
  <2>4. CASE d # c
    BY <1>1, <1>2, <2>2, <2>4 DEF Added, CountersOf
  <2>5. QED
    BY <2>3, <2>4
<1>6. ASSUME NEW u \in Types
      PROVE  s.typed[u] = OfType(s, u) /\ Cardinality(s.typed[u]) <= Capacity[u]
  <2>1. CASE u = t
    <3>1. s.typed[t] = b.typed[t] \cup {b.next} /\ s.typed[t] = OfType(s, t)
      BY <1>1, <1>2 DEF Added, ListsOf
    <3>2. b.typed[t] \in SUBSET Ids(b)
      BY <1>1 DEF ListsOf, OfType
    <3>3. Cardinality(s.typed[t]) = Cardinality(b.typed[t]) + 1
      BY <1>3, <3>1, <3>2
    <3>4. Cardinality(b.typed[t]) \in Nat /\ Capacity[t] \in Nat
      BY <1>1, <3>2, RecordsFinite, CapacityNat
    <3>5. QED
      BY <2>1, <3>1, <3>3, <3>4
  <2>2. CASE u # t
    BY <1>1, <1>2, <2>2 DEF Added, ListsOf
  <2>3. QED
    BY <2>1, <2>2
<1>7. IsBuffer(s)
  <2>1. Ids(s) \subseteq 1 .. s.next - 1 /\ s.next \in Nat \ {0}
    BY <1>1 DEF IsBuffer, Added
  <2>2. s.typed \in [Types -> SUBSET (1 .. s.next - 1)]
    <3>1. \A u \in Types : s.typed[u] \subseteq 1 .. s.next - 1
      BY <1>6, <2>1 DEF OfType
    <3>2. QED
      BY <3>1 DEF Added
  <2>3. QED
    BY <1>1, <2>1, <2>2 DEF IsBuffer, Added
<1>8. QED
  BY <1>4, <1>5, <1>6, <1>7 DEF Consistent, CountersOf, ListsOf

\* An update of a type with a buffer evicts when the list is full, then adds.
LEMMA UpdateConsistent ==
  ASSUME NEW b, Consistent(b), NEW t \in Types, NEW c \in Classes
  PROVE  Consistent(Update(b, t, c))
<1>1. CASE Capacity[t] = 0
  BY <1>1 DEF Update
<1>2. CASE Capacity[t] # 0 /\ ~IsFull(b, t)
  <2>1. Cardinality(b.typed[t]) < Capacity[t]
    <3>1. Cardinality(b.typed[t]) \in Nat
      BY RecordsFinite DEF Consistent, ListsOf, OfType
    <3>2. QED
      BY <1>2, <3>1, CapacityNat DEF IsFull
  <2>2. Consistent(AddRecord(b, t, c))
    BY <2>1, AddFields, AddedConsistent DEF Consistent
  <2>3. QED
    BY <1>2, <2>2 DEF Update
<1>3. CASE Capacity[t] # 0 /\ IsFull(b, t)
  <2> DEFINE r == EvictOldest(b, t)
  <2>1. b.typed[t] # {}
    BY <1>3, FullNotEmpty
  <2>2. Consistent(r) /\ Cardinality(r.typed[t]) = Cardinality(b.typed[t]) - 1
    BY <2>1, EvictConsistent
  <2>3. Cardinality(r.typed[t]) < Capacity[t]
    <3>1. Cardinality(b.typed[t]) \in Nat /\ Cardinality(b.typed[t]) <= Capacity[t]
      BY RecordsFinite DEF Consistent, ListsOf, OfType
    <3>2. QED
      BY <2>2, <3>1, CapacityNat
  <2> HIDE DEF r
  <2>4. Consistent(AddRecord(r, t, c))
    BY <2>2, <2>3, AddFields, AddedConsistent DEF Consistent
  <2>5. QED
    BY <1>3, <2>4 DEF Update, r
<1>4. QED
  BY <1>1, <1>2, <1>3

\* Asking for the overflow flag assigns nothing else.
LEMMA AskOverflownConsistent ==
  ASSUME NEW b, Consistent(b)
  PROVE  Consistent(AskOverflown(b)) /\ Ids(AskOverflown(b)) = Ids(b)
<1> DEFINE s == AskOverflown(b)
<1>1. IsBuffer(b) /\ CountersOf(b) /\ ListsOf(b)
  BY DEF Consistent
<1>2. IsOverflown(b) \in BOOLEAN
  BY <1>1 DEF IsOverflown, IsBuffer
<1>3. /\ DOMAIN s = DOMAIN b
      /\ s.events = b.events /\ s.typed = b.typed /\ s.next = b.next
      /\ s.selected = b.selected /\ s.written = b.written /\ s.total = b.total
      /\ s.overflow = IsOverflown(b)
  BY <1>1 DEF AskOverflown, IsBuffer, EmptyBuffer
<1> HIDE DEF s
<1>4. Ids(s) = Ids(b)
  BY <1>3 DEF Ids
<1>5. IsBuffer(s)
  BY <1>1, <1>2, <1>3, <1>4 DEF IsBuffer
<1>6. /\ \A st : InState(s, st) = InState(b, st)
      /\ \A c : OfClass(s, c) = OfClass(b, c)
      /\ \A t : OfType(s, t) = OfType(b, t)
  BY <1>3, <1>4 DEF InState, OfClass, OfType
<1>7. QED
  BY <1>1, <1>3, <1>4, <1>5, <1>6 DEF Consistent, CountersOf, ListsOf, s

----------------------------------------------------------------------------
(* The specification.                                                      *)

\* Every call keeps the buffer consistent.
LEMMA NextConsistent ==
  ASSUME Consistent(buf), [BufferNext]_buf
  PROVE  Consistent(buf')
<1>1. CASE NewEvent
  BY <1>1, UpdateConsistent DEF NewEvent
<1>2. CASE SelectType
  BY <1>2, SelectByTypeConsistent DEF SelectType
<1>3. CASE SelectClass
  BY <1>3, SelectByClassConsistent DEF SelectClass
<1>4. CASE Reset
  BY <1>4, UnselectConsistent DEF Reset
<1>5. CASE LoadFragment
  BY <1>5, LoadConsistent DEF LoadFragment
<1>6. CASE Clear
  BY <1>6, ClearWrittenConsistent DEF Clear
<1>7. CASE ReadOverflow
  BY <1>7, AskOverflownConsistent DEF ReadOverflow
<1>8. CASE UNCHANGED buf
  BY <1>8
<1>9. QED
  BY <1>1, <1>2, <1>3, <1>4, <1>5, <1>6, <1>7, <1>8 DEF BufferNext

\* Every reachable buffer is consistent.
LEMMA AlwaysConsistent == BufferSpec => []Consistent(buf)
<1>1. BufferInit => Consistent(buf)
  BY EmptyConsistent DEF BufferInit
<1>2. Consistent(buf) /\ [BufferNext]_buf => Consistent(buf)'
  BY NextConsistent
<1>3. QED
  BY <1>1, <1>2, PTL DEF BufferSpec

\* Every field keeps its type under every order of calls; no counter of the
\* buffer (EventClassCounters, ClazzCount) is decremented below zero.
THEOREM TypeCorrect == BufferSpec => []TypeOK
<1>1. Consistent(buf) => TypeOK
  BY DEF Consistent, TypeOK
<1>2. QED
  BY <1>1, AlwaysConsistent, PTL

\* EventClassCounters holds the numbers of records in each state and class.
THEOREM CountersCorrect == BufferSpec => []CountersExact
<1>1. Consistent(buf) => CountersExact
  BY DEF Consistent, CountersExact
<1>2. QED
  BY <1>1, AlwaysConsistent, PTL

\* The master list and the lists per type of EventLists agree, and no list
\* outgrows its configured capacity.
THEOREM ListsCorrect == BufferSpec => []ListsAgree
<1>1. Consistent(buf) => ListsAgree
  BY DEF Consistent, ListsAgree
<1>2. QED
  BY <1>1, AlwaysConsistent, PTL

\* A consistent buffer indicates a class exactly when it has something to
\* report in it: the counters differ by the number of unwritten records.
LEMMA IndicationsOf ==
  ASSUME NEW b, Consistent(b), NEW c \in Classes
  PROVE  NumUnwritten(b, c) > 0
           <=> \E i \in OfClass(b, c) : b.events[i].state # "written"
<1> DEFINE S == OfClass(b, c)
           W == S \cap InState(b, "written")
<1>1. IsFiniteSet(S) /\ Cardinality(S) \in Nat
  BY RecordsFinite DEF Consistent, OfClass
<1>2. S \ W = {i \in S : b.events[i].state # "written"}
  BY DEF OfClass, InState
<1>3. NumUnwritten(b, c) = Cardinality(S) - Cardinality(W)
  BY DEF NumUnwritten, Consistent, CountersOf
<1> HIDE DEF S
<1>4. Cardinality(S \ W) = Cardinality(S) - Cardinality(W)
  BY <1>1, CountDifference
<1>5. IsFiniteSet(S \ W)
  BY <1>1, FS_Subset
<1>6. Cardinality(S \ W) \in Nat /\ (Cardinality(S \ W) = 0 <=> S \ W = {})
  BY <1>5, FS_CardinalityType, FS_EmptySet
<1>7. NumUnwritten(b, c) > 0 <=> S \ W # {}
  BY <1>3, <1>4, <1>6
<1>8. S \ W # {} <=> \E i \in S : b.events[i].state # "written"
  BY <1>2
<1>9. QED
  BY <1>7, <1>8 DEF S

\* UnwrittenClassField names exactly the classes with an event that no
\* response carries.
THEOREM IndicationsCorrect == BufferSpec => []IndicationsExact
<1>1. Consistent(buf) => IndicationsExact
  BY IndicationsOf DEF IndicationsExact, UnwrittenClassField
<1>2. QED
  BY <1>1, AlwaysConsistent, PTL

----------------------------------------------------------------------------
(* Loss.                                                                   *)

\* What an update of a full type loses is its oldest event, and the buffer
\* says so until the list has room again.
LEMMA UpdateLoss ==
  ASSUME NEW b, Consistent(b), NEW t \in Types, NEW c \in Classes,
         NEW i \in Ids(b) \ Ids(Update(b, t, c))
  PROVE  /\ b.events[i].type = t
         /\ Cardinality(OfType(b, t)) = Capacity[t]
         /\ \A j \in OfType(b, t) : i <= j
         /\ IsOverflown(Update(b, t, c))
<1> DEFINE r == EvictOldest(b, t)
           s == AddRecord(r, t, c)
<1>0. IsBuffer(b) /\ ListsOf(b)
  BY DEF Consistent
<1>1. Capacity[t] # 0 /\ IsFull(b, t)
  <2>1. CASE Capacity[t] = 0
    BY <2>1 DEF Update
  <2>2. CASE Capacity[t] # 0 /\ ~IsFull(b, t)
    <3>1. Ids(AddRecord(b, t, c)) = Ids(b) \cup {b.next}
      BY <1>0, AddFields DEF Added
    <3>2. QED
      BY <2>2, <3>1 DEF Update
  <2>3. QED
    BY <2>1, <2>2
<1>2. Update(b, t, c) = s
  BY <1>1 DEF Update
<1>3. b.typed[t] # {}
  BY <1>1, FullNotEmpty
<1>4. /\ Consistent(r) /\ Cardinality(r.typed[t]) = Cardinality(b.typed[t]) - 1
      /\ Removed(b, r, t, Victim(b, t))
  BY <1>3, EvictConsistent, EvictFields
<1> HIDE DEF r
<1>5. Added(r, s, t, c)
  BY <1>4, AddFields DEF Consistent
<1> HIDE DEF s
<1>6. i = Victim(b, t)
  BY <1>2, <1>4, <1>5 DEF Added, Removed
<1>7. b.typed[t] = OfType(b, t) /\ b.events[i].type = t /\ \A j \in OfType(b, t) : i <= j
  BY <1>0, <1>3, <1>6, VictimIsOldest DEF ListsOf
<1>8. Cardinality(b.typed[t]) = Capacity[t]
  <2>1. Cardinality(b.typed[t]) \in Nat
    BY <1>0, <1>7, RecordsFinite DEF OfType
  <2>2. QED
    BY <1>0, <1>1, <2>1, CapacityNat DEF IsFull, ListsOf
<1>9. IsOverflown(s)
  <2>1. s.overflow = TRUE
    BY <1>4, <1>5 DEF Added, Removed
  <2>2. Cardinality(s.typed[t]) = Cardinality(r.typed[t]) + 1
    <3>1. IsBuffer(r) /\ r.typed[t] = OfType(r, t)
      BY <1>4 DEF Consistent, ListsOf
    <3>2. IsFiniteSet(r.typed[t])
      BY <3>1, RecordsFinite DEF OfType
    <3>3. r.next \notin r.typed[t]
      BY <3>1 DEF OfType, IsBuffer
    <3>4. s.typed[t] = r.typed[t] \cup {r.next}
      BY <1>5 DEF Added
    <3>5. QED
      BY <3>2, <3>3, <3>4, CountOne
  <2>3. Cardinality(s.typed[t]) = Capacity[t]
    BY <1>4, <1>8, <2>2, CapacityNat
  <2>4. IsFull(s, t)
    BY <1>1, <2>3, CapacityNat DEF IsFull
  <2>5. QED
    BY <2>1, <2>4 DEF IsOverflown, IsAnyTypeFull
<1>10. QED
  BY <1>2, <1>7, <1>8, <1>9

\* An event leaves the buffer only when it was written and ClearWritten ran,
\* or as the oldest of a type that is full, and then the overflow indication
\* is set.
THEOREM LossCorrect == BufferSpec => NoSilentLoss
<1> DEFINE Loss ==
      \A i \in Ids(buf) \ Ids(buf') :
         \/ buf.events[i].state = "written" /\ Clear
         \/ LET t == buf.events[i].type IN
            /\ Cardinality(OfType(buf, t)) = Capacity[t]
            /\ \A j \in OfType(buf, t) : i <= j
            /\ IsOverflown(buf')
<1>1. Consistent(buf) /\ [BufferNext]_buf => [Loss]_buf
  <2> SUFFICES ASSUME Consistent(buf), BufferNext
               PROVE  Loss
    OBVIOUS
  <2>1. CASE NewEvent
    BY <2>1, UpdateLoss DEF NewEvent
  <2>2. CASE SelectType
    <3>1. PICK t \in Types, v \in Variations, max \in Counts :
            buf' = SelectByType(buf, t, v, max)
      BY <2>2 DEF SelectType
    <3>2. Ids(buf') = Ids(buf)
      BY <3>1, SelectByTypeConsistent
    <3>3. QED
      BY <3>2
  <2>3. CASE SelectClass
    <3>1. PICK cs \in SUBSET Classes, max \in Counts : buf' = SelectByClass(buf, cs, max)
      BY <2>3 DEF SelectClass
    <3>2. Ids(buf') = Ids(buf)
      BY <3>1, SelectByClassIds
    <3>3. QED
      BY <3>2
  <2>4. CASE Reset
    BY <2>4, UnselectFields DEF Reset, Consistent
  <2>5. CASE LoadFragment
    <3>1. PICK room \in Rooms : buf' = Load(buf, room)
      BY <2>5 DEF LoadFragment
    <3>2. Ids(buf') = Ids(buf)
      BY <3>1, LoadFields, ZenonT(30) DEF Consistent
    <3>3. QED
      BY <3>2
  <2>6. CASE Clear
    <3>1. Ids(buf') = Ids(buf) \ InState(buf, "written")
      BY <2>6, ClearWrittenFields, ZenonT(30) DEF Clear
    <3>2. QED
      BY <2>6, <3>1 DEF InState
  <2>7. CASE ReadOverflow
    BY <2>7, AskOverflownConsistent DEF ReadOverflow
  <2>8. QED
    BY <2>1, <2>2, <2>3, <2>4, <2>5, <2>6, <2>7 DEF BufferNext
<1>2. QED
  BY <1>1, AlwaysConsistent, PTL DEF BufferSpec, NoSilentLoss

----------------------------------------------------------------------------
(* What the outstation may do to the buffer in one callback.               *)

\* c holds the records that b holds; their states may differ.
SameRecords(b, c) ==
  /\ Consistent(c) /\ Ids(c) = Ids(b) /\ c.next = b.next
  /\ \A t : OfType(c, t) = OfType(b, t)

\* There is no room for another event of type t.
Full(b, t) == Cardinality(OfType(b, t)) = Capacity[t]

\* What b holds and c does not gave way to newer events of its type.
PushedOut(b, c) ==
  \A i \in Ids(b) \ Ids(c) :
    LET t == b.events[i].type IN Full(c, t) /\ \A j \in OfType(c, t) : i < j

\* c is b after some updates: nothing was selected or written meanwhile.
Updated(b, c) ==
  /\ Consistent(c)
  /\ InState(c, "written") \subseteq InState(b, "written") /\ c.selected <= b.selected
  /\ b.next <= c.next /\ \A j \in Ids(c) \ Ids(b) : b.next <= j
  /\ \A i \in Ids(b) \cap Ids(c) : c.events[i].type = b.events[i].type
  /\ \A t \in Types : Full(b, t) => Full(c, t)
  /\ PushedOut(b, c)

\* No update is an update.
LEMMA NoUpdate ==
  ASSUME NEW b, Consistent(b)
  PROVE  Updated(b, b)
<1>1. b.selected \in Nat /\ b.next \in Nat
  BY Zenon DEF Consistent, IsBuffer
<1> QED BY <1>1 DEF Updated, PushedOut

\* One update after others.
LEMMA UpdatedTwice ==
  ASSUME NEW b, Consistent(b), NEW c, Updated(b, c), NEW d, Updated(c, d)
  PROVE  Updated(b, d)
<1>1. /\ b.next \in Nat /\ c.next \in Nat /\ d.next \in Nat
      /\ b.selected \in Nat /\ c.selected \in Nat /\ d.selected \in Nat
      /\ Ids(b) \subseteq 1 .. b.next - 1 /\ Ids(c) \subseteq 1 .. c.next - 1 /\ Ids(d) \subseteq 1 .. d.next - 1
      /\ \A i \in Ids(b) : b.events[i].type \in Types
  BY Zenon DEF Consistent, IsBuffer, Updated, Record
<1>2. /\ InState(d, "written") \subseteq InState(b, "written") /\ d.selected <= b.selected /\ b.next <= d.next
      /\ \A t \in Types : Full(b, t) => Full(d, t)
  BY <1>1 DEF Updated
<1>3. \A j \in Ids(d) \ Ids(b) : b.next <= j
  BY <1>1 DEF Updated
<1>4. \A i \in Ids(b) \cap Ids(d) : i \in Ids(c)
  BY <1>1 DEF Updated
<1>5. \A i \in Ids(b) \cap Ids(d) : d.events[i].type = b.events[i].type
  BY <1>4, Zenon DEF Updated
<1>6. ASSUME NEW i \in Ids(b) \ Ids(d)
      PROVE  LET t == b.events[i].type IN Full(d, t) /\ \A j \in OfType(d, t) : i < j
  <2> DEFINE t == b.events[i].type
  <2>0. t \in Types
    BY <1>1, Zenon
  <2>1. CASE i \in Ids(c)
    <3>1. c.events[i].type = t
      BY <2>1, Zenon DEF Updated
    <3> QED BY <2>1, <3>1, Zenon DEF Updated, PushedOut
  <2>2. CASE i \notin Ids(c)
    <3>1. Full(c, t) /\ \A j \in OfType(c, t) : i < j
      BY <2>2, Zenon DEF Updated, PushedOut
    <3>2. Full(d, t)
      BY <2>0, <3>1, Zenon DEF Updated
    <3>3. ASSUME NEW j \in OfType(d, t) PROVE i < j
      <4>1. j \in Ids(d) /\ d.events[j].type = t
        BY Zenon DEF OfType
      <4>2. CASE j \in Ids(c)
        <5>1. c.events[j].type = t
          BY <4>1, <4>2, Zenon DEF Updated
        <5>2. j \in OfType(c, t)
          BY <4>2, <5>1, Zenon DEF OfType
        <5> QED BY <3>1, <5>2, Zenon
      <4>3. CASE j \notin Ids(c)
        <5>1. c.next <= j /\ b.next <= c.next
          BY <4>1, <4>3, Zenon DEF Updated
        <5> QED BY <1>1, <4>1, <5>1
      <4> QED BY <4>2, <4>3, Zenon
    <3> QED BY <3>2, <3>3, Zenon
  <2> QED BY <2>1, <2>2, Zenon
<1>7. PushedOut(b, d)
  BY <1>6, Zenon DEF PushedOut
<1>8. Consistent(d)
  BY Zenon DEF Updated
<1> QED BY <1>2, <1>3, <1>5, <1>7, <1>8, Zenon DEF Updated

\* A record is added to a list that has room.
LEMMA AddUpdates ==
  ASSUME NEW b, Consistent(b), NEW t \in Types, NEW c \in Classes, Cardinality(b.typed[t]) < Capacity[t]
  PROVE  Updated(b, AddRecord(b, t, c)) /\ OfType(AddRecord(b, t, c), t) = OfType(b, t) \cup {b.next}
<1> DEFINE s == AddRecord(b, t, c)
<1>1. IsBuffer(b) /\ Added(b, s, t, c)
  BY AddFields, Zenon DEF Consistent
<1>2. Consistent(s)
  BY <1>1, AddedConsistent, Zenon
<1> HIDE DEF s
<1>3. /\ InState(s, "written") = InState(b, "written") /\ OfType(s, t) = OfType(b, t) \cup {b.next}
      /\ \A u \in Types \ {t} : OfType(s, u) = OfType(b, u)
  BY <1>1, AddedRecords
<1>4. /\ b.next \in Nat /\ b.selected \in Nat /\ s.next = b.next + 1 /\ s.selected = b.selected
      /\ Ids(s) = Ids(b) \cup {b.next} /\ \A i \in Ids(b) : s.events[i] = b.events[i]
  BY <1>1, Zenon DEF Added, IsBuffer
<1>5. ~Full(b, t)
  <2>1. b.typed[t] = OfType(b, t) /\ Capacity[t] \in Nat
    BY CapacityNat, Zenon DEF Consistent, ListsOf
  <2> QED BY <2>1 DEF Full
<1>6. \A u \in Types : Full(b, u) => Full(s, u)
  BY <1>3, <1>5, Zenon DEF Full
<1>7. Updated(b, s)
  BY <1>2, <1>3, <1>4, <1>6 DEF Updated, PushedOut
<1> QED BY <1>3, <1>7, Zenon DEF s

\* Update is one, whether it evicts or not.
LEMMA UpdateUpdates ==
  ASSUME NEW b, Consistent(b), NEW t \in Types, NEW c \in Classes
  PROVE  Updated(b, Update(b, t, c))
<1>0. Cardinality(b.typed[t]) \in Nat /\ Capacity[t] \in Nat /\ Cardinality(b.typed[t]) <= Capacity[t] /\ b.typed[t] = OfType(b, t)
  BY RecordsFinite, CapacityNat, Zenon DEF Consistent, ListsOf, OfType
<1>1. CASE Capacity[t] = 0
  BY <1>1, NoUpdate, Zenon DEF Update
<1>2. CASE Capacity[t] # 0 /\ ~IsFull(b, t)
  <2>1. Cardinality(b.typed[t]) < Capacity[t]
    BY <1>0, <1>2 DEF IsFull
  <2> QED BY <1>2, <2>1, AddUpdates, Zenon DEF Update
<1>3. CASE Capacity[t] # 0 /\ IsFull(b, t)
  <2> DEFINE r == EvictOldest(b, t)
             s == AddRecord(r, t, c)
             v == Victim(b, t)
  <2>1. b.typed[t] # {} /\ Cardinality(b.typed[t]) = Capacity[t]
    BY <1>0, <1>3, FullNotEmpty DEF IsFull
  <2>2. Consistent(r) /\ Cardinality(r.typed[t]) = Cardinality(b.typed[t]) - 1 /\ Removed(b, r, t, v)
    BY <2>1, EvictConsistent, EvictFields, Zenon
  <2>3. v \in OfType(b, t) /\ \A j \in OfType(b, t) : v <= j
    BY <1>0, <2>1, VictimIsOldest
  <2>4. Cardinality(r.typed[t]) < Capacity[t]
    BY <1>0, <2>1, <2>2
  <2> HIDE DEF r, v
  <2>5. Updated(r, s) /\ OfType(s, t) = OfType(r, t) \cup {r.next}
    BY <2>2, <2>4, AddUpdates, Zenon
  <2> HIDE DEF s
  <2>6. /\ InState(r, "written") = InState(b, "written") \ {v}
        /\ \A u : OfType(r, u) = OfType(b, u) \ {v}
    BY <2>2, RemovedRecords
  <2>7. /\ b.next \in Nat /\ b.selected \in Nat /\ r.next = b.next
        /\ Ids(r) = Ids(b) \ {v} /\ \A i \in Ids(r) : r.events[i] = b.events[i]
        /\ Ids(b) \subseteq 1 .. b.next - 1 /\ v \in Ids(b) /\ b.events[v].type = t
        /\ r.selected <= b.selected
    <3>1. IsBuffer(b)
      BY Zenon DEF Consistent
    <3> QED BY <2>2, <2>3, <3>1 DEF Removed, IsBuffer, OfType
  <2>8. Full(s, t)
    <3>1. IsBuffer(r) /\ r.typed[t] = OfType(r, t)
      BY <2>2, Zenon DEF Consistent, ListsOf
    <3>2. r.next \notin OfType(r, t)
      BY <2>7 DEF OfType
    <3>3. OfType(r, t) \in SUBSET Ids(r)
      BY Zenon DEF OfType
    <3>4. IsFiniteSet(OfType(r, t))
      BY <3>1, <3>3, RecordsFinite, Zenon
    <3>5. Cardinality(OfType(s, t)) = Cardinality(OfType(r, t)) + 1
      BY <2>5, <3>2, <3>4, CountOne, Zenon
    <3> QED BY <1>0, <2>1, <2>2, <3>1, <3>5 DEF Full
  <2>9. \A u \in Types : u # t => OfType(r, u) = OfType(b, u)
    BY <2>6, <2>7, Zenon DEF OfType
  <2>10. \A u \in Types : Full(b, u) => Full(s, u)
    <3>1. \A u \in Types : u # t /\ Full(b, u) => Full(r, u)
      BY <2>9, Zenon DEF Full
    <3> QED BY <2>5, <2>8, <3>1, Zenon DEF Updated
  <2>11. \A j \in OfType(s, t) : v < j
    <3>1. \A j \in OfType(r, t) : j \in OfType(b, t) /\ j # v /\ v <= j /\ j \in Nat /\ v \in Nat
      BY <2>3, <2>6, <2>7 DEF OfType
    <3> QED BY <2>5, <2>7, <3>1
  <2>12. /\ Consistent(s) /\ InState(s, "written") \subseteq InState(b, "written")
         /\ s.selected \in Nat /\ r.selected \in Nat /\ s.selected <= r.selected /\ r.next <= s.next
         /\ \A j \in Ids(s) \ Ids(r) : r.next <= j
         /\ \A i \in Ids(r) \cap Ids(s) : s.events[i].type = r.events[i].type
    BY <2>2, <2>5, <2>6, Zenon DEF Updated, Consistent, IsBuffer
  <2>13. ASSUME NEW i \in Ids(b) \ Ids(s)
         PROVE LET u == b.events[i].type IN Full(s, u) /\ \A j \in OfType(s, u) : i < j
    <3>1. CASE i = v
      BY <2>7, <2>8, <2>11, <3>1, Zenon
    <3>2. CASE i # v
      <4>1. i \in Ids(r) \ Ids(s) /\ r.events[i] = b.events[i]
        BY <2>7, <2>13, <3>2, Zenon
      <4> QED BY <2>5, <4>1, Zenon DEF Updated, PushedOut
    <3> QED BY <3>1, <3>2, Zenon
  <2>14. v \notin Ids(s)
    <3>1. v \notin Ids(r) /\ v < b.next /\ v \in Nat
      BY <2>7
    <3> QED BY <2>7, <2>12, <3>1
  <2>15. Updated(b, s)
    BY <2>7, <2>10, <2>12, <2>13, <2>14 DEF Updated, PushedOut
  <2> QED BY <1>3, <2>15, Zenon DEF Update, r, s
<1> QED BY <1>1, <1>2, <1>3, Zenon

\* What follows an update and keeps the records.
LEMMA PushedOutThen ==
  ASSUME NEW b, NEW c, PushedOut(b, c), NEW d, SameRecords(c, d)
  PROVE  PushedOut(b, d)
BY Zenon DEF PushedOut, SameRecords, Full

\* SelectByClass, Unselect, Load and AskOverflown keep the records.
LEMMA SelectKeeps ==
  ASSUME NEW b, Consistent(b), NEW cs, NEW max
  PROVE  LET s == SelectByClass(b, cs, max) IN SameRecords(b, s) /\ InState(s, "written") = InState(b, "written")
<1> DEFINE ids == Oldest({i \in InState(b, "unselected") : b.events[i].clazz \in cs}, max)
           s == SelectByClass(b, cs, max)
<1>1. ids \in SUBSET InState(b, "unselected")
  BY Zenon DEF Oldest
<1>2. s = Select(b, ids) /\ Consistent(s)
  BY SelectByClassConsistent, ZenonT(30) DEF SelectByClass
<1> HIDE DEF ids, s
<1>3. IsBuffer(b)
  BY Zenon DEF Consistent
<1> QED BY <1>1, <1>2, <1>3, SelectFields DEF SameRecords, s

\* Unselect leaves nothing selected or written.
LEMMA UnselectKeeps ==
  ASSUME NEW b, Consistent(b)
  PROVE  LET s == Unselect(b) IN SameRecords(b, s) /\ InState(s, "written") = {}
<1> DEFINE s == Unselect(b)
<1>1. IsBuffer(b) /\ Consistent(s)
  BY UnselectConsistent, Zenon DEF Consistent
<1> QED BY <1>1, UnselectFields, Zenon DEF SameRecords

\* Load writes exactly the records that Written names.
LEMMA LoadKeeps ==
  ASSUME NEW b, Consistent(b), NEW room
  PROVE  LET s == Load(b, room)
         IN  SameRecords(b, s) /\ InState(s, "written") = InState(b, "written") \cup Written(b, room)
<1> DEFINE s == Load(b, room)
<1>1. IsBuffer(b) /\ CountersOf(b) /\ Consistent(s)
  BY LoadConsistent, Zenon DEF Consistent
<1> QED BY <1>1, LoadFields, ZenonT(30) DEF SameRecords

\* Asking for the overflow bit changes no record and no selection.
LEMMA AskKeeps ==
  ASSUME NEW b, Consistent(b)
  PROVE  LET s == AskOverflown(b)
         IN  SameRecords(b, s) /\ InState(s, "written") = InState(b, "written") /\ s.selected = b.selected
<1> DEFINE s == AskOverflown(b)
<1>1. Consistent(s) /\ Ids(s) = Ids(b)
  BY AskOverflownConsistent, Zenon
<1>2. s.events = b.events /\ s.next = b.next /\ s.selected = b.selected
  BY Zenon DEF AskOverflown, Consistent, IsBuffer, EmptyBuffer
<1> HIDE DEF s
<1> QED BY <1>1, <1>2, Zenon DEF SameRecords, OfType, InState, s

\* Keeping the records twice keeps them.
LEMMA SameTwice ==
  ASSUME NEW b, NEW c, SameRecords(b, c), NEW d, SameRecords(c, d)
  PROVE  SameRecords(b, d)
BY Zenon DEF SameRecords

\* What ClearWritten removes was written.
LEMMA ClearRemoves ==
  ASSUME NEW b, Consistent(b)
  PROVE  LET s == ClearWritten(b)
         IN  /\ Consistent(s) /\ InState(s, "written") = {} /\ s.selected = b.selected
             /\ Ids(b) \ Ids(s) = InState(b, "written")
<1> DEFINE s == ClearWritten(b)
<1>1. Consistent(s)
  BY ClearWrittenConsistent, Zenon
<1>2. Ids(s) = Ids(b) \ InState(b, "written") /\ s.selected = b.selected /\ \A i \in Ids(s) : s.events[i] = b.events[i]
  BY ClearWrittenFields, ZenonT(30)
<1> HIDE DEF s
<1> QED BY <1>1, <1>2, Zenon DEF InState, s

\* Asking for the overflow flag changes nothing that an update may not change.
LEMMA AskUpdates ==
  ASSUME NEW b, Consistent(b)
  PROVE  Updated(b, AskOverflown(b))
<1> DEFINE s == AskOverflown(b)
<1>1. Consistent(s) /\ Ids(s) = Ids(b)
  BY AskOverflownConsistent, Zenon
<1>2. s.events = b.events /\ s.next = b.next /\ s.selected = b.selected /\ b.next \in Nat /\ b.selected \in Nat
  BY Zenon DEF AskOverflown, Consistent, IsBuffer, EmptyBuffer
<1> HIDE DEF s
<1> QED BY <1>1, <1>2 DEF Updated, PushedOut, OfType, InState, Full, s
=============================================================================
