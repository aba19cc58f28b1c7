---------------------------- MODULE EventBuffer ----------------------------
(***************************************************************************)
(* The sequence-of-events buffer of the outstation (outstation/event/).    *)
(*                                                                         *)
(* EventLists keeps two kinds of linked lists that point into each other:  *)
(* a master list `events' that holds the generic records in the order of   *)
(* their arrival, and one list per measurement type with the type-specific *)
(* record.  A record is named here by the number of its arrival, so a list *)
(* is the set of the numbers in it and its order is the order of numbers:  *)
(* nodes are only ever added at the tail.                                  *)
(*                                                                         *)
(* The operations are functions from buffers to buffers, because the       *)
(* outstation runs several of them inside one handler; module              *)
(* EventBufferSpec lets an arbitrary client call them one by one.          *)
(***************************************************************************)
EXTENDS Integers, FiniteSets

CONSTANTS
  Types,          \* measurement types that have an event list
  Classes,        \* event classes (EC1, EC2, EC3)
  Variations,     \* event variations a READ may ask for
  Default,        \* the variation an event is configured with
  Capacity,       \* EventBufferConfig: events per type, [Types -> Nat]
  MaxEvents       \* bound on the arrivals of one behaviour (model only)

ASSUME TypesFinite == IsFiniteSet(Types)
ASSUME ClassesFinite == IsFiniteSet(Classes)
ASSUME CapacityNat == Capacity \in [Types -> Nat]
ASSUME DefaultVariation == Default \in Variations
ASSUME MaxEventsNat == MaxEvents \in Nat

EventStates == {"unselected", "selected", "written"}

\* One event: the fields of EventRecord and of TypedEventRecord that the
\* buffer itself reads.
Record == [type: Types, clazz: Classes, state: EventStates, variation: Variations]

\* The oldest n members of a list (all of them when n exceeds its length).
Oldest(ids, n) == {i \in ids : Cardinality({j \in ids : j < i}) < n}

Ids(b) == DOMAIN b.events
InState(b, st) == {i \in Ids(b) : b.events[i].state = st}
OfClass(b, c) == {i \in Ids(b) : b.events[i].clazz = c}
OfType(b, t) == {i \in Ids(b) : b.events[i].type = t}

EmptyBuffer ==
  [events   |-> [i \in {} |-> {}],
   typed    |-> [t \in Types |-> {}],
   total    |-> [c \in Classes |-> 0],
   written  |-> [c \in Classes |-> 0],
   selected |-> 0,
   overflow |-> FALSE,
   next     |-> 1]

\* List::IsFullAndCapacityNotZero of the list of type t.
IsFull(b, t) == Capacity[t] > 0 /\ Cardinality(b.typed[t]) >= Capacity[t]

----------------------------------------------------------------------------
\* Wrong: forgets that the event was counted as written.
OnRemoveKeepsWritten(b, i) ==
  LET e == b.events[i] IN
  [b EXCEPT !.selected = IF e.state = "selected" THEN @ - 1 ELSE @,
            !.total[e.clazz] = @ - 1]

(* Counters: EventClassCounters::OnRemove for one record.                  *)
OnRemove(b, i) ==
  LET e == b.events[i] IN
  [b EXCEPT
     !.selected = IF e.state = "selected" THEN @ - 1 ELSE @,
     !.written[e.clazz] = IF e.state = "written" THEN @ - 1 ELSE @,
     !.total[e.clazz] = @ - 1]

\* Wrong: the overflow is not recorded.
EvictSilently(b, t) ==
  LET i == CHOOSE i \in b.typed[t] : \A j \in b.typed[t] : i <= j
  IN  [OnRemove(b, i) EXCEPT !.events = [j \in Ids(b) \ {i} |-> b.events[j]],
                             !.typed[t] = @ \ {i}]

\* The oldest event of a full type gives way, in both lists.
EvictOldest(b, t) ==
  LET i == CHOOSE i \in b.typed[t] : \A j \in b.typed[t] : i <= j
  IN  [OnRemove(b, i) EXCEPT
         !.events = [j \in Ids(b) \ {i} |-> b.events[j]],
         !.typed[t] = @ \ {i},
         !.overflow = TRUE]

\* A new record at the tail of the master list and of the list of its type.
AddRecord(b, t, c) ==
  [b EXCEPT
     !.events = [j \in Ids(b) \cup {b.next} |->
                   IF j = b.next
                   THEN [type |-> t, clazz |-> c, state |-> "unselected",
                         variation |-> Default]
                   ELSE b.events[j]],
     !.typed[t] = @ \cup {b.next},
     !.total[c] = @ + 1,
     !.next = @ + 1]

\* EventUpdate::Update through EventBuffer::UpdateAny.
Update(b, t, c) ==
  IF Capacity[t] = 0 THEN b
  ELSE AddRecord(IF IsFull(b, t) THEN EvictOldest(b, t) ELSE b, t, c)

----------------------------------------------------------------------------
(* Selection.                                                              *)
Select(b, ids) ==
  [b EXCEPT
     !.events = [i \in Ids(b) |->
                   IF i \in ids THEN [b.events[i] EXCEPT !.state = "selected"]
                   ELSE b.events[i]],
     !.selected = @ + Cardinality(ids)]

\* EventSelection::SelectByTypeGeneric; the variation asked for, or the
\* default one, is recorded in every event it selects.
SelectByType(b, t, v, max) ==
  LET ids == Oldest(b.typed[t] \cap InState(b, "unselected"), max)
      sel == Select(b, ids)
  IN  [sel EXCEPT !.events = [i \in Ids(b) |->
          IF i \in ids THEN [sel.events[i] EXCEPT !.variation = v]
          ELSE sel.events[i]]]

\* EventSelection::SelectByClass leaves the variation as it finds it.
SelectByClass(b, classes, max) ==
  Select(b, Oldest({i \in InState(b, "unselected") : b.events[i].clazz \in classes}, max))

\* EventStorage::Unselect: selected and written events are offered again.
Unselect(b) ==
  [b EXCEPT
     !.events = [i \in Ids(b) |-> [b.events[i] EXCEPT !.state = "unselected"]],
     !.selected = 0,
     !.written = [c \in Classes |-> 0]]

----------------------------------------------------------------------------
(* Writing and clearing.                                                   *)

\* EventWriting::Write into a fragment that has room for `room' events: the
\* selected events in order of arrival, until one does not fit.
Written(b, room) == Oldest(InState(b, "selected"), room)

Load(b, room) ==
  LET ids == Written(b, room) IN
  [b EXCEPT
     !.events = [i \in Ids(b) |->
                   IF i \in ids THEN [b.events[i] EXCEPT !.state = "written"]
                   ELSE b.events[i]],
     !.selected = @ - Cardinality(ids),
     !.written = [c \in Classes |-> @[c] + Cardinality(ids \cap OfClass(b, c))]]

\* Wrong: the nodes stay in the lists of their types.
ClearMasterListOnly(b) ==
  LET gone == InState(b, "written") IN
  [b EXCEPT
     !.events = [i \in Ids(b) \ gone |-> b.events[i]],
     !.written = [c \in Classes |-> @[c] - Cardinality(gone \cap OfClass(b, c))],
     !.total = [c \in Classes |-> @[c] - Cardinality(gone \cap OfClass(b, c))]]

\* EventStorage::ClearWritten: RemoveAll of the written records, each of them
\* also taken out of the list of its type and out of the counters.
ClearWritten(b) ==
  LET gone == InState(b, "written") IN
  [b EXCEPT
     !.events = [i \in Ids(b) \ gone |-> b.events[i]],
     !.typed = [t \in Types |-> @[t] \ (gone \cap OfType(b, t))],
     !.written = [c \in Classes |-> @[c] - Cardinality(gone \cap OfClass(b, c))],
     !.total = [c \in Classes |-> @[c] - Cardinality(gone \cap OfClass(b, c))]]

----------------------------------------------------------------------------
(* Queries.                                                                *)
HasAnySelection(b) == b.selected > 0
NumUnwritten(b, c) == b.total[c] - b.written[c]
UnwrittenClassField(b) == {c \in Classes : NumUnwritten(b, c) > 0}
IsAnyTypeFull(b) == \E t \in Types : IsFull(b, t)

\* IsOverflown answers and, on the way, clears a flag that is out of date.
IsOverflown(b) == b.overflow /\ IsAnyTypeFull(b)
AskOverflown(b) == [b EXCEPT !.overflow = IsOverflown(b)]

----------------------------------------------------------------------------
(* What every operation is meant to keep.  The properties of the           *)
(* specifications that use a buffer b are stated with these predicates.    *)
IsBuffer(b) ==
  /\ DOMAIN b = DOMAIN EmptyBuffer
  /\ b.next \in Nat \ {0}
  /\ b.overflow \in BOOLEAN
  /\ b.selected \in Nat
  /\ b.total \in [Classes -> Nat]
  /\ b.written \in [Classes -> Nat]
  /\ b.typed \in [Types -> SUBSET (1 .. b.next - 1)]
  /\ b.events \in [Ids(b) -> Record]
  /\ Ids(b) \subseteq 1 .. b.next - 1

\* The counters are the numbers of records in each state and class.
CountersOf(b) ==
  /\ b.selected = Cardinality(InState(b, "selected"))
  /\ \A c \in Classes :
       /\ b.total[c] = Cardinality(OfClass(b, c))
       /\ b.written[c] = Cardinality(OfClass(b, c) \cap InState(b, "written"))

\* The list of a type holds the events of that type, within its capacity.
ListsOf(b) ==
  \A t \in Types : /\ b.typed[t] = OfType(b, t)
                   /\ Cardinality(b.typed[t]) <= Capacity[t]

=============================================================================
