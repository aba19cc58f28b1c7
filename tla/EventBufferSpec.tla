-------------------------- MODULE EventBufferSpec --------------------------
(***************************************************************************)
(* The event buffer driven by an arbitrary client: any operation of        *)
(* EventBuffer, IEventSelector and IResponseLoader at any moment.  The     *)
(* outstation is one such client (module Outstation); what holds here      *)
(* holds under every order of its calls.                                   *)
(***************************************************************************)
EXTENDS EventBuffer

CONSTANTS
  Counts,         \* limits a READ header may put on a selection
  Rooms           \* how many more events a fragment may have room for

ASSUME CountsNat == Counts \subseteq Nat
ASSUME RoomsNat == Rooms \subseteq Nat

VARIABLE buf

BufferInit == buf = EmptyBuffer

NewEvent == \E t \in Types, c \in Classes :
  buf.next <= MaxEvents /\ buf' = Update(buf, t, c)

SelectType == \E t \in Types, v \in Variations, max \in Counts :
  buf' = SelectByType(buf, t, v, max)

SelectClass == \E cs \in SUBSET Classes, max \in Counts :
  buf' = SelectByClass(buf, cs, max)

Reset == buf' = Unselect(buf)

LoadFragment == \E room \in Rooms : buf' = Load(buf, room)

Clear == buf' = ClearWritten(buf)

ReadOverflow == buf' = AskOverflown(buf)

BufferNext ==
  \/ NewEvent \/ SelectType \/ SelectClass \/ Reset
  \/ LoadFragment \/ Clear \/ ReadOverflow

BufferSpec == BufferInit /\ [][BufferNext]_buf

----------------------------------------------------------------------------
(* Properties.                                                             *)

\* Every field has its type; in particular none of the uint32_t counters of
\* ClazzCount and EventClassCounters is ever decremented below zero.
TypeOK == IsBuffer(buf)

\* EventClassCounters agrees with the records at all times: whatever the
\* interleaving of updates that evict selected or written events, selections,
\* partial writes and clears, the counters are the numbers of records in each
\* state and class (ClazzCount.h).
CountersExact == CountersOf(buf)

\* The list of a type and the master list hold the same events of that type,
\* and no type has more events than it was configured for (EventLists).
ListsAgree == ListsOf(buf)

\* UnwrittenClassField, which feeds the class bits of the IIN and the decision
\* to send an unsolicited response, names exactly the classes that have an
\* event no response carries.
IndicationsExact ==
  UnwrittenClassField(buf) =
    {c \in Classes : \E i \in OfClass(buf, c) : buf.events[i].state # "written"}

\* An event leaves the buffer in one of two ways: it was written and
\* ClearWritten ran, or its type was full and it was the oldest of the type;
\* the second way always leaves the overflow indication set.
NoSilentLoss == [][
  \A i \in Ids(buf) \ Ids(buf') :
     \/ buf.events[i].state = "written" /\ Clear
     \/ LET t == buf.events[i].type IN
        /\ Cardinality(OfType(buf, t)) = Capacity[t]
        /\ \A j \in OfType(buf, t) : i <= j
        /\ IsOverflown(buf')]_buf

=============================================================================
