--------------------------- MODULE StaticDataMap ---------------------------
(***************************************************************************)
(* The points of one measurement type (outstation/StaticDataMap.h): their  *)
(* current values, the value last considered for an event, and the points  *)
(* that a READ has selected, each with a copy of its value at that moment. *)
(*                                                                         *)
(* Beside the flag in every cell the map keeps one range that encloses the *)
(* selected cells; iterating over the selection starts at the range and    *)
(* shortens it.                                                            *)
(*                                                                         *)
(* A value is abstract: Zero(v) is v with its number set to zero, and      *)
(* Promote(v, s) is the variation that v needs when s was asked for.       *)
(***************************************************************************)
EXTENDS Integers

CONSTANTS
  Values,            \* measurements
  DefaultValue,      \* a measurement as constructed by default
  Zero(_),           \* the measurement with its number cleared
  WithFlags(_, _),   \* the measurement with other quality flags
  FlagValues,        \* quality flags
  Variations,        \* static variations
  Promote(_, _),     \* check_for_promotion
  AsConfigured       \* "use the default" instead of a variation

ASSUME ValuesClosed ==
  /\ DefaultValue \in Values
  /\ \A v \in Values : Zero(v) \in Values /\ \A f \in FlagValues : WithFlags(v, f) \in Values
ASSUME VariationsClosed ==
  /\ AsConfigured \notin Variations
  /\ \A v \in Values, s \in Variations : Promote(v, s) \in Variations

EventModes == {"Detect", "Force", "Suppress", "EventOnly"}
PointClasses == {0, 1}      \* Class0, and one class that has events
MaxIndex == 65535           \* an index is a uint16_t

Least(S) == CHOOSE i \in S : \A j \in S : i <= j
Greatest(S) == CHOOSE i \in S : \A j \in S : j <= i

----------------------------------------------------------------------------
(* Range (app/Range.h).                                                    *)
From(start, stop) == [start |-> start, stop |-> stop]
Invalid == From(1, 0)
IsValid(r) == r.start <= r.stop
Contains(r, i) == r.start <= i /\ i <= r.stop

\* Wrong: forgets the selection made before.
UnionForgets(r, s) == s

Union(r, s) ==
  IF ~IsValid(r) THEN s
  ELSE From(IF r.start <= s.start THEN r.start ELSE s.start,
            IF r.stop >= s.stop THEN r.stop ELSE s.stop)

----------------------------------------------------------------------------
(* The map.                                                                *)

\* The map of the points `indices', configured with variation s and class c.
NewMap(indices, s, c) ==
  [indices  |-> indices,
   value    |-> [i \in indices |-> DefaultValue],
   last     |-> [i \in indices |-> DefaultValue],
   clazz    |-> [i \in indices |-> c],
   config   |-> s,
   selected |-> {},
   copy     |-> [i \in indices |-> DefaultValue],
   var      |-> [i \in indices |-> s],
   range    |-> Invalid]

\* The cells `ids' are selected: value and variation are copied.
Mark(m, ids, s) ==
  [m EXCEPT
     !.selected = @ \cup ids,
     !.copy = [i \in m.indices |-> IF i \in ids THEN m.value[i] ELSE @[i]],
     !.var = [i \in m.indices |->
                IF i \in ids
                THEN Promote(m.value[i], IF s = AsConfigured THEN m.config ELSE s)
                ELSE @[i]]]

select_all(m, s) ==
  IF m.indices = {} THEN m
  ELSE [Mark(m, m.indices, s) EXCEPT !.range = From(Least(m.indices), Greatest(m.indices))]

select(m, r, s) ==
  LET ids == {i \in m.indices : Contains(r, i)} IN
  IF ids = {} THEN m
  ELSE [Mark(m, ids, s) EXCEPT !.range = Union(@, From(Least(ids), Greatest(ids)))]

has_any_selection(m) == IsValid(m.range)

----------------------------------------------------------------------------
(* Iterating.  A position is an index, or End.                             *)
End == -1

lower_bound(m, i) ==
  LET up == {j \in m.indices : i <= j} IN IF up = {} THEN End ELSE Least(up)

begin(m) == IF IsValid(m.range) THEN lower_bound(m, m.range.start) ELSE End

\* operator++ at cell i: unselects it and moves on to the next selected cell.
Advance(m, i) ==
  LET up == {j \in m.selected : i < j} IN
  [m EXCEPT !.selected = @ \ {i},
            !.range = IF up = {} THEN Invalid ELSE [@ EXCEPT !.start = Least(up)]]

\* clear_selection: the act of iterating clears the selection.
clear_selection(m) ==
  LET b == begin(m) IN
  IF b = End THEN m
  ELSE [m EXCEPT !.selected = {i \in @ : i < b}, !.range = Invalid]

\* The effect of iterating over the first cells `ids' of the selection.
Consume(m, ids) ==
  LET rest == m.selected \ ids IN
  IF ids = {} THEN m
  ELSE [m EXCEPT !.selected = rest,
                 !.range = IF rest = {} THEN Invalid ELSE [@ EXCEPT !.start = Least(rest)]]

----------------------------------------------------------------------------
(* Values and events.                                                      *)

\* Spec::IsEvent with a deadband of zero.
IsEvent(old, new) == old # new

\* Wrong: compares with the current value.
ConsideredByValue(m, i, v, mode) ==
  mode \in {"Force", "EventOnly"} \/ IsEvent(m.value[i], v)

\* update reaches the event cell.
Considered(m, i, v, mode) ==
  mode \in {"Force", "EventOnly"} \/ IsEvent(m.last[i], v)

\* An event is handed to the receiver.
Announced(m, i, v, mode) ==
  Considered(m, i, v, mode) /\ mode # "Suppress" /\ m.clazz[i] # 0

\* Wrong: a selected cell changes with its value.
UpdateThrough(m, f, mode) ==
  [m EXCEPT
     !.value = [i \in m.indices |-> IF i \in DOMAIN f THEN f[i] ELSE @[i]],
     !.copy = [i \in m.indices |-> IF i \in DOMAIN f THEN f[i] ELSE @[i]],
     !.last = [i \in m.indices |->
                 IF i \in DOMAIN f /\ Considered(m, i, f[i], mode) THEN f[i] ELSE @[i]]]

\* update for every index in DOMAIN f; an index that does not exist is ignored.
update(m, f, mode) ==
  [m EXCEPT
     !.value = [i \in m.indices |->
                  IF i \in DOMAIN f /\ mode # "EventOnly" THEN f[i] ELSE @[i]],
     !.last = [i \in m.indices |->
                 IF i \in DOMAIN f /\ Considered(m, i, f[i], mode) THEN f[i] ELSE @[i]]]

\* modify: the new values of the points in the range.
Modified(m, r, flags) ==
  [i \in {j \in m.indices : Contains(r, j)} |-> WithFlags(m.value[i], flags)]

assign_class(m, c, r) ==
  [m EXCEPT !.clazz = [i \in m.indices |-> IF Contains(r, i) THEN c ELSE @[i]]]

----------------------------------------------------------------------------
(* What every operation keeps.                                             *)
\* The range is valid exactly when a cell is selected; it starts at the first
\* selected cell and ends no earlier than the last.
RangeOf(m) ==
  /\ IsValid(m.range) <=> m.selected # {}
  /\ m.selected # {} => m.range.start \in m.selected
  /\ \A i \in m.selected : Contains(m.range, i)

=============================================================================
