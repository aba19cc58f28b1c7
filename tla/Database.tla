------------------------------ MODULE Database ------------------------------
(***************************************************************************)
(* The static database of an outstation (outstation/Database.cpp), reduced *)
(* to three of its nine maps: binary inputs, whose variation depends on    *)
(* the value, and counters with their frozen counters, which a freeze      *)
(* connects.                                                               *)
(*                                                                         *)
(* A READ selects points and copies their values; the response is loaded   *)
(* fragment by fragment while the user goes on updating points and anyone  *)
(* may freeze counters.                                                    *)
(***************************************************************************)
EXTENDS StaticDataMap, FiniteSets

CONSTANTS
  Indices,           \* the points of each kind
  Config,            \* the variation each kind is configured with
  ClassZero,         \* allowed_class_zero_types
  Reads,             \* pairs of headers (or NoHeader) that a READ may have
  NoHeader,
  Ranges,            \* ranges of the other requests
  Modes,             \* event modes that the user passes to updates
  Rooms,             \* space left in the fragment, in objects and headers
  MaxUpdates         \* bound on the changes of values (model only)

Kinds == {"binary", "counter", "frozen"}

ASSUME IndicesOk == DOMAIN Indices = Kinds /\ \A k \in Kinds : Indices[k] \subseteq 0 .. MaxIndex
ASSUME ConfigOk == Config \in [Kinds -> Variations]
ASSUME RangesOk == Ranges \subseteq [start: Nat, stop: Nat]
ASSUME ModesOk == Modes \subseteq EventModes
ASSUME RoomsOk == Rooms \subseteq Nat /\ MaxUpdates \in Nat
ASSUME ReadsOk ==
  \A q \in Reads : \A h \in {q[1], q[2]} :
     h = NoHeader \/ h \in [kind: Kinds \cup {"class0"}, all: BOOLEAN,
                            range: [start: Nat, stop: Nat],
                            var: Variations \cup {AsConfigured}]

VARIABLES
  db,                \* the maps
  mirror,            \* history: what the events announced, and what was kept quiet
  asked, sent,       \* history: values at the time of the READ, and values loaded
  updates            \* changes so far

vars == <<db, mirror, asked, sent, updates>>

----------------------------------------------------------------------------
(* Selection.                                                              *)
Unselect(d) == [k \in Kinds |-> clear_selection(d[k])]

\* SelectAll and SelectRange for one header of a READ.
SelectHeader(d, h) ==
  CASE h = NoHeader -> d
    [] h # NoHeader /\ h.kind = "class0" ->
         [k \in Kinds |-> IF k \in ClassZero THEN select_all(d[k], AsConfigured) ELSE d[k]]
    [] h # NoHeader /\ h.kind # "class0" ->
         [d EXCEPT ![h.kind] =
            IF h.all THEN select_all(@, h.var) ELSE select(@, h.range, h.var)]

----------------------------------------------------------------------------
(* Loading.  An object and a header take one unit of space each.           *)

\* A header covers consecutive indices of one variation.
StartsHeader(m, i) ==
  ~(i - 1 \in m.selected /\ m.var[i - 1] = m.var[i])

\* The space taken by the selected points up to i.
Cost(m, i) ==
  Cardinality({j \in m.selected : j <= i})
    + Cardinality({j \in m.selected : j <= i /\ StartsHeader(m, j)})

Fitting(m, room) == {i \in m.selected : Cost(m, i) <= room}

\* What is left for the next kind: nothing once a kind did not fit, because
\* Load stops there.
RoomAfter(m, room) ==
  CASE m.selected = {} -> room
    [] m.selected # {} /\ Fitting(m, room) = m.selected ->
         room - Cost(m, Greatest(m.selected))
    [] m.selected # {} /\ Fitting(m, room) # m.selected -> 0

\* The points that one call of Load writes, per kind, and the effect.
Loaded(d, room) ==
  LET afterBinary  == RoomAfter(d["binary"], room)
      afterCounter == RoomAfter(d["counter"], afterBinary)
  IN  [k \in Kinds |-> CASE k = "binary"  -> Fitting(d[k], room)
                         [] k = "counter" -> Fitting(d[k], afterBinary)
                         [] k = "frozen"  -> Fitting(d[k], afterCounter)]

Load(d, room) == LET ids == Loaded(d, room) IN [k \in Kinds |-> Consume(d[k], ids[k])]

----------------------------------------------------------------------------
(* Freezing.                                                               *)

\* The cells that iterating over the selection of m visits.
Visited(m) == {i \in m.indices : i = begin(m) \/ (i \in m.selected /\ End < begin(m) /\ begin(m) < i)}

FrozenValues(d) == [i \in Visited(d["counter"]) |-> d["counter"].copy[i]]
ClearedValues(d) == [i \in Visited(d["counter"]) |-> Zero(d["counter"].copy[i])]

FreezeSelectedCounters(d, clear, mode) ==
  [d EXCEPT
     !["frozen"] = update(@, FrozenValues(d), mode),
     !["counter"] = clear_selection(
        IF clear THEN update(@, ClearedValues(d), mode) ELSE @)]

----------------------------------------------------------------------------
(* History: the mirror of the database that the events of a point give a   *)
(* master.  A point is hidden while an update without event is the last    *)
(* word on it, and ahead after an event that did not change it.            *)
NewMirror(m) == [seen |-> m.value, hidden |-> {}, ahead |-> {}]

Reflect(r, m, f, mode) ==
  LET ids   == DOMAIN f \cap m.indices
      told  == {i \in ids : Announced(m, i, f[i], mode)}
      mute  == {i \in ids : mode = "Suppress" \/ m.clazz[i] = 0}
  IN  [seen   |-> [i \in m.indices |-> IF i \in told THEN f[i] ELSE r.seen[i]],
       hidden |-> (r.hidden \cup mute) \ told,
       ahead  |-> IF mode = "EventOnly" THEN r.ahead \cup ids ELSE r.ahead \ ids]

Copies(m) == {<<i, m.copy[i]>> : i \in m.selected}

----------------------------------------------------------------------------
Init ==
  /\ db = [k \in Kinds |-> NewMap(Indices[k], Config[k], 1)]
  /\ mirror = [k \in Kinds |-> NewMirror(NewMap(Indices[k], Config[k], 1))]
  /\ asked = [k \in Kinds |-> {}]
  /\ sent = [k \in Kinds |-> {}]
  /\ updates = 0

\* A READ: Database::Unselect, then its headers.
Read(q) ==
  /\ db' = SelectHeader(SelectHeader(Unselect(db), q[1]), q[2])
  /\ asked' = [k \in Kinds |-> Copies(db'[k])]
  /\ sent' = [k \in Kinds |-> {}]
  /\ UNCHANGED <<mirror, updates>>

LoadFragment(room) ==
  /\ db' = Load(db, room)
  /\ sent' = [k \in Kinds |->
                sent[k] \cup {<<i, db[k].copy[i]>> : i \in Loaded(db, room)[k]}]
  /\ UNCHANGED <<mirror, asked, updates>>

\* A change of values by the user or by a request.
Change == updates < MaxUpdates /\ updates' = updates + 1 /\ UNCHANGED <<asked, sent>>

Assign(k, f, mode) ==
  /\ db' = [db EXCEPT ![k] = update(@, f, mode)]
  /\ mirror' = [mirror EXCEPT ![k] = Reflect(@, db[k], f, mode)]

Update(k, i, v, mode) == Change /\ Assign(k, [j \in {i} |-> v], mode)

Modify(k, r, flags) == Change /\ Assign(k, Modified(db[k], r, flags), "Detect")

\* FreezeSelectedCounters on the maps d, the counters of which were selected.
Freeze(d, clear, mode) ==
  /\ Change
  /\ db' = FreezeSelectedCounters(d, clear, mode)
  /\ mirror' = [mirror EXCEPT
       !["frozen"] = Reflect(@, d["frozen"], FrozenValues(d), mode),
       !["counter"] = IF clear THEN Reflect(@, d["counter"], ClearedValues(d), mode) ELSE @]

\* IUpdateHandler::FreezeCounter, and a FREEZE request for a range or for all.
FreezeCounter(i, clear, mode) ==
  Freeze([db EXCEPT !["counter"] = select(@, From(i, i), AsConfigured)], clear, mode)

FreezeRange(r, clear) ==
  Freeze([db EXCEPT !["counter"] = select(@, r, AsConfigured)], clear, "Detect")

FreezeAll(clear) ==
  Freeze([db EXCEPT !["counter"] = select_all(@, AsConfigured)], clear, "Detect")

AssignClass(k, c, r) ==
  /\ db' = [db EXCEPT ![k] = assign_class(@, c, r)]
  /\ Change /\ UNCHANGED mirror

Next ==
  \/ \E q \in Reads : Read(q)
  \/ \E room \in Rooms : LoadFragment(room)
  \/ \E k \in Kinds, v \in Values, mode \in Modes : \E i \in Indices[k] : Update(k, i, v, mode)
  \/ \E k \in Kinds, r \in Ranges, f \in FlagValues : Modify(k, r, f)
  \/ \E i \in Indices["counter"], c \in BOOLEAN, mode \in Modes : FreezeCounter(i, c, mode)
  \/ \E r \in Ranges, c \in BOOLEAN : FreezeRange(r, c)
  \/ \E c \in BOOLEAN : FreezeAll(c)
  \/ \E k \in Kinds, c \in PointClasses, r \in Ranges : AssignClass(k, c, r)

Spec == Init /\ [][Next]_vars

----------------------------------------------------------------------------
(* Properties.                                                             *)

\* The range that a map keeps beside the flags in its cells agrees with them.
\* Everything hangs on this: load_type never ends if the range does not start
\* at a selected cell, and cells outside of the range would stay selected for
\* ever.
RangeExact == \A k \in Kinds : RangeOf(db[k])

\* A response carries the values that the points had when the READ was
\* processed, every one of them exactly once, however many fragments it takes
\* and whatever is updated in between.  (Counters are excepted:
\* FreezeCounter freezes the counters that an unfinished READ selected too, and
\* takes them off its selection.)
ResponseIsSnapshot ==
  \A k \in Kinds \ {"counter"} :
    /\ asked[k] = sent[k] \cup Copies(db[k])
    /\ sent[k] \cap Copies(db[k]) = {}

\* A master that has seen every event of a point knows its current value,
\* unless the point was last updated with EventMode::Suppress or EventOnly or
\* while it had no event class (StaticDataMap::update).
MirrorExact ==
  \A k \in Kinds : \A i \in Indices[k] \ (mirror[k].hidden \cup mirror[k].ahead) :
    mirror[k].seen[i] = db[k].value[i]

=============================================================================
