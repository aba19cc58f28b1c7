--------------------------- MODULE StaticWriters ---------------------------
(***************************************************************************)
(* How static data gets into a fragment: the loops of load_type and of the *)
(* writers (outstation/StaticWriters.cpp) over the selection of a map, and *)
(* the two iterators that close a header when they are destroyed           *)
(* (app/RangeWriteIterator.h, app/BitfieldRangeWriteIterator.h).           *)
(*                                                                         *)
(* Module Database says in one formula which points a fragment takes.  The *)
(* properties below say that the loops take the same ones, and that what   *)
(* they write can be read back.                                            *)
(***************************************************************************)
EXTENDS Database, Sequences

CONSTANTS
  IndexMod,          \* 2^8: numbers that fit an IndexType of one byte
  Packed             \* the variations that are written as bitfields

ASSUME IndexModOk == IndexMod \in Nat \ {0}

\* What the stop field holds when no writer fills it in.
NoStop == -1

\* The writer: the space left in the fragment and the headers in it.
NewWriter(room) == [room |-> room, headers |-> <<>>]

\* A header with room for its start, its stop and one object was reserved; the
\* iterator that writes into it counts the objects.
Open(w, kind, m, variation) ==
  [kind  |-> kind,
   var   |-> variation,
   start |-> m.range.start,
   short |-> m.range.stop < IndexMod,          \* Range::IsOneByte
   valid |-> w.room >= 2,
   room  |-> w.room - 1,
   count |-> 0,
   objects |-> <<>>]

\* Write of either iterator: an object goes into the fragment.  The count of a
\* bitfield is an IndexType, that of a range a uint32_t.
Write(it, v) ==
  [it EXCEPT !.objects = Append(@, v),
             !.room = @ - 1,
             !.count = IF it.short /\ it.var \in Packed THEN (@ + 1) % IndexMod ELSE @ + 1]

CanWrite(it) == it.valid /\ it.room > 0

\* Wrong: the stop index is one too large.
CloseOffByOne(w, it) ==
  IF ~it.valid THEN w
  ELSE [room    |-> w.room - 1 - Len(it.objects),
        headers |-> Append(w.headers, [kind |-> it.kind, start |-> it.start,
                                       stop |-> it.start + it.count, objects |-> it.objects])]

\* The destructors.  A bitfield advances the position over its bytes only
\* here, and only if it counted any.
Close(w, it) ==
  LET objects == IF it.var \in Packed THEN SubSeq(it.objects, 1, it.count) ELSE it.objects
      stop    == IF it.count > 0 THEN it.start + it.count - 1 ELSE NoStop
  IN  IF ~it.valid THEN w
      ELSE [room    |-> w.room - 1 - Len(objects),
            headers |-> Append(w.headers, [kind |-> it.kind, start |-> it.start,
                                           stop |-> stop, objects |-> objects])]

\* LoadWithRangeIterator and LoadWithBitfieldIterator, from position pos on.
RECURSIVE LoadWith(_, _, _, _)
LoadWith(m, it, pos, next) ==
  CASE pos = End -> [map |-> m, it |-> it, more |-> TRUE]
    [] pos # End /\ (m.var[pos] # it.var \/ pos # next) -> [map |-> m, it |-> it, more |-> TRUE]
    [] pos # End /\ m.var[pos] = it.var /\ pos = next /\ ~CanWrite(it) ->
         [map |-> m, it |-> it, more |-> FALSE]
    [] pos # End /\ m.var[pos] = it.var /\ pos = next /\ CanWrite(it) ->
         LET rest == Advance(m, pos)
         IN  LoadWith(rest, Write(it, m.copy[pos]), begin(rest), next + 1)

\* load_type: one header after the other.
RECURSIVE load_type(_, _, _)
load_type(kind, m, w) ==
  LET b == begin(m) IN
  IF b = End THEN [map |-> m, writer |-> w, more |-> TRUE]
  ELSE LET r == LoadWith(m, Open(w, kind, m, m.var[b]), b, m.range.start)
           x == Close(w, r.it)
       IN  IF ~r.more THEN [map |-> r.map, writer |-> x, more |-> FALSE]
           ELSE load_type(kind, r.map, x)

\* Database::Load.
LoadLoop(d, room) ==
  LET b == load_type("binary", d["binary"], NewWriter(room))
      c == IF b.more THEN load_type("counter", d["counter"], b.writer)
           ELSE [map |-> d["counter"], writer |-> b.writer, more |-> FALSE]
      f == IF c.more THEN load_type("frozen", d["frozen"], c.writer)
           ELSE [map |-> d["frozen"], writer |-> c.writer, more |-> FALSE]
  IN  [maps |-> [k \in Kinds |-> CASE k = "binary" -> b.map
                                   [] k = "counter" -> c.map
                                   [] k = "frozen" -> f.map],
       headers |-> f.writer.headers,
       complete |-> f.more]

\* What a reader of the fragment makes of a header: it expects as many objects
\* as the range says.
Readable(h) == h.stop # NoStop /\ Len(h.objects) = h.stop - h.start + 1

Meaning(h) == {<<h.kind, h.start + n - 1, h.objects[n]>> : n \in 1 .. Len(h.objects)}

----------------------------------------------------------------------------
(* Properties.                                                             *)

\* IResponseLoader.h:40, "True if all data was loaded": reading the fragment
\* back gives every point that Load took off the selection, with the value it
\* was selected with; the points that do not fit stay selected for the next
\* fragment, and the result says whether there are any.
LoadedIsWritten ==
  \A room \in Rooms :
    LET r       == LoadLoop(db, room)
        headers == r.headers
        taken   == Loaded(db, room)
    IN  /\ r.maps = Load(db, room)
        /\ r.complete <=> \A k \in Kinds : ~has_any_selection(r.maps[k])
        /\ \A n \in DOMAIN headers : Readable(headers[n])
        /\ UNION {Meaning(headers[n]) : n \in DOMAIN headers}
             = UNION {{<<k, i, db[k].copy[i]>> : i \in taken[k]} : k \in Kinds}

=============================================================================
