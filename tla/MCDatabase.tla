----------------------------- MODULE MCDatabase -----------------------------
(* The static database with a handful of points.  A value is a number and  *)
(* a quality; a binary whose quality is not good cannot be written packed. *)
EXTENDS StaticWriters, TLC

MCValues == [n: {0, 1}, ok: BOOLEAN]
MCDefault == [n |-> 0, ok |-> FALSE]
MCZero(v) == [v EXCEPT !.n = 0]
MCWithFlags(v, f) == [v EXCEPT !.ok = f]
MCPromote(v, s) == IF s = "packed" /\ ~v.ok THEN "flags" ELSE s
MCConfig == [k \in Kinds |-> IF k = "binary" THEN "packed" ELSE "flags"]

\* A gap between the binaries, and a counter that has no frozen counter.
MCIndices == "binary" :> {0, 1, 3} @@ "counter" :> {0, 1} @@ "frozen" :> {1}

MCRanges == {[start |-> 0, stop |-> 1], [start |-> 1, stop |-> 3], [start |-> 1, stop |-> 0]}

Header(k, r, s) == [kind |-> k, all |-> FALSE, range |-> r, var |-> s]
All(k, s) == [kind |-> k, all |-> TRUE, range |-> [start |-> 1, stop |-> 0], var |-> s]

\* Integrity polls, and READs whose second header overlaps the first or leaves
\* a point between them out.
MCReads ==
  {<<All("class0", AsConfigured), NoHeader>>,
   <<Header("binary", [start |-> 1, stop |-> 3], "flags"),
     Header("binary", [start |-> 0, stop |-> 1], AsConfigured)>>,
   <<Header("binary", [start |-> 3, stop |-> 3], AsConfigured),
     Header("binary", [start |-> 0, stop |-> 0], AsConfigured)>>,
   <<Header("counter", [start |-> 0, stop |-> 1], AsConfigured), All("frozen", AsConfigured)>>}

\* Four binaries in a row, as many as IndexMod.
RowIndices == "binary" :> {0, 1, 2, 3} @@ "counter" :> {} @@ "frozen" :> {}
=============================================================================
