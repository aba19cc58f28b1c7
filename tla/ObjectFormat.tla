---------------------------- MODULE ObjectFormat ----------------------------
(***************************************************************************)
(* How object headers are written, with their meaning: the reference for   *)
(* ObjectParser.  A number takes one or two octets, the low one first.     *)
(***************************************************************************)
EXTENDS ObjectParser

Put(n, size) == IF size = 1 THEN <<n>> ELSE <<n % OctetMod, n \div OctetMod>>

\* The octet of a qualifier.
Code(qualifier) == CHOOSE q \in DOMAIN Qualifiers : Qualifiers[q] = qualifier

Header(object, qualifier, body, tells) ==
  [octets |-> <<object, Code(qualifier)>> \o body, valid |-> TRUE, tells |-> tells]

\* Qualifiers with numbers of one and of two octets.
Counted(size) == <<"UINT8_CNT", "UINT16_CNT">>[size]
Ranged(size) == <<"UINT8_START_STOP", "UINT16_START_STOP">>[size]
Prefixed(size) == <<"UINT8_CNT_UINT8_INDEX", "UINT16_CNT_UINT16_INDEX">>[size]
FreeFormat == "UINT8_CNT_UINT16_FREE_FORMAT"

\* Values of width bits each, from the lowest bit of the first octet.
Pack(values, width) ==
  LET each == OctetBits \div width
      octets == (Len(values) + each - 1) \div each
      At(i) == IF i \in DOMAIN values THEN values[i] ELSE 0
      Octet(k) == FoldRight(LAMBDA v, n : v + 2 ^ width * n,
                            [j \in 1 .. each |-> At((k - 1) * each + j)], 0)
  IN [k \in 1 .. octets |-> Octet(k)]

Indexed(start, values) == [i \in DOMAIN values |-> <<start + i - 1, values[i]>>]

AllOf(object) == Header(object, "ALL_OBJECTS", <<>>, <<Tell("all", object, <<>>, <<>>)>>)

CountOf(object, size, values) ==
  Header(object, Counted(size), Put(Len(values), size) \o FlattenSeq(values),
         <<Tell("count", object, <<Len(values)>>, values)>>)

\* A range of values, the octets of which are body.
RangeWith(object, size, start, values, body) ==
  LET stop == start + Len(values) - 1 IN
  Header(object, Ranged(size), Put(start, size) \o Put(stop, size) \o body,
         <<Tell("range", object, <<start, stop>>, Indexed(start, values))>>)

RangeOf(object, size, start, values) ==
  RangeWith(object, size, start, values, FlattenSeq(values))

PackedOf(object, size, start, values, width) ==
  RangeWith(object, size, start, values, Pack(values, width))

\* Values with their indices, <<index, octets>>.
PrefixOf(object, size, values) ==
  Header(object, Prefixed(size),
         Put(Len(values), size)
         \o FlattenSeq([i \in DOMAIN values |-> Put(values[i][1], size) \o values[i][2]]),
         <<Tell("prefix", object, <<Len(values)>>, values)>>)

\* Attributes <<octets, value>> of the sets from start on.
AttributesOf(object, size, start, attributes) ==
  Header(object, Ranged(size),
         Put(start, size) \o Put(start + Len(attributes) - 1, size)
         \o FlattenSeq([i \in DOMAIN attributes |-> attributes[i][1]]),
         [i \in DOMAIN attributes |->
            Tell("attribute", object, <<start + i - 1>>, attributes[i][2])])

\* Objects of any length, each with its length, and what is told of them.
FreeOf(object, objects, tells) ==
  Header(object, FreeFormat,
         <<Len(objects)>>
         \o FlattenSeq([i \in DOMAIN objects |-> Put(Len(objects[i]), 2) \o objects[i]]), tells)

\* A file object, as an octet string at index 0.
FileTell(object, octets) == Tell("range", object, <<0, 0>>, <<<<0, octets>>>>)

AuthOf(object, octets) == FreeOf(object, <<octets>>, <<Tell("free", object, <<1>>, <<octets>>)>>)

\* Headers of a request, which have no contents.
CountOnly(object, size, n) ==
  Header(object, Counted(size), Put(n, size), <<Tell("count", object, <<n>>, <<>>)>>)

FreeCountOnly(object, n) ==
  Header(object, FreeFormat, <<n>>, <<Tell("count", object, <<n>>, <<>>)>>)

RangeOnly(object, size, start, stop) ==
  Header(object, Ranged(size), Put(start, size) \o Put(stop, size),
         <<Tell("range", object, <<start, stop>>, <<>>)>>)

IndicesOf(object, size, indices) ==
  PrefixOf(object, size, [i \in DOMAIN indices |-> <<indices[i], <<>>>>])
=============================================================================
