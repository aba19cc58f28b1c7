---------------------------- MODULE ObjectParser ----------------------------
(***************************************************************************)
(* APDUParser: the object headers behind the function code of a fragment.  *)
(*                                                                         *)
(* An octet has OctetBits bits.  Group and variation are one octet, so a   *)
(* header is that octet and the qualifier.  What the parsers distinguish   *)
(* about an object is in Objects[g]:                                       *)
(*   range   how RangeParser reads it: "bits", "doubleBits", "fixed",      *)
(*           "octets", "attributes" or "none";                             *)
(*   count   whether CountParser reads it;                                 *)
(*   prefix  how CountIndexParser reads it: "fixed", "octets" or "none";   *)
(*   free    how FreeFormatParser reads it: "attributes", "octets", "auth",*)
(*           "otherAuth" or "skip";                                        *)
(*   size    octets of a value, the variation of an octet string, or the   *)
(*           least size of an authentication object.                       *)
(*                                                                         *)
(* Every operator below takes the octets that are left and yields a record *)
(* [result, rest, tells], where tells are the calls of an IAPDUHandler, if *)
(* there is one, made before the result was known.                         *)
(***************************************************************************)
EXTENDS Integers, Sequences, SequencesExt, FiniteSetsExt

CONSTANTS
  OctetBits,
  Objects,         \* the known objects, a function on octets
  Qualifiers,      \* the known qualifiers, a function on octets
  UnsignedCode     \* the type code of attributes that are integers

OctetMod == 2 ^ OctetBits

Take(s, n) == SubSeq(s, 1, n)
Skip(s, n) == SubSeq(s, n + 1, Len(s))

Ok(rest, tells) == [result |-> "OK", rest |-> rest, tells |-> tells]
Bad(result) == [result |-> result, rest |-> <<>>, tells |-> <<>>]

\* A call of OnHeader or, for kind "attribute", of OnDeviceAttribute.
Tell(kind, object, numbers, values) ==
  [kind |-> kind, object |-> object, numbers |-> numbers, values |-> values]

\* A turn of a loop over objects behind the turns before, unless one failed.
Then(before, turn) ==
  IF before.result # "OK" THEN before ELSE [turn EXCEPT !.tells = before.tells \o @]

----------------------------------------------------------------------------
(* Numbers and packed values.                                              *)

Number(octets) == FoldRight(LAMBDA octet, n : octet + OctetMod * n, octets, 0)

\* NumParser::ParseCount and ParseRange, for numbers of size octets.
ParseCount(s, size) ==
  LET count == Number(Take(s, size))
      result == IF Len(s) < size THEN "NOT_ENOUGH_DATA_FOR_RANGE"
                ELSE IF count = 0 THEN "COUNT_OF_ZERO" ELSE "OK"
  IN [result |-> result, count |-> IF result = "OK" THEN count ELSE 0]

ParseRange(s, size) ==
  LET start == Number(Take(s, size))
      stop == Number(SubSeq(s, size + 1, 2 * size))
      result == IF Len(s) < 2 * size THEN "NOT_ENOUGH_DATA_FOR_RANGE"
                ELSE IF start > stop THEN "BAD_START_STOP" ELSE "OK"
  IN [result |-> result, range |-> IF result = "OK" THEN <<start, stop>> ELSE <<1, 0>>]

NumBytesInBits(n) == (n \div OctetBits) + IF n % OctetBits = 0 THEN 0 ELSE 1

GetBit(s, pos) == (s[1 + pos \div OctetBits] \div 2 ^ (pos % OctetBits)) % 2

NumBytesInDoubleBits(n) ==
  (n \div (OctetBits \div 2)) + IF n % (OctetBits \div 2) = 0 THEN 0 ELSE 1

GetDoubleBit(s, index) ==
  LET each == OctetBits \div 2 IN
  (s[1 + index \div each] \div 4 ^ (index % each)) % 4

\* Process of the three parsers: all octets of the objects have to be there.
Process(s, required, tell) ==
  IF Len(s) < required THEN Bad("NOT_ENOUGH_DATA_FOR_OBJECTS")
  ELSE Ok(Skip(s, required), <<tell>>)

----------------------------------------------------------------------------
(* Device attributes: a type code, a length and as many octets.            *)

\* The value of an attribute: octets, or an integer, which is 0 if its length
\* is none of the supported ones.  Signed integers, floats and times go the way
\* of the unsigned integers, and the other types the way of octet strings.
AttributeValue(code, payload) ==
  IF code # UnsignedCode THEN <<code, payload>>
  ELSE <<code, IF Len(payload) \in {1, 2, 4} THEN Number(payload) ELSE 0>>

\* The value of one that cannot be decoded is an octet string.
RawValue(octets) == <<"raw", octets>>

\* RangeParser::ParseRangeOfDeviceAttributes; the set is cut to an octet.
ParseRangeOfDeviceAttributes(s, object, start, count) ==
  LET Attribute(rest, i) ==
        IF Len(rest) < 2 THEN Bad("NOT_ENOUGH_DATA_FOR_OBJECTS")
        ELSE IF Len(rest) < 2 + rest[2] THEN Bad("NOT_ENOUGH_DATA_FOR_OBJECTS")
        ELSE Ok(Skip(rest, 2 + rest[2]),
                <<Tell("attribute", object, <<(start + i - 1) % OctetMod>>,
                       AttributeValue(rest[1], SubSeq(rest, 3, 2 + rest[2])))>>)
  IN FoldLeft(LAMBDA r, i : Then(r, Attribute(r.rest, i)), Ok(s, <<>>), [i \in 1 .. count |-> i])

\* FreeFormatParser::DeliverDeviceAttribute; a type code without its payload
\* is dropped with the length.
DeliverDeviceAttribute(object, data) ==
  Tell("attribute", object, <<0>>,
       IF Len(data) < 2 THEN RawValue(data)
       ELSE IF Len(data) - 2 < data[2] THEN RawValue(Skip(data, 2))
       ELSE AttributeValue(data[1], SubSeq(data, 3, 2 + data[2])))

----------------------------------------------------------------------------
(* The parsers of the qualifiers.                                          *)

\* CountParser::ParseCountOfObjects.
ParseCountOfObjects(s, object, count) ==
  LET each == Objects[object].size
      values == [i \in 1 .. count |-> SubSeq(s, (i - 1) * each + 1, i * each)]
  IN
  IF ~Objects[object].count THEN Bad("INVALID_OBJECT_QUALIFIER")
  ELSE Process(s, count * each, Tell("count", object, <<count>>, values))

\* CountParser::ParseHeader.
ParseCountHeader(s, size, contents, object) ==
  LET num == ParseCount(s, size)
      rest == Skip(s, size)
  IN
  IF num.result # "OK" THEN Bad(num.result)
  ELSE IF contents THEN ParseCountOfObjects(rest, object, num.count)
  ELSE Ok(rest, <<Tell("count", object, <<num.count>>, <<>>)>>)

\* RangeParser::InvokeRangeOf and its variants: the value at a position.
RangeValue(s, object, pos) ==
  LET each == Objects[object].size IN
  CASE Objects[object].range = "bits" -> GetBit(s, pos)
    [] Objects[object].range = "doubleBits" -> GetDoubleBit(s, pos)
    [] Objects[object].range \in {"fixed", "octets"} -> SubSeq(s, pos * each + 1, (pos + 1) * each)

RangeSize(object, count) ==
  CASE Objects[object].range = "bits" -> NumBytesInBits(count)
    [] Objects[object].range = "doubleBits" -> NumBytesInDoubleBits(count)
    [] Objects[object].range \in {"fixed", "octets"} -> count * Objects[object].size

ProcessRange(s, object, start, stop) ==
  Process(s, RangeSize(object, stop - start + 1),
          Tell("range", object, <<start, stop>>,
               [i \in 1 .. stop - start + 1 |-> <<start + i - 1, RangeValue(s, object, i - 1)>>]))

ParseRangeOfOctetData(s, object, start, stop) ==
  IF Objects[object].size > 0 THEN ProcessRange(s, object, start, stop) ELSE Bad("INVALID_OBJECT")

ParseRangeOfObjects(s, object, start, stop) ==
  CASE Objects[object].range \in {"bits", "doubleBits", "fixed"} ->
         ProcessRange(s, object, start, stop)
    [] Objects[object].range = "octets" -> ParseRangeOfOctetData(s, object, start, stop)
    [] Objects[object].range = "attributes" ->
         ParseRangeOfDeviceAttributes(s, object, start, stop - start + 1)
    [] Objects[object].range = "none" -> Bad("INVALID_OBJECT_QUALIFIER")

\* RangeParser::ParseHeader.
ParseRangeHeader(s, size, contents, object) ==
  LET num == ParseRange(s, size)
      rest == Skip(s, 2 * size)
  IN
  IF num.result # "OK" THEN Bad(num.result)
  ELSE IF contents THEN ParseRangeOfObjects(rest, object, num.range[1], num.range[2])
  ELSE Ok(rest, <<Tell("range", object, num.range, <<>>)>>)

\* CountIndexParser::InvokeCountOf: indices of size octets, each with a value.
ProcessPrefixed(s, size, value, object, count) ==
  LET At(i) == (i - 1) * (size + value) IN
  Process(s, count * (size + value),
          Tell("prefix", object, <<count>>,
               [i \in 1 .. count |-> <<Number(SubSeq(s, At(i) + 1, At(i) + size)),
                                       SubSeq(s, At(i) + size + 1, At(i + 1))>>]))

ParseCountOfIndices(s, size, object, count) == ProcessPrefixed(s, size, 0, object, count)

ParseIndexPrefixedOctetData(s, size, object, count) ==
  IF Objects[object].size = 0 THEN Bad("INVALID_OBJECT")
  ELSE ProcessPrefixed(s, size, Objects[object].size, object, count)

\* CountIndexParser::ParseCountOfObjects.
ParsePrefixedObjects(s, size, object, count) ==
  CASE Objects[object].prefix = "fixed" ->
         ProcessPrefixed(s, size, Objects[object].size, object, count)
    [] Objects[object].prefix = "octets" -> ParseIndexPrefixedOctetData(s, size, object, count)
    [] Objects[object].prefix = "none" -> Bad("INVALID_OBJECT_QUALIFIER")

\* CountIndexParser::ParseHeader.
ParsePrefixHeader(s, size, contents, object) ==
  LET num == ParseCount(s, size)
      rest == Skip(s, size)
  IN
  IF num.result # "OK" THEN Bad(num.result)
  ELSE IF contents THEN ParsePrefixedObjects(rest, size, object, num.count)
  ELSE ParseCountOfIndices(rest, size, object, num.count)

\* FreeFormatParser::ParseGroup120: one object, with its size in two octets.
ParseGroup120(s, object) ==
  LET size == Number(SubSeq(s, 2, 3))
      data == SubSeq(s, 4, 3 + size)
  IN
  IF Len(s) < 3 THEN Bad("NOT_ENOUGH_DATA_FOR_HEADER")
  ELSE IF s[1] # 1 THEN Bad("UNREASONABLE_OBJECT_COUNT")
  ELSE IF Len(s) - 3 < size THEN Bad("NOT_ENOUGH_DATA_FOR_OBJECTS")
  ELSE IF Objects[object].free = "otherAuth" THEN Bad("INVALID_OBJECT_QUALIFIER")
  ELSE IF size < Objects[object].size THEN Bad("NOT_ENOUGH_DATA_FOR_OBJECTS")
  ELSE Ok(Skip(s, 3 + size), <<Tell("free", object, <<1>>, <<data>>)>>)

\* FreeFormatParser::DeliverOctetString, cut to the longest octet string.
DeliverOctetString(object, data) ==
  Tell("range", object, <<0, 0>>, <<<<0, Take(data, Min({Len(data), OctetMod - 1}))>>>>)

\* ParseFreeFormatObjects, ParseGroup70Objects and ParseDataSetObjects of
\* FreeFormatParser: every object behind a length of two octets.  Those of an
\* unsupported group are skipped.
ParseFreeFormatObjects(s, object, count) ==
  LET Delivered(data) ==
        CASE Objects[object].free = "attributes" -> <<DeliverDeviceAttribute(object, data)>>
          [] Objects[object].free = "octets" -> <<DeliverOctetString(object, data)>>
          [] Objects[object].free = "skip" -> <<>>
      Object(rest) ==
        LET size == Number(Take(rest, 2)) IN
        IF Len(rest) < 2 THEN Bad("NOT_ENOUGH_DATA_FOR_OBJECTS")
        ELSE IF Len(rest) - 2 < size THEN Bad("NOT_ENOUGH_DATA_FOR_OBJECTS")
        ELSE Ok(Skip(rest, 2 + size), Delivered(SubSeq(rest, 3, 2 + size)))
  IN FoldLeft(LAMBDA r, i : Then(r, Object(r.rest)), Ok(s, <<>>), [i \in 1 .. count |-> i])

\* FreeFormatParser::ParseHeader.
ParseFreeFormatHeader(s, contents, object) ==
  IF Objects[object].free \in {"auth", "otherAuth"} THEN ParseGroup120(s, object)
  ELSE IF Len(s) < 1 THEN Bad("NOT_ENOUGH_DATA_FOR_HEADER")
  ELSE IF contents THEN ParseFreeFormatObjects(Skip(s, 1), object, s[1])
  ELSE Ok(Skip(s, 1), <<Tell("count", object, <<s[1]>>, <<>>)>>)

\* APDUParser::ParseQualifier.
ParseQualifier(s, contents, object, qualifier) ==
  CASE qualifier = "ALL_OBJECTS" -> Ok(s, <<Tell("all", object, <<>>, <<>>)>>)
    [] qualifier = "UINT8_CNT" -> ParseCountHeader(s, 1, contents, object)
    [] qualifier = "UINT16_CNT" -> ParseCountHeader(s, 2, contents, object)
    [] qualifier = "UINT8_START_STOP" -> ParseRangeHeader(s, 1, contents, object)
    [] qualifier = "UINT16_START_STOP" -> ParseRangeHeader(s, 2, contents, object)
    [] qualifier = "UINT8_CNT_UINT8_INDEX" -> ParsePrefixHeader(s, 1, contents, object)
    [] qualifier = "UINT16_CNT_UINT16_INDEX" -> ParsePrefixHeader(s, 2, contents, object)
    [] qualifier = "UINT8_CNT_UINT16_FREE_FORMAT" -> ParseFreeFormatHeader(s, contents, object)
    [] OTHER -> Bad("UNKNOWN_QUALIFIER")

\* QualifierCodeSpec::from_type.
QualifierCode(octet) == IF octet \in DOMAIN Qualifiers THEN Qualifiers[octet] ELSE "UNDEFINED"

\* APDUParser::ParseHeader; allowed are the objects on the white list.
ParseHeader(s, contents, allowed) ==
  IF Len(s) < 2 THEN Bad("NOT_ENOUGH_DATA_FOR_HEADER")
  ELSE IF s[1] \notin DOMAIN Objects THEN Bad("UNKNOWN_OBJECT")
  ELSE IF s[1] \notin allowed THEN Bad("NOT_ON_WHITELIST")
  ELSE ParseQualifier(Skip(s, 2), contents, s[1], QualifierCode(s[2]))
=============================================================================
