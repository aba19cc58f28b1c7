----------------------------- MODULE MCObjects -----------------------------
(***************************************************************************)
(* Octets of four bits, an object of every kind the parsers distinguish,   *)
(* and fragments of up to two headers: every kind of header, with numbers  *)
(* of one and two octets, followed by every other and by malformed ones.   *)
(***************************************************************************)
EXTENDS Integers, Sequences

Object(range, count, prefix, free, size) ==
  [range |-> range, count |-> count, prefix |-> prefix, free |-> free, size |-> size]

MCObjectTable ==
  << Object("bits", FALSE, "none", "skip", 0),            \* 1: packed binary
     Object("doubleBits", FALSE, "none", "skip", 0),      \* 2: packed double-bit binary
     Object("fixed", FALSE, "none", "skip", 1),           \* 3: analog
     Object("fixed", FALSE, "fixed", "skip", 2),          \* 4: time and interval
     Object("none", TRUE, "none", "skip", 2),             \* 5: time delay
     Object("octets", FALSE, "none", "skip", 2),          \* 6: octet string
     Object("octets", FALSE, "none", "skip", 0),          \* 7: octet string, variation 0
     Object("none", FALSE, "octets", "skip", 1),          \* 8: octet string event
     Object("none", FALSE, "octets", "skip", 0),          \* 9: the same, variation 0
     Object("attributes", FALSE, "none", "attributes", 0),\* 10: device attribute
     Object("none", FALSE, "none", "octets", 0),          \* 11: file
     Object("none", FALSE, "none", "auth", 1),            \* 12: authentication
     Object("none", FALSE, "none", "otherAuth", 0),       \* 13: one without a parser
     Object("none", FALSE, "none", "skip", 0) >>          \* 14: class data

MCQualifiers ==
  << "ALL_OBJECTS", "UINT8_CNT", "UINT16_CNT", "UINT8_START_STOP", "UINT16_START_STOP",
     "UINT8_CNT_UINT8_INDEX", "UINT16_CNT_UINT16_INDEX", "UINT8_CNT_UINT16_FREE_FORMAT",
     "UINT32_CNT" >>

W == INSTANCE ObjectFormat WITH
  OctetBits <- 4, Objects <- MCObjectTable, Qualifiers <- MCQualifiers, UnsignedCode <- 2

LongFile == [i \in 1 .. 17 |-> i % 16]

Responses ==
  { W!AllOf(14),
    W!CountOf(5, 1, <<<<1, 4>>>>), W!CountOf(5, 2, <<<<1, 4>>, <<3, 0>>>>),
    W!RangeOf(3, 1, 2, <<<<5>>, <<1>>>>), W!RangeOf(3, 2, 15, <<<<6>>, <<1>>>>),
    W!PackedOf(1, 1, 3, <<1, 0, 1, 1, 1>>, 1), W!PackedOf(1, 2, 16, <<0, 1, 1, 0>>, 1),
    W!PackedOf(2, 1, 0, <<3, 1, 2>>, 2), W!PackedOf(2, 1, 14, <<2, 1>>, 2),
    W!RangeOf(6, 1, 0, <<<<1, 1>>, <<3, 4>>>>),
    W!PrefixOf(4, 1, <<<<9, <<1, 2>>>>, <<3, <<1, 1>>>>>>), W!PrefixOf(4, 2, <<<<17, <<1, 2>>>>>>),
    W!PrefixOf(8, 2, <<<<16, <<7>>>>, <<0, <<1>>>>>>),
    W!AttributesOf(10, 1, 13, <<<<<<5, 3, 1, 2, 3>>, <<5, <<1, 2, 3>>>>>>, <<<<2, 2, 1, 2>>, <<2, 33>>>>,
                                <<<<2, 3, 1, 2, 1>>, <<2, 0>>>>>>),
    W!FreeOf(10, <<<<5, 1, 4>>, <<6>>, <<5, 3, 4>>>>,
             <<W!Tell("attribute", 10, <<0>>, <<5, <<4>>>>),
               W!Tell("attribute", 10, <<0>>, W!RawValue(<<6>>)),
               W!Tell("attribute", 10, <<0>>, W!RawValue(<<4>>))>>),
    W!FreeOf(11, <<<<1, 2>>, <<>>>>, <<W!FileTell(11, <<1, 2>>), W!FileTell(11, <<>>)>>),
    W!FreeOf(11, <<LongFile>>, <<W!FileTell(11, SubSeq(LongFile, 1, 15))>>),
    W!FreeOf(11, <<>>, <<>>), W!FreeOf(3, <<<<1, 4, 1>>>>, <<>>),
    W!AuthOf(12, <<3, 4>>) }

\* An unknown object and unknown qualifiers, a count of zero, a range that ends
\* before it starts, objects that do not go with the qualifier, octet strings of
\* variation 0, and authentication objects of a wrong number, kind or size.
MalformedHeaders ==
  [octets : { <<15, 1>>, <<1, 9>>, <<14, 0>>, <<5, 2, 0>>, <<4, 7, 0, 0>>, <<3, 4, 2, 1, 0>>,
              <<3, 2, 1, 5>>, <<14, 4, 0, 0>>, <<3, 6, 1, 0, 5>>, <<7, 4, 0, 0>>, <<9, 6, 1, 0>>,
              <<12, 8, 2, 1, 0, 4>>, <<12, 8, 1, 0, 0>>, <<13, 8, 1, 1, 0, 4>> },
   valid : {FALSE}, tells : {<<>>}]

Requests ==
  { W!AllOf(14), W!CountOnly(4, 1, 3), W!CountOnly(14, 2, 18), W!RangeOnly(3, 1, 2, 5),
    W!RangeOnly(1, 2, 0, 17), W!IndicesOf(3, 1, <<4, 1>>), W!IndicesOf(8, 2, <<16>>),
    W!FreeCountOnly(10, 2), W!AuthOf(12, <<3, 4>>) }

Sent(good, bad) == {<<a>> : a \in good \cup bad} \cup {<<a, b>> : a \in good, b \in good \cup bad}

Delays == {W!CountOf(5, 1, <<<<1, 4>>>>)}

MCFragments ==
  [written : Sent(Responses, MalformedHeaders), contents : {TRUE}, whiteList : {"any"}]
  \cup [written : Sent(Requests, {}), contents : {FALSE}, whiteList : {"any"}]
  \cup [written : Sent(Delays, {W!AllOf(14)}) , contents : {TRUE}, whiteList : {"single"}]
=============================================================================
