------------------------------ MODULE MCStack ------------------------------
(***************************************************************************)
(* The layers below the application: either a station with segments of two *)
(* octets, fragments of one and two segments, one of them too long for the *)
(* peer, and three sequence numbers; or the parser of a channel with       *)
(* blocks of two octets and frames of up to two blocks; or the parser of   *)
(* the objects in a fragment.                                              *)
(***************************************************************************)
EXTENDS Stack, MCObjects

VARIABLES
  part,
  line, parser, received, pushed,      \* the variables of LinkReader
  fragment, input, parse, handler      \* the variables of ObjectReader

reader == <<line, parser, received, pushed>>
objects == <<fragment, input, parse, handler>>
all == <<vars, part, reader, objects>>

StationFrame(func, fcb, broadcast) == [func |-> func, fcb |-> fcb, broadcast |-> broadcast]

PlainFrames ==
  {StationFrame(func, FALSE, FALSE) : func \in {"ACK", "LINK_STATUS", "RESET_LINK_STATES",
                                         "REQUEST_LINK_STATUS", "UNCONFIRMED_USER_DATA"}}
  \cup {StationFrame(func, fcb, FALSE) : func \in {"TEST_LINK_STATES", "CONFIRMED_USER_DATA"},
                                         fcb \in BOOLEAN}
  \cup {StationFrame("RESET_LINK_STATES", FALSE, TRUE)}

BroadcastFrames == PlainFrames \cup {StationFrame("CONFIRMED_USER_DATA", TRUE, TRUE)}

----------------------------------------------------------------------------
(* The parser: headers 1, 2 and 3 are valid, the others are rejected for    *)
(* one reason each, and any other octet is a header with a wrong CRC.       *)

Header(len, pri, func, fcv, fcb) ==
  [len |-> len, pri |-> pri, func |-> func, fcv |-> fcv, fcb |-> fcb]

MCHeaders ==
  <<Header(5, FALSE, "SEC_ACK", FALSE, FALSE),
    Header(6, TRUE, "PRI_UNCONFIRMED_USER_DATA", FALSE, FALSE),
    Header(8, TRUE, "PRI_CONFIRMED_USER_DATA", TRUE, TRUE),
    Header(4, FALSE, "SEC_ACK", FALSE, FALSE),
    Header(6, FALSE, "SEC_ACK", FALSE, FALSE),
    Header(5, TRUE, "PRI_UNCONFIRMED_USER_DATA", FALSE, FALSE),
    Header(6, TRUE, "PRI_UNCONFIRMED_USER_DATA", TRUE, FALSE),
    Header(5, FALSE, "SEC_ACK", FALSE, TRUE),
    Header(5, FALSE, "INVALID", FALSE, FALSE)>>

F == INSTANCE LinkParser WITH
  Start <- <<10, 11>>, Headers <- MCHeaders, BlockSize <- 2, MaxData <- 3, CrcMod <- 12

\* Frames, one of them with a frame in its user data; frames that are cut off,
\* rejected, or broken with a frame inside; and octets between frames.
Whole == {F!Format(1, <<>>), F!Format(2, <<10>>), F!Format(3, <<10, 11, 1>>), F!Format(3, <<4, 5, 10>>)}

Pieces ==
  Whole \cup {F!Format(h, <<>>) : h \in 4 .. 9}
        \cup {SubSeq(F!Format(3, <<4, 10, 5>>), 1, n) : n \in {1, 2, 3, 5}}
        \cup {<<10, 10>>, <<11>>, <<10, 11, 3, 10, 11, 1, 10, 11>>}

MCLines ==
  Pieces \cup {a \o b : a \in Pieces, b \in Pieces}
         \cup {a \o b \o c : a \in Pieces, b \in Pieces, c \in Whole}

R == INSTANCE LinkReader WITH
  Start <- <<10, 11>>, Headers <- MCHeaders, BlockSize <- 2, MaxData <- 3, CrcMod <- 12,
  Lines <- MCLines

O == INSTANCE ObjectReader WITH
  OctetBits <- 4, Objects <- MCObjectTable, Qualifiers <- MCQualifiers, UnsignedCode <- 2,
  Fragments <- MCFragments, Supported <- {1, 3, 4, 5, 8}, SingleObject <- 5

----------------------------------------------------------------------------
(* A behaviour is one of the station or one of a parser.                   *)

NoReader == parser = F!NewParser /\ line = <<>> /\ received = <<>> /\ pushed = <<>>
NoObjects == fragment = <<>> /\ input = <<>> /\ parse = <<>> /\ handler = <<>>

MCInit ==
  /\ Init
  /\ \/ part = "station" /\ NoReader /\ NoObjects
     \/ part = "parser" /\ R!Init /\ NoObjects
     \/ part = "objects" /\ O!Init /\ NoReader

MCNext ==
  \/ part = "station" /\ Next /\ UNCHANGED <<part, reader, objects>>
  \/ part = "parser" /\ R!Next /\ UNCHANGED <<part, vars, objects>>
  \/ part = "objects" /\ O!Next /\ UNCHANGED <<part, vars, reader>>

MCSpec == MCInit /\ [][MCNext]_all
FairSpec == MCSpec /\ Fairness

\* However the stream is cut into reads, LinkLayerParser has handed on exactly
\* the frames in the octets received so far, with their user data, in order,
\* and has room for the next read.
FramesExact == R!FramesExact

\* APDUParser tells a handler every header of a fragment, or nothing at all.
AllOrNothing == part = "objects" => O!AllOrNothing
=============================================================================
