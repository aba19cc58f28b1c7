----------------------------- MODULE LinkReader -----------------------------
(***************************************************************************)
(* The receiving side of a channel: octets arrive from the line in pieces  *)
(* of any size up to what the parser has room for, and the connection may  *)
(* fail between any two of them.                                           *)
(***************************************************************************)
EXTENDS LinkParser

CONSTANT Lines     \* what may be on the line

VARIABLES
  line,            \* octets that are still to come
  parser,          \* the LinkLayerParser of the channel
  received,        \* history: octets of this connection
  pushed           \* history: the frames handed to the sink since it opened

vars == <<line, parser, received, pushed>>

Init ==
  /\ line \in Lines
  /\ parser = NewParser
  /\ received = <<>> /\ pushed = <<>>

\* IOHandler::OnReadComplete after n octets, which were read into WriteBuff().
Read(n) ==
  LET octets == SubSeq(line, 1, n)
      r == OnRead(parser, octets)
  IN
  /\ n <= NumWriteBytes(parser) /\ n <= Len(line)
  /\ line' = SubSeq(line, n + 1, Len(line))
  /\ parser' = r.parser
  /\ received' = received \o octets
  /\ pushed' = pushed \o r.frames

\* The connection fails and another one is opened (IOHandler::Reset).
Reopen ==
  /\ received # <<>> /\ line # <<>>
  /\ parser' = Reset(parser)
  /\ received' = <<>> /\ pushed' = <<>>
  /\ UNCHANGED line

\* The line is silent.
Silent == line = <<>> /\ UNCHANGED vars

Next ==
  \/ \E n \in 1 .. Capacity : Read(n)
  \/ Reopen
  \/ Silent

----------------------------------------------------------------------------
(* Properties.                                                             *)

\* The user data in a body: the octets that are not CRCs.
Payload(body, n) == [i \in 1 .. n |-> body[i + (i - 1) \div BlockSize]]

\* Reference: the frames in a sequence of octets.  A valid header claims the
\* octets of its frame; they are a frame if LinkFrame writes just these, and
\* otherwise the search goes on behind the first of them.
RECURSIVE FramesIn(_)
FramesIn(octets) ==
  LET n == DataLength(octets[3])
      size == CalcFrameSize(n)
      data == Payload(SubSeq(octets, HeaderSize + 1, size), n)
      starts == SubSeq(octets, 1, 2) = Start /\ ValidHeader(octets[3])
  IN
  IF Len(octets) < HeaderSize THEN <<>>
  ELSE IF ~starts THEN FramesIn(Tail(octets))
  ELSE IF Len(octets) < size THEN <<>>
  ELSE IF SubSeq(octets, 1, size) = Format(octets[3], data)
       THEN <<[header |-> octets[3], data |-> data]>>
            \o FramesIn(SubSeq(octets, size + 1, Len(octets)))
       ELSE FramesIn(Tail(octets))

\* LinkLayerParser::OnRead: however the stream is cut into reads, and whatever
\* stands between the frames, the sink has got exactly the frames that are in
\* the octets received so far, with their user data, once and in order.  User
\* data is copied over the array that still holds octets to be parsed.  And
\* WriteBuff() is never empty, so that the next read waits for octets instead
\* of ending at once, forever.
FramesExact == pushed = FramesIn(received) /\ NumWriteBytes(parser) > 0
=============================================================================
