----------------------------- MODULE LinkParser -----------------------------
(***************************************************************************)
(* How a stream of octets becomes link frames: LinkLayerParser over a      *)
(* ShiftableBuffer, and the frames that LinkFrame writes.                  *)
(*                                                                         *)
(* A header is the two start octets and one octet that stands for the      *)
(* eight others (length, control, addresses, CRC); Headers says what it    *)
(* holds when its CRC is right, and an octet outside its domain is a       *)
(* header whose CRC is wrong.  A CRC of user data is one octet.            *)
(*                                                                         *)
(* The parser copies user data to the front of the array it receives into  *)
(* (rxBuffer); mem is that array up to the write position, and octets      *)
(* after it are never read.                                                *)
(***************************************************************************)
EXTENDS Integers, Sequences, SequencesExt

CONSTANTS
  Start,          \* the two start octets (0x05, 0x64)
  Headers,        \* octet -> [len, pri, func, fcv, fcb]
  BlockSize,      \* 16: octets of user data in a block
  MaxData,        \* 250: octets of user data in a frame
  CrcMod          \* 2^16

HeaderSize == 3   \* LPDU_HEADER_SIZE
CrcSize == 1      \* LPDU_CRC_SIZE
MinLength == 5    \* LPDU_MIN_LENGTH

----------------------------------------------------------------------------
(* LinkFrame.                                                              *)

\* CRC::CalcCrc: some function of the octets.
CalcCrc(octets) == FoldLeft(LAMBDA crc, o : (crc + o) % CrcMod, 1, octets)

CalcUserDataSize(n) ==
  (n \div BlockSize) * (BlockSize + CrcSize)
  + (IF n % BlockSize > 0 THEN (n % BlockSize) + CrcSize ELSE 0)

CalcFrameSize(n) == HeaderSize + CalcUserDataSize(n)

Num(n) == IF n <= BlockSize THEN n ELSE BlockSize

\* WriteUserData: each block is followed by its CRC.
RECURSIVE WriteUserData(_)
WriteUserData(data) ==
  IF data = <<>> THEN <<>>
  ELSE LET n == Num(Len(data))
           block == SubSeq(data, 1, n)
       IN  block \o <<CalcCrc(block)>> \o WriteUserData(SubSeq(data, n + 1, Len(data)))

\* FormatAck, ..., FormatUnconfirmedUserData.
Format(h, data) == Start \o <<h>> \o WriteUserData(data)

\* ValidateBodyCRC, from position i of mem.
RECURSIVE ValidateBodyCRC(_, _, _)
ValidateBodyCRC(mem, i, n) ==
  n > 0 => LET num == Num(n) IN
             /\ CalcCrc(SubSeq(mem, i, i + num - 1)) = mem[i + num]
             /\ ValidateBodyCRC(mem, i + num + CrcSize, n - num)

\* ReadUserData: the blocks are moved from src to dst in the same array.
RECURSIVE ReadUserData(_, _, _, _)
ReadUserData(mem, src, dst, n) ==
  IF n = 0 THEN mem
  ELSE LET num == Num(n)
           moved == [k \in DOMAIN mem |->
                       IF k \in dst .. dst + num - 1 THEN mem[src + k - dst] ELSE mem[k]]
       IN  ReadUserData(moved, src + num + CrcSize, dst + num, n - num)

----------------------------------------------------------------------------
(* ShiftableBuffer: mem, and the read position (octets before it are used). *)

Capacity == CalcFrameSize(MaxData)          \* LPDU_MAX_FRAME_SIZE
NumBytesRead(p) == Len(p.mem) - p.pos
NumWriteBytes(p) == Capacity - Len(p.mem)
AdvanceRead(p, n) == [p EXCEPT !.pos = @ + n]

Shift(p) == [p EXCEPT !.mem = SubSeq(@, p.pos + 1, Len(@)), !.pos = 0]

\* Positions of the start octets; Sync skips to the first, or else keeps only
\* the last octet.
Hits(p) == {i \in p.pos .. Len(p.mem) - 2 : p.mem[i + 1] = Start[1] /\ p.mem[i + 2] = Start[2]}
First(S) == CHOOSE i \in S : \A j \in S : i <= j
Sync(p) == [p EXCEPT !.pos = IF Hits(p) # {} THEN First(Hits(p)) ELSE Len(p.mem) - 1]

----------------------------------------------------------------------------
(* LinkLayerParser.                                                        *)

NewParser == [state |-> "FindSync", size |-> 0, header |-> 0, mem |-> <<>>, pos |-> 0]

Reset(p) == [NewParser EXCEPT !.header = p.header]

DataLength(h) == Headers[h].len - MinLength
UserData == {"PRI_CONFIRMED_USER_DATA", "PRI_UNCONFIRMED_USER_DATA"}

ValidateFunctionCode(h) ==
  LET f == Headers[h] IN
  IF f.pri
  THEN /\ f.func \in UserData \cup {"PRI_TEST_LINK_STATES", "PRI_REQUEST_LINK_STATUS",
                                     "PRI_RESET_LINK_STATES"}
       /\ f.fcv <=> f.func \in {"PRI_CONFIRMED_USER_DATA", "PRI_TEST_LINK_STATES"}
  ELSE /\ f.func \in {"SEC_ACK", "SEC_NACK", "SEC_LINK_STATUS", "SEC_NOT_SUPPORTED"}
       /\ ~f.fcb

\* ReadHeader and ValidateHeaderParameters.
ValidHeader(h) ==
  /\ h \in DOMAIN Headers
  /\ Headers[h].len > 4
  /\ ValidateFunctionCode(h)
  /\ Headers[h].func \in UserData <=> DataLength(h) > 0

\* Wrong: a frame that is not valid is skipped as a whole.
FailFrameWhole(p) ==
  IF p.state = "ReadBody" THEN AdvanceRead(p, p.size) ELSE AdvanceRead(p, 1)

FailFrame(p) == AdvanceRead(p, 1)

ParseSync(p) ==
  IF NumBytesRead(p) < HeaderSize THEN p
  ELSE [Sync(p) EXCEPT !.state = IF Hits(p) # {} THEN "ReadHeader" ELSE "FindSync"]

ParseHeader(p) ==
  LET h == p.mem[p.pos + HeaderSize] IN
  IF NumBytesRead(p) < HeaderSize THEN p
  ELSE IF ValidHeader(h)
       THEN [p EXCEPT !.header = h, !.size = CalcFrameSize(DataLength(h)), !.state = "ReadBody"]
       ELSE [FailFrame(p) EXCEPT !.header = h, !.state = "FindSync"]

\* ParseBody, with TransferUserData.
ParseBody(p) ==
  LET n == DataLength(p.header)
      body == p.pos + HeaderSize + 1
  IN
  IF NumBytesRead(p) < p.size THEN p
  ELSE IF ValidateBodyCRC(p.mem, body, n)
       THEN [p EXCEPT !.mem = ReadUserData(@, body, 1, n), !.state = "Complete"]
       ELSE [FailFrame(p) EXCEPT !.state = "FindSync"]

ParseOneStep(p) ==
  CASE p.state = "FindSync"   -> ParseSync(p)
    [] p.state = "ReadHeader" -> ParseHeader(p)
    [] p.state = "ReadBody"   -> ParseBody(p)
    [] OTHER                  -> p

RECURSIVE ParseUntilComplete(_)
ParseUntilComplete(p) ==
  LET q == ParseOneStep(p) IN IF q.state = p.state THEN q ELSE ParseUntilComplete(q)

\* What PushFrame hands to the sink.
Frame(p) == [header |-> p.header, data |-> SubSeq(p.mem, 1, DataLength(p.header))]

\* The loop of OnRead.
RECURSIVE ParseAll(_, _)
ParseAll(p, frames) ==
  LET q == ParseUntilComplete(p) IN
  IF q.state # "Complete" THEN [parser |-> q, frames |-> frames]
  ELSE ParseAll([AdvanceRead(q, q.size) EXCEPT !.state = "FindSync"], Append(frames, Frame(q)))

OnRead(p, octets) ==
  LET r == ParseAll([p EXCEPT !.mem = @ \o octets], <<>>) IN
  [r EXCEPT !.parser = Shift(@)]
=============================================================================
