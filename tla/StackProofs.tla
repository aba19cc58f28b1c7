---------------------------- MODULE StackProofs ----------------------------
(***************************************************************************)
(* A station that keeps up with its line never formats a buffer that is    *)
(* being written, never waits without a reason, and reports a fragment as  *)
(* sent when it was, for fragments of any length and any frames.           *)
(*                                                                         *)
(* The inductive invariant is IInv: what is known of a station (Station),  *)
(* that it has started what it can (Started), and what has been on the     *)
(* line of the fragment it sends (SentOk, WrittenOk).  A callback of the   *)
(* link layer is a chain of operators that ends in TryStartTransmission;   *)
(* the lemmas follow the chain and are about any station.                  *)
(***************************************************************************)
EXTENDS Stack, SequenceTheorems, FiniteSetTheorems, TLAPS

Octets == Nat \X Nat
Segments == [fir : BOOLEAN, fin : BOOLEAN, seq : Nat, payload : Seq(Octets)]

TxType == [message : Seq(Octets), count : Nat, seq : Nat, segment : Segments \cup {None}]

\* The segment that was made is the one at the front.
TxOk(t) == t \in TxType /\ t.segment \in {None, Front(t)}

Request == Control("REQUEST_LINK_STATUS")
Answers == {Control("ACK"), Control("LINK_STATUS")}
FrameSet == {None, Request} \cup Answers \cup {Data(g) : g \in Segments}

StationType ==
  [online : BOOLEAN, keepAlive : BOOLEAN, segments : BOOLEAN,
   mode : {"Idle", "Primary", "Secondary"}, pendingPri : BOOLEAN, pendingSec : BOOLEAN,
   priBuffer : FrameSet, secBuffer : FrameSet, line : FrameSet,
   pri : {"Idle", "RequestLinkStatusWait", "SendUnconfirmedTransmitWait"},
   sec : {"NotReset", "Reset", "TransmitWaitReset", "TransmitWaitNotReset"},
   fcb : BOOLEAN, timer : BOOLEAN, callback : BOOLEAN, posted : Nat, sending : BOOLEAN,
   tx : TxType]

\* A frame of a role is being written, or waits for the line.
PriBusy(x) == x.mode = "Primary" \/ x.pendingPri
SecBusy(x) == x.mode = "Secondary" \/ x.pendingSec

\* The line has the frame of its role, which does not wait as well.
LineOk(x) ==
  /\ x.mode = "Idle" => ~x.pendingPri /\ ~x.pendingSec
  /\ x.mode = "Primary" => x.line = x.priBuffer /\ ~x.pendingPri
  /\ x.mode = "Secondary" => x.line = x.secBuffer /\ ~x.pendingSec

\* SecondaryWaitsForSomething, of any station.
Waiting(x) == x.sec \in SecWaits => SecBusy(x)

\* A frame of the secondary station is an answer it waits for.
SecOk(x) == SecBusy(x) => x.sec \in SecWaits /\ x.secBuffer \in Answers

\* A frame of the primary station is what its state says.
PriOk(x) ==
  /\ x.pri = "Idle" => ~PriBusy(x)
  /\ x.pri = "RequestLinkStatusWait" => x.priBuffer = Request
  /\ x.pri = "SendUnconfirmedTransmitWait" =>
       PriBusy(x) /\ x.segments /\ x.priBuffer = Data(Front(x.tx))

\* The transport layer is sending until the call that says it is done, and a
\* station that is offline does nothing.
SendOk(x) ==
  /\ x.segments => x.sending /\ x.posted = 0
  /\ x.posted <= 1
  /\ x.posted = 1 /\ x.online => x.sending
  /\ ~x.online => /\ ~x.keepAlive /\ ~x.segments /\ x.mode = "Idle" /\ ~x.sending
                  /\ x.pri = "Idle" /\ x.sec = "NotReset"

Station(x) == x \in StationType /\ TxOk(x.tx) /\ LineOk(x) /\ SecOk(x) /\ PriOk(x) /\ SendOk(x)

\* A segment takes at least one octet of what is left, if there is one.
LEMMA FrontType ==
  ASSUME NEW t \in TxType
  PROVE  /\ Front(t) \in Segments
         /\ Lesser(Len(t.message), MaxPayload) \in 0 .. Len(t.message)
         /\ t.message # <<>> => Lesser(Len(t.message), MaxPayload) # 0
<1> DEFINE m == t.message
           n == Lesser(Len(m), MaxPayload)
<1>1. m \in Seq(Octets) /\ Len(m) \in Nat /\ n \in 0 .. Len(m) /\ (m # <<>> => n # 0)
  BY MaxPayloadPositive DEF TxType, Lesser
<1>2. SubSeq(m, 1, n) \in Seq(Octets)
  BY <1>1, SubSeqProperties
<1>3. t.count \in Nat /\ t.seq \in Nat
  BY DEF TxType
<1> QED BY <1>1, <1>2, <1>3 DEF Front, Segments

\* A segment that is made ahead is the one at the front.
LEMMA Segmenting ==
  ASSUME NEW t, TxOk(t)
  PROVE  LET u == Segmented(t) IN
         /\ TxOk(u) /\ u.segment = Front(u) /\ Front(u) = Front(t)
         /\ u.message = t.message
<1>1. t \in TxType /\ GetSegment(t) = Front(t) /\ Front(t) \in Segments
  BY FrontType DEF TxOk, GetSegment
<1>2. Segmented(t) = [t EXCEPT !.segment = Front(t)]
  BY <1>1 DEF Segmented
<1>3. Segmented(t) \in TxType /\ Segmented(t).segment = Front(t) /\ Segmented(t).message = t.message
      /\ Segmented(t).count = t.count /\ Segmented(t).seq = t.seq
  BY <1>1, <1>2 DEF TxType
<1>4. Front(Segmented(t)) = Front(t)
  BY <1>3 DEF Front
<1> QED BY <1>3, <1>4 DEF TxOk

\* Advance drops the segment that was made.
LEMMA Advancing ==
  ASSUME NEW t, TxOk(t)
  PROVE  TxOk(Advance(t))
<1> DEFINE m == t.message
           n == Lesser(Len(m), MaxPayload)
<1>1. t \in TxType /\ n \in 0 .. Len(m) /\ m \in Seq(Octets) /\ Len(m) \in Nat
  BY FrontType DEF TxOk, TxType
<1>2. SubSeq(m, n + 1, Len(m)) \in Seq(Octets)
  BY <1>1, SubSeqProperties
<1>3. t.count + 1 \in Nat /\ (t.seq + 1) % SeqMod \in Nat
  BY <1>1, SeqModPositive DEF TxType
<1> QED BY <1>1, <1>2, <1>3, ZenonT(30) DEF Advance, TxOk, TxType

\* A new message replaces what was left of the last one.
LEMMA Configuring ==
  ASSUME NEW t, TxOk(t), NEW m \in Seq(Octets)
  PROVE  TxOk(Configure(t, m)) /\ Configure(t, m).message = m
BY ZenonT(30) DEF TxOk, TxType, Configure

USE DEF SecWaits

----------------------------------------------------------------------------
(* Sending.                                                                *)

\* From x to y only the line and what waits for it has changed.
SameButLine(x, y) ==
  /\ y \in StationType
  /\ y.online = x.online /\ y.keepAlive = x.keepAlive /\ y.segments = x.segments
  /\ y.priBuffer = x.priBuffer /\ y.secBuffer = x.secBuffer
  /\ y.pri = x.pri /\ y.sec = x.sec /\ y.fcb = x.fcb /\ y.timer = x.timer
  /\ y.callback = x.callback /\ y.posted = x.posted /\ y.sending = x.sending /\ y.tx = x.tx

\* A frame is queued for a role that has none.
LEMMA Queueing ==
  ASSUME NEW x \in StationType, LineOk(x)
  PROVE  /\ ~PriBusy(x) =>
              LET y == QueueTransmit(x, "Primary") IN
              SameButLine(x, y) /\ LineOk(y) /\ PriBusy(y) /\ (SecBusy(y) <=> SecBusy(x)) /\ y.mode # "Idle"
         /\ ~SecBusy(x) =>
              LET y == QueueTransmit(x, "Secondary") IN
              SameButLine(x, y) /\ LineOk(y) /\ SecBusy(y) /\ (PriBusy(y) <=> PriBusy(x)) /\ y.mode # "Idle"
<1>1. CASE x.mode = "Idle"
  <2> DEFINE p == [x EXCEPT !.mode = "Primary", !.line = x.priBuffer]
             q == [x EXCEPT !.mode = "Secondary", !.line = x.secBuffer]
  <2>1. QueueTransmit(x, "Primary") = p /\ QueueTransmit(x, "Secondary") = q
    BY <1>1 DEF QueueTransmit, Buffer, StationType
  <2>2. SameButLine(x, p) /\ p.mode = "Primary" /\ p.line = p.priBuffer
        /\ p.pendingPri = x.pendingPri /\ p.pendingSec = x.pendingSec
    BY ZenonT(30) DEF StationType, SameButLine
  <2>3. SameButLine(x, q) /\ q.mode = "Secondary" /\ q.line = q.secBuffer
        /\ q.pendingPri = x.pendingPri /\ q.pendingSec = x.pendingSec
    BY ZenonT(30) DEF StationType, SameButLine
  <2>4. ~x.pendingPri /\ ~x.pendingSec
    BY <1>1 DEF LineOk
  <2> HIDE DEF p, q
  <2> QED BY <1>1, <2>1, <2>2, <2>3, <2>4 DEF LineOk, PriBusy, SecBusy
<1>2. CASE x.mode # "Idle"
  <2> DEFINE p == [x EXCEPT !.pendingPri = TRUE]
             q == [x EXCEPT !.pendingSec = TRUE]
  <2>1. QueueTransmit(x, "Primary") = p /\ QueueTransmit(x, "Secondary") = q
    BY <1>2 DEF QueueTransmit
  <2>2. SameButLine(x, p) /\ p.mode = x.mode /\ p.line = x.line
        /\ p.pendingPri /\ p.pendingSec = x.pendingSec
    BY ZenonT(30) DEF StationType, SameButLine
  <2>3. SameButLine(x, q) /\ q.mode = x.mode /\ q.line = x.line
        /\ q.pendingPri = x.pendingPri /\ q.pendingSec
    BY ZenonT(30) DEF StationType, SameButLine
  <2> HIDE DEF p, q
  <2> QED BY <1>2, <2>1, <2>2, <2>3 DEF LineOk, PriBusy, SecBusy, SameButLine
<1> QED BY <1>1, <1>2

\* What a station is when no frame of its primary role is under way.
Resting(x) ==
  /\ x \in StationType /\ TxOk(x.tx) /\ LineOk(x) /\ SecOk(x) /\ SendOk(x) /\ ~PriBusy(x)

\* The primary station is free and has segments: it sends the next one.
LEMMA SegmentQueued ==
  ASSUME NEW x, Resting(x), x.segments, x.online
  PROVE  LET y == QueueSegment(x)
             z == [y EXCEPT !.pri = "SendUnconfirmedTransmitWait"] IN
         /\ Station(z) /\ z.keepAlive = x.keepAlive /\ z.tx.message = x.tx.message
         /\ y \in StationType /\ y.pri = x.pri /\ z.posted = x.posted /\ z.segments
         /\ Waiting(x) => Waiting(z)
<1> DEFINE t == Segmented(x.tx)
           w == [x EXCEPT !.tx = t, !.priBuffer = Data(t.segment)]
           y == QueueTransmit(w, "Primary")
           z == [y EXCEPT !.pri = "SendUnconfirmedTransmitWait"]
<1>1. TxOk(t) /\ t.segment = Front(t) /\ t \in TxType /\ Data(t.segment) \in FrameSet
      /\ t.message = x.tx.message
  BY Segmenting, FrontType DEF Resting, TxOk, FrameSet
<1>2. QueueSegment(x) = y
  BY DEF QueueSegment
<1> HIDE DEF t
<1>3. /\ w \in StationType /\ w.tx = t /\ w.priBuffer = Data(t.segment) /\ w.online = x.online
      /\ w.keepAlive = x.keepAlive /\ w.segments = x.segments /\ w.secBuffer = x.secBuffer
      /\ w.pri = x.pri /\ w.sec = x.sec /\ w.posted = x.posted /\ w.sending = x.sending
      /\ w.mode = x.mode /\ w.line = x.line
      /\ w.pendingPri = x.pendingPri /\ w.pendingSec = x.pendingSec
  BY <1>1, ZenonT(30) DEF Resting, StationType
<1>4. LineOk(w) /\ ~PriBusy(w) /\ (SecBusy(w) <=> SecBusy(x))
  BY <1>3 DEF LineOk, Resting, PriBusy, SecBusy
<1>5. SameButLine(w, y) /\ LineOk(y) /\ PriBusy(y) /\ (SecBusy(y) <=> SecBusy(w)) /\ y.mode # "Idle"
  BY <1>3, <1>4, Queueing
<1> HIDE DEF w, y
<1>6. z \in StationType /\ LineOk(z) /\ PriBusy(z) /\ (SecBusy(z) <=> SecBusy(y))
  BY <1>5 DEF SameButLine, StationType, LineOk, PriBusy, SecBusy
<1>7. /\ z.tx = t /\ z.priBuffer = Data(t.segment) /\ z.online = x.online /\ z.pri = "SendUnconfirmedTransmitWait"
      /\ z.keepAlive = x.keepAlive /\ z.segments = x.segments /\ z.secBuffer = x.secBuffer
      /\ z.sec = x.sec /\ z.posted = x.posted /\ z.sending = x.sending /\ y.pri = x.pri
  BY <1>3, <1>5, ZenonT(40) DEF SameButLine, StationType
<1>8. SecOk(z) /\ PriOk(z) /\ SendOk(z)
  BY <1>1, <1>3, <1>4, <1>5, <1>6, <1>7, ZenonT(30) DEF SecOk, PriOk, SendOk, Resting
<1>9. Waiting(x) => Waiting(z)
  BY <1>4, <1>5, <1>6, <1>7 DEF Waiting
<1> QED BY <1>1, <1>2, <1>5, <1>6, <1>7, <1>8, <1>9, ZenonT(30) DEF Station, SameButLine

\* A message waits: the primary station sends it or is busy.
LEMMA TryUnconfirmed ==
  ASSUME NEW x, Station(x), x.segments
  PROVE  LET y == TrySendUnconfirmed(x) IN
         /\ Station(y) /\ y.pri # "Idle" /\ y.keepAlive = x.keepAlive
         /\ y.tx.message = x.tx.message /\ y.posted = x.posted /\ y.segments
         /\ Waiting(x) => Waiting(y)
<1>1. CASE x.pri # "Idle"
  BY <1>1 DEF TrySendUnconfirmed
<1>2. CASE x.pri = "Idle"
  BY <1>2, SegmentQueued DEF Station, Resting, PriOk, SendOk, TrySendUnconfirmed
<1> QED BY <1>1, <1>2

\* A link status check: the primary station sends the request or is busy.
LEMMA TryRequest ==
  ASSUME NEW x, Station(x), x.online
  PROVE  LET y == TrySendRequestLinkStatus(x) IN
         /\ Station(y) /\ y.pri # "Idle" /\ y.online
         /\ y.segments = x.segments /\ y.posted = x.posted /\ y.tx = x.tx
         /\ Waiting(x) => Waiting(y)
<1>1. CASE x.pri # "Idle"
  BY <1>1 DEF TrySendRequestLinkStatus
<1>2. CASE x.pri = "Idle"
  <2> DEFINE w == [x EXCEPT !.keepAlive = FALSE, !.priBuffer = Request]
             y == QueueTransmit(w, "Primary")
             z == [y EXCEPT !.timer = TRUE, !.pri = "RequestLinkStatusWait"]
  <2>1. TrySendRequestLinkStatus(x) = z
    BY <1>2 DEF TrySendRequestLinkStatus, QueueRequestLinkStatus, Request
  <2>2. x \in StationType /\ Request \in FrameSet
    BY DEF Station, FrameSet
  <2>3. /\ w \in StationType /\ w.tx = x.tx /\ w.priBuffer = Request /\ w.online = x.online
        /\ w.segments = x.segments /\ w.secBuffer = x.secBuffer
        /\ w.pri = x.pri /\ w.sec = x.sec /\ w.posted = x.posted /\ w.sending = x.sending
        /\ w.mode = x.mode /\ w.line = x.line
        /\ w.pendingPri = x.pendingPri /\ w.pendingSec = x.pendingSec
    BY <2>2, ZenonT(30) DEF StationType
  <2>4. LineOk(w) /\ ~PriBusy(w) /\ (SecBusy(w) <=> SecBusy(x))
    BY <1>2, <2>3 DEF LineOk, Station, PriOk, PriBusy, SecBusy
  <2>5. SameButLine(w, y) /\ LineOk(y) /\ PriBusy(y) /\ (SecBusy(y) <=> SecBusy(w)) /\ y.mode # "Idle"
    BY <2>3, <2>4, Queueing
  <2> HIDE DEF w, y
  <2>6. z \in StationType /\ LineOk(z) /\ (SecBusy(z) <=> SecBusy(y))
    BY <2>5, ZenonT(30) DEF SameButLine, StationType, LineOk, PriBusy, SecBusy
  <2>7. /\ z.tx = x.tx /\ z.priBuffer = Request /\ z.online = x.online
        /\ z.pri = "RequestLinkStatusWait"
        /\ z.segments = x.segments /\ z.secBuffer = x.secBuffer
        /\ z.sec = x.sec /\ z.posted = x.posted /\ z.sending = x.sending
    <3>1. /\ y \in StationType /\ y.tx = x.tx /\ y.priBuffer = Request /\ y.online = x.online
          /\ y.segments = x.segments /\ y.secBuffer = x.secBuffer
          /\ y.sec = x.sec /\ y.posted = x.posted /\ y.sending = x.sending
      BY <2>3, <2>5 DEF SameButLine
    <3> QED BY <3>1, ZenonT(30) DEF StationType
  <2>8. SecOk(z) /\ PriOk(z) /\ SendOk(z)
    BY <2>2, <2>3, <2>4, <2>5, <2>6, <2>7, ZenonT(30) DEF SecOk, PriOk, SendOk, Station
  <2>9. Waiting(x) => Waiting(z)
    BY <2>4, <2>5, <2>6, <2>7 DEF Waiting
  <2> QED BY <2>1, <2>6, <2>7, <2>8, <2>9, ZenonT(30) DEF Station
<1> QED BY <1>1, <1>2

\* Whatever has piled up is started.
Started(x) == x.pri = "Idle" => ~x.keepAlive /\ ~x.segments

\* Nothing was sent or finished from x to y.
Keeps(x, y) == y.segments = x.segments /\ y.posted = x.posted /\ y.tx.message = x.tx.message

\* TryStartTransmission leaves nothing to start.
LEMMA Starting ==
  ASSUME NEW x, Station(x)
  PROVE  LET y == TryStartTransmission(x) IN
         Station(y) /\ Started(y) /\ Keeps(x, y) /\ (Waiting(x) => Waiting(y))
<1> DEFINE w == IF x.keepAlive THEN TrySendRequestLinkStatus(x) ELSE x
<1>1. /\ Station(w) /\ (w.pri = "Idle" => ~w.keepAlive)
      /\ w.segments = x.segments /\ w.posted = x.posted /\ w.tx = x.tx
      /\ Waiting(x) => Waiting(w)
  <2>1. x.keepAlive => x.online
    BY DEF Station, SendOk, StationType
  <2> QED BY <2>1, TryRequest
<1>2. TryStartTransmission(x) = IF w.segments THEN TrySendUnconfirmed(w) ELSE w
  BY DEF TryStartTransmission
<1> HIDE DEF w
<1> QED BY <1>1, <1>2, TryUnconfirmed, ZenonT(30) DEF Started, Keeps

\* The line is free again: the next frame that waits gets it.
LEMMA Freed ==
  ASSUME NEW x, Station(x), x.mode # "Idle"
  PROVE  LET y == TryPendingTx([x EXCEPT !.mode = "Idle", !.line = None]) IN
         /\ SameButLine(x, y) /\ LineOk(y)
         /\ PriBusy(y) <=> x.pendingPri
         /\ SecBusy(y) <=> x.pendingSec
<1> DEFINE w == [x EXCEPT !.mode = "Idle", !.line = None]
           y == TryPendingTx(w)
<1>1. x \in StationType /\ None \in FrameSet
  BY DEF Station, FrameSet
<1>2. /\ w \in StationType /\ w.pendingPri = x.pendingPri /\ w.pendingSec = x.pendingSec
      /\ w.priBuffer = x.priBuffer /\ w.secBuffer = x.secBuffer /\ w.mode = "Idle"
      /\ SameButLine(x, w)
  BY <1>1, ZenonT(30) DEF StationType, SameButLine
<1>3. CASE x.pendingSec
  <2> DEFINE z == [w EXCEPT !.mode = "Secondary", !.line = w.secBuffer, !.pendingSec = FALSE]
  <2>1. y = z
    BY <1>2, <1>3 DEF TryPendingTx
  <2> HIDE DEF w
  <2>2. /\ z.mode = "Secondary" /\ z.line = z.secBuffer /\ ~z.pendingSec
        /\ z.pendingPri = x.pendingPri
    BY <1>2 DEF StationType
  <2>3. SameButLine(w, z)
    BY <1>2, ZenonT(30) DEF StationType, SameButLine
  <2> HIDE DEF z
  <2>4. SameButLine(x, z)
    BY <1>2, <2>3 DEF SameButLine
  <2> QED BY <1>3, <2>1, <2>2, <2>4 DEF LineOk, PriBusy, SecBusy, w
<1>4. CASE ~x.pendingSec /\ x.pendingPri
  <2> DEFINE z == [w EXCEPT !.mode = "Primary", !.line = w.priBuffer, !.pendingPri = FALSE]
  <2>1. y = z
    BY <1>2, <1>4 DEF TryPendingTx
  <2> HIDE DEF w
  <2>2. /\ z.mode = "Primary" /\ z.line = z.priBuffer /\ ~z.pendingPri
        /\ z.pendingSec = x.pendingSec
    BY <1>2 DEF StationType
  <2>3. SameButLine(w, z)
    BY <1>2, ZenonT(30) DEF StationType, SameButLine
  <2> HIDE DEF z
  <2>4. SameButLine(x, z)
    BY <1>2, <2>3 DEF SameButLine
  <2> QED BY <1>4, <2>1, <2>2, <2>4 DEF LineOk, PriBusy, SecBusy, w
<1>5. CASE ~x.pendingSec /\ ~x.pendingPri
  <2>1. y = w
    BY <1>2, <1>5 DEF TryPendingTx
  <2> QED BY <1>2, <1>5, <2>1, ZenonT(30) DEF SameButLine, LineOk, PriBusy, SecBusy
<1> QED BY <1>3, <1>4, <1>5

\* A frame of the primary station was written.
LEMMA PriCompletes ==
  ASSUME NEW x, Station(x), x.mode = "Primary"
  PROVE  LET y == OnTxReady(x) IN
         /\ Station(y) /\ Started(y) /\ (Waiting(x) => Waiting(y))
         /\ x.pri = "RequestLinkStatusWait" \/ x.pri = "SendUnconfirmedTransmitWait"
         /\ x.pri = "RequestLinkStatusWait" => Keeps(x, y)
         /\ x.pri = "SendUnconfirmedTransmitWait" =>
              LET m == Advance(x.tx).message IN
              IF m # <<>> THEN y.segments /\ y.posted = x.posted /\ y.tx.message = m
              ELSE ~y.segments /\ y.posted = 1
<1> DEFINE w == TryPendingTx([x EXCEPT !.mode = "Idle", !.line = None])
           p == PriOnTxReady(w)
<1>1. OnTxReady(x) = TryStartTransmission(p)
  BY DEF OnTxReady
<1>2. SameButLine(x, w) /\ LineOk(w) /\ ~PriBusy(w) /\ (SecBusy(w) <=> SecBusy(x)) /\ ~x.pendingPri
  BY Freed, ZenonT(30) DEF Station, LineOk, SecBusy
<1>3. x.pri # "Idle" /\ x \in StationType /\ x.online
  BY DEF Station, PriOk, PriBusy, SendOk
<1> HIDE DEF w
<1>4. Resting(w)
  BY <1>2 DEF Resting, SameButLine, Station, SecOk, SendOk
<1>w. Waiting(x) => Waiting(w)
  BY <1>2 DEF Waiting, SameButLine
<1>5. CASE x.pri = "RequestLinkStatusWait"
  <2>1. p = w
    BY <1>2, <1>5 DEF PriOnTxReady, SameButLine
  <2>2. Station(w)
    BY <1>2, <1>4, <1>5 DEF Station, Resting, PriOk, SameButLine
  <2> QED BY <1>1, <1>2, <1>5, <1>w, <2>1, <2>2, Starting DEF SameButLine, Keeps
<1>6. CASE x.pri = "SendUnconfirmedTransmitWait"
  <2> DEFINE t == Advance(w.tx)
             v == [w EXCEPT !.tx = t]
  <2>1. TxOk(t) /\ t = Advance(x.tx)
    BY <1>2, <1>4, Advancing DEF Resting, SameButLine
  <2>2. w.segments /\ w.pri = "SendUnconfirmedTransmitWait" /\ w.posted = 0 /\ w.online /\ w.sending
        /\ x.posted = 0
    BY <1>2, <1>3, <1>6 DEF Station, PriOk, SendOk, SameButLine
  <2> HIDE DEF t
  <2>3. /\ v \in StationType /\ v.tx = t /\ v.segments /\ v.pri = w.pri /\ v.online
        /\ v.posted = 0 /\ v.sending /\ v.priBuffer = w.priBuffer /\ v.secBuffer = w.secBuffer
        /\ v.mode = w.mode /\ v.line = w.line /\ v.pendingPri = w.pendingPri
        /\ v.pendingSec = w.pendingSec /\ v.sec = w.sec
    BY <1>4, <2>1, <2>2 DEF Resting, StationType, TxOk
  <2>4. Resting(v)
    BY <1>4, <2>1, <2>2, <2>3 DEF Resting, LineOk, SecOk, SendOk, PriBusy, SecBusy
  <2>w. Waiting(w) => Waiting(v)
    BY <2>3 DEF Waiting, SecBusy
  <2> HIDE DEF v
  <2>5. CASE t.message # <<>>
    <3>1. p = QueueSegment(v)
      BY <2>2, <2>5 DEF PriOnTxReady, MoreToSend, t, v
    <3>2. p \in StationType /\ p.pri = "SendUnconfirmedTransmitWait"
      BY <2>2, <2>3, <2>4, <3>1, SegmentQueued, ZenonT(40)
    <3>3. p = [p EXCEPT !.pri = "SendUnconfirmedTransmitWait"]
      BY <3>2 DEF StationType
    <3>4. Station(p) /\ p.tx.message = t.message /\ p.posted = 0 /\ p.segments
      BY <2>3, <2>4, <3>1, <3>3, SegmentQueued
    <3>5. Waiting(w) => Waiting(p)
      BY <2>2, <2>3, <2>4, <3>1, <3>3, <2>w, SegmentQueued
    <3> QED BY <1>1, <1>6, <1>w, <2>1, <2>2, <2>5, <3>4, <3>5, Starting DEF Keeps
  <2>6. CASE t.message = <<>>
    <3>0. p = [v EXCEPT !.segments = FALSE, !.posted = v.posted + 1, !.pri = "Idle"]
      BY <2>2, <2>6 DEF PriOnTxReady, MoreToSend, CompleteSendOperation, t, v
    <3>1. p = [v EXCEPT !.segments = FALSE, !.posted = 1, !.pri = "Idle"]
      BY <2>3, <3>0
    <3> HIDE DEF p
    <3>2. /\ p \in StationType /\ p.tx = t /\ ~p.segments /\ p.pri = "Idle" /\ p.online
          /\ p.posted = 1 /\ p.sending /\ p.secBuffer = v.secBuffer /\ p.priBuffer = v.priBuffer
          /\ p.mode = v.mode /\ p.line = v.line /\ p.pendingPri = v.pendingPri
          /\ p.pendingSec = v.pendingSec /\ p.sec = v.sec
      BY <2>3, <3>1, ZenonT(30) DEF StationType
    <3>3. Station(p)
      BY <2>1, <2>4, <3>2 DEF Station, Resting, LineOk, SecOk, PriOk, SendOk, PriBusy, SecBusy
    <3>4. Waiting(v) => Waiting(p)
      BY <3>2 DEF Waiting, SecBusy
    <3> QED BY <1>1, <1>6, <1>w, <2>w, <2>1, <2>6, <3>2, <3>3, <3>4, Starting DEF p, Keeps
  <2> QED BY <2>5, <2>6
<1> QED BY <1>3, <1>5, <1>6 DEF StationType

\* A frame of the secondary station was written.
LEMMA SecCompletes ==
  ASSUME NEW x, Station(x), x.mode = "Secondary"
  PROVE  LET y == OnTxReady(x) IN
         Station(y) /\ Started(y) /\ Keeps(x, y) /\ (Waiting(x) => Waiting(y))
<1> DEFINE w == TryPendingTx([x EXCEPT !.mode = "Idle", !.line = None])
           p == SecOnTxReady(w)
<1>1. OnTxReady(x) = TryStartTransmission(p)
  BY DEF OnTxReady
<1>2. SameButLine(x, w) /\ LineOk(w) /\ ~SecBusy(w) /\ (PriBusy(w) <=> PriBusy(x))
  BY Freed, ZenonT(30) DEF Station, LineOk, PriBusy
<1>3. x.online
  BY DEF Station, SendOk
<1> HIDE DEF w
<1>4. PICK sec \in {"NotReset", "Reset", "TransmitWaitReset", "TransmitWaitNotReset"} :
        p = [w EXCEPT !.sec = sec]
  BY <1>2 DEF SecOnTxReady, SameButLine, StationType
<1>5. /\ p \in StationType /\ p.tx = x.tx /\ p.segments = x.segments /\ p.pri = x.pri
      /\ p.online = x.online /\ p.priBuffer = x.priBuffer /\ p.keepAlive = x.keepAlive
      /\ p.posted = x.posted /\ p.sending = x.sending /\ p.secBuffer = w.secBuffer
      /\ p.mode = w.mode /\ p.line = w.line /\ p.pendingPri = w.pendingPri
      /\ p.pendingSec = w.pendingSec /\ w.priBuffer = x.priBuffer
  BY <1>2, <1>4 DEF StationType, SameButLine
<1>6. Station(p)
  BY <1>2, <1>3, <1>5 DEF Station, LineOk, SecOk, PriOk, SendOk, PriBusy, SecBusy
<1>7. p.sec \notin SecWaits
  BY <1>2 DEF SecOnTxReady, SameButLine, StationType
<1> QED BY <1>1, <1>5, <1>6, <1>7, Starting DEF Keeps, Waiting

Answered(x, kind, fcb, sec) == [QueueSecondary(x, kind) EXCEPT !.fcb = fcb, !.sec = sec]

\* An answer is queued by a secondary station that is not sending one.
LEMMA Answering ==
  ASSUME NEW x, Station(x), x.online, x.sec \notin SecWaits, NEW kind \in {"ACK", "LINK_STATUS"},
         NEW fcb \in BOOLEAN, NEW sec \in SecWaits
  PROVE  /\ LET y == Answered(x, kind, fcb, sec) IN Station(y) /\ Keeps(x, y) /\ Waiting(y)
         /\ QueueSecondary(x, kind) \in StationType
         /\ QueueSecondary(x, kind).fcb = x.fcb
<1> DEFINE b == Control(kind)
           w == [x EXCEPT !.secBuffer = b]
           q == QueueTransmit(w, "Secondary")
           y == [q EXCEPT !.fcb = fcb, !.sec = sec]
<1>1. QueueSecondary(x, kind) = q
  BY DEF QueueSecondary
<1>2. b \in Answers /\ b \in FrameSet
  BY DEF Answers, FrameSet
<1> HIDE DEF b
<1>3. /\ w \in StationType /\ w.tx = x.tx /\ w.priBuffer = x.priBuffer /\ w.secBuffer = b
      /\ w.online = x.online /\ w.keepAlive = x.keepAlive /\ w.segments = x.segments
      /\ w.pri = x.pri /\ w.posted = x.posted /\ w.sending = x.sending
      /\ w.mode = x.mode /\ w.line = x.line /\ w.fcb = x.fcb
      /\ w.pendingPri = x.pendingPri /\ w.pendingSec = x.pendingSec
  BY <1>2, ZenonT(30) DEF Station, StationType
<1>4. ~SecBusy(x)
  BY DEF Station, SecOk
<1>5. LineOk(w) /\ ~SecBusy(w) /\ (PriBusy(w) <=> PriBusy(x))
  BY <1>3, <1>4 DEF LineOk, Station, PriBusy, SecBusy
<1>6. SameButLine(w, q) /\ LineOk(q) /\ SecBusy(q) /\ (PriBusy(q) <=> PriBusy(w)) /\ q.mode # "Idle"
  BY <1>3, <1>5, Queueing
<1> HIDE DEF w, q
<1>7. /\ q \in StationType /\ q.tx = x.tx /\ q.priBuffer = x.priBuffer /\ q.secBuffer = b
      /\ q.online = x.online /\ q.keepAlive = x.keepAlive /\ q.segments = x.segments
      /\ q.pri = x.pri /\ q.posted = x.posted /\ q.sending = x.sending /\ q.fcb = x.fcb
  BY <1>3, <1>6 DEF SameButLine
<1>8. /\ y \in StationType /\ y.tx = x.tx /\ y.priBuffer = x.priBuffer /\ y.secBuffer = b
      /\ y.online = x.online /\ y.keepAlive = x.keepAlive /\ y.segments = x.segments
      /\ y.pri = x.pri /\ y.posted = x.posted /\ y.sending = x.sending /\ y.sec = sec
      /\ y.mode = q.mode /\ y.line = q.line
      /\ y.pendingPri = q.pendingPri /\ y.pendingSec = q.pendingSec
  BY <1>7, ZenonT(30) DEF StationType
<1> HIDE DEF y
<1>9. LineOk(y) /\ SecBusy(y) /\ (PriBusy(y) <=> PriBusy(x))
  BY <1>5, <1>6, <1>7, <1>8 DEF LineOk, PriBusy, SecBusy
<1>10. SecOk(y) /\ PriOk(y) /\ SendOk(y)
  BY <1>2, <1>8, <1>9 DEF Station, SecOk, PriOk, SendOk
<1>11. Answered(x, kind, fcb, sec) = y
  BY <1>1 DEF Answered, y
<1> QED BY <1>1, <1>7, <1>8, <1>9, <1>10, <1>11 DEF Station, Keeps, Waiting

NotAnswered(x, fcb, sec) == [x EXCEPT !.fcb = fcb, !.sec = sec]

\* A broadcast is not answered.
LEMMA SecondaryChanges ==
  ASSUME NEW x, Station(x), x.online, NEW fcb \in BOOLEAN, NEW sec \in SecWaits
  PROVE  LET y == NotAnswered(x, fcb, sec) IN Station(y) /\ Keeps(x, y)
<1> DEFINE y == NotAnswered(x, fcb, sec)
<1>1. /\ y \in StationType /\ y.tx = x.tx /\ y.priBuffer = x.priBuffer /\ y.secBuffer = x.secBuffer
      /\ y.online = x.online /\ y.keepAlive = x.keepAlive /\ y.segments = x.segments
      /\ y.pri = x.pri /\ y.posted = x.posted /\ y.sending = x.sending /\ y.sec = sec
      /\ y.mode = x.mode /\ y.line = x.line
      /\ y.pendingPri = x.pendingPri /\ y.pendingSec = x.pendingSec
  BY ZenonT(30) DEF Station, StationType, NotAnswered
<1> HIDE DEF y
<1>2. LineOk(y) /\ SecOk(y) /\ PriOk(y) /\ SendOk(y)
  BY <1>1 DEF Station, LineOk, SecOk, PriOk, SendOk, PriBusy, SecBusy
<1> QED BY <1>1, <1>2 DEF Station, Keeps, y

\* A link status request is answered or given up after it was written.
LEMMA RequestEnds ==
  ASSUME NEW x, Station(x), x.pri = "RequestLinkStatusWait", ~PriBusy(x)
  PROVE  Station(EndRequest(x)) /\ Keeps(x, EndRequest(x)) /\ (Waiting(x) => Waiting(EndRequest(x)))
<1> DEFINE y == EndRequest(x)
<1>1. /\ y \in StationType /\ y.tx = x.tx /\ y.priBuffer = x.priBuffer /\ y.secBuffer = x.secBuffer
      /\ y.online = x.online /\ y.keepAlive = x.keepAlive /\ y.segments = x.segments
      /\ y.pri = "Idle" /\ y.posted = x.posted /\ y.sending = x.sending /\ y.sec = x.sec
      /\ y.mode = x.mode /\ y.line = x.line
      /\ y.pendingPri = x.pendingPri /\ y.pendingSec = x.pendingSec
  BY ZenonT(30) DEF Station, StationType, EndRequest
<1> HIDE DEF y
<1>2. LineOk(y) /\ SecOk(y) /\ PriOk(y) /\ SendOk(y) /\ (Waiting(x) => Waiting(y))
  BY <1>1 DEF Station, LineOk, SecOk, PriOk, SendOk, PriBusy, SecBusy, Waiting
<1> QED BY <1>1, <1>2 DEF Station, Keeps, y

SecondaryFuncs == {"ACK", "NACK", "LINK_STATUS", "NOT_SUPPORTED"}

\* A frame of the peer.  Only a confirmed broadcast lets the secondary station
\* wait for nothing.
LEMMA Handling ==
  ASSUME NEW x, Station(x), x.online, NEW f \in Frames,
         f.func \in SecondaryFuncs => ~(x.priBuffer = Request /\ PriBusy(x))
  PROVE  LET y == Handle(x, f) IN
         /\ Station(y) /\ Keeps(x, y)
         /\ ~(f.broadcast /\ f.func = "CONFIRMED_USER_DATA") => (Waiting(x) => Waiting(y))
<1> DEFINE y == Handle(x, f)
<1>1. x \in StationType /\ f.fcb \in BOOLEAN
  BY FramesOk DEF Station
<1>2. CASE f.func \in SecondaryFuncs
  <2>1. y = IF x.pri = "RequestLinkStatusWait" THEN EndRequest(x) ELSE x
    BY <1>2 DEF Handle, SecondaryFuncs
  <2>2. x.pri = "RequestLinkStatusWait" => ~PriBusy(x)
    BY <1>2 DEF Station, PriOk
  <2> QED BY <2>1, <2>2, RequestEnds DEF Keeps
<1>3. CASE f.func = "TEST_LINK_STATES"
  <2>1. y = OnTestLinkStatus(x, f.fcb)
    BY <1>3 DEF Handle
  <2>2. CASE x.sec # "Reset" \/ x.fcb # f.fcb
    BY <2>1, <2>2 DEF OnTestLinkStatus, Keeps
  <2>3. CASE ~(x.sec # "Reset" \/ x.fcb # f.fcb)
    <3>1. y = Answered(x, "ACK", ~x.fcb, "TransmitWaitReset")
      BY <2>1, <2>3 DEF OnTestLinkStatus, Answered
    <3>2. (~x.fcb) \in BOOLEAN /\ x.sec \notin SecWaits
      BY <1>1, <2>3 DEF StationType
    <3> QED BY <3>1, <3>2, Answering, ZenonT(30)
  <2> QED BY <2>2, <2>3
<1>4. CASE f.func = "RESET_LINK_STATES"
  <2>1. y = OnResetLinkStates(x)
    BY <1>4 DEF Handle
  <2>2. CASE x.sec \in SecWaits
    BY <2>1, <2>2 DEF OnResetLinkStates, Keeps
  <2>3. CASE x.sec \notin SecWaits
    <3>1. y = Answered(x, "ACK", TRUE, "TransmitWaitReset")
      BY <2>1, <2>3 DEF OnResetLinkStates, Answered
    <3> QED BY <2>3, <3>1, Answering, ZenonT(30)
  <2> QED BY <2>2, <2>3
<1>5. CASE f.func = "REQUEST_LINK_STATUS"
  <2>1. y = OnRequestLinkStatus(x)
    BY <1>5 DEF Handle
  <2>2. CASE x.sec \in SecWaits
    BY <2>1, <2>2 DEF OnRequestLinkStatus, Keeps
  <2>3. CASE x.sec \notin SecWaits
    <3> DEFINE q == QueueSecondary(x, "LINK_STATUS")
               sec == IF x.sec = "Reset" THEN "TransmitWaitReset" ELSE "TransmitWaitNotReset"
    <3>1. y = [q EXCEPT !.sec = sec]
      BY <2>1, <2>3 DEF OnRequestLinkStatus
    <3>2. q \in StationType /\ q.fcb = x.fcb /\ sec \in SecWaits
      BY <2>3, Answering, ZenonT(30)
    <3> HIDE DEF q, sec
    <3>3. [q EXCEPT !.sec = sec] = [q EXCEPT !.fcb = q.fcb, !.sec = sec] /\ x.fcb \in BOOLEAN
      BY <1>1, <3>2, ZenonT(30) DEF StationType
    <3>4. y = Answered(x, "LINK_STATUS", x.fcb, sec)
      BY <3>1, <3>2, <3>3, ZenonT(30) DEF Answered, q
    <3> QED BY <2>3, <3>2, <3>3, <3>4, Answering
  <2> QED BY <2>2, <2>3
<1>6. CASE f.func = "CONFIRMED_USER_DATA"
  <2>1. y = OnConfirmedUserData(x, f.fcb, f.broadcast)
    BY <1>6 DEF Handle
  <2>2. CASE x.sec # "Reset"
    BY <2>1, <2>2 DEF OnConfirmedUserData, Keeps
  <2>3. CASE x.sec = "Reset"
    <3> DEFINE q == QueueSecondary(x, "ACK")
               fcb == IF x.fcb = f.fcb THEN ~f.fcb ELSE x.fcb
    <3>1. fcb \in BOOLEAN /\ x.sec \notin SecWaits
      BY <1>1, <2>3, ZenonT(30) DEF StationType
    <3>2. CASE f.broadcast
      <4>1. y = NotAnswered(x, fcb, "TransmitWaitReset")
        BY <1>1, <2>1, <2>3, <3>2 DEF OnConfirmedUserData, NotAnswered, StationType
      <4> HIDE DEF fcb
      <4> QED BY <1>6, <3>1, <3>2, <4>1, SecondaryChanges
    <3>3. CASE ~f.broadcast
      <4>1. q.fcb = x.fcb /\ q \in StationType
        BY <3>1, Answering
      <4> HIDE DEF q
      <4>2. y = [q EXCEPT !.fcb = fcb, !.sec = "TransmitWaitReset"]
        BY <2>1, <2>3, <3>3, <4>1, ZenonT(30) DEF OnConfirmedUserData, StationType, q
      <4>3. y = Answered(x, "ACK", fcb, "TransmitWaitReset")
        BY <4>2 DEF Answered, q
      <4> HIDE DEF fcb
      <4> QED BY <3>1, <4>3, Answering
    <3> QED BY <3>2, <3>3
  <2> QED BY <2>2, <2>3
<1>7. CASE f.func = "UNCONFIRMED_USER_DATA"
  BY <1>7 DEF Handle, Keeps
<1> QED BY <1>2, <1>3, <1>4, <1>5, <1>6, <1>7, FramesOk DEF SecondaryFuncs

----------------------------------------------------------------------------
(* The callbacks.                                                          *)

\* What every callback keeps but the end of a transmission and BeginTransmit.
Calm(x, y) == Station(y) /\ Started(y) /\ Keeps(x, y) /\ (Waiting(x) => Waiting(y))

\* The same, and what it made possible is started.
LEMMA FrameCalm ==
  ASSUME NEW x, Station(x), Started(x), x.online, NEW f \in Frames,
         f.func \in SecondaryFuncs => ~(x.priBuffer = Request /\ PriBusy(x))
  PROVE  LET y == OnFrame(x, f) IN
         /\ Station(y) /\ Started(y) /\ Keeps(x, y)
         /\ ~(f.broadcast /\ f.func = "CONFIRMED_USER_DATA") => (Waiting(x) => Waiting(y))
<1>1. CASE f.broadcast /\ f.func \notin {"CONFIRMED_USER_DATA", "UNCONFIRMED_USER_DATA"}
  BY <1>1 DEF OnFrame, Keeps
<1>2. CASE ~(f.broadcast /\ f.func \notin {"CONFIRMED_USER_DATA", "UNCONFIRMED_USER_DATA"})
  <2> DEFINE h == Handle(x, f)
  <2>1. OnFrame(x, f) = TryStartTransmission(h)
    BY <1>2 DEF OnFrame
  <2>2. Station(h) /\ Keeps(x, h)
        /\ (~(f.broadcast /\ f.func = "CONFIRMED_USER_DATA") => (Waiting(x) => Waiting(h)))
    BY Handling
  <2> HIDE DEF h
  <2> QED BY <2>1, <2>2, Starting DEF Keeps
<1> QED BY <1>1, <1>2

\* A response timer expires.
LEMMA TimeoutCalm ==
  ASSUME NEW x, Station(x), ~(x.priBuffer = Request /\ PriBusy(x))
  PROVE  Calm(x, OnResponseTimeout(x))
<1> DEFINE e == EndRequest(x)
           n == [x EXCEPT !.timer = FALSE]
<1>1. CASE x.pri = "RequestLinkStatusWait"
  <2>1. OnResponseTimeout(x) = TryStartTransmission(e)
    BY <1>1 DEF OnResponseTimeout
  <2>2. ~PriBusy(x)
    BY <1>1 DEF Station, PriOk
  <2>3. Station(e) /\ Keeps(x, e) /\ (Waiting(x) => Waiting(e))
    BY <1>1, <2>2, RequestEnds
  <2> QED BY <2>1, <2>3, Starting DEF Keeps, Calm
<1>2. CASE x.pri # "RequestLinkStatusWait"
  <2>1. OnResponseTimeout(x) = TryStartTransmission(n)
    BY <1>2 DEF OnResponseTimeout
  <2>2. /\ n \in StationType /\ n.tx = x.tx /\ n.priBuffer = x.priBuffer /\ n.secBuffer = x.secBuffer
        /\ n.online = x.online /\ n.keepAlive = x.keepAlive /\ n.segments = x.segments
        /\ n.pri = x.pri /\ n.posted = x.posted /\ n.sending = x.sending /\ n.sec = x.sec
        /\ n.mode = x.mode /\ n.line = x.line
        /\ n.pendingPri = x.pendingPri /\ n.pendingSec = x.pendingSec
    BY ZenonT(30) DEF Station, StationType
  <2> HIDE DEF n
  <2>3. LineOk(n) /\ SecOk(n) /\ PriOk(n) /\ SendOk(n) /\ (Waiting(x) => Waiting(n))
    BY <2>2 DEF Station, LineOk, SecOk, PriOk, SendOk, PriBusy, SecBusy, Waiting
  <2>4. Station(n) /\ Keeps(x, n)
    BY <2>2, <2>3 DEF Station, Keeps
  <2> QED BY <2>1, <2>3, <2>4, Starting DEF Keeps, Calm
<1> QED BY <1>1, <1>2

\* A link status check is due.
LEMMA CheckCalm ==
  ASSUME NEW x, Station(x), x.online
  PROVE  Calm(x, OnKeepAliveTimeout(x)) /\ Calm(x, TriggerLinkStatusCheck(x))
<1> DEFINE k(c) == [x EXCEPT !.callback = c, !.keepAlive = TRUE]
<1>1. ASSUME NEW c \in BOOLEAN PROVE Calm(x, TryStartTransmission(k(c)))
  <2> DEFINE n == k(c)
  <2>2. /\ n \in StationType /\ n.tx = x.tx /\ n.priBuffer = x.priBuffer /\ n.secBuffer = x.secBuffer
        /\ n.online = x.online /\ n.segments = x.segments
        /\ n.pri = x.pri /\ n.posted = x.posted /\ n.sending = x.sending /\ n.sec = x.sec
        /\ n.mode = x.mode /\ n.line = x.line
        /\ n.pendingPri = x.pendingPri /\ n.pendingSec = x.pendingSec
    BY ZenonT(30) DEF Station, StationType
  <2> HIDE DEF n
  <2>3. LineOk(n) /\ SecOk(n) /\ PriOk(n) /\ SendOk(n) /\ (Waiting(x) => Waiting(n))
    BY <2>2 DEF Station, LineOk, SecOk, PriOk, SendOk, PriBusy, SecBusy, Waiting
  <2>4. Station(n) /\ Keeps(x, n)
    BY <2>2, <2>3 DEF Station, Keeps
  <2> QED BY <2>3, <2>4, Starting, ZenonT(30) DEF Keeps, Calm, n
<1>2. OnKeepAliveTimeout(x) = TryStartTransmission(k(x.callback)) /\ x.callback \in BOOLEAN
  BY ZenonT(30) DEF OnKeepAliveTimeout, Station, StationType
<1>3. TriggerLinkStatusCheck(x) = TryStartTransmission(k(TRUE))
  BY DEF TriggerLinkStatusCheck
<1> HIDE DEF k
<1> QED BY <1>1, <1>2, <1>3, ZenonT(30)

\* The link is up, and no call of the last time is left.
LEMMA Upping ==
  ASSUME NEW x, Station(x), Started(x), ~x.online, x.posted = 0
  PROVE  Calm(x, OnLowerLayerUp(x))
<1> DEFINE n == OnLowerLayerUp(x)
<1>1. /\ n \in StationType /\ n.tx = x.tx /\ n.priBuffer = x.priBuffer /\ n.secBuffer = x.secBuffer
      /\ n.segments = x.segments /\ n.keepAlive = x.keepAlive
      /\ n.pri = x.pri /\ n.posted = x.posted /\ n.sending = x.sending /\ n.sec = x.sec
      /\ n.mode = x.mode /\ n.line = x.line /\ n.online
      /\ n.pendingPri = x.pendingPri /\ n.pendingSec = x.pendingSec
  BY ZenonT(30) DEF Station, StationType, OnLowerLayerUp
<1> HIDE DEF n
<1>2. LineOk(n) /\ SecOk(n) /\ PriOk(n) /\ SendOk(n) /\ (Waiting(x) => Waiting(n)) /\ Started(n)
  BY <1>1 DEF Station, LineOk, SecOk, PriOk, SendOk, PriBusy, SecBusy, Waiting, Started
<1> QED BY <1>1, <1>2 DEF Station, Keeps, Calm, n

\* Nothing is left to send or to wait for, but a call that was posted.
LEMMA Downing ==
  ASSUME NEW x, Station(x)
  PROVE  LET n == OnLowerLayerDown(x) IN
         Station(n) /\ Started(n) /\ Waiting(n) /\ ~n.segments /\ n.posted = x.posted
<1> DEFINE n == OnLowerLayerDown(x)
<1>0. None \in FrameSet
  BY DEF FrameSet
<1>1. /\ n \in StationType /\ n.tx = x.tx /\ n.posted = x.posted
      /\ ~n.segments /\ ~n.keepAlive /\ ~n.sending
      /\ n.pri = "Idle" /\ n.sec = "NotReset" /\ n.mode = "Idle" /\ ~n.online
      /\ ~n.pendingPri /\ ~n.pendingSec
  BY <1>0, ZenonT(40) DEF Station, StationType, OnLowerLayerDown
<1> HIDE DEF n
<1>2. LineOk(n) /\ SecOk(n) /\ PriOk(n) /\ SendOk(n) /\ Waiting(n) /\ Started(n)
  BY <1>1 DEF Station, LineOk, SecOk, PriOk, SendOk, PriBusy, SecBusy, Waiting, Started
<1> QED BY <1>1, <1>2 DEF Station, n

\* A fragment is handed down.
LEMMA Beginning ==
  ASSUME NEW x, Station(x), x.online, ~x.sending, NEW m \in Seq(Octets)
  PROVE  LET y == BeginTransmit(x, m) IN
         /\ Station(y) /\ Started(y) /\ (Waiting(x) => Waiting(y))
         /\ y.segments /\ y.posted = 0 /\ y.tx.message = m
<1> DEFINE t == Configure(x.tx, m)
           n == [x EXCEPT !.sending = TRUE, !.tx = t, !.segments = TRUE]
<1>1. x \in StationType /\ ~x.segments /\ x.posted = 0 /\ TxOk(t) /\ t.message = m
      /\ x.pri # "SendUnconfirmedTransmitWait"
  BY Configuring DEF Station, SendOk, PriOk, StationType
<1>2. BeginTransmit(x, m) = TryStartTransmission(n)
  BY <1>1 DEF BeginTransmit, StationType
<1> HIDE DEF t
<1>3. /\ n \in StationType /\ n.tx = t /\ n.priBuffer = x.priBuffer /\ n.secBuffer = x.secBuffer
      /\ n.online = x.online /\ n.segments /\ n.sending
      /\ n.pri = x.pri /\ n.posted = 0 /\ n.sec = x.sec
      /\ n.mode = x.mode /\ n.line = x.line
      /\ n.pendingPri = x.pendingPri /\ n.pendingSec = x.pendingSec
  BY <1>1, ZenonT(30) DEF StationType, TxOk
<1> HIDE DEF n
<1>4. LineOk(n) /\ SecOk(n) /\ PriOk(n) /\ SendOk(n) /\ (Waiting(x) => Waiting(n))
  BY <1>1, <1>3 DEF Station, LineOk, SecOk, PriOk, SendOk, PriBusy, SecBusy, Waiting
<1>5. Station(n)
  BY <1>1, <1>3, <1>4 DEF Station
<1> QED BY <1>1, <1>2, <1>3, <1>4, <1>5, Starting DEF Keeps

\* The transport layer is told that its fragment is sent.
LEMMA PostedRuns ==
  ASSUME NEW x, Station(x), Started(x), x.posted > 0
  PROVE  LET y == UpperOnTxReady(x) IN
         /\ Station(y) /\ Started(y) /\ (Waiting(x) => Waiting(y))
         /\ ~y.segments /\ y.posted = 0
<1> DEFINE z == [x EXCEPT !.posted = 0, !.sending = FALSE]
<1>1. x.posted = 1 /\ ~x.segments /\ x \in StationType /\ x.posted - 1 = 0
  BY DEF Station, SendOk, StationType
<1>2. UpperOnTxReady(x) = z
  <2>1. CASE x.online
    BY <1>1, <2>1 DEF UpperOnTxReady
  <2>2. CASE ~x.online
    <3>1. x.sending = FALSE
      BY <2>2, <1>1 DEF Station, SendOk, StationType
    <3> QED BY <1>1, <2>2, <3>1, ZenonT(30) DEF UpperOnTxReady
  <2> QED BY <2>1, <2>2
<1>3. /\ z \in StationType /\ z.tx = x.tx /\ z.priBuffer = x.priBuffer /\ z.secBuffer = x.secBuffer
      /\ z.online = x.online /\ z.segments = x.segments /\ ~z.sending /\ z.keepAlive = x.keepAlive
      /\ z.pri = x.pri /\ z.posted = 0 /\ z.sec = x.sec
      /\ z.mode = x.mode /\ z.line = x.line
      /\ z.pendingPri = x.pendingPri /\ z.pendingSec = x.pendingSec
  BY <1>1, ZenonT(30) DEF StationType
<1> HIDE DEF z
<1>4. LineOk(z) /\ SecOk(z) /\ PriOk(z) /\ SendOk(z) /\ (Waiting(x) => Waiting(z)) /\ Started(z)
  BY <1>1, <1>3, SMTT(20) DEF Station, LineOk, SecOk, PriOk, SendOk, PriBusy, SecBusy, Waiting, Started
<1>5. Station(z)
  BY <1>3, <1>4 DEF Station
<1> QED BY <1>1, <1>2, <1>3, <1>4, <1>5

----------------------------------------------------------------------------
(* What has been written.                                                  *)

\* The fragments are numbered as they were sent.
SentOk ==
  /\ IsFiniteSet(sent)
  /\ \A f \in sent : f \in Seq(Octets) /\ f # <<>> /\ f[1][1] \in 1 .. Cardinality(sent)
  /\ \A f, g \in sent : f[1][1] = g[1][1] => f = g

\* The rest of the message is what has still to be written.
WrittenOk ==
  /\ written \in Seq(Octets)
  /\ s.segments => /\ Latest \in sent /\ s.tx.message # <<>>
                   /\ written \o s.tx.message = Latest
  /\ s.posted = 1 => Latest \in sent /\ written = Latest

IInv == Station(s) /\ Started(s) /\ SentOk /\ WrittenOk

\* A fragment is not empty and begins with its number.
LEMMA FragmentOk ==
  ASSUME NEW n \in Nat, NEW len \in Nat \ {0}
  PROVE  LET f == Fragment(n, len) IN f \in Seq(Octets) /\ f # <<>> /\ f[1][1] = n
<1> DEFINE f == Fragment(n, len)
<1>1. \A k \in 1 .. len : <<n, k>> \in Octets
  BY DEF Octets
<1>2. f \in [1 .. len -> Octets] /\ 1 \in 1 .. len
  BY <1>1 DEF Fragment
<1>3. f \in Seq(Octets) /\ Len(f) = len
  BY <1>2, SeqDef
<1>4. f # <<>>
  BY <1>3, EmptySeq
<1>5. f[1] = <<n, 1>>
  BY <1>2 DEF Fragment
<1> QED BY <1>3, <1>4, <1>5

\* A fragment that was just sent is the latest.
LEMMA SendingLatest ==
  ASSUME SentOk, NEW len \in Lengths, sent' = sent \cup {Fragment(Cardinality(sent) + 1, len)}
  PROVE  SentOk' /\ Latest' = Fragment(Cardinality(sent) + 1, len) /\ Latest' \in sent'
<1>1. PICK n \in Nat : n = Cardinality(sent)
  BY FS_CardinalityType DEF SentOk
<1>2. PICK f : f = Fragment(n + 1, len)
  OBVIOUS
<1>3. f \in Seq(Octets) /\ f # <<>> /\ f[1][1] = n + 1
  <2>1. n + 1 \in Nat /\ len \in Nat \ {0}
    BY <1>1, LengthsOk
  <2> QED BY <1>2, <2>1, FragmentOk, ZenonT(30)
<1>4. f \notin sent
  BY <1>1, <1>3 DEF SentOk
<1>5. IsFiniteSet(sent') /\ Cardinality(sent') = n + 1
  BY <1>1, <1>2, <1>4, FS_AddElement, ZenonT(30) DEF SentOk
<1>6. sent' = sent \cup {f}
  BY <1>1, <1>2
<1>7. \A g \in sent : g[1][1] \in 1 .. n
  BY <1>1 DEF SentOk
<1>8. \A g \in sent' : g[1][1] = n + 1 => g = f
  BY <1>6, <1>7, <1>1
<1>9. Latest' = f
  <2>1. Latest' = CHOOSE g \in sent' : g[1][1] = n + 1
    BY <1>5 DEF Latest
  <2> QED BY <1>3, <1>6, <1>8, <2>1
<1>10. SentOk'
  <2>1. \A g \in sent' : g[1][1] \in 1 .. n + 1
    BY <1>1, <1>3, <1>6, <1>7
  <2>2. \A g, h \in sent' : g[1][1] = h[1][1] => g = h
    BY <1>1, <1>3, <1>6, <1>7 DEF SentOk
  <2> QED BY <1>3, <1>5, <1>6, <2>1, <2>2, ZenonT(30) DEF SentOk
<1> QED BY <1>1, <1>2, <1>6, <1>9, <1>10

\* One segment is written: the rest is shorter by it.
LEMMA SegmentWritten ==
  ASSUME NEW t, TxOk(t), NEW w \in Seq(Octets)
  PROVE  /\ w \o Front(t).payload \in Seq(Octets)
         /\ (w \o Front(t).payload) \o Advance(t).message = w \o t.message
<1> DEFINE m == t.message
           n == Lesser(Len(m), MaxPayload)
<1>1. t \in TxType /\ m \in Seq(Octets) /\ n \in 0 .. Len(m) /\ Len(m) \in Nat
  BY FrontType DEF TxOk, TxType
<1>2. Front(t).payload = SubSeq(m, 1, n) /\ Front(t).payload \in Seq(Octets)
  BY <1>1, FrontType DEF Front, Segments
<1>3. Advance(t).message = SubSeq(m, n + 1, Len(m)) /\ Advance(t).message \in Seq(Octets)
  BY <1>1, Advancing, ZenonT(30) DEF Advance, TxOk, TxType
<1>4. SubSeq(m, 1, n) \o SubSeq(m, n + 1, Len(m)) = m
  <2>1. 1 \in 1 .. Len(m) + 1 /\ n \in 1 - 1 .. Len(m) /\ Len(m) \in n .. Len(m)
    BY <1>1
  <2>2. SubSeq(m, 1, n) \o SubSeq(m, n + 1, Len(m)) = SubSeq(m, 1, Len(m))
    BY <1>1, <2>1, ConcatAdjacentSubSeq, ZenonT(30)
  <2> QED BY <1>1, <2>2, SubSeqFull, ZenonT(30)
<1> DEFINE a == SubSeq(m, 1, n)
           b == SubSeq(m, n + 1, Len(m))
<1>5. a \in Seq(Octets) /\ b \in Seq(Octets)
  BY <1>2, <1>3
<1> HIDE DEF a, b
<1>6. w \o a \in Seq(Octets)
  BY <1>5, ConcatProperties
<1>7. (w \o a) \o b = w \o (a \o b)
  BY <1>5, ConcatAssociative
<1> QED BY <1>2, <1>3, <1>4, <1>6, <1>7, ZenonT(30) DEF a, b

\* The frame that goes out is the one in the buffer.
LEMMA EmittedFrame ==
  ASSUME Station(s), s.mode # "Idle"
  PROVE  /\ \A f \in Emitted : f = Buffer(s, s.mode)
         /\ s.mode = "Secondary" => Buffer(s, s.mode).kind # "DATA"
         /\ s.mode = "Primary" /\ s.pri = "RequestLinkStatusWait" => Buffer(s, s.mode).kind # "DATA"
         /\ s.mode = "Primary" /\ s.pri = "SendUnconfirmedTransmitWait" =>
              Buffer(s, s.mode).kind = "DATA" /\ Buffer(s, s.mode).segment = Front(s.tx)
<1>1. s.mode = "Secondary" => s.line = s.secBuffer /\ s.secBuffer \in Answers
  BY DEF Station, LineOk, SecOk, SecBusy
<1>2. s.mode = "Primary" => s.line = s.priBuffer
  BY DEF Station, LineOk
<1>3. s.mode \in {"Primary", "Secondary"}
  BY DEF Station, StationType
<1>4. \A f \in Emitted : f = Buffer(s, s.mode)
  BY <1>1, <1>2, <1>3 DEF Emitted, Buffer
<1>5. \A f \in Answers \cup {Request} : f.kind # "DATA"
  BY DEF Answers, Request, Control
<1>6. ASSUME s.mode = "Primary" /\ s.pri = "SendUnconfirmedTransmitWait"
      PROVE  Buffer(s, s.mode).kind = "DATA" /\ Buffer(s, s.mode).segment = Front(s.tx)
  <2>1. Buffer(s, s.mode) = Data(Front(s.tx))
    BY <1>6 DEF Buffer, Station, PriOk
  <2> QED BY <2>1 DEF Data
<1> QED BY <1>1, <1>4, <1>5, <1>6 DEF Buffer, Station, PriOk

----------------------------------------------------------------------------
(* The invariant.                                                          *)

\* Nothing is sent at first.
LEMMA InvInit == Init => IInv /\ Waiting(s)
<1> SUFFICES ASSUME Init PROVE IInv /\ Waiting(s)
  OBVIOUS
<1>1. s = NewStation /\ sent = {} /\ written = <<>>
  BY DEF Init
<1>2. NewTx \in TxType /\ NewTx.segment = None
  BY DEF NewTx, TxType
<1>3. /\ s \in StationType /\ s.tx = NewTx /\ s.posted = 0 /\ ~s.online
      /\ ~s.segments /\ ~s.keepAlive /\ ~s.sending
      /\ s.pri = "Idle" /\ s.sec = "NotReset" /\ s.mode = "Idle"
      /\ ~s.pendingPri /\ ~s.pendingSec
  <2>1. None \in FrameSet
    BY DEF FrameSet
  <2> QED BY <1>1, <1>2, <2>1, SMTT(20) DEF NewStation, StationType
<1>4. Station(s) /\ Started(s) /\ Waiting(s)
  BY <1>2, <1>3 DEF Station, TxOk, LineOk, SecOk, PriOk, SendOk, PriBusy, SecBusy, Waiting, Started
<1>5. SentOk
  BY <1>1, FS_EmptySet DEF SentOk
<1>6. WrittenOk
  BY <1>1, <1>3 DEF WrittenOk
<1> QED BY <1>4, <1>5, <1>6 DEF IInv

\* A step that neither writes nor sends, and starts nothing new.
LEMMA KeepsWritten ==
  ASSUME IInv, UNCHANGED <<sent, written>>, Station(s'), Started(s'),
         s'.segments => s.segments /\ s'.tx.message = s.tx.message,
         s'.posted = 1 => s.posted = 1
  PROVE  IInv'
<1>1. Latest' = Latest /\ SentOk'
  BY DEF IInv, SentOk, Latest
<1>2. WrittenOk'
  BY <1>1, ZenonT(30) DEF IInv, WrittenOk
<1> QED BY <1>1, <1>2 DEF IInv

\* Such are the steps that are calm.
LEMMA CalmStep ==
  ASSUME IInv, UNCHANGED <<sent, written>>, Calm(s, s')
  PROVE  IInv' /\ (Waiting(s) => Waiting(s)')
<1>1. Station(s') /\ Started(s') /\ Keeps(s, s') /\ (Waiting(s) => Waiting(s'))
  BY DEF Calm
<1> QED BY <1>1, KeepsWritten DEF Keeps

\* Nothing of a new fragment is written.
LEMMA SendStep ==
  ASSUME IInv, NEW len \in Lengths, Send(len)
  PROVE  IInv' /\ (Waiting(s) => Waiting(s)')
<1> DEFINE f == Fragment(Cardinality(sent) + 1, len)
<1>1. s.online /\ ~s.sending /\ s' = BeginTransmit(s, f) /\ sent' = sent \cup {f} /\ written' = <<>>
  BY DEF Send, Step
<1>2. SentOk' /\ Latest' = f /\ Latest' \in sent'
  BY <1>1, SendingLatest DEF IInv
<1>3. f \in Seq(Octets) /\ f # <<>>
  <2>1. Cardinality(sent) + 1 \in Nat /\ len \in Nat \ {0}
    BY FS_CardinalityType, LengthsOk DEF IInv, SentOk
  <2> QED BY <2>1, FragmentOk
<1> HIDE DEF f
<1>4. /\ Station(s') /\ Started(s') /\ (Waiting(s) => Waiting(s'))
      /\ s'.segments /\ s'.posted = 0 /\ s'.tx.message = f
  BY <1>1, <1>3, Beginning DEF IInv
<1>5. <<>> \o f = f /\ <<>> \in Seq(Octets)
  BY <1>3, ConcatEmptySeq
<1>6. WrittenOk'
  BY <1>1, <1>2, <1>3, <1>4, <1>5 DEF WrittenOk
<1> QED BY <1>2, <1>4, <1>6 DEF IInv

\* A frame was written: an answer, a request, or the next octets.
LEMMA WrittenStep ==
  ASSUME IInv, NEW n, Written(n)
  PROVE  IInv' /\ (Waiting(s) => Waiting(s)')
<1>1. s.mode # "Idle" /\ s' = OnTxReady(s) /\ sent' = sent /\ Station(s)
  BY DEF Written, TxReady, Step, IInv
<1>2. PICK f \in Emitted :
        IF f.kind = "DATA" THEN written' = written \o f.segment.payload ELSE written' = written
  BY DEF Written
<1>3. f = Buffer(s, s.mode)
  BY <1>1, EmittedFrame
<1>4. CASE s.mode = "Secondary"
  <2>1. written' = written
    BY <1>1, <1>2, <1>3, <1>4, EmittedFrame
  <2>2. Calm(s, s')
    BY <1>1, <1>4, SecCompletes DEF Calm
  <2> QED BY <1>1, <2>1, <2>2, CalmStep
<1>5. CASE s.mode = "Primary" /\ s.pri = "RequestLinkStatusWait"
  <2>1. written' = written
    BY <1>1, <1>2, <1>3, <1>5, EmittedFrame
  <2>2. Calm(s, s')
    BY <1>1, <1>5, PriCompletes DEF Calm
  <2> QED BY <1>1, <2>1, <2>2, CalmStep
<1>6. CASE s.mode = "Primary" /\ s.pri = "SendUnconfirmedTransmitWait"
  <2> DEFINE m == Advance(s.tx).message
             p == Front(s.tx).payload
  <2>1. written' = written \o p
    BY <1>1, <1>2, <1>3, <1>6, EmittedFrame, ZenonT(30)
  <2>2. /\ Station(s') /\ Started(s') /\ (Waiting(s) => Waiting(s'))
        /\ IF m # <<>> THEN s'.segments /\ s'.posted = s.posted /\ s'.tx.message = m
           ELSE ~s'.segments /\ s'.posted = 1
    BY <1>1, <1>6, PriCompletes
  <2>3. s.segments /\ s.posted = 0
    BY <1>1, <1>6 DEF Station, PriOk, SendOk
  <2>4. Latest' = Latest /\ SentOk'
    BY <1>1 DEF IInv, SentOk, Latest
  <2>5. Latest \in sent /\ written \o s.tx.message = Latest /\ written \in Seq(Octets)
    BY <2>3 DEF IInv, WrittenOk
  <2>6. written' \in Seq(Octets) /\ written' \o m = Latest
    BY <1>1, <2>1, <2>5, SegmentWritten, ZenonT(30) DEF Station
  <2>7. m = <<>> => written' = Latest
    BY <2>6, ConcatEmptySeq
  <2> HIDE DEF m
  <2>8. WrittenOk'
    <3>1. CASE m = <<>>
      <4>1. ~s'.segments /\ written' = Latest /\ Latest' \in sent' /\ Latest' = Latest
        BY <1>1, <2>2, <2>4, <2>5, <2>7, <3>1
      <4> QED BY <2>6, <4>1 DEF WrittenOk
    <3>2. CASE m # <<>>
      <4>1. s'.tx.message = m /\ s'.posted = 0 /\ Latest' \in sent' /\ Latest' = Latest
        BY <1>1, <2>2, <2>3, <2>4, <2>5, <3>2
      <4> QED BY <2>6, <3>2, <4>1 DEF WrittenOk
    <3> QED BY <3>1, <3>2
  <2> QED BY <2>2, <2>4, <2>8 DEF IInv
<1>7. s.mode \in {"Primary", "Secondary"}
  BY <1>1 DEF Station, StationType
<1> QED BY <1>1, <1>4, <1>5, <1>6, <1>7, PriCompletes

\* No frame of the peer is a confirmed broadcast.
NoConfirmedBroadcast == \A f \in Frames : ~(f.broadcast /\ f.func = "CONFIRMED_USER_DATA")

\* Every step preserves the invariant.
LEMMA InvNext ==
  ASSUME Prompt, IInv, [Next]_vars
  PROVE  IInv' /\ (NoConfirmedBroadcast /\ Waiting(s) => Waiting(s)')
<1>0. Station(s) /\ Started(s)
  BY DEF IInv
<1>1. ASSUME Up PROVE IInv' /\ (Waiting(s) => Waiting(s)')
  BY <1>0, <1>1, Upping, CalmStep DEF Up, Step, Quiet
<1>2. ASSUME Down PROVE IInv' /\ (Waiting(s) => Waiting(s)')
  <2>1. s' = OnLowerLayerDown(s) /\ UNCHANGED <<sent, written>>
    BY <1>2 DEF Down, Step, Quiet
  <2>2. Station(s') /\ Started(s') /\ Waiting(s') /\ ~s'.segments /\ s'.posted = s.posted
    BY <1>0, <2>1, Downing
  <2> QED BY <2>1, <2>2, KeepsWritten
<1>3. ASSUME NEW len \in Lengths, Send(len) PROVE IInv' /\ (Waiting(s) => Waiting(s)')
  BY <1>3, SendStep
<1>4. ASSUME NEW n \in 0 .. 2, Written(n) PROVE IInv' /\ (Waiting(s) => Waiting(s)')
  BY <1>4, WrittenStep
<1>5. ASSUME Posted PROVE IInv' /\ (Waiting(s) => Waiting(s)')
  <2>1. s.posted > 0 /\ s' = UpperOnTxReady(s) /\ UNCHANGED <<sent, written>>
    BY <1>5 DEF Posted, RunPosted, Step, Quiet
  <2>2. /\ Station(s') /\ Started(s') /\ (Waiting(s) => Waiting(s'))
        /\ ~s'.segments /\ s'.posted = 0
    BY <1>0, <2>1, PostedRuns
  <2> QED BY <2>1, <2>2, KeepsWritten
<1>6. ASSUME NEW f \in Frames, Receive(f)
      PROVE  IInv' /\ (~(f.broadcast /\ f.func = "CONFIRMED_USER_DATA") => (Waiting(s) => Waiting(s)'))
  <2>1. s.online /\ s' = OnFrame(s, f) /\ UNCHANGED <<sent, written>>
    BY <1>6 DEF Receive, Step, Quiet
  <2>2. f.func \in SecondaryFuncs => ~(s.priBuffer = Request /\ PriBusy(s))
    BY <1>6 DEF Receive, RequestInTransit, SecondaryFuncs, Request, PriBusy
  <2>3. /\ Station(s') /\ Started(s') /\ Keeps(s, s')
        /\ ~(f.broadcast /\ f.func = "CONFIRMED_USER_DATA") => (Waiting(s) => Waiting(s'))
    BY <1>0, <2>1, <2>2, FrameCalm
  <2> QED BY <2>1, <2>3, KeepsWritten DEF Keeps
<1>7. ASSUME ResponseTimeout PROVE IInv' /\ (Waiting(s) => Waiting(s)')
  <2>1. s' = OnResponseTimeout(s) /\ UNCHANGED <<sent, written>>
    BY <1>7 DEF ResponseTimeout, TimerExpires, Step, Quiet
  <2>2. ~(s.priBuffer = Request /\ PriBusy(s))
    BY <1>7 DEF ResponseTimeout, TimerExpires, RequestInTransit, Request, PriBusy
  <2> QED BY <1>0, <2>1, <2>2, TimeoutCalm, CalmStep
<1>8. ASSUME KeepAlive \/ CheckLinkStatus PROVE IInv' /\ (Waiting(s) => Waiting(s)')
  BY <1>0, <1>8, CheckCalm, CalmStep DEF KeepAlive, CheckLinkStatus, Step, Quiet
<1>9. ASSUME UNCHANGED <<s, sent, written>> PROVE IInv' /\ (Waiting(s) => Waiting(s)')
  BY <1>0, <1>9, CalmStep DEF Calm, Keeps
<1>10. CASE \E seq \in 0 .. SeqMod - 1, fir, fin \in BOOLEAN : Stray(seq, fir, fin)
  BY <1>9, <1>10 DEF Stray
<1>11. CASE PeerDown
  BY <1>9, <1>11 DEF PeerDown
<1>12. CASE UNCHANGED vars
  BY <1>9, <1>12 DEF vars
<1>13. CASE \E f \in Frames : Receive(f)
  BY <1>6, <1>13 DEF NoConfirmedBroadcast
<1> QED BY <1>1, <1>2, <1>3, <1>4, <1>5, <1>7, <1>8, <1>10, <1>11, <1>12, <1>13 DEF Next

\* The invariant holds.
LEMMA InvHolds == ASSUME Prompt PROVE Spec => []IInv
<1>1. Init => IInv
  BY InvInit
<1>2. IInv /\ [Next]_vars => IInv'
  BY InvNext
<1> QED BY <1>1, <1>2, PTL DEF Spec

\* FrameIntact: LinkContext formats priTxBuffer and secTxBuffer only while no
\* frame in them is being written or waits for the line, if a link status
\* request is written before it is answered or given up.
THEOREM FrameCorrect == ASSUME Prompt PROVE Spec => []FrameIntact
<1>1. IInv => FrameIntact
  BY DEF IInv, Station, StationType, LineOk, FrameIntact, Buffer
<1> QED BY <1>1, InvHolds, PTL

\* NothingWaits: every path of LinkContext back to PLLS_Idle ends in
\* TryStartTransmission, and none leaves a segment or a keep-alive behind.
THEOREM NothingWaitsCorrect == ASSUME Prompt PROVE Spec => []NothingWaits
<1>1. IInv => NothingWaits
  BY DEF IInv, Started, NothingWaits
<1> QED BY <1>1, InvHolds, PTL

\* ReadyMeansWritten: CompleteSendOperation is reached only when the octets on
\* the line since BeginTransmit are those of the fragment, in order, once.
THEOREM ReadyCorrect == ASSUME Prompt PROVE Spec => []ReadyMeansWritten
<1>1. IInv => ReadyMeansWritten
  <2> SUFFICES ASSUME IInv, s.posted > 0 PROVE sent # {} /\ written = Latest
    BY DEF ReadyMeansWritten
  <2>1. s.posted = 1
    BY DEF IInv, Station, StationType, SendOk
  <2> QED BY <2>1 DEF IInv, WrittenOk
<1> QED BY <1>1, InvHolds, PTL

\* SecondaryWaitsForSomething: without broadcasts that ask for a confirmation,
\* the secondary station is in a TransmitWait state only while an answer of it
\* is being written or waits for the line.
THEOREM SecondaryCorrect ==
  ASSUME Prompt, NoConfirmedBroadcast PROVE Spec => []SecondaryWaitsForSomething
<1> DEFINE J == IInv /\ Waiting(s)
<1>1. Init => J
  BY InvInit
<1>2. J /\ [Next]_vars => J'
  BY InvNext
<1>3. J => SecondaryWaitsForSomething
  BY DEF Waiting, SecBusy, SecondaryWaitsForSomething
<1> QED BY <1>1, <1>2, <1>3, PTL DEF Spec
=============================================================================
