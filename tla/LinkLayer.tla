----------------------------- MODULE LinkLayer -----------------------------
(***************************************************************************)
(* The data link layer of one station (link/LinkContext.cpp, LinkLayer.cpp *)
(* and the two state machines) with the transport layer that feeds it.     *)
(*                                                                         *)
(* A station is a record s.  Frames are formatted into one buffer for the  *)
(* primary and one for the secondary role; what is handed to the channel,  *)
(* or kept pending, is a reference to that buffer, so a buffer that is     *)
(* formatted again while its frame is being written changes the frame.     *)
(*                                                                         *)
(* Frames to other addresses or with the wrong direction bit are rejected  *)
(* before they reach any of this.                                          *)
(***************************************************************************)
EXTENDS Transport

NewStation ==
  [online |-> FALSE,
   keepAlive |-> FALSE,        \* keepAliveTimeout: a link status request is due
   segments |-> FALSE,         \* pSegments
   mode |-> "Idle",            \* txMode
   pendingPri |-> FALSE, pendingSec |-> FALSE,
   priBuffer |-> None, secBuffer |-> None,
   line |-> None,              \* the frame as it was when the channel got it
   pri |-> "Idle", sec |-> "NotReset",
   fcb |-> FALSE,              \* nextReadFCB
   timer |-> FALSE,            \* rspTimeoutTimer
   callback |-> FALSE,         \* userLinkStatusCallback
   posted |-> 0,               \* calls of upper->OnTxReady in the executor
   sending |-> FALSE,          \* TransportLayer::isSending
   tx |-> NewTx]

Data(segment) == [kind |-> "DATA", segment |-> segment]
Control(kind) == [kind |-> kind]

----------------------------------------------------------------------------
(* Queueing.                                                               *)
Buffer(s, role) == IF role = "Primary" THEN s.priBuffer ELSE s.secBuffer

QueueTransmit(s, role) ==
  CASE s.mode = "Idle" -> [s EXCEPT !.mode = role, !.line = Buffer(s, role)]
    [] s.mode # "Idle" /\ role = "Primary" -> [s EXCEPT !.pendingPri = TRUE]
    [] s.mode # "Idle" /\ role # "Primary" -> [s EXCEPT !.pendingSec = TRUE]

QueueSecondary(s, kind) == QueueTransmit([s EXCEPT !.secBuffer = Control(kind)], "Secondary")
QueueRequestLinkStatus(s) ==
  QueueTransmit([s EXCEPT !.priBuffer = Control("REQUEST_LINK_STATUS")], "Primary")
QueueSegment(s) ==
  LET t == Segmented(s.tx)
  IN  QueueTransmit([s EXCEPT !.tx = t, !.priBuffer = Data(t.segment)], "Primary")

\* TryPendingTx, for the secondary and then for the primary role.
TryPendingTx(s) ==
  CASE s.pendingSec ->
         [s EXCEPT !.mode = "Secondary", !.line = s.secBuffer, !.pendingSec = FALSE]
    [] ~s.pendingSec /\ s.pendingPri ->
         [s EXCEPT !.mode = "Primary", !.line = s.priBuffer, !.pendingPri = FALSE]
    [] ~s.pendingSec /\ ~s.pendingPri -> s

----------------------------------------------------------------------------
(* The primary station.                                                    *)
TrySendRequestLinkStatus(s) ==
  IF s.pri # "Idle" THEN s
  ELSE [QueueRequestLinkStatus([s EXCEPT !.keepAlive = FALSE])
          EXCEPT !.timer = TRUE, !.pri = "RequestLinkStatusWait"]

TrySendUnconfirmed(s) ==
  IF s.pri # "Idle" THEN s
  ELSE [QueueSegment(s) EXCEPT !.pri = "SendUnconfirmedTransmitWait"]

TryStartTransmission(s) ==
  LET x == IF s.keepAlive THEN TrySendRequestLinkStatus(s) ELSE s
  IN  IF x.segments THEN TrySendUnconfirmed(x) ELSE x

\* FailKeepAlive and CompleteKeepAlive, with the timer stopped: the request is
\* answered, or given up.
EndRequest(s) == [s EXCEPT !.timer = FALSE, !.callback = FALSE, !.pri = "Idle"]

\* Wrong: the upper layer is not told.
CompleteSilently(s) == [s EXCEPT !.segments = FALSE, !.pri = "Idle"]

CompleteSendOperation(s) ==
  [s EXCEPT !.segments = FALSE, !.posted = @ + 1, !.pri = "Idle"]

\* Wrong: does not look whether there is another segment.
PriOnTxReadyAtOnce(s) ==
  IF s.pri # "SendUnconfirmedTransmitWait" THEN s
  ELSE CompleteSendOperation([s EXCEPT !.tx = Advance(@)])

PriOnTxReady(s) ==
  LET t == Advance(s.tx) IN
  CASE s.pri # "SendUnconfirmedTransmitWait" -> s
    [] s.pri = "SendUnconfirmedTransmitWait" /\ MoreToSend(t) ->
         QueueSegment([s EXCEPT !.tx = t])
    [] s.pri = "SendUnconfirmedTransmitWait" /\ ~MoreToSend(t) ->
         CompleteSendOperation([s EXCEPT !.tx = t])

----------------------------------------------------------------------------
(* The secondary station.                                                  *)
SecWaits == {"TransmitWaitReset", "TransmitWaitNotReset"}

SecOnTxReady(s) ==
  [s EXCEPT !.sec = CASE @ = "TransmitWaitReset" -> "Reset"
                      [] @ = "TransmitWaitNotReset" -> "NotReset"
                      [] @ \notin SecWaits -> @]

OnResetLinkStates(s) ==
  IF s.sec \in SecWaits THEN s
  ELSE [QueueSecondary(s, "ACK") EXCEPT !.fcb = TRUE, !.sec = "TransmitWaitReset"]

\* Wrong: answers although an answer is still being sent.
OnRequestLinkStatusAlways(s) ==
  [QueueSecondary(s, "LINK_STATUS") EXCEPT
     !.sec = IF s.sec \in {"Reset", "TransmitWaitReset"} THEN "TransmitWaitReset"
             ELSE "TransmitWaitNotReset"]

OnRequestLinkStatus(s) ==
  IF s.sec \in SecWaits THEN s
  ELSE [QueueSecondary(s, "LINK_STATUS") EXCEPT
          !.sec = IF s.sec = "Reset" THEN "TransmitWaitReset" ELSE "TransmitWaitNotReset"]

OnTestLinkStatus(s, fcb) ==
  IF s.sec # "Reset" \/ s.fcb # fcb THEN s
  ELSE [QueueSecondary(s, "ACK") EXCEPT !.fcb = ~s.fcb, !.sec = "TransmitWaitReset"]

\* Wrong: repeated data is not acknowledged.
AckOnlyNewData(s, fcb, broadcast) ==
  IF s.sec # "Reset" THEN s
  ELSE [(IF broadcast \/ s.fcb # fcb THEN s ELSE QueueSecondary(s, "ACK")) EXCEPT
          !.fcb = IF s.fcb = fcb THEN ~fcb ELSE @,
          !.sec = "TransmitWaitReset"]

\* The data itself goes up to TransportLayer::OnReceive if the FCB is new.
OnConfirmedUserData(s, fcb, broadcast) ==
  IF s.sec # "Reset" THEN s
  ELSE [(IF broadcast THEN s ELSE QueueSecondary(s, "ACK")) EXCEPT
          !.fcb = IF s.fcb = fcb THEN ~fcb ELSE @,
          !.sec = "TransmitWaitReset"]

----------------------------------------------------------------------------
(* Callbacks.                                                              *)
OnLowerLayerUp(s) == [s EXCEPT !.online = TRUE]

\* A call in the executor, and the user's callback, outlive the link.
OnLowerLayerDown(s) ==
  [s EXCEPT !.online = FALSE, !.keepAlive = FALSE, !.segments = FALSE, !.mode = "Idle",
            !.line = None, !.pendingPri = FALSE, !.pendingSec = FALSE, !.timer = FALSE,
            !.pri = "Idle", !.sec = "NotReset", !.sending = FALSE]

\* The completion goes to the role that had the line.
OnTxReady(s) ==
  LET x == TryPendingTx([s EXCEPT !.mode = "Idle", !.line = None]) IN
  TryStartTransmission(IF s.mode = "Primary" THEN PriOnTxReady(x) ELSE SecOnTxReady(x))

\* LinkContext::OnFrame.
Handle(s, f) ==
  CASE f.func \in {"ACK", "NACK", "LINK_STATUS", "NOT_SUPPORTED"} ->
         IF s.pri = "RequestLinkStatusWait" THEN EndRequest(s) ELSE s
    [] f.func = "TEST_LINK_STATES"    -> OnTestLinkStatus(s, f.fcb)
    [] f.func = "RESET_LINK_STATES"   -> OnResetLinkStates(s)
    [] f.func = "REQUEST_LINK_STATUS" -> OnRequestLinkStatus(s)
    [] f.func = "CONFIRMED_USER_DATA" -> OnConfirmedUserData(s, f.fcb, f.broadcast)
    [] f.func = "UNCONFIRMED_USER_DATA" -> s

OnFrame(s, f) ==
  IF f.broadcast /\ f.func \notin {"CONFIRMED_USER_DATA", "UNCONFIRMED_USER_DATA"} THEN s
  ELSE TryStartTransmission(Handle(s, f))

\* Wrong: a segment that waited for the link status is not taken up.
TimeoutForgetsSegments(s) ==
  IF s.pri = "RequestLinkStatusWait" THEN EndRequest(s) ELSE s

OnResponseTimeout(s) ==
  TryStartTransmission(
    IF s.pri = "RequestLinkStatusWait" THEN EndRequest(s) ELSE [s EXCEPT !.timer = FALSE])

\* OnKeepAliveTimeout and TriggerLinkStatusCheck.
OnKeepAliveTimeout(s) == TryStartTransmission([s EXCEPT !.keepAlive = TRUE])
TriggerLinkStatusCheck(s) ==
  TryStartTransmission([s EXCEPT !.callback = TRUE, !.keepAlive = TRUE])

\* TransportLayer::BeginTransmit and LinkLayer::Send.
BeginTransmit(s, message) ==
  LET x == [s EXCEPT !.sending = TRUE, !.tx = Configure(@, message)]
  IN  IF x.segments THEN x ELSE TryStartTransmission([x EXCEPT !.segments = TRUE])

\* A posted call: TransportLayer::OnTxReady.
UpperOnTxReady(s) ==
  [s EXCEPT !.posted = @ - 1, !.sending = IF s.online THEN FALSE ELSE @]

=============================================================================
