----------------------------- MODULE Outstation -----------------------------
(***************************************************************************)
(* The application layer of an outstation: OContext and its four states.   *)
(*                                                                         *)
(* Everything runs on the channel's strand, so a step of the specification *)
(* is one callback run to completion: the lower layer came up or went      *)
(* down, finished a transmission or received an APDU; the confirm timer    *)
(* expired; the user applied a batch of measurement updates.  The network  *)
(* is not modelled: any message of the set Messages may arrive at any      *)
(* moment, so messages are lost, duplicated, delayed and reordered at will.*)
(***************************************************************************)
EXTENDS OutstationApp

CONSTANTS
  Messages,                 \* APDUs that may arrive
  Broadcasts,               \* broadcast addresses in use on the link
  Batches,                  \* pairs of events (or None) one user update causes
  Detects,                  \* values of the choice `detect'
  Params,                   \* values of OutstationParams
  InitialMask,              \* OutstationParams::unsolClassMask
  StoredFile                \* the file of the file handler, None without a handler

ASSUME BroadcastAddresses ==
  Broadcasts \subseteq {"DontConfirm", "ShallConfirm", "OptionalConfirm"}
ASSUME NoneDiffers == None \notin {"sol", "unsol", "ShallConfirm"}
ASSUME DetectsBoolean == Detects \subseteq BOOLEAN

\* The parameters that matter here: allowUnsolicited,
\* noDefferedReadDuringUnsolicitedNullResponse, and isInfinite and maxNumRetries
\* of numUnsolRetries.
ASSUME ParamsOk ==
  Params \subseteq [unsolicited : BOOLEAN, readInNull : BOOLEAN, infinite : BOOLEAN, retries : Nat]
ASSUME InitialMaskClasses == InitialMask \subseteq Classes
ASSUME BatchEvents ==
  \A p \in Batches : \A e \in {p[1], p[2]} : e = None \/ e \in Types \X Classes

VARIABLE o

----------------------------------------------------------------------------
(* Transmission.                                                           *)

\* OContext::BeginTx.  The field tx names the response on its way, "sol" or
\* "unsol"; None is isTransmitting = false.  A call made while a transmission is
\* under way is refused by the transport layer, and the first one goes on.
BeginTx(x, what) == [x EXCEPT !.tx = IF @ = None THEN what ELSE @]

RestartTimer(x) == [x EXCEPT !.timer = TRUE]
CancelTimer(x) == [x EXCEPT !.timer = FALSE]

CanTransmit(x) == x.online /\ x.tx = None

\* GetResponseIIN, for the response in x.rsp: reading the overflow bit may clear
\* it.
DynamicIIN(x) ==
  (IF x.restart THEN {"restart"} ELSE {})
  \cup (IF UnwrittenClassField(x.buf) # {} THEN {"class"} ELSE {})
  \cup (IF IsOverflown(x.buf) THEN {"overflow"} ELSE {})

GetResponseIIN(x) ==
  [x EXCEPT !.buf = AskOverflown(@), !.rsp.iin = x.reply.err \cup (DynamicIIN(x) \cap IINBits),
            !.reply = NoReply]

\* CheckForBroadcastConfirmation: the bit BROADCAST is reported once, unless a
\* confirmation is mandatory; then every response asks for one.
AsksConfirm(x) == x.broadcast = "ShallConfirm"
ReportBroadcast(x) == IF AsksConfirm(x) THEN x ELSE [x EXCEPT !.broadcast = None]

\* BeginResponseTx for the response that a handler left in x.rsp.
BeginResponseTx(x) ==
  LET con == x.rsp.con \/ AsksConfirm(x)
      r   == [x.rsp EXCEPT !.con = con]
      s   == BeginTx([ReportBroadcast(x) EXCEPT
                        !.sol = r, !.solConfirm = r.seq, !.rsp = None], "sol")
  IN  IF con THEN [RestartTimer(s) EXCEPT !.state = "SolConfirmWait"]
      ELSE [s EXCEPT !.state = "Idle"]

\* BeginUnsolTx.
BeginUnsolTx(x) ==
  BeginTx([ReportBroadcast(x) EXCEPT
             !.unsol = x.rsp, !.rsp = None,
             !.unsolConfirm = x.unsolNum,
             !.unsolNum = NextSeq(@)], "unsol")

UnsolResponse(x, ids) ==
  [Response(TRUE, TRUE, x.unsolNum, ids, None) EXCEPT
     !.uns = TRUE, !.objs = IF ids = {} THEN NoObjects ELSE [k |-> "data"]]

----------------------------------------------------------------------------
(* Responses.                                                              *)

\* RequestHistory::RecordLastProcessedRequest.
RecordRequest(x, m) == [x EXCEPT !.history = [seq |-> m.seq, req |-> m.req]]

RespondToRead(x, m) ==
  LET s == HandleRead(RecordRequest(x, m), m.req, m.seq)
      t == IF s.reply.objs = NoObjects THEN s ELSE [s EXCEPT !.rsp.objs = s.reply.objs]
  IN  BeginResponseTx(GetResponseIIN(t))

RespondToNonRead(x, m) ==
  LET s == HandleNonRead(RecordRequest(x, m), m.req)
  IN  BeginResponseTx(GetResponseIIN(
        [s EXCEPT !.rsp = [Response(FALSE, TRUE, m.seq, {}, m.req)
                             EXCEPT !.objs = s.reply.objs]]))

\* ContinueMultiFragResponse; the fragment still answers the same request.
ContinueMultiFragResponse(x, seq) ==
  BeginResponseTx(GetResponseIIN(
    [LoadResponse(x, seq, x.sol.req) EXCEPT !.rsp.fir = FALSE]))

----------------------------------------------------------------------------
(* The states.                                                             *)
UnsolWaits == {"UnsolConfirmWait", "NullUnsolConfirmWait"}

\* Wrong: a request already confirmed can still be repeated.
SolConfirmKeepsHistory(x, m) ==
  IF m.uns \/ m.seq # x.solConfirm THEN x
  ELSE LET s == [CancelTimer(x) EXCEPT !.buf = ClearWritten(@), !.broadcast = None]
       IN  IF HasSelection(s) THEN ContinueMultiFragResponse(s, NextSeq(m.seq))
           ELSE [s EXCEPT !.state = "Idle"]

\* Wrong: the sequence number of the confirmation is not looked at.
SolConfirmAnySequence(x, m) ==
  IF m.uns THEN x
  ELSE LET s == [CancelTimer(x) EXCEPT !.history = None, !.buf = ClearWritten(@), !.broadcast = None]
       IN  IF HasSelection(s) THEN ContinueMultiFragResponse(s, NextSeq(x.solConfirm))
           ELSE [s EXCEPT !.state = "Idle"]

SolConfirmWait_OnConfirm(x, m) ==
  IF m.uns \/ m.seq # x.solConfirm THEN x
  ELSE LET s == [CancelTimer(x) EXCEPT
                   !.history = None,
                   !.buf = ClearWritten(@),
                   !.broadcast = None]
       IN  IF HasSelection(s) THEN ContinueMultiFragResponse(s, NextSeq(m.seq))
           ELSE [s EXCEPT !.state = "Idle"]

\* Wrong: the confirmation of the null response clears events too.
UnsolConfirmAlwaysClears(x, m) ==
  IF ~m.uns \/ m.seq # x.unsolConfirm THEN x
  ELSE [CancelTimer(x) EXCEPT !.history = None, !.broadcast = None,
          !.buf = ClearWritten(@), !.completedNull = TRUE, !.check = TRUE,
          !.state = "Idle"]

UnsolConfirmWait_OnConfirm(x, m) ==
  IF ~m.uns \/ m.seq # x.unsolConfirm THEN x
  ELSE [CancelTimer(x) EXCEPT
          !.history = None,
          !.broadcast = None,
          !.buf = IF x.completedNull THEN ClearWritten(@) ELSE @,
          !.completedNull = TRUE,
          !.check = TRUE,
          !.state = "Idle"]

OnConfirm(x, m) ==
  CASE x.state = "Idle"           -> x
    [] x.state = "SolConfirmWait" -> SolConfirmWait_OnConfirm(x, m)
    [] x.state \in UnsolWaits     -> UnsolConfirmWait_OnConfirm(x, m)

\* NumRetries::Retry, on the counter already incremented.
MayRetry(x) == x.params.infinite \/ x.retries <= x.params.retries

UnsolConfirmWait_OnConfirmTimeout(x) ==
  LET s == [x EXCEPT !.retries = IF @ <= x.params.retries THEN @ + 1 ELSE @]
  IN  IF ~x.completedNull THEN [x EXCEPT !.state = "Idle"]
      ELSE IF MayRetry(s) /\ x.deferred = None THEN BeginTx(RestartTimer(s), "unsol")
      ELSE [s EXCEPT !.buf = Unselect(@), !.state = "Idle"]

OnConfirmTimeout(x) ==
  IF x.state \in UnsolWaits THEN UnsolConfirmWait_OnConfirmTimeout(x)
  ELSE [x EXCEPT !.state = "Idle"]

OnNewRead(x, m) ==
  IF x.state = "UnsolConfirmWait" THEN [x EXCEPT !.deferred = m]
  ELSE IF x.state = "Idle" THEN RespondToRead(x, m)
  ELSE RespondToRead(CancelTimer(x), m)

\* While an unsolicited response waits, the state the response asks for is
\* ignored.
OnNewNonRead(x, m) ==
  CASE x.state = "Idle"           -> RespondToNonRead(x, m)
    [] x.state = "SolConfirmWait" -> RespondToNonRead(CancelTimer(x), m)
    [] x.state \in UnsolWaits     ->
         [RespondToNonRead([x EXCEPT !.deferred = None], m) EXCEPT !.state = x.state]

OnRepeatRead(x, m) ==
  CASE x.state = "Idle"           -> BeginTx(x, "sol")
    [] x.state = "SolConfirmWait" -> BeginTx(RestartTimer(x), "sol")
    [] x.state \in UnsolWaits     -> [x EXCEPT !.deferred = m]

OnRepeatNonRead(x, m) ==
  IF x.state = "SolConfirmWait" THEN BeginTx(CancelTimer(x), "sol") ELSE BeginTx(x, "sol")

OnBroadcastMessage(x, m) ==
  [HandleBroadcast(x, m.req) EXCEPT !.state = "Idle", !.reply = NoReply]

----------------------------------------------------------------------------
(* Requests.                                                               *)

\* ProcessNewRequest.
ProcessNewRequest(x, m) ==
  LET s == [x EXCEPT !.solNum = m.seq]
  IN  IF m.req.fn = "READ" THEN OnNewRead(s, m) ELSE OnNewNonRead(s, m)

\* Wrong: only a READ is recognised when it comes again.
IsRepeatedRead(x, m) ==
  /\ x.history # None
  /\ m.req.fn = "READ" /\ x.solNum = m.seq
  /\ x.history = [seq |-> m.seq, req |-> m.req]

\* OnReceiveSolRequest: a repetition is a request with the sequence number of
\* the last request received that equals the last request processed.
IsRepeat(x, m) ==
  /\ x.history # None
  /\ x.solNum = m.seq
  /\ x.history = [seq |-> m.seq, req |-> m.req]

OnReceiveSolRequest(x, m) ==
  IF ~IsRepeat(x, m) THEN ProcessNewRequest(x, m)
  ELSE IF m.req.fn = "READ" THEN OnRepeatRead(x, m)
  ELSE OnRepeatNonRead(x, m)

ProcessRequest(x, m) == IF m.uns THEN x ELSE OnReceiveSolRequest(x, m)

\* ProcessObjects.
ProcessObjects(x, m) ==
  IF m.dest \in Broadcasts THEN OnBroadcastMessage(x, m)
  ELSE IF m.req.fn \in NoAckFunctions THEN [HandleNoAck(x, m.req) EXCEPT !.reply = NoReply]
  ELSE IF x.tx # None THEN [x EXCEPT !.deferred = m]
  ELSE IF m.req.fn = "CONFIRM" THEN OnConfirm(x, m)
  ELSE ProcessRequest(x, m)

\* ProcessMessage.  A broadcast is remembered before its header is parsed.
ProcessMessage(x, m) ==
  LET s == IF m.dest \in Broadcasts THEN [x EXCEPT !.broadcast = m.dest] ELSE x
  IN  IF m.dest # "other" /\ m.wellformed THEN ProcessObjects(s, m) ELSE s

----------------------------------------------------------------------------
(* Tasks, in order of priority.                                            *)

\* CheckForDeferredRequest and ProcessDeferredRequest: a READ has to wait
\* until no confirmation is outstanding.
CheckForDeferredRequest(x) ==
  LET m == x.deferred IN
  IF ~CanTransmit(x) \/ m = None THEN x
  ELSE IF m.req.fn = "CONFIRM" THEN [OnConfirm(x, m) EXCEPT !.deferred = None]
  ELSE IF m.req.fn = "READ" /\ x.state # "Idle" THEN x
  ELSE [ProcessRequest(x, m) EXCEPT !.deferred = None]

CanStartUnsolicited(x) == CanTransmit(x) /\ x.state = "Idle" /\ x.params.unsolicited

CheckForUnsolicitedNull(x) ==
  IF CanStartUnsolicited(x) /\ ~x.completedNull
  THEN BeginUnsolTx(
         [RestartTimer(GetResponseIIN([x EXCEPT !.rsp = UnsolResponse(x, {})])) EXCEPT
            !.state = IF x.params.readInNull THEN "NullUnsolConfirmWait"
                      ELSE "UnsolConfirmWait"])
  ELSE x

CheckForUnsolicited(x) ==
  LET s == [x EXCEPT !.check = FALSE]
      b == SelectByClass(Unselect(x.buf), x.mask, Cardinality(Ids(x.buf)))
  IN  IF ~(x.check /\ CanStartUnsolicited(x)) THEN x
      ELSE IF ~x.completedNull \/ x.mask \cap UnwrittenClassField(x.buf) = {} THEN s
      ELSE BeginUnsolTx(
             [RestartTimer(GetResponseIIN(
                [s EXCEPT !.buf = Load(b, FragSize),
                          !.rsp = UnsolResponse(x, Written(b, FragSize))]))
                EXCEPT !.retries = 0, !.state = "UnsolConfirmWait"])

\* Wrong: the request that was put off comes last.
CheckDeferredLast(x) ==
  CheckForDeferredRequest(CheckForUnsolicited(CheckForUnsolicitedNull(x)))

CheckForTaskStart(x) ==
  CheckForUnsolicited(CheckForUnsolicitedNull(CheckForDeferredRequest(x)))

----------------------------------------------------------------------------
(* The specification.                                                      *)
Init ==
  \E p \in Params :
  o = [params |-> p, state |-> "Idle", online |-> FALSE, tx |-> None,
       timer |-> FALSE, check |-> FALSE, completedNull |-> FALSE,
       solNum |-> 0, solConfirm |-> 0, unsolNum |-> 0, unsolConfirm |-> 0,
       sol |-> Response(FALSE, TRUE, 0, {}, None),
       unsol |-> Response(FALSE, TRUE, 0, {}, None),
       rsp |-> None, history |-> None, deferred |-> None, broadcast |-> None,
       retries |-> 0, mask |-> InitialMask, restart |-> TRUE,
       control |-> [selected |-> FALSE, seq |-> 0, objects |-> None, fresh |-> FALSE,
                    uses |-> 0],
       time |-> [valid |-> FALSE, seq |-> 0],
       points |-> {}, buf |-> EmptyBuffer, reply |-> NoReply, detect |-> FALSE, ran |-> 0,
       store |-> IF StoredFile = None THEN None ELSE NewStore(StoredFile)]

\* One callback: the choice `detect' is made, Handler runs, and the choice is
\* forgotten.
Callback(x) == o' = [x EXCEPT !.detect = FALSE]
Choose(d) == [o EXCEPT !.detect = d]

\* There is something to choose if a control or a freeze may be processed.
Choices(m) ==
  IF m # None /\ m.req.fn \in ControlFunctions \cup FreezeFunctions THEN Detects ELSE {FALSE}

OnLowerLayerUp ==
  /\ ~o.online
  /\ Callback(CheckForTaskStart([o EXCEPT !.online = TRUE, !.check = TRUE]))

\* Sequence numbers, the broadcast flag, the control and time state, the
\* selection of static points and the flag `check' survive.
OnLowerLayerDown ==
  /\ o.online
  /\ Callback([CancelTimer(o) EXCEPT
        !.state = "Idle", !.online = FALSE, !.tx = None,
        !.completedNull = FALSE, !.history = None, !.deferred = None,
        !.buf = Unselect(@)])

OnTxReady ==
  /\ o.online /\ o.tx # None
  /\ \E d \in Choices(o.deferred) :
       Callback(CheckForTaskStart([Choose(d) EXCEPT !.tx = None]))

OnReceive(m) ==
  /\ o.online
  /\ \E d \in Choices(m) \cup Choices(o.deferred) : Callback(CheckForTaskStart(ProcessMessage(Choose(d), m)))

\* The lambda of RestartSolConfirmTimer and RestartUnsolConfirmTimer.
OnTimeout ==
  /\ o.timer
  /\ \E d \in Choices(o.deferred) :
       Callback(CheckForTaskStart(OnConfirmTimeout(CancelTimer(Choose(d)))))

\* OutstationStack::Apply: a batch of updates, of which up to two cause
\* events, then HandleNewEvents.
UpdateIf(b, e) == IF e = None THEN b ELSE Update(b, e[1], e[2])

Apply(p) ==
  /\ o.buf.next + 1 <= MaxEvents
  /\ Callback(CheckForTaskStart(
       [o EXCEPT !.buf = UpdateIf(UpdateIf(@, p[1]), p[2]), !.check = TRUE]))

\* SetRestartIIN, called by the user.
SetRestartIIN == Callback([o EXCEPT !.restart = TRUE])

\* selectTimeout elapses.
SelectionExpires ==
  /\ o.control.selected /\ o.control.fresh
  /\ Callback([o EXCEPT !.control.fresh = FALSE])

\* What happens without a message.
Local ==
  \/ OnLowerLayerUp
  \/ OnLowerLayerDown
  \/ OnTxReady
  \/ OnTimeout
  \/ \E p \in Batches : Apply(p)
  \/ SetRestartIIN
  \/ SelectionExpires

Next == Local \/ \E m \in Messages : OnReceive(m)

Spec == Init /\ [][Next]_o

----------------------------------------------------------------------------
(* Properties.                                                             *)
Seqs == 0 .. SeqCount - 1

\* ClearWritten removes every written event (OutstationStates.cpp:99 and 191),
\* so while a confirmation can trigger it, every written event must be in the
\* very response that the confirmation is for.
WrittenAreCarried ==
  /\ o.state = "SolConfirmWait" => InState(o.buf, "written") \subseteq o.sol.ids
  /\ o.state \in UnsolWaits /\ o.completedNull =>
       InState(o.buf, "written") \subseteq o.unsol.ids

\* An event is lost only when newer events of its type pushed it out of a full
\* buffer; otherwise it leaves because the response the outstation waits on
\* carried it (EventBuffer.h:77, "called when a transmission succeeds").
NoUnconfirmedLoss == [][
  \A i \in Ids(o.buf) \ Ids(o'.buf) :
    \/ o.state = "SolConfirmWait" /\ i \in o.sol.ids
    \/ o.state \in UnsolWaits /\ o.completedNull /\ i \in o.unsol.ids
    \/ LET t == o.buf.events[i].type IN
       /\ Cardinality(OfType(o'.buf, t)) = Capacity[t]
       /\ \A j \in OfType(o'.buf, t) : i < j]_o

\* When a callback returns nothing that CheckForTaskStart could start is left:
\* no request, null response or unsolicited response waits for an event that
\* has already happened; and whoever waits for a confirmation has the timer that
\* ends the wait.
NothingLeftToStart ==
  /\ o.state # "Idle" => o.timer
  /\ CanTransmit(o) =>
       /\ o.deferred # None => o.deferred.req.fn = "READ" /\ o.state # "Idle"
       /\ o.state = "Idle" /\ o.params.unsolicited => o.completedNull /\ ~o.check

\* The response that a repetition of the last request would get again
\* (BeginRetransmitLastResponse) is the response to that request.
RepeatGetsItsResponse ==
  o.history # None => o.sol.req = o.history.req /\ o.sol.seq = o.history.seq

\* A fragment with FIN was the last one: its confirmation does not continue
\* the response, whatever happened in between.
FinIsLast == o.state = "SolConfirmWait" /\ o.sol.fin => ~HasSelection(o)

\* A command runs after SELECT only for an OPERATE with the sequence number that
\* follows the SELECT's, with the same objects, and before selectTimeout.
OperateFollowsSelect == [][
  o'.control.uses > o.control.uses =>
    /\ o.control.selected /\ o.control.fresh
    /\ \E m \in Messages : /\ m = o.deferred \/ OnReceive(m)
                          /\ m.req.fn = "OPERATE" /\ m.req.tag = o.control.objects
                          /\ m.seq = o.control.seq]_o

\* The LAN procedure sets the time only for a WRITE with the sequence number
\* that follows the one of RECORD_CURRENT_TIME (TestOutstation.cpp:220,
\* "Rejects write with bad sequence number").
LanWriteInSequence == [][
  o.time.valid /\ ~o'.time.valid =>
    /\ \A m \in Messages : OnReceive(m) => m.req.tag = "lan" /\ m.seq = o.time.seq
    /\ OnTxReady => o.deferred # None /\ o.deferred.seq = o.time.seq]_o

=============================================================================
