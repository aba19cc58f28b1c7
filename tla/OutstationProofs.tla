-------------------------- MODULE OutstationProofs --------------------------
(***************************************************************************)
(* What holds of the outstation for all messages, broadcasts, parameters,  *)
(* capacities and sizes.  A callback is a chain of functions of the state, *)
(* so the proof follows the calls: each function gets a lemma that says    *)
(* what it may do to the buffer, to the response that waits or repeats,    *)
(* and to the selection of a command; the lemma on an action puts together *)
(* the lemmas on the calls it makes.  Sound is the inductive invariant.    *)
(***************************************************************************)
EXTENDS Outstation, EventBufferProofs

----------------------------------------------------------------------------
(* The handlers of requests.                                               *)

\* The fields of OContext that the model keeps.
Fields == {"params", "state", "online", "tx", "timer", "check", "completedNull", "solNum",
           "solConfirm", "unsolNum", "unsolConfirm", "sol", "unsol", "rsp", "history",
           "deferred", "broadcast", "retries", "mask", "restart", "control", "time",
           "points", "buf", "reply", "detect", "ran", "store"}

\* What every function of the outstation needs of the state, and keeps.
Sane(x) ==
  /\ DOMAIN x = Fields
  /\ Consistent(x.buf)
  /\ DOMAIN x.control = {"selected", "seq", "objects", "fresh", "uses"} /\ x.control.uses \in Nat
  /\ DOMAIN x.time = {"valid", "seq"}

\* What no handler assigns.
Kept(x, y) ==
  /\ y.params = x.params /\ y.state = x.state /\ y.online = x.online /\ y.tx = x.tx /\ y.timer = x.timer
  /\ y.completedNull = x.completedNull /\ y.solNum = x.solNum /\ y.sol = x.sol /\ y.unsol = x.unsol
  /\ y.history = x.history /\ y.deferred = x.deferred /\ y.broadcast = x.broadcast

\* Only an OPERATE that fits the selection uses it, only a WRITE in sequence the
\* recorded time.
Controls(x, y, q) ==
  /\ y.control.uses > x.control.uses => q.fn = "OPERATE" /\ ValidateSelection(x, q)
  /\ x.time.valid /\ ~y.time.valid => q.fn = "WRITE" /\ q.tag = "lan" /\ x.time.seq = x.solNum

\* What a request may change when it is served.
Serves(x, y, q) ==
  /\ Sane(y) /\ Kept(x, y) /\ Controls(x, y, q)
  /\ Updated(x.buf, y.buf) /\ y.points \subseteq x.points

\* Writing the reply assigns nothing else.
Replied(x, y) ==
  /\ Sane(y) /\ Kept(x, y)
  /\ y.control = x.control /\ y.time = x.time /\ y.buf = x.buf /\ y.points = x.points /\ y.detect = x.detect

\* Reply assigns only the reply.
LEMMA ReplyFields ==
  ASSUME NEW x, Sane(x), NEW objs, NEW err
  PROVE  Replied(x, Reply(x, objs, err))
BY Zenon DEF Replied, Reply, Sane, Kept, Fields

\* A handler that only replies serves its request.
LEMMA RepliedServes ==
  ASSUME NEW x, Sane(x), NEW y, Replied(x, y), NEW q
  PROVE  Serves(x, y, q)
<1>1. Updated(x.buf, x.buf)
  BY NoUpdate, Zenon DEF Sane
<1> QED BY <1>1 DEF Replied, Serves, Controls, Sane

\* A handler that does nothing serves its request.
LEMMA Untouched ==
  ASSUME NEW x, Sane(x), NEW q
  PROVE  Serves(x, x, q)
<1>1. Replied(x, x)
  BY Zenon DEF Replied, Kept
<1> QED BY <1>1, RepliedServes, Zenon

\* An event may be caused.
Detected(x, y) ==
  /\ Sane(y) /\ Kept(x, y) /\ Updated(x.buf, y.buf)
  /\ y.control = x.control /\ y.time = x.time /\ y.points = x.points

\* Detect causes an event or does nothing.
LEMMA DetectFields ==
  ASSUME NEW x, Sane(x), NEW e \in Types \X Classes
  PROVE  Detected(x, Detect(x, e))
<1>1. CASE x.detect /\ x.buf.next <= MaxEvents
  <2> DEFINE b == Update(x.buf, e[1], e[2])
             y == [x EXCEPT !.buf = b]
  <2>1. Updated(x.buf, b) /\ Consistent(b)
    <3>1. Consistent(x.buf) /\ e[1] \in Types /\ e[2] \in Classes
      BY Zenon DEF Sane
    <3> QED BY <3>1, UpdateUpdates, UpdateConsistent, Zenon
  <2> HIDE DEF b
  <2>2. y.buf = b /\ Sane(y) /\ Kept(x, y) /\ y.control = x.control /\ y.time = x.time /\ y.points = x.points
    BY <2>1, Zenon DEF Sane, Kept, Fields
  <2>3. Detect(x, e) = y
    BY <1>1, Zenon DEF Detect, b
  <2> HIDE DEF y
  <2> QED BY <2>1, <2>2, <2>3, Zenon DEF Detected
<1>2. CASE ~(x.detect /\ x.buf.next <= MaxEvents)
  <2>1. Detect(x, e) = x
    BY <1>2, Zenon DEF Detect
  <2> QED BY <2>1, NoUpdate, Zenon DEF Detected, Kept, Sane
<1> QED BY <1>1, <1>2, Zenon

\* Commands that run cause at most an event.
LEMMA ExecuteServes ==
  ASSUME NEW x, Sane(x), NEW q
  PROVE  Serves(x, Execute(x, q), q) /\ Execute(x, q).control = x.control
<1> DEFINE d == Detect(x, CommandEvent)
           r == Reply(d, IF q.tag \in Accepted THEN Echo ELSE Refused, {})
           n == IF r.ran < MaxRuns THEN r.ran + 1 ELSE r.ran
           y == [r EXCEPT !.check = TRUE, !.ran = n]
<1>1. Detected(x, d)
  BY DetectFields, EventKinds, Zenon
<1> HIDE DEF d
<1>2. Replied(d, r)
  BY <1>1, ReplyFields, Zenon DEF Detected
<1> HIDE DEF r, n
<1>3. Replied(r, y)
  BY <1>2, Zenon DEF Replied, Sane, Kept, Fields
<1>4. Execute(x, q) = y
  BY Zenon DEF Execute, d, r, n
<1> HIDE DEF y
<1>5. Sane(y) /\ Kept(x, y) /\ y.control = x.control /\ y.time = x.time /\ y.points = x.points /\ y.buf = d.buf
  BY <1>1, <1>2, <1>3, Zenon DEF Detected, Replied, Kept
<1> QED BY <1>1, <1>4, <1>5 DEF Serves, Controls, Detected, Sane

\* An assignment to other fields is like a reply.
Serving(x, y) == Sane(y) /\ Kept(x, y) /\ y.buf = x.buf /\ y.points \subseteq x.points

\* A handler that leaves the events alone serves its request.
LEMMA ServingServes ==
  ASSUME NEW x, Sane(x), NEW y, Serving(x, y), NEW q, Controls(x, y, q)
  PROVE  Serves(x, y, q)
<1>1. Updated(x.buf, x.buf)
  BY NoUpdate, Zenon DEF Sane
<1> QED BY <1>1, Zenon DEF Serving, Serves

\* HandleSelect uses no selection: it makes one.
LEMMA SelectServes ==
  ASSUME NEW x, Sane(x), NEW q
  PROVE  Serves(x, HandleSelect(x, q), q)
<1> DEFINE r == Reply(x, Echo, {})
           c == [selected |-> TRUE, seq |-> NextSeq(x.solNum), objects |-> q.tag, fresh |-> TRUE, uses |-> 0]
           y == [r EXCEPT !.control = c]
<1>1. \A objs, err : Replied(x, Reply(x, objs, err)) /\ Serves(x, Reply(x, objs, err), q)
  BY ReplyFields, RepliedServes, Zenon
<1>2. Replied(x, r)
  BY <1>1, Zenon
<1> HIDE DEF r
<1>3. DOMAIN c = {"selected", "seq", "objects", "fresh", "uses"} /\ c.uses = 0
  BY Zenon
<1> HIDE DEF c
<1>4. Serving(x, y) /\ y.control = c /\ y.time = x.time
  BY <1>2, <1>3 DEF Serving, Replied, Sane, Kept, Fields
<1> HIDE DEF y
<1>5. Controls(x, y, q)
  BY <1>3, <1>4 DEF Controls, Sane
<1>6. Serves(x, y, q)
  BY <1>4, <1>5, ServingServes, Zenon
<1>7. HandleSelect(x, q) = y \/ \E objs, err : HandleSelect(x, q) = Reply(x, objs, err)
  BY Zenon DEF HandleSelect, Oversized, y, c, r
<1> QED BY <1>1, <1>6, <1>7, Zenon

\* HandleOperate uses the selection only if it fits.
LEMMA OperateServes ==
  ASSUME NEW x, Sane(x), NEW q, q.fn = "OPERATE"
  PROVE  Serves(x, HandleOperate(x, q), q)
<1>1. \A objs, err : Replied(x, Reply(x, objs, err)) /\ Serves(x, Reply(x, objs, err), q)
  BY ReplyFields, RepliedServes, Zenon
<1>2. CASE q.tag = "oversized"
  BY <1>1, <1>2, Zenon DEF HandleOperate, Oversized
<1>3. CASE q.tag # "oversized" /\ ValidateSelection(x, q)
  <2> DEFINE e == Execute(x, q)
             n == IF e.control.uses < 2 THEN e.control.uses + 1 ELSE e.control.uses
             y == [e EXCEPT !.control.uses = n]
  <2>1. Serves(x, e, q) /\ e.control = x.control
    BY ExecuteServes, Zenon
  <2> HIDE DEF e
  <2>2. n \in Nat
    BY <2>1 DEF Serves, Sane
  <2> HIDE DEF n
  <2>3. Sane(y) /\ Kept(x, y) /\ y.buf = e.buf /\ y.points = e.points /\ y.time = e.time
    BY <2>1, <2>2, Zenon DEF Serves, Sane, Kept, Fields
  <2>4. HandleOperate(x, q) = y
    BY <1>3, Zenon DEF HandleOperate, e, n
  <2> HIDE DEF y
  <2> QED BY <1>3, <2>1, <2>3, <2>4, Zenon DEF Serves, Controls
<1>4. CASE q.tag # "oversized" /\ ~ValidateSelection(x, q)
  <2> DEFINE r == Reply(x, Refused, {})
             y == [r EXCEPT !.control.selected = FALSE]
  <2>1. Replied(x, r)
    BY <1>1, Zenon
  <2> HIDE DEF r
  <2>2. Serving(x, y) /\ y.time = x.time /\ y.control.uses = x.control.uses
    BY <2>1, Zenon DEF Serving, Replied, Sane, Kept, Fields
  <2>3. HandleOperate(x, q) = y
    BY <1>4, Zenon DEF HandleOperate, r
  <2> HIDE DEF y
  <2>4. Controls(x, y, q)
    BY <2>2 DEF Controls, Sane
  <2> QED BY <2>2, <2>3, <2>4, ServingServes, Zenon
<1> QED BY <1>2, <1>3, <1>4, Zenon

\* HandleDirectOperate does not look at the selection.
LEMMA DirectOperateServes ==
  ASSUME NEW x, Sane(x), NEW q
  PROVE  Serves(x, HandleDirectOperate(x, q), q)
<1>1. Replied(x, Oversized(x))
  BY ReplyFields, Zenon DEF Oversized
<1> QED BY <1>1, RepliedServes, ExecuteServes, Zenon DEF HandleDirectOperate

\* RECORD_CURRENT_TIME makes the recorded time valid.
LEMMA RecordServes ==
  ASSUME NEW x, Sane(x), NEW q
  PROVE  Serves(x, HandleRecordCurrentTime(x), q)
<1> DEFINE t == [valid |-> TRUE, seq |-> NextSeq(x.solNum)]
           y == [x EXCEPT !.time = t]
<1>1. DOMAIN t = {"valid", "seq"} /\ t.valid = TRUE
  BY Zenon
<1> HIDE DEF t
<1>2. Serving(x, y) /\ y.control = x.control /\ y.time = t
  BY <1>1, Zenon DEF Serving, Sane, Kept, Fields
<1>3. HandleRecordCurrentTime(x) = y
  BY Zenon DEF HandleRecordCurrentTime, t
<1> HIDE DEF y
<1>4. Controls(x, y, q)
  BY <1>1, <1>2 DEF Controls, Sane
<1> QED BY <1>2, <1>3, <1>4, ServingServes, Zenon

\* HandleWrite uses the recorded time only in sequence.
LEMMA WriteServes ==
  ASSUME NEW x, Sane(x), NEW q, q.fn = "WRITE"
  PROVE  Serves(x, HandleWrite(x, q), q)
<1>1. Replied(x, Reply(x, NoObjects, {"param"}))
  BY ReplyFields, Zenon
<1> DEFINE r == [x EXCEPT !.restart = FALSE]
           y == [x EXCEPT !.time.valid = FALSE]
<1>2. Replied(x, r)
  BY Zenon DEF Replied, Sane, Kept, Fields
<1>3. Serving(x, y) /\ y.control = x.control
  BY Zenon DEF Serving, Sane, Kept, Fields
<1>4. ASSUME q.tag = "lan", x.time.seq = x.solNum PROVE Serves(x, y, q)
  <2>1. Controls(x, y, q)
    BY <1>3, <1>4 DEF Controls, Sane
  <2> QED BY <1>3, <2>1, ServingServes, Zenon
<1>5. \/ HandleWrite(x, q) = r \/ HandleWrite(x, q) = x \/ HandleWrite(x, q) = Reply(x, NoObjects, {"param"})
      \/ HandleWrite(x, q) = y /\ q.tag = "lan" /\ x.time.seq = x.solNum
  BY Zenon DEF HandleWrite
<1> HIDE DEF r, y
<1> QED BY <1>1, <1>2, <1>4, <1>5, RepliedServes, Untouched, Zenon

\* ENABLE and DISABLE_UNSOLICITED change only the mask.
LEMMA MaskServes ==
  ASSUME NEW x, Sane(x), NEW q
  PROVE  Serves(x, HandleDisableUnsolicited(x, q), q) /\ Serves(x, HandleEnableUnsolicited(x, q), q)
<1> DEFINE y == [x EXCEPT !.mask = @ \ q.classes]
           z == [x EXCEPT !.mask = @ \cup q.classes, !.check = TRUE]
<1>1. Replied(x, Reply(x, NoObjects, {"param"}))
  BY ReplyFields, Zenon
<1>2. Replied(x, y) /\ Replied(x, z)
  BY Zenon DEF Replied, Sane, Kept, Fields
<1>3. /\ HandleDisableUnsolicited(x, q) \in {y, Reply(x, NoObjects, {"param"})}
      /\ HandleEnableUnsolicited(x, q) \in {z, Reply(x, NoObjects, {"param"})}
  BY Zenon DEF HandleDisableUnsolicited, HandleEnableUnsolicited
<1> HIDE DEF y, z
<1> QED BY <1>1, <1>2, <1>3, RepliedServes, Zenon

\* A freeze may take points from the selection and cause an event.
LEMMA FreezeServes ==
  ASSUME NEW x, Sane(x), NEW q
  PROVE  Serves(x, HandleFreeze(x, q), q)
<1> DEFINE frozen == (x.points \cap Counters) \cup q.points
           d == IF frozen = {} THEN x ELSE Detect(x, FrozenEvent)
           y == [d EXCEPT !.points = @ \ Counters]
<1>1. Replied(x, Reply(x, NoObjects, {"param"}))
  BY ReplyFields, Zenon
<1>2. Detected(x, d)
  <2>1. Detected(x, x)
    BY NoUpdate, Zenon DEF Detected, Kept, Sane
  <2>2. Detected(x, Detect(x, FrozenEvent))
    BY DetectFields, EventKinds, Zenon
  <2> QED BY <2>1, <2>2, Zenon
<1>3. HandleFreeze(x, q) \in {y, Reply(x, NoObjects, {"param"})}
  BY Zenon DEF HandleFreeze
<1> HIDE DEF d
<1>4. Sane(y) /\ Kept(x, y) /\ y.control = x.control /\ y.time = x.time /\ y.buf = d.buf /\ y.points \subseteq x.points
  BY <1>2, Zenon DEF Detected, Sane, Kept, Fields
<1> HIDE DEF y
<1>5. Serves(x, y, q)
  BY <1>2, <1>4 DEF Serves, Controls, Detected, Sane
<1> QED BY <1>1, <1>3, <1>5, RepliedServes, Zenon

\* A file request concerns the file handler only.
LEMMA FileServes ==
  ASSUME NEW x, Sane(x), NEW q
  PROVE  Replied(x, HandleFileRequest(x, q))
<1> DEFINE a == HandleFile(x.store, q)
           r == Reply(x, a.objs, a.err)
           y == [r EXCEPT !.store = a.store]
<1>1. Replied(x, Reply(x, NoObjects, {"func"})) /\ Replied(x, r)
  BY ReplyFields, Zenon
<1>2. HandleFileRequest(x, q) \in {y, Reply(x, NoObjects, {"func"})}
  BY Zenon DEF HandleFileRequest
<1> HIDE DEF a, r
<1>3. Replied(x, y)
  BY <1>1, Zenon DEF Replied, Sane, Kept, Fields
<1> QED BY <1>1, <1>2, <1>3, Zenon

\* HandleNonRead, HandleNoAck and HandleBroadcast choose among them.
LEMMA NonReadServes ==
  ASSUME NEW x, Sane(x), NEW q
  PROVE  Serves(x, HandleNonRead(x, q), q)
<1>1. \A objs, err : Serves(x, Reply(x, objs, err), q)
  BY ReplyFields, RepliedServes, Zenon
<1>2. /\ Serves(x, x, q) /\ Serves(x, HandleFileRequest(x, q), q) /\ Serves(x, HandleFreeze(x, q), q)
      /\ Serves(x, HandleDisableUnsolicited(x, q), q) /\ Serves(x, HandleEnableUnsolicited(x, q), q)
      /\ Serves(x, HandleRecordCurrentTime(x), q) /\ Serves(x, HandleDirectOperate(x, q), q)
      /\ Serves(x, HandleSelect(x, q), q)
  BY Untouched, FileServes, RepliedServes, FreezeServes, MaskServes, RecordServes, DirectOperateServes, SelectServes, Zenon
<1>3. q.fn = "WRITE" => Serves(x, HandleWrite(x, q), q)
  BY WriteServes, Zenon
<1>4. q.fn = "OPERATE" => Serves(x, HandleOperate(x, q), q)
  BY OperateServes, Zenon
<1> DEFINE y == HandleNonRead(x, q)
<1>5. \/ \E objs, err : y = Reply(x, objs, err)
      \/ y \in {x, HandleFileRequest(x, q), HandleFreeze(x, q), HandleDisableUnsolicited(x, q),
                HandleEnableUnsolicited(x, q), HandleRecordCurrentTime(x), HandleDirectOperate(x, q),
                HandleSelect(x, q)}
      \/ q.fn = "WRITE" /\ y = HandleWrite(x, q)
      \/ q.fn = "OPERATE" /\ y = HandleOperate(x, q)
  BY DEF HandleNonRead
<1> HIDE DEF y
<1>6. Serves(x, y, q)
  BY <1>1, <1>2, <1>3, <1>4, <1>5, Zenon
<1> QED BY <1>6, Zenon DEF y

\* A request without a response serves its request.
LEMMA NoAckServes ==
  ASSUME NEW x, Sane(x), NEW q
  PROVE  Serves(x, HandleNoAck(x, q), q)
BY Untouched, ExecuteServes, FreezeServes, Zenon DEF HandleNoAck

\* So does a request to everybody.
LEMMA BroadcastServes ==
  ASSUME NEW x, Sane(x), NEW q
  PROVE  Serves(x, HandleBroadcast(x, q), q)
<1>1. q.fn = "WRITE" => Serves(x, HandleWrite(x, q), q)
  BY WriteServes, Zenon
<1> QED BY <1>1, Untouched, NoAckServes, RecordServes, MaskServes, Zenon DEF HandleBroadcast

----------------------------------------------------------------------------
(* Responses.                                                              *)

\* The fields of a response.
ResponseFields == {"uns", "con", "fir", "fin", "seq", "ids", "objs", "iin", "req"}

\* The response under construction has these parts.
Drafted(r, fin, seq, ids, req) ==
  DOMAIN r = ResponseFields /\ r.fin = fin /\ r.seq = seq /\ r.ids = ids /\ r.req = req

\* What Begin*Tx does not assign either.
Standing(x, y) ==
  /\ y.params = x.params /\ y.online = x.online /\ y.completedNull = x.completedNull
  /\ y.solNum = x.solNum /\ y.deferred = x.deferred

\* GetResponseIIN.
Asked(x, y) ==
  /\ Sane(y) /\ Kept(x, y) /\ y.buf = AskOverflown(x.buf) /\ y.points = x.points
  /\ y.control = x.control /\ y.time = x.time
  /\ DOMAIN y.rsp = DOMAIN x.rsp
  /\ \A f \in DOMAIN x.rsp : f # "iin" => y.rsp[f] = x.rsp[f]

\* GetResponseIIN assigns the IIN of the response and the overflow flag of
\* the buffer.
LEMMA IINFields ==
  ASSUME NEW x, Sane(x)
  PROVE  Asked(x, GetResponseIIN(x))
<1> DEFINE b == AskOverflown(x.buf)
           i == x.reply.err \cup (DynamicIIN(x) \cap IINBits)
           r == [x.rsp EXCEPT !.iin = i]
           y == [x EXCEPT !.buf = b, !.rsp = r, !.reply = NoReply]
<1>1. Consistent(b)
  BY AskOverflownConsistent, Zenon DEF Sane
<1>2. GetResponseIIN(x) = y
  BY Zenon DEF GetResponseIIN
<1>3. DOMAIN r = DOMAIN x.rsp /\ \A f \in DOMAIN x.rsp : f # "iin" => r[f] = x.rsp[f]
  BY Zenon
<1> HIDE DEF b, i, r
<1>4. Sane(y) /\ Kept(x, y) /\ y.buf = b /\ y.points = x.points /\ y.rsp = r /\ y.control = x.control /\ y.time = x.time
  BY <1>1, Zenon DEF Sane, Kept, Fields
<1> HIDE DEF y
<1> QED BY <1>2, <1>3, <1>4, Zenon DEF Asked, b

\* BeginResponseTx.
Responded(x, y) ==
  /\ Sane(y) /\ Standing(x, y) /\ y.unsol = x.unsol /\ y.history = x.history
  /\ y.buf = x.buf /\ y.points = x.points /\ y.control = x.control /\ y.time = x.time
  /\ Drafted(y.sol, x.rsp.fin, x.rsp.seq, x.rsp.ids, x.rsp.req)
  /\ y.tx # None /\ y.broadcast \in {x.broadcast, None}
  /\ y.state = IF x.rsp.con \/ x.broadcast = "ShallConfirm" THEN "SolConfirmWait" ELSE "Idle"
  /\ y.timer = IF x.rsp.con \/ x.broadcast = "ShallConfirm" THEN TRUE ELSE x.timer

\* y is x but for the fields in S.
ButFor(x, y, S) == DOMAIN y = Fields /\ \A f \in Fields \ S : y[f] = x[f]

\* BeginResponseTx: the response becomes the one that is repeated, and the
\* state and the timer follow from whether it asks for a confirmation.
LEMMA BeginFields ==
  ASSUME NEW x, Sane(x), DOMAIN x.rsp = ResponseFields
  PROVE  Responded(x, BeginResponseTx(x))
<1> DEFINE con == x.rsp.con \/ AsksConfirm(x)
           r == [x.rsp EXCEPT !.con = con]
           a == ReportBroadcast(x)
           b == [a EXCEPT !.sol = r, !.solConfirm = r.seq, !.rsp = None]
           c == BeginTx(b, "sol")
           y == IF con THEN [RestartTimer(c) EXCEPT !.state = "SolConfirmWait"] ELSE [c EXCEPT !.state = "Idle"]
<1>1. Drafted(r, x.rsp.fin, x.rsp.seq, x.rsp.ids, x.rsp.req)
  BY Zenon DEF Drafted, ResponseFields
<1>2. BeginResponseTx(x) = y
  BY Zenon DEF BeginResponseTx
<1>3. con = (x.rsp.con \/ x.broadcast = "ShallConfirm")
  BY Zenon DEF AsksConfirm
<1> HIDE DEF r, con
<1>4. ButFor(x, a, {"broadcast"}) /\ a.broadcast \in {x.broadcast, None}
  BY Zenon DEF ButFor, ReportBroadcast, Sane, Fields
<1> HIDE DEF a
<1>5. ButFor(a, b, {"sol", "solConfirm", "rsp"}) /\ b.sol = r
  BY <1>4, ZenonT(30) DEF ButFor, Fields
<1> HIDE DEF b
<1>6. ButFor(b, c, {"tx"}) /\ c.tx # None
  BY <1>5, NoneDiffers, Zenon DEF ButFor, Fields, BeginTx
<1> HIDE DEF c
<1>7. /\ ButFor(c, y, {"state", "timer"})
      /\ y.state = IF con THEN "SolConfirmWait" ELSE "Idle"
      /\ y.timer = IF con THEN TRUE ELSE c.timer
  BY <1>6, ZenonT(30) DEF ButFor, Fields, RestartTimer
<1> HIDE DEF y
<1>8. ButFor(x, y, {"broadcast", "sol", "solConfirm", "rsp", "tx", "state", "timer"})
  BY <1>4, <1>5, <1>6, <1>7, Zenon DEF ButFor
<1>9. y.tx = c.tx /\ y.sol = r /\ y.broadcast = a.broadcast /\ c.timer = x.timer
  BY <1>4, <1>5, <1>6, <1>7, Zenon DEF ButFor, Fields
<1>10. /\ Sane(y) /\ Standing(x, y) /\ y.unsol = x.unsol /\ y.history = x.history
       /\ y.buf = x.buf /\ y.points = x.points /\ y.control = x.control /\ y.time = x.time
  BY <1>8, Zenon DEF ButFor, Fields, Sane, Standing
<1> QED BY <1>1, <1>2, <1>3, <1>4, <1>6, <1>7, <1>9, <1>10, ZenonT(30) DEF Responded

\* A response was started to the request of m.
Answers(x, y, m) ==
  /\ Sane(y) /\ Standing(x, y) /\ y.unsol = x.unsol
  /\ y.history = [seq |-> m.seq, req |-> m.req] /\ y.sol.seq = m.seq /\ y.sol.req = m.req
  /\ y.tx # None /\ y.broadcast \in {x.broadcast, None}

\* RespondToNonRead remembers the request and its response together, and
\* waits for nothing unless a broadcast asked for a confirmation.
LEMMA NonReadAnswers ==
  ASSUME NEW x, Sane(x), NEW m
  PROVE  LET y == RespondToNonRead(x, m) IN
         /\ Answers(x, y, m) /\ Controls(x, y, m.req) /\ Updated(x.buf, y.buf) /\ y.points \subseteq x.points
         /\ x.broadcast # "ShallConfirm" => y.state = "Idle" /\ y.timer = x.timer
         /\ y.state \in {"Idle", "SolConfirmWait"}
<1> DEFINE h == [seq |-> m.seq, req |-> m.req]
           a == RecordRequest(x, m)
           b == HandleNonRead(a, m.req)
           r == [Response(FALSE, TRUE, m.seq, {}, m.req) EXCEPT !.objs = b.reply.objs]
           c == [b EXCEPT !.rsp = r]
           d == GetResponseIIN(c)
           y == BeginResponseTx(d)
<1>1. ButFor(x, a, {"history"}) /\ a.history = h
  BY Zenon DEF ButFor, Fields, RecordRequest, Sane
<1> HIDE DEF a, h
<1>2. Sane(a)
  BY <1>1, Zenon DEF ButFor, Fields, Sane
<1>3. Serves(a, b, m.req)
  BY <1>2, NonReadServes, Zenon
<1> HIDE DEF b
<1>4. Drafted(r, TRUE, m.seq, {}, m.req) /\ r.con = FALSE
  BY Zenon DEF Drafted, Response, ResponseFields
<1> HIDE DEF r
<1>5. ButFor(b, c, {"rsp"}) /\ c.rsp = r
  BY <1>3, Zenon DEF ButFor, Fields, Serves, Sane
<1> HIDE DEF c
<1>6. Sane(c) /\ Kept(b, c) /\ c.buf = b.buf /\ c.points = b.points /\ c.control = b.control /\ c.time = b.time
  BY <1>3, <1>5, Zenon DEF ButFor, Fields, Serves, Sane, Kept
<1>7. Asked(c, d)
  BY <1>6, IINFields, Zenon
<1> HIDE DEF d
<1>8. DOMAIN d.rsp = ResponseFields /\ Drafted(d.rsp, TRUE, m.seq, {}, m.req) /\ d.rsp.con = FALSE /\ Sane(d)
  BY <1>4, <1>5, <1>7, Zenon DEF Asked, Drafted, ResponseFields
<1>9. Responded(d, y)
  BY <1>8, BeginFields, Zenon
<1>10. RespondToNonRead(x, m) = y
  BY Zenon DEF RespondToNonRead, y, d, c, r, b, a
<1> HIDE DEF y
<1>11. Kept(a, d) /\ d.points \subseteq x.points
  BY <1>1, <1>3, <1>6, <1>7, Zenon DEF Kept, Serves, Asked, ButFor, Fields
<1>12. Updated(x.buf, d.buf)
  <2>1. Consistent(x.buf) /\ Updated(x.buf, c.buf) /\ Consistent(c.buf)
    BY <1>1, <1>3, <1>6, Zenon DEF Serves, Sane, ButFor, Fields
  <2>2. Updated(c.buf, d.buf)
    BY <1>7, <2>1, AskUpdates, Zenon DEF Asked
  <2> QED BY <2>1, <2>2, UpdatedTwice, Zenon
<1>13. Controls(x, y, m.req)
  <2>1. x.control = a.control /\ x.time = a.time /\ x.solNum = a.solNum
    BY <1>1, Zenon DEF ButFor, Fields
  <2>2. y.control = b.control /\ y.time = b.time
    BY <1>6, <1>7, <1>9, Zenon DEF Asked, Responded
  <2> QED BY <1>3, <2>1, <2>2, Zenon DEF Serves, Controls, ValidateSelection
<1>14. Answers(x, y, m)
  BY <1>1, <1>8, <1>9, <1>11, ZenonT(30) DEF Answers, Responded, Kept, Standing, ButFor, Fields, Drafted, h
<1>15. /\ Updated(x.buf, y.buf) /\ y.points \subseteq x.points /\ y.state \in {"Idle", "SolConfirmWait"}
       /\ x.broadcast # "ShallConfirm" => y.state = "Idle" /\ y.timer = x.timer
  BY <1>1, <1>8, <1>9, <1>11, <1>12, Zenon DEF Responded, Kept, ButFor, Fields
<1> QED BY <1>10, <1>13, <1>14, <1>15, Zenon

\* What the handlers of a READ leave alone.
Selects(x, y) ==
  /\ Sane(y) /\ Kept(x, y) /\ SameRecords(x.buf, y.buf) /\ y.control = x.control /\ y.time = x.time

\* The fragment that was built holds what is written, and is the last one only if
\* nothing is left to write.
Fragment(y, r) ==
  /\ InState(y.buf, "written") \subseteq r.ids
  /\ r.fin => ~HasSelection(y)

\* LoadResponse: FIN is set only if no event and no point is left, and the
\* fragment holds what is newly written.
LEMMA LoadResponseFields ==
  ASSUME NEW x, Sane(x), NEW seq, NEW req
  PROVE  LET y == LoadResponse(x, seq, req) IN
         /\ Selects(x, y) /\ DOMAIN y.rsp = ResponseFields /\ y.rsp.seq = seq /\ y.rsp.req = req
         /\ InState(x.buf, "written") = {} => Fragment(y, y.rsp)
<1> DEFINE ids == Written(x.buf, FragSize)
           b == Load(x.buf, FragSize)
           pts == IF HasAnySelection(b) THEN {} ELSE Oldest(x.points, FragSize - Cardinality(ids))
           fin == ~HasAnySelection(b) /\ pts = x.points
           con == ~fin \/ ids # {}
           obj == IF ids = {} /\ pts = {} THEN NoObjects ELSE [k |-> "data"]
           r == [Response(con, fin, seq, ids, req) EXCEPT !.objs = obj]
           y == [x EXCEPT !.buf = b, !.points = @ \ pts, !.rsp = r]
<1>1. LoadResponse(x, seq, req) = y
  BY Zenon DEF LoadResponse
<1>2. SameRecords(x.buf, b) /\ InState(b, "written") = InState(x.buf, "written") \cup ids
  BY LoadKeeps, Zenon DEF Sane
<1>3. fin => ~HasAnySelection(b) /\ pts = x.points
  BY Zenon
<1> HIDE DEF ids, b, pts, con, obj, fin
<1>4. DOMAIN r = ResponseFields /\ r.seq = seq /\ r.req = req /\ r.ids = ids /\ r.fin = fin
  BY Zenon DEF Response, ResponseFields
<1> HIDE DEF r
<1>5. ButFor(x, y, {"buf", "points", "rsp"}) /\ y.buf = b /\ y.points = x.points \ pts /\ y.rsp = r
  BY ZenonT(30) DEF ButFor, Fields, Sane
<1> HIDE DEF y
<1>6. Selects(x, y)
  BY <1>2, <1>5, Zenon DEF Selects, Sane, Kept, SameRecords, ButFor, Fields
<1>7. fin => ~HasSelection(y)
  BY <1>3, <1>5, Zenon DEF HasSelection
<1>8. InState(x.buf, "written") = {} => Fragment(y, r)
  BY <1>2, <1>4, <1>5, <1>7, Zenon DEF Fragment
<1> QED BY <1>1, <1>4, <1>5, <1>6, <1>8, Zenon

\* HandleRead leaves the records alone; a response that asks for a
\* confirmation holds everything written.
LEMMA ReadFields ==
  ASSUME NEW x, Sane(x), NEW q, NEW seq
  PROVE  LET y == HandleRead(x, q, seq) IN
         /\ Selects(x, y) /\ DOMAIN y.rsp = ResponseFields /\ y.rsp.seq = seq /\ y.rsp.req = q
         /\ y.rsp.con => Fragment(y, y.rsp)
<1> DEFINE e == Response(FALSE, TRUE, seq, {}, q)
<1>0. DOMAIN e = ResponseFields /\ e.seq = seq /\ e.req = q /\ e.con = FALSE
  BY Zenon DEF Response, ResponseFields
<1> HIDE DEF e
<1>1. CASE q.tag = "file"
  <2> DEFINE f == HandleFileRequest(x, q)
             y == [f EXCEPT !.rsp = e]
  <2>1. Replied(x, f)
    BY FileServes, Zenon
  <2>2. HandleRead(x, q, seq) = y
    BY <1>1, Zenon DEF HandleRead, e
  <2> HIDE DEF f
  <2>3. ButFor(f, y, {"rsp"}) /\ y.rsp = e
    BY <2>1, Zenon DEF ButFor, Fields, Replied, Sane
  <2> HIDE DEF y
  <2>4. Selects(x, y)
    BY <2>1, <2>3, Zenon DEF Selects, Replied, Sane, Kept, SameRecords, ButFor, Fields
  <2> QED BY <1>0, <2>2, <2>3, <2>4, Zenon
<1>2. CASE q.tag # "file"
  <2> DEFINE b == SelectByClass(Unselect(x.buf), q.classes, q.max)
             s == [x EXCEPT !.buf = b, !.points = q.points]
  <2>1. SameRecords(x.buf, b) /\ InState(b, "written") = {}
    <3> DEFINE u == Unselect(x.buf)
    <3>1. SameRecords(x.buf, u) /\ InState(u, "written") = {}
      BY UnselectKeeps, Zenon DEF Sane
    <3> HIDE DEF u
    <3>2. SameRecords(u, b) /\ InState(b, "written") = InState(u, "written")
      BY <3>1, SelectKeeps, Zenon DEF SameRecords, u
    <3> QED BY <3>1, <3>2, SameTwice
  <2> HIDE DEF b
  <2>2. ButFor(x, s, {"buf", "points"}) /\ s.buf = b
    BY ZenonT(30) DEF ButFor, Fields, Sane
  <2>3. [x EXCEPT !.buf = SelectByClass(Unselect(@), q.classes, q.max), !.points = q.points] = s
    BY Zenon DEF b
  <2> HIDE DEF s
  <2>4. Selects(x, s)
    BY <2>1, <2>2, ZenonT(30) DEF Selects, Sane, Kept, SameRecords, ButFor, Fields
  <2>5. CASE q.tag = "bad"
    <3> DEFINE f == Reply(s, NoObjects, {"param"})
               y == [f EXCEPT !.rsp = e]
    <3>1. Replied(s, f)
      BY <2>4, ReplyFields, Zenon DEF Selects
    <3>2. HandleRead(x, q, seq) = y
      BY <1>2, <2>3, <2>5, ZenonT(30) DEF HandleRead, e
    <3> HIDE DEF f
    <3>3. ButFor(f, y, {"rsp"}) /\ y.rsp = e
      BY <3>1, Zenon DEF ButFor, Fields, Replied, Sane
    <3> HIDE DEF y
    <3>4. Selects(x, y)
      BY <2>4, <3>1, <3>3 DEF Selects, Replied, Sane, Kept, SameRecords, ButFor, Fields
    <3> QED BY <1>0, <3>2, <3>3, <3>4, Zenon
  <2>6. CASE q.tag # "bad"
    <3> DEFINE y == LoadResponse(s, seq, q)
    <3>1. HandleRead(x, q, seq) = y
      BY <1>2, <2>3, <2>6, Zenon DEF HandleRead
    <3>2. /\ Selects(s, y) /\ DOMAIN y.rsp = ResponseFields /\ y.rsp.seq = seq /\ y.rsp.req = q
          /\ Fragment(y, y.rsp)
      BY <2>1, <2>2, <2>4, LoadResponseFields DEF Selects
    <3> HIDE DEF y
    <3>3. Selects(x, y)
      BY <2>4, <3>2, SameTwice, Zenon DEF Selects, Kept
    <3> QED BY <3>1, <3>2, <3>3, Zenon
  <2> QED BY <2>5, <2>6, Zenon
<1> QED BY <1>1, <1>2, Zenon

\* A fragment of a response to a READ is on its way: its confirmation is
\* awaited, and it carries what the confirmation clears.
Solicits(y) ==
  /\ y.state \in {"Idle", "SolConfirmWait"}
  /\ y.state = "SolConfirmWait" => y.timer /\ Fragment(y, y.sol)

\* Where the answers to a READ end.
LEMMA BeginRead ==
  ASSUME NEW x, Sane(x), DOMAIN x.rsp = ResponseFields, x.rsp.con => Fragment(x, x.rsp)
  PROVE  LET y == BeginResponseTx(GetResponseIIN(x)) IN
         /\ Sane(y) /\ Standing(x, y) /\ y.unsol = x.unsol /\ y.history = x.history
         /\ SameRecords(x.buf, y.buf) /\ y.control = x.control /\ y.time = x.time
         /\ y.sol.seq = x.rsp.seq /\ y.sol.req = x.rsp.req
         /\ y.tx # None /\ y.broadcast \in {x.broadcast, None}
         /\ y.state \in {"Idle", "SolConfirmWait"}
         /\ x.broadcast # "ShallConfirm" => Solicits(y)
<1> DEFINE d == GetResponseIIN(x)
           y == BeginResponseTx(d)
<1>1. Asked(x, d)
  BY IINFields, Zenon
<1> HIDE DEF d
<1>2. /\ DOMAIN d.rsp = ResponseFields /\ d.rsp.con = x.rsp.con /\ d.rsp.fin = x.rsp.fin /\ d.rsp.ids = x.rsp.ids
      /\ d.rsp.seq = x.rsp.seq /\ d.rsp.req = x.rsp.req /\ Sane(d)
  BY <1>1, Zenon DEF Asked, ResponseFields
<1>3. Responded(d, y)
  BY <1>2, BeginFields, Zenon
<1> HIDE DEF y
<1>4. /\ SameRecords(x.buf, d.buf) /\ InState(d.buf, "written") = InState(x.buf, "written")
      /\ d.buf.selected = x.buf.selected
  BY <1>1, AskKeeps DEF Asked, Sane
<1>5. HasSelection(y) = HasSelection(x)
  BY <1>1, <1>3, <1>4, Zenon DEF HasSelection, HasAnySelection, Responded, Asked
<1>6. /\ Sane(y) /\ Standing(x, y) /\ y.unsol = x.unsol /\ y.history = x.history
      /\ SameRecords(x.buf, y.buf) /\ y.control = x.control /\ y.time = x.time
      /\ y.sol.seq = x.rsp.seq /\ y.sol.req = x.rsp.req
      /\ y.tx # None /\ y.broadcast \in {x.broadcast, None}
      /\ y.state \in {"Idle", "SolConfirmWait"}
  BY <1>1, <1>2, <1>3, <1>4, Zenon DEF Asked, Responded, Standing, Kept, Drafted
<1>7. ASSUME x.broadcast # "ShallConfirm" PROVE Solicits(y)
  <2>1. y.state = "SolConfirmWait" => d.rsp.con
    BY <1>1, <1>3, <1>7, Zenon DEF Asked, Responded, Kept
  <2>2. y.state = "SolConfirmWait" => y.timer
    BY <1>3, <2>1, Zenon DEF Responded
  <2>3. y.sol.ids = x.rsp.ids /\ y.sol.fin = x.rsp.fin /\ InState(y.buf, "written") = InState(x.buf, "written")
    BY <1>2, <1>3, <1>4, Zenon DEF Responded, Drafted
  <2>4. d.rsp.con => Fragment(y, y.sol)
    BY <1>2, <1>5, <2>3, Zenon DEF Fragment
  <2> QED BY <1>6, <2>1, <2>2, <2>4, Zenon DEF Solicits
<1> QED BY <1>6, <1>7, Zenon DEF y, d

\* RespondToRead remembers the request and its response together, and waits
\* only with a timer and with a fragment that holds what is written.
LEMMA ReadAnswers ==
  ASSUME NEW x, Sane(x), NEW m
  PROVE  LET y == RespondToRead(x, m) IN
         /\ Answers(x, y, m) /\ SameRecords(x.buf, y.buf) /\ y.control = x.control /\ y.time = x.time
         /\ y.state \in {"Idle", "SolConfirmWait"}
         /\ x.broadcast # "ShallConfirm" => Solicits(y)
<1> DEFINE h == [seq |-> m.seq, req |-> m.req]
           a == RecordRequest(x, m)
           s == HandleRead(a, m.req, m.seq)
           t == IF s.reply.objs = NoObjects THEN s ELSE [s EXCEPT !.rsp.objs = s.reply.objs]
           y == BeginResponseTx(GetResponseIIN(t))
<1>1. ButFor(x, a, {"history"}) /\ a.history = h
  BY Zenon DEF ButFor, Fields, RecordRequest, Sane
<1> HIDE DEF a, h
<1>2. Sane(a)
  BY <1>1, Zenon DEF ButFor, Fields, Sane
<1>3. /\ Selects(a, s) /\ DOMAIN s.rsp = ResponseFields /\ s.rsp.seq = m.seq /\ s.rsp.req = m.req
      /\ s.rsp.con => Fragment(s, s.rsp)
  BY <1>2, ReadFields, Zenon
<1>10. RespondToRead(x, m) = y
  BY Zenon DEF RespondToRead, y, t, s, a
<1> HIDE DEF s
<1>4. /\ ButFor(s, t, {"rsp"}) /\ DOMAIN t.rsp = ResponseFields
      /\ t.rsp.seq = s.rsp.seq /\ t.rsp.req = s.rsp.req /\ t.rsp.con = s.rsp.con /\ t.rsp.fin = s.rsp.fin /\ t.rsp.ids = s.rsp.ids
  <2>1. CASE s.reply.objs = NoObjects
    BY <1>3, <2>1, Zenon DEF ButFor, Selects, Sane
  <2>2. CASE s.reply.objs # NoObjects
    <3> DEFINE r == [s.rsp EXCEPT !.objs = s.reply.objs]
               z == [s EXCEPT !.rsp = r]
    <3>1. /\ DOMAIN r = ResponseFields /\ r.seq = s.rsp.seq /\ r.req = s.rsp.req /\ r.con = s.rsp.con
          /\ r.fin = s.rsp.fin /\ r.ids = s.rsp.ids
      BY <1>3, Zenon DEF ResponseFields
    <3>2. t = z
      BY <2>2, Zenon
    <3> HIDE DEF r
    <3>3. ButFor(s, z, {"rsp"}) /\ z.rsp = r
      BY <1>3, Zenon DEF ButFor, Fields, Selects, Sane
    <3> HIDE DEF t, z
    <3> QED BY <3>1, <3>2, <3>3, Zenon
  <2> QED BY <2>1, <2>2, Zenon
<1> HIDE DEF t
<1>5. Sane(t) /\ Kept(s, t) /\ t.buf = s.buf /\ t.points = s.points /\ t.control = s.control /\ t.time = s.time
  BY <1>3, <1>4, Zenon DEF Selects, Sane, Kept, ButFor, Fields
<1>6. t.rsp.con => Fragment(t, t.rsp)
  BY <1>3, <1>4, <1>5, Zenon DEF Fragment, HasSelection
<1>7. /\ Sane(y) /\ Standing(t, y) /\ y.unsol = t.unsol /\ y.history = t.history
      /\ SameRecords(t.buf, y.buf) /\ y.control = t.control /\ y.time = t.time
      /\ y.sol.seq = t.rsp.seq /\ y.sol.req = t.rsp.req
      /\ y.tx # None /\ y.broadcast \in {t.broadcast, None}
      /\ y.state \in {"Idle", "SolConfirmWait"}
      /\ t.broadcast # "ShallConfirm" => Solicits(y)
  BY <1>4, <1>5, <1>6, BeginRead, Zenon
<1> HIDE DEF y
<1>8. /\ SameRecords(x.buf, y.buf) /\ y.control = x.control /\ y.time = x.time /\ t.broadcast = x.broadcast
  BY <1>1, <1>3, <1>5, <1>7, SameTwice DEF Selects, ButFor, Fields, Kept
<1>9. Answers(x, y, m)
  BY <1>1, <1>3, <1>4, <1>5, <1>7, <1>8 DEF Answers, Standing, Kept, Selects, ButFor, Fields, h
<1> QED BY <1>7, <1>8, <1>9, <1>10, Zenon

\* ContinueMultiFragResponse, after the confirmation cleared what was
\* written.
LEMMA ContinueFields ==
  ASSUME NEW x, Sane(x), NEW seq, InState(x.buf, "written") = {}
  PROVE  LET y == ContinueMultiFragResponse(x, seq) IN
         /\ Sane(y) /\ Standing(x, y) /\ y.unsol = x.unsol /\ y.history = x.history
         /\ SameRecords(x.buf, y.buf) /\ y.control = x.control /\ y.time = x.time
         /\ y.tx # None /\ y.broadcast \in {x.broadcast, None}
         /\ y.state \in {"Idle", "SolConfirmWait"}
         /\ x.broadcast # "ShallConfirm" => Solicits(y)
<1> DEFINE s == LoadResponse(x, seq, x.sol.req)
           r == [s.rsp EXCEPT !.fir = FALSE]
           t == [s EXCEPT !.rsp = r]
           y == BeginResponseTx(GetResponseIIN(t))
<1>1. Selects(x, s) /\ DOMAIN s.rsp = ResponseFields /\ Fragment(s, s.rsp)
  BY LoadResponseFields, ZenonT(30)
<1>2. ContinueMultiFragResponse(x, seq) = y
  BY Zenon DEF ContinueMultiFragResponse
<1> HIDE DEF s
<1>3. DOMAIN r = ResponseFields /\ r.fin = s.rsp.fin /\ r.ids = s.rsp.ids
  BY <1>1, Zenon DEF ResponseFields
<1> HIDE DEF r
<1>4. ButFor(s, t, {"rsp"}) /\ t.rsp = r
  BY <1>1, Zenon DEF ButFor, Fields, Selects, Sane
<1> HIDE DEF t
<1>5. Sane(t) /\ Kept(s, t) /\ t.buf = s.buf /\ t.points = s.points /\ t.control = s.control /\ t.time = s.time
  BY <1>1, <1>4, Zenon DEF Selects, Sane, Kept, ButFor, Fields
<1>6. Fragment(t, t.rsp) /\ DOMAIN t.rsp = ResponseFields
  BY <1>1, <1>3, <1>4, <1>5, Zenon DEF Fragment, HasSelection
<1>7. /\ Sane(y) /\ Standing(t, y) /\ y.unsol = t.unsol /\ y.history = t.history
      /\ SameRecords(t.buf, y.buf) /\ y.control = t.control /\ y.time = t.time
      /\ y.tx # None /\ y.broadcast \in {t.broadcast, None}
      /\ y.state \in {"Idle", "SolConfirmWait"}
      /\ t.broadcast # "ShallConfirm" => Solicits(y)
  BY <1>5, <1>6, BeginRead, Zenon
<1> HIDE DEF y
<1> QED BY <1>1, <1>2, <1>5, <1>7, SameTwice, Zenon DEF Selects, Standing, Kept

----------------------------------------------------------------------------
(* The inductive invariant.                                                *)

\* The states of OutstationStates.
States == {"Idle", "SolConfirmWait", "UnsolConfirmWait", "NullUnsolConfirmWait"}

\* No broadcast asks for a confirmation.
NoMandatory == "ShallConfirm" \notin Broadcasts

\* What a confirmation would clear.
Awaited(x) ==
  IF x.state = "SolConfirmWait" THEN x.sol.ids
  ELSE IF x.state \in UnsolWaits /\ x.completedNull THEN x.unsol.ids ELSE {}

\* A response that repeats is the response to the request that repeats.
Answered(x) == x.history # None => x.sol.req = x.history.req /\ x.sol.seq = x.history.seq

\* The part of the invariant that a broadcast asking for a confirmation breaks.
Careful(x) ==
  /\ x.broadcast # "ShallConfirm"
  /\ x.state # "Idle" => x.timer
  /\ x.state = "SolConfirmWait" => Fragment(x, x.sol) /\ (x.history # None => x.history.req.fn = "READ")
  /\ x.state \in UnsolWaits /\ x.completedNull => InState(x.buf, "written") \subseteq x.unsol.ids

\* What holds also in the middle of a callback.
Good(x) == Sane(x) /\ x.state \in States /\ Answered(x) /\ (NoMandatory => Careful(x))

\* A request that was put off waits for a confirmation.
Patient(x) == CanTransmit(x) /\ x.deferred # None => x.deferred.req.fn = "READ" /\ x.state # "Idle"

\* Nothing unsolicited can be started.
Started(x) == CanTransmit(x) /\ x.state = "Idle" /\ x.params.unsolicited => x.completedNull /\ ~x.check

\* What holds between callbacks: the inductive invariant.
Sound(x) ==
  /\ Good(x) /\ Patient(x) /\ Started(x)
  /\ x.deferred \in {None} \cup Messages
  /\ ~x.online => x.deferred = None

\* The fields that Good does not look at.
Beside == {"params", "online", "tx", "check", "solNum", "solConfirm", "unsolNum", "unsolConfirm", "rsp",
           "deferred", "retries", "mask", "restart", "control", "time", "reply", "detect", "ran", "store"}

\* Good does not look at those fields.
LEMMA GoodFrom ==
  ASSUME NEW x, Good(x), NEW y, ButFor(x, y, Beside), Sane(y)
  PROVE  Good(y)
<1>1. /\ y.state = x.state /\ y.sol = x.sol /\ y.unsol = x.unsol /\ y.buf = x.buf /\ y.points = x.points
      /\ y.history = x.history /\ y.broadcast = x.broadcast /\ y.completedNull = x.completedNull /\ y.timer = x.timer
  BY Zenon DEF ButFor, Fields, Beside
<1>2. HasSelection(y) = HasSelection(x)
  BY <1>1, Zenon DEF HasSelection
<1> QED BY <1>1, <1>2, Zenon DEF Good, Careful, Answered, Fragment

----------------------------------------------------------------------------
(* What a message does.                                                    *)

\* What y has lost was confirmed or pushed out.
Lost(x, y) ==
  \A i \in Ids(x.buf) \ Ids(y.buf) :
    \/ i \in Awaited(x)
    \/ LET t == x.buf.events[i].type IN Full(y.buf, t) /\ \A j \in OfType(y.buf, t) : i < j

\* A selection is used by the OPERATE that follows it, the recorded time by the
\* WRITE that follows it.
Follows(x, y, m) ==
  /\ y.control.uses > x.control.uses =>
       /\ x.control.selected /\ x.control.fresh
       /\ m.req.fn = "OPERATE" /\ m.req.tag = x.control.objects /\ m.seq = x.control.seq
  /\ x.time.valid /\ ~y.time.valid =>
       m.req.fn = "WRITE" /\ m.req.tag = "lan" /\ (m.dest \in Broadcasts \/ m.seq = x.time.seq)

\* What has happened when a request was handled.
Handled(x, y, m) ==
  /\ Good(y) /\ y.params = x.params /\ y.online = x.online
  /\ NoMandatory => Lost(x, y)
  /\ Follows(x, y, m)
  /\ y.tx = None => x.tx = None
  /\ y.deferred \in {x.deferred, None, m}
  /\ y.tx = None /\ y.deferred = m => x.deferred = m \/ m = None \/ m.req.fn = "READ"

\* Records and controls are left alone.
Quiet(x, y) == SameRecords(x.buf, y.buf) /\ y.control = x.control /\ y.time = x.time

\* Nothing is lost by an update, or when the records stay.
LEMMA KeepsAll ==
  ASSUME NEW x, NEW y, SameRecords(x.buf, y.buf) \/ Updated(x.buf, y.buf)
  PROVE  Lost(x, y)
BY Zenon DEF SameRecords, Updated, PushedOut, Lost

\* Who leaves the controls alone uses nothing.
LEMMA QuietFollows ==
  ASSUME NEW x, Sane(x), NEW y, y.control = x.control, y.time = x.time, NEW m
  PROVE  Follows(x, y, m)
BY DEF Follows, Sane

\* A handler compares the selection with the number of the last request: that
\* is the request being processed.
LEMMA ControlsFollow ==
  ASSUME NEW x, NEW y, NEW m, Controls(x, y, m.req), x.solNum = m.seq
  PROVE  Follows(x, y, m)
BY Zenon DEF Follows, Controls, ValidateSelection

\* A fragment stays what it is when events are pushed out.
LEMMA FragmentStays ==
  ASSUME NEW x, Sane(x), NEW y, Updated(x.buf, y.buf), y.points \subseteq x.points, NEW r, Fragment(x, r)
  PROVE  Fragment(y, r)
<1>1. x.buf.selected \in Nat /\ y.buf.selected \in Nat /\ y.buf.selected <= x.buf.selected
  BY Zenon DEF Sane, Updated, Consistent, IsBuffer
<1>2. HasSelection(y) => HasSelection(x)
  BY <1>1 DEF HasSelection, HasAnySelection
<1> QED BY <1>2, Zenon DEF Fragment, Updated

\* A confirmation clears what the response carried, and goes on with the next
\* fragment if there is one.
LEMMA SolConfirmHandled ==
  ASSUME NEW x, Good(x), x.state = "SolConfirmWait", NEW m
  PROVE  Handled(x, SolConfirmWait_OnConfirm(x, m), m)
<1> DEFINE b == ClearWritten(x.buf)
           s == [CancelTimer(x) EXCEPT !.history = None, !.buf = ClearWritten(@), !.broadcast = None]
           z == [s EXCEPT !.state = "Idle"]
           w == ContinueMultiFragResponse(s, NextSeq(m.seq))
<1>1. Sane(x) /\ DOMAIN x = Fields /\ Consistent(x.buf)
  BY Zenon DEF Good, Sane
<1>2. SolConfirmWait_OnConfirm(x, m) \in {x, z, w}
  BY Zenon DEF SolConfirmWait_OnConfirm
<1>3. Consistent(b) /\ InState(b, "written") = {} /\ Ids(x.buf) \ Ids(b) = InState(x.buf, "written")
  BY <1>1, ClearRemoves, Zenon
<1>4. ButFor(x, s, {"timer", "history", "buf", "broadcast"}) /\ s.history = None /\ s.buf = b /\ s.broadcast = None
  BY <1>1, ZenonT(30) DEF ButFor, Fields, CancelTimer
<1> HIDE DEF s, b
<1>5. ButFor(s, z, {"state"}) /\ z.state = "Idle"
  BY <1>4, Zenon DEF ButFor, Fields
<1>6. Sane(s) /\ Sane(z)
  BY <1>1, <1>3, <1>4, <1>5, Zenon DEF Sane, ButFor, Fields
<1>7. /\ Sane(w) /\ Standing(s, w) /\ w.unsol = s.unsol /\ w.history = s.history
      /\ SameRecords(s.buf, w.buf) /\ w.control = s.control /\ w.time = s.time
      /\ w.tx # None /\ w.broadcast \in {s.broadcast, None}
      /\ w.state \in {"Idle", "SolConfirmWait"}
      /\ s.broadcast # "ShallConfirm" => Solicits(w)
  BY <1>3, <1>4, <1>6, ContinueFields, Zenon
<1> HIDE DEF z, w
<1>8. NoMandatory => Ids(x.buf) \ Ids(b) \subseteq Awaited(x)
  BY <1>3, Zenon DEF Good, Careful, Fragment, Awaited
<1>9. Handled(x, x, m)
  BY <1>1, QuietFollows, Zenon DEF Handled, Lost
<1>10. Handled(x, z, m)
  <2>1. Good(z)
    BY <1>4, <1>5, <1>6, NoneDiffers, Zenon DEF Good, Careful, ButFor, Fields, States, Answered, UnsolWaits
  <2>2. NoMandatory => Lost(x, z)
    BY <1>4, <1>5, <1>8, Zenon DEF Lost, ButFor, Fields
  <2>3. Follows(x, z, m)
    BY <1>1, <1>4, <1>5, QuietFollows, Zenon DEF ButFor, Fields
  <2> QED BY <1>4, <1>5, <2>1, <2>2, <2>3, Zenon DEF Handled, ButFor, Fields
<1>11. Handled(x, w, m)
  <2>1. Careful(w)
    BY <1>4, <1>7, NoneDiffers, Zenon DEF Careful, Solicits, UnsolWaits
  <2>2. Good(w)
    BY <1>4, <1>7, <2>1, Zenon DEF Good, States, Answered
  <2>3. NoMandatory => Lost(x, w)
    BY <1>4, <1>7, <1>8, Zenon DEF Lost, SameRecords
  <2>4. Follows(x, w, m)
    BY <1>1, <1>4, <1>7, QuietFollows, Zenon DEF ButFor, Fields
  <2> QED BY <1>4, <1>7, <2>2, <2>3, <2>4, Zenon DEF Handled, ButFor, Fields, Standing
<1> QED BY <1>2, <1>9, <1>10, <1>11, Zenon

\* The confirmation of an unsolicited response clears what it carried, unless
\* it was the null response.
LEMMA UnsolConfirmHandled ==
  ASSUME NEW x, Good(x), x.state \in UnsolWaits, NEW m
  PROVE  Handled(x, UnsolConfirmWait_OnConfirm(x, m), m)
<1> DEFINE b == IF x.completedNull THEN ClearWritten(x.buf) ELSE x.buf
           z == [CancelTimer(x) EXCEPT !.history = None, !.broadcast = None,
                   !.buf = IF x.completedNull THEN ClearWritten(@) ELSE @,
                   !.completedNull = TRUE, !.check = TRUE, !.state = "Idle"]
<1>1. Sane(x) /\ DOMAIN x = Fields /\ Consistent(x.buf)
  BY Zenon DEF Good, Sane
<1>2. UnsolConfirmWait_OnConfirm(x, m) \in {x, z}
  BY Zenon DEF UnsolConfirmWait_OnConfirm
<1>3. Consistent(b) /\ (NoMandatory => Ids(x.buf) \ Ids(b) \subseteq Awaited(x))
  <2>1. CASE x.completedNull
    BY <1>1, <2>1, ClearRemoves, Zenon DEF Good, Careful, Awaited, UnsolWaits
  <2>2. CASE ~x.completedNull
    BY <1>1, <2>2, Zenon
  <2> QED BY <2>1, <2>2, Zenon
<1>4. /\ ButFor(x, z, {"timer", "history", "buf", "broadcast", "completedNull", "check", "state"})
      /\ z.history = None /\ z.buf = b /\ z.broadcast = None /\ z.state = "Idle"
  BY <1>1, ZenonT(30) DEF ButFor, Fields, CancelTimer
<1> HIDE DEF b, z
<1>5. Handled(x, x, m)
  BY <1>1, QuietFollows, Zenon DEF Handled, Lost
<1>6. Handled(x, z, m)
  <2>1. Sane(z)
    BY <1>1, <1>3, <1>4, Zenon DEF Sane, ButFor, Fields
  <2>2. Good(z)
    BY <1>4, <2>1, NoneDiffers, Zenon DEF Good, Careful, States, Answered, UnsolWaits
  <2>3. NoMandatory => Lost(x, z)
    BY <1>3, <1>4, Zenon DEF Lost
  <2>4. Follows(x, z, m)
    BY <1>1, <1>4, QuietFollows, Zenon DEF ButFor, Fields
  <2> QED BY <1>4, <2>2, <2>3, <2>4, Zenon DEF Handled, ButFor, Fields
<1> QED BY <1>2, <1>5, <1>6, Zenon

\* OnConfirm, in every state.
LEMMA ConfirmHandled ==
  ASSUME NEW x, Good(x), NEW m
  PROVE  Handled(x, OnConfirm(x, m), m)
<1>1. CASE x.state = "Idle"
  <2>1. Handled(x, x, m)
    BY QuietFollows, Zenon DEF Handled, Lost, Good
  <2> QED BY <1>1, <2>1, Zenon DEF OnConfirm, UnsolWaits
<1>2. CASE x.state = "SolConfirmWait"
  BY <1>2, SolConfirmHandled, Zenon DEF OnConfirm, UnsolWaits
<1>3. CASE x.state \in UnsolWaits
  BY <1>3, UnsolConfirmHandled, Zenon DEF OnConfirm, UnsolWaits
<1> QED BY <1>1, <1>2, <1>3, Zenon DEF Good, States, UnsolWaits

\* Handled only looks at some of the fields.
LEMMA HandledFrom ==
  ASSUME NEW x, NEW s, ButFor(x, s, {"solNum", "broadcast", "detect"}), NEW y, NEW m, Handled(s, y, m)
  PROVE  Handled(x, y, m)
<1>1. /\ s.params = x.params /\ s.online = x.online /\ s.buf = x.buf /\ s.state = x.state /\ s.sol = x.sol
      /\ s.unsol = x.unsol /\ s.completedNull = x.completedNull /\ s.control = x.control /\ s.time = x.time
      /\ s.tx = x.tx /\ s.deferred = x.deferred
  BY Zenon DEF ButFor, Fields
<1>2. Awaited(s) = Awaited(x)
  BY <1>1, Zenon DEF Awaited
<1>3. NoMandatory => Lost(x, y)
  BY <1>1, <1>2, Zenon DEF Handled, Lost
<1>4. Follows(x, y, m)
  BY <1>1, Zenon DEF Handled, Follows
<1> QED BY <1>1, <1>3, <1>4, Zenon DEF Handled

\* A message that is ignored.
LEMMA NothingHandled ==
  ASSUME NEW x, Good(x), NEW m
  PROVE  Handled(x, x, m) /\ Quiet(x, x)
<1>1. Sane(x)
  BY Zenon DEF Good
<1>2. Quiet(x, x)
  BY <1>1, Zenon DEF Quiet, SameRecords, Sane
<1>3. Lost(x, x) /\ Follows(x, x, m)
  BY <1>1, QuietFollows, Zenon DEF Lost
<1> QED BY <1>2, <1>3, Zenon DEF Handled

\* Only the transmission, the timer and the request that was put off change.
LEMMA ResentHandled ==
  ASSUME NEW x, Good(x), NEW y, ButFor(x, y, {"tx", "timer", "deferred"}), NEW m,
         y.tx = None => x.tx = None, y.deferred \in {x.deferred, None, m},
         y.tx = None /\ y.deferred = m => x.deferred = m \/ m = None \/ m.req.fn = "READ",
         NoMandatory /\ x.timer /\ x.state # "Idle" => y.timer
  PROVE  Handled(x, y, m) /\ Quiet(x, y)
<1>1. Sane(x) /\ Sane(y)
  BY Zenon DEF Good, Sane, ButFor, Fields
<1>2. Quiet(x, y)
  BY <1>1, Zenon DEF Quiet, SameRecords, Sane, ButFor, Fields
<1>3. /\ y.state = x.state /\ y.sol = x.sol /\ y.unsol = x.unsol /\ y.buf = x.buf /\ y.points = x.points
      /\ y.history = x.history /\ y.broadcast = x.broadcast /\ y.completedNull = x.completedNull
      /\ y.params = x.params /\ y.online = x.online
  BY Zenon DEF ButFor, Fields
<1>4. NoMandatory => Careful(y)
  <2>1. HasSelection(y) = HasSelection(x)
    BY <1>3, Zenon DEF HasSelection
  <2> QED BY <1>3, <2>1, Zenon DEF Good, Careful, Fragment
<1>5. Good(y)
  BY <1>1, <1>3, <1>4, Zenon DEF Good, Answered
<1>6. Lost(x, y) /\ Follows(x, y, m)
  BY <1>1, <1>2, KeepsAll, QuietFollows, Zenon DEF Quiet
<1> QED BY <1>2, <1>3, <1>5, <1>6, Zenon DEF Handled

\* OnNewRead, in every state: the READ is answered, or put off.
LEMMA NewReadHandled ==
  ASSUME NEW x, Good(x), NEW m, m.req.fn = "READ"
  PROVE  LET y == OnNewRead(x, m) IN Handled(x, y, m) /\ Quiet(x, y)
<1> DEFINE d == [x EXCEPT !.deferred = m]
<1>1. DOMAIN x = Fields /\ Sane(x)
  BY Zenon DEF Good, Sane
<1>2. Handled(x, d, m) /\ Quiet(x, d)
  <2>1. ButFor(x, d, {"tx", "timer", "deferred"}) /\ d.tx = x.tx /\ d.timer = x.timer /\ d.deferred = m
    BY <1>1, Zenon DEF ButFor, Fields
  <2> HIDE DEF d
  <2> QED BY <2>1, ResentHandled, Zenon
<1>3. ASSUME NEW s \in {x, CancelTimer(x)}
      PROVE  Handled(x, RespondToRead(s, m), m) /\ Quiet(x, RespondToRead(s, m))
  <2> DEFINE y == RespondToRead(s, m)
  <2>1. ButFor(x, s, {"timer"})
    BY <1>1, Zenon DEF ButFor, Fields, CancelTimer
  <2>2. Sane(s) /\ s.buf = x.buf /\ s.broadcast = x.broadcast /\ s.control = x.control /\ s.time = x.time
    BY <1>1, <2>1, Zenon DEF Sane, ButFor, Fields
  <2>3. /\ Answers(s, y, m) /\ SameRecords(s.buf, y.buf) /\ y.control = s.control /\ y.time = s.time
        /\ y.state \in {"Idle", "SolConfirmWait"}
        /\ s.broadcast # "ShallConfirm" => Solicits(y)
    BY <2>2, ReadAnswers, Zenon
  <2> HIDE DEF y
  <2>4. NoMandatory => Careful(y)
    BY <2>2, <2>3, NoneDiffers DEF Good, Careful, Solicits, Answers, UnsolWaits
  <2>5. Good(y)
    BY <2>3, <2>4 DEF Good, Answers, Answered, States
  <2>6. Quiet(x, y)
    BY <2>2, <2>3, Zenon DEF Quiet
  <2>7. Lost(x, y) /\ Follows(x, y, m)
    BY <1>1, <2>6, KeepsAll, QuietFollows, Zenon DEF Quiet
  <2>8. y.params = x.params /\ y.online = x.online /\ y.deferred = x.deferred /\ y.tx # None
    BY <2>1, <2>3, Zenon DEF Answers, Standing, ButFor, Fields
  <2> QED BY <2>5, <2>6, <2>7, <2>8, Zenon DEF Handled, y
<1> QED BY <1>2, <1>3, Zenon DEF OnNewRead

\* OnNewNonRead, in every state: while an unsolicited response waits, the
\* wait goes on.
LEMMA NewNonReadHandled ==
  ASSUME NEW x, Good(x), NEW m, x.solNum = m.seq
  PROVE  Handled(x, OnNewNonRead(x, m), m)
<1>1. DOMAIN x = Fields /\ Sane(x)
  BY Zenon DEF Good, Sane
<1>2. ASSUME NEW s, ButFor(x, s, {"timer", "deferred"}), s.deferred \in {x.deferred, None}, NEW y,
             NEW st \in {x.state, RespondToNonRead(s, m).state},
             st \in UnsolWaits => s.timer = x.timer /\ x.state \in UnsolWaits,
             NoMandatory => st \in UnsolWaits \cup {"Idle"}, st \in States,
             ButFor(RespondToNonRead(s, m), y, {"state"}), y.state = st
      PROVE  Handled(x, y, m)
  <2> DEFINE r == RespondToNonRead(s, m)
  <2>1. Sane(s) /\ s.buf = x.buf /\ s.broadcast = x.broadcast /\ s.control = x.control /\ s.time = x.time /\ s.points = x.points
    BY <1>1, <1>2, Zenon DEF Sane, ButFor, Fields
  <2>2. /\ Answers(s, r, m) /\ Controls(s, r, m.req) /\ Updated(s.buf, r.buf) /\ r.points \subseteq s.points
        /\ s.broadcast # "ShallConfirm" => r.state = "Idle" /\ r.timer = s.timer
    BY <2>1, NonReadAnswers, Zenon
  <2>9. ButFor(r, y, {"state"})
    BY <1>2, Zenon
  <2> HIDE DEF r
  <2>3. Sane(y) /\ y.buf = r.buf /\ y.points = r.points /\ y.control = r.control /\ y.time = r.time /\ y.timer = r.timer
    BY <2>2, <2>9, Zenon DEF Sane, ButFor, Fields, Answers
  <2>4. Updated(x.buf, y.buf) /\ y.params = x.params /\ y.online = x.online /\ y.tx # None /\ y.deferred = s.deferred
    BY <1>2, <2>1, <2>2, <2>3, <2>9, Zenon DEF ButFor, Fields, Answers, Standing
  <2>5. ASSUME NoMandatory PROVE Careful(y)
    <3>1. y.broadcast # "ShallConfirm" /\ y.unsol = x.unsol /\ y.completedNull = x.completedNull
      BY <1>2, <2>1, <2>2, <2>5, <2>9, NoneDiffers DEF Good, Careful, Answers, Standing, ButFor, Fields
    <3>2. y.state \in UnsolWaits => x.state \in UnsolWaits /\ y.timer = x.timer
      BY <1>2, <2>1, <2>2, <2>3, <2>5, Zenon DEF Good, Careful
    <3>3. y.state \in UnsolWaits /\ y.completedNull => InState(y.buf, "written") \subseteq y.unsol.ids
      BY <2>4, <2>5, <3>1, <3>2, Zenon DEF Good, Careful, Updated
    <3>4. y.state # "Idle" => y.timer
      BY <1>2, <2>5, <3>2, Zenon DEF Good, Careful, UnsolWaits
    <3> QED BY <1>2, <2>5, <3>1, <3>3, <3>4, Zenon DEF Careful, UnsolWaits
  <2>6. Good(y)
    BY <1>2, <2>2, <2>3, <2>5, <2>9 DEF Good, Answers, Answered, ButFor, Fields
  <2>7. Lost(x, y)
    BY <2>4, KeepsAll, Zenon
  <2>8. Follows(x, y, m)
    <3>1. s.solNum = m.seq /\ s.control = x.control /\ s.time = x.time
      BY <1>2, <2>1, Zenon DEF ButFor, Fields
    <3>2. Follows(s, r, m)
      BY <2>2, <3>1, ControlsFollow, Zenon
    <3> QED BY <2>3, <3>1, <3>2, Zenon DEF Follows
  <2> QED BY <1>2, <2>4, <2>6, <2>7, <2>8, Zenon DEF Handled
<1>3. ASSUME NEW s, ButFor(x, s, {"timer", "deferred"}), s.deferred \in {x.deferred, None}
      PROVE  LET r == RespondToNonRead(s, m) IN
             /\ r.state \in {"Idle", "SolConfirmWait"} /\ DOMAIN r = Fields
             /\ NoMandatory => r.state = "Idle"
  <2>1. Sane(s) /\ s.broadcast = x.broadcast
    BY <1>1, <1>3, Zenon DEF Sane, ButFor, Fields
  <2> DEFINE r == RespondToNonRead(s, m)
  <2>2. /\ Answers(s, r, m) /\ r.state \in {"Idle", "SolConfirmWait"}
        /\ s.broadcast # "ShallConfirm" => r.state = "Idle"
    BY <2>1, NonReadAnswers, Zenon
  <2> HIDE DEF r
  <2>3. DOMAIN r = Fields
    BY <2>2, Zenon DEF Answers, Sane
  <2> QED BY <2>1, <2>2, <2>3, Zenon DEF Good, Careful, r
<1>4. CASE x.state = "Idle"
  <2> DEFINE r == RespondToNonRead(x, m)
  <2>1. ButFor(x, x, {"timer", "deferred"})
    BY <1>1, Zenon DEF ButFor
  <2>2. r.state \in {"Idle", "SolConfirmWait"} /\ DOMAIN r = Fields /\ (NoMandatory => r.state = "Idle")
    BY <1>3, <2>1, Zenon
  <2> HIDE DEF r
  <2>3. ButFor(r, r, {"state"}) /\ r.state \notin UnsolWaits /\ r.state \in States
    BY <2>2, Zenon DEF ButFor, UnsolWaits, States
  <2>4. OnNewNonRead(x, m) = r
    BY <1>4, Zenon DEF OnNewNonRead, r, UnsolWaits
  <2> QED BY <1>2, <2>1, <2>2, <2>3, <2>4, Zenon DEF r
<1>5. CASE x.state = "SolConfirmWait"
  <2> DEFINE s == CancelTimer(x)
             r == RespondToNonRead(s, m)
  <2>1. ButFor(x, s, {"timer", "deferred"}) /\ s.deferred = x.deferred
    BY <1>1, Zenon DEF ButFor, Fields, CancelTimer
  <2> HIDE DEF s
  <2>2. r.state \in {"Idle", "SolConfirmWait"} /\ DOMAIN r = Fields /\ (NoMandatory => r.state = "Idle")
    BY <1>3, <2>1, Zenon
  <2> HIDE DEF r
  <2>3. ButFor(r, r, {"state"}) /\ r.state \notin UnsolWaits /\ r.state \in States
    BY <2>2, Zenon DEF ButFor, UnsolWaits, States
  <2>4. OnNewNonRead(x, m) = r
    BY <1>5, Zenon DEF OnNewNonRead, r, s, UnsolWaits
  <2> QED BY <1>2, <2>1, <2>2, <2>3, <2>4, Zenon DEF r
<1>6. CASE x.state \in UnsolWaits
  <2> DEFINE s == [x EXCEPT !.deferred = None]
             r == RespondToNonRead(s, m)
             y == [r EXCEPT !.state = x.state]
  <2>1. ButFor(x, s, {"timer", "deferred"}) /\ s.deferred = None /\ s.timer = x.timer
    BY <1>1, Zenon DEF ButFor, Fields
  <2> HIDE DEF s
  <2>2. r.state \in {"Idle", "SolConfirmWait"} /\ DOMAIN r = Fields
    BY <1>3, <2>1, Zenon
  <2> HIDE DEF r
  <2>3. ButFor(r, y, {"state"}) /\ y.state = x.state /\ x.state \in States
    BY <2>2, Zenon DEF ButFor, Fields, Good
  <2>4. OnNewNonRead(x, m) = y
    BY <1>6, Zenon DEF OnNewNonRead, r, s, UnsolWaits
  <2> HIDE DEF y
  <2> QED BY <1>2, <1>6, <2>1, <2>3, <2>4, Zenon DEF r
<1> QED BY <1>4, <1>5, <1>6, Zenon DEF Good, States, UnsolWaits

\* A repeated request: only a READ can be waiting for a confirmation, so the
\* timer of a wait is never cancelled.
LEMMA RepeatHandled ==
  ASSUME NEW x, Good(x), NEW m, IsRepeat(x, m)
  PROVE  /\ m.req.fn = "READ" => Handled(x, OnRepeatRead(x, m), m) /\ Quiet(x, OnRepeatRead(x, m))
         /\ m.req.fn # "READ" => Handled(x, OnRepeatNonRead(x, m), m)
<1> DEFINE d == [x EXCEPT !.deferred = m]
<1>1. DOMAIN x = Fields
  BY Zenon DEF Good, Sane
<1>2. m.req.fn = "READ" => Handled(x, d, m) /\ Quiet(x, d)
  <2>1. ButFor(x, d, {"tx", "timer", "deferred"}) /\ d.tx = x.tx /\ d.timer = x.timer /\ d.deferred = m
    BY <1>1, Zenon DEF ButFor, Fields
  <2> HIDE DEF d
  <2> QED BY <2>1, ResentHandled, Zenon
<1>3. ASSUME NEW s, ButFor(x, s, {"timer"}), NoMandatory /\ x.timer /\ x.state # "Idle" => s.timer
      PROVE  Handled(x, BeginTx(s, "sol"), m) /\ Quiet(x, BeginTx(s, "sol"))
  <2> DEFINE y == BeginTx(s, "sol")
  <2>1. ButFor(s, y, {"tx"}) /\ y.tx # None
    BY <1>3, NoneDiffers, Zenon DEF ButFor, Fields, BeginTx
  <2> HIDE DEF y
  <2>2. ButFor(x, y, {"tx", "timer", "deferred"}) /\ y.deferred = x.deferred /\ y.timer = s.timer
    BY <1>3, <2>1, Zenon DEF ButFor, Fields
  <2>3. Handled(x, y, m) /\ Quiet(x, y)
    BY <1>3, <2>1, <2>2, ResentHandled, Zenon
  <2> QED BY <2>3, Zenon DEF y
<1>4. /\ ButFor(x, x, {"timer"}) /\ ButFor(x, RestartTimer(x), {"timer"}) /\ ButFor(x, CancelTimer(x), {"timer"})
      /\ RestartTimer(x).timer
  BY <1>1, Zenon DEF ButFor, Fields, RestartTimer, CancelTimer
<1>5. /\ Handled(x, BeginTx(x, "sol"), m) /\ Quiet(x, BeginTx(x, "sol"))
      /\ Handled(x, BeginTx(RestartTimer(x), "sol"), m) /\ Quiet(x, BeginTx(RestartTimer(x), "sol"))
  BY <1>3, <1>4, Zenon
<1>6. OnRepeatRead(x, m) \in {BeginTx(x, "sol"), BeginTx(RestartTimer(x), "sol"), d}
  BY Zenon DEF OnRepeatRead, Good, States, UnsolWaits
<1>7. ASSUME m.req.fn # "READ", x.state = "SolConfirmWait" PROVE ~NoMandatory
  BY <1>7 DEF IsRepeat, Good, Careful
<1>8. ASSUME m.req.fn # "READ" PROVE Handled(x, OnRepeatNonRead(x, m), m)
  <2>1. CASE x.state = "SolConfirmWait"
    <3>1. Handled(x, BeginTx(CancelTimer(x), "sol"), m)
      BY <1>3, <1>4, <1>7, <1>8, <2>1, Zenon
    <3> QED BY <2>1, <3>1, Zenon DEF OnRepeatNonRead
  <2>2. CASE x.state # "SolConfirmWait"
    BY <1>5, <2>2, Zenon DEF OnRepeatNonRead
  <2> QED BY <2>1, <2>2, Zenon
<1> HIDE DEF d
<1> QED BY <1>2, <1>5, <1>6, <1>8, Zenon

\* ProcessRequest.
LEMMA RequestHandled ==
  ASSUME NEW x, Good(x), NEW m
  PROVE  LET y == ProcessRequest(x, m) IN Handled(x, y, m) /\ (m.req.fn = "READ" => Quiet(x, y))
<1> DEFINE s == [x EXCEPT !.solNum = m.seq]
<1>1. ButFor(x, s, {"solNum"}) /\ s.solNum = m.seq
  BY Zenon DEF ButFor, Fields, Good, Sane
<1>2. ProcessNewRequest(x, m) = IF m.req.fn = "READ" THEN OnNewRead(s, m) ELSE OnNewNonRead(s, m)
  BY Zenon DEF ProcessNewRequest
<1> HIDE DEF s
<1>3. Good(s)
  <2>1. Sane(s)
    BY <1>1, Zenon DEF Sane, ButFor, Fields, Good
  <2>2. ButFor(x, s, Beside)
    BY <1>1, Zenon DEF ButFor, Beside
  <2> QED BY <2>1, <2>2, GoodFrom, Zenon
<1>4. /\ m.req.fn = "READ" => Handled(s, OnNewRead(s, m), m) /\ Quiet(s, OnNewRead(s, m))
      /\ Handled(s, OnNewNonRead(s, m), m)
  BY <1>1, <1>3, NewReadHandled, NewNonReadHandled, Zenon
<1>5. ASSUME NEW y, Handled(s, y, m) PROVE Handled(x, y, m)
  <2>1. ButFor(x, s, {"solNum", "broadcast", "detect"})
    BY <1>1, Zenon DEF ButFor
  <2> QED BY <1>5, <2>1, HandledFrom, Zenon
<1>6. ASSUME NEW y, Quiet(s, y) PROVE Quiet(x, y)
  BY <1>1, <1>6, Zenon DEF Quiet, ButFor, Fields
<1>7. LET y == ProcessNewRequest(x, m) IN Handled(x, y, m) /\ (m.req.fn = "READ" => Quiet(x, y))
  BY <1>2, <1>4, <1>5, <1>6, Zenon
<1>8. IsRepeat(x, m) => /\ m.req.fn = "READ" => Handled(x, OnRepeatRead(x, m), m) /\ Quiet(x, OnRepeatRead(x, m))
                        /\ m.req.fn # "READ" => Handled(x, OnRepeatNonRead(x, m), m)
  BY RepeatHandled, Zenon
<1>9. Handled(x, x, m) /\ Quiet(x, x)
  BY NothingHandled, Zenon
<1> QED BY <1>7, <1>8, <1>9, Zenon DEF ProcessRequest, OnReceiveSolRequest

\* A request without a response, or one to everybody.
LEMMA SilentHandled ==
  ASSUME NEW x, Good(x), NEW m, NEW z, Serves(x, z, m.req), m.req.fn = "OPERATE" => z = x,
         m.req.fn = "WRITE" => m.dest \in Broadcasts, NEW y, ButFor(z, y, {"state", "reply"}), y.state \in {x.state, "Idle"}
  PROVE  Handled(x, y, m)
<1>1. Sane(x) /\ Sane(y)
  BY Zenon DEF Serves, Sane, ButFor, Fields, Good
<1>2. /\ Updated(x.buf, y.buf) /\ y.points \subseteq x.points /\ y.params = x.params /\ y.online = x.online
      /\ y.tx = x.tx /\ y.timer = x.timer /\ y.completedNull = x.completedNull /\ y.sol = x.sol /\ y.unsol = x.unsol
      /\ y.history = x.history /\ y.deferred = x.deferred /\ y.broadcast = x.broadcast /\ y.control = z.control /\ y.time = z.time
  BY Zenon DEF Serves, Kept, ButFor, Fields
<1>3. Lost(x, y)
  BY <1>2, KeepsAll, Zenon
<1>4. Follows(x, y, m)
  BY <1>1, <1>2 DEF Follows, Serves, Controls, Sane
<1>5. ASSUME NEW r, Fragment(x, r) PROVE Fragment(y, r)
  BY <1>1, <1>2, <1>5, FragmentStays, Zenon
<1>6. NoMandatory => Careful(y)
  BY <1>2, <1>5, Zenon DEF Good, Careful, Updated, UnsolWaits
<1>7. Good(y)
  BY <1>1, <1>2, <1>6, Zenon DEF Good, Answered, States
<1> QED BY <1>2, <1>3, <1>4, <1>7, Zenon DEF Handled

\* ProcessMessage: a message is ignored, put off while something is being
\* transmitted, or processed.
LEMMA MessageHandled ==
  ASSUME NEW x, Good(x), NEW m
  PROVE  Handled(x, ProcessMessage(x, m), m)
<1> DEFINE s == IF m.dest \in Broadcasts THEN [x EXCEPT !.broadcast = m.dest] ELSE x
<1>1. ButFor(x, s, {"broadcast"}) /\ (s.broadcast # x.broadcast => s.broadcast \in Broadcasts)
  BY Zenon DEF ButFor, Fields, Good, Sane
<1>2. ProcessMessage(x, m) \in {s, ProcessObjects(s, m)}
  BY Zenon DEF ProcessMessage
<1> HIDE DEF s
<1>3. Good(s)
  <2>1. Sane(s)
    BY <1>1, Zenon DEF Sane, ButFor, Fields, Good
  <2>2. /\ s.state = x.state /\ s.sol = x.sol /\ s.unsol = x.unsol /\ s.buf = x.buf /\ s.points = x.points
        /\ s.history = x.history /\ s.completedNull = x.completedNull /\ s.timer = x.timer
    BY <1>1, Zenon DEF ButFor, Fields
  <2>3. HasSelection(s) = HasSelection(x)
    BY <2>2, Zenon DEF HasSelection
  <2>4. NoMandatory => s.broadcast # "ShallConfirm"
    BY <1>1, Zenon DEF Good, Careful, NoMandatory
  <2> QED BY <2>1, <2>2, <2>3, <2>4, Zenon DEF Good, Careful, Answered, Fragment
<1>4. ASSUME NEW y, Handled(s, y, m) PROVE Handled(x, y, m)
  <2>1. ButFor(x, s, {"solNum", "broadcast", "detect"})
    BY <1>1, Zenon DEF ButFor
  <2> QED BY <1>4, <2>1, HandledFrom, Zenon
<1>5. CASE m.dest \in Broadcasts
  <2> DEFINE z == HandleBroadcast(s, m.req)
             y == [z EXCEPT !.state = "Idle", !.reply = NoReply]
  <2>1. Serves(s, z, m.req)
    BY <1>3, BroadcastServes, Zenon DEF Good
  <2>2. m.req.fn = "OPERATE" => z = s
    BY Zenon DEF HandleBroadcast, NoAckFunctions
  <2>3. ProcessObjects(s, m) = y
    BY <1>5, Zenon DEF ProcessObjects, OnBroadcastMessage
  <2> HIDE DEF z
  <2>4. ButFor(z, y, {"state", "reply"}) /\ y.state = "Idle"
    BY <2>1, Zenon DEF ButFor, Fields, Serves, Sane
  <2> HIDE DEF y
  <2>5. Handled(s, y, m)
    BY <1>3, <1>5, <2>1, <2>2, <2>4, SilentHandled, ZenonT(30)
  <2> QED BY <2>3, <2>5, <1>2, <1>3, <1>4, NothingHandled, Zenon
<1>6. CASE m.dest \notin Broadcasts /\ m.req.fn \in NoAckFunctions
  <2> DEFINE z == HandleNoAck(s, m.req)
             y == [z EXCEPT !.reply = NoReply]
  <2>1. Serves(s, z, m.req)
    BY <1>3, NoAckServes, Zenon DEF Good
  <2>2. ProcessObjects(s, m) = y
    BY <1>6, Zenon DEF ProcessObjects
  <2> HIDE DEF z
  <2>3. ButFor(z, y, {"state", "reply"}) /\ y.state = s.state
    BY <2>1, Zenon DEF ButFor, Fields, Serves, Sane, Kept
  <2> HIDE DEF y
  <2>4. m.req.fn # "OPERATE" /\ m.req.fn # "WRITE"
    BY <1>6, Zenon DEF NoAckFunctions
  <2>5. Handled(s, y, m)
    BY <1>3, <2>1, <2>3, <2>4, SilentHandled, Zenon
  <2> QED BY <2>2, <2>5, <1>2, <1>3, <1>4, NothingHandled, Zenon
<1>7. CASE m.dest \notin Broadcasts /\ m.req.fn \notin NoAckFunctions
  <2> DEFINE d == [s EXCEPT !.deferred = m]
  <2>1. ProcessObjects(s, m) \in {OnConfirm(s, m), ProcessRequest(s, m)} \/ (s.tx # None /\ ProcessObjects(s, m) = d)
    BY <1>7, Zenon DEF ProcessObjects
  <2>2. s.tx # None => Handled(s, d, m)
    <3>1. ButFor(s, d, {"tx", "timer", "deferred"}) /\ d.tx = s.tx /\ d.timer = s.timer /\ d.deferred = m
      BY <1>1, Zenon DEF ButFor, Fields
    <3> HIDE DEF d
    <3> QED BY <1>3, <3>1, ResentHandled, Zenon
  <2>3. Handled(s, OnConfirm(s, m), m) /\ Handled(s, ProcessRequest(s, m), m) /\ Handled(s, s, m)
    BY <1>3, ConfirmHandled, RequestHandled, NothingHandled, Zenon
  <2> HIDE DEF d
  <2> QED BY <1>2, <1>4, <2>1, <2>2, <2>3, Zenon
<1> QED BY <1>5, <1>6, <1>7, Zenon

----------------------------------------------------------------------------
(* Tasks.                                                                  *)

\* BeginUnsolTx: the response under construction becomes the unsolicited one.
LEMMA BeginUnsolFields ==
  ASSUME NEW x, DOMAIN x = Fields
  PROVE  LET y == BeginUnsolTx(x) IN
         /\ ButFor(x, y, {"broadcast", "unsol", "rsp", "unsolConfirm", "unsolNum", "tx"})
         /\ y.unsol = x.rsp /\ y.tx # None /\ y.broadcast \in {x.broadcast, None}
<1> DEFINE a == ReportBroadcast(x)
           b == [a EXCEPT !.unsol = x.rsp, !.rsp = None, !.unsolConfirm = x.unsolNum, !.unsolNum = NextSeq(@)]
           y == BeginTx(b, "unsol")
<1>1. ButFor(x, a, {"broadcast"}) /\ a.broadcast \in {x.broadcast, None}
  BY Zenon DEF ButFor, Fields, ReportBroadcast
<1>2. BeginUnsolTx(x) = y
  BY Zenon DEF BeginUnsolTx
<1> HIDE DEF a
<1>3. ButFor(a, b, {"unsol", "rsp", "unsolConfirm", "unsolNum"}) /\ b.unsol = x.rsp
  BY <1>1, Zenon DEF ButFor, Fields
<1> HIDE DEF b
<1>4. ButFor(b, y, {"tx"}) /\ y.tx # None
  BY <1>3, NoneDiffers, Zenon DEF ButFor, Fields, BeginTx
<1> HIDE DEF y
<1> QED BY <1>1, <1>2, <1>3, <1>4, Zenon DEF ButFor, Fields

\* What a task leaves alone.
Undisturbed(x, y) ==
  Good(y) /\ Quiet(x, y) /\ y.params = x.params /\ y.online = x.online /\ y.deferred = x.deferred

\* An unsolicited response starts: the wait, the timer and the response are set
\* together.
LEMMA UnsolStarts ==
  ASSUME NEW x, Good(x), NEW w, ButFor(x, w, {"buf", "rsp", "check"}), SameRecords(x.buf, w.buf),
         DOMAIN w.rsp = ResponseFields, x.completedNull => InState(w.buf, "written") \subseteq w.rsp.ids,
         NEW e, ButFor(GetResponseIIN(w), e, {"timer", "state", "retries"}), e.timer, e.state \in UnsolWaits
  PROVE  LET y == BeginUnsolTx(e) IN Undisturbed(x, y) /\ y.tx # None
<1> DEFINE d == GetResponseIIN(w)
           y == BeginUnsolTx(e)
<1>1. Sane(w) /\ Sane(x)
  BY Zenon DEF Good, Sane, ButFor, Fields, SameRecords
<1>2. Asked(w, d)
  BY <1>1, IINFields, Zenon
<1> HIDE DEF d
<1>3. SameRecords(w.buf, d.buf) /\ InState(d.buf, "written") = InState(w.buf, "written") /\ d.rsp.ids = w.rsp.ids
  BY <1>1, <1>2, AskKeeps DEF Asked, Sane, ResponseFields
<1>4. DOMAIN e = Fields /\ ButFor(d, e, {"timer", "state", "retries"})
  BY Zenon DEF ButFor, d
<1>5. /\ ButFor(e, y, {"broadcast", "unsol", "rsp", "unsolConfirm", "unsolNum", "tx"})
      /\ y.unsol = e.rsp /\ y.tx # None /\ y.broadcast \in {e.broadcast, None}
  BY <1>4, BeginUnsolFields, Zenon
<1> HIDE DEF y
<1>6. /\ y.buf = d.buf /\ y.state = e.state /\ y.timer /\ y.unsol.ids = w.rsp.ids /\ Sane(y)
      /\ y.control = d.control /\ y.time = d.time /\ y.broadcast \in {d.broadcast, None}
      /\ y.params = d.params /\ y.online = d.online /\ y.deferred = d.deferred
      /\ y.sol = d.sol /\ y.history = d.history /\ y.completedNull = d.completedNull
  BY <1>2, <1>3, <1>4, <1>5 DEF ButFor, Fields, Asked, Sane
<1>7. /\ d.control = x.control /\ d.time = x.time /\ d.broadcast = x.broadcast /\ d.params = x.params
      /\ d.online = x.online /\ d.deferred = x.deferred /\ d.sol = x.sol /\ d.history = x.history
      /\ d.completedNull = x.completedNull
  BY <1>2, Zenon DEF Asked, Kept, ButFor, Fields
<1>8. Quiet(x, y)
  BY <1>3, <1>6, <1>7, SameTwice, Zenon DEF Quiet
<1>9. NoMandatory => Careful(y)
  BY <1>3, <1>6, <1>7, NoneDiffers, Zenon DEF Good, Careful, UnsolWaits
<1>10. Good(y)
  BY <1>6, <1>7, <1>9, Zenon DEF Good, Answered, States, UnsolWaits
<1> QED BY <1>5, <1>6, <1>7, <1>8, <1>10, Zenon DEF Undisturbed, y

\* CheckForUnsolicitedNull starts the null response if it can.
LEMMA NullStarts ==
  ASSUME NEW x, Good(x)
  PROVE  LET y == CheckForUnsolicitedNull(x) IN
         Undisturbed(x, y) /\ (y.tx = None => y = x /\ (CanStartUnsolicited(x) => x.completedNull))
<1> DEFINE y == CheckForUnsolicitedNull(x)
<1>1. Sane(x) /\ DOMAIN x = Fields
  BY Zenon DEF Good, Sane
<1>2. CASE CanStartUnsolicited(x) /\ ~x.completedNull
  <2> DEFINE r == UnsolResponse(x, {})
             w == [x EXCEPT !.rsp = r]
             d == GetResponseIIN(w)
             st == IF x.params.readInNull THEN "NullUnsolConfirmWait" ELSE "UnsolConfirmWait"
             e == [RestartTimer(d) EXCEPT !.state = st]
  <2>1. y = BeginUnsolTx(e)
    BY <1>2, Zenon DEF CheckForUnsolicitedNull
  <2>2. DOMAIN r = ResponseFields
    BY Zenon DEF UnsolResponse, Response, ResponseFields
  <2>3. st \in UnsolWaits
    BY Zenon DEF UnsolWaits
  <2> HIDE DEF r, st
  <2>4. ButFor(x, w, {"buf", "rsp", "check"}) /\ w.rsp = r /\ w.buf = x.buf
    BY <1>1, Zenon DEF ButFor, Fields
  <2> HIDE DEF w
  <2>5. Sane(w) /\ SameRecords(x.buf, w.buf)
    BY <1>1, <2>4, Zenon DEF Sane, SameRecords, ButFor, Fields
  <2>6. DOMAIN d = Fields
    BY <2>5, IINFields, Zenon DEF Asked, Sane
  <2>7. ButFor(d, e, {"timer", "state", "retries"}) /\ e.timer /\ e.state = st
    <3> HIDE DEF d
    <3> QED BY <2>6, Zenon DEF ButFor, Fields, RestartTimer
  <2> HIDE DEF e
  <2>8. Undisturbed(x, BeginUnsolTx(e)) /\ BeginUnsolTx(e).tx # None
    BY <1>2, <2>2, <2>3, <2>4, <2>5, <2>7, UnsolStarts, Zenon
  <2> QED BY <2>1, <2>8, Zenon
<1>3. CASE ~(CanStartUnsolicited(x) /\ ~x.completedNull)
  <2>1. y = x
    BY <1>3, Zenon DEF CheckForUnsolicitedNull
  <2> QED BY <1>3, <2>1, NothingHandled, Zenon DEF Undisturbed
<1> QED BY <1>2, <1>3, Zenon

\* CheckForUnsolicited starts a response with everything that is written, or
\* finds nothing to report.
LEMMA UnsolicitedStarts ==
  ASSUME NEW x, Good(x)
  PROVE  LET y == CheckForUnsolicited(x) IN
         /\ Undisturbed(x, y)
         /\ y.tx = None => ButFor(x, y, {"check"}) /\ (CanStartUnsolicited(x) => ~y.check)
<1> DEFINE y == CheckForUnsolicited(x)
           s == [x EXCEPT !.check = FALSE]
<1>1. Sane(x) /\ DOMAIN x = Fields
  BY Zenon DEF Good, Sane
<1>2. ButFor(x, s, {"check"}) /\ ~s.check
  BY <1>1, Zenon DEF ButFor, Fields
<1>3. CASE ~(x.check /\ CanStartUnsolicited(x))
  <2>1. y = x
    BY <1>3, Zenon DEF CheckForUnsolicited
  <2> QED BY <1>1, <1>3, <2>1, NothingHandled, Zenon DEF Undisturbed, ButFor
<1>4. CASE (x.check /\ CanStartUnsolicited(x)) /\ (~x.completedNull \/ x.mask \cap UnwrittenClassField(x.buf) = {})
  <2>1. y = s
    BY <1>4, Zenon DEF CheckForUnsolicited
  <2> HIDE DEF s
  <2>2. Sane(s)
    BY <1>1, <1>2, Zenon DEF Sane, ButFor, Fields
  <2>3. ButFor(x, s, Beside)
    BY <1>2, Zenon DEF ButFor, Beside
  <2>4. Good(s)
    BY <2>2, <2>3, GoodFrom, Zenon
  <2>5. /\ s.params = x.params /\ s.online = x.online /\ s.deferred = x.deferred /\ s.control = x.control
        /\ s.time = x.time /\ s.buf = x.buf
    BY <1>2, Zenon DEF ButFor, Fields
  <2>6. Quiet(x, s)
    BY <1>1, <2>5, Zenon DEF Quiet, SameRecords, Sane
  <2> QED BY <1>2, <2>1, <2>4, <2>5, <2>6, Zenon DEF Undisturbed
<1>5. CASE (x.check /\ CanStartUnsolicited(x)) /\ ~(~x.completedNull \/ x.mask \cap UnwrittenClassField(x.buf) = {})
  <2> DEFINE u == Unselect(x.buf)
             b == SelectByClass(u, x.mask, Cardinality(Ids(x.buf)))
             l == Load(b, FragSize)
             ids == Written(b, FragSize)
             r == UnsolResponse(x, ids)
             w == [s EXCEPT !.buf = l, !.rsp = r]
             d == GetResponseIIN(w)
             e == [RestartTimer(d) EXCEPT !.retries = 0, !.state = "UnsolConfirmWait"]
  <2>1. y = BeginUnsolTx(e)
    BY <1>5, Zenon DEF CheckForUnsolicited
  <2>2. DOMAIN r = ResponseFields /\ r.ids = ids
    BY Zenon DEF UnsolResponse, Response, ResponseFields
  <2> HIDE DEF r
  <2>3. SameRecords(x.buf, u) /\ InState(u, "written") = {}
    BY <1>1, UnselectKeeps, Zenon DEF Sane
  <2> HIDE DEF u
  <2>4. SameRecords(u, b) /\ InState(b, "written") = InState(u, "written")
    BY <2>3, SelectKeeps, Zenon DEF SameRecords
  <2> HIDE DEF b
  <2>5. SameRecords(b, l) /\ InState(l, "written") = InState(b, "written") \cup ids
    BY <2>4, LoadKeeps, Zenon DEF SameRecords
  <2> HIDE DEF l, ids, s
  <2>6. ButFor(x, w, {"buf", "rsp", "check"}) /\ w.rsp = r /\ w.buf = l
    BY <1>2, Zenon DEF ButFor, Fields
  <2> HIDE DEF w
  <2>7. SameRecords(x.buf, w.buf) /\ InState(w.buf, "written") \subseteq w.rsp.ids
    BY <2>2, <2>3, <2>4, <2>5, <2>6, SameTwice, Zenon
  <2>8. Sane(w)
    BY <1>1, <2>6, <2>7, Zenon DEF Sane, SameRecords, ButFor, Fields
  <2>9. DOMAIN d = Fields
    BY <2>8, IINFields, Zenon DEF Asked, Sane
  <2>10. ButFor(d, e, {"timer", "state", "retries"}) /\ e.timer /\ e.state \in UnsolWaits
    <3> HIDE DEF d
    <3> QED BY <2>9, Zenon DEF ButFor, Fields, RestartTimer, UnsolWaits
  <2> HIDE DEF e
  <2>11. Undisturbed(x, BeginUnsolTx(e)) /\ BeginUnsolTx(e).tx # None
    BY <2>2, <2>6, <2>7, <2>10, UnsolStarts, Zenon
  <2> QED BY <2>1, <2>11, Zenon
<1> QED BY <1>3, <1>4, <1>5, Zenon

\* A request that was put off is a READ, if it can be processed now.
Deferrable(x) == CanTransmit(x) /\ x.deferred # None => x.deferred.req.fn = "READ"

\* CheckForDeferredRequest: a request that was put off is processed as if it
\* arrived now, and only a READ goes on waiting.
LEMMA DeferredHandled ==
  ASSUME NEW x, Good(x)
  PROVE  LET y == CheckForDeferredRequest(x) IN
         /\ Good(y) /\ y.params = x.params /\ y.online = x.online /\ y.deferred \in {x.deferred, None} /\ Patient(y)
         /\ NoMandatory => Lost(x, y)
         /\ x.deferred # None => Follows(x, y, x.deferred)
         /\ Deferrable(x) => Quiet(x, y)
<1> DEFINE m == x.deferred
           y == CheckForDeferredRequest(x)
<1>1. Handled(x, x, m) /\ Quiet(x, x)
  BY NothingHandled, Zenon
<1>2. CASE ~CanTransmit(x) \/ m = None \/ (m.req.fn = "READ" /\ x.state # "Idle")
  <2>1. y = x
    BY <1>2, Zenon DEF CheckForDeferredRequest
  <2>2. Patient(x)
    BY <1>2, Zenon DEF Patient
  <2> QED BY <1>1, <2>1, <2>2, Zenon DEF Handled
<1>3. ASSUME NEW s, Handled(x, s, m), m.req.fn = "READ" => Quiet(x, s), CanTransmit(x), m # None,
             y = [s EXCEPT !.deferred = None]
      PROVE  /\ Good(y) /\ y.params = x.params /\ y.online = x.online /\ y.deferred \in {m, None} /\ Patient(y)
             /\ NoMandatory => Lost(x, y)
             /\ Follows(x, y, m)
             /\ Deferrable(x) => Quiet(x, y)
  <2>1. Good(s) /\ DOMAIN s = Fields
    BY <1>3, Zenon DEF Handled, Good, Sane
  <2> HIDE DEF y
  <2>2. ButFor(s, y, {"deferred"}) /\ y.deferred = None
    BY <1>3, <2>1, Zenon DEF ButFor, Fields
  <2>3. ButFor(s, y, Beside) /\ Sane(y)
    BY <2>1, <2>2, Zenon DEF ButFor, Fields, Beside, Good, Sane
  <2>4. Good(y)
    BY <2>1, <2>3, GoodFrom, Zenon
  <2>5. y.buf = s.buf /\ y.control = s.control /\ y.time = s.time /\ y.params = s.params /\ y.online = s.online
    BY <2>2, Zenon DEF ButFor, Fields
  <2>6. (NoMandatory => Lost(x, y)) /\ Follows(x, y, m)
    BY <1>3, <2>5, Zenon DEF Handled, Lost, Follows
  <2>7. Deferrable(x) => Quiet(x, y)
    BY <1>3, <2>5, Zenon DEF Deferrable, Quiet
  <2> QED BY <1>3, <2>2, <2>4, <2>5, <2>6, <2>7, Zenon DEF Handled, Patient
<1>4. CASE CanTransmit(x) /\ m # None /\ m.req.fn = "CONFIRM"
  <2>1. Handled(x, OnConfirm(x, m), m)
    BY ConfirmHandled, Zenon
  <2>2. y = [OnConfirm(x, m) EXCEPT !.deferred = None]
    BY <1>4, Zenon DEF CheckForDeferredRequest
  <2> QED BY <1>3, <1>4, <2>1, <2>2, Zenon
<1>5. CASE CanTransmit(x) /\ m # None /\ m.req.fn # "CONFIRM" /\ ~(m.req.fn = "READ" /\ x.state # "Idle")
  <2>1. Handled(x, ProcessRequest(x, m), m) /\ (m.req.fn = "READ" => Quiet(x, ProcessRequest(x, m)))
    BY RequestHandled, Zenon
  <2>2. y = [ProcessRequest(x, m) EXCEPT !.deferred = None]
    BY <1>5, Zenon DEF CheckForDeferredRequest
  <2> QED BY <1>3, <1>5, <2>1, <2>2, Zenon
<1> QED BY <1>2, <1>4, <1>5, Zenon

\* What CheckForTaskStart does.
Begun(x, y) ==
  /\ Good(y) /\ Patient(y) /\ Started(y) /\ y.online = x.online /\ y.deferred \in {x.deferred, None}
  /\ NoMandatory => Lost(x, y)
  /\ x.deferred # None => Follows(x, y, x.deferred)
  /\ Deferrable(x) => Quiet(x, y)

\* What was lost or used before a quiet step is all that was lost or used.
LEMMA QuietTwice ==
  ASSUME NEW x, NEW y, NEW z, Quiet(y, z)
  PROVE  /\ Quiet(x, y) => Quiet(x, z)
         /\ Lost(x, y) => Lost(x, z)
         /\ \A m : Follows(x, y, m) => Follows(x, z, m)
<1>1. Quiet(x, y) => Quiet(x, z)
  BY SameTwice, Zenon DEF Quiet
<1>2. Lost(x, y) => Lost(x, z)
  BY Zenon DEF Quiet, SameRecords, Lost, Full
<1>3. \A m : Follows(x, y, m) => Follows(x, z, m)
  BY Zenon DEF Quiet, Follows
<1> QED BY <1>1, <1>2, <1>3, Zenon

\* CheckForTaskStart leaves nothing that it could start.
LEMMA TasksStart ==
  ASSUME NEW x, Good(x)
  PROVE  Begun(x, CheckForTaskStart(x))
<1> DEFINE a == CheckForDeferredRequest(x)
           b == CheckForUnsolicitedNull(a)
           z == CheckForUnsolicited(b)
<1>1. /\ Good(a) /\ a.params = x.params /\ a.online = x.online /\ a.deferred \in {x.deferred, None} /\ Patient(a)
      /\ NoMandatory => Lost(x, a)
      /\ x.deferred # None => Follows(x, a, x.deferred)
      /\ Deferrable(x) => Quiet(x, a)
  BY DeferredHandled, Zenon
<1>2. CheckForTaskStart(x) = z
  BY Zenon DEF CheckForTaskStart
<1> HIDE DEF a
<1>3. Undisturbed(a, b) /\ (b.tx = None => b = a /\ (CanStartUnsolicited(a) => a.completedNull))
  BY <1>1, NullStarts, Zenon
<1> HIDE DEF b
<1>4. /\ Undisturbed(b, z)
      /\ z.tx = None => ButFor(b, z, {"check"}) /\ (CanStartUnsolicited(b) => ~z.check)
  BY <1>3, UnsolicitedStarts, Zenon DEF Undisturbed
<1> HIDE DEF z
<1>5. Good(z) /\ Quiet(a, z) /\ z.params = a.params /\ z.online = a.online /\ z.deferred = a.deferred
  BY <1>3, <1>4, QuietTwice, Zenon DEF Undisturbed
<1>6. CASE z.tx # None
  <2>1. Patient(z) /\ Started(z)
    BY <1>6, Zenon DEF Patient, Started, CanTransmit
  <2> QED BY <1>1, <1>2, <1>5, <2>1, QuietTwice, Zenon DEF Begun
<1>7. CASE z.tx = None
  <2>1. ButFor(a, z, {"check"}) /\ a.tx = None /\ b = a
    BY <1>3, <1>4, <1>7, Zenon DEF ButFor, Fields
  <2>2. z.state = a.state /\ z.completedNull = a.completedNull
    BY <2>1, Zenon DEF ButFor, Fields
  <2>3. Patient(z)
    BY <1>1, <1>5, <1>7, <2>1, <2>2, Zenon DEF Patient, CanTransmit
  <2>4. Started(z)
    BY <1>3, <1>4, <1>5, <1>7, <2>1, <2>2, ZenonT(30) DEF Started, CanTransmit, CanStartUnsolicited
  <2> QED BY <1>1, <1>2, <1>5, <2>3, <2>4, QuietTwice, Zenon DEF Begun
<1> QED BY <1>6, <1>7, Zenon

----------------------------------------------------------------------------
(* The actions.                                                            *)

\* The end of a callback.
LEMMA CallbackEnds ==
  ASSUME NEW s, NEW z, Begun(s, z), NEW y, y = [z EXCEPT !.detect = FALSE],
         s.deferred \in {None} \cup Messages, ~s.online => s.deferred = None
  PROVE  Sound(y) /\ y.buf = z.buf /\ y.control = z.control /\ y.time = z.time
<1>1. Good(z) /\ DOMAIN z = Fields
  BY Zenon DEF Begun, Good, Sane
<1>2. ButFor(z, y, {"detect"})
  BY <1>1, Zenon DEF ButFor, Fields
<1>3. ButFor(z, y, Beside) /\ Sane(y)
  BY <1>1, <1>2, Zenon DEF ButFor, Fields, Beside, Good, Sane
<1>4. Good(y)
  BY <1>1, <1>3, GoodFrom, Zenon
<1>5. /\ y.buf = z.buf /\ y.control = z.control /\ y.time = z.time /\ y.online = z.online /\ y.tx = z.tx
      /\ y.deferred = z.deferred /\ y.state = z.state /\ y.params = z.params /\ y.completedNull = z.completedNull
      /\ y.check = z.check
  BY <1>2, Zenon DEF ButFor, Fields
<1>6. Patient(y) /\ Started(y)
  BY <1>5, Zenon DEF Begun, Patient, Started, CanTransmit
<1>7. y.deferred \in {None} \cup Messages /\ (~y.online => y.deferred = None)
  BY <1>5, Zenon DEF Begun
<1> QED BY <1>4, <1>5, <1>6, <1>7, Zenon DEF Sound

\* The timer expires.
LEMMA TimeoutKeeps ==
  ASSUME NEW x, Good(x)
  PROVE  LET y == OnConfirmTimeout(CancelTimer(x)) IN
         /\ Good(y) /\ Quiet(x, y) /\ y.online = x.online /\ y.deferred = x.deferred
         /\ y.tx = None => x.tx = None
<1> DEFINE c == CancelTimer(x)
           s == [c EXCEPT !.retries = IF @ <= c.params.retries THEN @ + 1 ELSE @]
           r == RestartTimer(s)
           t == BeginTx(r, "unsol")
           i == [c EXCEPT !.state = "Idle"]
           u == Unselect(x.buf)
           v == [s EXCEPT !.buf = Unselect(@), !.state = "Idle"]
<1>1. Sane(x) /\ DOMAIN x = Fields
  BY Zenon DEF Good, Sane
<1>2. OnConfirmTimeout(c) \in {i, v} \/ (x.state \in UnsolWaits /\ OnConfirmTimeout(c) = t)
  BY <1>1, Zenon DEF OnConfirmTimeout, UnsolConfirmWait_OnConfirmTimeout, CancelTimer, Fields
<1>3. ButFor(x, c, {"timer"})
  BY <1>1, Zenon DEF ButFor, Fields, CancelTimer
<1> HIDE DEF c
<1>4. ButFor(c, s, {"retries"})
  BY <1>3, Zenon DEF ButFor, Fields
<1> HIDE DEF s
<1>5. ButFor(s, r, {"timer"}) /\ r.timer
  BY <1>4, Zenon DEF ButFor, Fields, RestartTimer
<1> HIDE DEF r
<1>6. ButFor(r, t, {"tx"}) /\ t.tx # None
  BY <1>5, NoneDiffers, Zenon DEF ButFor, Fields, BeginTx
<1>7. ButFor(c, i, {"state"}) /\ i.state = "Idle"
  BY <1>3, Zenon DEF ButFor, Fields
<1>8. ButFor(s, v, {"buf", "state"}) /\ v.state = "Idle" /\ v.buf = u
  <2>1. s.buf = x.buf
    BY <1>3, <1>4, Zenon DEF ButFor, Fields
  <2> QED BY <1>4, <2>1, Zenon DEF ButFor, Fields
<1>9. SameRecords(x.buf, u)
  BY <1>1, UnselectKeeps, Zenon DEF Sane
<1> HIDE DEF t, i, v, u
<1>10. ASSUME NEW y, ButFor(x, y, {"timer", "retries", "buf", "state"}), SameRecords(x.buf, y.buf), y.state = "Idle"
       PROVE  /\ Good(y) /\ Quiet(x, y) /\ y.online = x.online /\ y.deferred = x.deferred
              /\ y.tx = None => x.tx = None
  <2>1. Sane(y)
    BY <1>1, <1>10, Zenon DEF Sane, ButFor, Fields, SameRecords
  <2>2. /\ y.history = x.history /\ y.sol = x.sol /\ y.broadcast = x.broadcast /\ y.control = x.control
        /\ y.time = x.time /\ y.online = x.online /\ y.deferred = x.deferred /\ y.tx = x.tx
    BY <1>10, Zenon DEF ButFor, Fields
  <2>3. Good(y)
    BY <1>10, <2>1, <2>2, Zenon DEF Good, Careful, Answered, States, UnsolWaits
  <2> QED BY <1>10, <2>2, <2>3, Zenon DEF Quiet
<1>11. CASE OnConfirmTimeout(c) \in {i, v}
  <2>1. ButFor(x, i, {"timer", "retries", "buf", "state"}) /\ i.buf = x.buf
    BY <1>3, <1>7, Zenon DEF ButFor, Fields
  <2>2. ButFor(x, v, {"timer", "retries", "buf", "state"})
    BY <1>3, <1>4, <1>8, Zenon DEF ButFor, Fields
  <2>3. SameRecords(x.buf, x.buf)
    BY <1>1, Zenon DEF Sane, SameRecords
  <2> QED BY <1>7, <1>8, <1>9, <1>10, <1>11, <2>1, <2>2, <2>3, ZenonT(30) DEF c
<1>12. CASE x.state \in UnsolWaits /\ OnConfirmTimeout(c) = t
  <2>1. /\ ButFor(x, t, {"timer", "retries", "tx"}) /\ t.timer /\ Sane(t)
    BY <1>1, <1>3, <1>4, <1>5, <1>6 DEF ButFor, Fields, Sane
  <2>2. /\ t.history = x.history /\ t.sol = x.sol /\ t.unsol = x.unsol /\ t.broadcast = x.broadcast /\ t.control = x.control
        /\ t.time = x.time /\ t.online = x.online /\ t.deferred = x.deferred /\ t.buf = x.buf /\ t.state = x.state
        /\ t.completedNull = x.completedNull
    BY <2>1, Zenon DEF ButFor, Fields
  <2>3. Good(t)
    BY <1>12, <2>1, <2>2, Zenon DEF Good, Careful, Answered, UnsolWaits
  <2>4. Quiet(x, t)
    BY <1>1, <2>2, Zenon DEF Quiet, SameRecords, Sane
  <2> QED BY <1>6, <1>12, <2>2, <2>3, <2>4, Zenon DEF c
<1> QED BY <1>2, <1>11, <1>12, Zenon DEF c

\* A batch of updates.
LEMMA UpdateIfUpdates ==
  ASSUME NEW b, Consistent(b), NEW e, e = None \/ e \in Types \X Classes
  PROVE  Updated(b, UpdateIf(b, e))
BY NoUpdate, UpdateUpdates, Zenon DEF UpdateIf

\* The lower layer comes up.
LEMMA UpStep ==
  ASSUME Sound(o), OnLowerLayerUp
  PROVE  Sound(o') /\ Lost(o, o') /\ o'.control = o.control
<1> DEFINE s == [o EXCEPT !.online = TRUE, !.check = TRUE]
           z == CheckForTaskStart(s)
<1>1. Good(o) /\ Sane(o) /\ DOMAIN o = Fields /\ o.deferred = None
  BY Zenon DEF Sound, Good, Sane, OnLowerLayerUp
<1>2. o' = [z EXCEPT !.detect = FALSE]
  BY Zenon DEF OnLowerLayerUp, Callback
<1>3. ButFor(o, s, {"online", "check"})
  BY <1>1, Zenon DEF ButFor, Fields
<1> HIDE DEF s
<1>4. Good(s)
  <2>1. ButFor(o, s, Beside) /\ Sane(s)
    BY <1>1, <1>3, Zenon DEF ButFor, Fields, Beside, Sane
  <2> QED BY <1>1, <2>1, GoodFrom, Zenon
<1>5. Begun(s, z)
  BY <1>4, TasksStart, Zenon
<1> HIDE DEF z
<1>6. s.deferred = None /\ s.buf = o.buf /\ s.control = o.control /\ s.time = o.time
  BY <1>1, <1>3, Zenon DEF ButFor, Fields
<1>7. Sound(o') /\ o'.buf = z.buf /\ o'.control = z.control
  BY <1>2, <1>5, <1>6, CallbackEnds
<1>8. Quiet(s, z)
  BY <1>5, <1>6, Zenon DEF Begun, Deferrable
<1>9. SameRecords(o.buf, o'.buf) /\ o'.control = o.control
  BY <1>6, <1>7, <1>8, Zenon DEF Quiet
<1> QED BY <1>7, <1>9, KeepsAll, Zenon

\* The lower layer goes down.
LEMMA DownStep ==
  ASSUME Sound(o), OnLowerLayerDown
  PROVE  Sound(o') /\ Lost(o, o') /\ o'.control = o.control
<1> DEFINE u == Unselect(o.buf)
           c == CancelTimer(o)
           z == [c EXCEPT !.state = "Idle", !.online = FALSE, !.tx = None, !.completedNull = FALSE,
                          !.history = None, !.deferred = None, !.buf = Unselect(@)]
           y == [z EXCEPT !.detect = FALSE]
<1>1. Good(o) /\ Sane(o) /\ DOMAIN o = Fields
  BY Zenon DEF Sound, Good, Sane
<1>2. o' = y
  BY Zenon DEF OnLowerLayerDown, Callback
<1>3. ButFor(o, c, {"timer"})
  BY <1>1, Zenon DEF ButFor, Fields, CancelTimer
<1> HIDE DEF c
<1>4. /\ ButFor(c, z, {"state", "online", "tx", "completedNull", "history", "deferred", "buf"})
      /\ z.state = "Idle" /\ z.online = FALSE /\ z.history = None /\ z.deferred = None /\ z.buf = u
  <2>1. c.buf = o.buf
    BY <1>3, Zenon DEF ButFor, Fields
  <2> QED BY <1>3, <2>1, Zenon DEF ButFor, Fields
<1> HIDE DEF z
<1>5. ButFor(z, y, {"detect"})
  BY <1>4, Zenon DEF ButFor, Fields
<1> HIDE DEF y
<1>6. /\ y.state = "Idle" /\ y.online = FALSE /\ y.history = None /\ y.deferred = None /\ y.buf = u
      /\ y.control = o.control /\ y.time = o.time /\ y.broadcast = o.broadcast
  BY <1>3, <1>4, <1>5, Zenon DEF ButFor, Fields
<1>7. SameRecords(o.buf, u)
  BY <1>1, UnselectKeeps, Zenon DEF Sane
<1>8. Sane(y)
  BY <1>1, <1>5, <1>6, <1>7, Zenon DEF Sane, SameRecords, ButFor
<1>9. Good(y)
  BY <1>1, <1>6, <1>8, Zenon DEF Good, Careful, Answered, States, UnsolWaits
<1>10. Sound(y)
  BY <1>6, <1>9, Zenon DEF Sound, Patient, Started, CanTransmit
<1> QED BY <1>2, <1>6, <1>7, <1>10, KeepsAll, Zenon

\* A transmission ends: the request put off during it is processed.
LEMMA TxReadyStep ==
  ASSUME Sound(o), OnTxReady
  PROVE  /\ Sound(o') /\ (NoMandatory => Lost(o, o'))
         /\ o.deferred # None => Follows(o, o', o.deferred)
         /\ o.deferred = None => o'.control = o.control /\ o'.time = o.time
<1>1. Good(o) /\ Sane(o) /\ DOMAIN o = Fields
  BY Zenon DEF Sound, Good, Sane
<1>2. PICK d : o' = [CheckForTaskStart([Choose(d) EXCEPT !.tx = None]) EXCEPT !.detect = FALSE]
  BY Zenon DEF OnTxReady, Callback
<1> DEFINE c == Choose(d)
           s == [c EXCEPT !.tx = None]
           z == CheckForTaskStart(s)
<1>3. o' = [z EXCEPT !.detect = FALSE]
  BY <1>2, Zenon
<1>4. ButFor(o, c, {"detect"})
  BY <1>1, Zenon DEF ButFor, Fields, Choose
<1> HIDE DEF c
<1>5. ButFor(o, s, {"detect", "tx"})
  BY <1>4, Zenon DEF ButFor, Fields
<1> HIDE DEF s
<1>6. Good(s)
  <2>1. ButFor(o, s, Beside) /\ Sane(s)
    BY <1>1, <1>5, Zenon DEF ButFor, Fields, Beside, Sane
  <2> QED BY <1>1, <2>1, GoodFrom, Zenon
<1>7. Begun(s, z)
  BY <1>6, TasksStart, Zenon
<1> HIDE DEF z
<1>8. /\ s.deferred = o.deferred /\ s.buf = o.buf /\ s.control = o.control /\ s.time = o.time /\ s.online = o.online
      /\ s.state = o.state /\ s.sol = o.sol /\ s.unsol = o.unsol /\ s.completedNull = o.completedNull
  BY <1>5, Zenon DEF ButFor, Fields
<1>9. Sound(o') /\ o'.buf = z.buf /\ o'.control = z.control /\ o'.time = z.time
  <2>1. s.deferred \in {None} \cup Messages /\ (~s.online => s.deferred = None)
    BY <1>8, Zenon DEF Sound
  <2> QED BY <1>3, <1>7, <2>1, CallbackEnds, ZenonT(30)
<1>10. Awaited(s) = Awaited(o)
  BY <1>8, Zenon DEF Awaited
<1>11. NoMandatory => Lost(o, o')
  BY <1>7, <1>8, <1>9, <1>10, Zenon DEF Begun, Lost
<1>12. o.deferred # None => Follows(o, o', o.deferred)
  BY <1>7, <1>8, <1>9, Zenon DEF Begun, Follows
<1>13. o.deferred = None => o'.control = o.control /\ o'.time = o.time
  BY <1>7, <1>8, <1>9, Zenon DEF Begun, Deferrable, Quiet
<1> QED BY <1>9, <1>11, <1>12, <1>13, Zenon

\* A message arrives.  What can be processed afterwards is at most a READ
\* that waits for a confirmation.
LEMMA ReceiveStep ==
  ASSUME Sound(o), NEW m \in Messages, OnReceive(m)
  PROVE  Sound(o') /\ (NoMandatory => Lost(o, o')) /\ Follows(o, o', m)
<1>1. Good(o) /\ Sane(o) /\ DOMAIN o = Fields /\ o.online
  BY Zenon DEF Sound, Good, Sane, OnReceive
<1>2. PICK d : o' = [CheckForTaskStart(ProcessMessage(Choose(d), m)) EXCEPT !.detect = FALSE]
  BY Zenon DEF OnReceive, Callback
<1> DEFINE c == Choose(d)
           s == ProcessMessage(c, m)
           z == CheckForTaskStart(s)
<1>3. o' = [z EXCEPT !.detect = FALSE]
  BY <1>2, Zenon
<1>4. ButFor(o, c, {"detect"})
  BY <1>1, Zenon DEF ButFor, Fields, Choose
<1> HIDE DEF c
<1>5. Good(c)
  <2>1. ButFor(o, c, Beside) /\ Sane(c)
    BY <1>1, <1>4, Zenon DEF ButFor, Fields, Beside, Sane
  <2> QED BY <1>1, <2>1, GoodFrom, Zenon
<1>6. Handled(c, s, m)
  BY <1>5, MessageHandled, Zenon
<1> HIDE DEF s
<1>7. Handled(o, s, m)
  <2>1. ButFor(o, c, {"solNum", "broadcast", "detect"})
    BY <1>4, Zenon DEF ButFor
  <2> QED BY <1>6, <2>1, HandledFrom, Zenon
<1>8. Begun(s, z)
  BY <1>7, TasksStart, Zenon DEF Handled
<1> HIDE DEF z
<1>9. Deferrable(s)
  <2>1. ASSUME s.tx = None, s.deferred # None PROVE s.deferred.req.fn = "READ"
    <3>1. CanTransmit(o) /\ (s.deferred = o.deferred \/ s.deferred = m)
      BY <1>1, <1>7, <2>1, Zenon DEF Handled, CanTransmit
    <3>2. s.deferred = o.deferred => s.deferred.req.fn = "READ"
      BY <2>1, <3>1, Zenon DEF Sound, Patient
    <3> QED BY <1>7, <2>1, <3>1, <3>2, Zenon DEF Handled
  <2> QED BY <2>1, Zenon DEF Deferrable, CanTransmit
<1>10. Quiet(s, z)
  BY <1>8, <1>9, Zenon DEF Begun
<1>11. s.deferred \in {None} \cup Messages /\ s.online
  BY <1>1, <1>7, Zenon DEF Handled, Sound
<1>12. Sound(o') /\ o'.buf = z.buf /\ o'.control = z.control /\ o'.time = z.time
  BY <1>3, <1>8, <1>11, CallbackEnds, Zenon
<1>13. (NoMandatory => Lost(o, z)) /\ Follows(o, z, m)
  BY <1>7, <1>10, QuietTwice, Zenon DEF Handled
<1>14. (NoMandatory => Lost(o, o')) /\ Follows(o, o', m)
  BY <1>12, <1>13, Zenon DEF Lost, Follows
<1> QED BY <1>12, <1>14, Zenon

\* A confirmation does not come in time.
LEMMA TimeoutStep ==
  ASSUME Sound(o), OnTimeout
  PROVE  Sound(o') /\ Lost(o, o') /\ o'.control = o.control
<1>1. Good(o) /\ Sane(o) /\ DOMAIN o = Fields
  BY Zenon DEF Sound, Good, Sane
<1>2. PICK d : o' = [CheckForTaskStart(OnConfirmTimeout(CancelTimer(Choose(d)))) EXCEPT !.detect = FALSE]
  BY Zenon DEF OnTimeout, Callback
<1> DEFINE c == Choose(d)
           s == OnConfirmTimeout(CancelTimer(c))
           z == CheckForTaskStart(s)
<1>3. o' = [z EXCEPT !.detect = FALSE]
  BY <1>2, ZenonT(30)
<1>4. ButFor(o, c, {"detect"})
  BY <1>1, Zenon DEF ButFor, Fields, Choose
<1> HIDE DEF c
<1>5. Good(c)
  <2>1. ButFor(o, c, Beside) /\ Sane(c)
    BY <1>1, <1>4, Zenon DEF ButFor, Fields, Beside, Sane
  <2> QED BY <1>1, <2>1, GoodFrom, Zenon
<1>6. /\ Good(s) /\ Quiet(c, s) /\ s.online = c.online /\ s.deferred = c.deferred
      /\ s.tx = None => c.tx = None
  BY <1>5, TimeoutKeeps, Zenon
<1> HIDE DEF s
<1>7. Begun(s, z)
  BY <1>6, TasksStart, Zenon
<1> HIDE DEF z
<1>8. c.online = o.online /\ c.deferred = o.deferred /\ c.tx = o.tx /\ c.buf = o.buf /\ c.control = o.control
  BY <1>4, Zenon DEF ButFor, Fields
<1>9. Deferrable(s)
  BY <1>6, <1>8, Zenon DEF Deferrable, CanTransmit, Sound, Patient
<1>10. Quiet(c, z)
  BY <1>6, <1>7, <1>9, QuietTwice, Zenon DEF Begun
<1>11. Sound(o') /\ o'.buf = z.buf /\ o'.control = z.control
  <2>1. s.deferred \in {None} \cup Messages /\ (~s.online => s.deferred = None)
    BY <1>6, <1>8, Zenon DEF Sound
  <2> QED BY <1>3, <1>7, <2>1, CallbackEnds, ZenonT(30)
<1>12. SameRecords(o.buf, o'.buf) /\ o'.control = o.control
  BY <1>8, <1>10, <1>11, Zenon DEF Quiet
<1> QED BY <1>11, <1>12, KeepsAll, Zenon

\* The user applies a batch of updates.
LEMMA ApplyStep ==
  ASSUME Sound(o), NEW p \in Batches, Apply(p)
  PROVE  Sound(o') /\ Lost(o, o') /\ o'.control = o.control
<1> DEFINE a == UpdateIf(o.buf, p[1])
           b == UpdateIf(a, p[2])
           s == [o EXCEPT !.buf = b, !.check = TRUE]
           z == CheckForTaskStart(s)
<1>1. Good(o) /\ Sane(o) /\ DOMAIN o = Fields /\ Consistent(o.buf)
  BY Zenon DEF Sound, Good, Sane
<1>2. o' = [z EXCEPT !.detect = FALSE]
  BY Zenon DEF Apply, Callback
<1>3. (p[1] = None \/ p[1] \in Types \X Classes) /\ (p[2] = None \/ p[2] \in Types \X Classes)
  BY BatchEvents, Zenon
<1>4. Updated(o.buf, a)
  BY <1>1, <1>3, UpdateIfUpdates, Zenon
<1> HIDE DEF a
<1>5. Updated(a, b)
  BY <1>3, <1>4, UpdateIfUpdates, Zenon DEF Updated
<1> HIDE DEF b
<1>6. Updated(o.buf, b)
  BY <1>1, <1>4, <1>5, UpdatedTwice, Zenon
<1>7. ButFor(o, s, {"buf", "check"}) /\ s.buf = b
  BY <1>1, Zenon DEF ButFor, Fields
<1> HIDE DEF s
<1>8. Sane(s) /\ s.points = o.points
  BY <1>1, <1>6, <1>7, Zenon DEF Sane, ButFor, Fields, Updated
<1>9. /\ s.state = o.state /\ s.sol = o.sol /\ s.unsol = o.unsol /\ s.history = o.history /\ s.broadcast = o.broadcast
      /\ s.completedNull = o.completedNull /\ s.timer = o.timer /\ s.online = o.online /\ s.tx = o.tx
      /\ s.deferred = o.deferred /\ s.control = o.control
  BY <1>7, Zenon DEF ButFor, Fields
<1>10. ASSUME NEW r, Fragment(o, r) PROVE Fragment(s, r)
  BY <1>1, <1>6, <1>7, <1>8, <1>10, FragmentStays, Zenon
<1>11. NoMandatory => Careful(s)
  BY <1>1, <1>6, <1>7, <1>9, <1>10, Zenon DEF Good, Careful, Updated
<1>12. Good(s)
  BY <1>1, <1>8, <1>9, <1>11, Zenon DEF Good, Answered
<1>13. Begun(s, z)
  BY <1>12, TasksStart, Zenon
<1> HIDE DEF z
<1>14. Quiet(s, z)
  BY <1>9, <1>13, Zenon DEF Begun, Deferrable, Sound, Patient, CanTransmit
<1>15. Sound(o') /\ o'.buf = z.buf /\ o'.control = z.control
  <2>1. s.deferred \in {None} \cup Messages /\ (~s.online => s.deferred = None)
    BY <1>9, Zenon DEF Sound
  <2> QED BY <1>2, <1>13, <2>1, CallbackEnds, ZenonT(30)
<1>16. Lost(o, s)
  BY <1>6, <1>7, KeepsAll, Zenon
<1>17. Lost(o, z)
  BY <1>14, <1>16, QuietTwice, Zenon
<1>18. Lost(o, o') /\ o'.control = o.control
  BY <1>9, <1>14, <1>15, <1>17, Zenon DEF Quiet, Lost
<1> QED BY <1>15, <1>18, Zenon

\* The restart bit and the time of the selection concern nothing else.
LEMMA BesideStep ==
  ASSUME Sound(o), SetRestartIIN \/ SelectionExpires
  PROVE  Sound(o') /\ Lost(o, o') /\ o'.control.uses = o.control.uses
<1>1. Good(o) /\ Sane(o) /\ DOMAIN o = Fields
  BY Zenon DEF Sound, Good, Sane
<1>2. /\ ButFor(o, o', {"restart", "control", "detect"})
      /\ DOMAIN o'.control = DOMAIN o.control /\ o'.control.uses = o.control.uses
  <2>1. CASE SetRestartIIN
    <3> DEFINE s == [o EXCEPT !.restart = TRUE]
    <3>1. o' = [s EXCEPT !.detect = FALSE]
      BY <2>1, Zenon DEF SetRestartIIN, Callback
    <3>2. ButFor(o, s, {"restart"})
      BY <1>1, Zenon DEF ButFor, Fields
    <3> HIDE DEF s
    <3>3. ButFor(s, o', {"detect"})
      BY <3>1, <3>2, Zenon DEF ButFor, Fields
    <3> QED BY <3>2, <3>3, Zenon DEF ButFor, Fields
  <2>2. CASE SelectionExpires
    <3> DEFINE c == [o.control EXCEPT !.fresh = FALSE]
               s == [o EXCEPT !.control = c]
    <3>1. o' = [s EXCEPT !.detect = FALSE]
      BY <2>2, Zenon DEF SelectionExpires, Callback
    <3>2. DOMAIN c = DOMAIN o.control /\ c.uses = o.control.uses
      BY <1>1, Zenon DEF Sane
    <3> HIDE DEF c
    <3>3. ButFor(o, s, {"control"}) /\ s.control = c
      BY <1>1, Zenon DEF ButFor, Fields
    <3> HIDE DEF s
    <3>4. ButFor(s, o', {"detect"})
      BY <3>1, <3>3, Zenon DEF ButFor, Fields
    <3> QED BY <3>2, <3>3, <3>4, Zenon DEF ButFor, Fields
  <2> QED BY <2>1, <2>2, Zenon
<1>3. ButFor(o, o', Beside) /\ Sane(o')
  BY <1>1, <1>2, Zenon DEF ButFor, Fields, Beside, Sane
<1>4. Good(o')
  BY <1>1, <1>3, GoodFrom, Zenon
<1>5. /\ o'.buf = o.buf /\ o'.online = o.online /\ o'.tx = o.tx /\ o'.deferred = o.deferred /\ o'.state = o.state
      /\ o'.params = o.params /\ o'.completedNull = o.completedNull /\ o'.check = o.check
  BY <1>2, Zenon DEF ButFor, Fields
<1>6. Sound(o')
  BY <1>4, <1>5, Zenon DEF Sound, Patient, Started, CanTransmit
<1> QED BY <1>2, <1>5, <1>6, Zenon DEF Lost

----------------------------------------------------------------------------
(* The theorems.                                                           *)

\* The invariant holds when the outstation is created.
LEMMA InitSound == Init => Sound(o)
<1> SUFFICES ASSUME Init PROVE Sound(o)
  BY Zenon
<1>1. Consistent(EmptyBuffer)
  BY EmptyConsistent, Zenon
<1>2. /\ DOMAIN o = Fields /\ o.buf = EmptyBuffer /\ o.time = [valid |-> FALSE, seq |-> 0]
      /\ o.control = [selected |-> FALSE, seq |-> 0, objects |-> None, fresh |-> FALSE, uses |-> 0]
      /\ o.state = "Idle" /\ o.online = FALSE /\ o.history = None /\ o.deferred = None /\ o.broadcast = None
  BY DEF Init, Fields
<1>3. Sane(o)
  BY <1>1, <1>2 DEF Sane
<1>4. Good(o)
  BY <1>2, <1>3, NoneDiffers, Zenon DEF Good, Careful, Answered, States, UnsolWaits
<1> QED BY <1>2, <1>4, Zenon DEF Sound, Patient, Started, CanTransmit

\* Every step keeps the invariant, and loses only what was confirmed or
\* pushed out.
LEMMA StepSound ==
  ASSUME Sound(o), [Next]_o
  PROVE  Sound(o') /\ (NoMandatory => Lost(o, o'))
<1>1. CASE UNCHANGED o
  BY <1>1, Zenon DEF Lost
<1>2. CASE OnLowerLayerUp \/ OnLowerLayerDown \/ OnTimeout \/ SetRestartIIN \/ SelectionExpires
  BY <1>2, UpStep, DownStep, TimeoutStep, BesideStep, Zenon
<1>3. CASE OnTxReady
  BY <1>3, TxReadyStep, Zenon
<1>4. CASE \E p \in Batches : Apply(p)
  BY <1>4, ApplyStep, Zenon
<1>5. CASE \E m \in Messages : OnReceive(m)
  BY <1>5, ReceiveStep, Zenon
<1> QED BY <1>1, <1>2, <1>3, <1>4, <1>5, Zenon DEF Next, Local

\* The inductive invariant of the outstation: the response that repeats
\* answers the request that repeats, what waits is a READ, and, unless a
\* broadcast asks for a confirmation, a wait has its timer and the response
\* awaited carries what its confirmation clears.
THEOREM SoundCorrect == Spec => []Sound(o)
<1>1. Init => Sound(o)
  BY InitSound, Zenon
<1>2. Sound(o) /\ [Next]_o => Sound(o)'
  BY StepSound, Zenon
<1> QED BY <1>1, <1>2, PTL DEF Spec

\* RepeatGetsItsResponse: what BeginRetransmitLastResponse sends again answers
\* the request that came again, whatever arrives.
THEOREM RepeatCorrect == Spec => []RepeatGetsItsResponse
<1>1. Sound(o) => RepeatGetsItsResponse
  BY Zenon DEF Sound, Good, Answered, RepeatGetsItsResponse
<1> QED BY <1>1, SoundCorrect, PTL

\* WrittenAreCarried: unless a broadcast asks for a confirmation, a confirmation
\* clears only what the confirmed response carried.
THEOREM WrittenCorrect ==
  ASSUME "ShallConfirm" \notin Broadcasts
  PROVE  Spec => []WrittenAreCarried
<1>1. Sound(o) => WrittenAreCarried
  BY Zenon DEF Sound, Good, Careful, Fragment, WrittenAreCarried, NoMandatory
<1> QED BY <1>1, SoundCorrect, PTL

\* FinIsLast: unless a broadcast asks for a confirmation, the confirmation of a
\* fragment with FIN continues nothing.
THEOREM FinCorrect ==
  ASSUME "ShallConfirm" \notin Broadcasts
  PROVE  Spec => []FinIsLast
<1>1. Sound(o) => FinIsLast
  BY Zenon DEF Sound, Good, Careful, Fragment, FinIsLast, NoMandatory
<1> QED BY <1>1, SoundCorrect, PTL

\* NothingLeftToStart: unless a broadcast asks for a confirmation, every wait has
\* its timer, and a callback leaves nothing that could be started.
THEOREM NothingLeftCorrect ==
  ASSUME "ShallConfirm" \notin Broadcasts
  PROVE  Spec => []NothingLeftToStart
<1>1. Sound(o) => NothingLeftToStart
  BY Zenon DEF Sound, Good, Careful, Patient, Started, NothingLeftToStart, NoMandatory
<1> QED BY <1>1, SoundCorrect, PTL

\* NoUnconfirmedLoss: unless a broadcast asks for a confirmation, an event leaves
\* the buffer only confirmed or pushed out.
THEOREM NoLossCorrect ==
  ASSUME "ShallConfirm" \notin Broadcasts
  PROVE  Spec => NoUnconfirmedLoss
<1> DEFINE A == \A i \in Ids(o.buf) \ Ids(o'.buf) :
                  \/ o.state = "SolConfirmWait" /\ i \in o.sol.ids
                  \/ o.state \in UnsolWaits /\ o.completedNull /\ i \in o.unsol.ids
                  \/ LET t == o.buf.events[i].type IN
                     /\ Cardinality(OfType(o'.buf, t)) = Capacity[t]
                     /\ \A j \in OfType(o'.buf, t) : i < j
<1>1. Sound(o) /\ [Next]_o => [A]_o
  <2> SUFFICES ASSUME Sound(o), [Next]_o PROVE A
    BY Zenon
  <2>1. Lost(o, o')
    BY StepSound, Zenon DEF NoMandatory
  <2> QED BY <2>1, Zenon DEF Lost, Awaited, Full, UnsolWaits
<1> QED BY <1>1, SoundCorrect, PTL DEF Spec, NoUnconfirmedLoss

\* OperateFollowsSelect: a command runs after SELECT only for the OPERATE that
\* follows, with the same objects and in time.
THEOREM OperateCorrect == Spec => OperateFollowsSelect
<1> DEFINE A == o'.control.uses > o.control.uses =>
                  /\ o.control.selected /\ o.control.fresh
                  /\ \E m \in Messages : /\ m = o.deferred \/ OnReceive(m)
                                        /\ m.req.fn = "OPERATE" /\ m.req.tag = o.control.objects
                                        /\ m.seq = o.control.seq
<1>1. Sound(o) /\ [Next]_o => [A]_o
  <2> SUFFICES ASSUME Sound(o), Next PROVE A
    BY Zenon
  <2>1. o.control.uses \in Nat /\ o.deferred \in {None} \cup Messages
    BY Zenon DEF Sound, Good, Sane
  <2>2. CASE OnLowerLayerUp \/ OnLowerLayerDown \/ OnTimeout \/ SetRestartIIN \/ SelectionExpires
    BY <2>1, <2>2, UpStep, DownStep, TimeoutStep, BesideStep
  <2>3. CASE OnTxReady
    BY <2>1, <2>3, TxReadyStep DEF Follows
  <2>4. CASE \E p \in Batches : Apply(p)
    BY <2>1, <2>4, ApplyStep
  <2>5. CASE \E m \in Messages : OnReceive(m)
    BY <2>5, ReceiveStep, Zenon DEF Follows
  <2> QED BY <2>2, <2>3, <2>4, <2>5, Zenon DEF Next, Local
<1> QED BY <1>1, SoundCorrect, PTL DEF Spec, OperateFollowsSelect

\* LanWriteInSequence: unless a WRITE is broadcast, the time is set only by the
\* WRITE that follows RECORD_CURRENT_TIME.
THEOREM LanCorrect ==
  ASSUME \A m \in Messages : m.dest \in Broadcasts => m.req.fn # "WRITE"
  PROVE  Spec => LanWriteInSequence
<1> DEFINE A == o.time.valid /\ ~o'.time.valid =>
                  /\ \A m \in Messages : OnReceive(m) => m.req.tag = "lan" /\ m.seq = o.time.seq
                  /\ OnTxReady => o.deferred # None /\ o.deferred.seq = o.time.seq
<1>1. Sound(o) => A
  <2> SUFFICES ASSUME Sound(o), o.time.valid, ~o'.time.valid PROVE A
    BY Zenon
  <2>1. ASSUME NEW m \in Messages, OnReceive(m) PROVE m.req.tag = "lan" /\ m.seq = o.time.seq
    BY <2>1, ReceiveStep, Zenon DEF Follows
  <2>2. ASSUME OnTxReady PROVE o.deferred # None /\ o.deferred.seq = o.time.seq
    <3>1. o.deferred # None /\ o.deferred \in Messages
      BY <2>2, TxReadyStep, Zenon DEF Sound
    <3> QED BY <2>2, <3>1, TxReadyStep, Zenon DEF Follows
  <2> QED BY <2>1, <2>2, Zenon
<1> QED BY <1>1, SoundCorrect, PTL DEF Spec, LanWriteInSequence

=============================================================================
