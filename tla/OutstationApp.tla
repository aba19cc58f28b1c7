---------------------------- MODULE OutstationApp ----------------------------
(***************************************************************************)
(* What the outstation does with the objects of a request and how it       *)
(* builds a response (ResponseContext and the function handlers of         *)
(* OContext).                                                              *)
(*                                                                         *)
(* The outstation is one record.  Every operator takes the record before a *)
(* call and returns the record after it; the handlers of module Outstation *)
(* are compositions of these calls, so that one callback from the executor *)
(* is one step however many calls it nests.                                *)
(*                                                                         *)
(* A fragment has room for FragSize objects, an event or a static point    *)
(* being one object each.                                                  *)
(***************************************************************************)
EXTENDS EventBuffer, OutstationFiles

CONSTANTS
  None,           \* absence of a request, a response or a broadcast
  SeqCount,       \* application sequence numbers are 0 .. SeqCount - 1 (16)
  FragSize,       \* objects that fit in one fragment
  Points,         \* static points, named by their index
  Counters,       \* the points that are counters
  Accepted,       \* command objects that the application accepts
  CommandEvent,   \* <<type, class>> of the event an executed command causes
  FrozenEvent,    \* <<type, class>> of the event of a frozen counter
  IINBits,        \* the bits of the response header that are told apart
  MaxRuns         \* commands that ran are counted up to this number

ASSUME SeqCountPos == SeqCount \in Nat \ {0}
ASSUME FragSizePos == FragSize \in Nat \ {0}
ASSUME PointsInt == Points \subseteq Int /\ IsFiniteSet(Points) /\ Counters \subseteq Points
ASSUME MaxRunsNat == MaxRuns \in Nat
ASSUME EventKinds == {CommandEvent, FrozenEvent} \subseteq Types \X Classes

NextSeq(n) == (n + 1) % SeqCount

\* The objects of a response without any.
NoObjects == [k |-> "none"]

\* A response as the outstation remembers it (TxBuffer): the bits of its control
\* field, its sequence number, the events and the other objects in it, its IIN,
\* and the request it answers.
Response(con, fin, seq, ids, req) ==
  [uns |-> FALSE, con |-> con, fir |-> TRUE, fin |-> fin, seq |-> seq, ids |-> ids,
   objs |-> NoObjects, iin |-> {}, req |-> req]

\* What a handler wrote and the error bits it returned, for the response that
\* is being built.
Reply(o, objs, err) == [o EXCEPT !.reply = [objs |-> objs, err |-> err \cap IINBits]]
NoReply == [objs |-> NoObjects, err |-> {}]

----------------------------------------------------------------------------
(* Events caused by the outstation itself while it handles a request.  The *)
(* field `detect' is this step's choice of whether the new value differs   *)
(* from the last event's (EventMode::Detect).                              *)
Detect(o, e) ==
  IF o.detect /\ o.buf.next <= MaxEvents
  THEN [o EXCEPT !.buf = Update(@, e[1], e[2])]
  ELSE o

\* Without a file handler the functions are not supported.
HandleFileRequest(o, q) ==
  IF o.store = None THEN Reply(o, NoObjects, {"func"})
  ELSE LET a == HandleFile(o.store, q) IN [Reply(o, a.objs, a.err) EXCEPT !.store = a.store]

----------------------------------------------------------------------------
(* READ.                                                                   *)

\* ResponseContext::HasSelection.
HasSelection(o) == o.points # {} \/ HasAnySelection(o.buf)

\* Wrong: FIN does not wait for the static points.
LoadResponseEarlyFin(o, seq, req) ==
  LET ids == Written(o.buf, FragSize)
      b   == Load(o.buf, FragSize)
      pts == IF HasAnySelection(b) THEN {} ELSE Oldest(o.points, FragSize - Cardinality(ids))
      fin == ~HasAnySelection(b)
  IN  [o EXCEPT !.buf = b, !.points = @ \ pts,
                !.rsp = Response(~fin \/ ids # {}, fin, seq, ids, req)]

\* ResponseContext::LoadResponse: events first, static points only once no
\* selected event is left.
LoadResponse(o, seq, req) ==
  LET ids   == Written(o.buf, FragSize)
      b     == Load(o.buf, FragSize)
      pts   == IF HasAnySelection(b) THEN {}
               ELSE Oldest(o.points, FragSize - Cardinality(ids))
      fin   == ~HasAnySelection(b) /\ pts = o.points
      con   == ~fin \/ ids # {}
  IN  [o EXCEPT !.buf = b, !.points = @ \ pts,
                !.rsp = [Response(con, fin, seq, ids, req) EXCEPT
                           !.objs = IF ids = {} /\ pts = {} THEN NoObjects ELSE [k |-> "data"]]]

\* Wrong: a new READ does not drop the selection of an unfinished one.
HandleReadKeepsSelection(o, q, seq) ==
  LoadResponse([o EXCEPT !.buf = SelectByClass(@, q.classes, q.max), !.points = q.points],
               seq, q)

\* OContext::HandleRead; q.tag = "file" is a read of a file block, which
\* touches neither selection.  Whatever a malformed request selected before the
\* parser gave up stays selected.
HandleRead(o, q, seq) ==
  IF q.tag = "file"
  THEN [HandleFileRequest(o, q) EXCEPT !.rsp = Response(FALSE, TRUE, seq, {}, q)]
  ELSE LET s == [o EXCEPT
                   !.buf = SelectByClass(Unselect(@), q.classes, q.max),
                   !.points = q.points]
       IN  IF q.tag = "bad"
           THEN [Reply(s, NoObjects, {"param"}) EXCEPT !.rsp = Response(FALSE, TRUE, seq, {}, q)]
           ELSE LoadResponse(s, seq, q)

----------------------------------------------------------------------------
(* Controls (ControlState and the command handlers).  The objects of a     *)
(* command come back with the status of each: all successful, or not.      *)
Echo == [k |-> "echo"]
Refused == [k |-> "refused"]
Oversized(o) == Reply(o, NoObjects, {"param"})

\* ControlState::Select.
HandleSelect(o, q) ==
  CASE q.tag = "oversized" -> Oversized(o)
    [] q.tag # "oversized" /\ q.tag \in Accepted ->
         [Reply(o, Echo, {}) EXCEPT
            !.control = [selected |-> TRUE, seq |-> NextSeq(o.solNum),
                         objects |-> q.tag, fresh |-> TRUE, uses |-> 0]]
    [] q.tag # "oversized" /\ q.tag \notin Accepted -> Reply(o, Refused, {})

\* Wrong: a selection never expires.
ValidateSelectionForever(o, q) ==
  o.control.selected /\ o.control.seq = o.solNum /\ o.control.objects = q.tag

\* ControlState::ValidateSelection.
ValidateSelection(o, q) ==
  /\ o.control.selected
  /\ o.control.seq = o.solNum
  /\ o.control.fresh
  /\ o.control.objects = q.tag

\* A command runs: the application may update the database.
Execute(o, q) ==
  [Reply(Detect(o, CommandEvent), IF q.tag \in Accepted THEN Echo ELSE Refused, {})
     EXCEPT !.check = TRUE, !.ran = IF @ < MaxRuns THEN @ + 1 ELSE @]

\* A successful OPERATE leaves the selection in place; a failed one drops it.
\* A request that could not be echoed in one fragment is refused at once.
\* `uses' counts the operations on one selection, up to two.
HandleOperate(o, q) ==
  CASE q.tag = "oversized" -> Oversized(o)
    [] q.tag # "oversized" /\ ValidateSelection(o, q) ->
         [Execute(o, q) EXCEPT !.control.uses = IF @ < 2 THEN @ + 1 ELSE @]
    [] q.tag # "oversized" /\ ~ValidateSelection(o, q) ->
         [Reply(o, Refused, {}) EXCEPT !.control.selected = FALSE]

HandleDirectOperate(o, q) == IF q.tag = "oversized" THEN Oversized(o) ELSE Execute(o, q)

----------------------------------------------------------------------------
(* Time, IIN, classes, counters.                                           *)

\* TimeSyncState::RecordCurrentTime.
HandleRecordCurrentTime(o) ==
  [o EXCEPT !.time = [valid |-> TRUE, seq |-> NextSeq(o.solNum)]]

\* Wrong: the sequence number of the WRITE is not looked at.
HandleWriteAnySequence(o, q) ==
  CASE q.tag = "restart" -> [o EXCEPT !.restart = FALSE]
    [] q.tag = "lan" -> [o EXCEPT !.time.valid = FALSE]
    [] OTHER -> o

\* WriteHandler: clear the restart bit, or set the time by the LAN procedure,
\* which needs the record of the request just before.
HandleWrite(o, q) ==
  CASE q.tag = "restart" -> [o EXCEPT !.restart = FALSE]
    [] q.tag = "lan" /\ o.time.valid /\ o.time.seq = o.solNum ->
         [o EXCEPT !.time.valid = FALSE]
    [] q.tag = "time"    -> o          \* the absolute time, for the application
    [] OTHER -> Reply(o, NoObjects, {"param"})

HandleDisableUnsolicited(o, q) ==
  IF q.tag = "bad" THEN Reply(o, NoObjects, {"param"}) ELSE [o EXCEPT !.mask = @ \ q.classes]

HandleEnableUnsolicited(o, q) ==
  IF q.tag = "bad" THEN Reply(o, NoObjects, {"param"})
  ELSE [o EXCEPT !.mask = @ \cup q.classes, !.check = TRUE]

\* FreezeRequestHandler on the counters: it selects the counters it was asked
\* for, freezes every selected counter and clears the selection of counters.
\* Of the events that this causes the model keeps one.
HandleFreeze(o, q) ==
  LET frozen == (o.points \cap Counters) \cup q.points
      s      == IF frozen = {} THEN o ELSE Detect(o, FrozenEvent)
  IN  IF q.tag = "bad" THEN Reply(o, NoObjects, {"param"})
      ELSE [s EXCEPT !.points = @ \ Counters]

----------------------------------------------------------------------------
(* Dispatch by function code.                                              *)
ControlFunctions == {"OPERATE", "DIRECT_OPERATE", "DIRECT_OPERATE_NR"}
FreezeFunctions == {"IMMED_FREEZE", "IMMED_FREEZE_NR", "FREEZE_CLEAR", "FREEZE_CLEAR_NR"}
NoAckFunctions == {"DIRECT_OPERATE_NR", "IMMED_FREEZE_NR", "FREEZE_CLEAR_NR"}

\* HandleNonReadResponse.  Restarts and assignments of classes only reach the
\* application.
HandleNonRead(o, q) ==
  CASE q.fn = "WRITE" /\ q.tag = "file"   -> HandleFileRequest(o, q)
    [] q.fn = "WRITE" /\ q.tag # "file"   -> HandleWrite(o, q)
    [] q.fn = "SELECT"                    -> HandleSelect(o, q)
    [] q.fn = "OPERATE"                   -> HandleOperate(o, q)
    [] q.fn = "DIRECT_OPERATE"            -> HandleDirectOperate(o, q)
    [] q.fn \in {"DELAY_MEASURE", "COLD_RESTART"} /\ q.tag = "empty" ->
         Reply(o, [k |-> "delay"], {})
    [] q.fn = "ASSIGN_CLASS"              -> o
    [] q.fn = "RECORD_CURRENT_TIME" /\ q.tag = "empty" -> HandleRecordCurrentTime(o)
    [] q.fn = "DISABLE_UNSOLICITED" /\ o.params.unsolicited -> HandleDisableUnsolicited(o, q)
    [] q.fn = "ENABLE_UNSOLICITED" /\ o.params.unsolicited  -> HandleEnableUnsolicited(o, q)
    [] q.fn \in {"IMMED_FREEZE", "FREEZE_CLEAR"} -> HandleFreeze(o, q)
    [] q.fn \in FileFunctions             -> HandleFileRequest(o, q)
    [] q.fn \in {"DELAY_MEASURE", "COLD_RESTART", "RECORD_CURRENT_TIME"} /\ q.tag # "empty" ->
         Reply(o, NoObjects, {"param"})
    [] OTHER -> Reply(o, NoObjects, {"func"})

\* ProcessRequestNoAck: nothing is echoed, so nothing is oversized.
HandleNoAck(o, q) ==
  CASE q.fn = "DIRECT_OPERATE_NR" -> Execute(o, q)
    [] q.fn \in {"IMMED_FREEZE_NR", "FREEZE_CLEAR_NR"} -> HandleFreeze(o, q)
    [] OTHER -> o

\* ProcessBroadcastRequest; note the condition on RECORD_CURRENT_TIME.
HandleBroadcast(o, q) ==
  CASE q.fn = "WRITE"                -> HandleWrite(o, q)
    [] q.fn \in NoAckFunctions       -> HandleNoAck(o, q)
    [] q.fn = "RECORD_CURRENT_TIME" /\ q.tag # "empty" -> HandleRecordCurrentTime(o)
    [] q.fn = "DISABLE_UNSOLICITED" /\ o.params.unsolicited -> HandleDisableUnsolicited(o, q)
    [] q.fn = "ENABLE_UNSOLICITED" /\ o.params.unsolicited  -> HandleEnableUnsolicited(o, q)
    [] OTHER -> o

=============================================================================
