------------------------------- MODULE Master -------------------------------
(***************************************************************************)
(* The masters of a channel (MContext) and the scheduler they share.       *)
(*                                                                         *)
(* The strand of the channel runs one callback at a time: a received       *)
(* response, the end of a transmission, a timer, a call of the user, a     *)
(* posted check of the scheduler.  The operators below are whole           *)
(* callbacks, from the state s before to the state after.  s.ctx[m] is the *)
(* state of session m; its tx is the message handed to the lower layer     *)
(* (isSending) or None.  s.soe are the events that the SOE handler of the  *)
(* application was given.                                                  *)
(***************************************************************************)
EXTENDS MasterScheduler

CONSTANTS
  SeqCount,       \* sequence numbers are modulo SeqCount (16 in the code)
  ResponseTimeout,
  Reacts        \* IIN bits whose reaction the parameters enable

ASSUME SeqCounts == SeqCount \in Nat \ {0} /\ ResponseTimeout \in 1 .. Never - 1

NextSeq(s) == (s + 1) % SeqCount

NewContext ==
  [online |-> FALSE, tx |-> None, seq |-> 0, active |-> None, tstate |-> "IDLE",
   timer |-> Never, confirms |-> <<>>]

Idle ==
  [task |-> [t \in Tasks |-> NewTask(t)], blocks |-> {}, owed |-> [t \in Tasks |-> 0],
   bound |-> {}, queue |-> <<>>, current |-> None, pending |-> FALSE, posted |-> 0,
   taskTimer |-> Never, startTimer |-> Never, shut |-> FALSE, soe |-> {},
   ctx |-> [m \in Masters |-> NewContext]]

Sending(s, m) == s.ctx[m].tx # None

----------------------------------------------------------------------------
(* Sending.                                                                *)

\* Transmit asserts that nothing is being sent: every caller below checks it.
Transmit(s, m, msg) == [s EXCEPT !.ctx[m].tx = msg]

CheckConfirmTransmit(s, m) ==
  IF Sending(s, m) \/ s.ctx[m].confirms = <<>> THEN s
  ELSE [Transmit(s, m, Head(s.ctx[m].confirms)) EXCEPT !.ctx[m].confirms = Tail(@)]

QueueConfirm(s, m, r) ==
  CheckConfirmTransmit(
    [s EXCEPT !.ctx[m].confirms = Append(@, [fn |-> "CONFIRM", uns |-> r.uns, seq |-> r.seq])], m)

CompleteActiveTask(s, m) ==
  IF s.ctx[m].active = None THEN s
  ELSE CompleteCurrentFor([s EXCEPT !.ctx[m].active = None], m)

StartResponseTimer(s, m) == [s EXCEPT !.ctx[m].timer = ResponseTimeout]

To(s, m, tstate) == [s EXCEPT !.ctx[m].tstate = tstate]

\* ResumeActiveTask: the task that runs sends its next request, or fails.
ResumeActiveTask(s, m) ==
  LET t    == s.ctx[m].active
      kind == Kind[t]
      job  == s.task[t].job
      sent == Transmit([s EXCEPT !.task[t].job = JobAfterBuild(kind, @)], m,
                       [req |-> BuildRequest(kind, job), seq |-> s.ctx[m].seq])
  IN  IF ~CanBuild(kind, job)
      THEN To(CompleteActiveTask(CompleteTask(s, t, "FAILURE_MESSAGE_FORMAT_ERROR"), m), m, "IDLE")
      ELSE IF ExpectsResponse(kind)
      THEN To(StartResponseTimer(sent, m), m, "WAIT_FOR_RESPONSE")
      ELSE To(CompleteActiveTask([sent EXCEPT !.ctx[m].seq = NextSeq(@)], m), m, "IDLE")

\* StartTask_TaskReady, and the end of Run.
StartTask(s, m) ==
  IF Sending(s, m) THEN To(s, m, "TASK_READY") ELSE ResumeActiveTask(s, m)

Run(s, m, t) ==
  IF s.ctx[m].active # None \/ s.ctx[m].tstate # "IDLE" THEN s
  ELSE StartTask([s EXCEPT !.ctx[m].active = t, !.task[t].job = Initialize(Kind[t], @)], m)

\* MasterSchedulerBackend::CheckForTaskRun.
CheckForTaskRun(s) ==
  IF s.shut THEN s
  ELSE LET y == RestartTimeoutTimer([s EXCEPT !.pending = FALSE]) IN
       IF y.current # None \/ y.queue = <<>> THEN y
       ELSE LET i == Best(y)
                t == y.queue[i]
            IN  IF Exp(y, t) = 0
                THEN Run([y EXCEPT !.current = t, !.queue = RemoveAt(@, i)], Owner[t], t)
                ELSE [y EXCEPT !.taskTimer = Exp(y, t)]

----------------------------------------------------------------------------
(* Receiving.                                                              *)

\* MasterTasks::Demand and SetMinExpiration.
SetMinExpiration(s, ts) ==
  [s EXCEPT !.task = [t \in Tasks |->
     IF t \in ts THEN [@[t] EXCEPT !.behavior = Reset(@, Kind[t])] ELSE @[t]]]

\* The tasks that a bit of the IIN field makes due.
Demands(m, bit) ==
  {t \in TasksOf(m) :
     Kind[t] \in CASE bit = "restart"  -> {"ClearRestart", "AssignClass", "Integrity", "EnableUnsol"}
                   [] bit = "overflow" -> {"Integrity"}
                   [] bit = "time"     -> {"LanTimeSync", "SerialTimeSync"}
                   [] bit = "class"    -> {"EventScan"}
                   [] OTHER            -> {}}

\* Wrong: the tasks are due and the scheduler is not told.
ProcessIINSilently(s, m, iin) == SetMinExpiration(s, UNION {Demands(m, b) : b \in iin \cap Reacts})

ProcessIIN(s, m, iin) ==
  LET bits == iin \cap Reacts
      due  == UNION {Demands(m, b) : b \in bits}
      y    == SetMinExpiration(s, due)
  IN  IF due # {} \/ "restart" \in bits THEN PostCheckForTaskRun(y) ELSE y

\* IMasterTask::OnResponse.
OnTaskResponse(s, t, res) ==
  LET y == [s EXCEPT !.task[t].job = res.job]
  IN  CASE res.result = "OK_FINAL" -> CompleteTask(y, t, "SUCCESS")
        [] res.result = "ERROR_BAD_RESPONSE" -> CompleteTask(y, t, "FAILURE_BAD_RESPONSE")
        [] OTHER                -> y

\* OnResponse_WaitForResponse: the answer is matched by its sequence number; the
\* confirm goes out before the task's next request.
OnResponse(s, m, r) ==
  LET c   == s.ctx[m]
      res == ProcessResponse(Kind[c.active], s.task[c.active].job, r)
      y   == OnTaskResponse(
               [s EXCEPT !.ctx[m].timer = Never, !.ctx[m].seq = NextSeq(@),
                         !.soe = IF Kind[c.active] \in PollKinds /\ res.result # "ERROR_BAD_RESPONSE"
                                 THEN @ \cup r.ids ELSE @],
               c.active, res)
      z   == IF r.con THEN QueueConfirm(y, m, r) ELSE y
  IN  IF c.tstate # "WAIT_FOR_RESPONSE" \/ r.seq # c.seq THEN s
      ELSE CASE res.result = "OK_CONTINUE" -> StartResponseTimer(z, m)
             [] res.result = "OK_REPEAT"   -> StartTask(z, m)
             [] OTHER                   -> To(CompleteActiveTask(z, m), m, "IDLE")

OnUnsolicited(s, m, r) ==
  IF r.objs.k \notin {"none", "data"} THEN s
  ELSE LET y == [s EXCEPT !.soe = @ \cup r.ids]
       IN  IF r.con THEN QueueConfirm(y, m, r) ELSE y

OnReceive(s, m, r) ==
  IF ~s.ctx[m].online THEN s
  ELSE ProcessIIN(IF r.uns THEN OnUnsolicited(s, m, r) ELSE OnResponse(s, m, r), m, r.iin)

----------------------------------------------------------------------------
(* The other callbacks.                                                    *)

\* Wrong: a confirm that had to wait is sent with the next one.
OnTxReadyForgets(s, m) ==
  LET y == [s EXCEPT !.ctx[m].tx = None]
  IN  IF y.ctx[m].tstate = "TASK_READY" THEN ResumeActiveTask(y, m) ELSE y

OnTxReady(s, m) ==
  LET y == [s EXCEPT !.ctx[m].tx = None]
  IN  CheckConfirmTransmit(
        IF y.ctx[m].tstate = "TASK_READY" THEN ResumeActiveTask(y, m) ELSE y, m)

\* Wrong: the wait for the answer starts over.
OnTimeoutWaitsAgain(s, m) ==
  IF ~s.ctx[m].online \/ s.ctx[m].tstate # "WAIT_FOR_RESPONSE"
  THEN [s EXCEPT !.ctx[m].timer = Never] ELSE StartResponseTimer(s, m)

OnTimeout(s, m) ==
  LET c == s.ctx[m]
      y == [s EXCEPT !.ctx[m].timer = Never]
  IN  IF ~c.online \/ c.tstate # "WAIT_FOR_RESPONSE" THEN y
      ELSE To(CompleteActiveTask(
                [CompleteTask(y, c.active, "FAILURE_RESPONSE_TIMEOUT")
                   EXCEPT !.ctx[m].seq = NextSeq(@)], m), m, "IDLE")

\* MasterTasks::Initialize adds the tasks of the session in this order.
AddOrder == <<"ClearRestart", "AssignClass", "Integrity", "EventScan", "EnableUnsol",
              "DisableUnsol", "LanTimeSync", "SerialTimeSync", "UserPoll">>

OnLowerLayerUp(s, m) ==
  LET mine(kind) == {t \in TasksOf(m) : Kind[t] = kind /\ (kind = "UserPoll" => t \in s.bound)}
  IN  FoldLeft(LAMBDA y, kind : FoldSet(LAMBDA t, z : Add(z, t), y, mine(kind)),
               [s EXCEPT !.ctx[m].online = TRUE], AddOrder)

\* Confirms that were queued stay queued.
OnLowerLayerDown(s, m) ==
  SetRunnerOffline([s EXCEPT !.ctx[m] = [NewContext EXCEPT !.confirms = s.ctx[m].confirms]], m)

\* ScheduleAdhocTask, after the task was made.
ScheduleAdhocTask(s, t) ==
  LET y == [s EXCEPT !.task[t] = NewTask(t), !.owed[t] = 1]
  IN  IF s.ctx[Owner[t]].online THEN Add(y, t)
      ELSE Destroy(CompleteTask(y, t, "FAILURE_NO_COMMS"), t)

\* ScheduleRecurringPollTask.
AddScan(s, t) ==
  LET y == [s EXCEPT !.bound = @ \cup {t}]
  IN  IF s.ctx[Owner[t]].online THEN Add(y, t) ELSE y

\* DNP3Channel::ShutdownImpl: the channel closes, then the scheduler.
Shutdown(s) ==
  LET y == FoldSet(LAMBDA m, acc : OnLowerLayerDown(acc, m), s,
                   {m \in Masters : s.ctx[m].online})
  IN  [y EXCEPT !.shut = TRUE, !.queue = <<>>, !.current = None,
                !.taskTimer = Never, !.startTimer = Never]

\* Time passes by one unit.
Elapse(s) ==
  [ElapseScheduler(s) EXCEPT
     !.ctx = [m \in Masters |-> [@[m] EXCEPT !.timer = Later(@)]]]
=============================================================================
