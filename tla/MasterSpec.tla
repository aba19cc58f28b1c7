----------------------------- MODULE MasterSpec -----------------------------
(***************************************************************************)
(* The masters of one channel against everything that can happen to them:  *)
(* any response, late or out of order, the end of a transmission, timers,  *)
(* the link going up and down, calls of the user, and the shutdown of the  *)
(* channel.                                                                *)
(***************************************************************************)
EXTENDS Master

CONSTANTS
  Responses,    \* what may arrive at a master: sets of response records
  MaxConfirms,  \* bound: confirms waiting in a confirm queue
  MaxPosted,    \* bound: scheduler checks waiting in the executor
  MaxAdHoc      \* bound: ad hoc tasks at a time

ASSUME Bounds == MaxConfirms \in Nat /\ {MaxPosted, MaxAdHoc} \subseteq Nat \ {0}

VARIABLE ch

Queued(t) == t \in Range(ch.queue)
Alive(t)  == Queued(t) \/ ch.current = t

\* The bound on posted checks holds back the two callbacks that run a check
\* while another is still posted.
Room == ch.posted < MaxPosted

\* One callback.  What is being sent does not matter here, only whether
\* something is.
Step(s) ==
  ch' = [s EXCEPT !.ctx = [m \in Masters |->
           [@[m] EXCEPT !.tx = IF @ = None THEN None ELSE "message"]]]

Init == ch = Idle

Check == ch.posted > 0 /\ Step(CheckForTaskRun([ch EXCEPT !.posted = @ - 1]))

TaskTimer == Room /\ ch.taskTimer = 0 /\ Step(CheckForTaskRun([ch EXCEPT !.taskTimer = Never]))

StartTimer == ch.startTimer = 0 /\ Step(TimeoutTasks([ch EXCEPT !.startTimer = Never]))

Timeout(m) == ch.ctx[m].timer = 0 /\ Step(OnTimeout(ch, m))

TxReady(m) == Sending(ch, m) /\ Step(OnTxReady(ch, m))

Receive(m) ==
  /\ ch.ctx[m].online
  /\ \E r \in Responses[m] :
       /\ r.con => Len(ch.ctx[m].confirms) < MaxConfirms
       /\ Step(OnReceive(ch, m, r))

Up(m) == ~ch.shut /\ ~ch.ctx[m].online /\ Step(OnLowerLayerUp(ch, m))

Down(m) == ch.ctx[m].online /\ Step(OnLowerLayerDown(ch, m))

Schedule(t) ==
  /\ t \in AdHoc /\ ~Alive(t)
  /\ Cardinality({u \in AdHoc : Alive(u)}) < MaxAdHoc
  /\ Step(ScheduleAdhocTask(ch, t))

BindScan(t) ==
  Kind[t] = "UserPoll" /\ t \notin ch.bound /\ Step(AddScan(ch, t))

\* MasterScan::Demand; the task must have been bound, the channel open.
DemandScan(t) ==
  /\ Room /\ ~ch.shut /\ t \in ch.bound
  /\ Step(CheckForTaskRun(SetMinExpiration(ch, {t})))

Close == ~ch.shut /\ Step(Shutdown(ch))

Tick == Step(Elapse(ch))

Next ==
  \/ Check \/ TaskTimer \/ StartTimer \/ Close \/ Tick
  \/ \E m \in Masters : Timeout(m) \/ TxReady(m) \/ Receive(m) \/ Up(m) \/ Down(m)
  \/ \E t \in Tasks : Schedule(t) \/ BindScan(t) \/ DemandScan(t)

Spec == Init /\ [][Next]_ch

\* The executor runs what was posted and what expired, time passes, and the
\* lower layer ends the transmissions of m.
\* (Weak fairness with the enabling conditions written out.)
Fairness(m) ==
  /\ []<>(ch.posted = 0) \/ []<><<Check>>_ch
  /\ []<>(ch.startTimer # 0) \/ []<><<StartTimer>>_ch
  /\ []<>(Elapse(ch) = ch) \/ []<><<Tick>>_ch
  /\ []<>(ch.ctx[m].timer # 0) \/ []<><<Timeout(m)>>_ch
  /\ []<>~Sending(ch, m) \/ []<><<TxReady(m)>>_ch

----------------------------------------------------------------------------

(* Properties.                                                             *)

\* The scheduler and the sessions agree on the one task that runs.  A session
\* that refused Run, or completed a task the scheduler did not hold, would leave
\* the scheduler with a task that never ends.
Agreement ==
  \A m \in Masters :
    LET c == ch.ctx[m] IN
    /\ c.active = (IF ch.current \in TasksOf(m) THEN ch.current ELSE None)
    /\ c.tstate = "IDLE" <=> c.active = None
    /\ c.tstate = "WAIT_FOR_RESPONSE" <=> c.timer # Never
    /\ c.tstate = "TASK_READY" => Sending(ch, m)

\* Every task is in one place: a recurring task of an online session is queued
\* or running, a task of an offline session is neither, none is held twice.
Custody ==
  /\ \A i, j \in DOMAIN ch.queue : ch.queue[i] = ch.queue[j] => i = j
  /\ ~Queued(ch.current)
  /\ \A t \in Tasks \ AdHoc :
       Alive(t) <=> ch.ctx[Owner[t]].online /\ (Kind[t] = "UserPoll" => t \in ch.bound)
  /\ \A t \in AdHoc : Alive(t) => ch.ctx[Owner[t]].online

\* No wakeup is lost: when no task runs, a check is on its way, or the timer is
\* set no later than the task that should run next; and start timeouts are
\* timed.
NoLostWakeup ==
  ~ch.shut =>
    /\ ch.pending => ch.posted > 0
    /\ ch.posted = 0 /\ ch.current = None /\ ch.queue # <<>> =>
         ch.taskTimer <= Exp(ch, ch.queue[Best(ch)])
    /\ \A t \in AdHoc : ch.posted = 0 /\ Queued(t) => ch.startTimer <= Start(ch, t)

\* The user of an ad hoc task is told once how it ended, when the task goes
\* away and not before.  (A NoResponse task that was sent tells nothing.)
ReportedOnce ==
  \A t \in AdHoc :
    /\ Alive(t) => ch.owed[t] = 1
    /\ ~Alive(t) /\ Kind[t] # "NoResponse" => ch.owed[t] = 0

\* Every ad hoc task that has a start timeout ends, whatever the other masters
\* and their outstations do.
TaskEnds ==
  \A t \in AdHoc : Start(Idle, t) < Never /\ Kind[t] # "NoResponse" =>
    (ch.owed[t] = 1 ~> ch.owed[t] = 0)
=============================================================================
