--------------------------- MODULE MasterScheduler ---------------------------
(***************************************************************************)
(* The scheduler that the masters of a channel share                       *)
(* (MasterSchedulerBackend), and the life of a task in it.                 *)
(*                                                                         *)
(* All of it runs on the channel's strand.  The masters, their tasks and   *)
(* the scheduler are one record x; every operator takes the record before  *)
(* a call and returns the record after it.  A task whose IsEnabled() is    *)
(* false can never run and is left out of Tasks.                           *)
(***************************************************************************)
EXTENDS MasterTask, FiniteSetsExt

CONSTANTS
  None,
  Masters,      \* the sessions on the channel
  Tasks,        \* every task that ever exists; an ad hoc one may be made again
  Owner,        \* the master of a task
  Kind,         \* the kind of a task
  FileData      \* what a WriteFile task writes

ASSUME TaskTables ==
  /\ Owner \in [Tasks -> Masters]
  /\ Kind \in [Tasks -> Kinds]

AdHoc == {t \in Tasks : ~IsRecurring(Kind[t])}
TasksOf(m) == {t \in Tasks : Owner[t] = m}

NewTask(t) == [behavior |-> NewBehavior(Kind[t]), job |-> NewJob(Kind[t], FileData)]

Exp(x, t) == x.task[t].behavior.exp
Start(x, t) == x.task[t].behavior.start

----------------------------------------------------------------------------
(* A task ends a run.                                                      *)

\* TaskContext::IsBlocked.
IsBlocked(x, t) ==
  \E b \in x.blocks : Owner[b] = Owner[t] /\ Priority(Kind[b]) < Priority(Kind[t])

\* IMasterTask::CompleteTask.  x.owed[t] counts the calls of OnComplete that the
\* user of an ad hoc task still waits for.
CompleteTask(x, t, result) ==
  [x EXCEPT
     !.task[t].behavior = BehaviorAfter(@, Kind[t], result),
     !.blocks = CASE result = "SUCCESS" -> @ \ {t}
                  [] result \notin {"SUCCESS", "FAILURE_NO_COMMS"}
                       /\ BlocksLowerPriority(Kind[t]) -> @ \cup {t}
                  [] OTHER -> @,
     !.owed[t] = IF t \in AdHoc THEN @ - 1 ELSE @]

\* The last reference to an ad hoc task goes away, and with it what the task
\* remembered.
Destroy(x, t) == IF t \in AdHoc THEN [x EXCEPT !.task[t] = NewTask(t)] ELSE x

----------------------------------------------------------------------------
(* The queue.                                                              *)

\* PostCheckForTaskRun.  x.posted counts the checks the executor still has to
\* run; Demand's own call of CheckForTaskRun can leave more than one.
PostCheckForTaskRun(x) ==
  IF x.pending THEN x ELSE [x EXCEPT !.pending = TRUE, !.posted = @ + 1]

Add(x, t) == PostCheckForTaskRun([x EXCEPT !.queue = Append(@, t)])

\* An ad hoc task of a master that goes offline.
OnLowerLayerClose(x, t) == Destroy(CompleteTask(x, t, "FAILURE_NO_COMMS"), t)

\* Wrong: the task that is running stays the scheduler's.
SetRunnerOfflineKeepsCurrent(x, m) ==
  LET lost == Range(x.queue) \cap TasksOf(m)
      y    == FoldSet(LAMBDA t, acc : OnLowerLayerClose(acc, t), x, lost \cap AdHoc)
  IN  PostCheckForTaskRun([y EXCEPT !.queue = SelectSeq(@, LAMBDA t : Owner[t] # m)])

\* SetRunnerOffline: the tasks of a master leave the queue and the scheduler;
\* its ad hoc tasks fail, its recurring ones come back when it is online again.
SetRunnerOffline(x, m) ==
  LET lost == (Range(x.queue) \cup {x.current}) \cap TasksOf(m)
      y    == FoldSet(LAMBDA t, acc : OnLowerLayerClose(acc, t), x, lost \cap AdHoc)
  IN  PostCheckForTaskRun(
        [y EXCEPT !.queue = SelectSeq(@, LAMBDA t : Owner[t] # m),
                  !.current = IF @ \in lost THEN None ELSE @])

\* Wrong: a recurring task is not queued again.
CompleteCurrentForDrops(x, m) ==
  IF x.current \notin TasksOf(m) THEN x
  ELSE PostCheckForTaskRun([Destroy(x, x.current) EXCEPT !.current = None])

\* CompleteCurrentFor.
CompleteCurrentFor(x, m) ==
  LET t == x.current IN
  IF t \notin TasksOf(m) THEN x
  ELSE LET y == IF IsRecurring(Kind[t]) THEN Add(x, t) ELSE Destroy(x, t)
       IN  PostCheckForTaskRun([y EXCEPT !.current = None])

----------------------------------------------------------------------------
(* Which task runs next.                                                   *)

\* GetBestTaskToRun prefers an enabled task, then one that is not blocked, then
\* the one that expires first, then the one of higher priority.  TRUE when l is
\* preferred to r.
Better(x, l, r) ==
  LET dis(t) == Exp(x, t) = Never
      blk(t) == IsBlocked(x, t)
      pri(t) == Priority(Kind[t])
  IN  \/ ~dis(l) /\ dis(r)
      \/ /\ dis(l) = dis(r)
         /\ \/ ~blk(l) /\ blk(r)
            \/ /\ blk(l) = blk(r)
               /\ \/ Exp(x, l) < Exp(x, r)
                  \/ Exp(x, l) = Exp(x, r) /\ pri(l) < pri(r)

\* The position of the task the loop of CheckForTaskRun ends with: the first of
\* those that no other is preferred to.
Best(x) ==
  CHOOSE i \in DOMAIN x.queue :
    /\ \A j \in DOMAIN x.queue : ~Better(x, x.queue[j], x.queue[i])
    /\ \A j \in 1 .. i - 1 : Better(x, x.queue[i], x.queue[j])

\* RestartTimeoutTimer: the timer for the earliest start timeout in the queue.
RestartTimeoutTimer(x) ==
  [x EXCEPT !.startTimer = Min({Start(x, t) : t \in Range(x.queue) \cap AdHoc} \cup {Never})]

\* Wrong: a task that timed out stays queued.
TimeoutTasksKeeps(x) ==
  LET late == {t \in Range(x.queue) \cap AdHoc : Start(x, t) = 0}
  IN  RestartTimeoutTimer(
        FoldSet(LAMBDA t, acc : CompleteTask(acc, t, "FAILURE_START_TIMEOUT"), x, late))

\* TimeoutTasks, when that timer fires.
TimeoutTasks(x) ==
  LET late == {t \in Range(x.queue) \cap AdHoc : Start(x, t) = 0}
      y    == FoldSet(LAMBDA t, acc : Destroy(CompleteTask(acc, t, "FAILURE_START_TIMEOUT"), t),
                      x, late)
  IN  RestartTimeoutTimer([y EXCEPT !.queue = SelectSeq(@, LAMBDA t : t \notin late)])

\* Time passes by one unit.
Later(d) == IF d \in 1 .. Never - 1 THEN d - 1 ELSE d

\* A start timeout matters only while the task is queued.
ElapseTask(x, t) ==
  [x.task[t] EXCEPT !.behavior.exp = Later(@),
                    !.behavior.start = IF t \in Range(x.queue) THEN Later(@) ELSE @]

ElapseScheduler(x) ==
  [x EXCEPT !.taskTimer = Later(@), !.startTimer = Later(@),
            !.task = [t \in Tasks |-> ElapseTask(x, t)]]
=============================================================================
