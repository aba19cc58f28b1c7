----------------------------- MODULE MasterTask -----------------------------
(***************************************************************************)
(* The tasks of a master: their static attributes, when they want to run   *)
(* (TaskBehavior), the requests they build and what they make of a         *)
(* response (IMasterTask and its subclasses).                              *)
(*                                                                         *)
(* Times are distances from now: 0 is "already expired" and Never is       *)
(* Timestamp::Max.  A task's `job' is what its class remembers between     *)
(* requests.  A response is a record [uns, con, fir, fin, seq, iin, objs, *)
(* ids]; ids are the events in it.                                         *)
(***************************************************************************)
EXTENDS MasterFiles, FiniteSets

CONSTANTS
  Never,            \* Timestamp::Max and TimeDuration::Max
  RetryMin,         \* MasterParams::taskRetryPeriod
  RetryMax,         \* MasterParams::maxTaskRetryPeriod
  PollPeriod,       \* period of a periodic scan
  StartTimeout,     \* MasterParams::taskStartTimeout
  Unbuildable       \* kinds whose request the user's builder fails to write

ASSUME Times ==
  /\ {RetryMin, RetryMax, PollPeriod, StartTimeout} \subseteq Nat \ {0}
  /\ RetryMin <= RetryMax
  /\ \A d \in {RetryMax, PollPeriod, StartTimeout} : d < Never

----------------------------------------------------------------------------
(* Kinds of tasks and their attributes.                                    *)
StartupKinds == {"ClearRestart", "DisableUnsol", "AssignClass", "Integrity",
                 "LanTimeSync", "SerialTimeSync", "EnableUnsol", "EventScan"}
FileKinds    == {"ReadFile", "ReadDirectory", "WriteFile", "GetFileInfo", "DeleteFile",
                 "AbortFile", "AuthenticateFile"}
AdHocKinds   == {"SelectAndOperate", "DirectOperate", "Scan", "EmptyResponse",
                 "Restart", "NoResponse", "WriteDeadBand"} \cup FileKinds
Kinds        == StartupKinds \cup {"UserPoll"} \cup AdHocKinds

PollKinds == {"Integrity", "EventScan", "UserPoll", "Scan"}
ReactsToIINOnly == {"ClearRestart", "LanTimeSync", "SerialTimeSync", "EventScan"}

\* TaskPriority.h; a smaller number is served first.
Priority(kind) ==
  CASE kind \in {"SelectAndOperate", "DirectOperate", "WriteDeadBand"} \cup FileKinds -> 100
    [] kind \in {"EmptyResponse", "NoResponse", "Restart"} -> 110
    [] kind = "ClearRestart"  -> 120
    [] kind = "DisableUnsol"  -> 130
    [] kind = "AssignClass"   -> 140
    [] kind = "Integrity"     -> 150
    [] kind \in {"LanTimeSync", "SerialTimeSync"} -> 160
    [] kind = "EnableUnsol"   -> 170
    [] kind = "EventScan"     -> 180
    [] kind \in {"UserPoll", "Scan"} -> 190

IsRecurring(kind) == kind \notin AdHocKinds
BlocksLowerPriority(kind) == kind \in StartupKinds
ExpectsResponse(kind) == kind # "NoResponse"

----------------------------------------------------------------------------
(* TaskBehavior: the factories, and the four events.                       *)
MinRetry(kind) == IF kind \in ReactsToIINOnly \cup AdHocKinds THEN Never ELSE RetryMin
MaxRetry(kind) == IF kind \in ReactsToIINOnly \cup AdHocKinds THEN Never ELSE RetryMax
Period(kind)   == IF kind = "UserPoll" THEN PollPeriod ELSE Never

\* File requests and dead bands have no start timeout.
StartExpiration(kind) ==
  IF kind \in AdHocKinds \ (FileKinds \cup {"WriteDeadBand"}) THEN StartTimeout ELSE Never

NewBehavior(kind) ==
  [exp      |-> IF kind \in ReactsToIINOnly THEN Never ELSE 0,
   retry    |-> MinRetry(kind),
   start    |-> StartExpiration(kind),
   disabled |-> FALSE]

OnSuccess(b, kind) == [b EXCEPT !.retry = MinRetry(kind), !.exp = Period(kind)]

\* The delay doubles up to its maximum; Never stays Never.
OnResponseTimeout(b, kind) ==
  [b EXCEPT !.exp = b.retry,
            !.retry = IF 2 * @ > MaxRetry(kind) THEN MaxRetry(kind) ELSE 2 * @]

Reset(b, kind) == [b EXCEPT !.disabled = FALSE, !.exp = 0, !.retry = MinRetry(kind)]

Disable(b) == [b EXCEPT !.disabled = TRUE, !.exp = Never]

\* The switch of IMasterTask::CompleteTask.
BehaviorAfter(b, kind, result) ==
  CASE result = "FAILURE_NO_COMMS"         -> Reset(b, kind)
    [] result = "FAILURE_RESPONSE_TIMEOUT" -> OnResponseTimeout(b, kind)
    [] result = "SUCCESS"                  -> OnSuccess(b, kind)
    [] OTHER                               -> Disable(b)

----------------------------------------------------------------------------
(* Requests and responses.                                                 *)

\* What a new task of the kind remembers; data is what WriteFile writes.
NewJob(kind, data) ==
  CASE kind \in PollKinds                       -> [rx |-> FALSE]
    [] kind = "SelectAndOperate"                -> [codes |-> <<"SELECT", "OPERATE">>]
    [] kind = "DirectOperate"                   -> [codes |-> <<"DIRECT_OPERATE">>]
    [] kind \in {"LanTimeSync", "SerialTimeSync"} -> [second |-> FALSE]
    [] kind \in {"ReadFile", "ReadDirectory"}   -> ReadStart
    [] kind = "WriteFile"                       -> WriteStart(data)
    [] OTHER                                    -> [status |-> "SUCCESS"]

\* Initialize, called by OnStart.  The function codes of a command task, which
\* runs once, are not loaded again.
Initialize(kind, job) ==
  CASE kind \in PollKinds                       -> [rx |-> FALSE]
    [] kind \in {"LanTimeSync", "SerialTimeSync"} -> [second |-> FALSE]
    [] kind \in {"ReadFile", "ReadDirectory"}   -> ReadStart
    [] kind = "WriteFile"                       -> WriteStart(job.data)
    [] OTHER                                    -> job

CanBuild(kind, job) ==
  /\ kind \notin Unbuildable
  /\ "codes" \in DOMAIN job => job.codes # <<>>
  /\ kind = "WriteFile" => WriteFits(job)

\* BuildRequest: the function code, the objects of the request (tag), and the
\* fields of a file request.
BuildRequest(kind, job) ==
  CASE kind \in PollKinds    -> [fn |-> "READ"]
    [] kind \in {"SelectAndOperate", "DirectOperate"} ->
         [fn |-> Head(job.codes), tag |-> "crob"]
    [] kind = "ClearRestart" -> [fn |-> "WRITE", tag |-> "restart"]
    [] kind = "DisableUnsol" -> [fn |-> "DISABLE_UNSOLICITED"]
    [] kind = "EnableUnsol"  -> [fn |-> "ENABLE_UNSOLICITED"]
    [] kind = "AssignClass"  -> [fn |-> "ASSIGN_CLASS"]
    [] kind = "LanTimeSync" /\ ~job.second    -> [fn |-> "RECORD_CURRENT_TIME", tag |-> "empty"]
    [] kind = "SerialTimeSync" /\ ~job.second -> [fn |-> "DELAY_MEASURE", tag |-> "empty"]
    [] kind \in {"LanTimeSync", "SerialTimeSync"} /\ job.second ->
         [fn |-> "WRITE", tag |-> IF kind = "LanTimeSync" THEN "lan" ELSE "time"]
    [] kind = "Restart"      -> [fn |-> "COLD_RESTART", tag |-> "empty"]
    [] kind = "NoResponse"   -> [fn |-> "IMMED_FREEZE_NR"]
    [] kind \in {"ReadFile", "ReadDirectory"} -> ReadRequest(job)
    [] kind = "WriteFile"    -> WriteRequest(job)
    [] kind \in {"GetFileInfo", "DeleteFile", "AbortFile", "AuthenticateFile"} ->
         [fn |-> SingleFunction(kind), handle |-> 1]
    [] kind \in {"EmptyResponse", "WriteDeadBand"} -> [fn |-> "WRITE", tag |-> "other"]

\* What BuildRequest leaves in the task.
JobAfterBuild(kind, job) ==
  CASE kind \in {"SelectAndOperate", "DirectOperate"} -> [job EXCEPT !.codes = Tail(@)]
    [] kind \in {"UserPoll", "Scan"} -> [job EXCEPT !.rx = FALSE]
    [] kind = "WriteFile" -> WriteJob(job)
    [] OTHER -> job

\* ValidateNullResponse: no objects and no error bits.
NullResponse(r) == Single(r) /\ r.objs.k = "none" /\ r.iin \cap {"func", "param", "object"} = {}

\* PollTaskBase::ProcessResponse: FIR exactly on the first fragment.
PollResponse(job, r) ==
  IF r.fir = job.rx THEN Bad(job)
  ELSE IF r.objs.k \notin {"none", "data"} THEN Bad([rx |-> TRUE])
  ELSE IF r.fin THEN Final([rx |-> TRUE]) ELSE Continue([rx |-> TRUE])

\* CommandTask::ProcessResponse: a SELECT that was refused, or echoed only in
\* part, ends the task; otherwise OPERATE follows.
CommandResponse(job, r) ==
  IF ~Single(r) \/ r.objs.k \notin {"none", "echo", "refused"} THEN Bad(job)
  ELSE IF job.codes # <<>> /\ r.objs.k = "echo" THEN Repeat(job) ELSE Final(job)

\* LANTimeSyncTask and SerialTimeSyncTask.
TimeSyncResponse(kind, job, r) ==
  IF job.second \/ kind = "LanTimeSync"
  THEN IF ~NullResponse(r) THEN Bad(job)
       ELSE IF job.second THEN Final(job) ELSE Repeat([second |-> TRUE])
  ELSE IF Single(r) /\ r.objs.k = "delay" THEN Repeat([second |-> TRUE]) ELSE Bad(job)

\* The virtual ProcessResponse.
ProcessResponse(kind, job, r) ==
  CASE kind \in PollKinds -> PollResponse(job, r)
    [] kind \in {"SelectAndOperate", "DirectOperate"} -> CommandResponse(job, r)
    [] kind \in {"LanTimeSync", "SerialTimeSync"} -> TimeSyncResponse(kind, job, r)
    [] kind = "ClearRestart" ->
         IF Single(r) /\ "restart" \notin r.iin THEN Final(job) ELSE Bad(job)
    [] kind = "Restart" ->
         IF Single(r) /\ r.objs.k = "delay" /\ r.iin \cap {"func", "param", "object"} = {}
         THEN Final(job) ELSE Bad(job)
    [] kind \in {"DisableUnsol", "EnableUnsol", "AssignClass", "EmptyResponse", "WriteDeadBand"} ->
         IF NullResponse(r) THEN Final(job) ELSE Bad(job)
    [] kind = "NoResponse" -> Final(job)
    [] kind \in {"ReadFile", "ReadDirectory"} -> ReadResponse(job, r)
    [] kind = "WriteFile" -> WriteResponse(job, r)
    [] kind \in {"GetFileInfo", "DeleteFile", "AbortFile", "AuthenticateFile"} ->
         SingleResponse(kind, job, r)
=============================================================================
