---------------------------- MODULE MasterFiles ----------------------------
(***************************************************************************)
(* The master's file tasks: what FileTransferTask, ReadDirectoryTask and   *)
(* FileWriteTask remember between requests, the request each state builds  *)
(* and how a response moves it on.                                         *)
(*                                                                         *)
(* A file is a sequence of units; a block holds up to the block size that  *)
(* the two sides agree on when the file is opened.  The objects of a       *)
(* response are a record: k is "v4" (Group70Var4, the status of a command), *)
(* "v5" (a block), "v6" (the status of a block), or something else.        *)
(***************************************************************************)
EXTENDS Integers, Sequences, SequencesExt

CONSTANTS
  ReadLimit,      \* 2048 in FileTransferTask: the largest block the task asks for
  BlockLimit,     \* 2032 in FileWriteTask: the largest block the task sends
  TxRoom          \* units that fit in one fragment of the master (maxTxFragSize)

ASSUME BlockLimits == {ReadLimit, BlockLimit, TxRoom} \subseteq Nat \ {0}

\* ResponseResult.
Final(job)    == [result |-> "OK_FINAL", job |-> job]
Repeat(job)   == [result |-> "OK_REPEAT", job |-> job]
Continue(job) == [result |-> "OK_CONTINUE", job |-> job]
Bad(job)      == [result |-> "ERROR_BAD_RESPONSE", job |-> job]

\* ValidateSingleResponse; the IIN bits FUNC_NOT_SUPPORTED and PARAM_ERROR.
Single(r) == r.fir /\ r.fin
Rejected(r) == r.iin \cap {"func", "param"} # {}

----------------------------------------------------------------------------
(* Reading.  A directory is read like a file; only what is done with the   *)
(* data afterwards differs.                                                *)

\* FileTransferTask::Initialize.
ReadStart ==
  [state |-> "OPEN_FILE", handle |-> 0, block |-> 0, size |-> ReadLimit,
   status |-> "SUCCESS", last |-> FALSE, data |-> <<>>]

\* BuildRequest: the function code and the fields that matter.
ReadRequest(job) ==
  CASE job.state = "OPEN_FILE"  -> [fn |-> "OPEN_FILE", mode |-> "READ", size |-> job.size]
    [] job.state = "READ_BLOCK" -> [fn |-> "READ", tag |-> "file", handle |-> job.handle,
                                    block |-> job.block]
    [] job.state = "CLOSE_FILE" -> [fn |-> "CLOSE_FILE", handle |-> job.handle]

\* ParseGroup70Var4.
ParseVar4(job, v) == [job EXCEPT !.handle = v.handle, !.size = v.size, !.status = v.status]

\* ParseGroup70Var5: the handle and the number of the block are not compared
\* with what was asked for.
ParseVar5(job, v) ==
  [job EXCEPT !.last = v.last, !.block = v.block + 1, !.data = @ \o v.data]

CloseFile(job) == Repeat([job EXCEPT !.state = "CLOSE_FILE"])

\* FileTransferTask::ProcessResponse.
ReadResponse(job, r) ==
  LET v == r.objs
      j == IF v.k = "v4" THEN ParseVar4(job, v)
           ELSE IF v.k = "v5" THEN ParseVar5(job, v) ELSE job
  IN
  IF ~Single(r) THEN Bad(job)
  ELSE IF Rejected(r) THEN Final([job EXCEPT !.status = "NOT_EXIST"])
  ELSE CASE job.state = "OPEN_FILE" ->
              IF v.k # "v4" THEN Bad(job)
              ELSE IF v.status # "SUCCESS" THEN Final(j)
              ELSE Repeat([j EXCEPT !.state = "READ_BLOCK", !.block = 0])
         [] job.state = "READ_BLOCK" ->
              IF v.k = "v5" THEN IF j.last THEN CloseFile(j) ELSE Repeat(j)
              ELSE CloseFile(IF v.k = "v6" THEN [job EXCEPT !.status = v.status] ELSE job)
         [] job.state = "CLOSE_FILE" -> Final(job)

----------------------------------------------------------------------------
(* Writing.                                                                *)

\* FileWriteTask::Initialize, with the data to write.
WriteStart(data) ==
  [state |-> "OPEN_FILE", handle |-> 0, block |-> 0, size |-> BlockLimit,
   status |-> "SUCCESS", data |-> data]

\* The flag isLastBlock of WriteGroup70Var5Block.
IsLastBlock(job) == (job.block + 1) * job.size >= Len(job.data)

\* Wrong: a last block that is not full is left out.
PastEndEarly(job) == (job.block + 1) * job.size > Len(job.data)

PastEnd(job) == job.block * job.size >= Len(job.data)

BlockOf(job) ==
  SubSeq(job.data, job.block * job.size + 1,
         IF IsLastBlock(job) THEN Len(job.data) ELSE (job.block + 1) * job.size)

\* BuildRequest; a block past the end turns into CLOSE_FILE.
WriteJob(job) ==
  IF job.state = "WRITE_BLOCK" /\ PastEnd(job)
  THEN [job EXCEPT !.state = "CLOSE_FILE"] ELSE job

WriteRequest(j) ==
  LET job == WriteJob(j) IN
  CASE job.state = "OPEN_FILE"   -> [fn |-> "OPEN_FILE", mode |-> "WRITE", size |-> job.size]
    [] job.state = "WRITE_BLOCK" -> [fn |-> "WRITE", tag |-> "file", handle |-> job.handle,
                                     block |-> job.block, last |-> IsLastBlock(job),
                                     data |-> BlockOf(job)]
    [] job.state = "CLOSE_FILE"  -> [fn |-> "CLOSE_FILE", handle |-> job.handle]

\* A block that does not fit in a fragment of the master cannot be built.
WriteFits(j) ==
  LET job == WriteJob(j) IN job.state = "WRITE_BLOCK" => Len(BlockOf(job)) <= TxRoom

\* FileWriteTask::ProcessResponse.
AgreedSize(n) == IF n = 0 \/ n > BlockLimit THEN BlockLimit ELSE n

WriteResponse(job, r) ==
  LET v == r.objs
      next == [job EXCEPT !.block = @ + 1]
  IN
  IF ~Single(r) THEN Bad(job)
  ELSE IF Rejected(r) THEN Final([job EXCEPT !.status = "NOT_EXIST"])
  ELSE CASE job.state = "OPEN_FILE" ->
              IF v.k # "v4" THEN Bad(job)
              ELSE IF v.status # "SUCCESS" THEN Final(ParseVar4(job, v))
              ELSE Repeat([ParseVar4(job, v) EXCEPT !.state = "WRITE_BLOCK", !.block = 0,
                                                    !.size = AgreedSize(@)])
         [] job.state = "WRITE_BLOCK" ->
              IF v.k \notin {"v4", "v6"} THEN CloseFile(job)
              ELSE IF v.status # "SUCCESS" THEN CloseFile([job EXCEPT !.status = v.status])
              ELSE IF PastEnd(next) THEN CloseFile(next) ELSE Repeat(next)
         [] job.state = "CLOSE_FILE" -> Final(job)

----------------------------------------------------------------------------
(* Requests of one message: GetFileInfoTask, DeleteFileTask, AbortFileTask *)
(* and AuthenticateFileTask.                                               *)
SingleFunction(kind) ==
  CASE kind = "GetFileInfo"      -> "GET_FILE_INFO"
    [] kind = "DeleteFile"       -> "DELETE_FILE"
    [] kind = "AbortFile"        -> "ABORT_FILE"
    [] kind = "AuthenticateFile" -> "AUTHENTICATE_FILE"

\* What a task reports when the function is not supported.
RejectedStatus(kind) == IF kind = "AuthenticateFile" THEN "PERMISSION_DENIED" ELSE "NOT_EXIST"

\* ProcessResponse: only GetFileInfoTask insists on objects it can parse; the
\* others report success for an answer without any.
SingleResponse(kind, job, r) ==
  LET v == r.objs IN
  IF ~Single(r) THEN Bad(job)
  ELSE IF Rejected(r) THEN Final([job EXCEPT !.status = RejectedStatus(kind)])
  ELSE CASE v.k = "v4" -> Final([job EXCEPT !.status = v.status])
         [] v.k = "v7" -> Final(job)
         [] OTHER      -> IF kind = "GetFileInfo" THEN Bad(job) ELSE Final(job)
=============================================================================
