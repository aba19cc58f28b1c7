-------------------------- MODULE OutstationFiles --------------------------
(***************************************************************************)
(* The file functions of the outstation (the file transfer handlers of     *)
(* OContext) and the file handler of the application behind them.          *)
(*                                                                         *)
(* The handler is external: any implementation of IFileHandler.  The one   *)
(* modelled keeps one file, which is what TestFileHandler does with each   *)
(* of its files.  It numbers its handles, appends the blocks written to a  *)
(* handle without looking at their numbers, and stores what was written    *)
(* when the last block comes or the handle is closed.                      *)
(***************************************************************************)
EXTENDS Integers, Sequences, TLC

CONSTANT BlockRoom    \* units of a file that fit in a fragment (maxTxFragSize - 18)

ASSUME BlockRoomPos == BlockRoom \in Nat \ {0}

----------------------------------------------------------------------------
(* The application's file handler: f is its state.                         *)
NewStore(data) == [exists |-> TRUE, data |-> data, open |-> <<>>, next |-> 1]

IsOpen(f, h) == h \in DOMAIN f.open
Opens(f, mode) == mode = "WRITE" \/ f.exists

OpenFile(f, mode, size) ==
  [f EXCEPT !.next = @ + 1, !.exists = TRUE,
            !.data = IF mode = "WRITE" THEN <<>> ELSE @,
            !.open = @ @@ (f.next :> [mode |-> mode, size |-> size, buffer |-> <<>>])]

\* ReadBlock: the last block may be short, and is empty for an empty file.
BlockEnd(f, h, n) == IF (n + 1) * f.open[h].size < Len(f.data)
                     THEN (n + 1) * f.open[h].size ELSE Len(f.data)
BlockStatus(f, h, n) ==
  CASE ~IsOpen(f, h) -> "NOT_OPENED"
    [] IsOpen(f, h) /\ ~f.exists -> "NOT_EXIST"
    [] IsOpen(f, h) /\ f.exists ->
         IF n * f.open[h].size > Len(f.data) THEN "BLOCK_SEQ" ELSE "SUCCESS"

Flush(f, h) ==
  IF f.exists /\ f.open[h].mode = "WRITE" THEN [f EXCEPT !.data = f.open[h].buffer] ELSE f

WriteBlock(f, h, last, data) ==
  LET g == [f EXCEPT !.open[h].buffer = @ \o data]
  IN  IF last THEN [Flush(g, h) EXCEPT !.open[h].buffer = <<>>] ELSE g

Forget(f, h) == [f EXCEPT !.open = [i \in DOMAIN f.open \ {h} |-> f.open[i]]]

CloseFile(f, h) == Forget(IF f.open[h].buffer = <<>> THEN f ELSE Flush(f, h), h)

----------------------------------------------------------------------------
(* The handlers.  Each returns the state of the file handler, the objects  *)
(* of the answer and the error bits.                                       *)
Answer(f, objs) == [store |-> f, objs |-> objs, err |-> {}]

\* Group70Var4 and Group70Var6: the fields the master looks at.
Status4(handle, size, status) ==
  [k |-> "v4", handle |-> handle, size |-> size, status |-> status]
Status6(status) == [k |-> "v6", status |-> status]

Least(a, b) == IF a < b THEN a ELSE b

HandleOpenFile(f, q) ==
  LET size == Least(q.size, BlockRoom)
  IN  IF Opens(f, q.mode)
      THEN Answer(OpenFile(f, q.mode, size), Status4(f.next, size, "SUCCESS"))
      ELSE Answer(f, Status4(0, size, "NOT_EXIST"))

\* A block that does not fit is not written, and the answer has no objects.
HandleFileRead(f, q) ==
  LET status == BlockStatus(f, q.handle, q.block)
      end    == BlockEnd(f, q.handle, q.block)
      data   == SubSeq(f.data, q.block * f.open[q.handle].size + 1, end)
  IN  IF status # "SUCCESS" THEN Answer(f, Status6(status))
      ELSE IF Len(data) > BlockRoom THEN Answer(f, [k |-> "none"])
      ELSE Answer(f, [k |-> "v5", block |-> q.block, last |-> end = Len(f.data), data |-> data])

HandleFileWrite(f, q) ==
  IF IsOpen(f, q.handle) THEN Answer(WriteBlock(f, q.handle, q.last, q.data), Status6("SUCCESS"))
  ELSE Answer(f, Status6("NOT_OPENED"))

HandleCloseFile(f, q) ==
  IF IsOpen(f, q.handle) THEN Answer(CloseFile(f, q.handle), Status4(q.handle, 0, "SUCCESS"))
  ELSE Answer(f, Status4(q.handle, 0, "NOT_OPENED"))

HandleDeleteFile(f, q) ==
  Answer([f EXCEPT !.exists = FALSE],
         Status4(0, 0, IF f.exists THEN "SUCCESS" ELSE "NOT_EXIST"))

HandleGetFileInfo(f, q) ==
  Answer(f, IF f.exists THEN [k |-> "v7"] ELSE Status4(0, 0, "NOT_EXIST"))

HandleAuthenticateFile(f, q) == Answer(f, Status4(1, 0, "SUCCESS"))

HandleAbortFile(f, q) == Answer(Forget(f, q.handle), Status4(q.handle, 0, "CLOSE_ABORT"))

\* The dispatch by function code; without a handler, and for objects that are
\* not the ones expected, the answer is an error bit.
FileFunctions == {"OPEN_FILE", "CLOSE_FILE", "DELETE_FILE", "GET_FILE_INFO",
                  "AUTHENTICATE_FILE", "ABORT_FILE"}

HandleFile(f, q) ==
  CASE q.fn = "READ"              -> HandleFileRead(f, q)
    [] q.fn = "WRITE"             -> HandleFileWrite(f, q)
    [] q.fn = "OPEN_FILE"         -> HandleOpenFile(f, q)
    [] q.fn = "CLOSE_FILE"        -> HandleCloseFile(f, q)
    [] q.fn = "DELETE_FILE"       -> HandleDeleteFile(f, q)
    [] q.fn = "GET_FILE_INFO"     -> HandleGetFileInfo(f, q)
    [] q.fn = "AUTHENTICATE_FILE" -> HandleAuthenticateFile(f, q)
    [] q.fn = "ABORT_FILE"        -> HandleAbortFile(f, q)
=============================================================================
