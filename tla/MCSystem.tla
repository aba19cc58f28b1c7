------------------------------ MODULE MCSystem ------------------------------
(***************************************************************************)
(* Plans for a master and an outstation.  In the first two the master      *)
(* polls and the outstation reports events: one event while up to two      *)
(* things go wrong, or three, more than the buffer holds, while one does.  *)
(* In the third a control is selected and operated, twice, and up to two   *)
(* things go wrong; in the fourth a file of two blocks is read and written *)
(* and one thing goes wrong.  The last, two events and one fault, is for   *)
(* liveness.  The old content of the file and the new one have no unit     *)
(* in common, so that a mixture of them is visible.                        *)
(***************************************************************************)
EXTENDS System

CONSTANTS master1, poll, command, reader, writer, binary

OwnerOf(ts) == [t \in ts |-> master1]
KindOf(ts) ==
  [t \in ts |-> CASE t = poll -> "UserPoll"
                  [] t = command -> "SelectAndOperate"
                  [] t = reader -> "ReadFile"
                  [] t = writer -> "WriteFile"]
MCTasks == {poll, command, reader, writer}
MCOwner == OwnerOf(MCTasks)
MCKind == KindOf(MCTasks)
OneType == {binary}
OneCapacity == [t \in OneType |-> 2]
BinaryEvent == <<binary, 1>>
OneEvent == {<<BinaryEvent, None>>}
OneParams == {[unsolicited |-> TRUE, readInNull |-> FALSE, infinite |-> FALSE, retries |-> 0]}
Content == <<1, 2, 3>>
NewContent == <<4, 5, 6>>

Plan(tasks, events, issues, n) ==
  [tasks |-> tasks, events |-> events, issues |-> issues, faults |-> n]
EventPlan    == Plan({poll}, 1, 0, 2)
OverflowPlan == Plan({poll}, 3, 0, 1)
CommandPlan  == Plan({command}, 0, 2, 2)
FilePlan     == Plan({reader, writer}, 0, 2, 1)
MCPlans == {EventPlan, OverflowPlan, CommandPlan, FilePlan}
LivePlans == {Plan({poll}, 2, 0, 1)}
=============================================================================
