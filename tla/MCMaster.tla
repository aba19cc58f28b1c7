------------------------------ MODULE MCMaster ------------------------------
(***************************************************************************)
(* Two masters on a channel: one that starts up and polls, and one that is *)
(* given commands.                                                         *)
(***************************************************************************)
EXTENDS MasterSpec, TLC

CONSTANTS m1, m2, integrity, poll, command, nr

MCTasks == {integrity, poll, command, nr}

MCOwner == [t \in MCTasks |-> IF t \in {integrity, poll} THEN m1 ELSE m2]

MCKind ==
  [t \in MCTasks |-> CASE t = integrity -> "Integrity"
                       [] t = poll      -> "UserPoll"
                       [] t = command   -> "SelectAndOperate"
                       [] t = nr        -> "NoResponse"]

Answer(con, fir, fin, seq, iin, k) ==
  [uns |-> FALSE, con |-> con, fir |-> fir, fin |-> fin, seq |-> seq, iin |-> iin,
   objs |-> [k |-> k], ids |-> {}]

\* The first master meets a response in one and in two fragments, a null
\* response of an outstation that restarted, and an unsolicited response that
\* wants a confirm; the second one an echo of its command and a refusal.
\* The environment may answer at any time, so one sequence number that fits and
\* one that does not are enough.
Seqs == 0 .. SeqCount

MCResponses ==
  (m1 :> {Answer(FALSE, fir, fin, s, {}, "data") : fir, fin \in BOOLEAN, s \in Seqs}
         \cup {Answer(FALSE, TRUE, TRUE, s, {"restart"}, "none") : s \in Seqs}
         \cup {[Answer(TRUE, TRUE, TRUE, 0, {"restart"}, "data") EXCEPT !.uns = TRUE]})
  @@
  (m2 :> {Answer(FALSE, TRUE, TRUE, s, {}, k) : s \in Seqs, k \in {"echo", "refused", "bad"}})

FairSpec == Spec /\ Fairness(m2)
=============================================================================
