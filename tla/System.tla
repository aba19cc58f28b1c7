------------------------------- MODULE System -------------------------------
(***************************************************************************)
(* A master and an outstation on one connection.                           *)
(*                                                                         *)
(* s is the master with its scheduler (module Master), out the outstation  *)
(* (module Outstation), and net the fragments on their way between them, in *)
(* order.  The layers below are taken for what module Stack shows: a       *)
(* fragment arrives whole, or not at all, or twice; it leaves when its     *)
(* transmission begins.                                                    *)
(*                                                                         *)
(* Whatever goes wrong is taken from a budget, faults: a fragment is lost  *)
(* or doubled, one side loses the connection, a timer fires before the     *)
(* answer that is on its way.                                              *)
(***************************************************************************)
EXTENDS Master, TLC

CONSTANTS
  \* The outstation.
  Types, Classes, Capacity, Variations, Default, MaxEvents, FragSize, Accepted,
  CommandEvent, IINBits, MaxRuns, BlockRoom, Batches, Params, InitialMask, StoredFile,
  \* What happens.
  Plans,          \* what a behaviour is about: records [tasks, events, issues, faults]
  MaxDoubled,     \* bound: how many of the faults are doubled fragments
  Drops,          \* who may notice that the connection is lost: sets of sides
  StaleConfirms   \* the master may lose the connection with confirms queued

ASSUME OneMaster == Cardinality(Masters) = 1
ASSUME SystemBounds ==
  /\ Plans \subseteq [tasks : SUBSET Tasks, events : 0 .. MaxEvents, issues : 0 .. 9, faults : 0 .. 9]
  /\ MaxDoubled \in Nat /\ StaleConfirms \in BOOLEAN
  /\ Drops \subseteq SUBSET {"master", "outstation"}

VARIABLES s, out, net, plan, faults, tally

O == INSTANCE Outstation WITH
       o <- out, Points <- {}, Counters <- {},
       FrozenEvent <- CommandEvent, Broadcasts <- {}, Detects <- {FALSE},
       Messages <- {}

vars == <<s, out, net, plan, faults, tally>>

M == CHOOSE m \in Masters : TRUE
Ctx == s.ctx[M]
Connected == Ctx.online /\ out.online

----------------------------------------------------------------------------
(* The connection.                                                         *)
NoTraffic == [down |-> <<>>, up |-> <<>>]

\* What the outstation parses from a message of the master.
Blank == [tag |-> "", classes |-> Classes, max |-> MaxEvents, points |-> {}]
Wire(msg) ==
  IF "req" \in DOMAIN msg
  THEN [dest |-> "self", wellformed |-> TRUE, uns |-> FALSE, seq |-> msg.seq,
        req |-> msg.req @@ Blank]
  ELSE [dest |-> "self", wellformed |-> TRUE, uns |-> msg.uns, seq |-> msg.seq,
        req |-> [fn |-> msg.fn] @@ Blank]

\* What the master parses from a response of the outstation.
Fragment(x) ==
  LET r == IF x.tx = "sol" THEN x.sol ELSE x.unsol
  IN  [f \in DOMAIN r \ {"req"} |-> r[f]]

\* The check that a callback posts runs before anything else happens to the
\* master.  (Module MasterSpec lets other callbacks come first.)
Settled(x) == IF x.posted = 0 THEN x ELSE CheckForTaskRun([x EXCEPT !.posted = 0])

\* A callback of the master: what it started to send is on its way if the other
\* side is there, and is not looked at again.
OnItsWay == [seq |-> 0]

MasterStep(x, n) ==
  LET y   == Settled(x)
      msg == y.ctx[M].tx
  IN
  /\ s' = IF msg = None THEN y ELSE [y EXCEPT !.ctx[M].tx = OnItsWay]
  /\ net' = IF msg \in {None, OnItsWay} \/ ~out.online THEN n
            ELSE [n EXCEPT !.down = Append(@, Wire(msg))]
  /\ UNCHANGED out

\* A callback of the outstation, an action on out; free says that it was not
\* sending before.
OutstationStep(free, n) ==
  /\ net' = IF free /\ out'.tx # None /\ Ctx.online
            THEN [n EXCEPT !.up = Append(@, Fragment(out'))] ELSE n
  /\ UNCHANGED s

\* An exchange is under way: a timer that fires now fires too early.
UnderWay == net # NoTraffic \/ Ctx.tx # None \/ out.tx # None
Charged(early) == faults' = IF early THEN faults - 1 ELSE faults
Affordable(early) == early => faults > 0

Init ==
  /\ plan \in Plans
  /\ s = FoldSet(LAMBDA t, y : AddScan(y, t), Idle, {t \in plan.tasks : Kind[t] = "UserPoll"})
  /\ O!Init
  /\ net = NoTraffic
  /\ faults = plan.faults
  /\ tally = [issued |-> 0, done |-> 0, doubled |-> 0]

----------------------------------------------------------------------------
(* The master.                                                             *)
\* A timer fires; every duration is one unit, so that nothing else is due before.
TaskTimer ==
  /\ s.taskTimer # Never /\ Affordable(UnderWay) /\ Charged(UnderWay)
  /\ MasterStep(CheckForTaskRun([ElapseScheduler(s) EXCEPT !.taskTimer = Never]), net)
  /\ UNCHANGED tally

StartTimer ==
  /\ s.startTimer # Never /\ Affordable(UnderWay) /\ Charged(UnderWay)
  /\ MasterStep(TimeoutTasks([ElapseScheduler(s) EXCEPT !.startTimer = Never]), net)
  /\ UNCHANGED tally

MasterTimeout ==
  /\ Ctx.timer # Never /\ Affordable(UnderWay)
  /\ MasterStep(OnTimeout(s, M), net) /\ Charged(UnderWay) /\ UNCHANGED tally

MasterSent == Sending(s, M) /\ MasterStep(OnTxReady(s, M), net) /\ UNCHANGED <<faults, tally>>

\* The response ends the task that waits for it, and the user is told that it
\* succeeded.
Ends(r) ==
  /\ Ctx.tstate = "WAIT_FOR_RESPONSE" /\ ~r.uns /\ r.seq = Ctx.seq
  /\ ProcessResponse(Kind[Ctx.active], s.task[Ctx.active].job, r).result = "OK_FINAL"

CommandKinds == {"SelectAndOperate", "DirectOperate"}

MasterReceives ==
  /\ Connected /\ net.up # <<>>
  /\ LET r == Head(net.up) IN
     /\ MasterStep(OnReceive(s, M, r), [net EXCEPT !.up = Tail(@)])
     /\ tally' = IF Ends(r) /\ Kind[Ctx.active] \in CommandKinds /\ r.objs.k = "echo"
                 THEN [tally EXCEPT !.done = @ + 1] ELSE tally
  /\ UNCHANGED faults

MasterUp ==
  /\ ~Ctx.online /\ MasterStep(OnLowerLayerUp(s, M), NoTraffic)
  /\ UNCHANGED <<faults, tally>>

\* A task is given to the master.
Issue(t) ==
  /\ t \in AdHoc \cap plan.tasks /\ s.owed[t] = 0 /\ tally.issued < plan.issues
  /\ MasterStep(ScheduleAdhocTask(s, t), net)
  /\ tally' = [tally EXCEPT !.issued = @ + 1] /\ UNCHANGED faults

----------------------------------------------------------------------------
(* The outstation.                                                         *)
OutstationUp ==
  /\ O!OnLowerLayerUp /\ OutstationStep(TRUE, NoTraffic) /\ UNCHANGED <<faults, tally>>

OutstationSent ==
  /\ O!OnTxReady /\ OutstationStep(TRUE, net) /\ UNCHANGED <<faults, tally>>

OutstationTimeout ==
  /\ Affordable(UnderWay) /\ O!OnTimeout /\ OutstationStep(out.tx = None, net)
  /\ Charged(UnderWay) /\ UNCHANGED tally

OutstationReceives ==
  /\ Connected /\ net.down # <<>>
  /\ O!OnReceive(Head(net.down)) /\ OutstationStep(out.tx = None, [net EXCEPT !.down = Tail(@)])
  /\ UNCHANGED <<faults, tally>>

Event(p) ==
  /\ out.buf.next <= plan.events /\ O!Apply(p) /\ OutstationStep(out.tx = None, net)
  /\ UNCHANGED <<faults, tally>>

SelectTimeout ==
  /\ Affordable(TRUE) /\ O!SelectionExpires /\ OutstationStep(FALSE, net)
  /\ Charged(TRUE) /\ UNCHANGED tally

----------------------------------------------------------------------------
(* What the network does.                                                  *)

\* The connection is lost, which both sides notice, or only one.
Drop(seenBy) ==
  /\ faults > 0 /\ faults' = faults - 1
  /\ IF "master" \in seenBy
     THEN /\ Ctx.online /\ (Ctx.confirms = <<>> \/ StaleConfirms)
          /\ s' = Settled(OnLowerLayerDown(s, M))
     ELSE UNCHANGED s
  /\ IF "outstation" \in seenBy THEN O!OnLowerLayerDown ELSE UNCHANGED out
  /\ net' = NoTraffic /\ UNCHANGED tally

Lost(dir) ==
  /\ faults > 0 /\ net[dir] # <<>>
  /\ net' = [net EXCEPT ![dir] = Tail(@)] /\ faults' = faults - 1
  /\ UNCHANGED <<s, out, tally>>

Doubled(dir) ==
  /\ faults > 0 /\ tally.doubled < MaxDoubled /\ net[dir] # <<>>
  /\ net' = [net EXCEPT ![dir] = <<Head(@)>> \o @] /\ faults' = faults - 1
  /\ tally' = [tally EXCEPT !.doubled = @ + 1] /\ UNCHANGED <<s, out>>

\* What the executors and the layers below do of themselves.
Progress ==
  \/ TaskTimer \/ StartTimer \/ MasterTimeout \/ MasterSent \/ MasterReceives \/ MasterUp
  \/ OutstationUp \/ OutstationSent \/ OutstationReceives \/ OutstationTimeout

\* Without polls both sides fall silent when the last task is done, and only then.
Silent ==
  /\ plan.events = 0 /\ tally.issued = plan.issues
  /\ Connected /\ ~UnderWay /\ out.state = "Idle"
  /\ s.current = None /\ s.queue = <<>>
  /\ UNCHANGED <<s, out, net, faults, tally>>

Next ==
  /\ \/ Progress
     \/ Silent
     \/ SelectTimeout
     \/ \E t \in Tasks : Issue(t)
     \/ \E p \in Batches : Event(p)
     \/ \E seenBy \in Drops : Drop(seenBy)
     \/ \E dir \in {"up", "down"} : Lost(dir) \/ Doubled(dir)
  /\ UNCHANGED plan

Spec == Init /\ [][Next]_vars

\* The executors do not stop, both sides connect again (module Channel), and an
\* outstation that waits again and again for a confirmation is told in the end
\* that none came.
FairSpec ==
  /\ Spec
  /\ []<><<Progress>>_vars
  /\ []<>Connected
  /\ <>[]~(out.timer /\ Affordable(UnderWay)) \/ []<><<OutstationTimeout>>_vars

----------------------------------------------------------------------------
(* Properties.                                                             *)

\* The two sides implement the delivery of events: ClearWritten forgets only
\* events that the SOE handler of the master was given, whatever the network
\* does to responses and confirmations.
Delivery == INSTANCE EventDelivery WITH
              Events <- 1 .. MaxEvents, Room <- Capacity[CommandEvent[1]],
              recorded <- 1 .. out.buf.next - 1, pending <- O!Ids(out.buf),
              delivered <- s.soe
DeliversEvents == Delivery!Spec

\* Every event is acknowledged in the end, or pushed out of the buffer by newer
\* ones: no loss, doubling, disconnection or timeout leaves the two sides in a
\* state where polls and unsolicited responses no longer get it across.
EventsGetThrough ==
  \A i \in 1 .. MaxEvents : i \in O!Ids(out.buf) ~> i \notin O!Ids(out.buf)

\* A command runs at most once for every time the user gave it, and it ran
\* before the user is told so, although requests are repeated.
CommandsRunOnce == tally.done <= out.ran /\ out.ran <= tally.issued

\* A file task that is about to report success has the whole file: what was read
\* is what the outstation holds, and what was written is what it holds now.
FilesIntact ==
  net.up # <<>> /\ Ends(Head(net.up)) =>
    LET kind == Kind[Ctx.active]
        job  == ProcessResponse(kind, s.task[Ctx.active].job, Head(net.up)).job
    IN  /\ kind = "ReadFile" /\ job.status = "SUCCESS" => job.data = out.store.data
        /\ kind = "WriteFile" /\ job.status = "SUCCESS" => out.store.data = FileData
=============================================================================
