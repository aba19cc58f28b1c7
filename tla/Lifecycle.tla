----------------------------- MODULE Lifecycle -----------------------------
(***************************************************************************)
(* Shutting down: the resource managers of a DNP3Manager and of a channel, *)
(* the stacks of the channel, and the connections that a listening master  *)
(* accepted (MasterTCPServer, LinkSession).                                *)
(*                                                                         *)
(* Threads of the user call in from outside; the channel, the listener and *)
(* every connection have a strand, a queue of lambdas that run one by one. *)
(* A lambda that takes a mutex another thread holds stops its strand.      *)
(* g is the state of all of it:                                            *)
(*   mgr, chn   ResourceManager: shutting, members, and the thread that    *)
(*              holds the mutex across a call (owner)                      *)
(*   open       the channel was not shut down                              *)
(*   bound      stacks that the IOHandler knows                            *)
(*   jobs       the lambdas of every strand                                *)
(*   thread     what a thread of the user is doing                         *)
(*   listening  the TCPServer goes on accepting; accepting: the connection *)
(*              it is about to bind                                        *)
(*   conn       the LinkSessions                                           *)
(*   handed     stacks the user got and did not shut down                  *)
(*   resources  DNP3ManagerImpl::resources is not null                     *)
(*   returned   the call of DNP3Manager::Shutdown that found the members   *)
(*              has returned                                               *)
(***************************************************************************)
EXTENDS Integers, Sequences, FiniteSets, Functions

CONSTANTS
  None,
  Threads,        \* threads of the user
  Stacks,         \* masters and outstations of the channel
  Conns,          \* connections that may be made to the listener
  ConcurrentAdd   \* AddMaster may run while other threads shut things down

ASSUME ConcurrentAddIsChoice == ConcurrentAdd \in BOOLEAN
ASSUME NamesDiffer ==
  /\ None \notin Threads \cup Stacks \cup Conns \cup {"manager", "channel", "listener"}
  /\ "manager" \notin Stacks
  /\ Conns \cap {"channel", "listener"} = {}

VARIABLE g

Strands == {"channel", "listener"} \cup Conns

Resources(members) == [shutting |-> FALSE, members |-> members, owner |-> None]

NewConn == [st |-> "new", socket |-> FALSE, stack |-> FALSE, timer |-> FALSE, closes |-> 0]

Init ==
  g = [mgr |-> Resources({"channel", "listener"}), chn |-> Resources({}), open |-> TRUE,
       bound |-> {}, jobs |-> [k \in Strands |-> <<>>],
       thread |-> [u \in Threads |-> [pc |-> "idle", arg |-> None, todo |-> {}]],
       listening |-> TRUE, accepting |-> None, conn |-> [l \in Conns |-> NewConn],
       handed |-> {}, resources |-> TRUE, returned |-> FALSE]

Job(op, arg, who) == [op |-> op, arg |-> arg, who |-> who]
Post(x, k, js) == [x EXCEPT !.jobs[k] = @ \o js]

At(x, u, pc) == [x EXCEPT !.thread[u].pc = pc]

\* exe4cpp's block_until_and_flush: the caller waits for the lambda and for what
\* the lambda posts.
BlockUntilAndFlush(x, u, k, op, arg) == At(Post(x, k, <<Job(op, arg, u)>>), u, "wait")

----------------------------------------------------------------------------
(* ResourceManager.                                                        *)

\* Wrong: resources can be bound after the shutdown began.
BindAlways(r, item) == [r EXCEPT !.members = @ \cup {item}]

Bind(r, item) == IF r.shutting THEN r ELSE [r EXCEPT !.members = @ \cup {item}]

Detach(r, item) == [r EXCEPT !.members = @ \ {item}]

\* The part of ResourceManager::Shutdown that holds the mutex.
Clear(r) == [r EXCEPT !.shutting = TRUE, !.members = {}]

----------------------------------------------------------------------------
(* A connection.                                                           *)

\* Wrong: a second shutdown is not noticed.
ShutdownImplAgain(x, l) ==
  Post([x EXCEPT !.conn[l] = [@ EXCEPT !.st = "shut", !.closes = x.conn[l].closes + 1,
                                       !.timer = FALSE, !.socket = FALSE]],
       l, (IF x.conn[l].stack THEN <<Job("release", l, None)>> ELSE <<>>)
            \o <<Job("detachConn", l, None)>>)

\* LinkSession::ShutdownImpl; BeginShutdown of its stack posts a lambda that
\* calls Shutdown of the session once more.
ShutdownImpl(x, l) ==
  IF x.conn[l].st = "shut" THEN x
  ELSE Post([x EXCEPT !.conn[l] = [@ EXCEPT !.st = "shut", !.closes = x.conn[l].closes + 1,
                                            !.timer = FALSE, !.socket = FALSE]],
            l, (IF x.conn[l].stack THEN <<Job("release", l, None)>> ELSE <<>>)
                 \o <<Job("detachConn", l, None)>>)

\* LinkSession::OnFrame.  The user answers OnFirstFrame with a stack or not.
OnFrame(x, l, accept) ==
  IF x.conn[l].stack THEN x
  ELSE LET y == [x EXCEPT !.conn[l].timer = FALSE]
       IN  IF accept THEN [y EXCEPT !.conn[l].stack = TRUE] ELSE ShutdownImpl(y, l)

----------------------------------------------------------------------------
(* The lambdas.                                                            *)

\* The mutex a lambda takes must be free.
Runs(x, job) ==
  CASE job.op \in {"detachStack", "close"} -> x.chn.owner = None
    [] job.op \in {"detachChannel", "detachListener", "detachConn"} -> x.mgr.owner = None
    [] OTHER -> TRUE

\* One lambda for every stack, in the order of the container.
Detaches(stacks) ==
  LET js == {Job("detachStack", s, None) : s \in stacks}
  IN  CHOOSE q \in [1 .. Cardinality(js) -> js] : IsInjective(q)

\* DNP3Channel::ShutdownImpl, with the shutdown of its stacks, which runs in
\* place because it is called from the strand.
CloseChannel(x) ==
  IF ~x.open THEN x
  ELSE Post([x EXCEPT !.open = FALSE, !.chn = Clear(@), !.bound = @ \ x.chn.members],
            "channel", Detaches(x.chn.members) \o <<Job("detachChannel", None, None)>>)

\* Wrong: the stack is taken from the list of resources only.
PerformShutdownKeeps(x, s) == Post(x, "channel", <<Job("detachStack", s, None)>>)

\* StackBase::PerformShutdown.
PerformShutdown(x, s) ==
  Post([x EXCEPT !.bound = @ \ {s}], "channel", <<Job("detachStack", s, None)>>)

\* IOHandler::AddContext: a stack is known by its route.
AddContext(x, s, u) ==
  IF s \in x.bound THEN At(x, u, "inUse") ELSE At([x EXCEPT !.bound = @ \cup {s}], u, "bind")

\* What a lambda does on strand k.
Effect(x, k, job) ==
  LET flush(y) == Post(y, k, <<Job("flushed", None, job.who)>>) IN
  CASE job.op = "add"            -> AddContext(x, job.arg, job.who)
    [] job.op = "remove"         -> flush(PerformShutdown(x, job.arg))
    [] job.op = "close"          -> flush(CloseChannel(x))
    [] job.op = "shutConn"       -> flush(ShutdownImpl(x, job.arg))
    [] job.op = "release"        -> ShutdownImpl(x, job.arg)
    [] job.op = "detachStack"    -> [x EXCEPT !.chn = Detach(@, job.arg)]
    [] job.op = "detachChannel"  -> [x EXCEPT !.mgr = Detach(@, "channel")]
    [] job.op = "detachListener" -> [x EXCEPT !.mgr = Detach(@, "listener")]
    [] job.op = "detachConn"     -> [x EXCEPT !.mgr = Detach(@, job.arg)]
    [] job.op = "flushed"        -> At(x, job.who, IF x.thread[job.who].arg = "manager"
                                                   THEN "shutting" ELSE "idle")

Run(k) ==
  /\ g.jobs[k] # <<>> /\ Runs(g, Head(g.jobs[k]))
  /\ k = "listener" => g.accepting = None
  /\ g' = Effect([g EXCEPT !.jobs[k] = Tail(@)], k, Head(g.jobs[k]))

----------------------------------------------------------------------------
(* The calls of the user.                                                  *)

Idle(u) == g.thread[u].pc = "idle"

\* DNP3Channel::AddStack: Bind holds the mutex of the channel's resources while
\* it waits for the strand.
AddStack(u, s) ==
  /\ Idle(u) /\ g.open /\ g.chn.owner = None
  /\ ~ConcurrentAdd => \A v \in Threads : Idle(v)
  /\ g' = IF g.chn.shutting THEN g
          ELSE [At(Post(g, "channel", <<Job("add", s, u)>>), u, "wait")
                  EXCEPT !.chn.owner = u, !.thread[u].arg = s]

\* The rest of Bind: a stack whose route is in use is not inserted.
AddStackEnds(u) ==
  LET s == g.thread[u].arg
      y == [At(g, u, "idle") EXCEPT !.chn.owner = None, !.thread[u].arg = None]
  IN  \/ /\ g.thread[u].pc = "bind"
         /\ g' = [y EXCEPT !.chn = Bind(@, s), !.handed = @ \cup {s}]
      \/ g.thread[u].pc = "inUse" /\ g' = y

ShutdownStack(u, s) ==
  /\ Idle(u) /\ s \in g.handed
  /\ g' = BlockUntilAndFlush([g EXCEPT !.handed = @ \ {s}], u, "channel", "remove", s)

ShutdownChannel(u) ==
  /\ Idle(u) /\ g.open
  /\ g' = BlockUntilAndFlush(g, u, "channel", "close", None)

\* Wrong: the mutex is held until every resource is down.
ShutdownManagerLocked(u) ==
  /\ Idle(u) /\ g.resources /\ g.mgr.owner = None
  /\ g' = IF g.mgr.shutting THEN [g EXCEPT !.resources = FALSE]
          ELSE [At(g, u, "shutting") EXCEPT !.thread[u].todo = g.mgr.members,
                                            !.thread[u].arg = "manager",
                                            !.mgr = [Clear(@) EXCEPT !.owner = u]]

\* DNP3ManagerImpl::Shutdown: the resources are copied, then shut down without
\* the mutex.  A call that comes meanwhile finds none left and returns at once.
ShutdownManager(u) ==
  /\ Idle(u) /\ g.resources /\ g.mgr.owner = None
  /\ g' = IF g.mgr.shutting THEN [g EXCEPT !.resources = FALSE]
          ELSE [At(g, u, "shutting") EXCEPT !.thread[u].todo = g.mgr.members,
                                            !.thread[u].arg = "manager", !.mgr = Clear(@)]

\* TCPServer::Shutdown, by the calling thread.  The accept that is cancelled
\* detaches the listener on its strand, unless a connection was accepted before
\* and its callback finds the server shut down.
CloseListener(x, cancelled) ==
  Post([x EXCEPT !.listening = FALSE], "listener",
       IF x.listening /\ cancelled THEN <<Job("detachListener", None, None)>> ELSE <<>>)

ShutdownListener(u) ==
  /\ Idle(u)
  /\ \E cancelled \in BOOLEAN : g' = CloseListener(g, cancelled \/ g.accepting # None)

ShutdownNext(u) ==
  /\ g.thread[u].pc = "shutting"
  /\ \E r \in g.thread[u].todo, cancelled \in BOOLEAN :
       LET y == [g EXCEPT !.thread[u].todo = @ \ {r}]
       IN  g' = CASE r = "channel"  -> BlockUntilAndFlush(y, u, "channel", "close", None)
                  [] r = "listener" -> CloseListener(y, cancelled \/ g.accepting # None)
                  [] r \in Conns    -> BlockUntilAndFlush(y, u, r, "shutConn", r)

ShutdownReturns(u) ==
  /\ g.thread[u].pc = "shutting" /\ g.thread[u].todo = {}
  /\ g' = [At(g, u, "idle") EXCEPT !.thread[u].arg = None, !.resources = FALSE,
                                   !.returned = TRUE, !.mgr.owner = IF @ = u THEN None ELSE @]

----------------------------------------------------------------------------
(* The listener and its connections.                                       *)

\* TCPServer::StartAccept's callback, up to AcceptConnection of the user.
Accept(l) ==
  /\ g.listening /\ g.accepting = None /\ g.conn[l].st = "new"
  /\ \E accept \in BOOLEAN :
       g' = IF accept THEN [g EXCEPT !.accepting = l] ELSE [g EXCEPT !.conn[l].st = "refused"]

\* The same with an error: no accept follows, and OnShutdown detaches the
\* listener, whose port stays open.
AcceptFails ==
  /\ g.listening /\ g.accepting = None
  /\ g' = CloseListener(g, TRUE)

\* MasterTCPServer::AcceptConnection: a LinkSession is made and started, unless
\* the manager is shutting down.
BindConn ==
  /\ g.accepting # None /\ g.mgr.owner = None
  /\ LET l == g.accepting
         y == [g EXCEPT !.mgr = Bind(@, l), !.accepting = None]
     IN  g' = IF l \in y.mgr.members
              THEN [y EXCEPT !.conn[l] = [@ EXCEPT !.st = "open", !.socket = TRUE, !.timer = TRUE]]
              ELSE [y EXCEPT !.conn[l].st = "refused"]

\* OnReadComplete with one frame or two.
Read(l) ==
  /\ g.conn[l].socket
  /\ \E a, b \in BOOLEAN : \/ g' = OnFrame(g, l, a)
                           \/ g' = OnFrame(OnFrame(g, l, a), l, b)

\* OnReadComplete or OnWriteComplete with an error.
Breaks(l) == g.conn[l].socket /\ g' = ShutdownImpl(g, l)

\* MasterSessionStack::BeginShutdown, called by the user (bound: one such call at
\* a time).
BeginShutdown(l) ==
  /\ g.conn[l].stack
  /\ Job("release", l, None) \notin Range(g.jobs[l])
  /\ g' = Post(g, l, <<Job("release", l, None)>>)

\* The timer of the first frame shuts the channel down, not the session.
FirstFrameTimeout(l) ==
  /\ g.conn[l].timer
  /\ g' = [g EXCEPT !.conn[l].timer = FALSE, !.conn[l].socket = FALSE]

----------------------------------------------------------------------------
Next ==
  \/ \E k \in Strands : Run(k)
  \/ \E u \in Threads :
       \/ \E s \in Stacks : AddStack(u, s) \/ ShutdownStack(u, s)
       \/ AddStackEnds(u) \/ ShutdownChannel(u)
       \/ ShutdownManager(u) \/ ShutdownNext(u) \/ ShutdownReturns(u) \/ ShutdownListener(u)
  \/ \E l \in Conns :
       Accept(l) \/ Read(l) \/ Breaks(l) \/ BeginShutdown(l) \/ FirstFrameTimeout(l)
  \/ AcceptFails \/ BindConn

Spec == Init /\ [][Next]_g

\* The threads of the pool run what was posted, and a thread that can go on
\* does.
Fairness ==
  /\ \A k \in Strands : WF_g(Run(k))
  /\ \A u \in Threads : WF_g(AddStackEnds(u) \/ ShutdownNext(u) \/ ShutdownReturns(u))
  /\ WF_g(BindConn)

FairSpec == Spec /\ Fairness

----------------------------------------------------------------------------
(* Properties.                                                             *)

Pending(op, arg) ==
  \E k \in Strands : \E i \in DOMAIN g.jobs[k] :
    g.jobs[k][i].op = op /\ g.jobs[k][i].arg = arg

InHand(r) == r \in g.mgr.members \/ \E u \in Threads : r \in g.thread[u].todo

\* The channel and every connection that is open will be reached by the shutdown
\* of the manager: one of the resources, or in the hands of the call that took
\* them.  Once any call has returned nothing can be added, and once the call that
\* found the resources has returned nothing is open: not the channel, not a
\* stack, not a connection that was being accepted meanwhile.  (A call that comes
\* while another is at work returns before that.)
NothingEscapes ==
  /\ \A l \in Conns : g.conn[l].st = "open" => InHand(l) \/ Pending("shutConn", l)
  /\ g.open => InHand("channel") \/ Pending("close", None)
  /\ ~g.resources => g.mgr.members = {}
  /\ g.returned => /\ ~g.open /\ g.bound = {} /\ ~g.listening
                   /\ \A l \in Conns : ~g.conn[l].socket

\* The IOHandler and the resources of the channel name the same stacks when no
\* call is in progress: a stack that was shut down gets no more frames, one that
\* was not is shut down with the channel.
StacksAgree ==
  (\A u \in Threads : Idle(u)) /\ g.jobs["channel"] = <<>> => g.bound = g.chn.members

\* The user is told at most once that a connection closed, whatever closes it.
ClosedOnce == \A l \in Conns : g.conn[l].closes = IF g.conn[l].st = "shut" THEN 1 ELSE 0

\* Every call of the user returns: no call holds a mutex that a strand needs while
\* it waits for that strand, except AddStack, which has the channel to itself
\* unless ConcurrentAdd.
CallsReturn == \A u \in Threads : ~Idle(u) ~> Idle(u)
=============================================================================
