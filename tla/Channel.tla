------------------------------ MODULE Channel ------------------------------
(***************************************************************************)
(* A channel (IOHandler) that the link layers of several sessions share,   *)
(* over each of its transports: TCP client, UDP, serial port and TCP       *)
(* server in its two accept modes.                                         *)
(*                                                                         *)
(* The strand runs one callback at a time.  c is the state of the handler; *)
(* the operators take the state before a call and return the one after.    *)
(*   sess       a session is "out", "disabled" or "enabled"                *)
(*   online     sessions that were told that the layer is up               *)
(*   busy       sessions that wait for OnTxReady                           *)
(*   channel    a channel is open; writing: it has a write in progress     *)
(*   queue      txQueue, the session of each frame                         *)
(*   client     the TCPClient, UDPClient or server object exists           *)
(*   dialing    an attempt of that client is in progress                   *)
(*   accepts    chains of accepts that a server has outstanding            *)
(*   stray      attempts of clients that were replaced while connecting    *)
(*   timer      what retrytimer will call, or None                         *)
(*   orphans    of the timers whose handle was overwritten, how many call  *)
(*              what                                                       *)
(*   deaf       why a server accepts nothing: it could not bind its port,  *)
(*              or its last accept failed; else None                       *)
(* Attempts carry their retry delay; delays and endpoints are left out.    *)
(***************************************************************************)
EXTENDS Integers, Sequences, Functions

CONSTANTS
  None,
  Sessions,
  Transports,     \* the transports to check
  MaxQueue,       \* bound: frames in txQueue
  MaxStray,       \* bound: attempts of replaced clients, accepts after the first
  RemoveEnabled   \* the user may shut down a stack that is still enabled

AllTransports == {"TCPClient", "UDPClient", "Serial", "CloseNew", "CloseExisting"}
\* What a retry timer calls: StartConnect (TryOpen), or BeginChannelAccept.
Calls == {"connect", "accept"}

Servers == {"CloseNew", "CloseExisting"}

ASSUME Configuration ==
  /\ Transports \subseteq AllTransports
  /\ {MaxQueue, MaxStray} \subseteq Nat
  /\ RemoveEnabled \in BOOLEAN

VARIABLE c

Closed(kind) ==
  [kind |-> kind, sess |-> [s \in Sessions |-> "out"], online |-> {}, busy |-> {},
   channel |-> FALSE, writing |-> FALSE, queue |-> <<>>, client |-> kind \in Servers,
   dialing |-> FALSE, accepts |-> 0, stray |-> 0, timer |-> None,
   orphans |-> [what \in Calls |-> 0], deaf |-> None, shut |-> FALSE]

Enabled(x) == {s \in Sessions : x.sess[s] = "enabled"}

----------------------------------------------------------------------------
(* Sending.                                                                *)

CheckForSend(x) ==
  IF x.queue = <<>> \/ ~x.channel \/ x.writing THEN x ELSE [x EXCEPT !.writing = TRUE]

\* BeginTransmit, called by the link layer of a session.
BeginTransmit(x, s) ==
  IF x.channel THEN CheckForSend([x EXCEPT !.queue = Append(@, s), !.busy = @ \cup {s}]) ELSE x

----------------------------------------------------------------------------
(* Up and down.                                                            *)

\* Session::LowerLayerUp and LowerLayerDown: a link layer that goes down no
\* longer waits for a completion.
LowerLayerUp(x, ss)   == [x EXCEPT !.online = @ \cup ss]
LowerLayerDown(x, ss) == [x EXCEPT !.online = @ \ ss, !.busy = @ \ ss]

\* Wrong: what was queued for the old channel is sent on the next.
ResetKeepsQueue(x) ==
  IF x.channel THEN LowerLayerDown([x EXCEPT !.channel = FALSE, !.writing = FALSE], Sessions) ELSE x

\* Reset.  A channel that shuts down makes no more callbacks.
Reset(x) ==
  [(IF x.channel THEN LowerLayerDown([x EXCEPT !.channel = FALSE], Sessions) ELSE x)
     EXCEPT !.writing = FALSE, !.queue = <<>>]

OnNewChannel(x) ==
  IF x.channel /\ x.kind # "CloseExisting" THEN x
  ELSE LowerLayerUp([Reset(x) EXCEPT !.channel = TRUE], Enabled(x))

----------------------------------------------------------------------------
(* The transports.                                                         *)

\* The assignment to retrytimer leaves a timer that is running without a handle.
StartTimer(x, what) ==
  [x EXCEPT !.timer = what,
            !.orphans = [w \in Calls |-> IF w = x.timer THEN @[w] + 1 ELSE @[w]]]

\* TCPClient::BeginConnect and UDPClient::Open: an attempt in progress goes on.
StartConnect(x) == IF x.client THEN [x EXCEPT !.dialing = TRUE] ELSE x

\* A new client; the attempt of the client it replaces is not cancelled.
NewClient(x) ==
  StartConnect([x EXCEPT !.client = TRUE, !.dialing = FALSE, !.stray = @ + (IF x.dialing THEN 1 ELSE 0)])

\* SerialIOHandler::TryOpen.
TryOpen(x, ok) == IF ok THEN OnNewChannel(x) ELSE StartTimer(x, "connect")

\* TCPServerIOHandler::BeginChannelAccept: a server that was shut down is made
\* again, and may fail to bind.  One that exists starts one more accept, which
\* fails at once if the port is not bound.
Listen(x, ok) ==
  CASE ~x.client -> [x EXCEPT !.client = TRUE, !.accepts = IF ok THEN 1 ELSE 0,
                              !.deaf = IF ok THEN None ELSE "bind"]
    [] x.client /\ x.deaf = "bind" -> x
    [] x.client /\ x.deaf # "bind" -> [x EXCEPT !.accepts = @ + 1, !.deaf = None]

BeginChannelAccept(x, ok) ==
  CASE x.kind \in {"TCPClient", "UDPClient"} -> NewClient(x)
    [] x.kind = "Serial"  -> TryOpen(x, ok)
    [] x.kind \in Servers -> Listen(x, ok)

\* OnChannelShutdown; only the TCP client looks whether it was suspended.
OnChannelShutdown(x) ==
  IF x.kind \in Servers \/ (x.kind = "TCPClient" /\ ~x.client) THEN x
  ELSE StartTimer(x, "accept")

\* Wrong: an attempt that is in progress is not cancelled.
SuspendChannelAcceptLate(x) == [x EXCEPT !.timer = None]

\* ResetState of the clients, server->Shutdown of the servers.
SuspendChannelAccept(x) ==
  [x EXCEPT !.client = FALSE, !.dialing = FALSE, !.accepts = 0, !.timer = None, !.deaf = None]

\* The callback of an attempt.
Connected(x) == IF x.client THEN OnNewChannel(x) ELSE x

\* Wrong: one failure is the last.
ConnectFailedGivesUp(x) == x

ConnectFailed(x) == IF x.client THEN StartTimer(x, "connect") ELSE x

\* What a retry timer calls.
Retry(x, what, ok) ==
  CASE x.kind = "Serial" -> TryOpen(x, ok)
    [] x.kind \in {"TCPClient", "UDPClient"} /\ what = "connect" -> StartConnect(x)
    [] x.kind = "TCPClient" /\ what = "accept" -> IF x.client THEN NewClient(x) ELSE x
    [] x.kind = "UDPClient" /\ what = "accept" -> NewClient(x)

----------------------------------------------------------------------------
(* What the sessions ask for, and what the channel reports.                *)

\* Wrong: the session waits for the next channel.
EnableWaits(x, s, ok) ==
  IF x.sess[s] # "disabled" THEN x
  ELSE LET y == [x EXCEPT !.sess[s] = "enabled"]
       IN  IF x.channel THEN y ELSE BeginChannelAccept(y, ok)

Enable(x, s, ok) ==
  IF x.sess[s] # "disabled" THEN x
  ELSE LET y == [x EXCEPT !.sess[s] = "enabled"]
       IN  IF x.channel THEN LowerLayerUp(y, {s}) ELSE BeginChannelAccept(y, ok)

Disable(x, s) ==
  IF x.sess[s] # "enabled" THEN x
  ELSE LET y == LowerLayerDown([x EXCEPT !.sess[s] = "disabled"], {s})
       IN  IF Enabled(y) = {} THEN SuspendChannelAccept(Reset(y)) ELSE y

Remove(x, s) ==
  IF x.sess[s] = "out" THEN x
  ELSE LET y == LowerLayerDown([x EXCEPT !.sess[s] = "out"], {s})
       IN  IF Enabled(y) = {} THEN SuspendChannelAccept(y) ELSE y

\* OnWriteComplete: the session whose frame was at the front may send again.
OnWritten(x) ==
  LET y == [x EXCEPT !.writing = FALSE]
  IN  CheckForSend(IF y.queue = <<>> THEN y
                   ELSE [y EXCEPT !.queue = Tail(@), !.busy = @ \ {Head(y.queue)}])

\* OnReadComplete or OnWriteComplete with an error.
OnError(x) == OnChannelShutdown(Reset(x))

\* IOHandler::Shutdown, and the stacks of the channel after it: Remove of each
\* finds a channel that is already closed and suspended.
Shutdown(x) ==
  SuspendChannelAccept(
    LowerLayerDown([Reset(x) EXCEPT !.shut = TRUE, !.sess = [s \in Sessions |-> "out"]], Sessions))

----------------------------------------------------------------------------
(* The specification.                                                      *)

Init == \E kind \in Transports : c = Closed(kind)

\* One callback, within the bounds.
Step(y) ==
  /\ y.stray <= MaxStray /\ y.accepts <= MaxStray + 1
  /\ \A what \in Calls : y.orphans[what] <= MaxStray
  /\ c' = y

Add(s)      == ~c.shut /\ c.sess[s] = "out" /\ Step([c EXCEPT !.sess[s] = "disabled"])
EnableS(s)  == c.sess[s] = "disabled" /\ \E ok \in BOOLEAN : Step(Enable(c, s, ok))
DisableS(s) == c.sess[s] = "enabled" /\ Step(Disable(c, s))
RemoveS(s)  == /\ c.sess[s] = "disabled" \/ (c.sess[s] = "enabled" /\ RemoveEnabled)
               /\ Step(Remove(c, s))
Send(s)     == s \in c.online \ c.busy /\ Len(c.queue) < MaxQueue /\ Step(BeginTransmit(c, s))
Close       == ~c.shut /\ Step(Shutdown(c))

\* The end of a client's attempt.
Connects == c.dialing /\ Step(Connected([c EXCEPT !.dialing = FALSE]))
Fails    == c.dialing /\ Step(ConnectFailed([c EXCEPT !.dialing = FALSE]))

\* TCPServer::StartAccept's callback: the next accept follows a connection, but
\* not an error, after which OnShutdown of the server does nothing.
Accepts     == c.accepts > 0 /\ Step(Connected(c))
AcceptFails == /\ c.accepts > 0
               /\ Step([c EXCEPT !.accepts = @ - 1,
                                 !.deaf = IF c.accepts = 1 THEN "accept" ELSE @])

\* The same for a client that was replaced.
StrayConnects == c.stray > 0 /\ Step(Connected([c EXCEPT !.stray = @ - 1]))
StrayFails    == c.stray > 0 /\ Step(ConnectFailed([c EXCEPT !.stray = @ - 1]))

Timer        == /\ c.timer # None
                /\ \E ok \in BOOLEAN : Step(Retry([c EXCEPT !.timer = None], c.timer, ok))
Orphan(what) == /\ c.orphans[what] > 0
                /\ \E ok \in BOOLEAN : Step(Retry([c EXCEPT !.orphans[what] = @ - 1], what, ok))

Written == c.writing /\ Step(OnWritten(c))
Breaks  == c.channel /\ Step(OnError(c))

Next ==
  \/ \E s \in Sessions : Add(s) \/ EnableS(s) \/ DisableS(s) \/ RemoveS(s) \/ Send(s)
  \/ Connects \/ Fails \/ Accepts \/ AcceptFails \/ StrayConnects \/ StrayFails \/ Timer
  \/ \E what \in Calls : Orphan(what)
  \/ Written \/ Breaks \/ Close

Spec == Init /\ [][Next]_c

\* Timers fire, attempts come to an end, and the peer can be reached: attempts
\* that are made again and again succeed at last.
Tries == Connects \/ Accepts \/ StrayConnects \/ Timer \/ \E what \in Calls : Orphan(what)

Fairness ==
  /\ WF_c(Connects \/ Fails) /\ WF_c(Accepts \/ AcceptFails)
  /\ WF_c(StrayConnects \/ StrayFails)
  /\ WF_c(Timer) /\ \A what \in Calls : WF_c(Orphan(what))
  /\ SF_c(Tries /\ ~c.channel /\ c'.channel)

FairSpec == Spec /\ Fairness

----------------------------------------------------------------------------
(* Properties.                                                             *)

\* A session is told that the layer is up exactly while it is enabled and the
\* channel is open, whichever of the two came first.
OnlineExactly == c.online = IF c.channel THEN Enabled(c) ELSE {}

\* A session that waits for OnTxReady has a frame in the queue, and the queue
\* moves: a lost completion would silence the link layer for good.
CompletionOwed ==
  /\ c.busy \subseteq Range(c.queue)
  /\ c.queue # <<>> => c.channel /\ c.writing

\* A TCP channel that nobody uses is closed: it has no connection, its client no
\* attempt in progress, its server no accept.  (An attempt of a client that was
\* replaced meanwhile may still be going on.  A serial port, or a UDP socket, can
\* be reopened by a timer whose handle was overwritten.)
ClosedWhenUnused ==
  c.kind \in Servers \cup {"TCPClient"} /\ Enabled(c) = {} =>
    ~c.channel /\ ~c.dialing /\ c.accepts = 0

\* A session that stays enabled comes online again, whatever was closed,
\* suspended or retried before, unless a server can no longer accept: neither
\* one that could not bind its port nor one whose last accept failed tries
\* again by itself.
ComesOnline ==
  \A s \in Sessions :
    c.sess[s] = "enabled" ~> s \in c.online \/ c.sess[s] # "enabled" \/ c.deaf # None
=============================================================================
