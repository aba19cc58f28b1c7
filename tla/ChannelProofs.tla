--------------------------- MODULE ChannelProofs ---------------------------
(***************************************************************************)
(* A channel keeps its sessions informed, completes what they send and     *)
(* closes when none of them uses it, for any number of sessions, any queue *)
(* and any number of attempts and timers that were lost track of.          *)
(*                                                                         *)
(* The inductive invariant is Good: the types, the two invariants about    *)
(* the sessions, and Tracked, what is known of clients and timers.  A      *)
(* callback composes several operators, between which the invariants do    *)
(* not hold, so every lemma is about a whole call of the handler.          *)
(***************************************************************************)
EXTENDS Channel, TLAPS

ChannelState ==
  [kind : Transports, sess : [Sessions -> {"out", "disabled", "enabled"}],
   online : SUBSET Sessions, busy : SUBSET Sessions, channel : BOOLEAN, writing : BOOLEAN,
   queue : Seq(Sessions), client : BOOLEAN, dialing : BOOLEAN, stray : Nat,
   timer : Calls \cup {None}, orphans : [Calls -> Nat],
   accepts : Nat, deaf : {None, "bind", "accept"}, shut : BOOLEAN]

OnlineOf(x) == x.online = IF x.channel THEN Enabled(x) ELSE {}

OwedOf(x) ==
  /\ x.busy \subseteq Range(x.queue)
  /\ x.queue # <<>> => x.channel /\ x.writing

\* The handlers of servers start no timers and no attempts.
ServerOf(x) ==
  x.kind \in Servers => /\ x.timer = None /\ x.stray = 0 /\ ~x.dialing
                        /\ \A what \in Calls : x.orphans[what] = 0

\* A TCP channel that nobody uses is closed and, in a client, so is all that
\* could open it again.
UnusedOf(x) ==
  ~RemoveEnabled /\ x.kind \in Servers \cup {"TCPClient"} /\ Enabled(x) = {} =>
    /\ ~x.channel /\ ~x.dialing /\ x.accepts = 0
    /\ x.kind = "TCPClient" => ~x.client

Sound(x) == x \in ChannelState /\ OnlineOf(x) /\ OwedOf(x) /\ ServerOf(x)

Good(x) == Sound(x) /\ UnusedOf(x)

\* UnusedOf asks nothing of a channel in use.
InUse(x) ==
  ~RemoveEnabled /\ x.kind \in Servers \cup {"TCPClient"} => Enabled(x) # {}

\* From x to y only what concerns connecting has changed.
Dials(x, y) ==
  /\ y \in ChannelState
  /\ y.kind = x.kind /\ y.sess = x.sess /\ y.online = x.online /\ y.busy = x.busy
  /\ y.channel = x.channel /\ y.writing = x.writing /\ y.queue = x.queue
  /\ ServerOf(y)

\* Sequences: what Append and Tail do to the range.
LEMMA RangeAppend ==
  ASSUME NEW S, NEW q \in Seq(S), NEW e \in S
  PROVE  Range(q) \cup {e} \subseteq Range(Append(q, e))
<1>1. DOMAIN Append(q, e) = 1 .. Len(q) + 1 /\ DOMAIN q = 1 .. Len(q)
  OBVIOUS
<1>2. \A i \in DOMAIN q : i \in DOMAIN Append(q, e) /\ Append(q, e)[i] = q[i]
  BY <1>1
<1>3. Len(q) + 1 \in DOMAIN Append(q, e) /\ Append(q, e)[Len(q) + 1] = e
  BY <1>1
<1>4. QED
  BY <1>2, <1>3, Zenon DEF Range

\* The elements of a queue without its head.
LEMMA RangeTail ==
  ASSUME NEW S, NEW q \in Seq(S), q # <<>>
  PROVE  Range(q) \ {Head(q)} \subseteq Range(Tail(q))
<1> SUFFICES ASSUME NEW e \in Range(q), e # Head(q)
             PROVE  e \in Range(Tail(q))
  OBVIOUS
<1>1. PICK i \in DOMAIN q : e = q[i]
  BY DEF Range
<1>2. i \in 2 .. Len(q)
  BY <1>1
<1>3. i - 1 \in DOMAIN Tail(q) /\ Tail(q)[i - 1] = e
  BY <1>1, <1>2
<1>4. QED
  BY <1>3 DEF Range

\* A closed channel has nothing queued and nobody online.
LEMMA ClosedIsEmpty ==
  ASSUME NEW x, Sound(x), ~x.channel
  PROVE  x.online = {} /\ x.queue = <<>> /\ x.busy = {}
<1>1. x.queue = <<>>
  BY DEF Sound, OwedOf
<1>2. Range(x.queue) = {}
  BY <1>1 DEF Range
<1>3. QED
  BY <1>1, <1>2 DEF Sound, OwedOf, OnlineOf

\* Reset closes the channel and tells its sessions; nothing else changes.
LEMMA ResetCloses ==
  ASSUME NEW x, Sound(x)
  PROVE  LET y == Reset(x) IN
         /\ y \in ChannelState
         /\ y.online = {} /\ y.busy = {} /\ y.queue = <<>> /\ ~y.channel /\ ~y.writing
         /\ y.kind = x.kind /\ y.sess = x.sess /\ y.client = x.client
         /\ y.dialing = x.dialing /\ y.accepts = x.accepts
         /\ y.stray = x.stray /\ y.timer = x.timer /\ y.orphans = x.orphans
<1>1. CASE x.channel
  <2>1. x \in ChannelState /\ x.online \ Sessions = {} /\ x.busy \ Sessions = {}
    BY DEF Sound, ChannelState
  <2>2. Reset(x) = [x EXCEPT !.channel = FALSE, !.online = {}, !.busy = {},
                             !.writing = FALSE, !.queue = <<>>]
    BY <1>1, <2>1, ZenonT(30) DEF Reset, LowerLayerDown, ChannelState
  <2>3. <<>> \in Seq(Sessions)
    OBVIOUS
  <2>4. Reset(x) \in ChannelState
    BY <2>1, <2>2, <2>3, ZenonT(30) DEF ChannelState
  <2>5. QED
    BY <2>1, <2>2, <2>4 DEF ChannelState
<1>2. CASE ~x.channel
  BY <1>2, ClosedIsEmpty, ZenonT(30) DEF Sound, Reset, ChannelState
<1>3. QED
  BY <1>1, <1>2 DEF Sound, ChannelState

\* Connecting disturbs only UnusedOf, and not that of a channel in use.
LEMMA DialsKeeps ==
  ASSUME NEW x, NEW y, Good(x), Dials(x, y),
         InUse(x) \/ (y.dialing = x.dialing /\ y.client = x.client /\ y.accepts = x.accepts)
  PROVE  Good(y) /\ (InUse(x) => InUse(y))
<1>1. Enabled(y) = Enabled(x)
  BY DEF Dials, Enabled
<1>2. OnlineOf(y) /\ OwedOf(y)
  BY <1>1 DEF Good, Sound, Dials, OnlineOf, OwedOf
<1>3. UnusedOf(y) /\ (InUse(x) => InUse(y))
  BY <1>1 DEF Good, Sound, Dials, UnusedOf, InUse
<1>4. QED
  BY <1>2, <1>3 DEF Good, Sound, Dials

\* A new channel takes the place of the old one, if any.
LEMMA OnNewChannelKeeps ==
  ASSUME NEW x, Good(x), InUse(x)
  PROVE  Good(OnNewChannel(x))
<1> DEFINE r == Reset(x)
           y == LowerLayerUp([r EXCEPT !.channel = TRUE], Enabled(x))
<1>1. CASE x.channel /\ x.kind # "CloseExisting"
  BY <1>1 DEF OnNewChannel
<1>2. CASE ~(x.channel /\ x.kind # "CloseExisting")
  <2>1. OnNewChannel(x) = y
    BY <1>2 DEF OnNewChannel
  <2>2. /\ r \in ChannelState /\ r.online = {} /\ r.busy = {} /\ r.queue = <<>>
        /\ r.kind = x.kind /\ r.sess = x.sess
        /\ r.dialing = x.dialing /\ r.accepts = x.accepts
        /\ r.stray = x.stray /\ r.timer = x.timer /\ r.orphans = x.orphans
    BY ResetCloses DEF Good
  <2>3. Enabled(x) \in SUBSET Sessions
    BY DEF Enabled
  <2>4. y = [r EXCEPT !.channel = TRUE, !.online = Enabled(x)]
    BY <2>2, <2>3, ZenonT(30) DEF LowerLayerUp, ChannelState
  <2> HIDE DEF r, y
  <2>5. /\ y \in ChannelState /\ y.channel /\ y.online = Enabled(x)
        /\ y.busy = {} /\ y.queue = <<>> /\ y.kind = x.kind /\ y.sess = x.sess
        /\ y.dialing = x.dialing /\ y.accepts = x.accepts
        /\ y.stray = x.stray /\ y.timer = x.timer /\ y.orphans = x.orphans
    BY <2>2, <2>3, <2>4, ZenonT(30) DEF ChannelState
  <2>6. Enabled(y) = Enabled(x)
    BY <2>5 DEF Enabled
  <2>7. OnlineOf(y) /\ OwedOf(y) /\ ServerOf(y)
    BY <2>5, <2>6 DEF OnlineOf, OwedOf, ServerOf, Good, Sound
  <2>8. UnusedOf(y)
    BY <2>5, <2>6 DEF UnusedOf, InUse
  <2>9. QED
    BY <2>1, <2>5, <2>7, <2>8 DEF Good, Sound
<1>3. QED
  BY <1>1, <1>2

----------------------------------------------------------------------------
(* The transports.                                                         *)

\* The timers of clients and serial ports.
LEMMA StartTimerDials ==
  ASSUME NEW x, Good(x), x.kind \notin Servers, NEW what \in Calls
  PROVE  LET y == StartTimer(x, what) IN
         Dials(x, y) /\ y.dialing = x.dialing /\ y.client = x.client /\ y.accepts = x.accepts
<1> DEFINE f == [w \in Calls |-> IF w = x.timer THEN x.orphans[w] + 1 ELSE x.orphans[w]]
           y == StartTimer(x, what)
<1>1. x \in ChannelState /\ f \in [Calls -> Nat]
  BY DEF Good, Sound, ChannelState
<1>2. y = [x EXCEPT !.timer = what, !.orphans = f]
  BY <1>1 DEF StartTimer, ChannelState
<1> HIDE DEF f, y
<1>3. /\ y \in ChannelState /\ y.dialing = x.dialing /\ y.client = x.client /\ y.accepts = x.accepts
      /\ y.kind = x.kind /\ y.sess = x.sess /\ y.online = x.online /\ y.busy = x.busy
      /\ y.channel = x.channel /\ y.writing = x.writing /\ y.queue = x.queue
  BY <1>1, <1>2, ZenonT(30) DEF ChannelState
<1>4. QED
  BY <1>3 DEF Dials, ServerOf, y

\* The retry timer is started.
LEMMA StartTimerKeeps ==
  ASSUME NEW x, Good(x), x.kind \notin Servers, NEW what \in Calls
  PROVE  Good(StartTimer(x, what))
BY StartTimerDials, DialsKeeps

\* Attempts of clients.
LEMMA StartConnectKeeps ==
  ASSUME NEW x, Good(x), InUse(x), x.kind \notin Servers
  PROVE  Good(StartConnect(x))
<1>1. CASE x.client
  <2> DEFINE y == [x EXCEPT !.dialing = TRUE]
  <2>1. Dials(x, y)
    BY ZenonT(30) DEF Good, Sound, Dials, ServerOf, ChannelState
  <2>2. QED
    BY <1>1, <2>1, DialsKeeps DEF StartConnect
<1>2. QED
  BY <1>1 DEF StartConnect

\* A client that starts to connect.
LEMMA NewClientKeeps ==
  ASSUME NEW x, Good(x), InUse(x), x.kind \notin Servers
  PROVE  Good(NewClient(x))
<1> DEFINE n == x.stray + (IF x.dialing THEN 1 ELSE 0)
           y == [x EXCEPT !.client = TRUE, !.dialing = FALSE, !.stray = n]
<1>1. x \in ChannelState /\ n \in Nat
  BY DEF Good, Sound, ChannelState
<1>2. Dials(x, y)
  <2> HIDE DEF n
  <2>1. QED
    BY <1>1, ZenonT(30) DEF Dials, ServerOf, ChannelState
<1>3. Good(y) /\ InUse(y) /\ y.kind \notin Servers
  BY <1>2, DialsKeeps, ZenonT(30) DEF Dials
<1>4. NewClient(x) = StartConnect(y)
  BY DEF NewClient
<1>5. QED
  BY <1>3, <1>4, StartConnectKeeps, ZenonT(30)

\* An attempt to connect.
LEMMA TryOpenKeeps ==
  ASSUME NEW x, Good(x), InUse(x), x.kind \notin Servers, NEW ok \in BOOLEAN
  PROVE  Good(TryOpen(x, ok))
BY OnNewChannelKeeps, StartTimerKeeps DEF TryOpen, Calls

\* A server that starts to listen.
LEMMA ListenKeeps ==
  ASSUME NEW x, Good(x), InUse(x), x.kind \in Servers, NEW ok \in BOOLEAN
  PROVE  Good(Listen(x, ok))
<1>1. x \in ChannelState /\ ServerOf(x)
  BY DEF Good, Sound
<1>2. CASE ~x.client
  <2> DEFINE n == IF ok THEN 1 ELSE 0
             d == IF ok THEN None ELSE "bind"
             y == [x EXCEPT !.client = TRUE, !.accepts = n, !.deaf = d]
  <2>1. n \in Nat /\ d \in {None, "bind", "accept"} /\ Listen(x, ok) = y
    BY <1>2 DEF Listen
  <2> HIDE DEF n, d
  <2>2. Dials(x, y)
    BY <1>1, <2>1, ZenonT(30) DEF Dials, ServerOf, ChannelState
  <2>3. QED
    BY <2>1, <2>2, DialsKeeps
<1>3. CASE x.client /\ x.deaf = "bind"
  BY <1>3 DEF Listen
<1>4. CASE x.client /\ x.deaf # "bind"
  <2> DEFINE n == x.accepts + 1
             y == [x EXCEPT !.accepts = n, !.deaf = None]
  <2>1. n \in Nat /\ Listen(x, ok) = y
    BY <1>1, <1>4 DEF Listen, ChannelState
  <2> HIDE DEF n
  <2>2. Dials(x, y)
    BY <1>1, <2>1, ZenonT(30) DEF Dials, ServerOf, ChannelState
  <2>3. QED
    BY <2>1, <2>2, DialsKeeps
<1>5. QED
  BY <1>1, <1>2, <1>3, <1>4

\* BeginChannelAccept, for a client or a server.
LEMMA BeginChannelAcceptKeeps ==
  ASSUME NEW x, Good(x), InUse(x), NEW ok \in BOOLEAN
  PROVE  Good(BeginChannelAccept(x, ok))
<1>1. x.kind \in AllTransports
  BY Configuration DEF Good, Sound, ChannelState
<1>2. CASE x.kind \in {"TCPClient", "UDPClient"}
  BY <1>2, NewClientKeeps DEF BeginChannelAccept, Servers
<1>3. CASE x.kind = "Serial"
  BY <1>3, TryOpenKeeps DEF BeginChannelAccept, Servers
<1>4. CASE x.kind \in Servers
  BY <1>4, ListenKeeps DEF BeginChannelAccept, Servers
<1>5. QED
  BY <1>1, <1>2, <1>3, <1>4 DEF AllTransports, Servers

\* Accepting is suspended; what is open by then stays open.
LEMMA SuspendKeeps ==
  ASSUME NEW x, Sound(x), InUse(x) \/ ~x.channel
  PROVE  Good(SuspendChannelAccept(x))
<1> DEFINE y == SuspendChannelAccept(x)
<1>1. /\ y \in ChannelState /\ ~y.dialing /\ y.accepts = 0 /\ ~y.client /\ y.timer = None
      /\ y.kind = x.kind /\ y.sess = x.sess /\ y.online = x.online /\ y.busy = x.busy
      /\ y.channel = x.channel /\ y.writing = x.writing /\ y.queue = x.queue
      /\ y.stray = x.stray /\ y.orphans = x.orphans
  BY ZenonT(30) DEF Sound, SuspendChannelAccept, ChannelState
<1> HIDE DEF y
<1>2. Enabled(y) = Enabled(x)
  BY <1>1 DEF Enabled
<1>3. OnlineOf(y) /\ OwedOf(y) /\ ServerOf(y)
  BY <1>1, <1>2 DEF Sound, OnlineOf, OwedOf, ServerOf
<1>4. UnusedOf(y)
  BY <1>1, <1>2 DEF UnusedOf, InUse
<1>5. QED
  BY <1>1, <1>3, <1>4 DEF Good, Sound, y

\* Reset keeps what is known of a channel.
LEMMA ResetKeeps ==
  ASSUME NEW x, Sound(x)
  PROVE  Sound(Reset(x)) /\ (UnusedOf(x) => UnusedOf(Reset(x))) /\ (InUse(x) => InUse(Reset(x)))
<1> DEFINE y == Reset(x)
<1>1. /\ y \in ChannelState
      /\ y.online = {} /\ y.busy = {} /\ y.queue = <<>> /\ ~y.channel
      /\ y.kind = x.kind /\ y.sess = x.sess /\ y.client = x.client
      /\ y.dialing = x.dialing /\ y.accepts = x.accepts
      /\ y.stray = x.stray /\ y.timer = x.timer /\ y.orphans = x.orphans
  BY ResetCloses
<1> HIDE DEF y
<1>2. Enabled(y) = Enabled(x)
  BY <1>1 DEF Enabled
<1>3. OnlineOf(y) /\ OwedOf(y) /\ ServerOf(y)
  BY <1>1, <1>2 DEF Sound, OnlineOf, OwedOf, ServerOf
<1>4. (UnusedOf(x) => UnusedOf(y)) /\ (InUse(x) => InUse(y))
  BY <1>1, <1>2 DEF UnusedOf, InUse
<1>5. QED
  BY <1>1, <1>3, <1>4 DEF Sound, y

\* The end of an attempt; without a client nothing follows from it.
LEMMA AttemptKeeps ==
  ASSUME NEW x, Good(x), x.client => InUse(x)
  PROVE  /\ Good(Connected(x))
         /\ x.kind \notin Servers => Good(ConnectFailed(x))
BY OnNewChannelKeeps, StartTimerKeeps DEF Connected, ConnectFailed, Calls

\* The end of a channel.
LEMMA OnChannelShutdownKeeps ==
  ASSUME NEW x, Good(x)
  PROVE  Good(OnChannelShutdown(x))
BY StartTimerKeeps DEF OnChannelShutdown, Calls

\* A timer calls back; a TCP client without clients ignores it.
LEMMA RetryKeeps ==
  ASSUME NEW x, Good(x), x.kind \notin Servers, NEW what \in Calls, NEW ok \in BOOLEAN
  PROVE  Good(Retry(x, what, ok))
<1>1. x.kind \in {"TCPClient", "UDPClient", "Serial"}
  BY Configuration, ZenonT(30) DEF Good, Sound, ChannelState, AllTransports, Servers
<1>2. x.kind # "TCPClient" \/ x.client => InUse(x)
  BY <1>1 DEF Good, UnusedOf, InUse, Servers
<1>3. CASE x.kind = "Serial"
  BY <1>2, <1>3, TryOpenKeeps DEF Retry
<1>4. CASE x.kind = "TCPClient"
  <2>1. CASE what = "connect"
    BY <1>2, <1>4, <2>1, StartConnectKeeps DEF Retry, StartConnect
  <2>2. CASE what = "accept"
    BY <1>2, <1>4, <2>2, NewClientKeeps DEF Retry
  <2>3. QED
    BY <2>1, <2>2 DEF Calls
<1>5. CASE x.kind = "UDPClient"
  BY <1>2, <1>5, StartConnectKeeps, NewClientKeeps DEF Retry, Calls
<1>6. QED
  BY <1>1, <1>3, <1>4, <1>5

----------------------------------------------------------------------------
(* The calls of the sessions.                                              *)

\* A session goes down, and is no longer enabled.
LEMMA SessionLeaves ==
  ASSUME NEW x, Sound(x), NEW s \in Sessions, NEW st \in {"out", "disabled"}
  PROVE  LET y == LowerLayerDown([x EXCEPT !.sess[s] = st], {s}) IN
         /\ Sound(y) /\ Enabled(y) = Enabled(x) \ {s}
         /\ y.kind = x.kind /\ y.channel = x.channel
<1> DEFINE f == [x.sess EXCEPT ![s] = st]
           y == LowerLayerDown([x EXCEPT !.sess[s] = st], {s})
<1>1. x \in ChannelState /\ f \in [Sessions -> {"out", "disabled", "enabled"}]
  BY DEF Sound, ChannelState
<1>2. y = [x EXCEPT !.sess = f, !.online = x.online \ {s}, !.busy = x.busy \ {s}]
  BY <1>1 DEF LowerLayerDown, ChannelState
<1> HIDE DEF y
<1>3. /\ y \in ChannelState /\ y.sess = f
      /\ y.online = x.online \ {s} /\ y.busy = x.busy \ {s}
      /\ y.kind = x.kind /\ y.channel = x.channel /\ y.writing = x.writing /\ y.queue = x.queue
      /\ y.dialing = x.dialing /\ y.accepts = x.accepts
      /\ y.stray = x.stray /\ y.timer = x.timer /\ y.orphans = x.orphans
  <2> HIDE DEF f
  <2>1. QED
    BY <1>1, <1>2, ZenonT(30) DEF ChannelState
<1>4. Enabled(y) = Enabled(x) \ {s}
  BY <1>1, <1>3 DEF Enabled, ChannelState
<1>5. OnlineOf(y)
  BY <1>3, <1>4 DEF Sound, OnlineOf
<1>6. OwedOf(y) /\ ServerOf(y)
  BY <1>3 DEF Sound, OwedOf, ServerOf
<1>7. QED
  BY <1>3, <1>4, <1>5, <1>6 DEF Sound, y

\* IOHandler::Enable.
LEMMA EnableKeeps ==
  ASSUME NEW x, Good(x), NEW s \in Sessions, x.sess[s] = "disabled", NEW ok \in BOOLEAN
  PROVE  Good(Enable(x, s, ok))
<1> DEFINE f == [x.sess EXCEPT ![s] = "enabled"]
           y == [x EXCEPT !.sess[s] = "enabled"]
           z == LowerLayerUp(y, {s})
<1>1. x \in ChannelState /\ f \in [Sessions -> {"out", "disabled", "enabled"}]
  BY DEF Good, Sound, ChannelState
<1>2. /\ y \in ChannelState /\ y.sess = f
      /\ y.online = x.online /\ y.busy = x.busy
      /\ y.kind = x.kind /\ y.channel = x.channel /\ y.writing = x.writing /\ y.queue = x.queue
      /\ y.dialing = x.dialing /\ y.accepts = x.accepts
      /\ y.stray = x.stray /\ y.timer = x.timer /\ y.orphans = x.orphans
  BY <1>1, ZenonT(30) DEF ChannelState
<1>3. z \in ChannelState /\ z = [y EXCEPT !.online = x.online \cup {s}]
  <2> HIDE DEF y
  <2>1. QED
    BY <1>1, <1>2, ZenonT(30) DEF LowerLayerUp, ChannelState
<1>4. Enable(x, s, ok) = IF x.channel THEN z ELSE BeginChannelAccept(y, ok)
  BY DEF Enable
<1> HIDE DEF y, z
<1>5. Enabled(y) = Enabled(x) \cup {s}
  BY <1>1, <1>2 DEF Enabled, ChannelState
<1>6. OwedOf(y) /\ ServerOf(y) /\ InUse(y) /\ UnusedOf(y)
  BY <1>2, <1>5 DEF Good, Sound, OwedOf, ServerOf, InUse, UnusedOf
<1>7. CASE x.channel
  <2>1. /\ z.sess = y.sess /\ z.online = x.online \cup {s} /\ z.busy = y.busy
        /\ z.kind = y.kind /\ z.channel = y.channel /\ z.writing = y.writing /\ z.queue = y.queue
        /\ z.dialing = y.dialing /\ z.accepts = y.accepts
        /\ z.stray = y.stray /\ z.timer = y.timer /\ z.orphans = y.orphans
    BY <1>2, <1>3 DEF ChannelState
  <2>2. Enabled(z) = Enabled(y)
    BY <2>1 DEF Enabled
  <2>3. OnlineOf(z)
    BY <1>2, <1>5, <1>7, <2>1, <2>2 DEF Good, Sound, OnlineOf
  <2>4. OwedOf(z) /\ ServerOf(z)
    BY <1>6, <2>1 DEF OwedOf, ServerOf
  <2>5. UnusedOf(z)
    BY <1>5, <2>2 DEF UnusedOf
  <2>6. QED
    BY <1>3, <1>4, <1>7, <2>3, <2>4, <2>5 DEF Good, Sound
<1>8. CASE ~x.channel
  <2>1. OnlineOf(y)
    BY <1>2, <1>8 DEF Good, Sound, OnlineOf
  <2>2. QED
    BY <1>2, <1>4, <1>6, <1>8, <2>1, BeginChannelAcceptKeeps DEF Good, Sound
<1>9. QED
  BY <1>7, <1>8

\* IOHandler::Disable.
LEMMA DisableKeeps ==
  ASSUME NEW x, Good(x), NEW s \in Sessions, x.sess[s] = "enabled"
  PROVE  Good(Disable(x, s))
<1> DEFINE y == LowerLayerDown([x EXCEPT !.sess[s] = "disabled"], {s})
<1>1. Sound(y)
  BY SessionLeaves, ZenonT(30) DEF Good
<1>2. Disable(x, s) = IF Enabled(y) = {} THEN SuspendChannelAccept(Reset(y)) ELSE y
  BY DEF Disable
<1> HIDE DEF y
<1>3. CASE Enabled(y) = {}
  BY <1>1, <1>2, <1>3, ResetCloses, ResetKeeps, SuspendKeeps
<1>4. CASE Enabled(y) # {}
  BY <1>1, <1>2, <1>4 DEF Good, UnusedOf
<1>5. QED
  BY <1>3, <1>4

\* The channel is left open, which UnusedOf allows only if enabled sessions may
\* be removed.
LEMMA RemoveKeeps ==
  ASSUME NEW x, Good(x), NEW s \in Sessions,
         x.sess[s] = "disabled" \/ (x.sess[s] = "enabled" /\ RemoveEnabled)
  PROVE  Good(Remove(x, s))
<1> DEFINE y == LowerLayerDown([x EXCEPT !.sess[s] = "out"], {s})
<1>1. Sound(y) /\ Enabled(y) = Enabled(x) \ {s} /\ y.kind = x.kind /\ y.channel = x.channel
  BY SessionLeaves, ZenonT(30) DEF Good
<1>2. Remove(x, s) = IF Enabled(y) = {} THEN SuspendChannelAccept(y) ELSE y
  BY DEF Remove
<1> HIDE DEF y
<1>3. CASE Enabled(y) = {}
  <2>1. InUse(y) \/ ~y.channel
    BY <1>1, <1>3 DEF Good, UnusedOf, InUse, Enabled
  <2>2. QED
    BY <1>1, <1>2, <1>3, <2>1, SuspendKeeps
<1>4. CASE Enabled(y) # {}
  BY <1>1, <1>2, <1>4 DEF Good, UnusedOf
<1>5. QED
  BY <1>3, <1>4

\* Sending starts as soon as there is something to send.
LEMMA CheckForSendKeeps ==
  ASSUME NEW x, x \in ChannelState, OnlineOf(x), ServerOf(x), UnusedOf(x),
         x.busy \subseteq Range(x.queue), x.queue # <<>> => x.channel
  PROVE  Good(CheckForSend(x))
<1>1. CASE x.queue = <<>> \/ ~x.channel \/ x.writing
  BY <1>1 DEF CheckForSend, Good, Sound, OwedOf
<1>2. CASE ~(x.queue = <<>> \/ ~x.channel \/ x.writing)
  <2> DEFINE y == [x EXCEPT !.writing = TRUE]
  <2>1. /\ y \in ChannelState /\ y.writing
        /\ y.kind = x.kind /\ y.sess = x.sess /\ y.online = x.online /\ y.busy = x.busy
        /\ y.channel = x.channel /\ y.queue = x.queue /\ y.client = x.client
        /\ y.dialing = x.dialing /\ y.accepts = x.accepts
        /\ y.stray = x.stray /\ y.timer = x.timer
        /\ y.orphans = x.orphans
    BY ZenonT(30) DEF ChannelState
  <2>2. CheckForSend(x) = y
    BY <1>2 DEF CheckForSend
  <2> HIDE DEF y
  <2>3. Enabled(y) = Enabled(x)
    BY <2>1 DEF Enabled
  <2>4. OnlineOf(y) /\ ServerOf(y) /\ UnusedOf(y) /\ OwedOf(y)
    BY <2>1, <2>3 DEF OnlineOf, ServerOf, UnusedOf, OwedOf
  <2>5. QED
    BY <2>1, <2>2, <2>4 DEF Good, Sound
<1>3. QED
  BY <1>1, <1>2

\* From x to y only the queue, who waits for it, and the write have changed.
Queues(x, y) ==
  /\ y \in ChannelState
  /\ y.kind = x.kind /\ y.sess = x.sess /\ y.online = x.online /\ y.channel = x.channel
  /\ y.client = x.client /\ y.dialing = x.dialing /\ y.accepts = x.accepts /\ y.stray = x.stray
  /\ y.timer = x.timer /\ y.orphans = x.orphans

\* A step that changes only the queue of transmissions.
LEMMA QueuesKeeps ==
  ASSUME NEW x, NEW y, Good(x), Queues(x, y),
         y.busy \subseteq Range(y.queue), y.queue # <<>> => x.channel
  PROVE  Good(CheckForSend(y))
<1>1. Enabled(y) = Enabled(x)
  BY DEF Queues, Enabled
<1>2. OnlineOf(y) /\ ServerOf(y) /\ UnusedOf(y)
  BY <1>1 DEF Good, Sound, Queues, OnlineOf, ServerOf, UnusedOf
<1>3. QED
  BY <1>2, CheckForSendKeeps DEF Queues

\* IOHandler::BeginTransmit.
LEMMA BeginTransmitKeeps ==
  ASSUME NEW x, Good(x), NEW s \in Sessions
  PROVE  Good(BeginTransmit(x, s))
<1> DEFINE q == Append(x.queue, s)
           b == x.busy \cup {s}
           y == [x EXCEPT !.queue = q, !.busy = b]
<1>1. x \in ChannelState /\ x.queue \in Seq(Sessions) /\ x.busy \subseteq Range(x.queue)
  BY DEF Good, Sound, ChannelState, OwedOf
<1>2. q \in Seq(Sessions) /\ b \in SUBSET Sessions /\ b \subseteq Range(q)
  BY <1>1, RangeAppend DEF ChannelState
<1>3. Queues(x, y) /\ y.queue = q /\ y.busy = b
  <2> HIDE DEF q, b
  <2>1. QED
    BY <1>1, <1>2, ZenonT(30) DEF Queues, ChannelState
<1>4. BeginTransmit(x, s) = IF x.channel THEN CheckForSend(y) ELSE x
  BY DEF BeginTransmit
<1> HIDE DEF q, b, y
<1>5. QED
  BY <1>2, <1>3, <1>4, QueuesKeeps

\* The completion of a write, and the next write.
LEMMA OnWrittenKeeps ==
  ASSUME NEW x, Good(x)
  PROVE  Good(OnWritten(x))
<1> DEFINE y == [x EXCEPT !.writing = FALSE]
           q == Tail(x.queue)
           b == x.busy \ {Head(x.queue)}
           z == [y EXCEPT !.queue = q, !.busy = b]
<1>1. /\ x \in ChannelState /\ x.queue \in Seq(Sessions) /\ x.busy \in SUBSET Sessions
      /\ x.busy \subseteq Range(x.queue) /\ (x.queue # <<>> => x.channel)
  BY DEF Good, Sound, ChannelState, OwedOf
<1>2. Queues(x, y) /\ y.queue = x.queue /\ y.busy = x.busy
  BY <1>1, ZenonT(30) DEF Queues, ChannelState
<1>3. OnWritten(x) = CheckForSend(IF x.queue = <<>> THEN y ELSE z)
  <2>1. z = [y EXCEPT !.queue = Tail(y.queue), !.busy = y.busy \ {Head(y.queue)}]
    BY <1>2
  <2>2. OnWritten(x) = CheckForSend(IF y.queue = <<>> THEN y
             ELSE [y EXCEPT !.queue = Tail(y.queue), !.busy = y.busy \ {Head(y.queue)}])
    BY DEF OnWritten
  <2> HIDE DEF y, z
  <2>3. QED
    BY <1>2, <2>1, <2>2
<1>4. CASE x.queue = <<>>
  <2> HIDE DEF y, z
  <2>1. QED
    BY <1>1, <1>2, <1>3, <1>4, QueuesKeeps
<1>5. CASE x.queue # <<>>
  <2>1. q \in Seq(Sessions) /\ b \in SUBSET Sessions /\ b \subseteq Range(q)
    BY <1>1, <1>5, RangeTail
  <2> HIDE DEF q, b, y
  <2>2. Queues(x, z) /\ z.queue = q /\ z.busy = b
    BY <1>2, <2>1, ZenonT(30) DEF Queues, ChannelState
  <2> HIDE DEF z
  <2>3. QED
    BY <1>1, <1>3, <1>5, <2>1, <2>2, QueuesKeeps
<1>6. QED
  BY <1>4, <1>5

\* Everything is closed.
LEMMA ShutdownKeeps ==
  ASSUME NEW x, Good(x)
  PROVE  Good(Shutdown(x))
<1> DEFINE r == Reset(x)
           f == [s \in Sessions |-> "out"]
           y == LowerLayerDown([r EXCEPT !.shut = TRUE, !.sess = f], Sessions)
<1>1. /\ r \in ChannelState
      /\ r.online = {} /\ r.busy = {} /\ r.queue = <<>> /\ ~r.channel
      /\ r.kind = x.kind /\ r.dialing = x.dialing /\ r.accepts = x.accepts
      /\ r.stray = x.stray /\ r.timer = x.timer /\ r.orphans = x.orphans
  BY ResetCloses DEF Good
<1>2. f \in [Sessions -> {"out", "disabled", "enabled"}]
  OBVIOUS
<1> HIDE DEF r
<1>3. /\ y \in ChannelState
      /\ y.online = {} /\ y.busy = {} /\ y.queue = <<>> /\ ~y.channel
      /\ y.kind = x.kind /\ y.dialing = x.dialing /\ y.accepts = x.accepts
      /\ y.stray = x.stray /\ y.timer = x.timer /\ y.orphans = x.orphans
  <2> HIDE DEF f
  <2>1. QED
    BY <1>1, <1>2, ZenonT(30) DEF LowerLayerDown, ChannelState
<1>4. Shutdown(x) = SuspendChannelAccept(y)
  BY DEF Shutdown, r
<1> HIDE DEF y
<1>5. Sound(y)
  BY <1>3 DEF Good, Sound, OnlineOf, OwedOf, ServerOf
<1>6. QED
  BY <1>3, <1>4, <1>5, SuspendKeeps

----------------------------------------------------------------------------
(* The specification.                                                      *)

\* A channel before its first session.
LEMMA InitGood == Init => Good(c)
<1> SUFFICES ASSUME NEW kind \in Transports, c = Closed(kind)
             PROVE  Good(c)
  BY DEF Init
<1>1. <<>> \in Seq(Sessions) /\ [what \in Calls |-> 0] \in [Calls -> Nat]
      /\ [s \in Sessions |-> "out"] \in [Sessions -> {"out", "disabled", "enabled"}]
      /\ (kind \in Servers) \in BOOLEAN
  OBVIOUS
<1>2. c \in ChannelState
  BY <1>1 DEF Closed, ChannelState
<1>3. Enabled(c) = {} /\ c.online = {} /\ c.busy = {} /\ c.queue = <<>> /\ ~c.channel
  BY DEF Closed, Enabled
<1>4. OnlineOf(c) /\ OwedOf(c) /\ ServerOf(c) /\ UnusedOf(c)
  BY <1>3, ZenonT(30) DEF OnlineOf, OwedOf, ServerOf, UnusedOf, Closed, Servers
<1>5. QED
  BY <1>2, <1>4 DEF Good, Sound

\* A session is made known to the channel.
LEMMA AddKeeps ==
  ASSUME NEW x, Good(x), NEW s \in Sessions, x.sess[s] = "out"
  PROVE  Good([x EXCEPT !.sess[s] = "disabled"])
<1> DEFINE f == [x.sess EXCEPT ![s] = "disabled"]
           y == [x EXCEPT !.sess[s] = "disabled"]
<1>1. x \in ChannelState /\ f \in [Sessions -> {"out", "disabled", "enabled"}]
  BY DEF Good, Sound, ChannelState
<1>2. /\ y \in ChannelState /\ y.sess = f /\ y.online = x.online /\ y.busy = x.busy
      /\ y.kind = x.kind /\ y.channel = x.channel /\ y.writing = x.writing /\ y.queue = x.queue
      /\ y.client = x.client
      /\ y.dialing = x.dialing /\ y.accepts = x.accepts
      /\ y.stray = x.stray /\ y.timer = x.timer /\ y.orphans = x.orphans
  BY <1>1, ZenonT(30) DEF ChannelState
<1> HIDE DEF y
<1>3. Enabled(y) = Enabled(x)
  BY <1>1, <1>2 DEF Enabled, ChannelState
<1>4. OnlineOf(y) /\ OwedOf(y) /\ ServerOf(y) /\ UnusedOf(y)
  BY <1>2, <1>3 DEF Good, Sound, OnlineOf, OwedOf, ServerOf, UnusedOf
<1>5. QED
  BY <1>2, <1>4 DEF Good, Sound, y

\* An attempt, or a timer, is used up; the rest of the channel is as before.
LEMMA UsedUp ==
  ASSUME NEW x, Good(x)
  PROVE  /\ x.dialing => LET y == [x EXCEPT !.dialing = FALSE] IN
              Good(y) /\ InUse(y) /\ y.kind = x.kind
         /\ x.stray > 0 => LET y == [x EXCEPT !.stray = @ - 1] IN
              Good(y) /\ (y.client => InUse(y)) /\ y.kind \notin Servers
         /\ x.timer # None => LET y == [x EXCEPT !.timer = None] IN
              Good(y) /\ y.kind \notin Servers
         /\ \A w \in Calls : x.orphans[w] > 0 => LET y == [x EXCEPT !.orphans[w] = @ - 1] IN
              Good(y) /\ y.kind \notin Servers
<1>1. x \in ChannelState /\ ServerOf(x) /\ UnusedOf(x)
  BY DEF Good, Sound
<1>2. ASSUME x.dialing
      PROVE  LET y == [x EXCEPT !.dialing = FALSE] IN Good(y) /\ InUse(y) /\ y.kind = x.kind
  <2> DEFINE y == [x EXCEPT !.dialing = FALSE]
  <2>1. InUse(x)
    BY <1>1, <1>2 DEF UnusedOf, InUse
  <2>2. Dials(x, y)
    BY <1>1, ZenonT(30) DEF Dials, ServerOf, ChannelState
  <2>3. QED
    BY <2>1, <2>2, DialsKeeps, ZenonT(30) DEF Dials
<1>3. ASSUME x.stray > 0
      PROVE  LET y == [x EXCEPT !.stray = @ - 1] IN
             Good(y) /\ (y.client => InUse(y)) /\ y.kind \notin Servers
  <2> DEFINE n == x.stray - 1
             y == [x EXCEPT !.stray = n]
  <2>1. n \in Nat /\ x.kind \notin Servers
    BY <1>1, <1>3 DEF ServerOf, ChannelState
  <2>2. Dials(x, y) /\ y.dialing = x.dialing /\ y.client = x.client /\ y.accepts = x.accepts
    <3> HIDE DEF n
    <3>1. QED
      BY <1>1, <2>1, ZenonT(30) DEF Dials, ServerOf, ChannelState
  <2>3. x.client => InUse(x)
    BY <1>1, <2>1 DEF UnusedOf, InUse
  <2>4. Good(y) /\ (y.client => InUse(y)) /\ y.kind \notin Servers
    BY <2>1, <2>2, <2>3, DialsKeeps, ZenonT(30) DEF Dials
  <2>5. QED
    BY <2>4
<1>4. ASSUME x.timer # None
      PROVE  LET y == [x EXCEPT !.timer = None] IN Good(y) /\ y.kind \notin Servers
  <2> DEFINE y == [x EXCEPT !.timer = None]
  <2>1. x.kind \notin Servers
    BY <1>1, <1>4 DEF ServerOf
  <2>2. Dials(x, y) /\ y.dialing = x.dialing /\ y.client = x.client /\ y.accepts = x.accepts
    BY <1>1, <2>1, ZenonT(30) DEF Dials, ServerOf, ChannelState
  <2>3. QED
    BY <2>1, <2>2, DialsKeeps, ZenonT(30) DEF Dials
<1>5. ASSUME NEW w \in Calls, x.orphans[w] > 0
      PROVE  LET y == [x EXCEPT !.orphans[w] = @ - 1] IN Good(y) /\ y.kind \notin Servers
  <2> DEFINE f == [x.orphans EXCEPT ![w] = @ - 1]
             y == [x EXCEPT !.orphans = f]
  <2>1. f \in [Calls -> Nat] /\ x.kind \notin Servers
    BY <1>1, <1>5 DEF ServerOf, ChannelState
  <2>2. Dials(x, y) /\ y.dialing = x.dialing /\ y.client = x.client /\ y.accepts = x.accepts
    <3> HIDE DEF f
    <3>1. QED
      BY <1>1, <2>1, ZenonT(30) DEF Dials, ServerOf, ChannelState
  <2>3. Good(y) /\ y.kind \notin Servers
    BY <2>1, <2>2, DialsKeeps, ZenonT(30) DEF Dials
  <2>4. QED
    BY <2>3
<1>6. QED
  BY <1>2, <1>3, <1>4, <1>5

\* Every action keeps the invariant.
LEMMA NextKeeps == Good(c) /\ [Next]_c => Good(c)'
<1> SUFFICES ASSUME Good(c), [Next]_c
             PROVE  Good(c')
  OBVIOUS
<1>1. \A s \in Sessions : Add(s) => Good(c')
  BY AddKeeps DEF Add, Step
<1>2. \A s \in Sessions : EnableS(s) => Good(c')
  BY EnableKeeps DEF EnableS, Step
<1>3. \A s \in Sessions : DisableS(s) => Good(c')
  BY DisableKeeps DEF DisableS, Step
<1>4. \A s \in Sessions : RemoveS(s) => Good(c')
  BY RemoveKeeps DEF RemoveS, Step
<1>5. \A s \in Sessions : Send(s) => Good(c')
  BY BeginTransmitKeeps DEF Send, Step
<1>6. Close => Good(c')
  BY ShutdownKeeps DEF Close, Step
<1>7. ASSUME Connects \/ Fails PROVE Good(c')
  <2> DEFINE y == [c EXCEPT !.dialing = FALSE]
  <2>1. c.dialing /\ (c' = Connected(y) \/ c' = ConnectFailed(y))
    BY <1>7 DEF Connects, Fails, Step
  <2>2. Good(y) /\ InUse(y) /\ y.kind = c.kind
    BY <2>1, UsedUp, ZenonT(30)
  <2>3. c.kind \notin Servers
    BY <2>1 DEF Good, Sound, ServerOf
  <2> HIDE DEF y
  <2>4. QED
    BY <2>1, <2>2, <2>3, AttemptKeeps, ZenonT(30)
<1>8. ASSUME Accepts \/ AcceptFails PROVE Good(c')
  <2>1. InUse(c) /\ c \in ChannelState /\ ServerOf(c) /\ c.accepts > 0
    BY <1>8 DEF Accepts, AcceptFails, Good, Sound, UnusedOf, InUse
  <2>2. CASE c' = Connected(c)
    BY <2>1, <2>2, AttemptKeeps
  <2>3. CASE c' # Connected(c)
    <3> DEFINE n == c.accepts - 1
               d == IF c.accepts = 1 THEN "accept" ELSE c.deaf
               y == [c EXCEPT !.accepts = n, !.deaf = d]
    <3>1. n \in Nat /\ d \in {None, "bind", "accept"} /\ c' = y
      BY <1>8, <2>1, <2>3 DEF Accepts, AcceptFails, Step, ChannelState
    <3> HIDE DEF n, d
    <3>2. Dials(c, y)
      BY <2>1, <3>1, ZenonT(30) DEF Dials, ServerOf, ChannelState
    <3>3. QED
      BY <2>1, <3>1, <3>2, DialsKeeps
  <2>4. QED
    BY <2>2, <2>3
<1>9. StrayConnects \/ StrayFails => Good(c')
  BY UsedUp, AttemptKeeps, ZenonT(30) DEF StrayConnects, StrayFails, Step
<1>10. ASSUME Timer PROVE Good(c')
  <2> DEFINE y == [c EXCEPT !.timer = None]
  <2>1. PICK ok \in BOOLEAN : c' = Retry(y, c.timer, ok)
    BY <1>10 DEF Timer, Step
  <2>2. c.timer # None /\ c.timer \in Calls
    BY <1>10 DEF Timer, Good, Sound, ChannelState
  <2>3. Good(y) /\ y.kind \notin Servers
    BY <2>2, UsedUp, ZenonT(30)
  <2> HIDE DEF y
  <2>4. QED
    BY <2>1, <2>2, <2>3, RetryKeeps
<1>11. ASSUME NEW what \in Calls, Orphan(what) PROVE Good(c')
  <2> DEFINE y == [c EXCEPT !.orphans[what] = @ - 1]
  <2>1. PICK ok \in BOOLEAN : c' = Retry(y, what, ok)
    BY <1>11 DEF Orphan, Step
  <2>2. Good(y) /\ y.kind \notin Servers
    BY <1>11, UsedUp, ZenonT(30) DEF Orphan
  <2> HIDE DEF y
  <2>3. QED
    BY <2>1, <2>2, RetryKeeps
<1>12. Written => Good(c')
  BY OnWrittenKeeps DEF Written, Step
<1>13. Breaks => Good(c')
  BY ResetKeeps, OnChannelShutdownKeeps DEF Breaks, OnError, Step, Good
<1>14. CASE UNCHANGED c
  BY <1>14
<1>15. QED
  BY <1>1, <1>2, <1>3, <1>4, <1>5, <1>6, <1>7, <1>8, <1>9, <1>10, <1>11, <1>12, <1>13, <1>14
  DEF Next

\* The inductive invariant holds at all times.
LEMMA AlwaysGood == Spec => []Good(c)
BY InitGood, NextKeeps, PTL DEF Spec

\* IOHandler tells every session whether it is online: exactly the enabled ones
\* of an open channel were told that it is up.
THEOREM OnlineCorrect == Spec => []OnlineExactly
<1>1. Good(c) => OnlineExactly
  BY DEF Good, Sound, OnlineOf, OnlineExactly
<1>2. QED
  BY <1>1, AlwaysGood, PTL

\* No completion is lost between the sessions that share txQueue.
THEOREM CompletionCorrect == Spec => []CompletionOwed
<1>1. Good(c) => CompletionOwed
  BY DEF Good, Sound, OwedOf, CompletionOwed
<1>2. QED
  BY <1>1, AlwaysGood, PTL

\* A TCP channel that no session uses is closed and stays closed, if sessions
\* are disabled before they are removed.
THEOREM ClosedCorrect ==
  ASSUME ~RemoveEnabled
  PROVE  Spec => []ClosedWhenUnused
<1>1. Good(c) => ClosedWhenUnused
  BY DEF Good, UnusedOf, ClosedWhenUnused
<1>2. QED
  BY <1>1, AlwaysGood, PTL
=============================================================================
