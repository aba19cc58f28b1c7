------------------------------- MODULE Stack -------------------------------
(***************************************************************************)
(* A station that sends fragments over a channel which may lose or repeat  *)
(* frames, to a peer whose transport layer puts them together again.  The  *)
(* peer also sends link frames of every kind; the channel may fail and     *)
(* come back at any time.                                                  *)
(*                                                                         *)
(* Prompt says that the program keeps up with the line: a link status      *)
(* request is written before it is answered or given up, and calls that    *)
(* were posted to the executor run before the link is up again.            *)
(***************************************************************************)
EXTENDS LinkLayer, FiniteSets

CONSTANTS
  Lengths,           \* octets in a fragment
  Frames,            \* frames that may come from the peer
  Prompt,            \* see above
  MaxFragments,      \* bounds on fragments and on disturbances of the line
  MaxFaults          \* (model only)

ASSUME LengthsOk == Lengths \subseteq Nat \ {0}
ASSUME FramesOk ==
  Frames \subseteq [func : {"ACK", "NACK", "LINK_STATUS", "NOT_SUPPORTED", "TEST_LINK_STATES",
                            "RESET_LINK_STATES", "REQUEST_LINK_STATUS", "CONFIRMED_USER_DATA",
                            "UNCONFIRMED_USER_DATA"},
                    fcb : BOOLEAN, broadcast : BOOLEAN]
ASSUME PromptOk == Prompt \in BOOLEAN
ASSUME BoundsOk == {MaxFragments, MaxFaults} \subseteq Nat

VARIABLES
  s,                 \* the station
  peer,              \* the transport receiver of the peer
  sent,              \* history: the fragments handed to BeginTransmit
  written,           \* history: the octets of the current fragment on the line
  got,               \* the fragment that the peer delivered in the last step
  faults             \* counter of the bound

vars == <<s, peer, sent, written, got, faults>>

Fragment(n, len) == [k \in 1 .. len |-> <<n, k>>]
Latest == CHOOSE f \in sent : f[1][1] = Cardinality(sent)

\* The frame that the channel has written: if the buffer was formatted again
\* meanwhile, the old frame or the new one.
Emitted == {s.line, Buffer(s, s.mode)}

RequestInTransit ==
  /\ s.priBuffer = Control("REQUEST_LINK_STATUS")
  /\ s.mode = "Primary" \/ s.pendingPri

Init ==
  /\ s = NewStation /\ peer = NewRx
  /\ sent = {} /\ written = <<>> /\ got = <<>>
  /\ faults = 0

Step(x) == s' = x
Quiet == got' = <<>> /\ UNCHANGED <<peer, sent, written, faults>>

Up == /\ ~s.online /\ (Prompt => s.posted = 0)
      /\ Step(OnLowerLayerUp(s)) /\ Quiet

Down == s.online /\ Step(OnLowerLayerDown(s)) /\ Quiet

Send(len) ==
  /\ s.online /\ ~s.sending /\ Cardinality(sent) < MaxFragments
  /\ LET f == Fragment(Cardinality(sent) + 1, len) IN
       /\ Step(BeginTransmit(s, f))
       /\ sent' = sent \cup {f} /\ written' = <<>>
  /\ got' = <<>> /\ UNCHANGED <<peer, faults>>

\* The peer receives a segment, n times, from the station or from another.
Deliver(from, segment, n) ==
  LET once  == ProcessReceive(peer, from, segment)
      twice == ProcessReceive(once.rx, from, segment)
      last  == IF n = 2 THEN twice ELSE once
      whole == IF n = 2 /\ twice.fragment = <<>> THEN once.fragment ELSE last.fragment
  IN  IF n = 0 THEN UNCHANGED peer /\ got' = <<>>
      ELSE peer' = last.rx /\ got' = IF from = "station" THEN whole ELSE <<>>

TxReady == s.mode # "Idle" /\ Step(OnTxReady(s))

\* The channel has written a frame; of a data frame 0, 1 or 2 copies arrive.
Written(n) ==
  /\ TxReady
  /\ \E f \in Emitted :
       IF f.kind = "DATA"
       THEN /\ written' = written \o f.segment.payload
            /\ Deliver("station", f.segment, n)
       ELSE n = 1 /\ got' = <<>> /\ UNCHANGED <<written, peer>>
  /\ n # 1 => faults < MaxFaults
  /\ faults' = IF n = 1 THEN faults ELSE faults + 1
  /\ UNCHANGED sent

RunPosted == s.posted > 0 /\ Step(UpperOnTxReady(s))
Posted == RunPosted /\ Quiet

Receive(f) ==
  /\ s.online
  /\ f.func \in {"ACK", "NACK", "LINK_STATUS", "NOT_SUPPORTED"} /\ Prompt => ~RequestInTransit
  /\ Step(OnFrame(s, f)) /\ Quiet

TimerExpires == s.timer /\ (Prompt => ~RequestInTransit) /\ Step(OnResponseTimeout(s))
ResponseTimeout == TimerExpires /\ Quiet

KeepAlive == s.online /\ Step(OnKeepAliveTimeout(s)) /\ Quiet
CheckLinkStatus == s.online /\ Step(TriggerLinkStatusCheck(s)) /\ Quiet

\* A third station's segment reaches the peer, or the peer's link fails.
Stray(seq, fir, fin) ==
  /\ faults < MaxFaults /\ faults' = faults + 1
  /\ Deliver("other", [fir |-> fir, fin |-> fin, seq |-> seq, payload |-> <<0>>], 1)
  /\ UNCHANGED <<s, sent, written>>

PeerDown ==
  /\ peer' = ClearRxBuffer(peer)
  /\ got' = <<>> /\ UNCHANGED <<s, sent, written, faults>>

Next ==
  \/ Up
  \/ Down
  \/ \E len \in Lengths : Send(len)
  \/ \E n \in 0 .. 2 : Written(n)
  \/ Posted
  \/ \E f \in Frames : Receive(f)
  \/ ResponseTimeout
  \/ KeepAlive
  \/ CheckLinkStatus
  \/ \E seq \in 0 .. SeqMod - 1, fir, fin \in BOOLEAN : Stray(seq, fir, fin)
  \/ PeerDown

Spec == Init /\ [][Next]_vars

\* The channel finishes what it writes, the executor runs what is posted, and
\* a timer that was started expires.
\* (Weak fairness with the enabling conditions written out.)
Fairness ==
  /\ []<>(s.mode = "Idle") \/ []<><<TxReady>>_s
  /\ []<>(s.posted = 0) \/ []<><<RunPosted>>_s
  /\ []<>~(s.timer /\ (Prompt => ~RequestInTransit)) \/ []<><<TimerExpires>>_s

----------------------------------------------------------------------------
(* Properties.                                                             *)

\* A buffer is not formatted while its frame is being written.
FrameIntact == s.mode # "Idle" => s.line = Buffer(s, s.mode)

\* The secondary station waits for a transmission only if there is one;
\* otherwise it would answer nothing any more (SLLS_TransmitWaitBase ignores
\* every frame).
SecondaryWaitsForSomething ==
  s.sec \in SecWaits => s.mode = "Secondary" \/ s.pendingSec

\* The primary station is not idle while there is something for it to send:
\* every path back to idle starts what has piled up meanwhile.
NothingWaits == s.pri = "Idle" => ~s.keepAlive /\ ~s.segments

\* The transport layer is told that a fragment is sent when every octet of it
\* has been on the line exactly once, in order.
ReadyMeansWritten == s.posted > 0 => sent # {} /\ written = Latest

\* What the peer delivers is a fragment that was sent: no octets of two
\* fragments, of two stations, or with a gap.
DeliveredIntact == got # <<>> => got \in sent

\* Every fragment is finished, or the link fails, unless link status checks come
\* again and again: TryStartTransmission serves a check before the next segment,
\* so that one in every wait for an answer holds the fragment up for ever.  The
\* peer's requests, lost answers and finitely many checks only delay it.
SendCompletes ==
  \/ []<><<KeepAlive \/ CheckLinkStatus>>_s
  \/ s.sending ~> ~s.sending

=============================================================================
