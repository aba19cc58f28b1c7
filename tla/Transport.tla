----------------------------- MODULE Transport -----------------------------
(***************************************************************************)
(* The transport function (transport/): an application fragment is cut     *)
(* into segments with FIR, FIN and a sequence number by TransportTx, and   *)
(* put together again by TransportRx.                                      *)
(*                                                                         *)
(* A fragment is a sequence of octets; the operators are functions on the  *)
(* records of the two classes.                                             *)
(***************************************************************************)
EXTENDS Integers, Sequences

CONSTANTS
  MaxPayload,        \* MAX_TPDU_PAYLOAD: octets in a segment
  RxSize,            \* maxRxFragSize: octets in the receive buffer
  SeqMod,            \* 64: sequence numbers of segments
  None

ASSUME MaxPayloadPositive == MaxPayload \in Nat \ {0}
ASSUME RxSizeNat == RxSize \in Nat
ASSUME SeqModPositive == SeqMod \in Nat \ {0}

Lesser(a, b) == IF a < b THEN a ELSE b

----------------------------------------------------------------------------
(* TransportTx.                                                            *)
NewTx == [message |-> <<>>, count |-> 0, seq |-> 0, segment |-> None]

Configure(t, message) == [t EXCEPT !.segment = None, !.message = message, !.count = 0]

\* The segment at the front of the message.
Front(t) ==
  LET n == Lesser(Len(t.message), MaxPayload) IN
  [fir |-> t.count = 0, fin |-> n = Len(t.message), seq |-> t.seq,
   payload |-> SubSeq(t.message, 1, n)]

\* GetSegment makes the segment once and then returns the one it has made.
GetSegment(t) == IF t.segment # None THEN t.segment ELSE Front(t)
Segmented(t) == [t EXCEPT !.segment = GetSegment(t)]

Advance(t) ==
  LET n == Lesser(Len(t.message), MaxPayload) IN
  [t EXCEPT !.segment = None,
            !.message = SubSeq(@, n + 1, Len(@)),
            !.count = @ + 1,
            !.seq = (@ + 1) % SeqMod]

MoreToSend(t) == t.message # <<>>

----------------------------------------------------------------------------
(* TransportRx.                                                            *)
NewRx == [buffer |-> <<>>, expected |-> 0, from |-> None]

\* Reset, ClearRxBuffer.
ClearRxBuffer(r) == [r EXCEPT !.buffer = <<>>]

\* Wrong: the sequence number is not looked at.
AcceptsAnySequence(r, from, s) ==
  s.fir \/ (r.buffer # <<>> /\ from = r.from)

\* The checks on a segment that is not the first one.
Accepts(r, from, s) ==
  s.fir \/ (r.buffer # <<>> /\ s.seq = r.expected /\ from = r.from)

\* FIR discards what has been read before.
Before(r, s) == IF s.fir THEN <<>> ELSE r.buffer

\* ProcessReceive: the receiver after segment s, and the fragment if s
\* completes one, or the empty fragment.
ProcessReceive(r, from, s) ==
  LET octets == Before(r, s) \o s.payload IN
  CASE ~Accepts(r, from, s) -> [rx |-> r, fragment |-> <<>>]
    [] Accepts(r, from, s) /\ Len(octets) > RxSize ->
         [rx |-> ClearRxBuffer(r), fragment |-> <<>>]
    [] Accepts(r, from, s) /\ Len(octets) <= RxSize ->
         [rx |-> [buffer   |-> IF s.fin THEN <<>> ELSE octets,
                  expected |-> (s.seq + 1) % SeqMod,
                  from     |-> from],
          fragment |-> IF s.fin THEN octets ELSE <<>>]

=============================================================================
