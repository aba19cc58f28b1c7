---------------------------- MODULE EventDelivery ----------------------------
(***************************************************************************)
(* What an outstation and a master promise together: an event that the     *)
(* outstation recorded stays pending until the application of the master   *)
(* has it, unless newer events push it out of a full buffer.               *)
(*                                                                         *)
(* The promise is that of the event mechanism of the protocol, without     *)
(* messages, timers or retries.  Events are numbered in the order in which *)
(* they are recorded.                                                      *)
(***************************************************************************)
EXTENDS Naturals, FiniteSets

CONSTANTS
  Events,       \* the numbers of the events
  Room          \* events that the buffer holds

VARIABLES
  recorded,     \* events that happened
  pending,      \* those the outstation still holds
  delivered     \* those the application of the master was given

vars == <<recorded, pending, delivered>>

Init == recorded = {} /\ pending = {} /\ delivered = {}

\* Something happens.  When the buffer is full the oldest event is lost.
Record(e) ==
  LET held == pending \cup {e} IN
  /\ \A d \in recorded : d < e
  /\ recorded' = recorded \cup {e}
  /\ pending' = IF Cardinality(held) <= Room THEN held
                ELSE {d \in held : \E c \in held : c < d}
  /\ UNCHANGED delivered

\* Events may be given to the application, again if need be.
Deliver(S) ==
  /\ delivered' = delivered \cup S
  /\ UNCHANGED <<recorded, pending>>

\* The outstation forgets events that the application has.
Acknowledge(S) ==
  /\ S \subseteq delivered
  /\ pending' = pending \ S
  /\ UNCHANGED <<recorded, delivered>>

Next ==
  \/ \E e \in Events : Record(e)
  \/ \E S \in SUBSET recorded : Deliver(S)
  \/ \E S \in SUBSET pending : Acknowledge(S)

Spec == Init /\ [][Next]_vars
=============================================================================
