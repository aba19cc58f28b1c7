---------------------------- MODULE MCEventBuffer ----------------------------
(* A small event buffer: two types (one of capacity 1, one of capacity 2),  *)
(* two classes, two variations; or one of the lists it is made of.          *)
EXTENDS EventBufferSpec, EventList

CONSTANTS binary, analog

VARIABLE part

MCTypes == {binary, analog}
MCCapacity == [t \in MCTypes |-> IF t = binary THEN 2 ELSE 1]

MCInit == part \in {"buffer", "list"} /\ BufferInit /\ ListInit

MCNext ==
  \/ part = "buffer" /\ BufferNext /\ UNCHANGED <<part, listVars>>
  \/ part = "list" /\ ListNext /\ UNCHANGED <<part, buf>>

MCSpec == MCInit /\ [][MCNext]_<<part, buf, listVars>>
=============================================================================
