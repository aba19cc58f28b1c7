---------------------------- MODULE MCLifecycle ----------------------------
(***************************************************************************)
(* Two threads of the user, two stacks on the channel, a connection.    *)
(***************************************************************************)
EXTENDS Lifecycle, TLC

CONSTANTS u1, u2, st1, st2, l1
=============================================================================
