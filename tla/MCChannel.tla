----------------------------- MODULE MCChannel -----------------------------
(***************************************************************************)
(* Two sessions on a channel, over every transport.                        *)
(***************************************************************************)
EXTENDS Channel, TLC

CONSTANTS s1, s2
=============================================================================
