--------------------------- MODULE MCDualChannel ---------------------------
(* Instance of the secure channel for TLC. *)
EXTENDS DualChannel
=============================================================================
