------------------------- MODULE MCDaemonLifecycle -------------------------
(* Instance of the daemon's life cycle for TLC; no symmetry, since liveness is checked. *)
EXTENDS DaemonLifecycle
=============================================================================
