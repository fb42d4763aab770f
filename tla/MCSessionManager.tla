-------------------------- MODULE MCSessionManager --------------------------
(* Instance of the session manager for TLC: two uids and two instance ids, no
   symmetry since a refinement is checked. *)
EXTENDS SessionManager
=============================================================================
