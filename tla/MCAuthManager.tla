--------------------------- MODULE MCAuthManager ---------------------------
(* Instance of the authentication core for TLC: interchangeable threads. *)
EXTENDS AuthManager, TLC

Symmetry == Permutations(Threads) \cup Permutations(Uids)
=============================================================================
