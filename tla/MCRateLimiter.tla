--------------------------- MODULE MCRateLimiter ---------------------------
(* Instance of the rate limiter for TLC: two interchangeable uids. *)
EXTENDS RateLimiterPolicy, TLC

UidSymmetry == Permutations(Uids)
=============================================================================
