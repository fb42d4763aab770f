------------------------- MODULE RateLimiterPolicy -------------------------
(***************************************************************************)
(* The rate limiter next to the policy it is meant to enforce.  The limiter*)
(* keeps one lazily reset entry per uid; the policy is stated on the       *)
(* history of recorded failures alone:                                     *)
(*   run[u]           failures in the current unbroken run of u (two       *)
(*                    consecutive ones at most reset_window_ms apart, no   *)
(*                    success or manual reset in between);                 *)
(*   last_failure[u]  when the last of them was recorded;                  *)
(*   retry_at[u]      the instant u was last told to retry at, 0 if none.  *)
(* The methods may be called in any order: Binder threads check and record *)
(* in separate critical sections.                                          *)
(***************************************************************************)
EXTENDS RateLimiter

VARIABLES run, last_failure, retry_at

vars == <<attempts_, now, run, last_failure, retry_at>>
history == <<run, last_failure, retry_at>>

PolicyInit ==
    /\ Init
    /\ run = [u \in Uids |-> 0]
    /\ last_failure = [u \in Uids |-> 0]
    /\ retry_at = [u \in Uids |-> 0]

Check(u) ==
    /\ \E allowed \in BOOLEAN : check_allowed(u, allowed)
    /\ retry_at' = [retry_at EXCEPT ![u] = IF Allowed(u) THEN 0 ELSE now + RetryAfter(u)]
    /\ UNCHANGED <<now, run, last_failure>>

Success(u) ==
    /\ record_success(u)
    /\ run' = [run EXCEPT ![u] = 0]
    /\ retry_at' = [retry_at EXCEPT ![u] = 0]
    /\ UNCHANGED <<now, last_failure>>

Failure(u) ==
    /\ FailureWithinBound(u)
    /\ record_failure(u)
    /\ run' = [run EXCEPT ![u] = IF now - last_failure[u] > reset_window_ms THEN 1 ELSE @ + 1]
    /\ last_failure' = [last_failure EXCEPT ![u] = now]
    /\ retry_at' = [retry_at EXCEPT ![u] = 0]
    /\ UNCHANGED now

ResetUid(u) ==
    /\ reset_uid(u)
    /\ run' = [run EXCEPT ![u] = 0]
    /\ retry_at' = [retry_at EXCEPT ![u] = 0]
    /\ UNCHANGED <<now, last_failure>>

ResetAll ==
    /\ reset_all
    /\ run' = [u \in Uids |-> 0]
    /\ retry_at' = [u \in Uids |-> 0]
    /\ UNCHANGED <<now, last_failure>>

Cleanup == cleanup_expired /\ UNCHANGED <<now, history>>

Clock == Tick /\ UNCHANGED <<attempts_, history>>

PolicyNext ==
    \/ \E u \in Uids : Check(u) \/ Success(u) \/ Failure(u) \/ ResetUid(u)
    \/ ResetAll
    \/ Cleanup
    \/ Clock

PolicySpec == PolicyInit /\ [][PolicyNext]_vars

-----------------------------------------------------------------------------

(* The policy: a uid may try unless its unbroken run of failures has reached
   the maximum and reset_window_ms have not passed since the last one. *)
PolicyAllows(u) ==
    run[u] < max_failures \/ now - last_failure[u] > reset_window_ms

(* Types of the entries and of the history. *)
PolicyTypeOK ==
    /\ TypeOK
    /\ run \in [Uids -> Nat]
    /\ last_failure \in [Uids -> Nat]
    /\ retry_at \in [Uids -> Int]

(* check_allowed never lets a caller through that the policy stops, whatever
   the order of checks, lazy resets, clean-ups and late failures. *)
NeverMoreLenient == \A u \in Uids : Allowed(u) => PolicyAllows(u)

(* No denial outlives reset_window_ms after the last failure: a check re-arms
   the lock-out of a uid at its maximum, but polling never postpones the end. *)
DenialEnds == \A u \in Uids : ~ Allowed(u) => now - last_failure[u] <= reset_window_ms

(* No failure of u counts any more: none is left, or the last one is too old. *)
Quiet(u) == run[u] = 0 \/ now - last_failure[u] > reset_window_ms

(* How the entry of u stands for u's history of failures. *)
EntryMatches(u) ==
    LET a == attempts_[u]
    IN  /\ last_failure[u] <= now
        /\ a = None => Quiet(u)
        /\ a # None /\ a.failed_count = 0 =>
              Quiet(u) /\ a.last_attempt_ms = 0 /\ a.lockout_until_ms = 0
        /\ a # None /\ a.failed_count > 0 =>
              /\ a.last_attempt_ms = last_failure[u]
              /\ last_failure[u] > 0
              /\ now - last_failure[u] <= reset_window_ms => run[u] <= a.failed_count

(* The lazily reset entries agree with the history: an entry that counts no
   failure belongs to a quiet uid, any other one remembers the last failure and,
   inside the window, counts at least the whole run.  This is the inductive
   invariant behind NeverMoreLenient and DenialEnds. *)
EntriesMatchHistory == \A u \in Uids : EntryMatches(u)

(* rate_limiter.h says retry_after_ms is the wait time: a uid that was denied,
   waits that long and has no failure meanwhile, is allowed. *)
RetryAfterHonoured ==
    \A u \in Uids : retry_at[u] # 0 /\ now >= retry_at[u] => Allowed(u)
=============================================================================
