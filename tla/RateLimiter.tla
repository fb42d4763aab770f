---------------------------- MODULE RateLimiter ----------------------------
(***************************************************************************)
(* The per-UID failure limiter of the daemon                               *)
(* (daemon/core/auth/rate_limiter.cpp).  Every public method runs under    *)
(* mutex_, so every method is one action; its return value is a parameter  *)
(* of the action.  Time is steady_clock in abstract units.                 *)
(***************************************************************************)
EXTENDS Integers

CONSTANTS
    Uids,                   \* callers, as Binder reports them
    None,                   \* no entry in attempts_ for the uid
    max_failures, initial_backoff_ms, max_backoff_ms, reset_window_ms,
    backoff_multiplier,     \* RateLimitConfig
    MaxTime,                \* bound: last instant of the clock
    MaxFailedCount          \* bound: failures recorded without a reset

VARIABLES attempts_, now

(* AuthAttempt; first_failure_ms is written and never read, so it is left out. *)
AuthAttempt ==
    [failed_count : Nat, last_attempt_ms : Nat, lockout_until_ms : Int]

ASSUME RateLimitConfig ==
    /\ max_failures \in Nat \ {0}
    /\ initial_backoff_ms \in Nat \ {0}
    /\ max_backoff_ms \in Nat \ {0}
    /\ reset_window_ms \in Nat \ {0}
    /\ backoff_multiplier \in Nat \ {0}
    /\ MaxTime \in Nat
    /\ MaxFailedCount \in Nat

ASSUME NoneIsNoAttempt == None \notin AuthAttempt

(* AuthAttempt::reset, and the value operator[] creates. *)
ResetAttempt == [failed_count |-> 0, last_attempt_ms |-> 0, lockout_until_ms |-> 0]

Init ==
    /\ attempts_ = [u \in Uids |-> None]
    /\ now = 1      \* steady_clock is past its epoch when the daemon starts

-----------------------------------------------------------------------------

calculate_backoff_ms(failure_count) ==
    LET backoff == initial_backoff_ms * backoff_multiplier ^ (failure_count - 1)
    IN  IF failure_count <= 0 THEN 0
        ELSE IF backoff <= max_backoff_ms THEN backoff ELSE max_backoff_ms

(* More than reset_window_ms have passed since the last recorded failure. *)
WindowPassed(a) == a.last_attempt_ms > 0 /\ now - a.last_attempt_ms > reset_window_ms

LockedOut(a) == a.lockout_until_ms > now

(* MUTANT of AtMaximum: one failure too many. *)
AboveMaximum(a) == ~ LockedOut(a) /\ a.failed_count > max_failures

(* The lock-out is over, but the uid is still at its maximum. *)
AtMaximum(a) == ~ LockedOut(a) /\ a.failed_count >= max_failures

(* RateLimitResult::allowed of a check made now. *)
Allowed(uid) ==
    LET a == attempts_[uid]
    IN  \/ a = None
        \/ a # None /\ WindowPassed(a)
        \/ a # None /\ ~ LockedOut(a) /\ ~ AtMaximum(a)

(* RateLimitResult::retry_after_ms of a check made now. *)
RetryAfter(uid) ==
    LET a == attempts_[uid]
    IN  IF Allowed(uid) THEN 0
        ELSE IF LockedOut(a) THEN a.lockout_until_ms - now
        ELSE calculate_backoff_ms(a.failed_count)

(* MUTANT of AfterCheck: the check counts as an attempt. *)
AfterCheckTouches(a) ==
    IF a = None THEN None
    ELSE IF WindowPassed(a) THEN ResetAttempt
    ELSE IF AtMaximum(a)
         THEN [a EXCEPT !.lockout_until_ms = now + calculate_backoff_ms(a.failed_count),
                        !.last_attempt_ms = now]
    ELSE a

(* The entry a check made now leaves behind. *)
AfterCheck(a) ==
    IF a = None THEN None
    ELSE IF WindowPassed(a) THEN ResetAttempt
    ELSE IF AtMaximum(a)
         THEN [a EXCEPT !.lockout_until_ms = now + calculate_backoff_ms(a.failed_count)]
    ELSE a

check_allowed(uid, allowed) ==
    /\ allowed = Allowed(uid)
    /\ attempts_' = [attempts_ EXCEPT ![uid] = AfterCheck(@)]

(* MUTANT of record_success: a success takes back one failure only. *)
RecordSuccessDecrements(uid) ==
    attempts_' = [attempts_ EXCEPT ![uid] =
        IF @ = None THEN None ELSE [@ EXCEPT !.failed_count = @ - 1]]

record_success(uid) ==
    attempts_' = [attempts_ EXCEPT ![uid] = IF @ = None THEN None ELSE ResetAttempt]

(* The entry record_failure leaves behind; operator[] creates a missing one. *)
AfterFailure(a) ==
    LET old   == IF a = None THEN ResetAttempt ELSE a
        count == old.failed_count + 1
    IN  [failed_count     |-> count,
         last_attempt_ms  |-> now,
         lockout_until_ms |-> IF count >= max_failures
                              THEN now + calculate_backoff_ms(count)
                              ELSE old.lockout_until_ms]

record_failure(uid) ==
    attempts_' = [attempts_ EXCEPT ![uid] = AfterFailure(@)]

(* BOUND: the limiter itself never refuses to count a failure. *)
FailureWithinBound(uid) ==
    attempts_[uid] # None => attempts_[uid].failed_count < MaxFailedCount

reset_uid(uid) == attempts_' = [attempts_ EXCEPT ![uid] = None]

reset_all == attempts_' = [u \in Uids |-> None]

(* MUTANT of cleanup_expired: an entry goes as soon as its lock-out is over. *)
CleanupByLockout ==
    attempts_' = [u \in Uids |->
        IF attempts_[u] # None /\ attempts_[u].lockout_until_ms < now
        THEN None ELSE attempts_[u]]

cleanup_expired ==
    attempts_' = [u \in Uids |->
        IF attempts_[u] # None /\ attempts_[u].last_attempt_ms < now - reset_window_ms
        THEN None ELSE attempts_[u]]

(* BOUND: the clock stops at MaxTime. *)
Tick == now < MaxTime /\ now' = now + 1

TypeOK ==
    /\ attempts_ \in [Uids -> AuthAttempt \cup {None}]
    /\ now \in Nat \ {0}
=============================================================================
