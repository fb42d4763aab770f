------------------------- MODULE RateLimiterProofs -------------------------
(***************************************************************************)
(* The rate limiter enforces its policy for every configuration, every set *)
(* of uids and every bound.  EntriesMatchHistory is the inductive          *)
(* invariant: the entry of a uid is reset lazily (by a later check or by   *)
(* the clean-up thread), so neither NeverMoreLenient nor DenialEnds is     *)
(* inductive by itself.                                                    *)
(***************************************************************************)
EXTENDS RateLimiterPolicy, TLAPS

(* calculate_backoff_ms yields a signed number of milliseconds. *)
LEMMA BackoffInt ==
    ASSUME NEW n \in Nat
    PROVE  calculate_backoff_ms(n) \in Int
<1>1. CASE n <= 0
  BY <1>1, RateLimitConfig DEF calculate_backoff_ms
<1>2. CASE n > 0
  <2>1. n - 1 \in Nat
    BY <1>2
  <2>2. backoff_multiplier ^ (n - 1) \in Int
    BY <2>1, RateLimitConfig
  <2>3. QED
    BY <1>2, <2>2, RateLimitConfig DEF calculate_backoff_ms
<1>3. QED
  BY <1>1, <1>2

(* The entries that check_allowed and record_failure leave are well typed. *)
LEMMA EntryTypes ==
    ASSUME NEW a \in AuthAttempt \cup {None}, now \in Nat
    PROVE  /\ AfterCheck(a) \in AuthAttempt \cup {None}
           /\ AfterFailure(a) \in AuthAttempt
           /\ ResetAttempt \in AuthAttempt
<1>1. ResetAttempt \in AuthAttempt
  BY DEF ResetAttempt, AuthAttempt
<1>2. AfterCheck(a) \in AuthAttempt \cup {None}
  <2>1. CASE a = None
    BY <2>1 DEF AfterCheck
  <2>2. CASE a # None
    <3>1. a \in AuthAttempt /\ a.failed_count \in Nat
      BY <2>2 DEF AuthAttempt
    <3>2. calculate_backoff_ms(a.failed_count) \in Int
      BY <3>1, BackoffInt
    <3>3. QED
      BY <1>1, <2>2, <3>1, <3>2 DEF AfterCheck, AuthAttempt
  <2>3. QED
    BY <2>1, <2>2
<1>3. AfterFailure(a) \in AuthAttempt
  <2> DEFINE old == IF a = None THEN ResetAttempt ELSE a
  <2>1. old \in AuthAttempt
    BY <1>1
  <2>2. old.failed_count + 1 \in Nat
    BY <2>1 DEF AuthAttempt
  <2>3. calculate_backoff_ms(old.failed_count + 1) \in Int
    BY <2>2, BackoffInt
  <2>4. QED
    BY <2>1, <2>2, <2>3 DEF AfterFailure, AuthAttempt
<1>4. QED
  BY <1>1, <1>2, <1>3
-----------------------------------------------------------------------------

(* Every entry and every history variable keeps its type. *)
THEOREM PolicyTypeCorrect == PolicySpec => []PolicyTypeOK
<1>1. PolicyInit => PolicyTypeOK
  BY DEF PolicyInit, Init, PolicyTypeOK, TypeOK
<1>2. PolicyTypeOK /\ [PolicyNext]_vars => PolicyTypeOK'
  <2> SUFFICES ASSUME PolicyTypeOK, [PolicyNext]_vars
               PROVE  PolicyTypeOK'
    OBVIOUS
  <2> USE RateLimitConfig DEF PolicyTypeOK, TypeOK
  <2>1. ASSUME NEW u \in Uids, Check(u) PROVE PolicyTypeOK'
    <3>1. attempts_[u] \in AuthAttempt \cup {None} /\ now \in Nat
      OBVIOUS
    <3>2. AfterCheck(attempts_[u]) \in AuthAttempt \cup {None}
      BY <3>1, EntryTypes
    <3>3. attempts_' \in [Uids -> AuthAttempt \cup {None}]
      BY <2>1, <3>2 DEF Check, check_allowed
    <3>4. RetryAfter(u) \in Int
      <4>1. CASE Allowed(u)
        BY <4>1 DEF RetryAfter
      <4>2. CASE ~ Allowed(u)
        <5>1. attempts_[u] \in AuthAttempt
          BY <3>1, <4>2 DEF Allowed
        <5>2. /\ attempts_[u].failed_count \in Nat
              /\ attempts_[u].lockout_until_ms \in Int
          BY <5>1 DEF AuthAttempt
        <5>3. calculate_backoff_ms(attempts_[u].failed_count) \in Int
          BY <5>2, BackoffInt
        <5>4. QED
          BY <3>1, <4>2, <5>2, <5>3 DEF RetryAfter
      <4>3. QED
        BY <4>1, <4>2
    <3>5. retry_at' \in [Uids -> Int]
      BY <2>1, <3>4 DEF Check
    <3>6. QED
      BY <2>1, <3>3, <3>5 DEF Check
  <2>2. ASSUME NEW u \in Uids, Success(u) PROVE PolicyTypeOK'
    <3>1. ResetAttempt \in AuthAttempt
      BY DEF ResetAttempt, AuthAttempt
    <3>2. attempts_' \in [Uids -> AuthAttempt \cup {None}]
      BY <2>2, <3>1 DEF Success, record_success
    <3>3. run' \in [Uids -> Nat] /\ retry_at' \in [Uids -> Int]
      BY <2>2 DEF Success
    <3>4. now' = now /\ last_failure' = last_failure
      BY <2>2 DEF Success
    <3>5. QED
      BY <3>2, <3>3, <3>4
  <2>3. ASSUME NEW u \in Uids, Failure(u) PROVE PolicyTypeOK'
    <3>1. AfterFailure(attempts_[u]) \in AuthAttempt
      BY EntryTypes
    <3>2. QED
      BY <2>3, <3>1 DEF Failure, record_failure
  <2>4. ASSUME NEW u \in Uids, ResetUid(u) PROVE PolicyTypeOK'
    BY <2>4 DEF ResetUid, reset_uid
  <2>5. CASE ResetAll
    BY <2>5 DEF ResetAll, reset_all
  <2>6. CASE Cleanup
    BY <2>6 DEF Cleanup, cleanup_expired, history
  <2>7. CASE Clock
    BY <2>7 DEF Clock, Tick, history
  <2>8. CASE UNCHANGED vars
    BY <2>8 DEF vars
  <2>9. QED
    BY <2>1, <2>2, <2>3, <2>4, <2>5, <2>6, <2>7, <2>8 DEF PolicyNext
<1>3. QED
  BY <1>1, <1>2, PTL DEF PolicySpec

(* The entries agree with the history of failures in every reachable state. *)
THEOREM EntriesMatchHistoryInvariant == PolicySpec => []EntriesMatchHistory
<1>1. PolicyInit => EntriesMatchHistory
  <2> SUFFICES ASSUME PolicyInit, NEW u \in Uids
               PROVE  EntryMatches(u)
    BY Zenon DEF EntriesMatchHistory
  <2>1. attempts_[u] = None /\ run[u] = 0 /\ last_failure[u] = 0 /\ now = 1
    BY DEF PolicyInit, Init
  <2>2. QED
    BY <2>1 DEF EntryMatches, Quiet
<1>2. PolicyTypeOK /\ EntriesMatchHistory /\ [PolicyNext]_vars => EntriesMatchHistory'
  <2> SUFFICES ASSUME PolicyTypeOK, EntriesMatchHistory, [PolicyNext]_vars,
                      NEW v \in Uids
               PROVE  EntryMatches(v)'
    BY DEF EntriesMatchHistory
  <2>a. EntryMatches(v)
    BY DEF EntriesMatchHistory
  <2>t. /\ now \in Nat /\ now > 0
        /\ attempts_[v] \in AuthAttempt \cup {None}
        /\ run[v] \in Nat /\ last_failure[v] \in Nat
    BY DEF PolicyTypeOK, TypeOK
  <2>r. /\ ResetAttempt # None
        /\ ResetAttempt.failed_count = 0
        /\ ResetAttempt.last_attempt_ms = 0
        /\ ResetAttempt.lockout_until_ms = 0
    BY NoneIsNoAttempt, EntryTypes, <2>t DEF ResetAttempt
  <2>o. ASSUME attempts_'[v] = attempts_[v], run'[v] = run[v],
               last_failure'[v] = last_failure[v], now' \in Nat, now' >= now
        PROVE  EntryMatches(v)'
    BY <2>a, <2>t, <2>o, RateLimitConfig DEF EntryMatches, Quiet
  <2>q. ASSUME attempts_'[v] \in {None, ResetAttempt}, Quiet(v)',
               last_failure'[v] = last_failure[v], now' = now
        PROVE  EntryMatches(v)'
    BY <2>a, <2>t, <2>r, <2>q DEF EntryMatches
  <2>1. ASSUME NEW u \in Uids, Check(u) PROVE EntryMatches(v)'
    <3>1. CASE AfterCheck(attempts_[u]) = attempts_[u] \/ u # v
      <4>1. attempts_'[v] = attempts_[v]
        BY <2>1, <3>1 DEF Check, check_allowed, PolicyTypeOK, TypeOK
      <4>2. QED
        BY <2>1, <2>o, <2>t, <4>1 DEF Check
    <3>2. CASE u = v /\ attempts_[v] # None /\ WindowPassed(attempts_[v])
      <4>1. attempts_'[v] = ResetAttempt
        BY <2>1, <3>2 DEF Check, check_allowed, AfterCheck, PolicyTypeOK, TypeOK
      <4>2. Quiet(v)
        <5>1. attempts_[v].failed_count \in Nat /\ attempts_[v].last_attempt_ms \in Nat
          BY <2>t, <3>2 DEF AuthAttempt
        <5>2. QED
          BY <2>a, <2>t, <3>2, <5>1, RateLimitConfig DEF EntryMatches, WindowPassed, Quiet
      <4>3. QED
        BY <2>1, <2>q, <4>1, <4>2 DEF Check, Quiet
    <3>3. CASE /\ u = v /\ attempts_[v] # None /\ ~ WindowPassed(attempts_[v])
               /\ AtMaximum(attempts_[v])
      <4>1. /\ attempts_[v] \in AuthAttempt
            /\ attempts_[v].failed_count \in Nat
            /\ attempts_[v].failed_count > 0
        BY <2>t, <3>3, RateLimitConfig DEF AtMaximum, AuthAttempt
      <4>2. attempts_'[v] = [attempts_[v] EXCEPT
                !.lockout_until_ms = now + calculate_backoff_ms(attempts_[v].failed_count)]
        BY <2>1, <3>3 DEF Check, check_allowed, AfterCheck, PolicyTypeOK, TypeOK
      <4>3. /\ attempts_'[v].failed_count = attempts_[v].failed_count
            /\ attempts_'[v].last_attempt_ms = attempts_[v].last_attempt_ms
            /\ attempts_'[v] # None
        <5>1. calculate_backoff_ms(attempts_[v].failed_count) \in Int
          BY <4>1, BackoffInt
        <5>2. QED
          BY <2>t, <4>1, <4>2, <5>1, NoneIsNoAttempt DEF AuthAttempt
      <4>4. QED
        BY <2>1, <2>a, <2>t, <3>3, <4>1, <4>3 DEF Check, EntryMatches, Quiet
    <3>4. QED
      BY <3>1, <3>2, <3>3 DEF AfterCheck
  <2>2. ASSUME NEW u \in Uids, Success(u) PROVE EntryMatches(v)'
    <3>1. CASE u # v
      BY <2>2, <2>o, <2>t, <3>1 DEF Success, record_success, PolicyTypeOK, TypeOK
    <3>2. CASE u = v
      BY <2>2, <2>q, <3>2 DEF Success, record_success, PolicyTypeOK, TypeOK, Quiet
    <3>3. QED
      BY <3>1, <3>2
  <2>3. ASSUME NEW u \in Uids, Failure(u) PROVE EntryMatches(v)'
    <3>1. CASE u # v
      BY <2>3, <2>o, <2>t, <3>1 DEF Failure, record_failure, PolicyTypeOK, TypeOK
    <3>2. CASE u = v
      <4> DEFINE old == IF attempts_[v] = None THEN ResetAttempt ELSE attempts_[v]
      <4>1. old.failed_count \in Nat
        BY <2>t, <2>r DEF AuthAttempt
      <4>2. now - last_failure[v] <= reset_window_ms => run[v] <= old.failed_count
        BY <2>a, <2>t, <2>r, <4>1, RateLimitConfig DEF EntryMatches, Quiet
      <4>3. attempts_'[v] = AfterFailure(attempts_[v])
        BY <2>3, <3>2 DEF Failure, record_failure, PolicyTypeOK, TypeOK
      <4>4. /\ attempts_'[v] # None
            /\ attempts_'[v].failed_count = old.failed_count + 1
            /\ attempts_'[v].last_attempt_ms = now
        BY <2>t, <4>3, EntryTypes, NoneIsNoAttempt DEF AfterFailure
      <4>5. /\ now' = now /\ last_failure'[v] = now
            /\ run'[v] = IF now - last_failure[v] > reset_window_ms THEN 1 ELSE run[v] + 1
        BY <2>3, <3>2 DEF Failure, PolicyTypeOK, TypeOK
      <4>6. run'[v] <= old.failed_count + 1
        BY <2>t, <4>1, <4>2, <4>5, RateLimitConfig
      <4>7. QED
        BY <2>t, <4>1, <4>4, <4>5, <4>6 DEF EntryMatches
    <3>3. QED
      BY <3>1, <3>2
  <2>4. ASSUME NEW u \in Uids, ResetUid(u) PROVE EntryMatches(v)'
    <3>1. CASE u # v
      BY <2>4, <2>o, <2>t, <3>1 DEF ResetUid, reset_uid, PolicyTypeOK, TypeOK
    <3>2. CASE u = v
      BY <2>4, <2>q, <3>2 DEF ResetUid, reset_uid, PolicyTypeOK, TypeOK, Quiet
    <3>3. QED
      BY <3>1, <3>2
  <2>5. CASE ResetAll
    BY <2>5, <2>q DEF ResetAll, reset_all, Quiet
  <2>6. CASE Cleanup
    <3>1. now' = now /\ run' = run /\ last_failure' = last_failure
      BY <2>6 DEF Cleanup, history
    <3>2. CASE attempts_'[v] = attempts_[v]
      BY <2>o, <2>t, <3>1, <3>2
    <3>3. CASE /\ attempts_[v] # None /\ attempts_'[v] = None
               /\ attempts_[v].last_attempt_ms < now - reset_window_ms
      <4>1. Quiet(v)
        BY <2>a, <2>t, <3>3, RateLimitConfig DEF EntryMatches, Quiet, AuthAttempt
      <4>2. QED
        BY <2>q, <3>1, <3>3, <4>1 DEF Quiet
    <3>4. QED
      BY <2>6, <3>2, <3>3 DEF Cleanup, cleanup_expired
  <2>7. CASE Clock
    BY <2>7, <2>o, <2>t DEF Clock, Tick, history
  <2>8. CASE UNCHANGED vars
    BY <2>8, <2>o, <2>t DEF vars
  <2>9. QED
    BY <2>1, <2>2, <2>3, <2>4, <2>5, <2>6, <2>7, <2>8 DEF PolicyNext
<1>3. QED
  BY <1>1, <1>2, PolicyTypeCorrect, PTL DEF PolicySpec

(* The invariant and the types give both properties, state by state. *)
LEMMA EntryDecides ==
    ASSUME PolicyTypeOK, EntriesMatchHistory
    PROVE  NeverMoreLenient /\ DenialEnds
<1> SUFFICES ASSUME NEW u \in Uids
             PROVE  /\ Allowed(u) => PolicyAllows(u)
                    /\ ~ Allowed(u) => now - last_failure[u] <= reset_window_ms
  BY DEF NeverMoreLenient, DenialEnds
<1> USE RateLimitConfig
<1>1. EntryMatches(u)
  BY DEF EntriesMatchHistory
<1>2. /\ now \in Nat
      /\ attempts_[u] \in AuthAttempt \cup {None}
      /\ run[u] \in Nat /\ last_failure[u] \in Nat
  BY DEF PolicyTypeOK, TypeOK
<1>3. Quiet(u) => PolicyAllows(u)
  BY <1>2 DEF Quiet, PolicyAllows
<1>4. CASE attempts_[u] = None
  BY <1>1, <1>3, <1>4 DEF EntryMatches, Allowed
<1>5. CASE attempts_[u] # None
  <2>1. /\ attempts_[u].failed_count \in Nat
        /\ attempts_[u].last_attempt_ms \in Nat
        /\ attempts_[u].lockout_until_ms \in Int
    BY <1>2, <1>5 DEF AuthAttempt
  <2>2. CASE attempts_[u].failed_count = 0
    BY <1>1, <1>2, <1>3, <1>5, <2>1, <2>2
    DEF EntryMatches, Allowed, WindowPassed, LockedOut, AtMaximum
  <2>3. CASE attempts_[u].failed_count > 0
    BY <1>1, <1>2, <1>5, <2>1, <2>3
    DEF EntryMatches, Allowed, WindowPassed, LockedOut, AtMaximum, PolicyAllows
  <2>4. QED
    BY <2>1, <2>2, <2>3
<1>6. QED
  BY <1>4, <1>5

(* check_allowed never lets a caller through that the policy stops. *)
THEOREM LimiterNeverMoreLenient == PolicySpec => []NeverMoreLenient
BY PolicyTypeCorrect, EntriesMatchHistoryInvariant, EntryDecides, PTL

(* No denial outlives the reset window after the last failure. *)
THEOREM LimiterDenialEnds == PolicySpec => []DenialEnds
BY PolicyTypeCorrect, EntriesMatchHistoryInvariant, EntryDecides, PTL
=============================================================================
