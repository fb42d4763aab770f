------------------------- MODULE AuthManagerProofs -------------------------
(***************************************************************************)
(* Admission and rate limiting of the composed authentication core, for    *)
(* every number of Binder threads, uids, timeouts and limits.              *)
(***************************************************************************)
EXTENDS AuthManager, FiniteSetTheorems, TLAPS

(* The entries the limiter leaves behind are well typed. *)
LEMMA EntryTypes ==
    ASSUME NEW a \in RL!AuthAttempt \cup {None}, now \in Nat
    PROVE  /\ RL!AfterCheck(a) \in RL!AuthAttempt \cup {None}
           /\ RL!AfterFailure(a) \in RL!AuthAttempt
           /\ RL!ResetAttempt \in RL!AuthAttempt
<1>0. ASSUME NEW n \in Nat PROVE RL!calculate_backoff_ms(n) \in Int
  <2>1. CASE n <= 0
    BY <2>1, AuthConfig DEF RL!calculate_backoff_ms
  <2>2. CASE n > 0
    <3>1. backoff_multiplier ^ (n - 1) \in Int
      <4>1. n - 1 \in Nat
        BY <2>2
      <4>2. QED
        BY <4>1, AuthConfig
    <3>2. QED
      BY <2>2, <3>1, AuthConfig DEF RL!calculate_backoff_ms
  <2>3. QED
    BY <2>1, <2>2
<1>1. RL!ResetAttempt \in RL!AuthAttempt
  BY DEF RL!ResetAttempt, RL!AuthAttempt
<1>2. RL!AfterCheck(a) \in RL!AuthAttempt \cup {None}
  <2>1. CASE a = None
    BY <2>1 DEF RL!AfterCheck
  <2>2. CASE a # None
    <3>1. a \in RL!AuthAttempt /\ a.failed_count \in Nat
      BY <2>2 DEF RL!AuthAttempt
    <3>2. RL!calculate_backoff_ms(a.failed_count) \in Int
      BY <1>0, <3>1
    <3>3. QED
      BY <1>1, <2>2, <3>1, <3>2 DEF RL!AfterCheck, RL!AuthAttempt
  <2>3. QED
    BY <2>1, <2>2
<1>3. RL!AfterFailure(a) \in RL!AuthAttempt
  <2> DEFINE old == IF a = None THEN RL!ResetAttempt ELSE a
  <2>1. old \in RL!AuthAttempt
    BY <1>1
  <2>2. old.failed_count + 1 \in Nat
    BY <2>1 DEF RL!AuthAttempt
  <2>3. RL!calculate_backoff_ms(old.failed_count + 1) \in Int
    BY <1>0, <2>2
  <2>4. QED
    BY <2>1, <2>2, <2>3 DEF RL!AfterFailure, RL!AuthAttempt
<1>4. QED
  BY <1>1, <1>2, <1>3

AttemptsOK == attempts_ \in [Uids -> RL!AuthAttempt \cup {None}]

(* The calls the limiter gets keep its entries well typed. *)
LEMMA LimiterTypes ==
    ASSUME AttemptsOK, now \in Nat, NEW u \in Uids
    PROVE  /\ \A ok : RL!check_allowed(u, ok) => AttemptsOK'
           /\ RL!record_success(u) => AttemptsOK'
           /\ RL!record_failure(u) => AttemptsOK'
           /\ RL!cleanup_expired => AttemptsOK'
<1>0. attempts_[u] \in RL!AuthAttempt \cup {None}
  BY DEF AttemptsOK
<1>1. /\ RL!AfterCheck(attempts_[u]) \in RL!AuthAttempt \cup {None}
      /\ RL!AfterFailure(attempts_[u]) \in RL!AuthAttempt
      /\ RL!ResetAttempt \in RL!AuthAttempt
  BY <1>0, EntryTypes
<1>2. ASSUME NEW ok, RL!check_allowed(u, ok) PROVE AttemptsOK'
  BY <1>1, <1>2 DEF RL!check_allowed, AttemptsOK
<1>3. ASSUME RL!record_success(u) PROVE AttemptsOK'
  BY <1>1, <1>3 DEF RL!record_success, AttemptsOK
<1>4. ASSUME RL!record_failure(u) PROVE AttemptsOK'
  BY <1>1, <1>4 DEF RL!record_failure, AttemptsOK
<1>5. ASSUME RL!cleanup_expired PROVE AttemptsOK'
  BY <1>5 DEF RL!cleanup_expired, AttemptsOK
<1>6. QED
  BY <1>2, <1>3, <1>4, <1>5

-----------------------------------------------------------------------------

(* A thread state r that may stand in thread[t]. *)
GoodState(r) ==
    /\ r \in ThreadState
    /\ r.pc # "idle" => r.uid \in Uids
    /\ r.pc \in InstanceSteps => r.iid \in InstanceIds /\ r.iid[1] = r.uid

ThreadsOK ==
    /\ thread \in [Threads -> ThreadState]
    /\ \A t \in Threads : GoodState(thread[t])

(* A step of t that replaces its state by a good one keeps the threads good. *)
LEMMA ThreadUpdate ==
    ASSUME ThreadsOK, NEW t \in Threads, NEW r, GoodState(r),
           thread' = [thread EXCEPT ![t] = r]
    PROVE  ThreadsOK' /\ thread'[t] = r /\ \A s \in Threads \ {t} : thread'[s] = thread[s]
BY DEF ThreadsOK, GoodState

(* Goto moves one thread to another step and keeps its locals. *)
LEMMA GotoUpdate ==
    ASSUME ThreadsOK, NEW t \in Threads, NEW x \in Steps, Goto(t, x),
           x # "idle" => thread[t].uid \in Uids,
           x \in InstanceSteps => thread[t].iid \in InstanceIds /\ thread[t].iid[1] = thread[t].uid
    PROVE  /\ ThreadsOK'
           /\ thread'[t] = [thread[t] EXCEPT !.pc = x]
           /\ \A s \in Threads \ {t} : thread'[s] = thread[s]
<1> DEFINE r == [thread[t] EXCEPT !.pc = x]
<1>0. thread[t] \in ThreadState
  BY DEF ThreadsOK
<1>1. /\ r \in ThreadState /\ r.pc = x
      /\ r.uid = thread[t].uid /\ r.iid = thread[t].iid
  BY <1>0 DEF ThreadState
<1>2. GoodState(r)
  BY <1>1 DEF GoodState
<1>3. thread' = [thread EXCEPT ![t] = r]
  BY DEF Goto
<1>4. QED
  BY Zenon, <1>2, <1>3, ThreadUpdate

(* Return makes one thread idle. *)
LEMMA ReturnUpdate ==
    ASSUME ThreadsOK, NEW t \in Threads, Return(t)
    PROVE  /\ ThreadsOK'
           /\ thread'[t] = IdleThread
           /\ \A s \in Threads \ {t} : thread'[s] = thread[s]
<1>1. GoodState(IdleThread)
  BY DEF GoodState, IdleThread, ThreadState, Steps, InstanceSteps, AuthSteps
<1>2. QED
  BY Zenon, <1>1, ThreadUpdate DEF Return

(* An arriving call starts from the caller's arguments. *)
LEMMA StartUpdate ==
    ASSUME ThreadsOK, NEW t \in Threads, NEW x \in Steps, NEW u \in Uids,
           NEW i \in InstanceIds \cup {None}, NEW c \in Nat,
           x \in InstanceSteps => i \in InstanceIds /\ i[1] = u,
           Start(t, x, u, i, c)
    PROVE  /\ ThreadsOK'
           /\ thread'[t].pc = x
           /\ thread[t].pc = "idle"
           /\ \A s \in Threads \ {t} : thread'[s] = thread[s]
<1> DEFINE r == [pc |-> x, uid |-> u, iid |-> i,
                signature |-> c, challenge |-> 0, seen |-> 0]
<1>1. r \in ThreadState /\ r.pc = x /\ r.uid = u /\ r.iid = i
  BY DEF ThreadState
<1>2. thread' = [thread EXCEPT ![t] = r] /\ thread[t].pc = "idle"
  BY DEF Start, At
<1> HIDE DEF r
<1>3. GoodState(r)
  BY <1>1 DEF GoodState
<1>4. QED
  BY Zenon, <1>1, <1>2, <1>3, ThreadUpdate

-----------------------------------------------------------------------------

SessionOK ==
    /\ initialized_ \in BOOLEAN
    /\ active_session_ \in SM!Session \cup {None}
    /\ active_session_ # None =>
          /\ active_session_.last_activity_ms <= now
          /\ active_session_.instance_id[1] = active_session_.client_uid

ChallengesOK ==
    /\ pending_challenges_ \in [Uids -> SM!PendingChallenge \cup {None}]
    /\ generated \in Nat
    /\ received \in [Uids -> Nat]

ClockOK == now \in Nat \ {0}

(* The four things a call can do to the session: leave it, drop it once it has
   expired, refresh it, or replace an absent or expired one by a new one. *)
SessionDropped ==
    /\ active_session_ # None
    /\ SM!SessionExpired(active_session_)
    /\ active_session_' = None
SessionTouched ==
    /\ active_session_ # None
    /\ active_session_' = SM!Touched(active_session_)
SessionReplaced ==
    /\ active_session_ # None => SM!SessionExpired(active_session_)
    /\ \E u \in Uids, i \in InstanceIds :
          /\ i[1] = u
          /\ active_session_' = [instance_id |-> i, client_uid |-> u,
                                 created_at_ms |-> now, last_activity_ms |-> now]
SessionEffect ==
    /\ initialized_' = initialized_
    /\ now' = now
    /\ \/ active_session_' = active_session_
       \/ SessionDropped
       \/ SessionTouched
       \/ SessionReplaced

(* Whatever a call does, the session stays well formed. *)
LEMMA EffectSessionOK ==
    ASSUME SessionOK, ClockOK, SessionEffect
    PROVE  SessionOK' /\ ClockOK'
<1>0. NoneIsNoValue /\ now \in Nat /\ now' = now
  BY NoneIsNoValue DEF ClockOK, SessionEffect
<1>1. CASE active_session_' = active_session_
  BY <1>0, <1>1 DEF SessionOK, ClockOK, SessionEffect
<1>2. CASE SessionDropped
  BY <1>0, <1>2 DEF SessionOK, ClockOK, SessionEffect, SessionDropped
<1>3. CASE SessionTouched
  <2>1. active_session_ \in SM!Session
    BY <1>3 DEF SessionTouched, SessionOK
  <2>2. /\ active_session_' \in SM!Session
        /\ active_session_'.last_activity_ms = now
        /\ active_session_'.instance_id = active_session_.instance_id
        /\ active_session_'.client_uid = active_session_.client_uid
    BY <1>0, <1>3, <2>1 DEF SessionTouched, SM!Touched, SM!Session
  <2>3. QED
    BY <1>0, <1>3, <2>1, <2>2 DEF SessionOK, ClockOK, SessionEffect, SessionTouched
<1>4. CASE SessionReplaced
  <2>1. PICK u \in Uids, i \in InstanceIds :
          /\ i[1] = u
          /\ active_session_' = [instance_id |-> i, client_uid |-> u,
                                 created_at_ms |-> now, last_activity_ms |-> now]
    BY <1>4 DEF SessionReplaced
  <2>2. /\ active_session_' \in SM!Session
        /\ active_session_'.last_activity_ms = now
        /\ active_session_'.instance_id[1] = active_session_'.client_uid
    BY <1>0, <2>1 DEF SM!Session
  <2>3. QED
    BY <1>0, <2>2 DEF SessionOK, ClockOK, SessionEffect
<1>5. QED
  BY <1>1, <1>2, <1>3, <1>4 DEF SessionEffect

(* Each call of the session manager has one of these effects. *)
LEMMA CallEffect ==
    ASSUME SessionOK, ClockOK, now' = now,
           NEW u \in Uids, NEW i \in InstanceIds, i[1] = u
    PROVE  /\ \A ok : SM!create_session(i, u, ok) => SessionEffect
           /\ \A ok : SM!validate_session(i, u, ok) => SessionEffect
           /\ SM!update_activity(i) => SessionEffect
           /\ \A own : SM!check_session(i, u, own) => SessionEffect
           /\ SM!cleanup_expired => SessionEffect
<1>1. ASSUME NEW ok, SM!create_session(i, u, ok) PROVE SessionEffect
  BY <1>1 DEF SM!create_session, SM!OwnInstance, SessionEffect, SessionTouched, SessionReplaced
<1>2. ASSUME NEW ok, SM!validate_session(i, u, ok) PROVE SessionEffect
  <2>1. active_session_' = active_session_ \/ SessionDropped
    BY Zenon, <1>2 DEF SM!validate_session, SM!OwnInstance, SessionDropped
  <2>2. QED
    BY <1>2, <2>1 DEF SM!validate_session, SessionEffect
<1>3. ASSUME SM!update_activity(i) PROVE SessionEffect
  BY <1>3 DEF SM!update_activity, SM!OwnInstance, SessionEffect, SessionTouched
<1>4. ASSUME active_session_' = SM!get_active_session
      PROVE  active_session_' = active_session_ \/ SessionDropped
  BY <1>4 DEF SM!get_active_session, SM!Live, SessionDropped
<1>5. ASSUME NEW own, SM!check_session(i, u, own) PROVE SessionEffect
  BY <1>4, <1>5 DEF SM!check_session, SessionEffect
<1>6. ASSUME SM!cleanup_expired PROVE SessionEffect
  BY <1>4, <1>6 DEF SM!cleanup_expired, SessionEffect
<1>7. QED
  BY <1>1, <1>2, <1>3, <1>5, <1>6

-----------------------------------------------------------------------------

Admission(t) == Admitted(t) => OwnsSession(t) \/ TimedOut(t)

(* A thread that is not taking the step keeps what it was told: a call drops or
   replaces only an expired session, and one that expired after the thread saw
   it has the thread timed out too. *)
LEMMA EffectAdmission ==
    ASSUME ThreadsOK, SessionOK, ClockOK, SessionEffect,
           NEW s \in Threads, thread'[s] = thread[s], Admission(s)
    PROVE  Admission(s)'
<1>0. thread[s].seen \in Nat /\ now \in Nat /\ now' = now /\ SESSION_TIMEOUT_MS \in Nat
  BY AuthConfig DEF ThreadsOK, ThreadState, ClockOK, SessionEffect
<1>1. CASE ~ Admitted(s)
  BY <1>1 DEF Admission, Admitted
<1>2. CASE TimedOut(s)
  BY <1>0, <1>2 DEF Admission, TimedOut
<1>3. CASE OwnsSession(s)
  <2>1. /\ active_session_ \in SM!Session
        /\ active_session_.last_activity_ms \in Nat
        /\ active_session_.last_activity_ms <= now
        /\ active_session_.last_activity_ms >= thread[s].seen
    BY <1>3 DEF OwnsSession, SessionOK, SM!Session
  <2>2. CASE active_session_' = active_session_
    BY <1>0, <1>3, <2>2 DEF Admission, OwnsSession
  <2>3. CASE SM!SessionExpired(active_session_)
    BY <1>0, <2>1, <2>3 DEF Admission, TimedOut, SM!SessionExpired
  <2>4. CASE SessionTouched
    <3>1. /\ active_session_'.last_activity_ms = now
          /\ active_session_'.instance_id = active_session_.instance_id
          /\ active_session_'.client_uid = active_session_.client_uid
          /\ active_session_' \in SM!Session
      BY <1>0, <2>1, <2>4 DEF SessionTouched, SM!Touched, SM!Session
    <3>2. active_session_' # None
      BY <3>1, NoneIsNoValue
    <3>3. QED
      BY <1>0, <1>3, <2>1, <3>1, <3>2 DEF Admission, OwnsSession
  <2>5. QED
    BY <1>3, <2>2, <2>3, <2>4 DEF SessionEffect, SessionDropped, SessionReplaced, OwnsSession
<1>4. QED
  BY <1>1, <1>2, <1>3 DEF Admission

(* What a step of thread t leaves: the threads well formed and the others where
   they were, a session effect, and t itself rightly admitted. *)
Moved(t) ==
    /\ SessionEffect
    /\ ThreadsOK'
    /\ \A s \in Threads \ {t} : thread'[s] = thread[s]
    /\ Admission(t)'

(* An arriving call admits nobody. *)
LEMMA ArriveMoves ==
    ASSUME ThreadsOK, ChallengesOK, NEW t \in Threads, Arrive(t)
    PROVE  Moved(t)
<1>1. ASSUME NEW x \in {"challenge_caller", "auth_caller", "api_caller"}, NEW u \in Uids,
             NEW i \in InstanceIds \cup {None}, NEW c \in Nat, Start(t, x, u, i, c),
             x \in InstanceSteps => i \in InstanceIds /\ i[1] = u
      PROVE  Moved(t)
  <2>1. x \in Steps
    BY DEF Steps
  <2>2. /\ ThreadsOK' /\ thread'[t].pc = x
        /\ \A s \in Threads \ {t} : thread'[s] = thread[s]
    BY <1>1, <2>1, StartUpdate
  <2>3. Admission(t)'
    BY <2>2 DEF Admission, Admitted
  <2>4. SessionEffect
    BY <1>1 DEF Start, session_state, SessionEffect
  <2>5. QED
    BY <2>2, <2>3, <2>4 DEF Moved
<1>2. PICK u \in Uids : \/ getChallenge(t, u)
                        \/ \E g \in Generations : authenticate(t, u, <<u, g>>)
                        \/ ApiCall(t, u)
  BY SMTT(40) DEF Arrive
<1>3. CASE getChallenge(t, u)
  <2>1. "challenge_caller" \notin InstanceSteps
    BY DEF InstanceSteps, AuthSteps
  <2>2. QED
    BY <1>1, <1>3, <2>1 DEF getChallenge
<1>4. CASE ApiCall(t, u)
  <2>1. "api_caller" \notin InstanceSteps
    BY DEF InstanceSteps, AuthSteps
  <2>2. QED
    BY <1>1, <1>4, <2>1 DEF ApiCall
<1>5. ASSUME NEW g \in Generations, authenticate(t, u, <<u, g>>) PROVE Moved(t)
  <2>1. PICK c \in {0, received[u]} : Start(t, "auth_caller", u, <<u, g>>, c)
    BY <1>5 DEF authenticate
  <2>2. c \in Nat /\ <<u, g>> \in InstanceIds /\ <<u, g>>[1] = u
    BY DEF ChallengesOK, InstanceIds
  <2>3. QED
    BY <1>1, <2>1, <2>2
<1>6. QED
  BY Zenon, <1>2, <1>3, <1>4, <1>5

(* Returning, or moving on to a step that admits nobody. *)
LEMMA QuietMoves ==
    ASSUME ThreadsOK, NEW t \in Threads, SessionEffect
    PROVE  /\ Return(t) => Moved(t)
           /\ \A x \in Steps :
                 /\ Goto(t, x)
                 /\ thread[t].pc # "idle"
                 /\ x \in InstanceSteps => thread[t].pc \in InstanceSteps
                 /\ x \notin {"auth_record", "auth_reply", "api_update", "api_run"}
                 => Moved(t)
<1>1. ASSUME Return(t) PROVE Moved(t)
  <2>1. /\ ThreadsOK' /\ thread'[t] = IdleThread
        /\ \A s \in Threads \ {t} : thread'[s] = thread[s]
    BY <1>1, ReturnUpdate
  <2>2. Admission(t)'
    BY <2>1 DEF Admission, Admitted, IdleThread
  <2>3. QED
    BY <2>1, <2>2 DEF Moved
<1>2. ASSUME NEW x \in Steps, Goto(t, x), thread[t].pc # "idle",
             x \in InstanceSteps => thread[t].pc \in InstanceSteps,
             x \notin {"auth_record", "auth_reply", "api_update", "api_run"}
      PROVE  Moved(t)
  <2>1. /\ thread[t].uid \in Uids
        /\ x \in InstanceSteps => thread[t].iid \in InstanceIds /\ thread[t].iid[1] = thread[t].uid
    BY <1>2 DEF ThreadsOK, GoodState
  <2>2. /\ ThreadsOK' /\ thread'[t] = [thread[t] EXCEPT !.pc = x]
        /\ \A s \in Threads \ {t} : thread'[s] = thread[s]
    BY <1>2, <2>1, GotoUpdate
  <2>3. thread[t] \in ThreadState
    BY DEF ThreadsOK
  <2>4. thread'[t].pc = x
    BY <2>2, <2>3 DEF ThreadState
  <2>5. Admission(t)'
    BY <1>2, <2>4 DEF Admission, Admitted
  <2>6. QED
    BY <2>2, <2>5 DEF Moved
<1>3. QED
  BY <1>1, <1>2

(* The steps that leave the session alone and admit nobody. *)
LEMMA CheckMoves ==
    ASSUME ThreadsOK, NEW t \in Threads,
           NEW x \in {"challenge_caller", "auth_caller", "auth_rate", "api_caller"},
           NEW y \in {"challenge_create", "auth_rate", "auth_read", "api_get"},
           y \in InstanceSteps => x \in InstanceSteps,
           check_caller_allowed(t, x, y)
    PROVE  Moved(t)
<1>1. SessionEffect /\ thread[t].pc = x /\ y \in Steps
  BY DEF check_caller_allowed, At, session_state, SessionEffect, Steps, AuthSteps
<1>2. Goto(t, y) \/ Return(t)
  BY DEF check_caller_allowed
<1>3. QED
  BY <1>1, <1>2, QuietMoves

(* The steps of getChallenge and authenticate up to the creation of a session. *)
LEMMA AuthMoves ==
    ASSUME ThreadsOK, SessionOK, ClockOK, ChallengesOK, NEW t \in Threads
    PROVE  /\ get_challenge(t) => Moved(t)
           /\ AuthRead(t) => Moved(t)
           /\ AuthVerify(t) => Moved(t)
           /\ AuthReject(t) => Moved(t)
           /\ AuthFail(t) => Moved(t)
           /\ AuthConsume(t) => Moved(t)
           /\ AuthReply(t) => Moved(t)
<1> DEFINE Inner == {"auth_verify", "auth_reject", "auth_fail", "auth_consume", "auth_create"}
<1>0. Inner \subseteq Steps /\ Inner \subseteq InstanceSteps
  BY DEF Steps, InstanceSteps, AuthSteps
<1>a. ASSUME SessionEffect, thread[t].pc \in Inner \cup {"auth_read"},
             NEW x \in Inner, Goto(t, x)
      PROVE  Moved(t)
  <2>1. thread[t].pc # "idle" /\ thread[t].pc \in InstanceSteps
    BY <1>a DEF InstanceSteps, AuthSteps
  <2>2. x \in Steps /\ x \notin {"auth_record", "auth_reply", "api_update", "api_run"}
    BY <1>0
  <2>3. QED
    BY <1>a, <2>1, <2>2, QuietMoves
<1>1. ASSUME get_challenge(t) PROVE Moved(t)
  <2>1. SessionEffect /\ Return(t)
    BY <1>1 DEF get_challenge, SM!create_challenge, SessionEffect
  <2>2. QED
    BY <2>1, QuietMoves
<1>2. ASSUME AuthRead(t) PROVE Moved(t)
  <2>0. SessionEffect /\ thread[t].pc = "auth_read"
    BY <1>2 DEF AuthRead, At, session_state, SessionEffect
  <2> DEFINE c == SM!get_pending_challenge(thread[t].uid)
  <2>1. CASE c = None
    <3>1. Goto(t, "auth_fail")
      BY <1>2, <2>1 DEF AuthRead
    <3>2. QED
      BY <1>a, <2>0, <3>1
  <2>2. CASE c # None
    <3> DEFINE r == [thread[t] EXCEPT !.pc = "auth_verify", !.challenge = c]
    <3>1. thread' = [thread EXCEPT ![t] = r]
      BY Zenon, <1>2, <2>2 DEF AuthRead
    <3>2. thread[t] \in ThreadState /\ GoodState(thread[t])
      BY DEF ThreadsOK
    <3>3. thread[t].uid \in Uids /\ thread[t].iid \in InstanceIds /\ thread[t].iid[1] = thread[t].uid
      BY <2>0, <3>2 DEF GoodState, InstanceSteps, AuthSteps
    <3>4. c \in Nat
      <4>1. pending_challenges_[thread[t].uid] \in SM!PendingChallenge \cup {None}
        BY <3>3 DEF ChallengesOK
      <4>2. QED
        BY <2>2, <4>1 DEF SM!get_pending_challenge, SM!PendingChallenge
    <3> HIDE DEF c
    <3>5. /\ r \in ThreadState /\ r.pc = "auth_verify"
          /\ r.uid = thread[t].uid /\ r.iid = thread[t].iid
      BY Zenon, <3>2, <3>4 DEF ThreadState, Steps, AuthSteps
    <3> HIDE DEF r
    <3>6. GoodState(r)
      BY <3>3, <3>5 DEF GoodState
    <3>7. ThreadsOK' /\ thread'[t] = r /\ \A s \in Threads \ {t} : thread'[s] = thread[s]
      BY Zenon, <3>1, <3>6, ThreadUpdate
    <3>8. Admission(t)'
      BY <3>5, <3>7 DEF Admission, Admitted
    <3>9. QED
      BY <2>0, <3>7, <3>8 DEF Moved
  <2>3. QED
    BY <2>1, <2>2
<1>3. ASSUME AuthVerify(t) PROVE Moved(t)
  <2>1. SessionEffect /\ thread[t].pc = "auth_verify"
    BY <1>3 DEF AuthVerify, At, session_state, SessionEffect
  <2>2. \/ Goto(t, "auth_consume") \/ Goto(t, "auth_reject") \/ Goto(t, "auth_fail")
        \/ Return(t)
    BY <1>3 DEF AuthVerify
  <2>3. QED
    BY <1>a, <2>1, <2>2, QuietMoves
<1>4. ASSUME AuthReject(t) PROVE Moved(t)
  <2>1. SessionEffect /\ thread[t].pc = "auth_reject" /\ Goto(t, "auth_fail")
    BY <1>4 DEF AuthReject, At, SM!consume_challenge, SessionEffect
  <2>2. QED
    BY <1>a, <2>1
<1>5. ASSUME AuthFail(t) PROVE Moved(t)
  <2>1. SessionEffect /\ Return(t)
    BY <1>5 DEF AuthFail, session_state, SessionEffect
  <2>2. QED
    BY <2>1, QuietMoves
<1>6. ASSUME AuthConsume(t) PROVE Moved(t)
  <2>1. SessionEffect /\ thread[t].pc = "auth_consume" /\ Goto(t, "auth_create")
    BY <1>6 DEF AuthConsume, At, SM!consume_challenge, SessionEffect
  <2>2. QED
    BY <1>a, <2>1
<1>7. ASSUME AuthReply(t) PROVE Moved(t)
  <2>1. SessionEffect /\ Return(t)
    BY <1>7 DEF AuthReply, session_state, SessionEffect
  <2>2. QED
    BY <2>1, QuietMoves
<1>8. QED
  BY <1>1, <1>2, <1>3, <1>4, <1>5, <1>6, <1>7

(* The steps that admit a caller, or carry an admission on. *)
LEMMA AdmittingMoves ==
    ASSUME ThreadsOK, SessionOK, ClockOK, NEW t \in Threads, Admission(t)
    PROVE  /\ AuthCreate(t) => Moved(t)
           /\ AuthRecord(t) => Moved(t)
           /\ ApiGet(t) => Moved(t)
           /\ ApiValidate(t) => Moved(t)
           /\ ApiUpdate(t) => Moved(t)
           /\ ApiReturn(t) => Moved(t)
<1> DEFINE i == thread[t].iid
           u == thread[t].uid
<1>a. thread[t] \in ThreadState /\ GoodState(thread[t])
  BY DEF ThreadsOK
<1>b. now \in Nat /\ thread[t].seen \in Nat /\ thread[t].challenge \in Nat
  BY <1>a DEF ClockOK, ThreadState
<1>c. thread[t].pc \in InstanceSteps => u \in Uids /\ i \in InstanceIds /\ i[1] = u
  BY <1>a DEF GoodState, InstanceSteps, AuthSteps
<1>d. \A x \in {"auth_create", "auth_record", "auth_reply", "api_validate", "api_update", "api_run"} :
          x \in Steps /\ x \in InstanceSteps
  BY DEF Steps, InstanceSteps, AuthSteps
<1>e. ASSUME NEW x \in {"auth_record", "auth_reply", "api_validate", "api_update", "api_run"},
             NEW j \in InstanceIds, j[1] = u, u \in Uids, NEW n \in Nat,
             thread' = [thread EXCEPT ![t] = [thread[t] EXCEPT !.pc = x, !.iid = j, !.seen = n]]
      PROVE  /\ ThreadsOK'
             /\ \A s \in Threads \ {t} : thread'[s] = thread[s]
             /\ thread'[t].pc = x /\ thread'[t].iid = j
             /\ thread'[t].uid = u /\ thread'[t].seen = n
  <2> DEFINE r == [thread[t] EXCEPT !.pc = x, !.iid = j, !.seen = n]
  <2>1. /\ r \in ThreadState /\ r.pc = x /\ r.iid = j /\ r.uid = u /\ r.seen = n
    BY Zenon, <1>a, <1>d, <1>e DEF ThreadState
  <2>2. thread' = [thread EXCEPT ![t] = r]
    BY <1>e
  <2> HIDE DEF r
  <2>3. GoodState(r)
    BY <1>e, <2>1 DEF GoodState
  <2>4. QED
    BY Zenon, <2>1, <2>2, <2>3, ThreadUpdate
<1>f. ASSUME NEW n, NEW x
      PROVE  /\ [thread EXCEPT ![t].pc = x, ![t].seen = n]
                  = [thread EXCEPT ![t] = [thread[t] EXCEPT !.pc = x, !.iid = i, !.seen = n]]
             /\ [thread EXCEPT ![t].pc = x, ![t].iid = n]
                  = [thread EXCEPT ![t] = [thread[t] EXCEPT !.pc = x, !.iid = n, !.seen = thread[t].seen]]
             /\ [thread EXCEPT ![t].pc = x]
                  = [thread EXCEPT ![t] = [thread[t] EXCEPT !.pc = x, !.iid = i, !.seen = thread[t].seen]]
  BY ZenonT(40), <1>a DEF ThreadsOK, ThreadState
<1>1. ASSUME AuthCreate(t) PROVE Moved(t)
  <2>0. thread[t].pc = "auth_create" /\ now' = now
    BY <1>1 DEF AuthCreate, At
  <2>1. u \in Uids /\ i \in InstanceIds /\ i[1] = u
    BY <1>c, <1>d, <2>0
  <2>2. PICK ok \in BOOLEAN :
          /\ SM!create_session(i, u, ok)
          /\ IF ok
             THEN thread' = [thread EXCEPT ![t].pc = "auth_record", ![t].seen = now]
             ELSE Return(t)
    BY <1>1 DEF AuthCreate
  <2>3. SessionEffect
    BY <2>0, <2>1, <2>2, CallEffect
  <2>4. CASE ok
    <3>1. thread' = [thread EXCEPT ![t] = [thread[t] EXCEPT !.pc = "auth_record", !.iid = i, !.seen = now]]
      BY Zenon, <1>f, <2>2, <2>4
    <3>2. /\ ThreadsOK' /\ \A s \in Threads \ {t} : thread'[s] = thread[s]
          /\ thread'[t].iid = i /\ thread'[t].uid = u /\ thread'[t].seen = now
      BY Zenon, <1>b, <1>e, <2>1, <3>1
    <3>3. /\ active_session_' \in SM!Session
          /\ active_session_'.instance_id = i
          /\ active_session_'.client_uid = u
          /\ active_session_'.last_activity_ms = now
      <4>1. CASE SM!OwnInstance(i)
        <5>1. active_session_ \in SM!Session /\ active_session_.instance_id = i
              /\ active_session_.client_uid = u
          BY <2>1, <4>1 DEF SM!OwnInstance, SessionOK
        <5>2. active_session_' = SM!Touched(active_session_)
          BY <2>2, <2>4, <4>1 DEF SM!create_session
        <5>3. QED
          BY <1>b, <5>1, <5>2 DEF SM!Touched, SM!Session
      <4>2. CASE ~ SM!OwnInstance(i)
        <5>1. active_session_' = [instance_id |-> i, client_uid |-> u,
                                  created_at_ms |-> now, last_activity_ms |-> now]
          BY <2>2, <2>4, <4>2 DEF SM!create_session
        <5>2. QED
          BY <1>b, <2>1, <5>1 DEF SM!Session
      <4>3. QED
        BY <4>1, <4>2
    <3>4. OwnsSession(t)'
      BY <1>b, <3>2, <3>3, NoneIsNoValue DEF OwnsSession
    <3>5. QED
      BY <2>3, <3>2, <3>4 DEF Moved, Admission
  <2>5. CASE ~ ok
    BY <2>2, <2>3, <2>5, QuietMoves
  <2>6. QED
    BY <2>4, <2>5
<1>2. ASSUME AuthRecord(t) PROVE Moved(t)
  <2>1. SessionEffect /\ thread[t].pc = "auth_record" /\ Goto(t, "auth_reply")
        /\ active_session_' = active_session_ /\ now' = now
    BY <1>2 DEF AuthRecord, At, session_state, SessionEffect
  <2>2. u \in Uids /\ i \in InstanceIds /\ i[1] = u
    BY SMTT(40), <1>c, <1>d, <2>1
  <2>3. thread' = [thread EXCEPT ![t] = [thread[t] EXCEPT !.pc = "auth_reply", !.iid = i, !.seen = thread[t].seen]]
    BY ZenonT(40), <1>f, <2>1 DEF Goto
  <2>4. /\ ThreadsOK' /\ \A s \in Threads \ {t} : thread'[s] = thread[s]
        /\ thread'[t].iid = i /\ thread'[t].uid = u /\ thread'[t].seen = thread[t].seen
    BY Zenon, <1>b, <1>e, <2>2, <2>3
  <2>5. OwnsSession(t) \/ TimedOut(t)
    BY <2>1 DEF Admission, Admitted
  <2>6. OwnsSession(t)' \/ TimedOut(t)'
    BY <2>1, <2>4, <2>5 DEF OwnsSession, TimedOut
  <2>7. QED
    BY <2>1, <2>4, <2>6 DEF Moved, Admission
<1>3. ASSUME ApiGet(t) PROVE Moved(t)
  <2>1. SessionEffect /\ thread[t].pc = "api_get"
    BY <1>3 DEF ApiGet, At, session_state, SessionEffect
  <2> DEFINE a == SM!get_active_session
  <2>2. CASE a # None /\ a.client_uid = u
    <3>1. a \in SM!Session /\ a.instance_id[1] = a.client_uid
      BY <2>2 DEF SM!get_active_session, SessionOK
    <3>2. a.instance_id \in InstanceIds /\ a.instance_id[1] = u /\ u \in Uids
      BY <2>2, <3>1 DEF SM!Session
    <3>3. thread' = [thread EXCEPT ![t].pc = "api_validate", ![t].iid = a.instance_id]
      BY SMTT(40), <1>3, <2>2 DEF ApiGet
    <3> HIDE DEF a
    <3>4. thread' = [thread EXCEPT ![t] =
              [thread[t] EXCEPT !.pc = "api_validate", !.iid = a.instance_id, !.seen = thread[t].seen]]
      BY ZenonT(40), <1>f, <3>3
    <3>5. /\ ThreadsOK' /\ \A s \in Threads \ {t} : thread'[s] = thread[s]
          /\ thread'[t].pc = "api_validate"
      BY Zenon, <1>b, <1>e, <3>2, <3>4
    <3>6. Admission(t)'
      BY <3>5 DEF Admission, Admitted
    <3>7. QED
      BY <2>1, <3>5, <3>6 DEF Moved
  <2>3. CASE ~ (a # None /\ a.client_uid = u)
    <3>1. Return(t)
      BY <1>3, <2>3 DEF ApiGet
    <3>2. QED
      BY <2>1, <3>1, QuietMoves
  <2>4. QED
    BY <2>2, <2>3
<1>4. ASSUME ApiValidate(t) PROVE Moved(t)
  <2>0. thread[t].pc = "api_validate" /\ now' = now
    BY <1>4 DEF ApiValidate, At
  <2>1. u \in Uids /\ i \in InstanceIds /\ i[1] = u
    BY <1>c, <1>d, <2>0
  <2>2. PICK ok \in BOOLEAN :
          /\ SM!validate_session(i, u, ok)
          /\ IF ok
             THEN thread' = [thread EXCEPT ![t].pc = "api_update",
                                           ![t].seen = active_session_.last_activity_ms]
             ELSE Return(t)
    BY <1>4 DEF ApiValidate
  <2>3. SessionEffect
    BY <2>0, <2>1, <2>2, CallEffect
  <2>4. CASE ok
    <3> DEFINE n == active_session_.last_activity_ms
    <3>1. /\ SM!OwnInstance(i) /\ active_session_.client_uid = u
          /\ active_session_' = active_session_
      BY Zenon, <2>2, <2>4 DEF SM!validate_session
    <3>2. active_session_ \in SM!Session /\ active_session_.instance_id = i
      BY <3>1 DEF SM!OwnInstance, SessionOK
    <3>3. n \in Nat
      BY <3>2 DEF SM!Session
    <3>4. thread' = [thread EXCEPT ![t] = [thread[t] EXCEPT !.pc = "api_update", !.iid = i, !.seen = n]]
      BY ZenonT(40), <1>f, <2>2, <2>4
    <3>5. /\ ThreadsOK' /\ \A s \in Threads \ {t} : thread'[s] = thread[s]
          /\ thread'[t].iid = i /\ thread'[t].uid = u /\ thread'[t].seen = n
      BY Zenon, <1>e, <2>1, <3>3, <3>4
    <3>6. OwnsSession(t)'
      BY <3>1, <3>2, <3>3, <3>5, NoneIsNoValue DEF OwnsSession
    <3>7. QED
      BY <2>3, <3>5, <3>6 DEF Moved, Admission
  <2>5. CASE ~ ok
    BY <2>2, <2>3, <2>5, QuietMoves
  <2>6. QED
    BY <2>4, <2>5
<1>5. ASSUME ApiUpdate(t) PROVE Moved(t)
  <2>0. thread[t].pc = "api_update" /\ now' = now /\ SM!update_activity(i)
    BY <1>5 DEF ApiUpdate, At
  <2>1. u \in Uids /\ i \in InstanceIds /\ i[1] = u
    BY <1>c, <1>d, <2>0
  <2>2. SessionEffect
    BY <2>0, <2>1, CallEffect
  <2> DEFINE n == IF SM!OwnInstance(i) THEN now ELSE thread[t].seen
  <2>3. n \in Nat
    BY <1>b
  <2>4. thread' = [thread EXCEPT ![t].pc = "api_run", ![t].seen = n]
    BY SMTT(40), <1>5 DEF ApiUpdate, ThreadsOK, ThreadState
  <2> HIDE DEF n
  <2>5. thread' = [thread EXCEPT ![t] = [thread[t] EXCEPT !.pc = "api_run", !.iid = i, !.seen = n]]
    BY ZenonT(40), <1>f, <2>4
  <2>6. /\ ThreadsOK' /\ \A s \in Threads \ {t} : thread'[s] = thread[s]
        /\ thread'[t].iid = i /\ thread'[t].uid = u /\ thread'[t].seen = n
    BY Zenon, <1>e, <2>1, <2>3, <2>5
  <2>7. OwnsSession(t) \/ TimedOut(t)
    BY <2>0 DEF Admission, Admitted
  <2>8. CASE SM!OwnInstance(i)
    <3>1. /\ active_session_ \in SM!Session /\ active_session_.instance_id = i
          /\ active_session_.client_uid = u
      BY <2>1, <2>8 DEF SM!OwnInstance, SessionOK
    <3>2. active_session_' = SM!Touched(active_session_) /\ n = now
      BY <2>0, <2>8 DEF SM!update_activity, n
    <3>3. /\ active_session_' \in SM!Session /\ active_session_'.instance_id = i
          /\ active_session_'.client_uid = u /\ active_session_'.last_activity_ms = now
      BY <1>b, <3>1, <3>2 DEF SM!Touched, SM!Session
    <3>4. OwnsSession(t)'
      BY <1>b, <2>6, <3>2, <3>3, NoneIsNoValue DEF OwnsSession
    <3>5. QED
      BY <2>2, <2>6, <3>4 DEF Moved, Admission
  <2>9. CASE ~ SM!OwnInstance(i)
    <3>1. TimedOut(t) /\ n = thread[t].seen
      BY <2>7, <2>9 DEF OwnsSession, SM!OwnInstance, n
    <3>2. TimedOut(t)'
      BY <2>0, <2>6, <3>1 DEF TimedOut
    <3>3. QED
      BY <2>2, <2>6, <3>2 DEF Moved, Admission
  <2>10. QED
    BY <2>8, <2>9
<1>6. ASSUME ApiReturn(t) PROVE Moved(t)
  <2>1. SessionEffect /\ Return(t)
    BY <1>6 DEF ApiReturn, session_state, SessionEffect
  <2>2. QED
    BY <2>1, QuietMoves
<1>7. QED
  BY <1>1, <1>2, <1>3, <1>4, <1>5, <1>6

(* Every step of a Binder thread. *)
LEMMA StepMoves ==
    ASSUME ThreadsOK, SessionOK, ClockOK, ChallengesOK, NEW t \in Threads, Admission(t), Step(t)
    PROVE  Moved(t)
<1>1. /\ "challenge_create" \notin InstanceSteps /\ "api_get" \notin InstanceSteps
      /\ {"auth_caller", "auth_rate"} \subseteq InstanceSteps
  BY DEF InstanceSteps, AuthSteps
<1>2. CASE check_caller_allowed(t, "challenge_caller", "challenge_create")
  BY <1>1, <1>2, CheckMoves
<1>3. CASE check_caller_allowed(t, "auth_caller", "auth_rate")
  BY <1>1, <1>3, CheckMoves
<1>4. CASE AuthRate(t)
  BY <1>1, <1>4, CheckMoves DEF AuthRate
<1>5. CASE check_caller_allowed(t, "api_caller", "api_get")
  BY <1>1, <1>5, CheckMoves
<1>6. QED
  BY <1>2, <1>3, <1>4, <1>5, AuthMoves, AdmittingMoves DEF Step

(* Challenges and what the clients received of them stay well typed. *)
LEMMA ChallengeTypes ==
    ASSUME ThreadsOK, ChallengesOK, ClockOK, [Next]_vars
    PROVE  ChallengesOK'
<1>1. ASSUME pending_challenges_' = pending_challenges_, generated' = generated,
             received' = received
      PROVE  ChallengesOK'
  BY <1>1 DEF ChallengesOK
<1>2. ASSUME NEW u \in Uids, SM!consume_challenge(u), received' = received
      PROVE  ChallengesOK'
  BY <1>2 DEF ChallengesOK, SM!consume_challenge
<1>3. ASSUME SM!cleanup_expired, received' = received PROVE ChallengesOK'
  <2>1. pending_challenges_' \in [Uids -> SM!PendingChallenge \cup {None}]
    BY <1>3 DEF SM!cleanup_expired, ChallengesOK
  <2>2. QED
    BY <1>3, <2>1 DEF SM!cleanup_expired, ChallengesOK
<1>4. ASSUME NEW t \in Threads, get_challenge(t) PROVE ChallengesOK'
  <2>1. thread[t].uid \in Uids
    BY <1>4 DEF get_challenge, At, ThreadsOK, GoodState
  <2>2. PICK result \in (1 .. MaxChallenges) \cup {None} :
          /\ SM!create_challenge(thread[t].uid, result)
          /\ received' = IF result = None THEN received
                         ELSE [received EXCEPT ![thread[t].uid] = result]
    BY <1>4 DEF get_challenge
  <2>3. received' \in [Uids -> Nat]
    <3>1. result # None => result \in Nat
      BY AuthConfig
    <3>2. QED
      BY Zenon, <2>2, <3>1 DEF ChallengesOK
  <2>4. [challenge |-> generated + 1, created_at_ms |-> now] \in SM!PendingChallenge
    BY DEF ChallengesOK, ClockOK, SM!PendingChallenge
  <2>5. pending_challenges_' \in [Uids -> SM!PendingChallenge \cup {None}] /\ generated' \in Nat
    BY <2>1, <2>2, <2>4 DEF SM!create_challenge, ChallengesOK
  <2>6. QED
    BY <2>3, <2>5 DEF ChallengesOK
<1>5. ASSUME NEW t \in Threads, Arrive(t) PROVE ChallengesOK'
  BY <1>1, <1>5 DEF Arrive, getChallenge, authenticate, ApiCall, Start, session_state
<1>6. ASSUME NEW t \in Threads, Step(t) PROVE ChallengesOK'
  <2>1. CASE AuthReject(t) \/ AuthConsume(t)
    <3>1. thread[t].uid \in Uids
      BY <2>1 DEF AuthReject, AuthConsume, At, ThreadsOK, GoodState
    <3>2. QED
      BY <1>2, <2>1, <3>1 DEF AuthReject, AuthConsume
  <2>2. CASE \/ AuthRate(t) \/ AuthRead(t) \/ AuthVerify(t) \/ AuthFail(t) \/ AuthRecord(t)
             \/ AuthReply(t) \/ ApiGet(t) \/ ApiReturn(t)
             \/ \E x, y : check_caller_allowed(t, x, y)
    BY <1>1, <2>2 DEF AuthRate, AuthRead, AuthVerify, AuthFail, AuthRecord, AuthReply,
         ApiGet, ApiReturn, check_caller_allowed, session_state
  <2>3. CASE AuthCreate(t) \/ ApiValidate(t) \/ ApiUpdate(t)
    BY <1>1, <2>3 DEF AuthCreate, ApiValidate, ApiUpdate,
         SM!create_session, SM!validate_session, SM!update_activity
  <2>4. QED
    BY <1>4, <1>6, <2>1, <2>2, <2>3 DEF Step
<1>7. CASE \E u \in Uids, g \in Generations : checkSession(u, <<u, g>>)
  BY <1>1, <1>7 DEF checkSession, SM!check_session
<1>8. CASE CleanSessions
  BY <1>3, <1>8 DEF CleanSessions
<1>9. CASE CleanLimiter \/ Clock \/ UNCHANGED vars
  BY <1>1, <1>9 DEF CleanLimiter, Clock, vars, session_state
<1>10. QED
  BY <1>5, <1>6, <1>7, <1>8, <1>9 DEF Next

(* The limiter's entries stay well typed. *)
LEMMA AttemptTypes ==
    ASSUME ThreadsOK, AttemptsOK, ClockOK, [Next]_vars
    PROVE  AttemptsOK'
<1>0. now \in Nat
  BY DEF ClockOK
<1>1. ASSUME attempts_' = attempts_ PROVE AttemptsOK'
  BY <1>1 DEF AttemptsOK
<1>2. ASSUME NEW t \in Threads, Arrive(t) PROVE AttemptsOK'
  BY <1>1, <1>2 DEF Arrive, getChallenge, authenticate, ApiCall, Start
<1>3. ASSUME NEW t \in Threads, NEW x \in {"challenge_caller", "auth_caller", "auth_rate", "api_caller"},
             NEW y, check_caller_allowed(t, x, y)
      PROVE  AttemptsOK'
  <2>1. thread[t].uid \in Uids
    BY <1>3 DEF check_caller_allowed, At, ThreadsOK, GoodState
  <2>2. QED
    BY <1>0, <1>3, <2>1, LimiterTypes DEF check_caller_allowed
<1>4. ASSUME NEW t \in Threads, AuthFail(t) \/ AuthRecord(t) PROVE AttemptsOK'
  <2>1. thread[t].uid \in Uids
    BY <1>4 DEF AuthFail, AuthRecord, At, ThreadsOK, GoodState
  <2>2. QED
    BY <1>0, <1>4, <2>1, LimiterTypes DEF AuthFail, AuthRecord
<1>5. ASSUME NEW t \in Threads, Step(t) PROVE AttemptsOK'
  <2>1. CASE \/ get_challenge(t) \/ AuthRead(t) \/ AuthVerify(t) \/ AuthReject(t) \/ AuthConsume(t)
             \/ AuthCreate(t) \/ AuthReply(t)
             \/ ApiGet(t) \/ ApiValidate(t) \/ ApiUpdate(t) \/ ApiReturn(t)
    BY <1>1, <2>1 DEF get_challenge, AuthRead, AuthVerify, AuthReject, AuthConsume,
         AuthCreate, AuthReply, ApiGet, ApiValidate, ApiUpdate, ApiReturn
  <2>2. QED
    BY SMTT(40), <1>3, <1>4, <1>5, <2>1 DEF Step, AuthRate
<1>6. CASE CleanLimiter
  BY <1>0, <1>6, LimiterTypes DEF CleanLimiter, RL!cleanup_expired, AttemptsOK
<1>7. CASE \/ \E u \in Uids, g \in Generations : checkSession(u, <<u, g>>)
           \/ CleanSessions \/ Clock \/ UNCHANGED vars
  BY Zenon, <1>1, <1>7 DEF checkSession, CleanSessions, Clock, vars
<1>8. QED
  BY <1>2, <1>5, <1>6, <1>7 DEF Next

(* The inductive invariant: the types, with every instance id belonging to the
   uid it is used with, and every admission. *)
Inv ==
    /\ ThreadsOK /\ SessionOK /\ ClockOK /\ ChallengesOK /\ AttemptsOK
    /\ cleaner \in {"sessions", "limiter"}
    /\ AdmittedOwnsSession

(* Inv holds initially, for an initialised session manager or not. *)
LEMMA InitInv == Init => Inv
<1> SUFFICES ASSUME Init PROVE Inv
  OBVIOUS
<1>0. GoodState(IdleThread)
  BY DEF GoodState, IdleThread, ThreadState, Steps, InstanceSteps, AuthSteps
<1>1. ThreadsOK
  BY <1>0 DEF Init, ThreadsOK, GoodState
<1>2. SessionOK
  BY DEF Init, SessionOK
<1>3. ClockOK
  BY DEF Init, ClockOK, RL!Init
<1>4. ChallengesOK
  BY DEF Init, ChallengesOK
<1>5. AttemptsOK
  BY DEF Init, RL!Init, AttemptsOK
<1>6. AdmittedOwnsSession
  BY DEF Init, AdmittedOwnsSession, Admitted, IdleThread
<1>7. QED
  BY <1>1, <1>2, <1>3, <1>4, <1>5, <1>6 DEF Init, Inv

(* Every step keeps Inv. *)
LEMMA StepInv == Inv /\ [Next]_vars => Inv'
<1> SUFFICES ASSUME Inv, [Next]_vars PROVE Inv'
  OBVIOUS
<1> USE DEF Inv
<1>0. \A t \in Threads : Admission(t)
  BY DEF Admission, AdmittedOwnsSession
<1>1. ChallengesOK' /\ AttemptsOK'
  BY ChallengeTypes, AttemptTypes
<1>2. ASSUME NEW t \in Threads, Moved(t), cleaner' = cleaner PROVE Inv'
  <2>1. SessionOK' /\ ClockOK'
    BY <1>2, EffectSessionOK DEF Moved
  <2>2. \A s \in Threads : Admission(s)'
    BY <1>0, <1>2, EffectAdmission DEF Moved
  <2>3. AdmittedOwnsSession'
    BY <2>2 DEF AdmittedOwnsSession, Admission
  <2>4. QED
    BY <1>1, <1>2, <2>1, <2>3 DEF Moved
<1>3. ASSUME SessionEffect, thread' = thread, cleaner' \in {"sessions", "limiter"} PROVE Inv'
  <2>1. SessionOK' /\ ClockOK' /\ ThreadsOK'
    BY <1>3, EffectSessionOK DEF ThreadsOK
  <2>2. \A s \in Threads : Admission(s)'
    BY <1>0, <1>3, EffectAdmission
  <2>3. AdmittedOwnsSession'
    BY <2>2 DEF AdmittedOwnsSession, Admission
  <2>4. QED
    BY <1>1, <1>3, <2>1, <2>3
<1>4. ASSUME NEW t \in Threads, Arrive(t) PROVE Inv'
  <2>1. cleaner' = cleaner
    BY <1>4 DEF Arrive, getChallenge, authenticate, ApiCall, Start
  <2>2. QED
    BY SMTT(40), <1>2, <1>4, <2>1, ArriveMoves
<1>5. ASSUME NEW t \in Threads, Step(t) PROVE Inv'
  <2>1. cleaner' = cleaner
    BY <1>5 DEF Step, get_challenge, AuthRate, AuthRead, AuthVerify, AuthReject, AuthFail,
         AuthConsume, AuthCreate, AuthRecord, AuthReply, ApiGet, ApiValidate, ApiUpdate,
         ApiReturn, check_caller_allowed
  <2>2. QED
    BY SMTT(40), <1>0, <1>2, <1>5, <2>1, StepMoves
<1>6. ASSUME NEW u \in Uids, NEW g \in Generations, checkSession(u, <<u, g>>) PROVE Inv'
  <2>1. <<u, g>> \in InstanceIds /\ <<u, g>>[1] = u
    BY DEF InstanceIds
  <2>2. SessionEffect
    BY <1>6, <2>1, CallEffect DEF checkSession
  <2>3. QED
    BY <1>3, <1>6, <2>2 DEF checkSession
<1>7. CASE CleanSessions
  <2>1. active_session_' = active_session_ \/ SessionDropped
    BY <1>7 DEF CleanSessions, SM!cleanup_expired, SM!get_active_session, SM!Live, SessionDropped
  <2>2. SessionEffect
    BY <1>7, <2>1 DEF CleanSessions, SM!cleanup_expired, SessionEffect
  <2>3. QED
    BY <1>3, <1>7, <2>2 DEF CleanSessions
<1>8. CASE CleanLimiter \/ UNCHANGED vars
  BY <1>3, <1>8 DEF CleanLimiter, vars, session_state, SessionEffect
<1>9. CASE Clock
  <2>1. /\ now' = now + 1 /\ now \in Nat /\ SESSION_TIMEOUT_MS \in Nat
        /\ active_session_' = active_session_ /\ initialized_' = initialized_
        /\ thread' = thread /\ cleaner' = cleaner
    BY <1>9, AuthConfig DEF Clock, RL!Tick, session_state, ClockOK
  <2>2. ClockOK'
    BY <2>1 DEF ClockOK
  <2>3. SessionOK'
    BY <2>1 DEF SessionOK, SM!Session
  <2>4. ASSUME NEW t \in Threads PROVE Admission(t)'
    <3>1. thread[t].seen \in Nat
      BY DEF ThreadsOK, ThreadState
    <3>2. QED
      BY <1>0, <2>1, <3>1 DEF Admission, Admitted, OwnsSession, TimedOut
  <2>5. AdmittedOwnsSession'
    BY <2>4 DEF AdmittedOwnsSession, Admission
  <2>6. QED
    BY <1>1, <2>1, <2>2, <2>3, <2>5 DEF ThreadsOK
<1>10. QED
  BY Zenon, <1>4, <1>5, <1>6, <1>7, <1>8, <1>9 DEF Next

(* Inv is an invariant of the composed system. *)
LEMMA InvHolds == Spec => []Inv
  BY InitInv, StepInv, PTL DEF Spec

(* Every step that is not the clock's has one of the effects on the session. *)
LEMMA NextEffect ==
    ASSUME Inv, [Next]_vars
    PROVE  SessionEffect \/ Clock
<1> USE DEF Inv
<1>0. \A t \in Threads : Admission(t)
  BY DEF Admission, AdmittedOwnsSession
<1>1. ASSUME NEW t \in Threads, Arrive(t) PROVE SessionEffect
  BY <1>1, ArriveMoves DEF Moved
<1>2. ASSUME NEW t \in Threads, Step(t) PROVE SessionEffect
  BY <1>0, <1>2, StepMoves DEF Moved
<1>3. ASSUME NEW u \in Uids, NEW g \in Generations, checkSession(u, <<u, g>>) PROVE SessionEffect
  <2>1. <<u, g>> \in InstanceIds /\ <<u, g>>[1] = u
    BY DEF InstanceIds
  <2>2. QED
    BY <1>3, <2>1, CallEffect DEF checkSession
<1>4. CASE CleanSessions
  <2>1. active_session_' = active_session_ \/ SessionDropped
    BY <1>4 DEF CleanSessions, SM!cleanup_expired, SM!get_active_session, SM!Live, SessionDropped
  <2>2. QED
    BY <1>4, <2>1 DEF CleanSessions, SM!cleanup_expired, SessionEffect
<1>5. CASE CleanLimiter \/ UNCHANGED vars
  BY <1>5 DEF CleanLimiter, vars, session_state, SessionEffect
<1>6. QED
  BY Zenon, <1>1, <1>2, <1>3, <1>4, <1>5 DEF Next

(* What the clock leaves alone. *)
LEMMA ClockEffect ==
    ASSUME Clock
    PROVE  now' = now + 1 /\ active_session_' = active_session_
BY DEF Clock, RL!Tick, session_state

(* A live session survives every step of every Binder thread and of the clean-up
   thread, with its owner and its activity, for any number of threads. *)
THEOREM LiveSessionsSurvive == Spec => LiveSessionKept
<1>1. ASSUME Inv, [Next]_vars, SM!Live
      PROVE  /\ active_session_' # None
             /\ SM!Owner(active_session_') = SM!Owner(active_session_)
             /\ active_session_'.last_activity_ms >= active_session_.last_activity_ms
  <2>1. /\ active_session_ # None /\ active_session_ \in SM!Session
        /\ active_session_.last_activity_ms \in Nat /\ now \in Nat
        /\ active_session_.last_activity_ms <= now
        /\ ~ SM!SessionExpired(active_session_)
    BY <1>1 DEF Inv, SessionOK, ClockOK, SM!Live, SM!Session
  <2>2. CASE active_session_' = active_session_
    BY <2>1, <2>2
  <2>3. CASE SessionTouched
    <3>1. /\ active_session_' \in SM!Session
          /\ active_session_'.last_activity_ms = now
          /\ active_session_'.instance_id = active_session_.instance_id
          /\ active_session_'.client_uid = active_session_.client_uid
      BY <2>1, <2>3 DEF SessionTouched, SM!Touched, SM!Session
    <3>2. active_session_' # None
      BY <3>1, NoneIsNoValue
    <3>3. SM!Owner(active_session_') = SM!Owner(active_session_)
      BY <3>1 DEF SM!Owner
    <3>4. QED
      BY <2>1, <3>1, <3>2, <3>3
  <2>4. SessionEffect \/ Clock
    BY <1>1, NextEffect
  <2>5. QED
    BY <2>1, <2>2, <2>3, <2>4, ClockEffect
       DEF SessionEffect, SessionDropped, SessionReplaced
<1>2. QED
  BY <1>1, InvHolds, PTL DEF Spec, LiveSessionKept

(* The composed daemon still is the exclusive lease that the session manager alone
   implements: its handlers use the session manager in no way that breaks it. *)
THEOREM DaemonImplementsLease == Spec => SM!ImplementsLease
<1> DEFINE h == IF SM!Live THEN SM!Owner(active_session_) ELSE None
           i == IF SM!Live THEN now - active_session_.last_activity_ms ELSE 0
<1>1. Init => SM!Lease!Init
  BY DEF Init, SM!Lease!Init, SM!Live
<1>2. ASSUME NEW s \in SM!Session
      PROVE  SM!Owner(s) \in InstanceIds \X Uids /\ SM!Owner(s) # None /\ s # None
  BY NoneIsNoValue DEF SM!Owner, SM!Session
<1>3. Inv /\ [Next]_vars => [SM!Lease!Next]_(SM!Lease!vars)
  <2> SUFFICES ASSUME Inv, [Next]_vars PROVE [SM!Lease!Next]_(SM!Lease!vars)
    OBVIOUS
  <2>1. /\ active_session_ \in SM!Session \cup {None} /\ now \in Nat
        /\ active_session_ # None => /\ active_session_.last_activity_ms \in Nat
                                     /\ active_session_.last_activity_ms <= now
        /\ SESSION_TIMEOUT_MS \in Nat
    BY AuthConfig DEF Inv, SessionOK, ClockOK, SM!Session
  <2>2. ASSUME h' = h, i' = i PROVE [SM!Lease!Next]_(SM!Lease!vars)
    BY <2>2 DEF SM!Lease!vars
  <2>3. ASSUME now' = now, active_session_' \in SM!Session,
               active_session_'.last_activity_ms = now
        PROVE  SM!Live' /\ h' = SM!Owner(active_session_)' /\ i' = 0
    BY <1>2, <2>1, <2>3 DEF SM!Live, SM!SessionExpired
  <2>4. CASE now' = now /\ active_session_' = active_session_
    BY <2>2, <2>4 DEF SM!Live, SM!SessionExpired, SM!Owner
  <2>5. CASE now' = now /\ SessionDropped
    BY <2>2, <2>5 DEF SessionDropped, SM!Live
  <2>6. CASE now' = now /\ SessionTouched
    <3>1. /\ active_session_ \in SM!Session /\ active_session_' \in SM!Session
          /\ active_session_'.last_activity_ms = now
          /\ SM!Owner(active_session_)' = SM!Owner(active_session_)
      BY <2>1, <2>6 DEF SessionTouched, SM!Touched, SM!Session, SM!Owner
    <3>2. h' = SM!Owner(active_session_) /\ i' = 0
      BY <2>3, <2>6, <3>1
    <3>3. CASE SM!Live
      BY <1>2, <3>1, <3>2, <3>3 DEF SM!Lease!Renew, SM!Lease!Next
    <3>4. CASE ~ SM!Live
      <4>1. SM!Lease!Acquire(SM!Owner(active_session_))
        BY <3>2, <3>4 DEF SM!Lease!Acquire
      <4>2. QED
        BY <1>2, <3>1, <4>1 DEF SM!Lease!Next
    <3>5. QED
      BY <3>3, <3>4
  <2>7. CASE now' = now /\ SessionReplaced
    <3>1. PICK u \in Uids, iid \in InstanceIds :
            active_session_' = [instance_id |-> iid, client_uid |-> u,
                                created_at_ms |-> now, last_activity_ms |-> now]
      BY <2>7 DEF SessionReplaced
    <3>2. ~ SM!Live
      BY <2>7 DEF SessionReplaced, SM!Live
    <3>3. /\ active_session_' \in SM!Session
          /\ active_session_'.last_activity_ms = now
          /\ SM!Owner(active_session_)' = <<iid, u>>
      BY <2>1, <3>1 DEF SM!Session, SM!Owner
    <3>4. h' = <<iid, u>> /\ i' = 0
      BY <2>3, <2>7, <3>3
    <3>5. SM!Lease!Acquire(<<iid, u>>)
      BY <3>2, <3>4 DEF SM!Lease!Acquire
    <3>6. QED
      BY <3>5 DEF SM!Lease!Next
  <2>8. CASE Clock
    <3>1. now' = now + 1 /\ active_session_' = active_session_
      BY <2>8, ClockEffect
    <3>2. CASE ~ SM!Live
      <4>1. ~ SM!Live'
        BY <2>1, <3>1, <3>2 DEF SM!Live, SM!SessionExpired
      <4>2. QED
        BY <2>2, <3>2, <4>1
    <3>3. CASE SM!Live
      <4>1. active_session_ # None /\ h # None /\ i \in Int
        BY <1>2, <2>1, <3>3 DEF SM!Live
      <4>2. SM!Live' <=> ~ (i + 1 > SESSION_TIMEOUT_MS)
        BY <2>1, <3>1, <3>3, <4>1 DEF SM!Live, SM!SessionExpired
      <4>3. SM!Live' => h' = h /\ i' = i + 1
        BY <2>1, <3>1, <3>3, <4>1 DEF SM!Owner
      <4>4. ~ SM!Live' => h' = None /\ i' = 0
        OBVIOUS
      <4>5. SM!Lease!Age
        BY <4>1, <4>2, <4>3, <4>4 DEF SM!Lease!Age
      <4>6. QED
        BY <4>5 DEF SM!Lease!Next
    <3>4. QED
      BY <3>2, <3>3
  <2>9. QED
    BY <2>4, <2>5, <2>6, <2>7, <2>8, NextEffect DEF SessionEffect
<1>4. QED
  BY <1>1, <1>3, InvHolds, PTL DEF Spec, SM!ImplementsLease, SM!Lease!Spec

(* Types of the composition: session manager, limiter and Binder threads; a
   handler only ever works on an instance id of its caller's own uid. *)
THEOREM AuthTypeCorrect == Spec => []TypeOK
<1>1. Inv => TypeOK
  <2> SUFFICES ASSUME Inv PROVE TypeOK
    OBVIOUS
  <2>1. SM!TypeOK
    BY DEF Inv, SessionOK, ClockOK, ChallengesOK, SM!TypeOK
  <2>2. ThreadsOK
    BY DEF Inv
  <2>3. \A t \in Threads :
          /\ ~ At(t, "idle") => thread[t].uid \in Uids
          /\ thread[t].pc \in InstanceSteps =>
                 thread[t].iid \in InstanceIds /\ thread[t].iid[1] = thread[t].uid
    BY <2>2 DEF ThreadsOK, GoodState, At
  <2>4. QED
    BY <2>1, <2>2, <2>3 DEF TypeOK, Inv, SessionOK, ChallengesOK, AttemptsOK, ThreadsOK
<1>2. QED
  BY <1>1, InvHolds, PTL

(* A caller that check_authenticated or authenticate admitted owns the session
   until the timeout has passed since the activity it was admitted on, however
   many threads create, validate, check and clean up sessions meanwhile. *)
THEOREM AdmittedCallersOwnSession == Spec => []AdmittedOwnsSession
<1>1. Inv => AdmittedOwnsSession
  BY DEF Inv
<1>2. QED
  BY <1>1, InvHolds, PTL

(* Two installations are never admitted together within one timeout. *)
THEOREM AdmissionIsExclusive == Spec => []ExclusiveAdmission
<1>1. Inv => ExclusiveAdmission
  BY DEF Inv, AdmittedOwnsSession, ExclusiveAdmission, OwnsSession
<1>2. QED
  BY <1>1, InvHolds, PTL

-----------------------------------------------------------------------------
(* How far concurrent attempts overshoot the limiter's maximum, for every number of
   Binder threads: the argument counts the attempts that passed the check and have not
   been recorded yet. *)

Unrecorded == {"auth_read", "auth_verify", "auth_reject", "auth_fail"}

Bound(u) ==
    attempts_[u] # None =>
        attempts_[u].failed_count + Cardinality(InFlight(u))
            <= max_failures - 1 + Cardinality(Threads)

(* Sets of threads are finite and no larger than the thread pool. *)
LEMMA ThreadSets ==
    ASSUME NEW T \in SUBSET Threads
    PROVE  /\ IsFiniteSet(T) /\ Cardinality(T) \in Nat
           /\ Cardinality(Threads) \in Nat
           /\ Cardinality(T) <= Cardinality(Threads)
           /\ \A S \in SUBSET T : Cardinality(S) \in Nat /\ Cardinality(S) <= Cardinality(T)
<1>0. IsFiniteSet(Threads)
  BY AuthConfig
<1>1. IsFiniteSet(T) /\ Cardinality(T) <= Cardinality(Threads)
  BY <1>0, FS_Subset
<1>2. \A S \in SUBSET T : IsFiniteSet(S) /\ Cardinality(S) <= Cardinality(T)
  BY <1>1, FS_Subset
<1>3. QED
  BY <1>0, <1>1, <1>2, FS_CardinalityType

(* The count of u is gone, zero, or what it was. *)
Milder(u) ==
    attempts_'[u] # None =>
        \/ attempts_'[u].failed_count = 0
        \/ attempts_[u] # None /\ attempts_'[u].failed_count = attempts_[u].failed_count

(* Every call of the limiter but record_failure is mild. *)
LEMMA LimiterMild ==
    ASSUME AttemptsOK, NEW v \in Uids, NEW u \in Uids
    PROVE  /\ \A ok : RL!check_allowed(v, ok) => Milder(u)
           /\ RL!record_success(v) => Milder(u)
           /\ RL!cleanup_expired => Milder(u)
<1>1. ASSUME NEW ok, RL!check_allowed(v, ok) PROVE Milder(u)
  <2>1. attempts_'[u] = IF u = v THEN RL!AfterCheck(attempts_[u]) ELSE attempts_[u]
    BY <1>1 DEF RL!check_allowed, AttemptsOK
  <2>2. attempts_[u] \in RL!AuthAttempt \cup {None}
    BY DEF AttemptsOK
  <2>3. RL!AfterCheck(attempts_[u]) # None =>
          \/ RL!AfterCheck(attempts_[u]).failed_count = 0
          \/ attempts_[u] # None /\ RL!AfterCheck(attempts_[u]).failed_count = attempts_[u].failed_count
    BY <2>2 DEF RL!AfterCheck, RL!ResetAttempt, RL!AuthAttempt
  <2>4. QED
    BY <2>1, <2>3 DEF Milder
<1>2. ASSUME RL!record_success(v) PROVE Milder(u)
  BY <1>2 DEF RL!record_success, RL!ResetAttempt, AttemptsOK, Milder
<1>3. ASSUME RL!cleanup_expired PROVE Milder(u)
  BY <1>3 DEF RL!cleanup_expired, Milder
<1>4. QED
  BY <1>1, <1>2, <1>3

(* A mild call and no new attempt in flight keep the bound. *)
LEMMA MildBound ==
    ASSUME AttemptsOK, AttemptsOK', NEW u \in Uids, Bound(u), Milder(u),
           InFlight(u)' \subseteq InFlight(u)
    PROVE  Bound(u)'
<1> DEFINE I == Cardinality(InFlight(u))
           J == Cardinality(InFlight(u)')
           N == Cardinality(Threads)
<1>1. InFlight(u) \in SUBSET Threads
  BY DEF InFlight
<1>2. I \in Nat /\ J \in Nat /\ N \in Nat /\ J <= I /\ I <= N
  BY <1>1, ThreadSets
<1>3. max_failures \in Nat \ {0}
  BY AuthConfig
<1>4. SUFFICES ASSUME attempts_'[u] # None
               PROVE  attempts_'[u].failed_count + J <= max_failures - 1 + N
  BY DEF Bound
<1>5. CASE attempts_'[u].failed_count = 0
  <2> HIDE DEF I, J, N
  <2>1. QED
    BY SMTT(40), <1>2, <1>3, <1>5
<1>6. CASE attempts_[u] # None /\ attempts_'[u].failed_count = attempts_[u].failed_count
  <2>1. attempts_[u].failed_count \in Nat
    BY <1>6 DEF AttemptsOK, RL!AuthAttempt
  <2>2. attempts_[u].failed_count + I <= max_failures - 1 + N
    BY <1>6 DEF Bound
  <2> HIDE DEF I, J, N
  <2>3. QED
    BY SMTT(40), <1>2, <1>3, <1>6, <2>1, <2>2
<1>7. QED
  BY <1>4, <1>5, <1>6 DEF Milder

(* The attempts in flight after a step of thread t. *)
LEMMA InFlightStep ==
    ASSUME NEW t \in Threads, NEW u,
           \A s \in Threads \ {t} : thread'[s] = thread[s]
    PROVE  /\ thread'[t].pc \notin Unrecorded => InFlight(u)' = InFlight(u) \ {t}
           /\ thread[t].pc \in Unrecorded /\ thread'[t].uid = thread[t].uid
                 => InFlight(u)' \subseteq InFlight(u)
BY SMTT(40) DEF InFlight, Unrecorded

(* No step of a thread but the second rate check adds an attempt in flight. *)
LEMMA NoNewAttempt ==
    ASSUME ThreadsOK, NEW t \in Threads, NEW u, Arrive(t) \/ Step(t), ~ AuthRate(t),
           \A s \in Threads \ {t} : thread'[s] = thread[s]
    PROVE  InFlight(u)' \subseteq InFlight(u)
<1>0. thread[t] \in ThreadState /\ thread \in [Threads -> ThreadState]
  BY SMTT(40) DEF ThreadsOK
<1>1. ASSUME thread'[t].pc \notin Unrecorded PROVE InFlight(u)' \subseteq InFlight(u)
  BY <1>1, InFlightStep
<1>2. ASSUME thread[t].pc \in Unrecorded, thread'[t].uid = thread[t].uid
      PROVE  InFlight(u)' \subseteq InFlight(u)
  BY <1>2, InFlightStep
<1>3. Return(t) => thread'[t].pc = "idle"
  BY <1>0 DEF Return, IdleThread
<1>4. \A x : Goto(t, x) => thread'[t].pc = x /\ thread'[t].uid = thread[t].uid
  BY <1>0 DEF Goto, ThreadState
<1>5. CASE Arrive(t)
  <2>1. thread'[t].pc \in {"challenge_caller", "auth_caller", "api_caller"}
    <3>1. \A x, v, i, c : Start(t, x, v, i, c) => thread'[t].pc = x
      BY <1>0 DEF Start
    <3>2. QED
      BY Zenon, <1>5, <3>1 DEF Arrive, getChallenge, authenticate, ApiCall
  <2>2. QED
    BY SMTT(40), <1>1, <2>1 DEF Unrecorded
<1>6. CASE \/ check_caller_allowed(t, "challenge_caller", "challenge_create")
           \/ check_caller_allowed(t, "auth_caller", "auth_rate")
           \/ check_caller_allowed(t, "api_caller", "api_get")
  <2>1. thread'[t].pc \in {"challenge_create", "auth_rate", "api_get", "idle"}
    BY Zenon, <1>3, <1>4, <1>6 DEF check_caller_allowed
  <2>2. QED
    BY SMTT(40), <1>1, <2>1 DEF Unrecorded
<1>7. CASE AuthRead(t)
  <2>1. thread[t].pc \in Unrecorded /\ thread'[t].uid = thread[t].uid
    BY <1>0, <1>7 DEF AuthRead, At, Unrecorded, Goto, ThreadState
  <2>2. QED
    BY <1>2, <2>1
<1>8. CASE AuthVerify(t) \/ AuthReject(t)
  <2>1. thread[t].pc \in Unrecorded
    BY SMTT(40), <1>8 DEF AuthVerify, AuthReject, At, Unrecorded
  <2>2. thread'[t].pc = "idle" \/ thread'[t].uid = thread[t].uid
    BY Zenon, <1>3, <1>4, <1>8 DEF AuthVerify, AuthReject
  <2>3. QED
    BY SMTT(40), <1>1, <1>2, <2>1, <2>2 DEF Unrecorded
<1>9. CASE \/ get_challenge(t) \/ AuthFail(t) \/ AuthConsume(t) \/ AuthRecord(t) \/ AuthReply(t)
           \/ ApiReturn(t)
  <2>1. thread'[t].pc \in {"idle", "auth_create", "auth_reply"}
    BY Zenon, <1>3, <1>4, <1>9
       DEF get_challenge, AuthFail, AuthConsume, AuthRecord, AuthReply, ApiReturn
  <2>2. QED
    BY SMTT(40), <1>1, <2>1 DEF Unrecorded
<1>10. CASE AuthCreate(t) \/ ApiGet(t) \/ ApiValidate(t) \/ ApiUpdate(t)
  <2>1. thread'[t].pc \in {"idle", "auth_record", "api_validate", "api_update", "api_run"}
    BY <1>0, <1>3, <1>10 DEF AuthCreate, ApiGet, ApiValidate, ApiUpdate, ThreadState
  <2>2. QED
    BY <1>1, <2>1 DEF Unrecorded
<1>11. QED
  BY ZenonT(40), <1>5, <1>6, <1>7, <1>8, <1>9, <1>10 DEF Step

(* A check lets an attempt through only below the maximum. *)
LEMMA AllowedBelowMaximum ==
    ASSUME AttemptsOK, NEW v \in Uids, RL!check_allowed(v, TRUE)
    PROVE  attempts_'[v] # None => attempts_'[v].failed_count < max_failures
<1>1. attempts_[v] \in RL!AuthAttempt \cup {None}
  BY DEF AttemptsOK
<1>2. attempts_'[v] = RL!AfterCheck(attempts_[v])
  BY DEF RL!check_allowed, AttemptsOK
<1>3. CASE attempts_[v] = None
  BY <1>2, <1>3 DEF RL!AfterCheck
<1>4. CASE attempts_[v] # None /\ RL!WindowPassed(attempts_[v])
  BY SMTT(40), <1>2, <1>4, AuthConfig DEF RL!AfterCheck, RL!ResetAttempt
<1>5. CASE /\ attempts_[v] # None
           /\ ~ RL!WindowPassed(attempts_[v])
           /\ ~ RL!LockedOut(attempts_[v]) /\ ~ RL!AtMaximum(attempts_[v])
  <2>1. attempts_[v].failed_count \in Nat /\ ~ (attempts_[v].failed_count >= max_failures)
    BY <1>1, <1>5 DEF RL!AtMaximum, RL!AuthAttempt
  <2>2. attempts_'[v] = attempts_[v]
    BY <1>2, <1>5 DEF RL!AfterCheck
  <2>3. QED
    BY <2>1, <2>2, AuthConfig
<1>6. QED
  BY <1>3, <1>4, <1>5 DEF RL!check_allowed, RL!Allowed

(* The second rate check of authenticate adds its thread to the attempts in
   flight, at a count below the maximum, or refuses it. *)
LEMMA RateBound ==
    ASSUME ThreadsOK, AttemptsOK, AttemptsOK', NEW t \in Threads, AuthRate(t),
           \A s \in Threads \ {t} : thread'[s] = thread[s],
           NEW u \in Uids, Bound(u)
    PROVE  Bound(u)'
<1> DEFINE v == thread[t].uid
<1>0. thread[t] \in ThreadState /\ thread \in [Threads -> ThreadState] /\ v \in Uids
  BY DEF ThreadsOK, GoodState, AuthRate, check_caller_allowed, At
<1>1. PICK ok \in BOOLEAN :
        /\ RL!check_allowed(v, ok)
        /\ (ok /\ Goto(t, "auth_read")) \/ Return(t)
  BY DEF AuthRate, check_caller_allowed
<1>2. Milder(u)
  BY <1>0, <1>1, LimiterMild
<1>3. CASE Return(t)
  <2>1. thread'[t].pc = "idle"
    BY <1>0, <1>3 DEF Return, IdleThread
  <2>2. InFlight(u)' \subseteq InFlight(u)
    BY <2>1, InFlightStep DEF Unrecorded
  <2>3. QED
    BY <1>2, <2>2, MildBound
<1>4. CASE ok /\ Goto(t, "auth_read")
  <2>1. thread'[t].uid = v /\ thread[t].pc = "auth_rate"
    BY SMTT(40), <1>0, <1>4 DEF Goto, ThreadState, AuthRate, check_caller_allowed, At
  <2>2. CASE u # v
    <3>1. InFlight(u)' \subseteq InFlight(u)
      BY SMTT(40), <2>1, <2>2 DEF InFlight
    <3>2. QED
      BY <1>2, <3>1, MildBound
  <2>3. CASE u = v
    <3> DEFINE J == Cardinality(InFlight(u)')
               N == Cardinality(Threads)
    <3>1. InFlight(u)' \in SUBSET Threads
      BY SMTT(40) DEF InFlight
    <3>2. J \in Nat /\ N \in Nat /\ J <= N
      BY <3>1, ThreadSets
    <3>3. RL!check_allowed(v, TRUE)
      BY Zenon, <1>1, <1>4
    <3>4. attempts_'[u] # None => attempts_'[u].failed_count < max_failures
      BY Zenon, <1>0, <2>3, <3>3, AllowedBelowMaximum
    <3>5. attempts_'[u] # None => attempts_'[u].failed_count \in Nat
      BY DEF AttemptsOK, RL!AuthAttempt
    <3>6. max_failures \in Nat
      BY AuthConfig
    <3>7. SUFFICES ASSUME attempts_'[u] # None
                   PROVE  attempts_'[u].failed_count + J <= max_failures - 1 + N
      BY DEF Bound
    <3> HIDE DEF J, N
    <3>8. QED
      BY SMTT(40), <3>2, <3>4, <3>5, <3>6, <3>7
  <2>4. QED
    BY <2>2, <2>3
<1>5. QED
  BY SMTT(40), <1>1, <1>3, <1>4

(* Recording a failure turns an attempt in flight into a counted one. *)
LEMMA FailBound ==
    ASSUME ThreadsOK, AttemptsOK, AttemptsOK', NEW t \in Threads, AuthFail(t),
           \A s \in Threads \ {t} : thread'[s] = thread[s],
           NEW u \in Uids, Bound(u)
    PROVE  Bound(u)'
<1> DEFINE v == thread[t].uid
<1>0. /\ thread[t] \in ThreadState /\ thread \in [Threads -> ThreadState] /\ v \in Uids
      /\ thread[t].pc = "auth_fail"
  BY DEF ThreadsOK, GoodState, AuthFail, At
<1>1. RL!record_failure(v) /\ Return(t)
  BY DEF AuthFail
<1>2. thread'[t].pc = "idle"
  BY SMTT(40), <1>0, <1>1 DEF Return, IdleThread
<1>3. InFlight(u)' = InFlight(u) \ {t}
  BY SMTT(40), <1>2, InFlightStep DEF Unrecorded
<1>4. CASE u # v
  <2>1. attempts_'[u] = attempts_[u]
    BY <1>0, <1>1, <1>4 DEF RL!record_failure, AttemptsOK
  <2>2. Milder(u)
    BY <2>1 DEF Milder
  <2>3. InFlight(u)' \subseteq InFlight(u)
    BY Zenon, <1>3
  <2>4. QED
    BY Zenon, <2>2, <2>3, MildBound
<1>5. CASE u = v
  <2> DEFINE I == Cardinality(InFlight(u))
             J == Cardinality(InFlight(u)')
             N == Cardinality(Threads)
  <2>1. t \in InFlight(u) /\ InFlight(u) \in SUBSET Threads
    BY <1>0, <1>5 DEF InFlight
  <2>2. IsFiniteSet(InFlight(u)) /\ I \in Nat /\ N \in Nat /\ I <= N
    BY <2>1, ThreadSets
  <2>3. J = I - 1
    BY Zenon, <1>3, <2>1, <2>2, FS_RemoveElement
  <2>4. attempts_'[u] = RL!AfterFailure(attempts_[u])
    BY <1>0, <1>1, <1>5 DEF RL!record_failure, AttemptsOK
  <2>5. max_failures \in Nat \ {0}
    BY AuthConfig
  <2>6. CASE attempts_[u] = None
    <3>1. attempts_'[u].failed_count = 1
      BY <2>4, <2>6 DEF RL!AfterFailure, RL!ResetAttempt
    <3>2. 1 + J <= max_failures - 1 + N
      <4> HIDE DEF I, J, N
      <4>1. QED
        BY <2>2, <2>3, <2>5
    <3>3. QED
      BY <3>1, <3>2 DEF Bound
  <2>7. CASE attempts_[u] # None
    <3>1. attempts_[u].failed_count \in Nat
      BY <2>7 DEF AttemptsOK, RL!AuthAttempt
    <3>2. attempts_'[u].failed_count = attempts_[u].failed_count + 1
      BY <2>4, <2>7 DEF RL!AfterFailure
    <3>3. attempts_[u].failed_count + I <= max_failures - 1 + N
      BY <2>7 DEF Bound
    <3>4. attempts_'[u].failed_count + J <= max_failures - 1 + N
      <4> HIDE DEF I, J, N
      <4>1. QED
        BY <2>2, <2>3, <2>5, <3>1, <3>2, <3>3
    <3>5. QED
      BY <3>4 DEF Bound
  <2>8. QED
    BY <2>6, <2>7
<1>6. QED
  BY <1>4, <1>5

(* Check and recording are separate critical sections, so concurrent attempts
   overshoot max_failures: by one per further Binder thread, never by more. *)
THEOREM ConcurrentFailuresBounded == Spec => []FailuresBounded
<1>1. Init => FailuresBounded
  BY DEF Init, RL!Init, FailuresBounded
<1>2. Inv /\ Inv' /\ FailuresBounded /\ [Next]_vars => FailuresBounded'
  <2> SUFFICES ASSUME Inv, Inv', FailuresBounded, [Next]_vars, NEW u \in Uids
               PROVE  Bound(u)'
    BY SMTT(40) DEF FailuresBounded, Bound
  <2>0. /\ ThreadsOK /\ SessionOK /\ ClockOK /\ ChallengesOK /\ AttemptsOK /\ AttemptsOK'
        /\ Bound(u) /\ \A t \in Threads : Admission(t)
    BY Zenon DEF Inv, FailuresBounded, Bound, AdmittedOwnsSession, Admission
  <2>1. ASSUME NEW t \in Threads, Arrive(t) \/ Step(t) PROVE Bound(u)'
    <3>1. \A s \in Threads \ {t} : thread'[s] = thread[s]
      BY ZenonT(40), <2>0, <2>1, ArriveMoves, StepMoves DEF Moved
    <3>2. CASE AuthRate(t)
      BY Zenon, <2>0, <3>1, <3>2, RateBound
    <3>3. CASE AuthFail(t)
      BY Zenon, <2>0, <3>1, <3>3, FailBound
    <3>4. CASE ~ AuthRate(t) /\ ~ AuthFail(t)
      <4>1. InFlight(u)' \subseteq InFlight(u)
        BY Zenon, <2>0, <2>1, <3>1, <3>4, NoNewAttempt
      <4>2. Milder(u)
        <5>1. ASSUME attempts_' = attempts_ PROVE Milder(u)
          BY SMTT(40), <5>1 DEF Milder
        <5>2. CASE Arrive(t)
          BY Zenon, <5>1, <5>2 DEF Arrive, getChallenge, authenticate, ApiCall, Start
        <5>3. ASSUME NEW x \in {"challenge_caller", "auth_caller", "api_caller"}, NEW y,
                     check_caller_allowed(t, x, y)
              PROVE  Milder(u)
          <6>1. thread[t].uid \in Uids
            BY <2>0, <5>3 DEF check_caller_allowed, At, ThreadsOK, GoodState
          <6>2. QED
            BY SMTT(40), <2>0, <5>3, <6>1, LimiterMild DEF check_caller_allowed
        <5>4. CASE AuthRecord(t)
          <6>1. thread[t].uid \in Uids
            BY <2>0, <5>4 DEF AuthRecord, At, ThreadsOK, GoodState
          <6>2. QED
            BY SMTT(40), <2>0, <5>4, <6>1, LimiterMild DEF AuthRecord
        <5>5. CASE \/ get_challenge(t) \/ AuthRead(t) \/ AuthVerify(t) \/ AuthReject(t)
                   \/ AuthConsume(t) \/ AuthCreate(t) \/ AuthReply(t)
                   \/ ApiGet(t) \/ ApiValidate(t) \/ ApiUpdate(t) \/ ApiReturn(t)
          BY <5>1, <5>5 DEF get_challenge, AuthRead, AuthVerify, AuthReject, AuthConsume,
               AuthCreate, AuthReply, ApiGet, ApiValidate, ApiUpdate, ApiReturn
        <5>6. QED
          BY <2>1, <3>4, <5>2, <5>3, <5>4, <5>5 DEF Step
      <4>3. QED
        BY SMTT(40), <2>0, <4>1, <4>2, MildBound
    <3>5. QED
      BY SMTT(40), <3>2, <3>3, <3>4
  <2>2. ASSUME thread' = thread, Milder(u) PROVE Bound(u)'
    <3>1. InFlight(u)' \subseteq InFlight(u)
      BY <2>2 DEF InFlight
    <3>2. QED
      BY <2>0, <2>2, <3>1, MildBound
  <2>3. CASE CleanLimiter
    BY <2>0, <2>2, <2>3, LimiterMild DEF CleanLimiter
  <2>4. CASE \/ \E v \in Uids, g \in Generations : checkSession(v, <<v, g>>)
             \/ CleanSessions \/ Clock \/ UNCHANGED vars
    BY Zenon, <2>2, <2>4 DEF checkSession, CleanSessions, Clock, vars, Milder
  <2>5. QED
    BY <2>1, <2>3, <2>4 DEF Next
<1>3. QED
  BY <1>1, <1>2, InvHolds, PTL DEF Spec
=============================================================================
