---------------------------- MODULE AuthManager ----------------------------
(***************************************************************************)
(* Authentication as the daemon runs it: Binder threads execute            *)
(* getChallenge, authenticate, checkSession and authenticated API calls    *)
(* (daemon/ipc/futon_daemon_impl.cpp, daemon/core/auth/auth_manager.cpp)   *)
(* on one session manager and one rate limiter, and a clean-up thread runs *)
(* beside them (daemon/main.cpp).  Each component locks its own mutex per  *)
(* call, so a handler is a sequence of atomic steps and other threads and  *)
(* the clock run between any two of them.                                  *)
(***************************************************************************)
EXTENDS Integers, FiniteSets

CONSTANTS
    Threads,                \* the Binder thread pool
    Uids,
    Generations,            \* instance ids one installation goes through
    None,
    SESSION_TIMEOUT_MS, CHALLENGE_TIMEOUT_MS,
    max_failures, initial_backoff_ms, max_backoff_ms, reset_window_ms,
    backoff_multiplier,
    MaxTime, MaxChallenges  \* bounds

(* An instance id is a random UUID of one installation: it names its uid. *)
InstanceIds == Uids \X Generations

VARIABLES
    initialized_, active_session_, pending_challenges_, generated,  \* SessionManager
    attempts_,              \* RateLimiter
    now,
    thread,                 \* what each Binder thread is doing
    cleaner,                \* the auth clean-up thread
    received                \* the challenge each client got last, 0 if none

SM == INSTANCE SessionManager

(* A uid's failures never reach this, see FailuresBounded. *)
RL == INSTANCE RateLimiter WITH MaxFailedCount <- max_failures + Cardinality(Threads)

session_state == <<initialized_, active_session_, pending_challenges_, generated>>
vars == <<initialized_, active_session_, pending_challenges_, generated,
          attempts_, now, thread, cleaner, received>>

ASSUME AuthConfig ==
    /\ IsFiniteSet(Threads)
    /\ max_failures \in Nat \ {0}
    /\ initial_backoff_ms \in Nat \ {0}
    /\ max_backoff_ms \in Nat \ {0}
    /\ reset_window_ms \in Nat \ {0}
    /\ backoff_multiplier \in Nat \ {0}
    /\ SESSION_TIMEOUT_MS \in Nat
    /\ CHALLENGE_TIMEOUT_MS \in Nat
    /\ MaxTime \in Nat
    /\ MaxChallenges \in Nat

ASSUME NoneIsNoValue ==
    /\ None \notin SM!Session \cup SM!PendingChallenge \cup RL!AuthAttempt
    /\ None \notin InstanceIds \cup InstanceIds \X Uids

(* Where a thread can be: the next locked step of its handler. *)
AuthSteps == {"auth_rate", "auth_read", "auth_verify", "auth_reject", "auth_fail",
              "auth_consume", "auth_create", "auth_record", "auth_reply"}
Steps == AuthSteps \cup
    {"idle", "challenge_caller", "challenge_create", "auth_caller",
     "api_caller", "api_get", "api_validate", "api_update", "api_run"}

(* Locals of a handler: the signature (the number of the challenge it signs, 0
   for one that verifies against none), the challenge read, and the last
   activity of the session when the thread saw it as its own. *)
IdleThread == [pc |-> "idle", uid |-> None, iid |-> None,
               signature |-> 0, challenge |-> 0, seen |-> 0]

Init ==
    /\ initialized_ \in BOOLEAN     \* main goes on when initialize() fails
    /\ active_session_ = None
    /\ pending_challenges_ = [u \in Uids |-> None]
    /\ generated = 0
    /\ RL!Init
    /\ thread = [t \in Threads |-> IdleThread]
    /\ cleaner = "sessions"
    /\ received = [u \in Uids |-> 0]

-----------------------------------------------------------------------------

At(t, step) == thread[t].pc = step
Goto(t, step) == thread' = [thread EXCEPT ![t].pc = step]
Return(t) == thread' = [thread EXCEPT ![t] = IdleThread]

(* A transaction arrives: the handler starts with the caller's arguments. *)
Start(t, step, uid, iid, signature) ==
    /\ At(t, "idle")
    /\ thread' = [thread EXCEPT ![t] =
           [pc |-> step, uid |-> uid, iid |-> iid,
            signature |-> signature, challenge |-> 0, seen |-> 0]]
    /\ UNCHANGED <<session_state, attempts_, now, cleaner, received>>

(* AuthManager::check_caller_allowed: rate limit, then the caller verifier,
   whose verdict on the calling process is the environment's. *)
check_caller_allowed(t, step, next) ==
    /\ At(t, step)
    /\ \E allowed \in BOOLEAN :
          /\ RL!check_allowed(thread[t].uid, allowed)
          /\ (allowed /\ Goto(t, next)) \/ Return(t)
    /\ UNCHANGED <<session_state, now, cleaner, received>>

(* getChallenge: check the caller, then create_challenge and reply. *)
getChallenge(t, uid) == Start(t, "challenge_caller", uid, None, 0)

get_challenge(t) ==
    /\ At(t, "challenge_create")
    /\ \E result \in (1 .. MaxChallenges) \cup {None} :
          /\ SM!create_challenge(thread[t].uid, result)
          /\ received' = IF result = None THEN received
                         ELSE [received EXCEPT ![thread[t].uid] = result]
    /\ Return(t)
    /\ UNCHANGED <<attempts_, now, cleaner>>

(* checkSession is one call of the session manager. *)
checkSession(uid, iid) ==
    /\ \E own \in BOOLEAN : SM!check_session(iid, uid, own)
    /\ UNCHANGED <<attempts_, now, thread, cleaner, received>>

-----------------------------------------------------------------------------
(* authenticate: the client signs the challenge it got last, or the signature
   does not verify (a regenerated key, a corrupted reply). *)

authenticate(t, uid, iid) ==
    \E signature \in {0, received[uid]} : Start(t, "auth_caller", uid, iid, signature)

(* The second rate check, made by AuthManager itself; a device fingerprint
   mismatch returns as well. *)
AuthRate(t) == check_caller_allowed(t, "auth_rate", "auth_read")

AuthRead(t) ==
    /\ At(t, "auth_read")
    /\ LET c == SM!get_pending_challenge(thread[t].uid)
       IN  IF c = None
           THEN Goto(t, "auth_fail")
           ELSE thread' = [thread EXCEPT ![t].pc = "auth_verify", ![t].challenge = c]
    /\ UNCHANGED <<session_state, attempts_, now, cleaner, received>>

(* Whitelisted keys, then the legacy key.  Which keys are loaded and whether the
   pinned fingerprint matches is decided outside: no key is a failure, a pin
   mismatch returns without recording anything. *)
AuthVerify(t) ==
    /\ At(t, "auth_verify")
    /\ \/ thread[t].signature = thread[t].challenge /\ Goto(t, "auth_consume")
       \/ thread[t].signature # thread[t].challenge /\ Goto(t, "auth_reject")
       \/ Goto(t, "auth_fail")          \* PUBKEY_NOT_FOUND
       \/ Return(t)                     \* PUBKEY_TAMPERED
    /\ UNCHANGED <<session_state, attempts_, now, cleaner, received>>

(* SIGNATURE_INVALID consumes the challenge before the failure is recorded. *)
AuthReject(t) ==
    /\ At(t, "auth_reject")
    /\ SM!consume_challenge(thread[t].uid)
    /\ Goto(t, "auth_fail")
    /\ UNCHANGED <<attempts_, now, cleaner, received>>

AuthFail(t) ==
    /\ At(t, "auth_fail")
    /\ RL!record_failure(thread[t].uid)
    /\ Return(t)
    /\ UNCHANGED <<session_state, now, cleaner, received>>

AuthConsume(t) ==
    /\ At(t, "auth_consume")
    /\ SM!consume_challenge(thread[t].uid)
    /\ Goto(t, "auth_create")
    /\ UNCHANGED <<attempts_, now, cleaner, received>>

(* SESSION_CONFLICT returns; the challenge is gone, the limiter untouched. *)
AuthCreate(t) ==
    /\ At(t, "auth_create")
    /\ \E ok \in BOOLEAN :
          /\ SM!create_session(thread[t].iid, thread[t].uid, ok)
          /\ IF ok
             THEN thread' = [thread EXCEPT ![t].pc = "auth_record", ![t].seen = now]
             ELSE Return(t)
    /\ UNCHANGED <<attempts_, now, cleaner, received>>

AuthRecord(t) ==
    /\ At(t, "auth_record")
    /\ RL!record_success(thread[t].uid)
    /\ Goto(t, "auth_reply")
    /\ UNCHANGED <<session_state, now, cleaner, received>>

(* The handler tells the client that it owns the session. *)
AuthReply(t) ==
    /\ At(t, "auth_reply")
    /\ Return(t)
    /\ UNCHANGED <<session_state, attempts_, now, cleaner, received>>

-----------------------------------------------------------------------------
(* check_authenticated, at the start of every other API call. *)

ApiCall(t, uid) == Start(t, "api_caller", uid, None, 0)

(* MUTANT of ApiGet: the uid of the snapshot is not compared. *)
ApiGetAnyUid(t) ==
    /\ At(t, "api_get")
    /\ LET s == SM!get_active_session
       IN  IF s # None
           THEN thread' = [thread EXCEPT ![t].pc = "api_validate", ![t].iid = s.instance_id]
           ELSE Return(t)
    /\ UNCHANGED <<session_state, attempts_, now, cleaner, received>>

(* A snapshot of the session under its lock; the uids are compared after it. *)
ApiGet(t) ==
    /\ At(t, "api_get")
    /\ LET s == SM!get_active_session
       IN  IF s # None /\ s.client_uid = thread[t].uid
           THEN thread' = [thread EXCEPT ![t].pc = "api_validate", ![t].iid = s.instance_id]
           ELSE Return(t)
    /\ UNCHANGED <<session_state, attempts_, now, cleaner, received>>

(* MUTANT of ApiValidate: the snapshot is trusted. *)
ApiTrustSnapshot(t) ==
    /\ At(t, "api_validate")
    /\ thread' = [thread EXCEPT ![t].pc = "api_update", ![t].seen = now]
    /\ UNCHANGED <<session_state, attempts_, now, cleaner, received>>

ApiValidate(t) ==
    /\ At(t, "api_validate")
    /\ \E ok \in BOOLEAN :
          /\ SM!validate_session(thread[t].iid, thread[t].uid, ok)
          /\ IF ok
             THEN thread' = [thread EXCEPT ![t].pc = "api_update",
                                           ![t].seen = active_session_.last_activity_ms]
             ELSE Return(t)
    /\ UNCHANGED <<attempts_, now, cleaner, received>>

ApiUpdate(t) ==
    /\ At(t, "api_update")
    /\ SM!update_activity(thread[t].iid)
    /\ thread' = [thread EXCEPT ![t].pc = "api_run",
                                ![t].seen = IF SM!OwnInstance(thread[t].iid) THEN now ELSE @]
    /\ UNCHANGED <<attempts_, now, cleaner, received>>

(* The body of the call runs, for any time, and returns. *)
ApiReturn(t) ==
    /\ At(t, "api_run")
    /\ Return(t)
    /\ UNCHANGED <<session_state, attempts_, now, cleaner, received>>

-----------------------------------------------------------------------------

(* AuthManager::cleanup_expired, every 30 s: sessions, then the limiter. *)
CleanSessions ==
    /\ cleaner = "sessions"
    /\ SM!cleanup_expired
    /\ cleaner' = "limiter"
    /\ UNCHANGED <<attempts_, now, thread, received>>

CleanLimiter ==
    /\ cleaner = "limiter"
    /\ RL!cleanup_expired
    /\ cleaner' = "sessions"
    /\ UNCHANGED <<session_state, now, thread, received>>

Clock == RL!Tick /\ UNCHANGED <<session_state, attempts_, thread, cleaner, received>>

Arrive(t) ==
    \E uid \in Uids :
        \/ getChallenge(t, uid)
        \/ \E g \in Generations : authenticate(t, uid, <<uid, g>>)
        \/ ApiCall(t, uid)

Step(t) ==
    \/ check_caller_allowed(t, "challenge_caller", "challenge_create")
    \/ get_challenge(t)
    \/ check_caller_allowed(t, "auth_caller", "auth_rate")
    \/ AuthRate(t) \/ AuthRead(t) \/ AuthVerify(t) \/ AuthReject(t) \/ AuthFail(t)
    \/ AuthConsume(t) \/ AuthCreate(t) \/ AuthRecord(t) \/ AuthReply(t)
    \/ check_caller_allowed(t, "api_caller", "api_get")
    \/ ApiGet(t) \/ ApiValidate(t) \/ ApiUpdate(t) \/ ApiReturn(t)

Next ==
    \/ \E t \in Threads : Arrive(t) \/ Step(t)
    \/ \E uid \in Uids, g \in Generations : checkSession(uid, <<uid, g>>)
    \/ CleanSessions
    \/ CleanLimiter
    \/ Clock

Spec == Init /\ [][Next]_vars

-----------------------------------------------------------------------------

ThreadState == [pc : Steps, uid : Uids \cup {None}, iid : InstanceIds \cup {None},
                signature : Nat, challenge : Nat, seen : Nat]

(* Steps of a thread that works on an instance id. *)
InstanceSteps == AuthSteps \cup {"auth_caller", "api_validate", "api_update", "api_run"}

(* Types; a busy thread serves a uid, and a thread and the session only ever
   work on an instance id of their own uid. *)
TypeOK ==
    /\ SM!TypeOK
    /\ attempts_ \in [Uids -> RL!AuthAttempt \cup {None}]
    /\ thread \in [Threads -> ThreadState]
    /\ cleaner \in {"sessions", "limiter"}
    /\ received \in [Uids -> Nat]
    /\ active_session_ # None => active_session_.instance_id[1] = active_session_.client_uid
    /\ \A t \in Threads :
          /\ ~ At(t, "idle") => thread[t].uid \in Uids
          /\ thread[t].pc \in InstanceSteps =>
                 thread[t].iid \in InstanceIds /\ thread[t].iid[1] = thread[t].uid

(* Threads that were told that the session is theirs: authenticate after
   create_session, an API call after validate_session. *)
Admitted(t) == thread[t].pc \in {"auth_record", "auth_reply", "api_update", "api_run"}

OwnsSession(t) ==
    /\ active_session_ # None
    /\ active_session_.instance_id = thread[t].iid
    /\ active_session_.client_uid = thread[t].uid
    /\ active_session_.last_activity_ms >= thread[t].seen

TimedOut(t) == now - thread[t].seen > SESSION_TIMEOUT_MS

(* check_authenticated and authenticate decide in several critical sections;
   still, an admitted caller owns the session at every later moment until
   SESSION_TIMEOUT_MS have passed since the activity it was admitted on. *)
AdmittedOwnsSession == \A t \in Threads : Admitted(t) => OwnsSession(t) \/ TimedOut(t)

(* "Only one active session at a time" seen by the callers: calls of two
   different installations are never admitted together within one timeout. *)
ExclusiveAdmission ==
    \A t1, t2 \in Threads :
        Admitted(t1) /\ Admitted(t2) /\ thread[t1].iid # thread[t2].iid
            => TimedOut(t1) \/ TimedOut(t2)

(* No step of any handler, and no run of the clean-up thread, ends a live session,
   hands it to another client or takes activity back from it: it ends by idling only
   (invalidate_session has no caller in the daemon). *)
LiveSessionKept ==
    [][SM!Live => /\ active_session_' # None
                  /\ SM!Owner(active_session_') = SM!Owner(active_session_)
                  /\ active_session_'.last_activity_ms >= active_session_.last_activity_ms]_vars

(* Threads whose failure, if it is one, is still to be recorded. *)
InFlight(u) ==
    {t \in Threads : thread[t].uid = u /\ thread[t].pc \in
        {"auth_read", "auth_verify", "auth_reject", "auth_fail"}}

(* The check and the recording of a failure are separate critical sections, so
   concurrent attempts overshoot max_failures, by one per further thread at
   most: checks that were allowed and failures recorded are bounded together. *)
FailuresBounded ==
    \A u \in Uids :
        attempts_[u] # None =>
            attempts_[u].failed_count + Cardinality(InFlight(u))
                <= max_failures - 1 + Cardinality(Threads)

(* SECURITY.md: "Challenge is single-use and expires after 30 seconds".  No two
   calls of authenticate are past the verification of one challenge. *)
ChallengeSingleUse ==
    \A t1, t2 \in Threads :
        /\ t1 # t2
        /\ thread[t1].pc \in {"auth_consume", "auth_create", "auth_record", "auth_reply"}
        /\ thread[t2].pc \in {"auth_consume", "auth_create", "auth_record", "auth_reply"}
        => thread[t1].challenge # thread[t2].challenge
=============================================================================
