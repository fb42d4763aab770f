--------------------------- MODULE SessionManager ---------------------------
(***************************************************************************)
(* Challenges and the single session of the daemon                         *)
(* (daemon/core/auth/session_manager.cpp).  Every method runs under mutex_ *)
(* and is one action; a return value is a parameter of the action.  A      *)
(* challenge is a fresh random value: a number never used before.  Its     *)
(* encryption in memory succeeds or fails as a whole.                      *)
(***************************************************************************)
EXTENDS Integers

CONSTANTS
    Uids, InstanceIds,
    None,                               \* an empty std::optional
    SESSION_TIMEOUT_MS, CHALLENGE_TIMEOUT_MS,
    MaxTime,                            \* bound: last instant of the clock
    MaxChallenges                       \* bound: challenges ever generated

VARIABLES initialized_, active_session_, pending_challenges_,
          generated,                    \* challenges generated so far
          now

vars == <<initialized_, active_session_, pending_challenges_, generated, now>>

Session == [instance_id : InstanceIds, client_uid : Uids,
            created_at_ms : Nat, last_activity_ms : Nat]

PendingChallenge == [challenge : Nat \ {0}, created_at_ms : Nat]

ASSUME Timeouts ==
    /\ SESSION_TIMEOUT_MS \in Nat
    /\ CHALLENGE_TIMEOUT_MS \in Nat
    /\ MaxTime \in Nat
    /\ MaxChallenges \in Nat

ASSUME NoneIsNoValue ==
    /\ None \notin Session \cup PendingChallenge
    /\ None \notin InstanceIds \X Uids

Init ==
    /\ initialized_ = FALSE
    /\ active_session_ = None
    /\ pending_challenges_ = [u \in Uids |-> None]
    /\ generated = 0
    /\ now = 1

-----------------------------------------------------------------------------

SessionExpired(s) == now - s.last_activity_ms > SESSION_TIMEOUT_MS

ChallengeExpired(p) == now - p.created_at_ms > CHALLENGE_TIMEOUT_MS

(* derive_session_key may fail; then the manager stays uninitialised. *)
initialize ==
    /\ initialized_' \in (IF initialized_ THEN {TRUE} ELSE BOOLEAN)
    /\ UNCHANGED <<active_session_, pending_challenges_, generated>>

(* result is the challenge, or None for the empty vector: not initialised, or
   no randomness or no encryption. BOUND: MaxChallenges. *)
create_challenge(uid, result) ==
    \/ /\ initialized_
       /\ generated < MaxChallenges
       /\ result = generated + 1
       /\ generated' = generated + 1
       /\ pending_challenges_' = [pending_challenges_ EXCEPT ![uid] =
              [challenge |-> generated + 1, created_at_ms |-> now]]
       /\ UNCHANGED <<initialized_, active_session_>>
    \/ /\ result = None
       /\ UNCHANGED <<initialized_, active_session_, pending_challenges_, generated>>

(* The value get_pending_challenge returns; it changes nothing. *)
get_pending_challenge(uid) ==
    LET p == pending_challenges_[uid]
    IN  IF ~ initialized_ \/ p = None THEN None
        ELSE IF ChallengeExpired(p) THEN None
        ELSE p.challenge

validate_challenge(challenge, uid, ok) ==
    /\ ok = (get_pending_challenge(uid) = challenge)
    /\ pending_challenges_' = [pending_challenges_ EXCEPT ![uid] =
           IF ~ initialized_ \/ @ = None THEN @
           ELSE IF ChallengeExpired(@) THEN None ELSE @]
    /\ UNCHANGED <<initialized_, active_session_, generated>>

(* clear_challenge, which consume_challenge calls. *)
consume_challenge(uid) ==
    /\ pending_challenges_' = [pending_challenges_ EXCEPT ![uid] = None]
    /\ UNCHANGED <<initialized_, active_session_, generated>>

-----------------------------------------------------------------------------

OwnInstance(iid) == active_session_ # None /\ active_session_.instance_id = iid

(* MUTANT of Touched: the deadline is stored where the activity belongs. *)
TouchedToDeadline(s) == [s EXCEPT !.last_activity_ms = now + SESSION_TIMEOUT_MS]

Touched(s) == [s EXCEPT !.last_activity_ms = now]

(* MUTANT of create_session: another instance takes a live session over. *)
CreateSessionTakesOver(iid, uid, ok) ==
    /\ ok
    /\ active_session_' = IF OwnInstance(iid) THEN Touched(active_session_)
                          ELSE [instance_id |-> iid, client_uid |-> uid,
                                created_at_ms |-> now, last_activity_ms |-> now]
    /\ UNCHANGED <<initialized_, pending_challenges_, generated>>

(* Same instance: refresh, with no look at uid or expiry.  Another instance:
   refused while the session is live.  Otherwise a new session. *)
create_session(iid, uid, ok) ==
    /\ \/ /\ OwnInstance(iid)
          /\ active_session_' = Touched(active_session_)
          /\ ok
       \/ /\ active_session_ # None
          /\ ~ OwnInstance(iid)
          /\ ~ SessionExpired(active_session_)
          /\ ~ ok
          /\ UNCHANGED active_session_
       \/ /\ ~ OwnInstance(iid)
          /\ active_session_ # None => SessionExpired(active_session_)
          /\ active_session_' = [instance_id |-> iid, client_uid |-> uid,
                                 created_at_ms |-> now, last_activity_ms |-> now]
          /\ ok
    /\ UNCHANGED <<initialized_, pending_challenges_, generated>>

(* A match that has expired is dropped on the way. *)
validate_session(iid, uid, ok) ==
    LET match == OwnInstance(iid) /\ active_session_.client_uid = uid
    IN  /\ ok = (match /\ ~ SessionExpired(active_session_))
        /\ active_session_' = IF match /\ ~ ok THEN None ELSE active_session_
        /\ UNCHANGED <<initialized_, pending_challenges_, generated>>

update_activity(iid) ==
    /\ active_session_' = IF OwnInstance(iid) THEN Touched(active_session_) ELSE active_session_
    /\ UNCHANGED <<initialized_, pending_challenges_, generated>>

invalidate_session(iid) ==
    /\ active_session_' = IF OwnInstance(iid) THEN None ELSE active_session_
    /\ UNCHANGED <<initialized_, pending_challenges_, generated>>

invalidate_all_sessions ==
    /\ active_session_' = None
    /\ pending_challenges_' = [u \in Uids |-> None]
    /\ UNCHANGED <<initialized_, generated>>

Live == active_session_ # None /\ ~ SessionExpired(active_session_)

(* The optional get_active_session returns; has_active_session is Live. *)
get_active_session == IF Live THEN active_session_ ELSE None

(* own is SessionStatus::is_own_session; an expired session is dropped. *)
check_session(iid, uid, own) ==
    /\ own = (Live /\ OwnInstance(iid) /\ active_session_.client_uid = uid)
    /\ active_session_' = get_active_session
    /\ UNCHANGED <<initialized_, pending_challenges_, generated>>

cleanup_expired ==
    /\ active_session_' = get_active_session
    /\ pending_challenges_' = [u \in Uids |->
           IF pending_challenges_[u] # None /\ ChallengeExpired(pending_challenges_[u])
           THEN None ELSE pending_challenges_[u]]
    /\ UNCHANGED <<initialized_, generated>>

(* BOUND: the clock stops at MaxTime. *)
Tick == now < MaxTime /\ now' = now + 1

-----------------------------------------------------------------------------

ChallengeOp(uid) ==
    \/ \E result \in (1 .. MaxChallenges) \cup {None} : create_challenge(uid, result)
    \/ \E challenge \in 1 .. MaxChallenges, ok \in BOOLEAN : validate_challenge(challenge, uid, ok)
    \/ consume_challenge(uid)

SessionOp(iid, uid) ==
    \/ \E ok \in BOOLEAN : create_session(iid, uid, ok)
    \/ \E ok \in BOOLEAN : validate_session(iid, uid, ok)
    \/ \E own \in BOOLEAN : check_session(iid, uid, own)
    \/ update_activity(iid)
    \/ invalidate_session(iid)

Call ==
    /\ \/ initialize
       \/ \E uid \in Uids : ChallengeOp(uid)
       \/ \E iid \in InstanceIds, uid \in Uids : SessionOp(iid, uid)
       \/ invalidate_all_sessions
       \/ cleanup_expired
    /\ UNCHANGED now

Clock ==
    /\ Tick
    /\ UNCHANGED <<initialized_, active_session_, pending_challenges_, generated>>

Next == Call \/ Clock

Spec == Init /\ [][Next]_vars

-----------------------------------------------------------------------------

(* Types; a session and a challenge are never from the future. *)
TypeOK ==
    /\ initialized_ \in BOOLEAN
    /\ active_session_ \in Session \cup {None}
    /\ pending_challenges_ \in [Uids -> PendingChallenge \cup {None}]
    /\ generated \in Nat
    /\ now \in Nat \ {0}
    /\ active_session_ # None => active_session_.last_activity_ms <= now

Owner(s) == <<s.instance_id, s.client_uid>>

(* The lease a live session stands for. *)
Lease == INSTANCE SessionLease WITH
    Clients <- InstanceIds \X Uids,
    NoOne   <- None,
    Timeout <- SESSION_TIMEOUT_MS,
    holder  <- IF Live THEN Owner(active_session_) ELSE None,
    idle    <- IF Live THEN now - active_session_.last_activity_ms ELSE 0

(* The single session is an exclusive lease: whatever the calls, a client other
   than the holder gets it only after more than SESSION_TIMEOUT_MS of
   inactivity or an invalidation (create_session, validate_session,
   check_session, cleanup_expired taken together). *)
ImplementsLease == Lease!Spec
=============================================================================
