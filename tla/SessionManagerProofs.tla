------------------------ MODULE SessionManagerProofs ------------------------
(***************************************************************************)
(* The session manager implements the exclusive lease, for every set of    *)
(* uids and instance ids, every timeout and every bound.                   *)
(***************************************************************************)
EXTENDS SessionManager, TLAPS

(* What every operation does to the session: nothing, drop it, refresh its
   activity, or start a new one once the old one is gone or expired. *)
SessionEffect ==
    \/ active_session_' = active_session_
    \/ active_session_' = None
    \/ active_session_ # None /\ active_session_' = Touched(active_session_)
    \/ /\ ~ Live
       /\ \E iid \in InstanceIds, uid \in Uids :
             active_session_' = [instance_id |-> iid, client_uid |-> uid,
                                 created_at_ms |-> now, last_activity_ms |-> now]

(* Every operation has one of these effects. *)
LEMMA CallEffect ==
    ASSUME Call
    PROVE  SessionEffect /\ now' = now
<1>0. now' = now
  BY DEF Call
<1>1. CASE initialize
  BY <1>0, <1>1 DEF initialize, SessionEffect
<1>2. ASSUME NEW uid \in Uids, ChallengeOp(uid) PROVE SessionEffect
  BY <1>2 DEF ChallengeOp, create_challenge, validate_challenge, consume_challenge,
              SessionEffect
<1>3. ASSUME NEW iid \in InstanceIds, NEW uid \in Uids, SessionOp(iid, uid)
      PROVE  SessionEffect
  <2>1. ASSUME NEW ok \in BOOLEAN, create_session(iid, uid, ok) PROVE SessionEffect
    BY <2>1 DEF create_session, SessionEffect, OwnInstance, Live
  <2>2. ASSUME NEW ok \in BOOLEAN, validate_session(iid, uid, ok) PROVE SessionEffect
    BY <2>2 DEF validate_session, SessionEffect
  <2>3. ASSUME NEW own \in BOOLEAN, check_session(iid, uid, own) PROVE SessionEffect
    BY <2>3 DEF check_session, get_active_session, SessionEffect
  <2>4. CASE update_activity(iid)
    BY <2>4 DEF update_activity, OwnInstance, SessionEffect
  <2>5. CASE invalidate_session(iid)
    BY <2>5 DEF invalidate_session, SessionEffect
  <2>6. QED
    BY <1>3, <2>1, <2>2, <2>3, <2>4, <2>5 DEF SessionOp
<1>4. CASE invalidate_all_sessions
  BY <1>0, <1>4 DEF invalidate_all_sessions, SessionEffect
<1>5. CASE cleanup_expired
  BY <1>0, <1>5 DEF cleanup_expired, get_active_session, SessionEffect
<1>6. QED
  BY <1>0, <1>1, <1>2, <1>3, <1>4, <1>5 DEF Call

(* An effect on a well-typed session leaves a well-typed session. *)
LEMMA EffectTypes ==
    ASSUME TypeOK, SessionEffect, now' = now
    PROVE  /\ active_session_' \in Session \cup {None}
           /\ active_session_' # None => active_session_'.last_activity_ms <= now'
<1>1. CASE active_session_ # None /\ active_session_' = Touched(active_session_)
  BY <1>1 DEF TypeOK, Touched, Session
<1>2. ASSUME NEW iid \in InstanceIds, NEW uid \in Uids,
             active_session_' = [instance_id |-> iid, client_uid |-> uid,
                                 created_at_ms |-> now, last_activity_ms |-> now]
      PROVE  /\ active_session_' \in Session \cup {None}
             /\ active_session_' # None => active_session_'.last_activity_ms <= now'
  BY <1>2 DEF TypeOK, Session
<1>3. QED
  BY <1>1, <1>2 DEF SessionEffect, TypeOK
-----------------------------------------------------------------------------

(* Types, and no session from the future, in every reachable state. *)
THEOREM SessionTypeCorrect == Spec => []TypeOK
<1>1. Init => TypeOK
  <2> SUFFICES ASSUME Init
               PROVE  TypeOK
    OBVIOUS
  <2>1. initialized_ \in BOOLEAN
    BY Zenon DEF Init
  <2>2. active_session_ \in Session \cup {None} /\ active_session_ = None
    BY DEF Init
  <2>3. /\ pending_challenges_ \in [Uids -> PendingChallenge \cup {None}]
        /\ generated \in Nat /\ now \in Nat \ {0}
    BY DEF Init
  <2>4. QED
    BY <2>1, <2>2, <2>3 DEF TypeOK
<1>2. TypeOK /\ [Next]_vars => TypeOK'
  <2> SUFFICES ASSUME TypeOK, [Next]_vars
               PROVE  TypeOK'
    OBVIOUS
  <2>1. CASE Call
    <3>1. /\ active_session_' \in Session \cup {None}
          /\ active_session_' # None => active_session_'.last_activity_ms <= now'
          /\ now' = now
      BY <2>1, CallEffect, EffectTypes
    <3> DEFINE RestOK == /\ initialized_ \in BOOLEAN
                         /\ pending_challenges_ \in [Uids -> PendingChallenge \cup {None}]
                         /\ generated \in Nat
    <3>2. RestOK'
      <4> USE DEF TypeOK
      <4>1. CASE initialize
        BY Zenon, <4>1 DEF initialize
      <4>2. ASSUME NEW uid \in Uids, ChallengeOp(uid) PROVE RestOK'
        <5>1. ASSUME NEW r, create_challenge(uid, r) PROVE RestOK'
          <6>1. [challenge |-> generated + 1, created_at_ms |-> now] \in PendingChallenge
            BY DEF PendingChallenge
          <6>2. QED
            BY <5>1, <6>1 DEF create_challenge
        <5>2. ASSUME NEW c, NEW ok, validate_challenge(c, uid, ok) PROVE RestOK'
          BY <5>2 DEF validate_challenge
        <5>3. CASE consume_challenge(uid)
          BY <5>3 DEF consume_challenge
        <5>4. QED
          BY <4>2, <5>1, <5>2, <5>3 DEF ChallengeOp
      <4>3. ASSUME NEW iid \in InstanceIds, NEW uid \in Uids, SessionOp(iid, uid)
            PROVE  RestOK'
        BY <4>3 DEF SessionOp, create_session, validate_session, check_session,
                    update_activity, invalidate_session
      <4>4. CASE invalidate_all_sessions
        BY <4>4 DEF invalidate_all_sessions
      <4>5. CASE cleanup_expired
        <5>1. pending_challenges_' \in [Uids -> PendingChallenge \cup {None}]
          BY <4>5 DEF cleanup_expired
        <5>2. initialized_' = initialized_ /\ generated' = generated
          BY <4>5 DEF cleanup_expired
        <5>3. QED
          BY <5>1, <5>2
      <4>6. QED
        BY <2>1, <4>1, <4>2, <4>3, <4>4, <4>5 DEF Call
    <3>3. QED
      BY <3>1, <3>2 DEF TypeOK
  <2>2. CASE Clock
    BY <2>2, Timeouts DEF Clock, Tick, TypeOK, Session
  <2>3. CASE UNCHANGED vars
    BY <2>3 DEF vars, TypeOK
  <2>4. QED
    BY <2>1, <2>2, <2>3 DEF Next
<1>3. QED
  BY <1>1, <1>2, PTL DEF Spec

-----------------------------------------------------------------------------

(* Facts about a session and the lease it stands for. *)
LEMMA OwnerIsClient ==
    ASSUME NEW s \in Session
    PROVE  Owner(s) \in InstanceIds \X Uids /\ Owner(s) # None
BY NoneIsNoValue DEF Owner, Session

(* A session just touched or created is live. *)
LEMMA FreshIsLive ==
    ASSUME TypeOK, now' = now, active_session_' # None,
           active_session_'.last_activity_ms = now
    PROVE  Live'
BY Timeouts DEF TypeOK, Live, SessionExpired

(* Every operation of the session manager is a step of the lease. *)
LEMMA EffectIsLeaseStep ==
    ASSUME TypeOK, SessionEffect, now' = now
    PROVE  [Lease!Next]_(Lease!vars)
<1> DEFINE h == IF Live THEN Owner(active_session_) ELSE None
           i == IF Live THEN now - active_session_.last_activity_ms ELSE 0
<1>0. active_session_ # None => Owner(active_session_) # None
  BY OwnerIsClient DEF TypeOK
<1>1. CASE active_session_' = active_session_
  <2>1. h' = h /\ i' = i
    BY <1>1 DEF Live, SessionExpired, Owner
  <2>2. QED
    BY <2>1 DEF Lease!vars
<1>2. CASE active_session_' = None
  <2>1. h' = None /\ i' = 0
    BY <1>2 DEF Live
  <2>2. CASE Live
    <3>1. h # None
      BY <1>0, <2>2 DEF Live
    <3>2. Lease!Release
      BY <2>1, <3>1 DEF Lease!Release
    <3>3. QED
      BY <3>2 DEF Lease!Next
  <2>3. CASE ~ Live
    BY <2>1, <2>3 DEF Lease!vars
  <2>4. QED
    BY <2>2, <2>3
<1>3. CASE active_session_ # None /\ active_session_' = Touched(active_session_)
  <2>1. /\ active_session_ \in Session /\ active_session_' \in Session
        /\ active_session_'.last_activity_ms = now
        /\ Owner(active_session_)' = Owner(active_session_)
    BY <1>3 DEF TypeOK, Touched, Session, Owner
  <2>2. active_session_' # None
    BY <2>1, NoneIsNoValue
  <2>3. Live'
    BY <2>1, <2>2, FreshIsLive
  <2>4. h' = Owner(active_session_) /\ i' = 0
    BY <2>1, <2>3 DEF TypeOK
  <2>5. CASE Live
    <3>1. Lease!Renew
      BY <1>0, <1>3, <2>4, <2>5 DEF Lease!Renew
    <3>2. QED
      BY <3>1 DEF Lease!Next
  <2>6. CASE ~ Live
    <3>1. Lease!Acquire(Owner(active_session_))
      BY <2>4, <2>6 DEF Lease!Acquire
    <3>2. Owner(active_session_) \in InstanceIds \X Uids
      BY <2>1, OwnerIsClient
    <3>3. QED
      BY <3>1, <3>2 DEF Lease!Next
  <2>7. QED
    BY <2>5, <2>6
<1>4. ASSUME ~ Live, NEW iid \in InstanceIds, NEW uid \in Uids,
             active_session_' = [instance_id |-> iid, client_uid |-> uid,
                                 created_at_ms |-> now, last_activity_ms |-> now]
      PROVE  [Lease!Next]_(Lease!vars)
  <2>1. /\ active_session_' \in Session
        /\ active_session_'.last_activity_ms = now
        /\ Owner(active_session_)' = <<iid, uid>>
    BY <1>4 DEF TypeOK, Session, Owner
  <2>2. active_session_' # None
    BY <2>1, NoneIsNoValue
  <2>3. Live'
    BY <2>1, <2>2, FreshIsLive
  <2>4. h' = <<iid, uid>> /\ i' = 0
    BY <2>1, <2>3 DEF TypeOK
  <2>5. Lease!Acquire(<<iid, uid>>)
    BY <1>4, <2>4 DEF Lease!Acquire
  <2>6. QED
    BY <2>5 DEF Lease!Next
<1>5. QED
  BY <1>1, <1>2, <1>3, <1>4 DEF SessionEffect

(* The clock ages the lease, and frees it when the holder has been idle. *)
LEMMA ClockIsLeaseStep ==
    ASSUME TypeOK, Clock
    PROVE  [Lease!Next]_(Lease!vars)
<1> DEFINE h == IF Live THEN Owner(active_session_) ELSE None
           i == IF Live THEN now - active_session_.last_activity_ms ELSE 0
<1>0. now \in Nat /\ now' = now + 1 /\ active_session_' = active_session_
  BY DEF Clock, Tick, TypeOK
<1>1. CASE Live
  <2>1. /\ active_session_ \in Session /\ active_session_ # None
        /\ active_session_.last_activity_ms \in Nat
    BY <1>1 DEF Live, TypeOK, Session
  <2>2. h # None /\ i \in Int
    BY <1>0, <1>1, <2>1, OwnerIsClient
  <2>3. Live' <=> ~ (i + 1 > SESSION_TIMEOUT_MS)
    BY <1>0, <1>1, <2>1, Timeouts DEF Live, SessionExpired
  <2>4. CASE Live'
    <3>1. h' = h /\ i' = i + 1
      BY <1>0, <1>1, <2>1, <2>4 DEF Owner
    <3>2. Lease!Age
      BY <2>2, <2>3, <2>4, <3>1 DEF Lease!Age
    <3>3. QED
      BY <3>2 DEF Lease!Next
  <2>5. CASE ~ Live'
    <3>1. h' = None /\ i' = 0
      BY <2>5
    <3>2. Lease!Age
      BY <2>2, <2>3, <2>5, <3>1 DEF Lease!Age
    <3>3. QED
      BY <3>2 DEF Lease!Next
  <2>6. QED
    BY <2>4, <2>5
<1>2. CASE ~ Live
  <2>1. ~ Live'
    BY <1>0, <1>2, Timeouts DEF Live, SessionExpired, TypeOK, Session
  <2>2. QED
    BY <1>2, <2>1 DEF Lease!vars
<1>3. QED
  BY <1>1, <1>2

(* The session manager implements the exclusive lease. *)
THEOREM SessionManagerImplementsLease == Spec => ImplementsLease
<1>1. Init => Lease!Init
  BY DEF Init, Lease!Init, Live
<1>2. TypeOK /\ [Next]_vars => [Lease!Next]_(Lease!vars)
  <2> SUFFICES ASSUME TypeOK, [Next]_vars
               PROVE  [Lease!Next]_(Lease!vars)
    OBVIOUS
  <2>1. CASE Call
    BY <2>1, CallEffect, EffectIsLeaseStep
  <2>2. CASE Clock
    BY <2>2, ClockIsLeaseStep
  <2>3. CASE UNCHANGED vars
    BY <2>3 DEF vars, Lease!vars, Live, SessionExpired, Owner
  <2>4. QED
    BY <2>1, <2>2, <2>3 DEF Next
<1>3. QED
  BY <1>1, <1>2, SessionTypeCorrect, PTL DEF Spec, ImplementsLease, Lease!Spec
=============================================================================
