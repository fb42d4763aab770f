-------------------------- MODULE DaemonRepository --------------------------
(***************************************************************************)
(* The application's connection to the daemon                              *)
(* (data/daemon/DaemonRepositoryImpl.kt) over its Binder client: the       *)
(* connection sequence, run by a job of its own; the calls that start,     *)
(* cancel and await it; the collector of the client's state; and the       *)
(* remembered configuration.  pc[p] is where coroutine p is, outside the   *)
(* client's methods.  Settings and hot-path rules are sent and restored    *)
(* alike: a configuration stands for either.                               *)
(***************************************************************************)
EXTENDS DaemonBinderClient

CONSTANTS
    Jobs,               \* connection jobs that may be alive at once (a bound)
    MaxCalls            \* a bound

Callers == Procs \ (Jobs \cup {"obituary"})

ASSUME RepositoryConstants ==
    /\ Jobs \subseteq Procs \ {"obituary"} /\ Jobs # {}
    /\ None \notin Procs /\ MaxCalls \in Nat

VARIABLES
    daemonState,
    lastKnownConfig,
    connectionMutex, configMutex,   \* the coroutine that holds each
    connectionJob,
    cancelled,                      \* the living jobs that were cancelled
    seen, handling,                 \* the collector: last value taken, value in hand
    pc, after,                      \* after: where a caller goes when it is connected
    held,                           \* the configuration a coroutine is sending
    performed,                      \* history: the daemons that may have performed an operation
    calls

repoVars == <<daemonState, lastKnownConfig, connectionMutex, configMutex, connectionJob,
              cancelled, seen, handling, pc, after, held, performed, calls>>

RepoInit ==
    /\ ClientInit
    /\ daemonState = "Stopped" /\ lastKnownConfig = None
    /\ connectionMutex = None /\ configMutex = None
    /\ connectionJob = None /\ cancelled = {}
    /\ seen = None /\ handling = None
    /\ pc = [p \in Procs |-> "idle"]
    /\ after = [p \in Procs |-> "idle"]
    /\ held = [p \in Procs |-> None]
    /\ performed = {}
    /\ calls = 0

At(p, l) == pc[p] = l /\ step[p] = "idle"
Go(p, l) == pc' = [pc EXCEPT ![p] = l]
isConnected == Alive /\ daemonState = "Ready"

(* The end of what coroutine p was called for. *)
Ends(p) == Go(p, "idle") /\ Take(p)
Forgets(p) == performed' = {e \in performed : e.by # p}

(* Remote calls: one without an effect that matters here, authenticate, configure. *)
Plain(p) == Execute(p, session, Nothing, Nothing)
OpenSession(p) == Execute(p, TRUE, session' = TRUE /\ UNCHANGED daemonConfig, Nothing)
SendConfig(p, c) == Execute(p, session, daemonConfig' = c /\ UNCHANGED session, Nothing)

(* A coroutine calls connect or disconnect of the client. *)
CallClient(p, method) ==
    Enter(p, method) /\ UNCHANGED <<daemonVars, fieldVars, mutex, result, faults>>

-----------------------------------------------------------------------------
(* setupFlowBridges, handleBinderStateChange: the client's state is collected without
   any lock, and values that pass quickly are missed.  Connecting and Ready are
   ignored alike. *)

Collected == IF connectionState \in {"Connecting", "Ready"} THEN "ignored" ELSE connectionState

Collect ==
    /\ handling = None /\ Collected # seen
    /\ seen' = Collected
    /\ handling' = IF Collected = "ignored" THEN None ELSE Collected
    /\ UNCHANGED <<clientVars, daemonState, lastKnownConfig, connectionMutex, configMutex,
                   connectionJob, cancelled, pc, after, held, performed, calls>>

HandleBinderState ==
    /\ handling # None
    /\ daemonState' = IF handling = "Stopped" THEN "Stopped" ELSE "Error"
    /\ handling' = None
    /\ UNCHANGED <<clientVars, lastKnownConfig, connectionMutex, configMutex, connectionJob,
                   cancelled, seen, pc, after, held, performed, calls>>

-----------------------------------------------------------------------------
(* executeConnectionSequence, run by job j.  A step looks at the result of the last
   call and makes the next one.  Cancellation is noticed where a call begins or ends;
   what the job does in between it does even when cancelled. *)

jobKeeps == <<lastKnownConfig, connectionMutex, configMutex, connectionJob,
              seen, handling, after, performed, calls>>

(* The job ends in a final state, or shows an intermediate one and makes a call. *)
JobEnds(j, state) ==
    /\ daemonState' = state /\ Ends(j) /\ cancelled' = cancelled \ {j}
    /\ held' = [held EXCEPT ![j] = None] /\ UNCHANGED jobKeeps

JobCalls(j, state, l) ==
    /\ j \notin cancelled
    /\ daemonState' = state /\ Go(j, l) /\ UNCHANGED <<cancelled, jobKeeps, held>>

(* The key pair is created and deployed, or that fails; then connect is called. *)
JobStart(j) ==
    /\ At(j, "start") /\ j \notin cancelled
    /\ \/ JobEnds(j, "Error")
       \/ JobCalls(j, "Connecting", "connect") /\ CallClient(j, "connect")

(* checkSession, which is answered without a session too. *)
JobCheck(j) ==
    /\ At(j, "connect")
    /\ IF result[j] # "Connected" THEN JobEnds(j, "Error")
       ELSE /\ Execute(j, TRUE, Nothing, Nothing)
            /\ JobCalls(j, daemonState, IF session /\ result'[j] = "Done" THEN "own" ELSE "other")

(* The session of another installation (external: any answer may report one) that
   outlasts the wait is a conflict.  executeAuthentication: challenge, signature and
   attestation, as one call. *)
JobAuthenticate(j) ==
    /\ At(j, "other")
    /\ \/ result[j] = "Done" /\ JobEnds(j, "Error")
       \/ /\ OpenSession(j) \/ Execute(j, FALSE, Nothing, Nothing)
          /\ JobCalls(j, "Authenticating", "authenticated")

(* A mutant that gives up without an error. *)
JobRegisterQuiet(j) ==
    /\ At(j, "own") \/ At(j, "authenticated")
    /\ IF result[j] # "Done" THEN JobEnds(j, daemonState)
       ELSE Plain(j) /\ JobCalls(j, "Reconciling", "registered")

(* executeReconciliation, for the application's own session or the new one: callbacks,
   then the remembered configuration. *)
JobRegister(j) ==
    /\ At(j, "own") \/ At(j, "authenticated")
    /\ IF result[j] # "Done" THEN JobEnds(j, "Error")
       ELSE Plain(j) /\ JobCalls(j, "Reconciling", "registered")

JobBuffers(j) ==
    /\ At(j, "registered")
    /\ IF result[j] # "Done" THEN JobEnds(j, "Error")
       ELSE Plain(j) /\ JobCalls(j, daemonState, "remember")

(* The result of registerBufferReleaseCallback is not looked at. *)
JobRemember(j) ==
    /\ At(j, "remember")
    /\ IF lastKnownConfig = None THEN JobEnds(j, "Ready")
       ELSE /\ held' = [held EXCEPT ![j] = lastKnownConfig] /\ Go(j, "restore")
            /\ UNCHANGED <<clientVars, daemonState, cancelled, jobKeeps>>

JobRestore(j) ==
    \/ At(j, "restore") /\ SendConfig(j, held[j]) /\ JobCalls(j, daemonState, "restored")
    \/ At(j, "restored") /\ JobEnds(j, IF result[j] = "Done" THEN "Ready" ELSE "Error")

(* A cancelled job never starts, or stops at a suspension point; its handler catches
   the cancellation like any exception and publishes an error. *)
JobCancelled(j) ==
    /\ j \in cancelled
    /\ \/ At(j, "start") /\ JobEnds(j, daemonState)
       \/ step[j] = "idle" /\ JobEnds(j, "Error")
       \/ Abandon(j) /\ UNCHANGED repoVars

JobStep(j) ==
    \/ JobStart(j) \/ JobCheck(j) \/ JobAuthenticate(j)
    \/ JobRegister(j) \/ JobBuffers(j) \/ JobRemember(j) \/ JobRestore(j) \/ JobCancelled(j)

-----------------------------------------------------------------------------
(* connect, by caller p.  The previous job is cancelled and not awaited.  The pause
   that keeps attempts MIN_RECONNECT_INTERVAL_MS apart is spent under the mutex. *)

callKeeps == <<daemonState, lastKnownConfig, configMutex, seen, handling, held>>

BeginConnect(p, l) == Go(p, "lock") /\ after' = [after EXCEPT ![p] = l]

NoCancelling == cancelled   \* a mutant
Cancelling == IF connectionJob # None /\ pc[connectionJob] # "idle"
              THEN cancelled \cup {connectionJob} ELSE cancelled
IdleJobs == {j \in Jobs : pc[j] = "idle"}

ConnectLaunch(p) ==
    /\ At(p, "lock") /\ connectionMutex = None /\ IdleJobs # {}
    /\ connectionJob' = CHOOSE j \in IdleJobs : TRUE
    /\ pc' = [pc EXCEPT ![p] = "join", ![connectionJob'] = "start"]
    /\ connectionMutex' = p /\ cancelled' = Cancelling
    /\ UNCHANGED <<clientVars, callKeeps, after, performed, calls>>

(* It fails unless the state is Ready by then. *)
ConnectJoin(p) ==
    /\ At(p, "join") /\ pc[connectionJob] = "idle"
    /\ connectionMutex' = None
    /\ IF daemonState = "Ready" THEN Go(p, after[p]) /\ UNCHANGED performed
       ELSE Go(p, "idle") /\ Forgets(p)
    /\ after' = [after EXCEPT ![p] = "idle"]
    /\ UNCHANGED <<clientVars, callKeeps, connectionJob, cancelled, calls>>

(* A mutant that does not release the mutex. *)
ConnectAbandonedLocked(p) ==
    /\ At(p, "lock") \/ At(p, "join")
    /\ UNCHANGED connectionMutex
    /\ Go(p, "idle") /\ Forgets(p) /\ after' = [after EXCEPT ![p] = "idle"]
    /\ UNCHANGED <<clientVars, callKeeps, connectionJob, cancelled, calls>>

(* The caller's scope ends while it waits: its job goes on without it. *)
ConnectAbandoned(p) ==
    /\ At(p, "lock") \/ At(p, "join")
    /\ connectionMutex' = IF connectionMutex = p THEN None ELSE connectionMutex
    /\ Go(p, "idle") /\ Forgets(p) /\ after' = [after EXCEPT ![p] = "idle"]
    /\ UNCHANGED <<clientVars, callKeeps, connectionJob, cancelled, calls>>

(* disconnect; the results of the two calls that unregister callbacks are not looked at. *)
DisconnectLock(p) ==
    /\ At(p, "disconnect") /\ connectionMutex = None
    /\ connectionMutex' = p /\ cancelled' = Cancelling /\ connectionJob' = None
    /\ Go(p, "unregister")
    /\ UNCHANGED <<clientVars, callKeeps, after, performed, calls>>

DisconnectCalls(p) ==
    /\ \/ At(p, "unregister") /\ Plain(p) /\ Go(p, "unregister2")
       \/ At(p, "unregister2") /\ Plain(p) /\ Go(p, "unregistered")
       \/ At(p, "unregistered") /\ CallClient(p, "disconnect") /\ Go(p, "disconnected")
    /\ UNCHANGED <<callKeeps, connectionMutex, connectionJob, cancelled, after, performed, calls>>

DisconnectStopped(p) ==
    /\ At(p, "disconnected") /\ Ends(p)
    /\ daemonState' = "Stopped" /\ connectionMutex' = None
    /\ UNCHANGED <<lastKnownConfig, configMutex, seen, handling, held, connectionJob,
                   cancelled, after, performed, calls>>

-----------------------------------------------------------------------------
(* executeWithReconnect, by caller p: one operation, tried a second time on a new
   connection when the daemon died under it. *)

opKeeps == <<callKeeps, connectionMutex, connectionJob, cancelled, calls>>

(* The daemon that answers has performed the operation; one that did not answer in time,
   died, or whose answer was lost may have, and is counted. *)
Performs(p) ==
    performed' = IF result'[p] \in {"NotFound", "Refused"} THEN performed
                 ELSE performed \cup {[by |-> p, try |-> pc[p], daemon |-> binder]}

OperationBlock(p) ==
    /\ \/ At(p, "block1") /\ Go(p, "tried")
       \/ At(p, "block2") /\ Go(p, "over")
    /\ Plain(p) /\ Performs(p)
    /\ UNCHANGED <<opKeeps, after>>

(* A mutant that tries again after every failure of the connection. *)
OperationTriedTwice(p) ==
    /\ \/ /\ At(p, "tried") /\ result[p] # "Done"
          /\ Go(p, "dropped") /\ CallClient(p, "disconnect") /\ UNCHANGED performed
       \/ (At(p, "over") \/ (At(p, "tried") /\ result[p] = "Done")) /\ Ends(p) /\ Forgets(p)
    /\ UNCHANGED <<opKeeps, after>>

OperationTried(p) ==
    /\ \/ /\ At(p, "tried") /\ result[p] = "Died"
          /\ Go(p, "dropped") /\ CallClient(p, "disconnect") /\ UNCHANGED performed
       \/ (At(p, "over") \/ (At(p, "tried") /\ result[p] # "Died")) /\ Ends(p) /\ Forgets(p)
    /\ UNCHANGED <<opKeeps, after>>

(* A mutant that tries again and again. *)
OperationAgainAndAgain(p) ==
    /\ At(p, "dropped") /\ BeginConnect(p, "block1") /\ Take(p)
    /\ UNCHANGED <<opKeeps, performed>>

OperationAgain(p) ==
    /\ At(p, "dropped") /\ BeginConnect(p, "block2") /\ Take(p)
    /\ UNCHANGED <<opKeeps, performed>>

(* A caller begins: connect, disconnect, or an operation.  BOUND: MaxCalls. *)
Begin(p) ==
    /\ At(p, "idle") /\ calls < MaxCalls /\ calls' = calls + 1
    /\ UNCHANGED <<clientVars, callKeeps, connectionMutex, connectionJob, cancelled, performed>>

CallConnect(p) == Begin(p) /\ BeginConnect(p, "idle")
CallDisconnect(p) == Begin(p) /\ Go(p, "disconnect") /\ UNCHANGED after
CallOperation(p) ==
    /\ Begin(p)
    /\ IF isConnected THEN Go(p, "block1") /\ UNCHANGED after ELSE BeginConnect(p, "block1")

-----------------------------------------------------------------------------
(* configure, by caller p with held[p]; the caller goes on at "configured", or at
   "refused" when it is not connected. *)

confKeeps == <<daemonState, connectionMutex, connectionJob, cancelled, seen, handling,
               after, held, performed, calls>>

ConfigureLock(p) ==
    /\ At(p, "configure") /\ configMutex = None
    /\ IF isConnected THEN configMutex' = p /\ Go(p, "send")
       ELSE UNCHANGED configMutex /\ Go(p, "refused")
    /\ UNCHANGED <<clientVars, confKeeps, lastKnownConfig>>

ConfigureSend(p) ==
    /\ At(p, "send") /\ Go(p, "sent") /\ SendConfig(p, held[p])
    /\ UNCHANGED <<confKeeps, configMutex, lastKnownConfig>>

ConfigureSent(p) ==
    /\ At(p, "sent")
    /\ Go(p, IF result[p] = "Done" THEN "configured" ELSE "refused") /\ Take(p)
    /\ lastKnownConfig' = IF result[p] = "Done" THEN held[p] ELSE lastKnownConfig
    /\ configMutex' = None
    /\ UNCHANGED confKeeps

CallerStep(p) ==
    \/ ConnectLaunch(p) \/ ConnectJoin(p)
    \/ DisconnectLock(p) \/ DisconnectCalls(p) \/ DisconnectStopped(p)
    \/ OperationBlock(p) \/ OperationTried(p) \/ OperationAgain(p)
    \/ ConfigureLock(p) \/ ConfigureSend(p) \/ ConfigureSent(p)

(* The steps inside the client; a cancelled job takes none that waits. *)
InClient(p) ==
    /\ p \in cancelled => step[p] \notin Waiting
    /\ ClientStep(p)
    /\ UNCHANGED repoVars

-----------------------------------------------------------------------------
(* What a coroutine does by itself. *)
Progress(p) ==
    \/ InClient(p)
    \/ p \in Callers /\ CallerStep(p)
    \/ p \in Jobs /\ JobStep(p)

Collector == Collect \/ HandleBinderState

(* The daemon's process, and the end of a caller's scope. *)
Surroundings ==
    \/ (DaemonDies \/ DaemonStarts) /\ UNCHANGED repoVars
    \/ \E p \in Callers : ConnectAbandoned(p)

(* Any caller of configure, with any configuration; without retries. *)
CallConfigure(p) ==
    /\ At(p, "idle") /\ calls < MaxCalls /\ calls' = calls + 1
    /\ \E c \in Configs : held' = [held EXCEPT ![p] = c]
    /\ Go(p, "configure")
    /\ UNCHANGED <<clientVars, daemonState, lastKnownConfig, connectionMutex, configMutex,
                   connectionJob, cancelled, seen, handling, after, performed>>
Configured(p) ==
    /\ At(p, "configured") \/ At(p, "refused")
    /\ Go(p, "idle") /\ held' = [held EXCEPT ![p] = None]
    /\ UNCHANGED <<clientVars, daemonState, lastKnownConfig, connectionMutex, configMutex,
                   connectionJob, cancelled, seen, handling, after, performed, calls>>

(* Any caller may call any of them, whatever the others are doing. *)
RepoNext ==
    \/ Surroundings \/ Collector
    \/ \E p \in Procs : Progress(p)
    \/ \E p \in Callers :
          \/ CallConnect(p) \/ CallDisconnect(p) \/ CallOperation(p)
          \/ CallConfigure(p) \/ Configured(p)

repoAll == <<clientVars, repoVars>>
RepoSpec == RepoInit /\ [][RepoNext]_repoAll

-----------------------------------------------------------------------------
(* Type correctness. *)
RepoTypeOK ==
    /\ service \in Nat /\ incarnations \in Nat /\ service \in {0, incarnations}
    /\ links \in Nat /\ obituaries \in Nat /\ session \in BOOLEAN
    /\ daemonConfig \in Configs \cup {None} /\ lastKnownConfig \in Configs \cup {None}
    /\ binder \in 0 .. incarnations /\ found \in 0 .. incarnations
    /\ reconnectAttempts \in 0 .. MAX_ATTEMPTS /\ isReconnecting \in BOOLEAN
    /\ mutex \in Procs \cup {None}
    /\ connectionMutex \in Procs \cup {None} /\ configMutex \in Procs \cup {None}
    /\ connectionJob \in Jobs \cup {None}
    /\ cancelled \subseteq Jobs \ IdleJobs
    /\ daemonState \in {"Stopped", "Connecting", "Authenticating", "Reconciling", "Ready", "Error"}

(* At most one connection sequence is at work that has not been told to stop, also
   when the caller that started it has gone away (connect, disconnect). *)
OneSequence ==
    \A i, j \in Jobs : pc[i] # "idle" /\ pc[j] # "idle" /\ i # j => i \in cancelled \/ j \in cancelled

(* The coroutines p waits for: the holder of the mutex it wants, or the job it awaits.
   The coroutine of a death notice waits for the client's mutex. *)
Contending == {"connect", "disconnect", "death"}
WaitsForClient(p) == step[p] \in Contending \/ (p = "obituary" /\ step[p] = "idle" /\ obituaries > 0)

Awaits(p) ==
    {q \in Procs : \/ WaitsForClient(p) /\ q = mutex
                   \/ (At(p, "lock") \/ At(p, "disconnect")) /\ q = connectionMutex
                   \/ At(p, "join") /\ q = connectionJob /\ pc[q] # "idle"
                   \/ At(p, "configure") /\ q = configMutex}

(* The order in which the locks are taken. *)
Level(p) == IF At(p, "lock") \/ At(p, "disconnect") THEN 3
            ELSE IF At(p, "join") \/ At(p, "configure") THEN 2
            ELSE IF WaitsForClient(p) THEN 1 ELSE 0

(* Whoever is waited for waits at most for something lower: the repository's
   connectionMutex comes before a job that is awaited under it and before configMutex,
   and these before the client's mutex, whose holder waits for no coroutine - not while
   it reconnects, and not when it or whoever wanted it is cancelled. And whoever is waited
   for is still at work: no mutex is left locked by a function that has ended. *)
Busy(p) == pc[p] # "idle" \/ step[p] # "idle"
WaitsInOrder ==
    \A p \in Procs : \A q \in Awaits(p) : Level(q) < Level(p) /\ Busy(q)

(* Nobody waits for ever, in two parts.  The first: as long as anyone is at work,
   somebody who is at work waits for no other coroutine (and, to launch a job, for no
   room among the living ones), although the client's mutex is held across the
   reconnection of a dead binder and connectionMutex while a job is awaited. *)
Runnable(p) ==
    Busy(p) /\ Awaits(p) = {} /\ (At(p, "lock") => IdleJobs # {})
NobodyStuck ==
    (\E p \in Procs : Busy(p)) => \E p \in Procs : Runnable(p)

(* How many places coroutine p has still before it, in the order of the code; an
   operation that connects before its first try has a second one before it. *)
Place == [idle |-> 0,
          over |-> 1, block2 |-> 2, join |-> 3, lock |-> 4, dropped |-> 5, tried |-> 6, block1 |-> 7,
          disconnected |-> 1, unregistered |-> 2, unregister2 |-> 3, unregister |-> 4, disconnect |-> 5,
          refused |-> 1, configured |-> 1, sent |-> 2, send |-> 3, configure |-> 4,
          sync |-> 5, read |-> 6, force |-> 7,      \* in the callers of configure: ConfigSync
          debug_read |-> 6, debug |-> 7,
          restored |-> 1, restore |-> 2, remember |-> 3, registered |-> 4, authenticated |-> 5,
          own |-> 5, other |-> 6, connect |-> 7, start |-> 8]
Detour(a) == IF a = "block1" THEN 5 ELSE 0
PlacesLeft(p) == Place[pc[p]] + Detour(after[p])

(* The second: every call is finite.  A coroutine at work comes closer to its end with each
   of its steps, and no step of another one, of the daemon or of the collector takes it
   back: executeWithReconnect tries an operation twice and not more, attemptReconnect
   makes MAX_ATTEMPTS attempts and not more, whatever dies meanwhile. *)
CallsAreFinite ==
    [][\A p \in Procs : Busy(p) =>
         \/ PlacesLeft(p)' < PlacesLeft(p)
         \/ pc'[p] = pc[p] /\ PlacesLeft(p)' = PlacesLeft(p) /\ StepsLeft(p)' < StepsLeft(p)
         \/ UNCHANGED <<pc[p], step[p], PlacesLeft(p), StepsLeft(p)>>]_repoAll

(* The repository shows that it is connecting only while a connection sequence is at
   work: whoever is cancelled and whatever dies, the last word of the sequences is a
   final state. *)
ConnectingMeansWork ==
    daemonState \in {"Connecting", "Authenticating", "Reconciling"} => IdleJobs # Jobs

(* No daemon performs an operation twice, although executeWithReconnect tries it again and
   although a call that timed out, or whose answer was lost, may have been performed: it
   is tried again only when the daemon that may have performed it is gone. *)
PerformedOnce ==
    \A d, e \in performed : d.by = e.by /\ d.daemon = e.daemon => d.try = e.try

(* When nobody is at work and the daemon is connected, it runs with the configuration the
   repository remembers of it.  It may not: the job that restores a configuration read it
   before a newer one was sent, and a configuration that was sent too slowly is not
   remembered. *)
RememberedRuns ==
    (\A p \in Procs : ~ Busy(p)) /\ obituaries = 0 /\ isConnected /\ lastKnownConfig # None
        => daemonConfig = lastKnownConfig

(* The application uses its Binder client as the client's own specification allows. *)
UsesClient == ClientSpec
=============================================================================
