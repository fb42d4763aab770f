------------------------- MODULE DaemonBinderClient -------------------------
(***************************************************************************)
(* The application's Binder client of the daemon                           *)
(* (data/daemon/DaemonBinderClient.kt, DaemonBinderClientImpl): connect,   *)
(* disconnect, remote calls, and what happens when the daemon's process    *)
(* dies.  A coroutine p that is inside a method of the client is at        *)
(* step[p]; mutex is the client's, held over several steps.  The daemon    *)
(* itself is external: each start of its process is a new incarnation,     *)
(* which knows neither session nor configuration.                          *)
(***************************************************************************)
EXTENDS Integers, FiniteSets

CONSTANTS
    Procs,              \* the coroutines that use the client
    Configs,            \* the configurations a daemon can be given
    MAX_ATTEMPTS,       \* DaemonConfig.Reconnection.MAX_ATTEMPTS
    None,
    MaxFaults           \* deaths of the daemon and failing calls ever, together (a bound)

ASSUME ClientConstants ==
    /\ MAX_ATTEMPTS \in Nat \ {0} /\ MaxFaults \in Nat
    /\ "obituary" \in Procs

VARIABLES
    service,            \* the incarnation registered with the service manager, 0 if none
    incarnations,       \* daemon processes started so far
    links,              \* registrations of deathRecipient with the living incarnation
    obituaries,         \* death notices whose coroutine waits for the mutex
    session,            \* does the living incarnation hold this application's session
    daemonConfig,       \* the configuration it runs with
    mutex, binder, connectionState, reconnectAttempts, isReconnecting,
    found,              \* the binder the holder of mutex has just looked up
    step, result, faults

daemonVars == <<service, incarnations, links, obituaries, session, daemonConfig>>
fieldVars == <<binder, connectionState, reconnectAttempts, isReconnecting, found>>
clientVars == <<daemonVars, fieldVars, mutex, step, result, faults>>

ClientInit ==
    /\ service = 1 /\ incarnations = 1
    /\ links = 0 /\ obituaries = 0 /\ session = FALSE /\ daemonConfig = None
    /\ mutex = None /\ binder = 0 /\ connectionState = "Stopped"
    /\ reconnectAttempts = 0 /\ isReconnecting = FALSE /\ found = 0
    /\ step = [p \in Procs |-> "idle"]
    /\ result = [p \in Procs |-> None]
    /\ faults = 0

-----------------------------------------------------------------------------
(* The daemon's process.  Every registration of a death recipient, also a second
   one of the same recipient, is told.  BOUND: MaxFaults. *)

MayFail == faults + incarnations - 1 < MaxFaults

DaemonDies ==
    /\ service # 0 /\ MayFail
    /\ service' = 0 /\ session' = FALSE /\ daemonConfig' = None
    /\ obituaries' = obituaries + links
    /\ links' = 0
    /\ UNCHANGED <<incarnations, fieldVars, mutex, step, result, faults>>

DaemonStarts ==
    /\ service = 0
    /\ service' = incarnations + 1 /\ incarnations' = incarnations + 1
    /\ UNCHANGED <<links, obituaries, session, daemonConfig, fieldVars, mutex, step, result, faults>>

-----------------------------------------------------------------------------
(* Moves of a coroutine: Enter a method, Return from it, or go on within it. *)

Alive == binder # 0 /\ binder = service
Enter(p, s) == step' = [step EXCEPT ![p] = s]
Return(p, r) ==
    /\ step' = [step EXCEPT ![p] = "idle"]
    /\ result' = [result EXCEPT ![p] = r]
    /\ mutex' = IF mutex = p THEN None ELSE mutex
Goes(p, s) == Enter(p, s) /\ UNCHANGED result /\ mutex' = p

(* A mutant that connects without linkToDeath. *)
LinkForgotten == binder' = found /\ found' = 0 /\ UNCHANGED links

(* linkToDeath and the fields that follow from it; it throws when the process is gone. *)
Link == binder' = found /\ links' = links + 1 /\ found' = 0
Unlinked == UNCHANGED <<binder, links>> /\ found' = 0

(* connect *)
ConnectLock(p) ==
    /\ step[p] = "connect" /\ mutex = None
    /\ connectionState' = "Connecting" /\ Goes(p, "lookup")
    /\ UNCHANGED <<daemonVars, binder, reconnectAttempts, isReconnecting, found, faults>>

ConnectLookup(p) ==
    /\ step[p] = "lookup"
    /\ IF service = 0
       THEN connectionState' = "Stopped" /\ Return(p, "NotRunning") /\ UNCHANGED found
       ELSE UNCHANGED connectionState /\ found' = service /\ Goes(p, "link")
    /\ UNCHANGED <<daemonVars, binder, reconnectAttempts, isReconnecting, faults>>

ConnectLink(p) ==
    /\ step[p] = "link"
    /\ IF found = service
       THEN /\ Link /\ Goes(p, "version")
            /\ reconnectAttempts' = 0 /\ isReconnecting' = FALSE
            /\ UNCHANGED connectionState
       ELSE /\ connectionState' = "Error" /\ Return(p, "Failed")
            /\ Unlinked /\ UNCHANGED <<reconnectAttempts, isReconnecting>>
    /\ UNCHANGED <<service, incarnations, obituaries, session, daemonConfig, faults>>

ConnectVersion(p) ==
    /\ step[p] = "version"
    /\ IF Alive
       THEN connectionState' = "Ready" /\ Return(p, "Connected")
       ELSE connectionState' = "Error" /\ Return(p, "Failed")
    /\ UNCHANGED <<daemonVars, binder, reconnectAttempts, isReconnecting, found, faults>>

(* disconnect; unlinkToDeath takes one registration back. *)
Disconnect(p) ==
    /\ step[p] = "disconnect" /\ mutex = None
    /\ links' = IF Alive THEN links - 1 ELSE links
    /\ binder' = 0 /\ connectionState' = "Stopped"
    /\ Return(p, "Done")
    /\ UNCHANGED <<service, incarnations, obituaries, session, daemonConfig,
                   reconnectAttempts, isReconnecting, found, faults>>

-----------------------------------------------------------------------------
(* A mutant that starts to reconnect once too often. *)
HandleBinderDeathLE(p) ==
    /\ \/ step[p] = "death" /\ UNCHANGED obituaries
       \/ p = "obituary" /\ step[p] = "idle" /\ obituaries > 0 /\ obituaries' = obituaries - 1
    /\ mutex = None
    /\ connectionState' = "Error" /\ binder' = 0
    /\ IF ~ isReconnecting /\ reconnectAttempts <= MAX_ATTEMPTS
       THEN isReconnecting' = TRUE /\ Goes(p, "backoff")
       ELSE UNCHANGED isReconnecting /\ Return(p, result[p])
    /\ UNCHANGED <<service, incarnations, links, session, daemonConfig, reconnectAttempts,
                   found, faults>>

(* handleBinderDeath, run by the death recipient and by every call that meets a
   dead binder.  The mutex is kept while it waits and tries again. *)

HandleBinderDeath(p) ==
    /\ \/ step[p] = "death" /\ UNCHANGED obituaries
       \/ p = "obituary" /\ step[p] = "idle" /\ obituaries > 0 /\ obituaries' = obituaries - 1
    /\ mutex = None
    /\ connectionState' = "Error" /\ binder' = 0
    /\ IF ~ isReconnecting /\ reconnectAttempts < MAX_ATTEMPTS
       THEN isReconnecting' = TRUE /\ Goes(p, "backoff")
       ELSE UNCHANGED isReconnecting /\ Return(p, result[p])
    /\ UNCHANGED <<service, incarnations, links, session, daemonConfig, reconnectAttempts,
                   found, faults>>

(* attemptReconnect.  One pass of the loop: wait, look the service up (connectInternal),
   link, ask for the version.  A missing service ends the loop at once. *)
EndReconnect(p, state) ==
    connectionState' = state /\ isReconnecting' = FALSE /\ Return(p, result[p])

TryAgain(p) ==
    IF reconnectAttempts < MAX_ATTEMPTS
    THEN connectionState' = "Error" /\ UNCHANGED isReconnecting /\ Goes(p, "backoff")
    ELSE EndReconnect(p, "Exhausted")

Reconnect(p) ==
    /\ step[p] = "backoff"
    /\ reconnectAttempts' = reconnectAttempts + 1
    /\ connectionState' = "Connecting" /\ Goes(p, "relookup")
    /\ UNCHANGED <<daemonVars, binder, isReconnecting, found, faults>>

ReconnectLookup(p) ==
    /\ step[p] = "relookup"
    /\ IF service = 0
       THEN connectionState' = "Stopped" /\ Goes(p, "missing") /\ UNCHANGED found
       ELSE UNCHANGED connectionState /\ found' = service /\ Goes(p, "relink")
    /\ UNCHANGED <<daemonVars, binder, reconnectAttempts, isReconnecting, faults>>

ReconnectMissing(p) ==
    /\ step[p] = "missing" /\ EndReconnect(p, "Exhausted")
    /\ UNCHANGED <<daemonVars, binder, reconnectAttempts, found, faults>>

ReconnectLink(p) ==
    /\ step[p] = "relink"
    /\ IF found = service
       THEN Link /\ Goes(p, "reversion") /\ UNCHANGED <<connectionState, isReconnecting>>
       ELSE Unlinked /\ TryAgain(p)
    /\ UNCHANGED <<service, incarnations, obituaries, session, daemonConfig,
                   reconnectAttempts, faults>>

ReconnectVersion(p) ==
    /\ step[p] = "reversion"
    /\ IF Alive THEN EndReconnect(p, "Ready") ELSE TryAgain(p)
    /\ UNCHANGED <<daemonVars, binder, reconnectAttempts, found, faults>>

(* A cancelled coroutine stops where it waits: for the mutex, in the delay, or where
   connectInternal begins or ends.  From all but the first isReconnecting stays set, from
   the beginning of connectInternal also the state Connecting. *)
Waiting == {"connect", "disconnect", "death", "backoff", "missing"}
Abandon(p) ==
    /\ \/ step[p] \in Waiting \cup {"relookup"} /\ UNCHANGED <<connectionState, found>>
       \/ step[p] = "relink" /\ found # service /\ found' = 0 /\ connectionState' = "Error"
       \/ /\ step[p] = "reversion" /\ UNCHANGED found
          /\ connectionState' = IF Alive THEN "Ready" ELSE "Error"
    /\ Return(p, "Cancelled")
    /\ UNCHANGED <<daemonVars, binder, reconnectAttempts, isReconnecting, faults>>

ClientStep(p) ==
    \/ ConnectLock(p) \/ ConnectLookup(p) \/ ConnectLink(p) \/ ConnectVersion(p)
    \/ Disconnect(p) \/ HandleBinderDeath(p)
    \/ Reconnect(p) \/ ReconnectLookup(p) \/ ReconnectMissing(p)
    \/ ReconnectLink(p) \/ ReconnectVersion(p)

-----------------------------------------------------------------------------
(* execute: a remote call.  Without a daemon it fails; with a dead one it fails after
   handleBinderDeath; a living one does it (Effect) or refuses it.  Faults of a call to
   a living daemon: the answer comes too late, the transaction is lost in transport and
   taken for a death, or Binder's buffer is exhausted.  BOUND: MaxFaults. *)

Answer(p, r, s) == result' = [result EXCEPT ![p] = r] /\ Enter(p, s)

Execute(p, Accepted, Effect, NoEffect) ==
    /\ \/ binder = 0 /\ Answer(p, "NotFound", "idle") /\ NoEffect /\ UNCHANGED faults
       \/ binder # 0 /\ ~ Alive /\ Answer(p, "Died", "death") /\ NoEffect /\ UNCHANGED faults
       \/ Alive /\ ~ Accepted /\ Answer(p, "Refused", "idle") /\ NoEffect /\ UNCHANGED faults
       \/ Alive /\ Accepted /\ Answer(p, "Done", "idle") /\ Effect /\ UNCHANGED faults
       \/ /\ Alive /\ MayFail /\ faults' = faults + 1
          /\ \/ Accepted /\ Answer(p, "TimedOut", "idle") /\ Effect
             \/ \E s \in {"death", "idle"} : Answer(p, "Failed", s) /\ NoEffect
    /\ UNCHANGED <<service, incarnations, links, obituaries, fieldVars, mutex>>

-----------------------------------------------------------------------------
(* The client with any users: calls in any order, with any effect on the daemon. *)

Call(p) ==
    /\ step[p] = "idle"
    /\ Enter(p, "connect") \/ Enter(p, "disconnect")
    /\ UNCHANGED <<daemonVars, fieldVars, mutex, result, faults>>

(* The caller takes the result of its call. *)
Take(p) ==
    /\ step[p] = "idle" /\ result' = [result EXCEPT ![p] = None]
    /\ UNCHANGED <<daemonVars, fieldVars, mutex, step, faults>>

Nothing == UNCHANGED <<session, daemonConfig>>
Anything == session' \in BOOLEAN /\ daemonConfig' \in Configs \cup {None}

RemoteCall(p) ==
    step[p] = "idle" /\ \E b \in BOOLEAN : Execute(p, b, Anything, Nothing)

ClientNext ==
    \/ DaemonDies \/ DaemonStarts
    \/ \E p \in Procs : ClientStep(p) \/ Abandon(p)
    \/ \E p \in Procs \ {"obituary"} : Call(p) \/ RemoteCall(p) \/ Take(p)

ClientSpec == ClientInit /\ [][ClientNext]_clientVars

(* How many steps coroutine p has at most before it until the client's method returns:
   each attempt to reconnect that is left takes four. *)
StepsLeft(p) ==
    LET attempts == 4 * (MAX_ATTEMPTS - reconnectAttempts)
    IN  CASE step[p] = "connect" -> 4
          [] step[p] = "lookup" -> 3
          [] step[p] = "link" -> 2
          [] step[p] \in {"version", "disconnect"} -> 1
          [] step[p] = "death" -> 4 * MAX_ATTEMPTS + 1
          [] step[p] = "backoff" -> attempts
          [] step[p] = "relookup" -> attempts + 3
          [] step[p] = "relink" -> attempts + 2
          [] step[p] \in {"missing", "reversion"} -> attempts + 1
          [] OTHER -> 0

(* The binder of a daemon that has died does not stay in use unnoticed: as long as the
   client still holds it, the handler of a death notice is about to drop it, however
   often the client connected, disconnected and reconnected before
   (linkToDeath in connect and connectInternal, unlinkToDeath in disconnectInternal). *)
DeathIsNoticed ==
    binder # 0 /\ binder # service => obituaries > 0
=============================================================================
