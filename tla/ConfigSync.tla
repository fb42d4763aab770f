----------------------------- MODULE ConfigSync -----------------------------
(***************************************************************************)
(* The synchronizer of settings (data/daemon/ConfigurationSynchronizer.kt) *)
(* on top of the repository, the client and the daemon: the whole of the   *)
(* application's connection.  Coroutine "settings" observes the settings,  *)
(* "observer" the repository's state; the other callers are the users of   *)
(* repository and synchronizer.                                            *)
(***************************************************************************)
EXTENDS DaemonRepository

CONSTANTS
    Invalid,            \* the settings validateSettings refuses, among Configs
    MAX_RETRIES,
    MaxChanges          \* a bound

VARIABLES
    settings, changes,
    syncState,
    stored,             \* the last settings the settings observer took
    witnessed,          \* was the last state the state observer took Ready
    attempt             \* of each coroutine in sendConfigWithRetry

syncVars == <<settings, changes, syncState, stored, witnessed, attempt>>
vars == <<clientVars, repoVars, syncVars>>

Users == Callers \ {"settings", "observer"}

Init ==
    /\ RepoInit
    /\ settings \in Configs /\ changes = 0
    /\ syncState = "Idle"
    /\ stored = None /\ witnessed = FALSE
    /\ attempt = [p \in Callers |-> 0]

(* The user changes a setting.  BOUND: MaxChanges. *)
ChangeSettings ==
    /\ changes < MaxChanges /\ changes' = changes + 1
    /\ \E c \in Configs \ {settings} : settings' = c
    /\ UNCHANGED <<clientVars, repoVars, syncState, stored, witnessed, attempt>>

syncKeeps == <<clientVars, daemonState, lastKnownConfig, connectionMutex, configMutex,
               connectionJob, cancelled, seen, handling, after, performed>>

(* observeSettingsChanges, syncSettings: debounced, and dropped when not connected. *)
SettingsChange ==
    /\ At("settings", "idle") /\ settings # stored
    /\ stored' = settings
    /\ syncState' = IF isConnected /\ settings \in Invalid THEN "Error" ELSE syncState
    /\ IF isConnected /\ settings \notin Invalid
       THEN held' = [held EXCEPT !["settings"] = settings] /\ Go("settings", "sync")
       ELSE UNCHANGED <<held, pc>>
    /\ UNCHANGED <<syncKeeps, calls, settings, changes, witnessed, attempt>>

(* observeDaemonConnection: states that pass while it is busy are missed; only Ready
   matters. *)
StateChange ==
    /\ At("observer", "idle") /\ witnessed # (daemonState = "Ready")
    /\ witnessed' = ~ witnessed
    /\ IF witnessed' THEN Go("observer", "force") ELSE UNCHANGED pc
    /\ UNCHANGED <<syncKeeps, held, calls, settings, changes, syncState, stored, attempt>>

(* A user calls forceSync, as start itself does once, or setDebugStreamEnabled. *)
CallForceSync(p) == Begin(p) /\ Go(p, "force") /\ UNCHANGED <<after, syncVars>>
CallDebugStream(p) == Begin(p) /\ Go(p, "debug") /\ UNCHANGED <<after, syncVars>>

(* forceSync: connected?  Then read the settings, and send them. *)
ForceSync(p) ==
    /\ \/ At(p, "force") /\ Go(p, IF isConnected THEN "read" ELSE "idle") /\ UNCHANGED held
       \/ /\ At(p, "read")
          /\ IF settings \in Invalid THEN Go(p, "idle") /\ UNCHANGED held
             ELSE Go(p, "sync") /\ held' = [held EXCEPT ![p] = settings]
    /\ UNCHANGED <<syncKeeps, calls, syncVars>>

(* setDebugStreamEnabled: the same, but the settings are sent without validation. *)
SetDebugStreamEnabled(p) ==
    /\ \/ At(p, "debug") /\ Go(p, IF isConnected THEN "debug_read" ELSE "idle") /\ UNCHANGED held
       \/ At(p, "debug_read") /\ Go(p, "sync") /\ held' = [held EXCEPT ![p] = settings]
    /\ UNCHANGED <<syncKeeps, calls, syncVars>>

(* sendConfigWithRetry *)
SyncEnds(p) ==
    /\ Go(p, "idle") /\ held' = [held EXCEPT ![p] = None]
    /\ attempt' = [attempt EXCEPT ![p] = 0]

SyncBegin(p) ==
    /\ At(p, "sync") /\ Go(p, "configure")
    /\ syncState' = "Syncing"
    /\ UNCHANGED <<syncKeeps, held, calls, settings, changes, stored, witnessed, attempt>>

SyncResult(p) ==
    /\ \/ /\ At(p, "configured")
          /\ syncState' = "Synced" /\ SyncEnds(p)
       \/ /\ At(p, "refused")
          /\ syncState' = "Error"
          /\ IF attempt[p] = MAX_RETRIES - 1 THEN SyncEnds(p)
             ELSE /\ Go(p, "configure") /\ attempt' = [attempt EXCEPT ![p] = attempt[p] + 1]
                  /\ UNCHANGED held
    /\ UNCHANGED <<syncKeeps, calls, settings, changes, stored, witnessed>>

SyncStep(p) == ForceSync(p) \/ SetDebugStreamEnabled(p) \/ SyncBegin(p) \/ SyncResult(p)

-----------------------------------------------------------------------------
(* The whole application.  BOUND: Begin counts the calls of repository and synchronizer. *)
Next ==
    \/ (Surroundings \/ Collector \/ \E p \in Procs : Progress(p)) /\ UNCHANGED syncVars
    \/ \E p \in Users :
          \/ (CallConnect(p) \/ CallDisconnect(p) \/ CallOperation(p)) /\ UNCHANGED syncVars
          \/ CallForceSync(p) \/ CallDebugStream(p)
    \/ ChangeSettings \/ SettingsChange \/ StateChange
    \/ \E p \in Callers : SyncStep(p)

Spec == Init /\ [][Next]_vars

(* "Synchronizes app settings with daemon configuration": when all is quiet, the state
   is Synced and the daemon is connected, then it runs with the current settings. *)
Quiet ==
    /\ \A p \in Procs : At(p, "idle")
    /\ obituaries = 0 /\ handling = None /\ seen = Collected
    /\ stored = settings /\ witnessed = (daemonState = "Ready")
SyncedMeansSynced ==
    Quiet /\ syncState = "Synced" /\ isConnected /\ settings \notin Invalid => daemonConfig = settings
=============================================================================
