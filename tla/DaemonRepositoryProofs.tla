----------------------- MODULE DaemonRepositoryProofs -----------------------
(***************************************************************************)
(* Proofs about the Binder client, the repository and the application's    *)
(* connection as a whole, for any number of coroutines, jobs, deaths,      *)
(* faults, calls and changes of the settings.                              *)
(***************************************************************************)
EXTENDS ConfigSync, TLAPS

(* The client's inductive invariant: a binder in use is either the living daemon's,
   and then linked to its death, or a dead one's, and then a notice is pending. *)
ClientInv ==
    /\ service \in Nat /\ incarnations \in Nat /\ binder \in Nat
    /\ service = 0 \/ service = incarnations
    /\ binder <= incarnations
    /\ links \in Nat /\ obituaries \in Nat
    /\ daemonConfig \in Configs \cup {None}
    /\ Alive => links > 0
    /\ DeathIsNoticed

(* A client that has not connected yet holds no binder. *)
LEMMA ClientInvInit == ClientInit => ClientInv
<1> SUFFICES ASSUME ClientInit PROVE ClientInv
    OBVIOUS
<1>1. daemonConfig \in Configs \cup {None}
    BY Zenon DEF ClientInit
<1>2. service = 1 /\ incarnations = 1 /\ binder = 0 /\ links = 0 /\ obituaries = 0
    BY Zenon DEF ClientInit
<1> QED
    BY <1>1, <1>2 DEF ClientInv, Alive, DeathIsNoticed

(* Every step of the client, of its callers and of the daemon's process keeps it. *)
LEMMA ClientInvStep == ClientInv /\ [ClientNext]_clientVars => ClientInv'
<1> SUFFICES ASSUME ClientInv, [ClientNext]_clientVars PROVE ClientInv'
    OBVIOUS
<1> USE DEF ClientInv, Alive, DeathIsNoticed
<1>1. CASE DaemonDies
    BY <1>1 DEF DaemonDies, fieldVars
<1>2. CASE DaemonStarts
    BY <1>2 DEF DaemonStarts, fieldVars
<1>3. ASSUME NEW p \in Procs, ConnectLock(p) \/ ConnectLookup(p) PROVE ClientInv'
    BY <1>3 DEF ConnectLock, ConnectLookup, daemonVars
<1>4. ASSUME NEW p \in Procs, ConnectLink(p) PROVE ClientInv'
    BY <1>4 DEF ConnectLink, Link, Unlinked
<1>5. ASSUME NEW p \in Procs, ConnectVersion(p) PROVE ClientInv'
    BY <1>5 DEF ConnectVersion, daemonVars
<1>6. ASSUME NEW p \in Procs, Disconnect(p) PROVE ClientInv'
    BY <1>6 DEF Disconnect
<1>7. ASSUME NEW p \in Procs, HandleBinderDeath(p) PROVE ClientInv'
    BY <1>7 DEF HandleBinderDeath
<1>8. ASSUME NEW p \in Procs, Reconnect(p) \/ ReconnectLookup(p) \/ ReconnectMissing(p) PROVE ClientInv'
    BY <1>8 DEF Reconnect, ReconnectLookup, ReconnectMissing, daemonVars
<1>9. ASSUME NEW p \in Procs, ReconnectLink(p) PROVE ClientInv'
    BY <1>9 DEF ReconnectLink, Link, Unlinked
<1>10. ASSUME NEW p \in Procs, ReconnectVersion(p) PROVE ClientInv'
    BY <1>10 DEF ReconnectVersion, daemonVars
<1>11. ASSUME NEW p \in Procs, Abandon(p) PROVE ClientInv'
    BY <1>11 DEF Abandon, daemonVars
<1>12. ASSUME NEW p \in Procs, Call(p) \/ Take(p) PROVE ClientInv'
    BY <1>12 DEF Call, Take, daemonVars, fieldVars
<1>13. ASSUME NEW p \in Procs, RemoteCall(p) PROVE ClientInv'
    BY <1>13 DEF RemoteCall, Execute, Anything, Nothing, fieldVars
<1>14. CASE UNCHANGED clientVars
    BY <1>14 DEF clientVars, daemonVars, fieldVars
<1> QED
    BY <1>1, <1>2, <1>3, <1>4, <1>5, <1>6, <1>7, <1>8, <1>9, <1>10, <1>11, <1>12, <1>13, <1>14
       DEF ClientNext, ClientStep

(* Whoever uses the client, a dead binder does not stay in use unnoticed. *)
THEOREM ClientNoticesDeath == ClientSpec => []DeathIsNoticed
<1>1. ClientInv => DeathIsNoticed
    BY DEF ClientInv
<1> QED
    BY <1>1, ClientInvInit, ClientInvStep, PTL DEF ClientSpec

-----------------------------------------------------------------------------
(* The repository. *)

SessionType == session \in BOOLEAN

(* Whether the daemon holds a session stays a Boolean; stated apart for Zenon. *)
LEMMA SessionTypeStep == SessionType /\ [ClientNext]_clientVars => SessionType'
<1> SUFFICES ASSUME SessionType, [ClientNext]_clientVars PROVE SessionType'
    OBVIOUS
<1> USE DEF SessionType
<1>1. CASE DaemonDies
    BY <1>1, Zenon DEF DaemonDies
<1>2. CASE DaemonStarts
    BY <1>2, Zenon DEF DaemonStarts
<1>3. ASSUME NEW p \in Procs, ClientStep(p) \/ Abandon(p) PROVE UNCHANGED session
    BY <1>3, Zenon DEF ClientStep, ConnectLock, ConnectLookup, ConnectLink, ConnectVersion, Disconnect,
       HandleBinderDeath, Reconnect, ReconnectLookup, ReconnectMissing, ReconnectLink, ReconnectVersion, Abandon, daemonVars
<1>4. ASSUME NEW p \in Procs, Call(p) \/ Take(p) PROVE UNCHANGED session
    BY <1>4, Zenon DEF Call, Take, daemonVars
<1>5. ASSUME NEW p \in Procs, RemoteCall(p) PROVE session' \in BOOLEAN
    BY <1>5, Zenon DEF RemoteCall, Execute, Anything, Nothing
<1>6. CASE UNCHANGED clientVars
    BY <1>6, Zenon DEF clientVars, daemonVars
<1> QED
    BY <1>1, <1>2, <1>3, <1>4, <1>5, <1>6, Zenon DEF ClientNext

(* Each remote call of the repository is one the client's specification allows. *)
LEMMA CallsAreRemote ==
    ASSUME NEW p \in Procs, step[p] = "idle", SessionType, daemonConfig \in Configs \cup {None},
           NEW c \in Configs \cup {None}
    PROVE  /\ Plain(p) => RemoteCall(p)
           /\ OpenSession(p) => RemoteCall(p)
           /\ SendConfig(p, c) => RemoteCall(p)
           /\ \A b \in BOOLEAN : Execute(p, b, Nothing, Nothing) => RemoteCall(p)
<1>1. Nothing => Anything
    BY Zenon DEF Nothing, Anything, SessionType
<1>2. (session' = TRUE /\ UNCHANGED daemonConfig) => Anything
    BY Zenon DEF Anything, SessionType
<1>3. (daemonConfig' = c /\ UNCHANGED session) => Anything
    BY Zenon DEF Anything, SessionType
<1>4. session \in BOOLEAN
    BY DEF SessionType
<1>5. Plain(p) => Execute(p, session, Anything, Nothing)
    BY <1>1, Zenon DEF Plain, Execute
<1>6. OpenSession(p) => Execute(p, TRUE, Anything, Nothing)
    BY <1>2, Zenon DEF OpenSession, Execute
<1>7. SendConfig(p, c) => Execute(p, session, Anything, Nothing)
    BY <1>3, Zenon DEF SendConfig, Execute
<1>8. \A b \in BOOLEAN : Execute(p, b, Nothing, Nothing) => Execute(p, b, Anything, Nothing)
    BY <1>1, Zenon DEF Execute
<1> QED
    BY <1>4, <1>5, <1>6, <1>7, <1>8, Zenon DEF RemoteCall

(* The repository's inductive invariant: every job at work but the latest is cancelled,
   and an intermediate state is shown only while some job has begun. *)
Connecting == daemonState \in {"Connecting", "Authenticating", "Reconciling"}

RepoInv ==
    /\ pc = [p \in Procs |-> pc[p]]
    /\ held \in [Procs -> Configs \cup {None}]
    /\ lastKnownConfig \in Configs \cup {None}
    /\ connectionJob \in Jobs \cup {None}
    /\ cancelled \subseteq Jobs
    /\ \A j \in Jobs : pc[j] # "idle" /\ j # connectionJob => j \in cancelled
    /\ Connecting => \E j \in Jobs : pc[j] \notin {"idle", "start"}

(* A step of a job is, for the client, a call, a result taken, or a cancellation. *)
LEMMA JobUsesClient ==
    ASSUME NEW j \in Jobs, JobStep(j), SessionType, daemonConfig \in Configs \cup {None}, RepoInv
    PROVE  ClientNext \/ UNCHANGED clientVars
<1>1. j \in Procs /\ j \in Procs \ {"obituary"} /\ held[j] \in Configs \cup {None}
    BY RepositoryConstants, Zenon DEF RepoInv
<1>2. step[j] = "idle" =>
        /\ Plain(j) => RemoteCall(j)
        /\ OpenSession(j) => RemoteCall(j)
        /\ SendConfig(j, held[j]) => RemoteCall(j)
        /\ \A b \in BOOLEAN : Execute(j, b, Nothing, Nothing) => RemoteCall(j)
    BY <1>1, CallsAreRemote, Zenon
<1>4. ASSUME NEW s, JobEnds(j, s) PROVE Take(j)
    BY <1>4, Zenon DEF JobEnds, Ends
<1>5. step[j] = "idle" /\ CallClient(j, "connect") => Call(j)
    BY Zenon DEF CallClient, Call
<1>6. RemoteCall(j) \/ Take(j) \/ Call(j) \/ Abandon(j) => ClientNext
    BY <1>1, Zenon DEF ClientNext
<1> HIDE DEF ClientNext, RemoteCall, Take, Call, Abandon
<1>a. CASE JobStart(j)
    BY <1>a, <1>4, <1>5, <1>6, Zenon DEF JobStart, At
<1>b. CASE JobCheck(j)
    BY <1>b, <1>2, <1>4, <1>6, Zenon DEF JobCheck, At
<1>c. CASE JobAuthenticate(j)
    BY <1>c, <1>2, <1>4, <1>6, Zenon DEF JobAuthenticate, At
<1>d. CASE JobRegister(j)
    BY <1>d, <1>2, <1>4, <1>6, Zenon DEF JobRegister, At
<1>e. CASE JobBuffers(j)
    BY <1>e, <1>2, <1>4, <1>6, Zenon DEF JobBuffers, At
<1>f. CASE JobRemember(j)
    BY <1>f, <1>4, <1>6, Zenon DEF JobRemember
<1>g. CASE JobRestore(j)
    BY <1>g, <1>2, <1>4, <1>6, Zenon DEF JobRestore, At
<1>h. CASE JobCancelled(j)
    BY <1>h, <1>4, <1>6, Zenon DEF JobCancelled
<1> QED
    BY <1>a, <1>b, <1>c, <1>d, <1>e, <1>f, <1>g, <1>h, Zenon DEF JobStep

(* A step of a caller of the repository is a step of the client or leaves it alone. *)
LEMMA CallerUsesClient ==
    ASSUME NEW p \in Callers, CallerStep(p), SessionType, daemonConfig \in Configs \cup {None}, RepoInv
    PROVE  ClientNext \/ UNCHANGED clientVars
<1>1. p \in Procs /\ p \in Procs \ {"obituary"} /\ held[p] \in Configs \cup {None}
    BY Zenon DEF RepoInv, Callers
<1>2. step[p] = "idle" =>
        /\ Plain(p) => RemoteCall(p)
        /\ SendConfig(p, held[p]) => RemoteCall(p)
    BY <1>1, CallsAreRemote, Zenon
<1>3. step[p] = "idle" /\ CallClient(p, "disconnect") => Call(p)
    BY Zenon DEF CallClient, Call
<1>4. RemoteCall(p) \/ Take(p) \/ Call(p) => ClientNext
    BY <1>1, Zenon DEF ClientNext
<1> HIDE DEF ClientNext, RemoteCall, Take, Call
<1>a. CASE ConnectLaunch(p) \/ ConnectJoin(p) \/ DisconnectLock(p) \/ ConfigureLock(p)
    BY <1>a, Zenon DEF ConnectLaunch, ConnectJoin, DisconnectLock, ConfigureLock
<1>b. CASE DisconnectCalls(p)
    BY <1>b, <1>2, <1>3, <1>4, Zenon DEF DisconnectCalls, At
<1>c. CASE DisconnectStopped(p)
    BY <1>c, <1>4, Zenon DEF DisconnectStopped, Ends
<1>d. CASE OperationBlock(p)
    BY <1>d, <1>2, <1>4, Zenon DEF OperationBlock, At
<1>e. CASE OperationTried(p)
    BY <1>e, <1>3, <1>4, Zenon DEF OperationTried, At, Ends
<1>f. CASE OperationAgain(p)
    BY <1>f, <1>4, Zenon DEF OperationAgain
<1>g. CASE ConfigureSend(p)
    BY <1>g, <1>2, <1>4, Zenon DEF ConfigureSend, At
<1>h. CASE ConfigureSent(p)
    BY <1>h, <1>4, Zenon DEF ConfigureSent
<1> QED
    BY <1>a, <1>b, <1>c, <1>d, <1>e, <1>f, <1>g, <1>h, Zenon DEF CallerStep

(* Every step of the repository is one of the client's specification, or none. *)
LEMMA RepoUsesClient ==
    ASSUME ClientInv, SessionType, RepoInv, [RepoNext]_repoAll
    PROVE  [ClientNext]_clientVars
<1>1. daemonConfig \in Configs \cup {None}
    BY DEF ClientInv
<1>2. CASE Surroundings
    BY <1>2, Zenon DEF Surroundings, ConnectAbandoned, ClientNext
<1>3. CASE Collector
    BY <1>3, Zenon DEF Collector, Collect, HandleBinderState
<1>4. ASSUME NEW p \in Procs, Progress(p) PROVE ClientNext \/ UNCHANGED clientVars
  <2>1. InClient(p) => ClientNext
    BY Zenon DEF InClient, ClientNext
  <2> QED
    BY <1>1, <1>4, <2>1, JobUsesClient, CallerUsesClient, Zenon DEF Progress
<1>5. ASSUME NEW c \in Callers,
             \/ CallConnect(c) \/ CallDisconnect(c) \/ CallConfigure(c)
             \/ Configured(c) \/ CallOperation(c)
      PROVE  UNCHANGED clientVars
    BY <1>5, Zenon DEF CallConnect, CallDisconnect, CallConfigure, Configured, CallOperation, Begin
<1>6. CASE UNCHANGED repoAll
    BY <1>6, Zenon DEF repoAll
<1> QED
    BY <1>2, <1>3, <1>4, <1>5, <1>6, Zenon DEF RepoNext

-----------------------------------------------------------------------------
(* Before any call no job is alive and nothing is shown as connecting. *)
LEMMA RepoInvInit == RepoInit => RepoInv
<1> SUFFICES ASSUME RepoInit PROVE RepoInv
    OBVIOUS
<1>1. /\ pc = [p \in Procs |-> "idle"] /\ held = [p \in Procs |-> None]
      /\ lastKnownConfig = None /\ connectionJob = None /\ cancelled = {} /\ daemonState = "Stopped"
    BY Zenon DEF RepoInit
<1>2. \A j \in Jobs : pc[j] = "idle"
    BY <1>1, RepositoryConstants
<1> QED
    BY <1>1, <1>2 DEF RepoInv, Connecting

(* A job's step that ends it in a final state, or goes on with a call. *)
LEMMA JobEndsKeeps ==
    ASSUME NEW j \in Jobs, NEW state, RepoInv, JobEnds(j, state),
           \/ state \in {"Ready", "Error"}
           \/ state = daemonState /\ pc[j] = "start"
    PROVE  RepoInv'
<1>1. j \in Procs
    BY RepositoryConstants
<1>2. /\ pc' = [pc EXCEPT ![j] = "idle"] /\ held' = [held EXCEPT ![j] = None]
      /\ daemonState' = state /\ cancelled' = cancelled \ {j}
      /\ UNCHANGED <<lastKnownConfig, connectionJob>>
    BY Zenon DEF JobEnds, Ends, Go, jobKeeps
<1>3. \A i \in Jobs : pc'[i] # "idle" => i # j /\ pc'[i] = pc[i]
    BY <1>1, <1>2, RepositoryConstants DEF RepoInv
<1>4. pc' = [p \in Procs |-> pc'[p]] /\ held' \in [Procs -> Configs \cup {None}]
    BY <1>1, <1>2 DEF RepoInv
<1>5. \A i \in Jobs : pc'[i] # "idle" /\ i # connectionJob' => i \in cancelled'
    BY <1>2, <1>3 DEF RepoInv
<1>6. Connecting' => \E i \in Jobs : pc'[i] \notin {"idle", "start"}
  <2>1. CASE state \in {"Ready", "Error"}
    BY <2>1, <1>2 DEF Connecting
  <2>2. CASE state = daemonState /\ pc[j] = "start"
    <3> SUFFICES ASSUME Connecting' PROVE \E i \in Jobs : pc'[i] \notin {"idle", "start"}
        OBVIOUS
    <3>1. PICK i \in Jobs : pc[i] \notin {"idle", "start"}
        BY <1>2, <2>2 DEF RepoInv, Connecting
    <3>2. i # j /\ pc'[i] = pc[i]
        BY <3>1, <2>2, <1>2, RepositoryConstants DEF RepoInv
    <3> QED
        BY <3>1, <3>2
  <2> QED
    BY <2>1, <2>2
<1> QED
    BY <1>2, <1>4, <1>5, <1>6 DEF RepoInv

(* The steps in which a job calls the client keep the invariant. *)
LEMMA JobCallsKeeps ==
    ASSUME NEW j \in Jobs, NEW state, NEW l, l # "idle", l # "start", RepoInv,
           pc[j] # "idle", JobCalls(j, state, l)
    PROVE  RepoInv'
  BY RepositoryConstants DEF RepoInv, Connecting, JobCalls, Go, jobKeeps

(* Every step of a connection job keeps it, its last word included. *)
LEMMA JobKeeps ==
    ASSUME NEW j \in Jobs, JobStep(j), RepoInv
    PROVE  RepoInv'
<1>a. JobEnds(j, "Error") \/ JobEnds(j, "Ready") => RepoInv'
    BY JobEndsKeeps
<1>b. ASSUME NEW state, NEW l, l # "idle", l # "start", pc[j] # "idle", JobCalls(j, state, l)
      PROVE  RepoInv'
    BY <1>b, JobCallsKeeps
<1>c. UNCHANGED repoVars => RepoInv'
    BY DEF repoVars, RepoInv, Connecting
<1> HIDE DEF RepoInv
<1>1. CASE JobStart(j)
    BY <1>1, <1>a, <1>b DEF JobStart, At
<1>2. CASE JobCheck(j)
    BY Zenon, <1>2, <1>a, <1>b DEF JobCheck, At
<1>3. CASE JobAuthenticate(j)
    BY Zenon, <1>3, <1>a, <1>b DEF JobAuthenticate, At
<1>4. CASE JobRegister(j)
    BY <1>4, <1>a, <1>b DEF JobRegister, At
<1>5. CASE JobBuffers(j)
    BY <1>5, <1>a, <1>b DEF JobBuffers, At
<1>6. CASE JobRemember(j)
  <2>1. CASE lastKnownConfig = None
    BY <1>6, <2>1, <1>a DEF JobRemember
  <2>2. CASE lastKnownConfig # None
    <3>1. /\ pc[j] = "remember" /\ pc' = [pc EXCEPT ![j] = "restore"]
          /\ held' = [held EXCEPT ![j] = lastKnownConfig]
          /\ UNCHANGED <<daemonState, cancelled, lastKnownConfig, connectionJob>>
        BY <1>6, <2>2, Zenon DEF JobRemember, At, Go, jobKeeps
    <3> QED
        BY <3>1, RepositoryConstants DEF RepoInv, Connecting
  <2> QED
    BY <2>1, <2>2
<1>7. CASE JobRestore(j)
  <2>1. CASE At(j, "restore")
    BY <1>7, <2>1, <1>b DEF JobRestore, At
  <2>2. CASE ~ At(j, "restore")
    BY <1>7, <2>2, <1>a, Zenon DEF JobRestore
  <2> QED
    BY <2>1, <2>2
<1>8. CASE JobCancelled(j)
  <2>1. At(j, "start") /\ JobEnds(j, daemonState) => RepoInv'
    BY JobEndsKeeps DEF At
  <2> QED
    BY <1>8, <2>1, <1>a, <1>c, Zenon DEF JobCancelled
<1> QED
    BY <1>1, <1>2, <1>3, <1>4, <1>5, <1>6, <1>7, <1>8, Zenon DEF JobStep

(* A caller's step that starts and ends no job. *)
LEMMA OtherKeeps ==
    ASSUME NEW p \in Callers, NEW l, RepoInv, Go(p, l),
           UNCHANGED <<daemonState, connectionJob, cancelled>> \/
               (daemonState' = "Stopped" /\ UNCHANGED <<connectionJob, cancelled>>),
           held' \in [Procs -> Configs \cup {None}],
           lastKnownConfig' \in Configs \cup {None}
    PROVE  RepoInv'
  BY RepositoryConstants DEF RepoInv, Connecting, Go, Callers

(* Launching a sequence keeps it: the previous job has ended or was cancelled. *)
LEMMA LaunchKeeps ==
    ASSUME NEW p \in Callers, ConnectLaunch(p), RepoInv
    PROVE  RepoInv'
<1>1. PICK j \in Jobs : /\ pc[j] = "idle" /\ connectionJob' = j
                        /\ pc' = [pc EXCEPT ![p] = "join", ![j] = "start"]
    BY Zenon DEF ConnectLaunch, IdleJobs
<1>2. /\ cancelled' = Cancelling
      /\ UNCHANGED <<daemonState, held, lastKnownConfig>>
    BY Zenon DEF ConnectLaunch, callKeeps
<1>3. p \in Procs /\ p \notin Jobs /\ j \in Procs /\ None \notin Jobs
    BY RepositoryConstants DEF Callers
<1>4. \A i \in Jobs : i # j => pc'[i] = pc[i]
    BY <1>1, <1>3, RepositoryConstants DEF RepoInv
<1>5. \A i \in Jobs : pc'[i] # "idle" /\ i # j => i \in cancelled'
    BY <1>2, <1>3, <1>4 DEF RepoInv, Cancelling
<1>6. cancelled' \subseteq Jobs
    BY <1>2, <1>3 DEF RepoInv, Cancelling
<1>7. Connecting' => \E i \in Jobs : pc'[i] \notin {"idle", "start"}
    BY Zenon, <1>1, <1>2, <1>4 DEF RepoInv, Connecting
<1> QED
    BY Zenon, <1>1, <1>2, <1>3, <1>5, <1>6, <1>7 DEF RepoInv

(* disconnect keeps it: it cancels the job before it forgets it. *)
LEMMA DisconnectLockKeeps ==
    ASSUME NEW p \in Callers, DisconnectLock(p), RepoInv
    PROVE  RepoInv'
<1>1. /\ cancelled' = Cancelling /\ connectionJob' = None
      /\ pc' = [pc EXCEPT ![p] = "unregister"]
      /\ UNCHANGED <<daemonState, held, lastKnownConfig>>
    BY Zenon DEF DisconnectLock, Go, callKeeps
<1>2. p \in Procs /\ p \notin Jobs
    BY DEF Callers
<1>3. \A i \in Jobs : pc'[i] = pc[i]
    BY <1>1, <1>2, RepositoryConstants DEF RepoInv
<1>4. \A i \in Jobs : pc'[i] # "idle" => i \in cancelled'
    BY <1>1, <1>3, RepositoryConstants DEF RepoInv, Cancelling
<1>5. cancelled' \subseteq Jobs
    BY <1>1 DEF RepoInv, Cancelling
<1> QED
    BY <1>1, <1>2, <1>3, <1>4, <1>5 DEF RepoInv, Connecting

(* Every step of a caller keeps it. *)
LEMMA CallerKeeps ==
    ASSUME NEW p \in Callers, CallerStep(p), RepoInv
    PROVE  RepoInv'
<1>0. p \in Procs
    BY DEF Callers
<1>a. ASSUME NEW l, Go(p, l), UNCHANGED callKeeps, UNCHANGED <<connectionJob, cancelled>> PROVE RepoInv'
    BY <1>a, OtherKeeps DEF callKeeps, RepoInv
<1>1. CASE ConnectLaunch(p)
    BY <1>1, LaunchKeeps
<1>2. CASE ConnectJoin(p)
    BY <1>2, <1>a, Zenon DEF ConnectJoin
<1>3. CASE DisconnectLock(p)
    BY <1>3, DisconnectLockKeeps
<1>4. CASE DisconnectCalls(p)
    BY <1>4, <1>a, Zenon DEF DisconnectCalls
<1>5. CASE DisconnectStopped(p)
    BY <1>5, OtherKeeps DEF DisconnectStopped, Ends, RepoInv
<1>6. CASE OperationBlock(p)
    BY <1>6, <1>a, Zenon DEF OperationBlock, opKeeps
<1>7. CASE OperationTried(p)
    BY <1>7, <1>a, Zenon DEF OperationTried, opKeeps, Ends
<1>8. CASE OperationAgain(p)
    BY <1>8, <1>a, Zenon DEF OperationAgain, opKeeps, BeginConnect
<1>9. CASE ConfigureLock(p)
  <2>1. \E l : Go(p, l)
    BY <1>9, Zenon DEF ConfigureLock
  <2> QED
    BY <1>9, <2>1, OtherKeeps DEF ConfigureLock, confKeeps, RepoInv
<1>10. CASE ConfigureSend(p)
    BY <1>10, OtherKeeps DEF ConfigureSend, confKeeps, RepoInv
<1>11. CASE ConfigureSent(p)
  <2>1. lastKnownConfig' \in Configs \cup {None}
    BY <1>0, <1>11 DEF ConfigureSent, RepoInv
  <2>2. UNCHANGED confKeeps /\ \E l : Go(p, l)
    BY <1>11, Zenon DEF ConfigureSent
  <2> QED
    BY <2>1, <2>2, OtherKeeps DEF confKeeps, RepoInv
<1> QED
    BY <1>1, <1>2, <1>3, <1>4, <1>5, <1>6, <1>7, <1>8, <1>9, <1>10, <1>11, Zenon DEF CallerStep

(* Every step of the composition keeps it. *)
LEMMA RepoInvStep == RepoInv /\ [RepoNext]_repoAll => RepoInv'
<1> SUFFICES ASSUME RepoInv, [RepoNext]_repoAll PROVE RepoInv'
    OBVIOUS
<1>0. \A c \in Callers : c \in Procs
    BY DEF Callers
<1>a. ASSUME NEW p \in Callers, NEW l, Go(p, l), UNCHANGED callKeeps,
             UNCHANGED <<connectionJob, cancelled>>
      PROVE  RepoInv'
    BY <1>a, OtherKeeps DEF callKeeps, RepoInv
<1>b. UNCHANGED repoVars => RepoInv'
    BY DEF repoVars, RepoInv, Connecting
<1>1. CASE Surroundings
    BY <1>0, <1>1, <1>a, <1>b, Zenon DEF Surroundings, ConnectAbandoned
<1>2. CASE Collector
    BY <1>2 DEF Collector, Collect, HandleBinderState, RepoInv, Connecting
<1>3. ASSUME NEW p \in Procs, Progress(p) PROVE RepoInv'
    BY <1>3, <1>b, JobKeeps, CallerKeeps, Zenon DEF Progress, InClient
<1>4. ASSUME NEW c \in Callers, CallConnect(c) \/ CallDisconnect(c) PROVE RepoInv'
    BY <1>0, <1>4, <1>a, Zenon DEF CallConnect, CallDisconnect, Begin, BeginConnect
<1>5. ASSUME NEW c \in Callers, CallOperation(c) PROVE RepoInv'
    BY <1>0, <1>5, <1>a, Zenon DEF CallOperation, Begin, BeginConnect
<1>6. ASSUME NEW c \in Callers, CallConfigure(c) PROVE RepoInv'
  <2>1. held' \in [Procs -> Configs \cup {None}]
    BY <1>0, <1>6 DEF CallConfigure, RepoInv
  <2>2. /\ Go(c, "configure") /\ UNCHANGED <<daemonState, connectionJob, cancelled>>
        /\ lastKnownConfig' \in Configs \cup {None}
    BY <1>6 DEF CallConfigure, RepoInv
  <2> QED
    BY <1>0, <2>1, <2>2, OtherKeeps
<1>7. ASSUME NEW c \in Callers, Configured(c) PROVE RepoInv'
  <2>1. held' \in [Procs -> Configs \cup {None}]
    BY <1>0, <1>7 DEF Configured, RepoInv
  <2>2. /\ Go(c, "idle") /\ UNCHANGED <<daemonState, connectionJob, cancelled>>
        /\ lastKnownConfig' \in Configs \cup {None}
    BY <1>7 DEF Configured, RepoInv
  <2> QED
    BY <1>0, <2>1, <2>2, OtherKeeps
<1>8. CASE UNCHANGED repoAll
    BY <1>8, <1>b, Zenon DEF repoAll
<1> QED
    BY <1>1, <1>2, <1>3, <1>4, <1>5, <1>6, <1>7, <1>8, Zenon DEF RepoNext

(* All three invariants hold at the start. *)
LEMMA AllInvInit == RepoInit => RepoInv /\ ClientInv /\ SessionType
<1>1. ClientInit => SessionType
    BY Zenon DEF ClientInit, SessionType
<1> QED
    BY <1>1, RepoInvInit, ClientInvInit, Zenon DEF RepoInit

(* The three invariants, and what they say of every behaviour of the repository. *)
LEMMA RepoInvariant == RepoSpec => [](RepoInv /\ ClientInv /\ SessionType)
<1>1. RepoInv /\ ClientInv /\ SessionType /\ [RepoNext]_repoAll
      => (RepoInv /\ ClientInv /\ SessionType)'
    BY RepoInvStep, RepoUsesClient, ClientInvStep, SessionTypeStep, Zenon
<1> QED
    BY <1>1, AllInvInit, PTL DEF RepoSpec

(* At most one connection sequence that was not told to stop (connect, disconnect). *)
THEOREM RepoOneSequence == RepoSpec => []OneSequence
<1>1. RepoInv => OneSequence
    BY DEF RepoInv, OneSequence
<1> QED
    BY <1>1, RepoInvariant, PTL

(* The state shows a connection in progress only while a sequence is at work
   (executeConnectionSequence and its handler of exceptions). *)
THEOREM RepoConnectingMeansWork == RepoSpec => []ConnectingMeansWork
<1>1. RepoInv => ConnectingMeansWork
    BY DEF RepoInv, ConnectingMeansWork, Connecting, IdleJobs
<1> QED
    BY <1>1, RepoInvariant, PTL

(* The repository implements a user of the client: every behaviour of the composition
   is, for the client, one that its specification allows. *)
THEOREM RepoUsesClientSpec == RepoSpec => UsesClient
<1>1. RepoInit => ClientInit
    BY Zenon DEF RepoInit
<1>2. RepoInv /\ ClientInv /\ SessionType /\ [RepoNext]_repoAll => [ClientNext]_clientVars
    BY RepoUsesClient, Zenon
<1> QED
    BY <1>1, <1>2, RepoInvariant, PTL DEF RepoSpec, UsesClient, ClientSpec

(* So the client's promise about deaths (linkToDeath, handleBinderDeath) holds of it. *)
THEOREM RepoNoticesDeath == RepoSpec => []DeathIsNoticed
BY RepoUsesClientSpec, ClientNoticesDeath, PTL DEF UsesClient

-----------------------------------------------------------------------------
(* Types, and who holds which lock *)

Holding == {"lookup", "link", "version", "backoff", "relookup", "missing", "relink", "reversion"}

(* The client's mutex is held by the coroutine inside one of its methods, and by it alone. *)
Locked ==
    /\ step \in [Procs -> Contending \cup Holding \cup {"idle"}]
    /\ mutex \in Procs \cup {None}
    /\ \A p \in Procs : step[p] \in Holding <=> mutex = p

(* An attempt to reconnect begins below the maximum. *)
Attempting ==
    /\ reconnectAttempts \in 0 .. MAX_ATTEMPTS
    /\ \A p \in Procs : step[p] = "backoff" => reconnectAttempts < MAX_ATTEMPTS
    /\ found \in 0 .. incarnations

ReconnectingType == isReconnecting \in BOOLEAN

JobPlaces == {"idle", "start", "connect", "own", "other", "authenticated", "registered",
              "remember", "restore", "restored"}
ConnectionSection == {"join", "unregister", "unregister2", "unregistered", "disconnected"}
ConfigSection == {"send", "sent"}
CallerPlaces == ConnectionSection \cup ConfigSection \cup
    {"idle", "lock", "disconnect", "block1", "block2", "tried", "over", "dropped",
     "configure", "configured", "refused", "force", "read", "debug", "debug_read", "sync"}

(* Each coroutine is where its kind of coroutine can be. *)
Places ==
    /\ pc \in [Procs -> JobPlaces \cup CallerPlaces]
    /\ \A j \in Jobs : pc[j] \in JobPlaces
    /\ \A p \in Callers : pc[p] \in CallerPlaces
    /\ pc["obituary"] = "idle"
    /\ after \in [Procs -> {"idle", "block1", "block2"}]

(* The repository's mutexes are held by the caller inside the section they protect; the
   job awaited under connectionMutex is the latest. *)
Sections ==
    /\ connectionMutex \in Callers \cup {None} /\ configMutex \in Callers \cup {None}
    /\ \A p \in Callers : pc[p] \in ConnectionSection <=> connectionMutex = p
    /\ \A p \in Callers : pc[p] \in ConfigSection <=> configMutex = p
    /\ \A p \in Callers : pc[p] = "join" => connectionJob \in Jobs

DaemonStates == {"Stopped", "Connecting", "Authenticating", "Reconciling", "Ready", "Error"}

Shown == cancelled \subseteq Jobs \ IdleJobs /\ daemonState \in DaemonStates

RepoLocks == Places /\ Sections /\ Shown

(* A move of coroutine p inside a function of the client keeps the mutex with its holder. *)
LEMMA GoesLocked ==
    ASSUME Locked, NEW p \in Procs, NEW s \in Holding, mutex = None \/ step[p] \in Holding,
           Goes(p, s)
    PROVE  Locked'
<1>1. step' = [step EXCEPT ![p] = s] /\ mutex' = p
    BY DEF Goes, Enter
<1>2. None \notin Procs
    BY RepositoryConstants
<1>3. mutex = None \/ mutex = p
    BY DEF Locked
<1>4. \A q \in Procs : q # p => step[q] \notin Holding /\ step'[q] = step[q]
    BY <1>1, <1>2, <1>3 DEF Locked
<1>5. step'[p] = s
    BY <1>1 DEF Locked
<1>6. step' \in [Procs -> Contending \cup Holding \cup {"idle"}]
    BY <1>1 DEF Locked
<1> QED
    BY <1>1, <1>4, <1>5, <1>6 DEF Locked

(* A return from the client gives the mutex back, if the coroutine holds it. *)
LEMMA ReturnLocks ==
    ASSUME Locked, NEW p \in Procs, NEW r, Return(p, r)
    PROVE  Locked'
<1>1. step' = [step EXCEPT ![p] = "idle"] /\ mutex' = IF mutex = p THEN None ELSE mutex
    BY DEF Return
<1>2. None \notin Procs /\ "idle" \notin Holding
    BY RepositoryConstants DEF Holding
<1>3. step'[p] = "idle" /\ \A q \in Procs : q # p => step'[q] = step[q]
    BY <1>1 DEF Locked
<1>4. step' \in [Procs -> Contending \cup Holding \cup {"idle"}]
    BY <1>1 DEF Locked
<1>5. \A q \in Procs : step'[q] \in Holding <=> mutex' = q
    BY <1>1, <1>2, <1>3 DEF Locked
<1>6. mutex' \in Procs \cup {None}
    BY <1>1 DEF Locked
<1> QED
    BY <1>4, <1>5, <1>6 DEF Locked

(* A call queues for the mutex without taking it. *)
LEMMA EnterLocks ==
    ASSUME Locked, NEW p \in Procs, NEW s \in Contending \cup {"idle"}, step[p] = "idle",
           Enter(p, s), UNCHANGED mutex
    PROVE  Locked'
<1>1. step' = [step EXCEPT ![p] = s]
    BY DEF Enter
<1>2. s \notin Holding /\ "idle" \notin Holding
    BY DEF Holding, Contending
<1>3. step'[p] = s /\ \A q \in Procs : q # p => step'[q] = step[q]
    BY <1>1 DEF Locked
<1>4. step' \in [Procs -> Contending \cup Holding \cup {"idle"}]
    BY <1>1 DEF Locked
<1> QED
    BY <1>2, <1>3, <1>4 DEF Locked

(* The client's mutex is taken when it is free and given back on every way out. *)
LEMMA LockedStep == Locked /\ [ClientNext]_clientVars => Locked'
<1> SUFFICES ASSUME Locked, [ClientNext]_clientVars PROVE Locked'
    OBVIOUS
<1>0. UNCHANGED <<mutex, step>> => Locked'
    BY Zenon DEF Locked
<1>a. ASSUME NEW p \in Procs, NEW s, s \in Holding, mutex = None \/ step[p] \in Holding, Goes(p, s) PROVE Locked'
    BY <1>a, GoesLocked, Zenon
<1>b. ASSUME NEW p \in Procs, NEW r, Return(p, r) PROVE Locked'
    BY <1>b, ReturnLocks, Zenon
<1>c. ASSUME NEW p \in Procs, NEW s, s \in Contending \cup {"idle"}, step[p] = "idle", Enter(p, s), UNCHANGED mutex PROVE Locked'
    BY <1>c, EnterLocks, Zenon
<1>d. /\ "lookup" \in Holding /\ "link" \in Holding /\ "version" \in Holding /\ "backoff" \in Holding
      /\ "relookup" \in Holding /\ "missing" \in Holding /\ "relink" \in Holding /\ "reversion" \in Holding
    BY DEF Holding
<1>e. /\ "connect" \in Contending \cup {"idle"} /\ "disconnect" \in Contending \cup {"idle"}
      /\ "death" \in Contending \cup {"idle"} /\ "idle" \in Contending \cup {"idle"}
    BY DEF Contending
<1> HIDE DEF Locked
<1>1. CASE DaemonDies \/ DaemonStarts
    BY <1>1, <1>0, Zenon DEF DaemonDies, DaemonStarts
<1>2. ASSUME NEW p \in Procs, ConnectLock(p) PROVE Locked'
    BY <1>2, <1>a, <1>d, Zenon DEF ConnectLock
<1>3. ASSUME NEW p \in Procs, ConnectLookup(p) PROVE Locked'
    BY <1>3, <1>a, <1>b, <1>d, Zenon DEF ConnectLookup
<1>4. ASSUME NEW p \in Procs, ConnectLink(p) PROVE Locked'
    BY <1>4, <1>a, <1>b, <1>d, Zenon DEF ConnectLink
<1>5. ASSUME NEW p \in Procs, ConnectVersion(p) \/ Disconnect(p) PROVE Locked'
    BY <1>5, <1>b, Zenon DEF ConnectVersion, Disconnect
<1>6. ASSUME NEW p \in Procs, HandleBinderDeath(p) PROVE Locked'
    BY <1>6, <1>a, <1>b, <1>d, Zenon DEF HandleBinderDeath
<1>7. ASSUME NEW p \in Procs, Reconnect(p) \/ ReconnectLookup(p) PROVE Locked'
    BY <1>7, <1>a, <1>d, Zenon DEF Reconnect, ReconnectLookup
<1>8. ASSUME NEW p \in Procs, ReconnectMissing(p) PROVE Locked'
    BY <1>8, <1>b, Zenon DEF ReconnectMissing, EndReconnect
<1>9. ASSUME NEW p \in Procs, ReconnectLink(p) PROVE Locked'
    BY <1>9, <1>a, <1>b, <1>d, Zenon DEF ReconnectLink, TryAgain, EndReconnect
<1>10. ASSUME NEW p \in Procs, ReconnectVersion(p) PROVE Locked'
    BY <1>10, <1>a, <1>b, <1>d, Zenon DEF ReconnectVersion, TryAgain, EndReconnect
<1>11. ASSUME NEW p \in Procs, Abandon(p) PROVE Locked'
    BY <1>11, <1>b, Zenon DEF Abandon
<1>12. ASSUME NEW p \in Procs, Call(p) PROVE Locked'
    BY <1>12, <1>c, <1>e, Zenon DEF Call
<1>13. ASSUME NEW p \in Procs, Take(p) PROVE Locked'
    BY <1>13, <1>0, Zenon DEF Take
<1>14. ASSUME NEW p \in Procs, RemoteCall(p) PROVE Locked'
  <2>1. step[p] = "idle" /\ UNCHANGED mutex
    BY <1>14, Zenon DEF RemoteCall, Execute
  <2>2. Enter(p, "idle") \/ Enter(p, "death")
    BY <1>14, Zenon DEF RemoteCall, Execute, Answer
  <2> QED
    BY <1>c, <1>e, <2>1, <2>2, Zenon
<1>15. CASE UNCHANGED clientVars
    BY <1>15, <1>0, Zenon DEF clientVars
<1> QED
    BY <1>1, <1>2, <1>3, <1>4, <1>5, <1>6, <1>7, <1>8, <1>9, <1>10, <1>11, <1>12, <1>13, <1>14, <1>15, Zenon
       DEF ClientNext, ClientStep

(* The attempts of attemptReconnect are counted, and not beyond the maximum. *)
LEMMA AttemptingStep ==
    ASSUME ClientInv, Locked, Attempting, [ClientNext]_clientVars
    PROVE  Attempting'
<1>0. /\ MAX_ATTEMPTS \in Nat /\ reconnectAttempts \in Nat /\ incarnations \in Nat /\ service \in Nat
      /\ reconnectAttempts <= MAX_ATTEMPTS /\ service <= incarnations /\ found \in Nat /\ found <= incarnations
    BY ClientConstants DEF ClientInv, Attempting
<1>a. ASSUME NEW p \in Procs, NEW s, Enter(p, s),
             s # "backoff" \/ reconnectAttempts < MAX_ATTEMPTS, UNCHANGED reconnectAttempts
      PROVE  \A q \in Procs : step'[q] = "backoff" => reconnectAttempts' < MAX_ATTEMPTS
    BY <1>a DEF Enter, Locked, Attempting
<1>b. ASSUME NEW p \in Procs, NEW r, Return(p, r), UNCHANGED reconnectAttempts
      PROVE  \A q \in Procs : step'[q] = "backoff" => reconnectAttempts' < MAX_ATTEMPTS
    BY <1>b DEF Return, Locked, Attempting
<1>c. ASSUME UNCHANGED <<reconnectAttempts, step>>
      PROVE  \A q \in Procs : step'[q] = "backoff" => reconnectAttempts' < MAX_ATTEMPTS
    BY <1>c DEF Attempting
<1>d. ASSUME UNCHANGED reconnectAttempts,
             \A q \in Procs : step'[q] = "backoff" => reconnectAttempts' < MAX_ATTEMPTS,
             incarnations' = incarnations, found' \in {0, found, service}
      PROVE  Attempting'
    BY <1>0, <1>d DEF Attempting
<1>1. CASE DaemonDies \/ DaemonStarts
  <2>1. /\ UNCHANGED <<reconnectAttempts, found, step>>
        /\ incarnations' = incarnations \/ incarnations' = incarnations + 1
    BY <1>1, Zenon DEF DaemonDies, DaemonStarts, fieldVars
  <2> QED
    BY <1>0, <1>c, <2>1 DEF Attempting
<1>2. ASSUME NEW p \in Procs, ConnectLock(p) PROVE Attempting'
    BY <1>2, <1>a, <1>d DEF ConnectLock, Goes, daemonVars
<1>3. ASSUME NEW p \in Procs, ConnectLookup(p) PROVE Attempting'
    BY <1>3, <1>a, <1>b, <1>d DEF ConnectLookup, Goes, daemonVars
<1>4. ASSUME NEW p \in Procs, ConnectLink(p) PROVE Attempting'
  <2>1. CASE found = service
    <3>1. /\ reconnectAttempts' = 0 /\ found' = 0 /\ incarnations' = incarnations
      BY <1>4, <2>1 DEF ConnectLink, Link
    <3> QED
      BY <1>0, <3>1, ClientConstants DEF Attempting
  <2>2. CASE found # service
    BY <1>4, <2>2, <1>b, <1>d DEF ConnectLink, Unlinked
  <2> QED
    BY <2>1, <2>2
<1>5. ASSUME NEW p \in Procs, ConnectVersion(p) \/ Disconnect(p) PROVE Attempting'
  <2>1. /\ UNCHANGED <<reconnectAttempts, found, incarnations>>
        /\ Return(p, "Connected") \/ Return(p, "Failed") \/ Return(p, "Done")
    BY <1>5, Zenon DEF ConnectVersion, Disconnect, daemonVars
  <2> QED
    BY <2>1, <1>b, <1>d
<1>6. ASSUME NEW p \in Procs, HandleBinderDeath(p) PROVE Attempting'
  <2>1. /\ UNCHANGED <<reconnectAttempts, found, incarnations>>
        /\ (reconnectAttempts < MAX_ATTEMPTS /\ Enter(p, "backoff")) \/ Return(p, result[p])
    BY <1>6, Zenon DEF HandleBinderDeath, Goes
  <2> QED
    BY <2>1, <1>a, <1>b, <1>d
<1>7. ASSUME NEW p \in Procs, Reconnect(p) PROVE Attempting'
  <2>1. /\ step[p] = "backoff" /\ reconnectAttempts' = reconnectAttempts + 1
        /\ UNCHANGED <<found, incarnations>> /\ step' = [step EXCEPT ![p] = "relookup"]
    BY <1>7, Zenon DEF Reconnect, Goes, Enter, daemonVars
  <2>2. reconnectAttempts < MAX_ATTEMPTS
    BY <2>1 DEF Attempting
  <2>3. \A q \in Procs : step'[q] # "backoff"
    <3>1. step[p] \in Holding /\ "backoff" \in Holding
      BY <2>1 DEF Holding
    <3>2. \A q \in Procs : q # p => step[q] # "backoff"
      BY <3>1 DEF Locked
    <3> QED
      BY <2>1, <3>2 DEF Locked
  <2> QED
    BY <1>0, <2>1, <2>2, <2>3 DEF Attempting
<1>8. ASSUME NEW p \in Procs, ReconnectLookup(p) PROVE Attempting'
    BY <1>8, <1>a, <1>d DEF ReconnectLookup, Goes, daemonVars
<1>9. ASSUME NEW p \in Procs, ReconnectMissing(p) PROVE Attempting'
    BY <1>9, <1>b, <1>d DEF ReconnectMissing, EndReconnect, daemonVars
<1>10. ASSUME NEW p \in Procs, ReconnectLink(p) \/ ReconnectVersion(p) PROVE Attempting'
  <2>1. UNCHANGED <<reconnectAttempts, incarnations>> /\ found' \in {0, found, service}
    BY <1>10 DEF ReconnectLink, ReconnectVersion, Link, Unlinked, daemonVars
  <2>2. \/ Enter(p, "reversion")
        \/ reconnectAttempts < MAX_ATTEMPTS /\ Enter(p, "backoff")
        \/ Return(p, result[p])
    BY <1>10, Zenon DEF ReconnectLink, ReconnectVersion, TryAgain, EndReconnect, Goes
  <2> QED
    BY <2>1, <2>2, <1>a, <1>b, <1>d
<1>11. ASSUME NEW p \in Procs, Abandon(p) PROVE Attempting'
    BY <1>11, <1>b, <1>d DEF Abandon, daemonVars
<1>12. ASSUME NEW p \in Procs, Call(p) \/ Take(p) PROVE Attempting'
    BY <1>12, <1>a, <1>c, <1>d DEF Call, Take, daemonVars, fieldVars
<1>13. ASSUME NEW p \in Procs, RemoteCall(p) PROVE Attempting'
  <2>1. UNCHANGED <<reconnectAttempts, incarnations, found>>
    BY <1>13, Zenon DEF RemoteCall, Execute, fieldVars
  <2>2. Enter(p, "idle") \/ Enter(p, "death")
    BY <1>13, Zenon DEF RemoteCall, Execute, Answer
  <2> QED
    BY <2>1, <2>2, <1>a, <1>d
<1>14. CASE UNCHANGED clientVars
    BY <1>14, <1>c, <1>d DEF clientVars, fieldVars, daemonVars
<1> QED
    BY <1>1, <1>2, <1>3, <1>4, <1>5, <1>6, <1>7, <1>8, <1>9, <1>10, <1>11, <1>12, <1>13, <1>14, Zenon
       DEF ClientNext, ClientStep

(* Whether a reconnection is in progress stays a Boolean; stated apart for Zenon. *)
LEMMA ReconnectingTypeStep == ReconnectingType /\ [ClientNext]_clientVars => ReconnectingType'
<1> SUFFICES ASSUME ReconnectingType, [ClientNext]_clientVars PROVE ReconnectingType'
    OBVIOUS
<1> USE DEF ReconnectingType
<1>1. CASE DaemonDies \/ DaemonStarts
    BY <1>1, Zenon DEF DaemonDies, DaemonStarts, fieldVars
<1>2. ASSUME NEW p \in Procs, ConnectLock(p) \/ ConnectLookup(p) \/ ConnectVersion(p) \/ Disconnect(p)
                                \/ Reconnect(p) \/ ReconnectLookup(p) \/ Abandon(p)
      PROVE  UNCHANGED isReconnecting
    BY <1>2, Zenon DEF ConnectLock, ConnectLookup, ConnectVersion, Disconnect, Reconnect, ReconnectLookup, Abandon
<1>3. ASSUME NEW p \in Procs, ConnectLink(p) \/ HandleBinderDeath(p) \/ ReconnectMissing(p)
      PROVE  isReconnecting' \in BOOLEAN
    BY <1>3, Zenon DEF ConnectLink, HandleBinderDeath, ReconnectMissing, EndReconnect
<1>4. ASSUME NEW p \in Procs, ReconnectLink(p) \/ ReconnectVersion(p) PROVE isReconnecting' \in BOOLEAN
    BY <1>4, Zenon DEF ReconnectLink, ReconnectVersion, TryAgain, EndReconnect
<1>5. ASSUME NEW p \in Procs, Call(p) \/ Take(p) \/ RemoteCall(p) PROVE UNCHANGED isReconnecting
    BY <1>5, Zenon DEF Call, Take, RemoteCall, Execute, fieldVars
<1>6. CASE UNCHANGED clientVars
    BY <1>6, Zenon DEF clientVars, fieldVars
<1> QED
    BY <1>1, <1>2, <1>3, <1>4, <1>5, <1>6, Zenon DEF ClientNext, ClientStep

(* A step in which job j goes to l. *)
LEMMA JobMoves ==
    ASSUME RepoLocks, NEW j \in Jobs, NEW l \in JobPlaces, Go(j, l),
           UNCHANGED <<connectionMutex, configMutex, connectionJob, after>>,
           daemonState' \in DaemonStates,
           \/ l = "idle" /\ cancelled' = cancelled \ {j}
           \/ l # "idle" /\ cancelled' = cancelled
    PROVE  RepoLocks'
<1>1. pc' = [pc EXCEPT ![j] = l] /\ j \in Procs /\ j \notin Callers /\ j # "obituary" /\ Jobs \subseteq Procs
    BY RepositoryConstants DEF Go, Callers
<1>2. pc'[j] = l /\ \A p \in Procs : p # j => pc'[p] = pc[p]
    BY <1>1 DEF RepoLocks, Places
<1>3. \A p \in Callers : pc'[p] = pc[p]
    BY <1>1, <1>2 DEF Callers
<1>4. Places'
  <2>1. pc' \in [Procs -> JobPlaces \cup CallerPlaces]
    BY <1>1 DEF RepoLocks, Places
  <2>2. \A i \in Jobs : pc'[i] \in JobPlaces
    BY <1>1, <1>2 DEF RepoLocks, Places
  <2>3. pc'["obituary"] = "idle"
    BY <1>1, <1>2, ClientConstants DEF RepoLocks, Places
  <2> QED
    BY <1>3, <2>1, <2>2, <2>3 DEF RepoLocks, Places
<1>5. Sections'
    BY <1>3, Zenon DEF RepoLocks, Sections
<1>6. Shown'
  <2>1. ASSUME NEW i \in cancelled' PROVE i \in Jobs /\ pc'[i] # "idle"
    <3>1. i \in cancelled /\ i \in Jobs /\ pc[i] # "idle"
      BY <2>1 DEF RepoLocks, Shown, IdleJobs
    <3> QED
      BY <1>1, <1>2, <2>1, <3>1
  <2> QED
    BY <2>1 DEF Shown, IdleJobs
<1> QED
    BY <1>4, <1>5, <1>6 DEF RepoLocks

(* A step of a job keeps the places, and touches no mutex of the repository. *)
LEMMA JobLocks ==
    ASSUME RepoLocks, NEW j \in Jobs, JobStep(j)
    PROVE  RepoLocks'
<1>0. /\ daemonState \in DaemonStates
      /\ "Error" \in DaemonStates /\ "Ready" \in DaemonStates /\ "Connecting" \in DaemonStates
      /\ "Authenticating" \in DaemonStates /\ "Reconciling" \in DaemonStates
    BY DEF RepoLocks, Shown, DaemonStates
<1>1. ASSUME NEW s \in DaemonStates, JobEnds(j, s) PROVE RepoLocks'
  <2>1. /\ Go(j, "idle") /\ daemonState' \in DaemonStates /\ cancelled' = cancelled \ {j}
        /\ UNCHANGED <<connectionMutex, configMutex, connectionJob, after>>
    BY <1>1, Zenon DEF JobEnds, Ends, jobKeeps
  <2>2. "idle" \in JobPlaces
    BY DEF JobPlaces
  <2> QED
    BY <2>1, <2>2, JobMoves, Zenon
<1>2. ASSUME NEW s \in DaemonStates, NEW l \in JobPlaces, l # "idle", JobCalls(j, s, l) PROVE RepoLocks'
  <2>1. /\ Go(j, l) /\ daemonState' \in DaemonStates /\ cancelled' = cancelled
        /\ UNCHANGED <<connectionMutex, configMutex, connectionJob, after>>
    BY <1>2, Zenon DEF JobCalls, jobKeeps
  <2> QED
    BY <1>2, <2>1, JobMoves, Zenon
<1>3. /\ "connect" \in JobPlaces /\ "own" \in JobPlaces /\ "other" \in JobPlaces
      /\ "authenticated" \in JobPlaces /\ "registered" \in JobPlaces /\ "remember" \in JobPlaces
      /\ "restore" \in JobPlaces /\ "restored" \in JobPlaces
    BY DEF JobPlaces
<1>4. /\ "connect" # "idle" /\ "own" # "idle" /\ "other" # "idle" /\ "authenticated" # "idle"
      /\ "registered" # "idle" /\ "remember" # "idle" /\ "restored" # "idle" /\ "restore" # "idle"
    OBVIOUS
<1>a. CASE JobStart(j)
    BY <1>a, <1>0, <1>1, <1>2, <1>3, <1>4, Zenon DEF JobStart
<1>b. CASE JobCheck(j)
    BY <1>b, <1>0, <1>1, <1>2, <1>3, <1>4, Zenon DEF JobCheck
<1>c. CASE JobAuthenticate(j)
    BY <1>c, <1>0, <1>1, <1>2, <1>3, <1>4, Zenon DEF JobAuthenticate
<1>d. CASE JobRegister(j)
    BY <1>d, <1>0, <1>1, <1>2, <1>3, <1>4, Zenon DEF JobRegister
<1>e. CASE JobBuffers(j)
    BY <1>e, <1>0, <1>1, <1>2, <1>3, <1>4, Zenon DEF JobBuffers
<1>f. CASE JobRemember(j)
  <2>1. CASE lastKnownConfig = None
    BY <1>f, <2>1, <1>0, <1>1, Zenon DEF JobRemember
  <2>2. CASE lastKnownConfig # None
    <3>1. /\ Go(j, "restore") /\ daemonState' = daemonState /\ cancelled' = cancelled
          /\ UNCHANGED <<connectionMutex, configMutex, connectionJob, after>>
      BY <1>f, <2>2, Zenon DEF JobRemember, jobKeeps
    <3> QED
      BY <1>0, <1>3, <1>4, <3>1, JobMoves, Zenon
  <2> QED
    BY <2>1, <2>2
<1>g. CASE JobRestore(j)
    BY <1>g, <1>0, <1>1, <1>2, <1>3, <1>4, Zenon DEF JobRestore
<1>h. CASE JobCancelled(j)
  <2>1. UNCHANGED repoVars => RepoLocks'
    BY Zenon DEF repoVars, RepoLocks, Places, Sections, Shown, IdleJobs
  <2> QED
    BY <1>h, <2>1, <1>0, <1>1, Zenon DEF JobCancelled
<1> QED
    BY <1>a, <1>b, <1>c, <1>d, <1>e, <1>f, <1>g, <1>h, Zenon DEF JobStep

(* The mutex of section S, before and after a caller goes from place k to place l. *)
Passes(m, n, S, p, k, l) ==
    \/ n = m /\ (k \in S <=> l \in S)
    \/ m = None /\ n = p /\ l \in S
    \/ n = None /\ k \in S /\ l \notin S

(* A step in which caller p goes to l, taking or leaving mutexes as it enters and leaves
   the sections they protect. *)
LEMMA CallerMoves ==
    ASSUME RepoLocks, connectionJob \in Jobs \cup {None},
           NEW p \in Callers, NEW l \in CallerPlaces, Go(p, l),
           after' \in [Procs -> {"idle", "block1", "block2"}],
           Passes(connectionMutex, connectionMutex', ConnectionSection, p, pc[p], l),
           Passes(configMutex, configMutex', ConfigSection, p, pc[p], l),
           l # "join", UNCHANGED <<connectionJob, cancelled>> \/ (connectionMutex = None /\ cancelled' = Cancelling),
           daemonState' \in DaemonStates
    PROVE  RepoLocks'
<1>1. /\ pc' = [pc EXCEPT ![p] = l] /\ p \in Procs /\ p \notin Jobs /\ p # "obituary"
      /\ Jobs \subseteq Procs /\ Callers \subseteq Procs /\ None \notin Procs
    BY RepositoryConstants DEF Go, Callers
<1>2. pc'[p] = l /\ \A q \in Procs : q # p => pc'[q] = pc[q]
    BY <1>1 DEF RepoLocks, Places
<1>3. \A j \in Jobs : pc'[j] = pc[j]
    BY <1>1, <1>2
<1>4. Places'
  <2>1. pc' \in [Procs -> JobPlaces \cup CallerPlaces]
    BY <1>1 DEF RepoLocks, Places
  <2>2. \A q \in Callers : pc'[q] \in CallerPlaces
    BY <1>1, <1>2 DEF RepoLocks, Places
  <2>3. pc'["obituary"] = "idle"
    BY <1>1, <1>2, ClientConstants DEF RepoLocks, Places
  <2> QED
    BY <1>3, <2>1, <2>2, <2>3 DEF RepoLocks, Places
<1>5. ASSUME NEW m \in Callers \cup {None}, NEW n, NEW S, Passes(m, n, S, p, pc[p], l),
             \A q \in Callers : pc[q] \in S <=> m = q
      PROVE  n \in Callers \cup {None} /\ \A q \in Callers : pc'[q] \in S <=> n = q
    BY <1>1, <1>2, <1>5 DEF Passes
<1>6. /\ connectionMutex' \in Callers \cup {None}
      /\ \A q \in Callers : pc'[q] \in ConnectionSection <=> connectionMutex' = q
    BY <1>5, ZenonT(40) DEF RepoLocks, Sections
<1>7. /\ configMutex' \in Callers \cup {None}
      /\ \A q \in Callers : pc'[q] \in ConfigSection <=> configMutex' = q
  <2>1. /\ configMutex \in Callers \cup {None}
        /\ \A q \in Callers : pc[q] \in ConfigSection <=> configMutex = q
    BY Zenon DEF RepoLocks, Sections
  <2> QED
    BY <1>5, <2>1, Zenon
<1>8. \A q \in Callers : pc'[q] = "join" => connectionJob' \in Jobs
  <2> SUFFICES ASSUME NEW q \in Callers, pc'[q] = "join" PROVE connectionJob' \in Jobs
    BY SMTT(40)
  <2>1. q # p /\ pc[q] = "join" /\ connectionJob \in Jobs
    BY <1>1, <1>2 DEF RepoLocks, Sections
  <2>2. connectionMutex = q /\ q # None
    BY <1>1, <2>1 DEF RepoLocks, Sections, ConnectionSection
  <2> QED
    BY Zenon, <2>1, <2>2
<1>9. Sections'
    BY <1>6, <1>7, <1>8, Zenon DEF Sections
<1>10. Shown'
  <2>1. ASSUME NEW i \in cancelled' PROVE i \in Jobs /\ pc[i] # "idle"
    <3>1. i \in cancelled => i \in Jobs /\ pc[i] # "idle"
      BY DEF RepoLocks, Shown, IdleJobs
    <3> QED
      BY <2>1, <3>1 DEF Cancelling
  <2> QED
    BY <1>3, <2>1 DEF Shown, IdleJobs
<1> QED
    BY <1>4, <1>9, <1>10 DEF RepoLocks

(* connect starts a job and awaits it under connectionMutex. *)
LEMMA LaunchLocks ==
    ASSUME RepoLocks, connectionJob \in Jobs \cup {None}, NEW p \in Callers, ConnectLaunch(p)
    PROVE  RepoLocks'
<1>1. PICK j \in Jobs : /\ pc[j] = "idle" /\ connectionJob' = j
                        /\ pc' = [pc EXCEPT ![p] = "join", ![j] = "start"]
    BY Zenon DEF ConnectLaunch, IdleJobs
<1>2. /\ connectionMutex = None /\ connectionMutex' = p /\ pc[p] = "lock" /\ cancelled' = Cancelling
      /\ UNCHANGED <<configMutex, daemonState, after>>
    BY Zenon DEF ConnectLaunch, callKeeps, At
<1>3. /\ p \in Procs /\ p \notin Jobs /\ p # "obituary" /\ j \in Procs /\ j \notin Callers /\ j # "obituary"
      /\ p # j /\ Jobs \subseteq Procs /\ Callers \subseteq Procs /\ None \notin Procs
    BY RepositoryConstants DEF Callers
<1>4. pc'[p] = "join" /\ pc'[j] = "start" /\ \A q \in Procs : q # p /\ q # j => pc'[q] = pc[q]
    BY <1>1, <1>3 DEF RepoLocks, Places
<1>5. "join" \in CallerPlaces /\ "start" \in JobPlaces
    BY DEF CallerPlaces, ConnectionSection, JobPlaces
<1>6. Places'
  <2>1. pc' \in [Procs -> JobPlaces \cup CallerPlaces]
    BY Zenon, <1>1, <1>5 DEF RepoLocks, Places
  <2>2. \A q \in Callers : pc'[q] \in CallerPlaces
    BY <1>3, <1>4, <1>5 DEF RepoLocks, Places
  <2>3. \A i \in Jobs : pc'[i] \in JobPlaces
    BY <1>3, <1>4, <1>5 DEF RepoLocks, Places
  <2>4. pc'["obituary"] = "idle"
    BY <1>3, <1>4, ClientConstants DEF RepoLocks, Places
  <2> QED
    BY <1>2, <2>1, <2>2, <2>3, <2>4 DEF RepoLocks, Places
<1>7. Sections'
  <2>1. \A q \in Callers : pc'[q] \in ConnectionSection <=> q = p
    <3>1. "join" \in ConnectionSection
      BY DEF ConnectionSection
    <3> QED
      BY <1>2, <1>3, <1>4, <3>1 DEF RepoLocks, Sections
  <2>2. \A q \in Callers : pc'[q] \in ConfigSection <=> configMutex' = q
    <3>1. "join" \notin ConfigSection /\ "lock" \notin ConfigSection
      BY DEF ConfigSection
    <3> QED
      BY <1>2, <1>3, <1>4, <3>1 DEF RepoLocks, Sections
  <2> QED
    BY Zenon, <1>1, <1>2, <2>1, <2>2 DEF RepoLocks, Sections
<1>8. Shown'
  <2>1. ASSUME NEW i \in cancelled' PROVE i \in Jobs /\ pc[i] # "idle"
    <3>1. i \in cancelled => i \in Jobs /\ pc[i] # "idle"
      BY DEF RepoLocks, Shown, IdleJobs
    <3> QED
      BY <1>2, <2>1, <3>1 DEF Cancelling
  <2>2. ASSUME NEW i \in cancelled' PROVE i \in Jobs /\ pc'[i] # "idle"
    BY Zenon, <1>1, <1>3, <1>4, <2>1, <2>2
  <2>3. daemonState' \in DaemonStates
    BY <1>2 DEF RepoLocks, Shown
  <2> QED
    BY <2>2, <2>3 DEF Shown, IdleJobs
<1> QED
    BY <1>6, <1>7, <1>8 DEF RepoLocks

(* A step of a caller enters a section with its mutex and leaves it without. *)
LEMMA CallerLocks ==
    ASSUME RepoLocks, connectionJob \in Jobs \cup {None}, NEW p \in Callers, CallerStep(p)
    PROVE  RepoLocks'
<1> USE DEF Passes, ConnectionSection, ConfigSection, CallerPlaces
<1>0. /\ p \in Procs /\ after[p] \in {"idle", "block1", "block2"}
      /\ after \in [Procs -> {"idle", "block1", "block2"}]
      /\ daemonState \in DaemonStates /\ "Stopped" \in DaemonStates
    BY DEF Callers, RepoLocks, Places, Shown, DaemonStates
<1>1. CASE ConnectLaunch(p)
    BY <1>1, LaunchLocks, ZenonT(40)
<1>2. CASE ConnectJoin(p)
  <2>1. /\ pc[p] = "join" /\ connectionMutex' = None
        /\ after' = [after EXCEPT ![p] = "idle"]
        /\ UNCHANGED <<configMutex, daemonState, connectionJob, cancelled>>
    BY <1>2, Zenon DEF ConnectJoin, At, callKeeps
  <2>2. PICK l \in {"idle", "block1", "block2"} : Go(p, l)
    BY SMTT(40), <1>0, <1>2 DEF ConnectJoin
  <2> QED
    BY Zenon, <1>0, <2>1, <2>2, CallerMoves
<1>3. CASE DisconnectLock(p)
  <2>1. /\ pc[p] = "disconnect" /\ connectionMutex = None /\ connectionMutex' = p
        /\ cancelled' = Cancelling /\ Go(p, "unregister")
        /\ UNCHANGED <<configMutex, daemonState, after>>
    BY <1>3, Zenon DEF DisconnectLock, At, callKeeps
  <2> QED
    BY <1>0, <2>1, CallerMoves
<1>4. CASE DisconnectCalls(p)
  <2>1. /\ pc[p] \in {"unregister", "unregister2", "unregistered"}
        /\ Go(p, "unregister2") \/ Go(p, "unregistered") \/ Go(p, "disconnected")
        /\ UNCHANGED <<configMutex, daemonState, after, connectionMutex, connectionJob, cancelled>>
    BY <1>4, Zenon DEF DisconnectCalls, At, callKeeps
  <2> QED
    BY <1>0, <2>1, CallerMoves
<1>5. CASE DisconnectStopped(p)
  <2>1. /\ pc[p] = "disconnected" /\ connectionMutex' = None /\ daemonState' = "Stopped"
        /\ Go(p, "idle")
        /\ UNCHANGED <<configMutex, after, connectionJob, cancelled>>
    BY <1>5, Zenon DEF DisconnectStopped, At, Ends
  <2> QED
    BY Zenon, <1>0, <2>1, CallerMoves
<1>6. CASE OperationBlock(p) \/ OperationTried(p)
  <2>1. /\ pc[p] \in {"block1", "block2", "tried", "over"}
        /\ Go(p, "tried") \/ Go(p, "over") \/ Go(p, "dropped") \/ Go(p, "idle")
        /\ UNCHANGED <<configMutex, daemonState, after, connectionMutex, connectionJob, cancelled>>
    BY <1>6, Zenon DEF OperationBlock, OperationTried, At, Ends, opKeeps, callKeeps
  <2> QED
    BY <1>0, <2>1, CallerMoves
<1>7. CASE OperationAgain(p)
  <2>1. /\ pc[p] = "dropped" /\ Go(p, "lock") /\ after' = [after EXCEPT ![p] = "block2"]
        /\ UNCHANGED <<configMutex, daemonState, connectionMutex, connectionJob, cancelled>>
    BY <1>7, Zenon DEF OperationAgain, BeginConnect, At, opKeeps, callKeeps
  <2> QED
    BY <1>0, <2>1, CallerMoves
<1>8. CASE ConfigureLock(p)
  <2>1. /\ pc[p] = "configure"
        /\ \/ configMutex = None /\ configMutex' = p /\ Go(p, "send")
           \/ configMutex' = configMutex /\ Go(p, "refused")
        /\ UNCHANGED <<daemonState, after, connectionMutex, connectionJob, cancelled>>
    BY <1>8, Zenon DEF ConfigureLock, At, confKeeps
  <2> QED
    BY <1>0, <2>1, CallerMoves
<1>9. CASE ConfigureSend(p)
  <2>1. /\ pc[p] = "send" /\ Go(p, "sent")
        /\ UNCHANGED <<configMutex, daemonState, after, connectionMutex, connectionJob, cancelled>>
    BY <1>9, Zenon DEF ConfigureSend, At, confKeeps
  <2> QED
    BY <1>0, <2>1, CallerMoves
<1>10. CASE ConfigureSent(p)
  <2>1. /\ pc[p] = "sent" /\ configMutex' = None
        /\ UNCHANGED <<daemonState, after, connectionMutex, connectionJob, cancelled>>
    BY <1>10, Zenon DEF ConfigureSent, At, confKeeps
  <2>2. Go(p, "configured") \/ Go(p, "refused")
    BY <1>10, Zenon DEF ConfigureSent
  <2> QED
    BY <1>0, <2>1, <2>2, CallerMoves
<1> QED
    BY <1>1, <1>2, <1>3, <1>4, <1>5, <1>6, <1>7, <1>8, <1>9, <1>10, Zenon DEF CallerStep

(* Every step of the composition keeps places, sections and what is shown. *)
LEMMA RepoLocksStep == RepoLocks /\ RepoInv /\ [RepoNext]_repoAll => RepoLocks'
<1> SUFFICES ASSUME RepoLocks, RepoInv, [RepoNext]_repoAll PROVE RepoLocks'
    OBVIOUS
<1>0. /\ connectionJob \in Jobs \cup {None} /\ daemonState \in DaemonStates
      /\ after \in [Procs -> {"idle", "block1", "block2"}]
    BY RepositoryConstants DEF RepoInv, RepoLocks, Shown, Places
<1>b. \A c \in Callers : c \in Procs
    BY DEF Callers
<1>a. UNCHANGED repoVars => RepoLocks'
    BY Zenon DEF repoVars, RepoLocks, Places, Sections, Shown, IdleJobs
<1>1. CASE Surroundings
  <2>1. ASSUME NEW c \in Callers, ConnectAbandoned(c) PROVE RepoLocks'
    <3>1. /\ pc[c] \in {"lock", "join"} /\ Go(c, "idle")
          /\ connectionMutex' = IF connectionMutex = c THEN None ELSE connectionMutex
          /\ after' = [after EXCEPT ![c] = "idle"]
          /\ UNCHANGED <<configMutex, daemonState, connectionJob, cancelled>>
      BY <2>1, Zenon DEF ConnectAbandoned, At, callKeeps
    <3>2. pc[c] \in ConnectionSection <=> connectionMutex = c
      BY <1>0, <1>b DEF RepoLocks, Sections
    <3> QED
      BY Zenon, <1>0, <1>b, <3>1, <3>2, CallerMoves DEF Passes, ConnectionSection, ConfigSection, CallerPlaces
  <2> QED
    BY <1>1, <1>a, <2>1, Zenon DEF Surroundings
<1>2. CASE Collector
  <2>1. /\ UNCHANGED <<connectionMutex, configMutex, connectionJob, cancelled, pc, after>>
        /\ daemonState' \in {daemonState, "Stopped", "Error"}
    BY <1>2 DEF Collector, Collect, HandleBinderState
  <2>2. daemonState' \in DaemonStates
    BY <1>0, <2>1 DEF DaemonStates
  <2> QED
    BY <2>1, <2>2, Zenon DEF RepoLocks, Places, Sections, Shown, IdleJobs
<1>3. ASSUME NEW p \in Procs, Progress(p) PROVE RepoLocks'
    BY <1>0, <1>3, <1>a, JobLocks, CallerLocks, Zenon DEF Progress, InClient
<1>4. ASSUME NEW c \in Callers, CallConnect(c) \/ CallDisconnect(c) \/ CallConfigure(c) \/ Configured(c)
      PROVE  RepoLocks'
  <2>1. /\ pc[c] \in {"idle", "configured", "refused"}
        /\ Go(c, "lock") \/ Go(c, "disconnect") \/ Go(c, "configure") \/ Go(c, "idle")
        /\ after' \in {after, [after EXCEPT ![c] = "idle"]}
        /\ UNCHANGED <<connectionMutex, configMutex, daemonState, connectionJob, cancelled>>
    BY <1>4, Zenon DEF CallConnect, CallDisconnect, CallConfigure, Configured, Begin, BeginConnect, At, callKeeps
  <2> QED
    BY <1>0, <1>b, <2>1, CallerMoves DEF Passes, ConnectionSection, ConfigSection, CallerPlaces
<1>5. ASSUME NEW c \in Callers, CallOperation(c) PROVE RepoLocks'
  <2>1. /\ pc[c] = "idle"
        /\ Go(c, "block1") \/ Go(c, "lock")
        /\ after' \in {after, [after EXCEPT ![c] = "block1"]}
        /\ UNCHANGED <<connectionMutex, configMutex, daemonState, connectionJob, cancelled>>
    BY <1>5, Zenon DEF CallOperation, Begin, BeginConnect, At, callKeeps
  <2> QED
    BY <1>0, <1>b, <2>1, CallerMoves DEF Passes, ConnectionSection, ConfigSection, CallerPlaces
<1>6. CASE UNCHANGED repoAll
    BY <1>6, <1>a, Zenon DEF repoAll
<1> QED
    BY <1>1, <1>2, <1>3, <1>4, <1>5, <1>6, Zenon DEF RepoNext

(* Together, with the invariants above. *)
LocksInv == Locked /\ Attempting /\ ReconnectingType /\ RepoLocks

(* They hold at the start. *)
LEMMA LocksInit == RepoInit => LocksInv
  <1> SUFFICES ASSUME RepoInit PROVE LocksInv
    OBVIOUS
  <1>1. /\ step = [p \in Procs |-> "idle"] /\ mutex = None /\ found = 0
        /\ reconnectAttempts = 0 /\ incarnations = 1 /\ isReconnecting = FALSE
        /\ pc = [p \in Procs |-> "idle"] /\ after = [p \in Procs |-> "idle"]
        /\ connectionMutex = None /\ configMutex = None /\ cancelled = {} /\ daemonState = "Stopped"
    BY Zenon DEF RepoInit, ClientInit
  <1>2. None \notin Procs /\ Jobs \subseteq Procs /\ Callers \subseteq Procs /\ "obituary" \in Procs
    BY RepositoryConstants, ClientConstants DEF Callers
  <1>3. Locked
    BY <1>1, <1>2 DEF Locked, Holding, Contending
  <1>4. Attempting
    BY <1>1, ClientConstants DEF Attempting
  <1>5. ReconnectingType
    BY <1>1, Zenon DEF ReconnectingType
  <1>6. Places
    BY <1>1, <1>2 DEF Places, JobPlaces, CallerPlaces
  <1>7. Sections
    BY <1>1, <1>2 DEF Sections, ConnectionSection, ConfigSection
  <1>8. Shown
    BY <1>1 DEF Shown, DaemonStates
  <1> QED
    BY <1>3, <1>4, <1>5, <1>6, <1>7, <1>8, Zenon DEF LocksInv, RepoLocks

(* They always hold. *)
LEMMA LocksInvariant == RepoSpec => []LocksInv
<1>1. LocksInv /\ RepoInv /\ ClientInv /\ SessionType /\ [RepoNext]_repoAll => LocksInv'
    BY RepoUsesClient, LockedStep, AttemptingStep, ReconnectingTypeStep, RepoLocksStep, Zenon DEF LocksInv
<1> QED
    BY <1>1, LocksInit, RepoInvariant, PTL DEF RepoSpec

(* The types follow. *)
LEMMA TypesFollow == LocksInv /\ RepoInv /\ ClientInv /\ SessionType => RepoTypeOK
  <1> SUFFICES ASSUME LocksInv, RepoInv, ClientInv, SessionType PROVE RepoTypeOK
    OBVIOUS
  <1>1. service \in Nat /\ incarnations \in Nat /\ service \in {0, incarnations} /\ links \in Nat /\ obituaries \in Nat
    BY DEF ClientInv
  <1>2. session \in BOOLEAN /\ isReconnecting \in BOOLEAN
    BY Zenon DEF SessionType, LocksInv, ReconnectingType
  <1>3. daemonConfig \in Configs \cup {None} /\ lastKnownConfig \in Configs \cup {None}
    BY DEF ClientInv, RepoInv
  <1>4. binder \in 0 .. incarnations
    BY DEF ClientInv
  <1>5. found \in 0 .. incarnations /\ reconnectAttempts \in 0 .. MAX_ATTEMPTS
    BY DEF LocksInv, Attempting
  <1>6. /\ mutex \in Procs \cup {None} /\ connectionMutex \in Procs \cup {None}
        /\ configMutex \in Procs \cup {None} /\ connectionJob \in Jobs \cup {None}
    BY DEF LocksInv, Locked, RepoLocks, Sections, RepoInv, Callers
  <1>7. cancelled \subseteq Jobs \ IdleJobs
    BY DEF LocksInv, RepoLocks, Shown
  <1>8. daemonState \in {"Stopped", "Connecting", "Authenticating", "Reconciling", "Ready", "Error"}
    BY DEF LocksInv, RepoLocks, Shown, DaemonStates
  <1> QED
    BY <1>1, <1>2, <1>3, <1>4, <1>5, <1>6, <1>7, <1>8, Zenon DEF RepoTypeOK

(* Type correctness of the client and the repository: no more than MAX_ATTEMPTS
   reconnections in a row, no binder that was never registered, and no job recorded as
   cancelled that has ended. *)
THEOREM RepoTypes == RepoSpec => []RepoTypeOK
<1> QED
    BY TypesFollow, LocksInvariant, RepoInvariant, PTL

(* Where each mutex is held determines what its holder can wait for. *)
LEMMA OrderFollows == LocksInv /\ RepoInv => WaitsInOrder
  <1> SUFFICES ASSUME LocksInv, RepoInv, NEW p \in Procs, NEW q \in Awaits(p)
               PROVE  Level(q) < Level(p) /\ Busy(q)
    BY DEF WaitsInOrder
  <1>0. q \in Procs /\ None \notin Procs
    BY RepositoryConstants DEF Awaits
  <1>1. CASE WaitsForClient(p) /\ q = mutex
    <2>1. step[q] \in Holding
      BY <1>0, <1>1 DEF LocksInv, Locked
    <2>2. Level(q) = 0
      BY <2>1 DEF Level, At, WaitsForClient, Holding, Contending
    <2>3. Level(p) \in {1, 2, 3}
      BY <1>1 DEF Level
    <2> QED
      BY <2>1, <2>2, <2>3 DEF Holding, Busy
  <1>2. CASE (At(p, "lock") \/ At(p, "disconnect")) /\ q = connectionMutex
    <2>1. pc[q] \in ConnectionSection
      BY <1>0, <1>2 DEF LocksInv, RepoLocks, Sections
    <2>2. Level(q) \in {0, 1, 2}
      BY <2>1 DEF Level, At, ConnectionSection
    <2>3. Level(p) = 3
      BY <1>2 DEF Level
    <2> QED
      BY <2>1, <2>2, <2>3 DEF ConnectionSection, Busy
  <1>3. CASE At(p, "join") /\ q = connectionJob /\ pc[q] # "idle"
    <2>1. pc[q] \in JobPlaces
      BY <1>0, <1>3 DEF RepoInv, LocksInv, RepoLocks, Places
    <2>2. Level(q) \in {0, 1}
      BY <2>1 DEF Level, At, JobPlaces
    <2>3. Level(p) = 2
      BY <1>3 DEF Level, At
    <2> QED
      BY <1>3, <2>2, <2>3 DEF Busy
  <1>4. CASE At(p, "configure") /\ q = configMutex
    <2>1. pc[q] \in ConfigSection
      BY SMTT(40), <1>0, <1>4 DEF LocksInv, RepoLocks, Sections
    <2>2. Level(q) \in {0, 1}
      BY <2>1 DEF Level, At, ConfigSection
    <2>3. Level(p) = 2
      BY <1>4 DEF Level, At
    <2> QED
      BY <2>1, <2>2, <2>3 DEF ConfigSection, Busy
  <1> QED
    BY <1>1, <1>2, <1>3, <1>4 DEF Awaits

(* However many coroutines use the repository, its mutexes and the client's are waited
   for in one order and held only by coroutines at work, so no circle of coroutines ever
   waits and none waits for a mutex left behind (connectionMutex and
   configMutex of DaemonRepositoryImpl, mutex of DaemonBinderClientImpl). *)
THEOREM RepoWaitsInOrder == RepoSpec => []WaitsInOrder
<1> QED
    BY OrderFollows, LocksInvariant, RepoInvariant, PTL

-----------------------------------------------------------------------------
(* Nobody is stuck *)

(* Of a chain of coroutines that wait for each other the last one does not wait, and the
   chain is short, since each waits for something lower. *)
LEMMA SomeoneFollows == LocksInv /\ RepoInv => NobodyStuck
<1> SUFFICES ASSUME LocksInv, RepoInv, NEW p \in Procs, Busy(p)
             PROVE  \E q \in Procs : Runnable(q)
    BY DEF NobodyStuck
<1>1. \A q \in Procs : \A r \in Awaits(q) : r \in Procs /\ Level(r) < Level(q) /\ Busy(r)
    BY OrderFollows DEF WaitsInOrder, Awaits
<1>2. \A q \in Procs : Level(q) \in 0 .. 3
    BY DEF Level
<1>3. \A q \in Procs : At(q, "lock") => Level(q) = 3
    BY DEF Level
<1>4. ASSUME NEW q \in Procs, Busy(q), Level(q) < 3 PROVE Awaits(q) = {} => Runnable(q)
    BY <1>3, <1>4 DEF Runnable
<1>5. \A q \in Procs : Busy(q) /\ Level(q) < 1 => \E r \in Procs : Runnable(r)
    BY <1>1, <1>2, <1>4
<1>6. \A q \in Procs : Busy(q) /\ Level(q) < 2 => \E r \in Procs : Runnable(r)
    BY <1>1, <1>2, <1>4, <1>5
<1>7. \A q \in Procs : Busy(q) /\ Level(q) < 3 => \E r \in Procs : Runnable(r)
    BY <1>1, <1>2, <1>4, <1>6
<1>8. CASE Awaits(p) # {}
    BY <1>1, <1>2, <1>7, <1>8
<1>9. CASE Awaits(p) = {} /\ At(p, "lock") /\ IdleJobs = {}
  <2>1. PICK j \in Jobs : pc[j] # "idle"
    BY <1>9, RepositoryConstants DEF IdleJobs
  <2>2. j \in Procs /\ Busy(j)
    BY <2>1, RepositoryConstants DEF Busy
  <2>3. pc[j] \in JobPlaces
    BY SMTT(40) DEF LocksInv, RepoLocks, Places
  <2>4. Level(j) < 3
    BY <2>3 DEF Level, At, JobPlaces
  <2> QED
    BY <1>7, <2>2, <2>4
<1>10. CASE Awaits(p) = {} /\ (At(p, "lock") => IdleJobs # {})
    BY <1>10 DEF Runnable
<1> QED
    BY <1>8, <1>9, <1>10

(* However many coroutines use client and repository, and whatever dies or is cancelled:
   as long as one of them is at work, one that is waits for nobody (the mutexes of
   DaemonBinderClientImpl and DaemonRepositoryImpl, and the job awaited under one). *)
THEOREM RepoNobodyStuck == RepoSpec => []NobodyStuck
<1> QED
    BY SomeoneFollows, LocksInvariant, RepoInvariant, PTL

-----------------------------------------------------------------------------
(* Calls are finite *)

(* A coroutine inside a method of the client is a step closer to its return after each
   of its own steps, and nobody else's step changes how far it is: only the holder of the
   mutex counts attempts. *)
LEMMA StepsShrink ==
    ASSUME Locked, Attempting, [ClientNext]_clientVars, NEW q \in Procs, step[q] # "idle"
    PROVE  StepsLeft(q)' < StepsLeft(q) \/ UNCHANGED <<step[q], StepsLeft(q)>>
<1> DEFINE Goal == StepsLeft(q)' < StepsLeft(q) \/ UNCHANGED <<step[q], StepsLeft(q)>>
<1>0. /\ MAX_ATTEMPTS \in Nat /\ reconnectAttempts \in Nat /\ reconnectAttempts <= MAX_ATTEMPTS
      /\ step[q] = "backoff" => reconnectAttempts < MAX_ATTEMPTS
      /\ step \in [Procs -> Contending \cup Holding \cup {"idle"}]
    BY ClientConstants DEF Attempting, Locked
<1>1. ASSUME step'[q] = step[q],
             UNCHANGED reconnectAttempts \/ step[q] \in {"connect", "disconnect", "death"}
      PROVE  Goal
    BY SMTT(40), <1>1 DEF StepsLeft
<1>2. ASSUME NEW p \in Procs, p # q, NEW s, Enter(p, s),
             UNCHANGED reconnectAttempts \/ step[p] \in Holding
      PROVE  Goal
  <2>1. step'[q] = step[q]
    BY <1>0, <1>2 DEF Enter
  <2>2. step[p] \in Holding => step[q] \in {"connect", "disconnect", "death"}
    BY SMTT(40), <1>0, <1>2 DEF Locked, Contending
  <2> QED
    BY Zenon, <1>1, <1>2, <2>1, <2>2
<1>3. ASSUME NEW p \in Procs, NEW s, Enter(p, s), p = q => s = "idle", UNCHANGED reconnectAttempts
      PROVE  Goal
  <2>1. CASE p = q
    <3>1. step'[q] = "idle"
      BY <1>0, <1>3, <2>1 DEF Enter
    <3>2. StepsLeft(q)' = 0
      BY <3>1 DEF StepsLeft
    <3>3. StepsLeft(q) > 0
      BY <1>0 DEF StepsLeft, Contending, Holding
    <3> QED
      BY <3>2, <3>3
  <2> QED
    BY <1>2, <1>3, <2>1
<1>4. ASSUME NEW p \in Procs, NEW r, Return(p, r), UNCHANGED reconnectAttempts PROVE Goal
    BY Zenon, <1>3, <1>4 DEF Return, Enter
<1>5. ASSUME NEW p \in Procs, ConnectLock(p) PROVE Goal
  <2>1. step[p] = "connect" /\ Enter(p, "lookup") /\ UNCHANGED reconnectAttempts
    BY Zenon, <1>5 DEF ConnectLock, Goes
  <2>2. CASE p = q
    BY SMTT(40), <1>0, <2>1, <2>2 DEF Enter, StepsLeft
  <2> QED
    BY <1>2, <2>1, <2>2
<1>6. ASSUME NEW p \in Procs, ConnectLookup(p) PROVE Goal
  <2>1. step[p] = "lookup" /\ UNCHANGED reconnectAttempts
        /\ (Enter(p, "link") \/ Return(p, "NotRunning"))
    BY Zenon, <1>6 DEF ConnectLookup, Goes
  <2>2. CASE p = q /\ Enter(p, "link")
    BY SMTT(40), <1>0, <2>1, <2>2 DEF Enter, StepsLeft
  <2> QED
    BY Zenon, <1>2, <1>4, <2>1, <2>2
<1>7. ASSUME NEW p \in Procs, ConnectLink(p) PROVE Goal
  <2>1. step[p] = "link" /\ step[p] \in Holding
        /\ (Enter(p, "version") \/ (Return(p, "Failed") /\ UNCHANGED reconnectAttempts))
    BY Zenon, <1>7 DEF ConnectLink, Goes, Holding
  <2>2. CASE p = q /\ Enter(p, "version")
    BY SMTT(40), <1>0, <2>1, <2>2 DEF Enter, StepsLeft
  <2> QED
    BY Zenon, <1>2, <1>4, <2>1, <2>2
<1>8. ASSUME NEW p \in Procs, ConnectVersion(p) \/ Disconnect(p) \/ ReconnectMissing(p) \/ Abandon(p)
      PROVE  Goal
  <2>1. UNCHANGED reconnectAttempts /\ \E r : Return(p, r)
    BY ZenonT(40), <1>8 DEF ConnectVersion, Disconnect, ReconnectMissing, Abandon, EndReconnect
  <2> QED
    BY Zenon, <1>4, <2>1
<1>9. ASSUME NEW p \in Procs, HandleBinderDeath(p) PROVE Goal
  <2>1. UNCHANGED reconnectAttempts /\ (Enter(p, "backoff") \/ Return(p, result[p]))
        /\ (step[p] = "death" \/ step[p] = "idle")
    BY Zenon, <1>9 DEF HandleBinderDeath, Goes
  <2>2. CASE p = q /\ Enter(p, "backoff")
    BY SMTT(40), <1>0, <2>1, <2>2 DEF Enter, StepsLeft
  <2> QED
    BY Zenon, <1>2, <1>4, <2>1, <2>2
<1>10. ASSUME NEW p \in Procs, Reconnect(p) PROVE Goal
  <2>1. step[p] = "backoff" /\ step[p] \in Holding /\ Enter(p, "relookup")
        /\ reconnectAttempts' = reconnectAttempts + 1
    BY Zenon, <1>10 DEF Reconnect, Goes, Holding
  <2>2. CASE p = q
    BY SMTT(40), <1>0, <2>1, <2>2 DEF Enter, StepsLeft
  <2> QED
    BY <1>2, <2>1, <2>2
<1>11. ASSUME NEW p \in Procs, ReconnectLookup(p) PROVE Goal
  <2>1. step[p] = "relookup" /\ UNCHANGED reconnectAttempts /\ (Enter(p, "missing") \/ Enter(p, "relink"))
    BY Zenon, <1>11 DEF ReconnectLookup, Goes
  <2>2. CASE p = q
    BY SMTT(40), <1>0, <2>1, <2>2 DEF Enter, StepsLeft
  <2> QED
    BY <1>2, <2>1, <2>2
<1>12. ASSUME NEW p \in Procs, ReconnectLink(p) \/ ReconnectVersion(p) PROVE Goal
  <2>1. /\ UNCHANGED reconnectAttempts
        /\ \/ step[p] = "relink" /\ Enter(p, "reversion")
           \/ step[p] \in {"relink", "reversion"} /\ Enter(p, "backoff")
           \/ Return(p, result[p])
    BY Zenon, <1>12 DEF ReconnectLink, ReconnectVersion, TryAgain, EndReconnect, Goes
  <2>2. CASE p = q /\ step[p] = "relink" /\ Enter(p, "reversion")
    BY <1>0, <2>1, <2>2 DEF Enter, StepsLeft
  <2>3. CASE p = q /\ step[p] \in {"relink", "reversion"} /\ Enter(p, "backoff")
    BY SMTT(40), <1>0, <2>1, <2>3 DEF Enter, StepsLeft
  <2> QED
    BY Zenon, <1>2, <1>4, <2>1, <2>2, <2>3
<1>13. ASSUME NEW p \in Procs, Call(p) \/ RemoteCall(p) PROVE Goal
  <2>1. step[p] = "idle" /\ UNCHANGED reconnectAttempts /\ \E s : Enter(p, s)
    BY Zenon, <1>13 DEF Call, RemoteCall, Execute, Answer, fieldVars
  <2> QED
    BY Zenon, <1>2, <2>1
<1>14. CASE UNCHANGED <<step, reconnectAttempts>>
    BY <1>1, <1>14
<1>15. CASE DaemonDies \/ DaemonStarts \/ (\E p \in Procs : Take(p)) \/ UNCHANGED clientVars
    BY ZenonT(40), <1>14, <1>15 DEF DaemonDies, DaemonStarts, Take, clientVars, fieldVars
<1> QED
    BY Zenon, <1>5, <1>6, <1>7, <1>8, <1>9, <1>10, <1>11, <1>12, <1>13, <1>15 DEF ClientNext, ClientStep

(* The numbers of the places, in the order in which a function passes them. *)
LEMMA PlaceValues ==
    /\ Place["idle"] = 0 /\ Place["over"] = 1 /\ Place["block2"] = 2 /\ Place["join"] = 3
    /\ Place["lock"] = 4 /\ Place["dropped"] = 5 /\ Place["tried"] = 6 /\ Place["block1"] = 7
    /\ Place["disconnected"] = 1 /\ Place["unregistered"] = 2 /\ Place["unregister2"] = 3
    /\ Place["unregister"] = 4 /\ Place["disconnect"] = 5 /\ Place["refused"] = 1
    /\ Place["configured"] = 1 /\ Place["sent"] = 2 /\ Place["send"] = 3 /\ Place["configure"] = 4
    /\ Place["restored"] = 1 /\ Place["restore"] = 2 /\ Place["remember"] = 3
    /\ Place["registered"] = 4 /\ Place["authenticated"] = 5 /\ Place["own"] = 5
    /\ Place["other"] = 6 /\ Place["connect"] = 7 /\ Place["start"] = 8
    /\ Place["sync"] = 5 /\ Place["read"] = 6 /\ Place["force"] = 7
    /\ Place["debug_read"] = 6 /\ Place["debug"] = 7
<1> QED
    BY Zenon DEF Place

(* At every place of a function a number of them is left. *)
LEMMA PlacesAreNumbers == \A l \in JobPlaces \cup CallerPlaces : Place[l] \in Nat
BY PlaceValues DEF JobPlaces, CallerPlaces, ConnectionSection, ConfigSection

(* From place a to place b of a function there is less left of it. *)
Falls(a, b) == Place[b] \in Nat /\ Place[a] \in Nat /\ Place[b] < Place[a]

(* The order of the places within runConnectionSequence, disconnect, executeWithReconnect
   and configure. *)
LEMMA Descent ==
    /\ Falls("start", "connect") /\ Falls("connect", "own") /\ Falls("connect", "other")
    /\ Falls("other", "authenticated") /\ Falls("own", "registered")
    /\ Falls("authenticated", "registered") /\ Falls("registered", "remember")
    /\ Falls("remember", "restore") /\ Falls("restore", "restored")
    /\ Falls("disconnect", "unregister") /\ Falls("unregister", "unregister2")
    /\ Falls("unregister2", "unregistered") /\ Falls("unregistered", "disconnected")
    /\ Falls("disconnected", "idle") /\ Falls("block1", "tried") /\ Falls("block2", "over")
    /\ Falls("tried", "dropped") /\ Falls("tried", "idle") /\ Falls("over", "idle")
    /\ Falls("configure", "send") /\ Falls("configure", "refused") /\ Falls("send", "sent")
    /\ Falls("sent", "configured") /\ Falls("sent", "refused")
    /\ Falls("configured", "idle") /\ Falls("refused", "idle")
<1>1. /\ Falls("start", "connect") /\ Falls("connect", "own") /\ Falls("connect", "other")
      /\ Falls("other", "authenticated") /\ Falls("own", "registered")
      /\ Falls("authenticated", "registered") /\ Falls("registered", "remember")
      /\ Falls("remember", "restore") /\ Falls("restore", "restored")
  BY PlaceValues DEF Falls
<1>2. /\ Falls("disconnect", "unregister") /\ Falls("unregister", "unregister2")
      /\ Falls("unregister2", "unregistered") /\ Falls("unregistered", "disconnected")
      /\ Falls("disconnected", "idle") /\ Falls("block1", "tried") /\ Falls("block2", "over")
      /\ Falls("tried", "dropped") /\ Falls("tried", "idle") /\ Falls("over", "idle")
  BY PlaceValues DEF Falls
<1>3. /\ Falls("configure", "send") /\ Falls("configure", "refused") /\ Falls("send", "sent")
      /\ Falls("sent", "configured") /\ Falls("sent", "refused")
      /\ Falls("configured", "idle") /\ Falls("refused", "idle")
  BY PlaceValues DEF Falls
<1> QED BY Zenon, <1>1, <1>2, <1>3

(* A coroutine that is not inside a function of the repository is not inside one of the
   client; the death recipient runs in the client alone. *)
Entered == \A p \in Procs \ {"obituary"} : pc[p] = "idle" => step[p] = "idle"

(* The coroutines of S, none of them inside the client, begin or come closer to their
   end; the others stay where they are. *)
Moves(S) ==
    /\ UNCHANGED reconnectAttempts
    /\ \A q \in Procs \ S : pc'[q] = pc[q] /\ after'[q] = after[q] /\ step'[q] = step[q]
    /\ \A q \in S : /\ q # "obituary" /\ step[q] = "idle"
                    /\ pc[q] # "idle" => PlacesLeft(q)' < PlacesLeft(q)
                    /\ pc'[q] = "idle" => step'[q] = "idle"

(* A move of one coroutine. *)
LEMMA MovesAlone ==
    ASSUME LocksInv, NEW p \in Procs \ {"obituary"}, NEW l, NEW s, NEW a,
           step[p] = "idle", Go(p, l), l = "idle" => s = "idle",
           Enter(p, s) \/ (s = "idle" /\ UNCHANGED step),
           after' = [after EXCEPT ![p] = a] \/ (a = after[p] /\ UNCHANGED after),
           UNCHANGED reconnectAttempts,
           pc[p] # "idle" => Place[l] + Detour(a) < Place[pc[p]] + Detour(after[p])
    PROVE  Moves({p})
<1>1. step = [q \in Procs |-> step[q]] /\ pc = [q \in Procs |-> pc[q]] /\ after = [q \in Procs |-> after[q]]
    BY DEF LocksInv, Locked, RepoLocks, Places
<1>2. pc'[p] = l /\ step'[p] = s /\ after'[p] = a
    BY <1>1 DEF Go, Enter
<1>3. \A q \in Procs \ {p} : pc'[q] = pc[q] /\ after'[q] = after[q] /\ step'[q] = step[q]
    BY Zenon, <1>1 DEF Go, Enter
<1>4. pc[p] # "idle" => PlacesLeft(p)' < PlacesLeft(p)
    BY <1>2 DEF PlacesLeft
<1> QED
    BY SMTT(40), <1>2, <1>3, <1>4 DEF Moves

(* The common case: to a lower place, and perhaps into the client. *)
LEMMA MovesDown ==
    ASSUME LocksInv, NEW p \in Procs \ {"obituary"}, NEW l,
           step[p] = "idle", Go(p, l), UNCHANGED <<after, reconnectAttempts>>,
           UNCHANGED step \/ (l # "idle" /\ \E s : Enter(p, s)),
           Falls(pc[p], l)
    PROVE  Moves({p})
<1>1. Detour(after[p]) \in Nat
    BY DEF Detour
<1>2. Place[l] + Detour(after[p]) < Place[pc[p]] + Detour(after[p])
    BY <1>1 DEF Falls
<1>3. CASE UNCHANGED step
    BY <1>2, <1>3, MovesAlone, Zenon
<1>4. ASSUME NEW s, Enter(p, s), l # "idle" PROVE Moves({p})
    BY <1>2, <1>4, MovesAlone, Zenon
<1> QED
    BY <1>3, <1>4

(* What the calls of the repository do to the coroutine that makes them. *)
LEMMA CallsEnter ==
    ASSUME NEW p
    PROVE  /\ \A b, c : Execute(p, b, Nothing, Nothing) \/ Plain(p) \/ OpenSession(p) \/ SendConfig(p, c) =>
                UNCHANGED reconnectAttempts /\ \E s : Enter(p, s)
           /\ \A m : CallClient(p, m) => UNCHANGED reconnectAttempts /\ \E s : Enter(p, s)
           /\ Take(p) => UNCHANGED <<step, reconnectAttempts>> /\ step[p] = "idle"
<1>1. ASSUME NEW b, Execute(p, b, Nothing, Nothing) PROVE UNCHANGED reconnectAttempts /\ \E s : Enter(p, s)
    BY Zenon, <1>1 DEF Execute, Answer, fieldVars
<1>2. ASSUME NEW c, Plain(p) \/ OpenSession(p) \/ SendConfig(p, c)
      PROVE  UNCHANGED reconnectAttempts /\ \E s : Enter(p, s)
    BY Zenon, <1>2 DEF Plain, OpenSession, SendConfig, Execute, Answer, fieldVars
<1>3. ASSUME NEW m, CallClient(p, m) PROVE UNCHANGED reconnectAttempts /\ \E s : Enter(p, s)
    BY Zenon, <1>3 DEF CallClient, fieldVars
<1>4. Take(p) => UNCHANGED <<step, reconnectAttempts>> /\ step[p] = "idle"
    BY Zenon DEF Take, fieldVars
<1> QED
    BY Zenon, <1>1, <1>2, <1>3, <1>4

(* A step of a job outside the client moves it down. *)
LEMMA JobDescends ==
    ASSUME LocksInv, NEW j \in Jobs, JobStep(j)
    PROVE  Moves({j}) \/ (Abandon(j) /\ UNCHANGED repoVars)
<1>0. j \in Procs \ {"obituary"} /\ pc[j] \in JobPlaces /\ (j \in cancelled => pc[j] # "idle")
    BY RepositoryConstants DEF LocksInv, RepoLocks, Places, Shown, IdleJobs
<1>1. ASSUME NEW s, JobEnds(j, s), pc[j] # "idle" PROVE Moves({j})
  <2>1. Go(j, "idle") /\ step[j] = "idle" /\ UNCHANGED <<after, step, reconnectAttempts>>
    BY Zenon, <1>1, CallsEnter DEF JobEnds, Ends, jobKeeps
  <2>2. Falls(pc[j], "idle")
    BY <1>0, <1>1, PlaceValues DEF JobPlaces, Falls
  <2> QED
    BY Zenon, <1>0, <2>1, <2>2, MovesDown
<1>2. ASSUME NEW s, NEW l, l # "idle", JobCalls(j, s, l), step[j] = "idle",
             UNCHANGED reconnectAttempts /\ \E t : Enter(j, t),
             Falls(pc[j], l)
      PROVE  Moves({j})
  <2>1. Go(j, l) /\ UNCHANGED after
    BY Zenon, <1>2 DEF JobCalls, jobKeeps
  <2> QED
    BY Zenon, <1>0, <1>2, <2>1, MovesDown
<1>a. CASE JobStart(j)
  <2>1. /\ pc[j] = "start" /\ step[j] = "idle"
        /\ JobEnds(j, "Error") \/ (JobCalls(j, "Connecting", "connect") /\ CallClient(j, "connect"))
    BY Zenon, <1>a DEF JobStart, At
  <2>2. "connect" # "idle" /\ pc[j] # "idle" /\ Falls(pc[j], "connect")
    BY Zenon, <2>1, Descent
  <2> QED
    BY Zenon, <1>1, <1>2, <2>1, <2>2, CallsEnter
<1>b. CASE JobCheck(j)
  <2>1. /\ pc[j] = "connect" /\ step[j] = "idle"
        /\ \/ JobEnds(j, "Error")
           \/ /\ Execute(j, TRUE, Nothing, Nothing)
              /\ JobCalls(j, daemonState, "own") \/ JobCalls(j, daemonState, "other")
    BY ZenonT(40), <1>b DEF JobCheck, At
  <2>2. "own" # "idle" /\ pc[j] # "idle" /\ Falls(pc[j], "own")
    BY Zenon, <2>1, Descent
  <2>3. "other" # "idle" /\ Falls(pc[j], "other")
    BY Zenon, <2>1, Descent
  <2> QED
    BY Zenon, <1>1, <1>2, <2>1, <2>2, <2>3, CallsEnter
<1>c. CASE JobAuthenticate(j)
  <2>1. /\ pc[j] = "other" /\ step[j] = "idle"
        /\ \/ JobEnds(j, "Error")
           \/ /\ OpenSession(j) \/ Execute(j, FALSE, Nothing, Nothing)
              /\ JobCalls(j, "Authenticating", "authenticated")
    BY ZenonT(40), <1>c DEF JobAuthenticate, At
  <2>2. "authenticated" # "idle" /\ pc[j] # "idle" /\ Falls(pc[j], "authenticated")
    BY Zenon, <2>1, Descent
  <2> QED
    BY Zenon, <1>1, <1>2, <2>1, <2>2, CallsEnter
<1>d. CASE JobRegister(j)
  <2>1. /\ pc[j] \in {"own", "authenticated"} /\ step[j] = "idle"
        /\ JobEnds(j, "Error") \/ (Plain(j) /\ JobCalls(j, "Reconciling", "registered"))
    BY ZenonT(40), <1>d DEF JobRegister, At
  <2>2. "registered" # "idle" /\ pc[j] # "idle" /\ Falls(pc[j], "registered")
    BY Zenon, <2>1, Descent
  <2> QED
    BY Zenon, <1>1, <1>2, <2>1, <2>2, CallsEnter
<1>e. CASE JobBuffers(j)
  <2>1. /\ pc[j] = "registered" /\ step[j] = "idle"
        /\ JobEnds(j, "Error") \/ (Plain(j) /\ JobCalls(j, daemonState, "remember"))
    BY Zenon, <1>e DEF JobBuffers, At
  <2>2. "remember" # "idle" /\ pc[j] # "idle" /\ Falls(pc[j], "remember")
    BY Zenon, <2>1, Descent
  <2> QED
    BY Zenon, <1>1, <1>2, <2>1, <2>2, CallsEnter
<1>f. CASE JobRemember(j)
  <2>1. /\ pc[j] = "remember" /\ step[j] = "idle"
        /\ JobEnds(j, "Ready") \/ (Go(j, "restore") /\ UNCHANGED <<after, step, reconnectAttempts>>)
    BY Zenon, <1>f DEF JobRemember, At, jobKeeps, clientVars, fieldVars
  <2>2. "restore" # "idle" /\ pc[j] # "idle" /\ Falls(pc[j], "restore")
    BY Zenon, <2>1, Descent
  <2> QED
    BY Zenon, <1>0, <1>1, <2>1, <2>2, MovesDown
<1>g. CASE JobRestore(j)
  <2>1. /\ step[j] = "idle"
        /\ \/ pc[j] = "restore" /\ SendConfig(j, held[j]) /\ JobCalls(j, daemonState, "restored")
           \/ pc[j] = "restored" /\ \E s : JobEnds(j, s)
    BY ZenonT(40), <1>g DEF JobRestore, At
  <2>2. "restored" # "idle" /\ pc[j] # "idle" /\ (pc[j] = "restore" => Falls(pc[j], "restored"))
    BY Zenon, <2>1, Descent
  <2> QED
    BY Zenon, <1>1, <1>2, <2>1, <2>2, CallsEnter
<1>h. CASE JobCancelled(j)
    BY Zenon, <1>h, <1>0, <1>1 DEF JobCancelled
<1> QED
    BY <1>a, <1>b, <1>c, <1>d, <1>e, <1>f, <1>g, <1>h, Zenon DEF JobStep

(* The launch of a connection job moves the caller down and lets an idle job begin. *)
LEMMA LaunchDescends ==
    ASSUME LocksInv, Entered, NEW p \in Callers, ConnectLaunch(p)
    PROVE  \E S \in SUBSET Procs : Moves(S)
<1> DEFINE j == connectionJob'
<1>1. /\ pc[p] = "lock" /\ step[p] = "idle" /\ IdleJobs # {} /\ j = CHOOSE i \in IdleJobs : TRUE
      /\ pc' = [pc EXCEPT ![p] = "join", ![j] = "start"]
      /\ UNCHANGED <<after, step, reconnectAttempts>>
    BY Zenon DEF ConnectLaunch, At, clientVars, fieldVars
<1> HIDE DEF j
<1>2. j \in Jobs /\ pc[j] = "idle" /\ j \in Procs \ {"obituary"} /\ p \in Procs \ {"obituary"} /\ p # j
    BY <1>1, RepositoryConstants DEF IdleJobs, Callers
<1>3. pc'[p] = "join" /\ pc'[j] = "start" /\ \A q \in Procs \ {p, j} : pc'[q] = pc[q]
    BY <1>1, <1>2 DEF LocksInv, RepoLocks, Places
<1>4. step[j] = "idle"
    BY SMTT(40), <1>2 DEF Entered
<1>5. PlacesLeft(p)' < PlacesLeft(p)
    BY SMTT(40), <1>1, <1>3, PlaceValues DEF PlacesLeft, Detour
<1> QED
  <2>1. Moves({p, j})
    BY Zenon, <1>1, <1>2, <1>3, <1>4, <1>5 DEF Moves
  <2> QED
    BY <1>2, <2>1

(* The end of the wait for a job: the operation begins, or it is over. *)
LEMMA JoinDescends ==
    ASSUME LocksInv, NEW p \in Callers,
           ConnectJoin(p) \/ ConnectAbandoned(p)
    PROVE  Moves({p})
<1>1. p \in Procs \ {"obituary"} /\ after[p] \in {"idle", "block1", "block2"}
    BY DEF LocksInv, RepoLocks, Places, Callers
<1>2. /\ pc[p] \in {"lock", "join"} /\ step[p] = "idle" /\ UNCHANGED <<step, reconnectAttempts>>
      /\ after' = [after EXCEPT ![p] = "idle"]
      /\ (Go(p, after[p]) /\ pc[p] = "join") \/ Go(p, "idle")
    BY Zenon DEF ConnectJoin, ConnectAbandoned, At, clientVars, fieldVars
<1>3. /\ pc[p] = "join" => Place[after[p]] + Detour("idle") < Place[pc[p]] + Detour(after[p])
      /\ Place["idle"] + Detour("idle") < Place[pc[p]] + Detour(after[p])
    BY SMTT(40), <1>1, <1>2, PlaceValues DEF Detour
<1> QED
    BY Zenon, <1>1, <1>2, <1>3, MovesAlone

(* Every other step of a caller outside the client moves it down. *)
LEMMA CallerDescends ==
    ASSUME LocksInv, Entered, NEW p \in Callers, CallerStep(p)
    PROVE  \E S \in SUBSET Procs : Moves(S)
<1>0. p \in Procs \ {"obituary"} /\ {p} \in SUBSET Procs /\ after[p] \in {"idle", "block1", "block2"}
    BY DEF Callers, LocksInv, RepoLocks, Places
<1> SUFFICES ASSUME ~ ConnectLaunch(p) PROVE Moves({p})
    BY Zenon, <1>0, LaunchDescends
<1>1. ASSUME NEW l, Go(p, l), step[p] = "idle", UNCHANGED <<after, reconnectAttempts>>,
             UNCHANGED step \/ (l # "idle" /\ \E s : Enter(p, s)),
             Falls(pc[p], l)
      PROVE  Moves({p})
    BY Zenon, <1>0, <1>1, MovesDown
<1>2. CASE ConnectJoin(p)
    BY ZenonT(40), <1>2, JoinDescends
<1>3. CASE DisconnectLock(p)
  <2>1. /\ pc[p] = "disconnect" /\ step[p] = "idle" /\ Go(p, "unregister")
        /\ UNCHANGED <<after, step, reconnectAttempts>>
    BY ZenonT(40), <1>3 DEF DisconnectLock, At, clientVars, fieldVars
  <2> QED
    BY Zenon, <1>1, <2>1, Descent
<1>4. CASE DisconnectCalls(p)
  <2>1. /\ step[p] = "idle" /\ UNCHANGED after
        /\ \/ pc[p] = "unregister" /\ Plain(p) /\ Go(p, "unregister2")
           \/ pc[p] = "unregister2" /\ Plain(p) /\ Go(p, "unregistered")
           \/ pc[p] = "unregistered" /\ CallClient(p, "disconnect") /\ Go(p, "disconnected")
    BY Zenon, <1>4 DEF DisconnectCalls, At
  <2>2. UNCHANGED reconnectAttempts /\ \E s : Enter(p, s)
    BY Zenon, <2>1, CallsEnter
  <2> QED
    BY Zenon, <1>1, <2>1, <2>2, Descent
<1>5. CASE DisconnectStopped(p)
  <2>1. /\ pc[p] = "disconnected" /\ step[p] = "idle" /\ Go(p, "idle")
        /\ UNCHANGED <<after, step, reconnectAttempts>>
    BY ZenonT(40), <1>5, CallsEnter DEF DisconnectStopped, At, Ends
  <2> QED
    BY Zenon, <1>1, <2>1, Descent
<1>6. CASE OperationBlock(p)
  <2>1. /\ step[p] = "idle" /\ UNCHANGED after /\ Plain(p)
        /\ (pc[p] = "block1" /\ Go(p, "tried")) \/ (pc[p] = "block2" /\ Go(p, "over"))
    BY Zenon, <1>6 DEF OperationBlock, At
  <2>2. UNCHANGED reconnectAttempts /\ \E s : Enter(p, s)
    BY ZenonT(40), <2>1, CallsEnter
  <2> QED
    BY Zenon, <1>1, <2>1, <2>2, Descent
<1>7. CASE OperationTried(p)
  <2>1. /\ step[p] = "idle" /\ UNCHANGED after
        /\ \/ pc[p] = "tried" /\ Go(p, "dropped") /\ CallClient(p, "disconnect")
           \/ pc[p] \in {"tried", "over"} /\ Go(p, "idle") /\ Take(p)
    BY Zenon, <1>7 DEF OperationTried, At, Ends
  <2>2. /\ UNCHANGED reconnectAttempts
        /\ Take(p) => UNCHANGED step
        /\ CallClient(p, "disconnect") => \E s : Enter(p, s)
    BY Zenon, <2>1, CallsEnter
  <2> QED
    BY Zenon, <1>1, <2>1, <2>2, Descent
<1>8. CASE OperationAgain(p)
  <2>1. /\ pc[p] = "dropped" /\ step[p] = "idle" /\ Go(p, "lock")
        /\ after' = [after EXCEPT ![p] = "block2"] /\ UNCHANGED <<step, reconnectAttempts>>
    BY Zenon, <1>8, CallsEnter DEF OperationAgain, At, BeginConnect
  <2>2. "lock" # "idle" /\ Place["lock"] + Detour("block2") < Place[pc[p]] + Detour(after[p])
    BY SMTT(40), <2>1, PlaceValues DEF Detour
  <2> QED
    BY Zenon, <1>0, <2>1, <2>2, MovesAlone
<1>9. CASE ConfigureLock(p)
  <2>1. /\ pc[p] = "configure" /\ step[p] = "idle" /\ (Go(p, "send") \/ Go(p, "refused"))
        /\ UNCHANGED <<after, step, reconnectAttempts>>
    BY ZenonT(40), <1>9 DEF ConfigureLock, At, confKeeps, clientVars, fieldVars
  <2> QED
    BY Zenon, <1>1, <2>1, Descent
<1>10. CASE ConfigureSend(p)
  <2>1. pc[p] = "send" /\ step[p] = "idle" /\ Go(p, "sent") /\ UNCHANGED after /\ SendConfig(p, held[p])
    BY Zenon, <1>10 DEF ConfigureSend, At, confKeeps
  <2>2. UNCHANGED reconnectAttempts /\ \E s : Enter(p, s)
    BY ZenonT(40), <2>1, CallsEnter
  <2> QED
    BY Zenon, <1>1, <2>1, <2>2, Descent
<1>11. CASE ConfigureSent(p)
  <2>1. /\ pc[p] = "sent" /\ step[p] = "idle" /\ (Go(p, "configured") \/ Go(p, "refused"))
        /\ UNCHANGED <<after, step, reconnectAttempts>>
    BY Zenon, <1>11, CallsEnter DEF ConfigureSent, At, confKeeps
  <2> QED
    BY Zenon, <1>1, <2>1, Descent
<1> QED
    BY <1>2, <1>3, <1>4, <1>5, <1>6, <1>7, <1>8, <1>9, <1>10, <1>11, Zenon DEF CallerStep

(* A step inside the client moves only the coroutine that takes it, and only the death
   recipient begins there. *)
LEMMA ClientStaysInside ==
    ASSUME LocksInv, NEW p \in Procs, ClientStep(p) \/ Abandon(p)
    PROVE  /\ step[p] # "idle" \/ p = "obituary"
           /\ \A q \in Procs \ {p} : step'[q] = step[q]
<1>1. /\ step[p] # "idle" \/ p = "obituary"
      /\ \E s : Enter(p, s)
  <2>1. CASE ConnectLock(p) \/ ConnectLookup(p) \/ ConnectLink(p)
    <3>1. step[p] \in {"connect", "lookup", "link"} /\ \E s : Enter(p, s)
      BY Zenon, <2>1 DEF ConnectLock, ConnectLookup, ConnectLink, Goes, Return, Enter
    <3> QED
      BY <3>1
  <2>2. CASE ConnectVersion(p) \/ Disconnect(p) \/ ReconnectMissing(p)
    <3>1. step[p] \in {"version", "disconnect", "missing"} /\ \E s : Enter(p, s)
      BY Zenon, <2>2 DEF ConnectVersion, Disconnect, ReconnectMissing, EndReconnect, Return, Enter
    <3> QED
      BY <3>1
  <2>3. CASE Abandon(p)
    <3>1. step[p] \in Waiting \cup {"relookup", "relink", "reversion"} /\ \E s : Enter(p, s)
      BY Zenon, <2>3 DEF Abandon, Return, Enter
    <3> QED
      BY <3>1 DEF Waiting
  <2>4. CASE HandleBinderDeath(p)
    <3>1. (step[p] = "death" \/ p = "obituary") /\ \E s : Enter(p, s)
      BY Zenon, <2>4 DEF HandleBinderDeath, Goes, Return, Enter
    <3> QED
      BY <3>1
  <2>5. CASE Reconnect(p) \/ ReconnectLookup(p)
    <3>1. step[p] \in {"backoff", "relookup"} /\ \E s : Enter(p, s)
      BY Zenon, <2>5 DEF Reconnect, ReconnectLookup, Goes
    <3> QED
      BY <3>1
  <2>6. CASE ReconnectLink(p) \/ ReconnectVersion(p)
    <3>1. step[p] \in {"relink", "reversion"} /\ \E s : Enter(p, s)
      BY Zenon, <2>6 DEF ReconnectLink, ReconnectVersion, TryAgain, EndReconnect, Goes, Return, Enter
    <3> QED
      BY <3>1
  <2> QED
    BY Zenon, <2>1, <2>2, <2>3, <2>4, <2>5, <2>6 DEF ClientStep
<1> QED
    BY <1>1 DEF Enter, LocksInv, Locked

(* A step that no coroutine takes outside the client. *)
Inside ==
    /\ UNCHANGED <<pc, after>>
    /\ UNCHANGED <<step, reconnectAttempts>> \/ \E p \in Procs : ClientStep(p) \/ Abandon(p)

(* Every step of the composition moves some coroutines down, or stays inside the client. *)
LEMMA RepoDescends ==
    ASSUME LocksInv, Entered, [RepoNext]_repoAll
    PROVE  Inside \/ \E S \in SUBSET Procs : Moves(S)
<1>0. \A c \in Callers : c \in Procs \ {"obituary"} /\ {c} \in SUBSET Procs
    BY DEF Callers
<1>a. UNCHANGED repoVars => UNCHANGED <<pc, after>>
    BY Zenon DEF repoVars
<1>b. UNCHANGED clientVars => UNCHANGED <<step, reconnectAttempts>>
    BY Zenon DEF clientVars, fieldVars
<1>1. CASE Surroundings
  <2>1. CASE (DaemonDies \/ DaemonStarts) /\ UNCHANGED repoVars
    BY Zenon, <1>a, <2>1 DEF DaemonDies, DaemonStarts, fieldVars, Inside
  <2>2. ASSUME NEW c \in Callers, ConnectAbandoned(c) PROVE \E S \in SUBSET Procs : Moves(S)
    BY Zenon, <1>0, <2>2, JoinDescends
  <2> QED
    BY Zenon, <1>1, <2>1, <2>2 DEF Surroundings
<1>2. CASE Collector
    BY Zenon, <1>2, <1>b DEF Collector, Collect, HandleBinderState, Inside
<1>3. ASSUME NEW p \in Procs, Progress(p) PROVE Inside \/ \E S \in SUBSET Procs : Moves(S)
  <2>1. CASE InClient(p)
    BY Zenon, <1>a, <2>1 DEF InClient, Inside
  <2>2. CASE p \in Callers /\ CallerStep(p)
    BY Zenon, <2>2, CallerDescends
  <2>3. CASE p \in Jobs /\ JobStep(p)
    <3>1. {p} \in SUBSET Procs
      OBVIOUS
    <3> QED
      BY Zenon, <1>a, <2>3, <3>1, JobDescends DEF Inside
  <2> QED
    BY Zenon, <1>3, <2>1, <2>2, <2>3 DEF Progress
<1>4. ASSUME NEW p \in Procs \ {"obituary"}, NEW l, NEW a, l # "idle", pc[p] = "idle", step[p] = "idle", Go(p, l),
             UNCHANGED clientVars, after' = [after EXCEPT ![p] = a] \/ (a = after[p] /\ UNCHANGED after)
      PROVE  Moves({p})
    BY Zenon, <1>4, <1>b, MovesAlone
<1>5. ASSUME NEW c \in Callers, CallConnect(c) \/ CallDisconnect(c) \/ CallConfigure(c)
      PROVE  \E S \in SUBSET Procs : Moves(S)
  <2>1. /\ pc[c] = "idle" /\ step[c] = "idle" /\ UNCHANGED clientVars
        /\ Go(c, "lock") \/ Go(c, "disconnect") \/ Go(c, "configure")
        /\ after' = [after EXCEPT ![c] = "idle"] \/ UNCHANGED after
    BY Zenon, <1>5 DEF CallConnect, CallDisconnect, CallConfigure, Begin, BeginConnect, At
  <2>2. "lock" # "idle" /\ "disconnect" # "idle" /\ "configure" # "idle"
    OBVIOUS
  <2> QED
    BY Zenon, <1>0, <1>4, <2>1, <2>2
<1>6. ASSUME NEW c \in Callers, Configured(c) PROVE \E S \in SUBSET Procs : Moves(S)
  <2>1. /\ pc[c] \in {"configured", "refused"} /\ step[c] = "idle" /\ Go(c, "idle")
        /\ UNCHANGED <<after, step, reconnectAttempts>>
    BY Zenon, <1>6, <1>b DEF Configured, At
  <2>2. Falls(pc[c], "idle")
    BY Zenon, <2>1, Descent
  <2> QED
    BY Zenon, <1>0, <2>1, <2>2, MovesDown
<1>7. ASSUME NEW c \in Callers, CallOperation(c) PROVE \E S \in SUBSET Procs : Moves(S)
  <2>1. /\ pc[c] = "idle" /\ step[c] = "idle" /\ UNCHANGED clientVars
        /\ Go(c, "lock") \/ Go(c, "block1")
        /\ after' = [after EXCEPT ![c] = "block1"] \/ UNCHANGED after
    BY Zenon, <1>7 DEF CallOperation, Begin, BeginConnect, At
  <2>2. "lock" # "idle" /\ "block1" # "idle"
    OBVIOUS
  <2> QED
    BY Zenon, <1>0, <1>4, <2>1, <2>2
<1>8. CASE UNCHANGED repoAll
    BY Zenon, <1>8, <1>a, <1>b DEF repoAll, Inside
<1> QED
    BY Zenon, <1>1, <1>2, <1>3, <1>5, <1>6, <1>7, <1>8 DEF RepoNext

(* Nobody is inside the client alone. *)
LEMMA EnteredStep == LocksInv /\ Entered /\ [RepoNext]_repoAll => Entered'
<1> SUFFICES ASSUME LocksInv, Entered, [RepoNext]_repoAll,
                    NEW q \in Procs \ {"obituary"}, pc'[q] = "idle"
             PROVE  step'[q] = "idle"
    BY DEF Entered
<1>1. ASSUME NEW S \in SUBSET Procs, Moves(S) PROVE step'[q] = "idle"
    BY <1>1 DEF Moves, Entered
<1>2. CASE Inside
  <2>1. pc[q] = "idle" /\ step[q] = "idle"
    BY <1>2 DEF Inside, Entered
  <2>2. ASSUME NEW p \in Procs, ClientStep(p) \/ Abandon(p) PROVE step'[q] = step[q]
    BY <2>1, <2>2, ClientStaysInside
  <2> QED
    BY <1>2, <2>1, <2>2 DEF Inside
<1> QED
    BY <1>1, <1>2, RepoDescends

(* A step brings every coroutine at work closer to its end or leaves it where it is. *)
CallsGoOn ==
    \A p \in Procs : Busy(p) =>
        \/ PlacesLeft(p)' < PlacesLeft(p)
        \/ pc'[p] = pc[p] /\ PlacesLeft(p)' = PlacesLeft(p) /\ StepsLeft(p)' < StepsLeft(p)
        \/ UNCHANGED <<pc[p], step[p], PlacesLeft(p), StepsLeft(p)>>

(* Outside the client by its places, inside it by its steps. *)
LEMMA GoOnStep == LocksInv /\ Entered /\ [ClientNext]_clientVars /\ [RepoNext]_repoAll => CallsGoOn
<1> SUFFICES ASSUME LocksInv, Entered, [ClientNext]_clientVars, [RepoNext]_repoAll,
                    NEW q \in Procs, Busy(q)
             PROVE  \/ PlacesLeft(q)' < PlacesLeft(q)
                    \/ pc'[q] = pc[q] /\ PlacesLeft(q)' = PlacesLeft(q) /\ StepsLeft(q)' < StepsLeft(q)
                    \/ UNCHANGED <<pc[q], step[q], PlacesLeft(q), StepsLeft(q)>>
    BY DEF CallsGoOn
<1>1. step[q] # "idle" => StepsLeft(q)' < StepsLeft(q) \/ UNCHANGED <<step[q], StepsLeft(q)>>
    BY ZenonT(40), StepsShrink DEF LocksInv
<1>2. pc'[q] = pc[q] /\ after'[q] = after[q] => PlacesLeft(q)' = PlacesLeft(q)
    BY Zenon DEF PlacesLeft
<1>3. step[q] = "idle" /\ step'[q] = "idle" => StepsLeft(q) = 0 /\ StepsLeft(q)' = 0
    BY SMTT(40) DEF StepsLeft
<1>4. ASSUME pc'[q] = pc[q], after'[q] = after[q], step[q] # "idle" \/ step'[q] = step[q]
      PROVE  \/ pc'[q] = pc[q] /\ PlacesLeft(q)' = PlacesLeft(q) /\ StepsLeft(q)' < StepsLeft(q)
             \/ UNCHANGED <<pc[q], step[q], PlacesLeft(q), StepsLeft(q)>>
    BY ZenonT(40), <1>1, <1>2, <1>3, <1>4
<1>5. ASSUME NEW S \in SUBSET Procs, Moves(S), q \notin S
      PROVE  pc'[q] = pc[q] /\ after'[q] = after[q] /\ step'[q] = step[q]
    BY SMTT(40), <1>5 DEF Moves
<1>6. ASSUME NEW S \in SUBSET Procs, Moves(S), q \in S PROVE PlacesLeft(q)' < PlacesLeft(q)
    BY Zenon, <1>6 DEF Moves, Busy
<1>7. CASE Inside
  <2>1. pc'[q] = pc[q] /\ after'[q] = after[q]
    BY Zenon, <1>7 DEF Inside
  <2>2. ASSUME NEW p \in Procs, ClientStep(p) \/ Abandon(p) PROVE step[q] # "idle" \/ step'[q] = step[q]
    <3>1. q = "obituary" => step[q] # "idle"
      BY DEF LocksInv, RepoLocks, Places, Busy
    <3> QED
      BY <2>2, <3>1, ClientStaysInside
  <2> QED
    BY Zenon, <1>4, <1>7, <2>1, <2>2 DEF Inside
<1> QED
    BY Zenon, <1>4, <1>5, <1>6, <1>7, RepoDescends

(* However many coroutines, jobs and attempts there are: every function of client and
   repository is finite.  Each step of a coroutine at work brings it closer to its end,
   and no other step takes it back, whoever is cancelled and however often the daemon
   dies (executeWithReconnect, executeConnectionSequence, attemptReconnect).  With
   RepoNobodyStuck: there is no livelock and no circular wait between them. *)
THEOREM RepoCallsAreFinite == RepoSpec => CallsAreFinite
<1>1. RepoInit => Entered
    BY Zenon DEF RepoInit, ClientInit, Entered
<1>2. RepoSpec => []Entered
    BY <1>1, EnteredStep, LocksInvariant, PTL DEF RepoSpec
<1>3. LocksInv /\ RepoInv /\ ClientInv /\ SessionType /\ Entered /\ [RepoNext]_repoAll => [CallsGoOn]_repoAll
    BY Zenon, RepoUsesClient, GoOnStep
<1>4. RepoSpec => [][CallsGoOn]_repoAll
    BY <1>2, <1>3, LocksInvariant, RepoInvariant, PTL DEF RepoSpec
<1> QED
    BY <1>4 DEF CallsAreFinite, CallsGoOn

-----------------------------------------------------------------------------
(* The whole application.  The synchronizer of settings moves its coroutines between
   calls of configure, in places where they hold no mutex and serve no job; every other
   step of the application is one of the repository. *)
SyncPlaces == {"idle", "force", "read", "debug", "debug_read", "sync", "configure", "configured", "refused"}

SyncMove(p) ==
    /\ pc[p] \in SyncPlaces /\ \E l \in SyncPlaces : Go(p, l)
    /\ held' \in {held, [held EXCEPT ![p] = None], [held EXCEPT ![p] = settings]}
    /\ UNCHANGED <<clientVars, daemonState, lastKnownConfig, connectionMutex, configMutex,
                   connectionJob, cancelled, after, performed>>

(* ForceSync, SetDebugStreamEnabled, SyncBegin and SyncResult are such moves. *)
LEMMA SyncStepMoves == ASSUME NEW p \in Callers, SyncStep(p) PROVE SyncMove(p)
<1>0. \A l \in SyncPlaces : Go(p, l) => \E k \in SyncPlaces : Go(p, k)
    OBVIOUS
<1>1. CASE ForceSync(p)
  <2>1. pc[p] \in {"force", "read"} /\ (Go(p, "read") \/ Go(p, "idle") \/ Go(p, "sync"))
    BY Zenon, <1>1 DEF ForceSync, At
  <2>2. /\ held' \in {held, [held EXCEPT ![p] = None], [held EXCEPT ![p] = settings]}
        /\ UNCHANGED <<clientVars, daemonState, lastKnownConfig, connectionMutex, configMutex,
                       connectionJob, cancelled, after, performed>>
    BY Zenon, <1>1 DEF ForceSync, syncKeeps
  <2> QED
    BY Zenon, <2>1, <2>2 DEF SyncMove, SyncPlaces
<1>2. CASE SyncBegin(p)
  <2>1. pc[p] = "sync" /\ Go(p, "configure")
    BY Zenon, <1>2 DEF SyncBegin, At
  <2>2. UNCHANGED <<clientVars, daemonState, lastKnownConfig, connectionMutex, configMutex,
                    connectionJob, cancelled, after, performed, held>>
    BY Zenon, <1>2 DEF SyncBegin, syncKeeps
  <2> QED
    BY Zenon, <2>1, <2>2 DEF SyncMove, SyncPlaces
<1>3. CASE SyncResult(p)
  <2>1. pc[p] \in {"configured", "refused"} /\ (Go(p, "idle") \/ Go(p, "configure"))
    BY Zenon, <1>3 DEF SyncResult, SyncEnds, At
  <2>2. /\ held' \in {held, [held EXCEPT ![p] = None], [held EXCEPT ![p] = settings]}
        /\ UNCHANGED <<clientVars, daemonState, lastKnownConfig, connectionMutex, configMutex,
                       connectionJob, cancelled, after, performed>>
    BY Zenon, <1>3 DEF SyncResult, SyncEnds, syncKeeps
  <2> QED
    BY Zenon, <2>1, <2>2 DEF SyncMove, SyncPlaces
<1>4. CASE SetDebugStreamEnabled(p)
  <2>1. pc[p] \in {"debug", "debug_read"} /\ (Go(p, "debug_read") \/ Go(p, "idle") \/ Go(p, "sync"))
    BY Zenon, <1>4 DEF SetDebugStreamEnabled, At
  <2>2. /\ held' \in {held, [held EXCEPT ![p] = None], [held EXCEPT ![p] = settings]}
        /\ UNCHANGED <<clientVars, daemonState, lastKnownConfig, connectionMutex, configMutex,
                       connectionJob, cancelled, after, performed>>
    BY Zenon, <1>4 DEF SetDebugStreamEnabled, syncKeeps
  <2> QED
    BY Zenon, <2>1, <2>2 DEF SyncMove, SyncPlaces
<1> QED
    BY Zenon, <1>1, <1>2, <1>3, <1>4 DEF SyncStep

(* The synchronizer's own coroutines are neither connection jobs nor the one of the death
   notices. *)
OwnCoroutines == "settings" \in Callers /\ "observer" \in Callers

(* The two observers and a call of the synchronizer make such a move, or none. *)
LEMMA ObserverMoves ==
    ASSUME OwnCoroutines,
           SettingsChange \/ StateChange \/ \E c \in Users : CallForceSync(c) \/ CallDebugStream(c)
    PROVE  UNCHANGED repoAll \/ \E p \in Callers : SyncMove(p)
<1>1. CASE SettingsChange
  <2>1. /\ pc["settings"] = "idle"
        /\ UNCHANGED <<syncKeeps, calls>>
        /\ \/ UNCHANGED <<held, pc>>
           \/ held' = [held EXCEPT !["settings"] = settings] /\ Go("settings", "sync")
    BY Zenon, <1>1 DEF SettingsChange, At
  <2>2. CASE UNCHANGED <<held, pc>>
    BY Zenon, <2>1, <2>2 DEF syncKeeps, repoAll, repoVars
  <2>3. CASE held' = [held EXCEPT !["settings"] = settings] /\ Go("settings", "sync")
    <3>1. SyncMove("settings")
      BY Zenon, <2>1, <2>3 DEF syncKeeps, SyncMove, SyncPlaces
    <3> QED
      BY Zenon, <3>1 DEF OwnCoroutines
  <2> QED
    BY Zenon, <2>1, <2>2, <2>3
<1>2. CASE StateChange
  <2>1. /\ pc["observer"] = "idle"
        /\ UNCHANGED <<syncKeeps, held, calls>>
        /\ UNCHANGED pc \/ Go("observer", "force")
    BY Zenon, <1>2 DEF StateChange, At
  <2>2. CASE UNCHANGED pc
    BY Zenon, <2>1, <2>2 DEF syncKeeps, repoAll, repoVars
  <2>3. CASE Go("observer", "force")
    <3>1. SyncMove("observer")
      BY Zenon, <2>1, <2>3 DEF syncKeeps, SyncMove, SyncPlaces
    <3> QED
      BY Zenon, <3>1 DEF OwnCoroutines
  <2> QED
    BY Zenon, <2>1, <2>2, <2>3
<1>3. ASSUME NEW c \in Users, CallForceSync(c) \/ CallDebugStream(c) PROVE \E p \in Callers : SyncMove(p)
  <2>1. SyncMove(c)
    BY Zenon, <1>3 DEF CallForceSync, CallDebugStream, Begin, At, callKeeps, SyncMove, SyncPlaces
  <2> QED
    BY <2>1 DEF Users
<1> QED
    BY Zenon, <1>1, <1>2, <1>3

(* So a step of the application is one of the repository or a move of the synchronizer. *)
LEMMA ApplicationSteps ==
    ASSUME OwnCoroutines, [Next]_vars
    PROVE  [RepoNext]_repoAll \/ \E p \in Callers : SyncMove(p)
<1>1. CASE Surroundings \/ Collector \/ \E p \in Procs : Progress(p)
    BY Zenon, <1>1 DEF RepoNext
<1>2. ASSUME NEW c \in Users, CallConnect(c) \/ CallDisconnect(c) \/ CallOperation(c) PROVE RepoNext
  <2>1. c \in Callers
    BY DEF Users
  <2> QED
    BY Zenon, <1>2, <2>1 DEF RepoNext
<1>3. CASE ChangeSettings \/ UNCHANGED vars
    BY Zenon, <1>3 DEF ChangeSettings, vars, repoAll
<1>4. CASE SettingsChange \/ StateChange \/ \E c \in Users : CallForceSync(c) \/ CallDebugStream(c)
    BY Zenon, <1>4, ObserverMoves
<1>5. ASSUME NEW p \in Callers, SyncStep(p) PROVE SyncMove(p)
    BY Zenon, <1>5, SyncStepMoves
<1> QED
    BY Zenon, <1>1, <1>2, <1>3, <1>4, <1>5 DEF Next

(* What the user chooses is always one of the configurations. *)
LEMMA SettingsType == settings \in Configs /\ [Next]_vars => (settings \in Configs)'
<1> SUFFICES ASSUME settings \in Configs, [Next]_vars PROVE settings' \in Configs
    OBVIOUS
<1>1. CASE ChangeSettings
    BY Zenon, <1>1 DEF ChangeSettings
<1>2. CASE UNCHANGED syncVars \/ UNCHANGED vars
    BY Zenon, <1>2 DEF syncVars, vars
<1>3. CASE SettingsChange \/ StateChange \/ \E c \in Users : CallForceSync(c) \/ CallDebugStream(c)
    BY Zenon, <1>3 DEF CallForceSync, CallDebugStream, SettingsChange, StateChange, syncVars
<1>4. ASSUME NEW p \in Callers, SyncStep(p) PROVE settings' = settings
    BY Zenon, <1>4 DEF SyncStep, ForceSync, SetDebugStreamEnabled, SyncBegin, SyncResult, syncVars
<1> QED
    BY Zenon, <1>1, <1>2, <1>3, <1>4 DEF Next

(* A move of the synchronizer keeps the repository's invariants. *)
LEMMA SyncMoveKeeps ==
    ASSUME NEW p \in Callers, RepoInv, RepoLocks, settings \in Configs, SyncMove(p)
    PROVE  RepoInv' /\ RepoLocks'
<1>1. PICK l \in SyncPlaces : Go(p, l)
    BY Zenon DEF SyncMove
<1>2. p \in Procs
    BY DEF Callers
<1>3. held' \in [Procs -> Configs \cup {None}] /\ lastKnownConfig' \in Configs \cup {None}
  <2>1. held \in [Procs -> Configs \cup {None}] /\ lastKnownConfig \in Configs \cup {None}
    BY Zenon DEF RepoInv
  <2>2. /\ held' \in {held, [held EXCEPT ![p] = None], [held EXCEPT ![p] = settings]}
        /\ lastKnownConfig' = lastKnownConfig
    BY Zenon DEF SyncMove
  <2> QED
    BY <1>2, <2>1, <2>2
<1>4. /\ pc[p] \in SyncPlaces
      /\ UNCHANGED <<daemonState, connectionMutex, configMutex, connectionJob, cancelled, after>>
    BY Zenon DEF SyncMove
<1>5. RepoInv'
    BY ZenonT(40), <1>1, <1>3, <1>4, OtherKeeps
<1>6. RepoLocks'
  <2>1. connectionJob \in Jobs \cup {None} /\ daemonState \in DaemonStates
        /\ after \in [Procs -> {"idle", "block1", "block2"}]
    BY Zenon DEF RepoInv, RepoLocks, Shown, Places
  <2> QED
    BY ZenonT(40), <1>1, <1>4, <2>1, CallerMoves DEF Passes, ConnectionSection, ConfigSection, CallerPlaces, SyncPlaces
<1> QED
    BY <1>5, <1>6

(* The invariant of the whole application. *)
AppInv == RepoInv /\ ClientInv /\ SessionType /\ LocksInv /\ settings \in Configs

(* Every step of the application keeps it. *)
LEMMA AppInvStep == OwnCoroutines /\ AppInv /\ [Next]_vars => AppInv'
<1> SUFFICES ASSUME OwnCoroutines, AppInv, [Next]_vars PROVE AppInv'
    OBVIOUS
<1>1. RepoInv /\ ClientInv /\ SessionType /\ LocksInv /\ RepoLocks /\ settings \in Configs
    BY Zenon DEF AppInv, LocksInv
<1>2. (settings \in Configs)'
    BY Zenon, <1>1, SettingsType
<1>3. [ClientNext]_clientVars /\ RepoInv' /\ RepoLocks'
  <2>1. CASE [RepoNext]_repoAll
    BY Zenon, <1>1, <2>1, RepoUsesClient, RepoInvStep, RepoLocksStep
  <2>2. ASSUME NEW p \in Callers, SyncMove(p) PROVE [ClientNext]_clientVars /\ RepoInv' /\ RepoLocks'
    <3>1. UNCHANGED clientVars
      BY Zenon, <2>2 DEF SyncMove
    <3> QED
      BY Zenon, <1>1, <2>2, <3>1, SyncMoveKeeps
  <2> QED
    BY Zenon, <2>1, <2>2, ApplicationSteps
<1>4. ClientInv' /\ SessionType'
    BY Zenon, <1>1, <1>3, ClientInvStep, SessionTypeStep
<1>5. LocksInv'
    BY Zenon, <1>1, <1>3, LockedStep, AttemptingStep, ReconnectingTypeStep DEF LocksInv
<1> QED
    BY Zenon, <1>2, <1>3, <1>4, <1>5 DEF AppInv

(* What was proved of the repository holds of the whole application: with the observers
   of ConfigurationSynchronizer and their retries beside the callers of the repository,
   death is noticed, one connection sequence is at work, mutexes are waited for in one
   order, and a connection in progress is shown only while there is one. *)
THEOREM ApplicationSafe ==
    ASSUME OwnCoroutines
    PROVE  Spec => [](RepoTypeOK /\ DeathIsNoticed /\ OneSequence /\ WaitsInOrder /\ NobodyStuck /\ ConnectingMeansWork)
<1>1. Init => AppInv
    BY Zenon, AllInvInit, LocksInit DEF Init, AppInv
<1>2. AppInv /\ [Next]_vars => AppInv'
    BY Zenon, AppInvStep
<1>3. AppInv => RepoTypeOK /\ DeathIsNoticed /\ OneSequence /\ WaitsInOrder /\ NobodyStuck /\ ConnectingMeansWork
  <2>1. AppInv => RepoTypeOK /\ WaitsInOrder /\ NobodyStuck
    BY Zenon, TypesFollow, OrderFollows, SomeoneFollows DEF AppInv
  <2>2. AppInv => DeathIsNoticed
    BY Zenon DEF AppInv, ClientInv
  <2>3. AppInv => OneSequence
    BY DEF AppInv, RepoInv, OneSequence
  <2>4. AppInv => ConnectingMeansWork
    BY DEF AppInv, RepoInv, ConnectingMeansWork, Connecting, IdleJobs
  <2> QED
    BY Zenon, <2>1, <2>2, <2>3, <2>4
<1> QED
    BY <1>1, <1>2, <1>3, PTL DEF Spec

-----------------------------------------------------------------------------
(* The calls of the whole application are finite *)

(* The attempts a coroutine has left in sendConfigWithRetry. *)
RoundsLeft(p) == IF p \in Callers THEN MAX_RETRIES - attempt[p] ELSE 0
Attempts == attempt \in [Callers -> 0 .. MAX_RETRIES - 1]

(* A coroutine at work ends, or has fewer attempts left, or as many and fewer places, or
   as many of these and fewer steps in the client; or it stays where it is. *)
AppCallsGoOn ==
    \A p \in Procs : Busy(p) =>
        \/ ~ Busy(p)'
        \/ RoundsLeft(p)' < RoundsLeft(p)
        \/ UNCHANGED RoundsLeft(p) /\ PlacesLeft(p)' < PlacesLeft(p)
        \/ UNCHANGED <<RoundsLeft(p), pc[p], PlacesLeft(p)>> /\ StepsLeft(p)' < StepsLeft(p)
        \/ UNCHANGED <<RoundsLeft(p), pc[p], step[p], PlacesLeft(p), StepsLeft(p)>>

(* A step of the synchronizer in coroutine p: it begins, ends, tries again, or goes on. *)
SyncStride(p) ==
    /\ step[p] = "idle" /\ UNCHANGED <<clientVars, after>>
    /\ \/ pc[p] = "idle" /\ UNCHANGED attempt
       \/ pc'[p] = "idle" /\ (UNCHANGED attempt \/ attempt' = [attempt EXCEPT ![p] = 0])
       \/ /\ attempt[p] # MAX_RETRIES - 1 /\ attempt' = [attempt EXCEPT ![p] = attempt[p] + 1]
          /\ pc'[p] # "idle"
       \/ UNCHANGED attempt /\ Place[pc'[p]] < Place[pc[p]]
    /\ pc' = [pc EXCEPT ![p] = pc'[p]]

(* Such are the steps of forceSync, setDebugStreamEnabled and sendConfigWithRetry. *)
LEMMA SyncStrides ==
    ASSUME RepoLocks, NEW p \in Callers, p \in Procs, SyncStep(p) PROVE SyncStride(p)
<1>1. \A l : Go(p, l) => pc'[p] = l /\ pc' = [pc EXCEPT ![p] = pc'[p]]
    BY DEF Go, RepoLocks, Places
<1>2. CASE ForceSync(p)
  <2>1. /\ step[p] = "idle" /\ UNCHANGED <<clientVars, after, attempt>>
        /\ \/ pc[p] \in {"force", "read"} /\ Go(p, "idle")
           \/ pc[p] = "force" /\ Go(p, "read")
           \/ pc[p] = "read" /\ Go(p, "sync")
    BY Zenon, <1>2 DEF ForceSync, At, syncKeeps, syncVars
  <2>2. CASE Go(p, "idle")
    BY Zenon, <1>1, <2>1, <2>2 DEF SyncStride
  <2>3. CASE pc[p] = "force" /\ Go(p, "read")
    <3>1. pc'[p] = "read" /\ pc' = [pc EXCEPT ![p] = pc'[p]]
      BY Zenon, <1>1, <2>3
    <3>2. Place[pc'[p]] < Place[pc[p]]
      BY <2>3, <3>1, PlaceValues
    <3> QED
      BY Zenon, <2>1, <3>1, <3>2 DEF SyncStride
  <2>4. CASE pc[p] = "read" /\ Go(p, "sync")
    <3>1. pc'[p] = "sync" /\ pc' = [pc EXCEPT ![p] = pc'[p]]
      BY Zenon, <1>1, <2>4
    <3>2. Place[pc'[p]] < Place[pc[p]]
      BY <2>4, <3>1, PlaceValues
    <3> QED
      BY Zenon, <2>1, <3>1, <3>2 DEF SyncStride
  <2> QED
    BY Zenon, <2>1, <2>2, <2>3, <2>4
<1>3. CASE SyncBegin(p)
  <2>1. step[p] = "idle" /\ UNCHANGED <<clientVars, after, attempt>> /\ pc[p] = "sync" /\ Go(p, "configure")
    BY Zenon, <1>3 DEF SyncBegin, At, syncKeeps
  <2>2. pc'[p] = "configure" /\ pc' = [pc EXCEPT ![p] = pc'[p]]
    BY Zenon, <1>1, <2>1
  <2>3. Place[pc'[p]] < Place[pc[p]]
    BY <2>1, <2>2, PlaceValues
  <2> QED
    BY Zenon, <2>1, <2>2, <2>3 DEF SyncStride
<1>4. CASE SyncResult(p)
  <2>1. /\ step[p] = "idle" /\ UNCHANGED <<clientVars, after>>
        /\ \/ Go(p, "idle") /\ attempt' = [attempt EXCEPT ![p] = 0]
           \/ /\ Go(p, "configure") /\ attempt[p] # MAX_RETRIES - 1
              /\ attempt' = [attempt EXCEPT ![p] = attempt[p] + 1]
    BY Zenon, <1>4 DEF SyncResult, SyncEnds, At, syncKeeps
  <2>2. "configure" # "idle"
    OBVIOUS
  <2> QED
    BY Zenon, <1>1, <2>1, <2>2 DEF SyncStride
<1>5. CASE SetDebugStreamEnabled(p)
  <2>1. /\ step[p] = "idle" /\ UNCHANGED <<clientVars, after, attempt>>
        /\ \/ pc[p] = "debug" /\ Go(p, "idle")
           \/ pc[p] = "debug" /\ Go(p, "debug_read")
           \/ pc[p] = "debug_read" /\ Go(p, "sync")
    BY Zenon, <1>5 DEF SetDebugStreamEnabled, At, syncKeeps, syncVars
  <2>2. CASE Go(p, "idle")
    BY Zenon, <1>1, <2>1, <2>2 DEF SyncStride
  <2>3. CASE pc[p] = "debug" /\ Go(p, "debug_read")
    <3>1. pc'[p] = "debug_read" /\ pc' = [pc EXCEPT ![p] = pc'[p]]
      BY Zenon, <1>1, <2>3
    <3>2. Place[pc'[p]] < Place[pc[p]]
      BY <2>3, <3>1, PlaceValues
    <3> QED
      BY Zenon, <2>1, <3>1, <3>2 DEF SyncStride
  <2>4. CASE pc[p] = "debug_read" /\ Go(p, "sync")
    <3>1. pc'[p] = "sync" /\ pc' = [pc EXCEPT ![p] = pc'[p]]
      BY Zenon, <1>1, <2>4
    <3>2. Place[pc'[p]] < Place[pc[p]]
      BY <2>4, <3>1, PlaceValues
    <3> QED
      BY Zenon, <2>1, <3>1, <3>2 DEF SyncStride
  <2> QED
    BY Zenon, <2>1, <2>2, <2>3, <2>4
<1> QED
    BY Zenon, <1>2, <1>3, <1>4, <1>5 DEF SyncStep

(* Every step of the application is one of the repository that no attempt depends on, or
   one of the synchronizer. *)
LEMMA AppStrides ==
    ASSUME RepoLocks, OwnCoroutines, [Next]_vars
    PROVE  ([RepoNext]_repoAll /\ UNCHANGED attempt) \/ \E p \in Callers : SyncStride(p)
<1>0. \A p \in Callers : p \in Procs
    BY DEF Callers
<1>1. \A p \in Callers : \A l : Go(p, l) => pc'[p] = l /\ pc' = [pc EXCEPT ![p] = pc'[p]]
    BY Zenon, <1>0 DEF Go, RepoLocks, Places
<1>2. CASE \/ (Surroundings \/ Collector \/ \E p \in Procs : Progress(p)) /\ UNCHANGED syncVars
           \/ \E c \in Users : (CallConnect(c) \/ CallDisconnect(c) \/ CallOperation(c)) /\ UNCHANGED syncVars
  <2>1. \A c \in Users : c \in Callers
    BY DEF Users
  <2> QED
    BY Zenon, <1>2, <2>1 DEF RepoNext, syncVars
<1>3. CASE ChangeSettings \/ UNCHANGED vars
    BY Zenon, <1>3 DEF ChangeSettings, vars, repoAll, syncVars
<1>4. CASE SettingsChange
  <2>1. /\ UNCHANGED <<syncKeeps, calls, attempt>> /\ pc["settings"] = "idle" /\ step["settings"] = "idle"
        /\ UNCHANGED <<held, pc>> \/ Go("settings", "sync")
    BY Zenon, <1>4 DEF SettingsChange, At
  <2>2. CASE UNCHANGED <<held, pc>>
    BY Zenon, <2>1, <2>2 DEF syncKeeps, repoAll, repoVars
  <2>3. CASE Go("settings", "sync")
    <3>1. "settings" \in Callers
      BY Zenon DEF OwnCoroutines
    <3> QED
      BY Zenon, <1>1, <2>1, <2>3, <3>1 DEF SyncStride, syncKeeps
  <2> QED
    BY Zenon, <2>1, <2>2, <2>3
<1>5. CASE StateChange
  <2>1. /\ UNCHANGED <<syncKeeps, held, calls, attempt>> /\ pc["observer"] = "idle" /\ step["observer"] = "idle"
        /\ UNCHANGED pc \/ Go("observer", "force")
    BY Zenon, <1>5 DEF StateChange, At
  <2>2. CASE UNCHANGED pc
    BY Zenon, <2>1, <2>2 DEF syncKeeps, repoAll, repoVars
  <2>3. CASE Go("observer", "force")
    <3>1. "observer" \in Callers
      BY Zenon DEF OwnCoroutines
    <3> QED
      BY Zenon, <1>1, <2>1, <2>3, <3>1 DEF SyncStride, syncKeeps
  <2> QED
    BY Zenon, <2>1, <2>2, <2>3
<1>6. ASSUME NEW c \in Users, CallForceSync(c) \/ CallDebugStream(c) PROVE \E p \in Callers : SyncStride(p)
  <2>1. /\ UNCHANGED <<clientVars, after, attempt>> /\ pc[c] = "idle" /\ step[c] = "idle"
        /\ Go(c, "force") \/ Go(c, "debug")
    BY Zenon, <1>6 DEF CallForceSync, CallDebugStream, Begin, At, syncVars
  <2>2. c \in Callers
    BY DEF Users
  <2> QED
    BY Zenon, <1>1, <2>1, <2>2 DEF SyncStride
<1>7. ASSUME NEW p \in Callers, SyncStep(p) PROVE SyncStride(p)
    BY Zenon, <1>0, <1>7, SyncStrides
<1> QED
    BY Zenon, <1>2, <1>3, <1>4, <1>5, <1>6, <1>7 DEF Next

(* Such a step is one closer to the end for its own coroutine, and none for the others. *)
LEMMA SyncGoesOn ==
    ASSUME LocksInv, LocksInv', Entered, Attempts, MAX_RETRIES \in Nat \ {0},
           NEW p \in Callers, SyncStride(p)
    PROVE  AppCallsGoOn /\ Entered' /\ Attempts'
<1>0. /\ p \in Procs \ {"obituary"} /\ step[p] = "idle" /\ UNCHANGED <<step, after, reconnectAttempts>>
      /\ pc \in [Procs -> JobPlaces \cup CallerPlaces] /\ pc' = [pc EXCEPT ![p] = pc'[p]]
      /\ attempt \in [Callers -> 0 .. MAX_RETRIES - 1]
    BY ZenonT(40) DEF SyncStride, Callers, clientVars, fieldVars, LocksInv, RepoLocks, Places, Attempts
<1>1. \A q \in Procs \ {p} : pc'[q] = pc[q]
    BY SMTT(40), <1>0
<1>a. pc'[p] \in JobPlaces \cup CallerPlaces
    BY Zenon, <1>0 DEF LocksInv, RepoLocks, Places
<1>2. Attempts'
  <2>1. \/ UNCHANGED attempt \/ attempt' = [attempt EXCEPT ![p] = 0]
        \/ attempt[p] # MAX_RETRIES - 1 /\ attempt' = [attempt EXCEPT ![p] = attempt[p] + 1]
    BY Zenon DEF SyncStride
  <2> QED
    BY <1>0, <2>1 DEF Attempts
<1>3. Entered'
    BY SMTT(40), <1>0, <1>1 DEF Entered
<1>4. ASSUME NEW q \in Procs, q # p
      PROVE  UNCHANGED <<RoundsLeft(q), pc[q], step[q], PlacesLeft(q), StepsLeft(q)>>
  <2>1. UNCHANGED RoundsLeft(q)
    <3>1. \/ UNCHANGED attempt \/ attempt' = [attempt EXCEPT ![p] = 0]
          \/ attempt' = [attempt EXCEPT ![p] = attempt[p] + 1]
      BY Zenon DEF SyncStride
    <3> QED
      BY <1>0, <1>4, <3>1 DEF RoundsLeft
  <2>2. UNCHANGED <<pc[q], step[q], PlacesLeft(q), StepsLeft(q)>>
    BY <1>0, <1>1, <1>4 DEF PlacesLeft, StepsLeft
  <2> QED
    BY Zenon, <2>1, <2>2
<1>5. ASSUME Busy(p)
      PROVE  \/ ~ Busy(p)' \/ RoundsLeft(p)' < RoundsLeft(p)
             \/ UNCHANGED RoundsLeft(p) /\ PlacesLeft(p)' < PlacesLeft(p)
  <2>1. pc[p] # "idle"
    BY <1>0, <1>5 DEF Busy
  <2>2. CASE pc'[p] = "idle"
    BY SMTT(40), <1>0, <2>2 DEF Busy
  <2>3. CASE attempt' = [attempt EXCEPT ![p] = attempt[p] + 1]
    BY <1>0, <2>3 DEF RoundsLeft
  <2>4. CASE UNCHANGED attempt /\ Place[pc'[p]] < Place[pc[p]] /\ pc'[p] # "idle"
    <3>1. UNCHANGED RoundsLeft(p)
      BY <2>4 DEF RoundsLeft
    <3>2. pc[p] \in JobPlaces \cup CallerPlaces /\ pc'[p] \in JobPlaces \cup CallerPlaces
          /\ Detour(after[p]) \in Nat
      BY SMTT(40), <1>0, <1>a DEF Detour
    <3>3. Place[pc[p]] \in Nat /\ Place[pc'[p]] \in Nat
      BY Zenon, <3>2, PlacesAreNumbers
    <3>4. PlacesLeft(p)' < PlacesLeft(p)
      BY <1>0, <2>4, <3>2, <3>3 DEF PlacesLeft
    <3> QED
      BY SMTT(40), <3>1, <3>4
  <2> QED
    BY Zenon, <2>1, <2>2, <2>3, <2>4 DEF SyncStride
<1>6. AppCallsGoOn
    BY Zenon, <1>4, <1>5 DEF AppCallsGoOn
<1> QED
    BY SMTT(40), <1>2, <1>3, <1>6

(* Every function of the application's connection is finite, the retries of the
   synchronizer included: sendConfigWithRetry sends at most MAX_RETRIES times, each time
   through configure, whatever happens meanwhile to the repository, the client, the
   daemon and the settings. *)
THEOREM ApplicationCallsAreFinite ==
    ASSUME OwnCoroutines, MAX_RETRIES \in Nat \ {0}
    PROVE  Spec => [][AppCallsGoOn]_vars
<1> DEFINE I == AppInv /\ Entered /\ Attempts
<1>1. Init => I
  <2>1. Init => AppInv
    BY Zenon, AllInvInit, LocksInit DEF Init, AppInv
  <2>2. Init => Entered
    BY Zenon DEF Init, RepoInit, ClientInit, Entered
  <2>3. Init => Attempts
    BY DEF Init, Attempts
  <2> QED
    BY Zenon, <2>1, <2>2, <2>3
<1>2. I /\ [Next]_vars => I' /\ AppCallsGoOn
  <2> SUFFICES ASSUME AppInv, Entered, Attempts, [Next]_vars
               PROVE  AppInv' /\ Entered' /\ Attempts' /\ AppCallsGoOn
    OBVIOUS
  <2>1. AppInv'
    BY Zenon, AppInvStep
  <2>2. LocksInv /\ RepoLocks /\ RepoInv /\ ClientInv /\ SessionType
    BY Zenon DEF AppInv, LocksInv
  <2>3. CASE [RepoNext]_repoAll /\ UNCHANGED attempt
    <3>1. Entered' /\ Attempts'
      BY Zenon, <2>2, <2>3, EnteredStep DEF Attempts
    <3>2. CallsGoOn
      BY Zenon, <2>2, <2>3, RepoUsesClient, GoOnStep
    <3>3. \A q \in Procs : UNCHANGED RoundsLeft(q)
      BY <2>3 DEF RoundsLeft
    <3>4. AppCallsGoOn
      BY Zenon, <3>2, <3>3 DEF CallsGoOn, AppCallsGoOn
    <3> QED
      BY <2>1, <3>1, <3>4
  <2>4. ASSUME NEW p \in Callers, SyncStride(p) PROVE Entered' /\ Attempts' /\ AppCallsGoOn
    BY Zenon, <2>1, <2>2, <2>4, SyncGoesOn DEF AppInv
  <2> QED
    BY Zenon, <2>1, <2>2, <2>3, <2>4, AppStrides
<1> HIDE DEF I
<1> QED
    BY <1>1, <1>2, PTL DEF Spec
-----------------------------------------------------------------------------
(* No daemon performs an operation twice *)

(* Caller p is between its first try and the end of the operation. *)
Trying(p) ==
    /\ pc[p] \in {"tried", "dropped", "lock", "join", "block2", "over"}
    /\ pc[p] \in {"lock", "join"} => after[p] = "block2"

(* It knows that the daemon of its first try is gone; it has let go of that one's binder. *)
Gone(p) == pc[p] # "tried" \/ result[p] = "Died"
Dropped(p) == pc[p] \in {"lock", "join", "block2"} \/ (pc[p] = "dropped" /\ step[p] = "idle")

(* What is so of each entry of the history. *)
Entry(e) ==
    /\ e.by \in Callers /\ e.daemon \in 1 .. incarnations /\ Trying(e.by)
    /\ \/ /\ e.try = "block1"
          /\ Gone(e.by) => e.daemon # service
          /\ Dropped(e.by) => e.daemon # binder
       \/ e.try = "block2" /\ pc[e.by] = "over"

Performed ==
    /\ PerformedOnce /\ result = [q \in Procs |-> result[q]]
    /\ \A e \in performed : Entry(e)
    /\ \A p \in Callers : pc[p] = "dropped" => step[p] \in {"idle", "disconnect"}

(* A daemon that is gone never comes back, and a binder in use is a living daemon's when
   it is taken. *)
Onward ==
    /\ incarnations' \in Nat /\ incarnations <= incarnations'
    /\ service' \in {service, 0} \/ (service' \in Nat /\ incarnations < service')
    /\ binder' \in {binder, 0} \/ (service' = service /\ binder' = service)

(* So it is in every step of the client. *)
LEMMA ClientOnward == ASSUME ClientInv, [ClientNext]_clientVars PROVE Onward
<1>0. incarnations \in Nat /\ (service = 0 \/ service = incarnations)
    BY Zenon DEF ClientInv
<1>1. CASE UNCHANGED <<service, incarnations, binder>>
    BY <1>0, <1>1 DEF Onward
<1>2. CASE DaemonDies \/ DaemonStarts
    BY <1>0, <1>2 DEF DaemonDies, DaemonStarts, fieldVars, Onward
<1>3. ASSUME NEW p \in Procs, ClientStep(p) \/ Abandon(p) PROVE Onward
  <2>1. /\ UNCHANGED <<service, incarnations>>
        /\ binder' = binder \/ binder' = 0 \/ binder' = service
    <3>1. CASE ConnectLock(p) \/ ConnectLookup(p) \/ ConnectVersion(p) \/ Abandon(p)
      BY Zenon, <3>1 DEF ConnectLock, ConnectLookup, ConnectVersion, Abandon, daemonVars
    <3>2. CASE ConnectLink(p) \/ ReconnectLink(p)
      BY Zenon, <3>2 DEF ConnectLink, ReconnectLink, Link, Unlinked
    <3>3. CASE Disconnect(p) \/ HandleBinderDeath(p)
      BY Zenon, <3>3 DEF Disconnect, HandleBinderDeath
    <3>4. CASE Reconnect(p) \/ ReconnectLookup(p) \/ ReconnectMissing(p) \/ ReconnectVersion(p)
      BY Zenon, <3>4 DEF Reconnect, ReconnectLookup, ReconnectMissing, ReconnectVersion, daemonVars
    <3> QED
      BY Zenon, <1>3, <3>1, <3>2, <3>3, <3>4 DEF ClientStep
  <2> QED
    BY <1>0, <2>1 DEF Onward
<1>4. ASSUME NEW p, Call(p) \/ RemoteCall(p) \/ Take(p) PROVE UNCHANGED <<service, incarnations, binder>>
    BY Zenon, <1>4 DEF Call, RemoteCall, Take, Execute, daemonVars, fieldVars
<1>5. CASE UNCHANGED clientVars
    BY Zenon, <1>1, <1>5 DEF clientVars, daemonVars, fieldVars
<1> QED
    BY Zenon, <1>1, <1>2, <1>3, <1>4, <1>5 DEF ClientNext

(* An entry stays true while its caller stays where it is. *)
LEMMA EntryStays ==
    ASSUME ClientInv, Onward, NEW e, Entry(e),
           pc'[e.by] = pc[e.by], after'[e.by] = after[e.by],
           pc[e.by] = "tried" /\ result'[e.by] = "Died" => result[e.by] = "Died",
           pc[e.by] = "dropped" /\ step'[e.by] = "idle" => step[e.by] = "idle" \/ binder' = 0
    PROVE  Entry(e)'
<1>1. /\ incarnations \in Nat /\ service \in Nat /\ binder \in Nat /\ (service = 0 \/ service = incarnations)
      /\ e.by \in Callers /\ e.daemon \in 1 .. incarnations /\ Trying(e.by)
    BY Zenon DEF ClientInv, Entry
<1>2. e.daemon \in 1 .. incarnations'
    BY SMTT(40), <1>1 DEF Onward
<1>3. Trying(e.by)'
    BY Zenon, <1>1 DEF Trying
<1>4. e.daemon # 0
    BY <1>1
<1>5. CASE e.try = "block2" /\ pc[e.by] = "over"
    BY Zenon, <1>1, <1>2, <1>3, <1>5 DEF Entry
<1>6. CASE e.try = "block1" /\ (Gone(e.by) => e.daemon # service) /\ (Dropped(e.by) => e.daemon # binder)
  <2>1. Gone(e.by)' => Gone(e.by)
    BY Zenon DEF Gone
  <2>2. Gone(e.by)' => e.daemon # service'
    <3>1. service' \in {service, 0} \/ (service' \in Nat /\ incarnations < service')
      BY Zenon DEF Onward
    <3>2. service' \in Nat /\ incarnations < service' => e.daemon # service'
      BY <1>1
    <3> QED
      BY Zenon, <1>4, <1>6, <2>1, <3>1, <3>2
  <2>3. Dropped(e.by)' => binder' = 0 \/ (Dropped(e.by) /\ Gone(e.by))
    BY Zenon DEF Dropped, Gone
  <2>4. Dropped(e.by)' => e.daemon # binder'
    <3>1. binder' = binder \/ binder' = 0 \/ binder' = service
      BY Zenon DEF Onward
    <3> QED
      BY Zenon, <1>4, <1>6, <2>3, <3>1
  <2> QED
    BY Zenon, <1>1, <1>2, <1>3, <1>6, <2>2, <2>4 DEF Entry
<1> QED
    BY Zenon, <1>5, <1>6 DEF Entry

(* Only coroutine p moves, of the callers. *)
Turn(p) ==
    /\ result' = [q \in Procs |-> result'[q]]
    /\ \A q \in Callers \ {p} :
         pc'[q] = pc[q] /\ after'[q] = after[q] /\ result'[q] = result[q] /\ step'[q] = step[q]

(* Then what counts is what becomes of the entries of p, if none is added. *)
LEMMA TurnKeeps ==
    ASSUME Performed, ClientInv, Onward, NEW p, Turn(p),
           \A e \in performed' : e \in performed,
           \A e \in performed' : e.by = p => Entry(e)',
           p \in Callers /\ pc'[p] = "dropped" => step'[p] \in {"idle", "disconnect"}
    PROVE  Performed'
<1>1. PerformedOnce'
    BY Zenon DEF Performed, PerformedOnce
<1>2. ASSUME NEW e \in performed' PROVE Entry(e)'
  <2>1. Entry(e) /\ e.by \in Callers
    BY Zenon, <1>2 DEF Performed, Entry
  <2>2. CASE e.by # p
    <3>1. pc'[e.by] = pc[e.by] /\ after'[e.by] = after[e.by] /\ result'[e.by] = result[e.by] /\ step'[e.by] = step[e.by]
      BY <2>1, <2>2 DEF Turn
    <3> QED
      BY Zenon, <2>1, <3>1, EntryStays
  <2> QED
    BY Zenon, <1>2, <2>2
<1>3. ASSUME NEW q \in Callers, pc'[q] = "dropped" PROVE step'[q] \in {"idle", "disconnect"}
  <2>1. q # p => pc'[q] = pc[q] /\ step'[q] = step[q]
    BY DEF Turn
  <2> QED
    BY Zenon, <1>3, <2>1 DEF Performed
<1> QED
    BY Zenon, <1>1, <1>2, <1>3 DEF Performed, Turn

(* The common case: p is in no operation, and enters none. *)
LEMMA ElsewhereKeeps ==
    ASSUME Performed, ClientInv, Onward, NEW p, Turn(p), performed' = performed,
           p \in Callers => ~ Trying(p) /\ pc'[p] # "dropped"
    PROVE  Performed'
<1>1. \A e \in performed' : e.by # p
    BY Zenon DEF Performed, Entry
<1> QED
    BY Zenon, <1>1, TurnKeeps

(* p forgets what was performed for it, at the end of the operation. *)
LEMMA ForgetsKeeps ==
    ASSUME Performed, ClientInv, Onward, NEW p, Turn(p), Forgets(p), pc'[p] # "dropped"
    PROVE  Performed'
<1>1. \A e \in performed' : e \in performed /\ e.by # p
    BY DEF Forgets
<1> QED
    BY Zenon, <1>1, TurnKeeps

(* p goes on within the operation, while the client stays as it is. *)
LEMMA AdvanceKeeps ==
    ASSUME Performed, ClientInv, Onward, NEW p \in Callers, Turn(p), performed' = performed,
           UNCHANGED <<service, incarnations, binder>>,
           pc[p] # "over", Trying(p) => Trying(p)', Gone(p), Dropped(p)' => Dropped(p),
           pc'[p] = "dropped" => step'[p] \in {"idle", "disconnect"}
    PROVE  Performed'
<1>1. ASSUME NEW e \in performed', e.by = p PROVE Entry(e)'
    BY Zenon, <1>1 DEF Performed, Entry
<1> QED
    BY Zenon, <1>1, TurnKeeps

(* A step that writes the places of p alone is the turn of p. *)
LEMMA Alone ==
    ASSUME LocksInv, Performed, NEW p \in Procs,
           UNCHANGED pc \/ \E l : Go(p, l),
           UNCHANGED after \/ \E a : after' = [after EXCEPT ![p] = a],
           UNCHANGED step \/ \E s : Enter(p, s),
           UNCHANGED result \/ \E r : result' = [result EXCEPT ![p] = r]
    PROVE  Turn(p)
<1>1. /\ step = [q \in Procs |-> step[q]] /\ pc = [q \in Procs |-> pc[q]] /\ after = [q \in Procs |-> after[q]]
      /\ result = [q \in Procs |-> result[q]] /\ Callers \subseteq Procs
    BY DEF LocksInv, Locked, RepoLocks, Places, Performed, Callers
<1>2. \A q \in Callers \ {p} : pc'[q] = pc[q]
    BY <1>1 DEF Go
<1>3. \A q \in Callers \ {p} : after'[q] = after[q]
    BY <1>1
<1>4. \A q \in Callers \ {p} : step'[q] = step[q]
    BY <1>1 DEF Enter
<1>5. result' = [q \in Procs |-> result'[q]] /\ \A q \in Callers \ {p} : result'[q] = result[q]
  <2>1. CASE UNCHANGED result
    BY Zenon, <1>1, <2>1
  <2>2. ASSUME NEW r, result' = [result EXCEPT ![p] = r]
        PROVE  result' = [q \in Procs |-> result'[q]] /\ \A q \in Callers \ {p} : result'[q] = result[q]
    BY <1>1, <2>2
  <2> QED
    BY Zenon, <2>1, <2>2
<1> QED
    BY Zenon, <1>2, <1>3, <1>4, <1>5 DEF Turn

(* What a step inside the client does to the coroutine that takes it: a result "Died" is
   the one execute gave, and disconnect lets go of the binder. *)
LEMMA ClientTurn ==
    ASSUME LocksInv, Performed, NEW p \in Procs, ClientStep(p) \/ Abandon(p)
    PROVE  /\ \E s : Enter(p, s)
           /\ UNCHANGED result \/ \E r : result' = [result EXCEPT ![p] = r]
           /\ result'[p] = "Died" => result[p] = "Died"
           /\ step[p] = "disconnect" /\ ClientStep(p) => binder' = 0 /\ step'[p] = "idle"
<1>1. \E s : Enter(p, s)
  <2>1. CASE ConnectLock(p) \/ ConnectLookup(p) \/ ConnectLink(p)
    BY Zenon, <2>1 DEF ConnectLock, ConnectLookup, ConnectLink, Goes, Return, Enter
  <2>2. CASE ConnectVersion(p) \/ Disconnect(p) \/ ReconnectMissing(p) \/ Abandon(p)
    BY Zenon, <2>2 DEF ConnectVersion, Disconnect, ReconnectMissing, Abandon, EndReconnect, Return, Enter
  <2>3. CASE HandleBinderDeath(p) \/ Reconnect(p) \/ ReconnectLookup(p)
    BY Zenon, <2>3 DEF HandleBinderDeath, Reconnect, ReconnectLookup, Goes, Return, Enter
  <2>4. CASE ReconnectLink(p) \/ ReconnectVersion(p)
    BY Zenon, <2>4 DEF ReconnectLink, ReconnectVersion, TryAgain, EndReconnect, Goes, Return, Enter
  <2> QED
    BY Zenon, <2>1, <2>2, <2>3, <2>4 DEF ClientStep
<1>2. UNCHANGED result \/ \E r \in {result[p], "NotRunning", "Failed", "Connected", "Done", "Cancelled"} :
                              result' = [result EXCEPT ![p] = r]
  <2>1. CASE ConnectLock(p) \/ ConnectLookup(p) \/ ConnectLink(p)
    BY Zenon, <2>1 DEF ConnectLock, ConnectLookup, ConnectLink, Goes, Return
  <2>2. CASE ConnectVersion(p) \/ Disconnect(p) \/ ReconnectMissing(p) \/ Abandon(p)
    BY Zenon, <2>2 DEF ConnectVersion, Disconnect, ReconnectMissing, Abandon, EndReconnect, Return
  <2>3. CASE HandleBinderDeath(p) \/ Reconnect(p) \/ ReconnectLookup(p)
    BY Zenon, <2>3 DEF HandleBinderDeath, Reconnect, ReconnectLookup, Goes, Return
  <2>4. CASE ReconnectLink(p) \/ ReconnectVersion(p)
    BY Zenon, <2>4 DEF ReconnectLink, ReconnectVersion, TryAgain, EndReconnect, Goes, Return
  <2> QED
    BY Zenon, <2>1, <2>2, <2>3, <2>4 DEF ClientStep
<1>3. result'[p] = "Died" => result[p] = "Died"
  <2>1. result = [q \in Procs |-> result[q]]
    BY Zenon DEF Performed
  <2>2. ASSUME NEW r, result' = [result EXCEPT ![p] = r] PROVE result'[p] = r
    BY <2>1, <2>2
  <2>3. "NotRunning" # "Died" /\ "Failed" # "Died" /\ "Connected" # "Died" /\ "Done" # "Died" /\ "Cancelled" # "Died"
    OBVIOUS
  <2> QED
    BY Zenon, <1>2, <2>2, <2>3
<1>4. ASSUME step[p] = "disconnect", ClientStep(p) PROVE binder' = 0 /\ step'[p] = "idle"
  <2>1. Disconnect(p)
    <3>1. ~ (ConnectLock(p) \/ ConnectLookup(p) \/ ConnectLink(p) \/ ConnectVersion(p) \/ HandleBinderDeath(p))
      BY <1>4 DEF ConnectLock, ConnectLookup, ConnectLink, ConnectVersion, HandleBinderDeath
    <3>2. ~ (Reconnect(p) \/ ReconnectLookup(p) \/ ReconnectMissing(p) \/ ReconnectLink(p) \/ ReconnectVersion(p))
      BY <1>4 DEF Reconnect, ReconnectLookup, ReconnectMissing, ReconnectLink, ReconnectVersion
    <3> QED
      BY Zenon, <1>4, <3>1, <3>2 DEF ClientStep
  <2>2. binder' = 0 /\ step' = [step EXCEPT ![p] = "idle"]
    BY Zenon, <2>1 DEF Disconnect, Return
  <2> QED
    BY <2>2 DEF LocksInv, Locked
<1> QED
    BY Zenon, <1>1, <1>2, <1>3, <1>4

(* A step inside the client. *)
LEMMA ClientPerforms ==
    ASSUME LocksInv, Performed, ClientInv, Onward, NEW p \in Procs,
           ClientStep(p) \/ (p \in Jobs /\ Abandon(p)), UNCHANGED repoVars
    PROVE  Performed'
<1>1. UNCHANGED <<pc, after, performed>>
    BY Zenon DEF repoVars
<1>2. Turn(p)
    BY Zenon, <1>1, Alone, ClientTurn
<1>3. CASE p \notin Callers
    BY Zenon, <1>1, <1>2, <1>3, ElsewhereKeeps
<1>4. CASE p \in Callers
  <2>1. ClientStep(p) /\ p # "obituary"
    BY <1>4 DEF Callers
  <2>2. pc[p] = "dropped" => step[p] = "disconnect" /\ binder' = 0 /\ step'[p] = "idle"
    <3>1. step[p] # "idle"
      BY Zenon, <2>1, ClientStaysInside
    <3>2. pc[p] = "dropped" => step[p] = "disconnect"
      BY <1>4, <3>1 DEF Performed
    <3> QED
      BY Zenon, <2>1, <3>2, ClientTurn
  <2>3. result'[p] = "Died" => result[p] = "Died"
    BY Zenon, ClientTurn
  <2>4. ASSUME NEW e \in performed', e.by = p PROVE Entry(e)'
    <3>1. Entry(e)
      BY Zenon, <1>1, <2>4 DEF Performed
    <3>2. pc'[e.by] = pc[e.by] /\ after'[e.by] = after[e.by]
      BY Zenon, <1>1
    <3> QED
      BY Zenon, <2>2, <2>3, <2>4, <3>1, <3>2, EntryStays
  <2> QED
    BY Zenon, <1>1, <1>2, <2>2, <2>4, TurnKeeps
<1> QED
    BY Zenon, <1>3, <1>4

(* What a remote call of p does to p. *)
LEMMA CallTurn ==
    ASSUME LocksInv, Performed, NEW p \in Procs
    PROVE  /\ \A b : Execute(p, b, Nothing, Nothing) =>
                (\E s : Enter(p, s)) /\ (\E r : result' = [result EXCEPT ![p] = r])
           /\ \A c : Plain(p) \/ OpenSession(p) \/ SendConfig(p, c) =>
                (\E s : Enter(p, s)) /\ (\E r : result' = [result EXCEPT ![p] = r])
           /\ \A m : CallClient(p, m) => (\E s : Enter(p, s)) /\ UNCHANGED result
           /\ Take(p) => UNCHANGED step /\ \E r : result' = [result EXCEPT ![p] = r]
<1>1. ASSUME NEW b, Execute(p, b, Nothing, Nothing)
      PROVE  (\E s : Enter(p, s)) /\ (\E r : result' = [result EXCEPT ![p] = r])
    BY Zenon, <1>1 DEF Execute, Answer
<1>2. ASSUME NEW c, Plain(p) \/ OpenSession(p) \/ SendConfig(p, c)
      PROVE  (\E s : Enter(p, s)) /\ (\E r : result' = [result EXCEPT ![p] = r])
    BY Zenon, <1>2 DEF Plain, OpenSession, SendConfig, Execute, Answer
<1> QED
    BY Zenon, <1>1, <1>2 DEF CallClient, Take

(* The jobs perform no operation. *)
LEMMA JobPerforms ==
    ASSUME LocksInv, Performed, ClientInv, Onward, NEW j \in Jobs, JobStep(j)
    PROVE  Performed'
<1>0. j \notin Callers /\ j \in Procs
    BY RepositoryConstants DEF Callers
<1>1. CASE Abandon(j) /\ UNCHANGED repoVars
    BY Zenon, <1>0, <1>1, ClientPerforms
<1>2. ASSUME Turn(j), UNCHANGED performed PROVE Performed'
    BY Zenon, <1>0, <1>2, ElsewhereKeeps
<1>3. ASSUME NEW state, JobEnds(j, state) PROVE Performed'
  <2>1. UNCHANGED <<after, performed>> /\ Go(j, "idle") /\ Take(j)
    BY Zenon, <1>3 DEF JobEnds, jobKeeps, Ends
  <2> QED
    BY Zenon, <1>0, <1>2, <2>1, CallTurn, Alone
<1>4. ASSUME NEW state, NEW l, NEW c, NEW m, JobCalls(j, state, l),
             \/ \E b : Execute(j, b, Nothing, Nothing)
             \/ Plain(j) \/ OpenSession(j) \/ SendConfig(j, c) \/ CallClient(j, m)
      PROVE  Performed'
  <2>1. UNCHANGED <<after, performed>> /\ Go(j, l)
    BY Zenon, <1>4 DEF JobCalls, jobKeeps
  <2> QED
    BY Zenon, <1>0, <1>2, <1>4, <2>1, CallTurn, Alone
<1>5. CASE JobStart(j)
    BY Zenon, <1>3, <1>4, <1>5 DEF JobStart
<1>6. CASE JobCheck(j)
    BY Zenon, <1>3, <1>4, <1>6 DEF JobCheck
<1>7. CASE JobAuthenticate(j)
    BY Zenon, <1>3, <1>4, <1>7 DEF JobAuthenticate
<1>8. CASE JobRegister(j) \/ JobBuffers(j)
    BY Zenon, <1>3, <1>4, <1>8 DEF JobRegister, JobBuffers
<1>9. CASE JobRemember(j)
  <2>1. CASE JobEnds(j, "Ready")
    BY Zenon, <1>3, <2>1
  <2>2. CASE Go(j, "restore") /\ UNCHANGED <<clientVars, jobKeeps>>
    <3>1. UNCHANGED <<after, performed, step, result>>
      BY Zenon, <2>2 DEF jobKeeps, clientVars
    <3> QED
      BY Zenon, <1>0, <1>2, <2>2, <3>1, Alone
  <2> QED
    BY Zenon, <1>9, <2>1, <2>2 DEF JobRemember
<1>10. CASE JobRestore(j)
    BY Zenon, <1>3, <1>4, <1>10 DEF JobRestore
<1>11. CASE JobCancelled(j)
    BY Zenon, <1>1, <1>3, <1>11 DEF JobCancelled
<1> QED
    BY Zenon, <1>5, <1>6, <1>7, <1>8, <1>9, <1>10, <1>11 DEF JobStep

(* connect, on the way into an operation or back into it. *)
LEMMA ConnectPerforms ==
    ASSUME LocksInv, Performed, ClientInv, Onward, NEW p \in Callers,
           ConnectLaunch(p) \/ ConnectJoin(p) \/ ConnectAbandoned(p)
    PROVE  Performed'
<1>0. /\ p \in Procs /\ p \notin Jobs /\ p \notin IdleJobs /\ Callers \subseteq Procs /\ Jobs \cap Callers = {}
      /\ pc = [q \in Procs |-> pc[q]] /\ after = [q \in Procs |-> after[q]]
    BY Zenon DEF Callers, IdleJobs, LocksInv, RepoLocks, Places
<1>1. UNCHANGED <<service, incarnations, binder, step, result>>
    BY Zenon DEF ConnectLaunch, ConnectJoin, ConnectAbandoned, clientVars, daemonVars, fieldVars
<1>2. CASE ConnectLaunch(p)
  <2>1. /\ pc[p] = "lock" /\ UNCHANGED <<after, performed>> /\ connectionJob' \in IdleJobs
        /\ pc' = [pc EXCEPT ![p] = "join", ![connectionJob'] = "start"]
    BY Zenon, <1>2 DEF ConnectLaunch, At
  <2>2. pc'[p] = "join" /\ \A q \in Callers \ {p} : pc'[q] = pc[q]
    <3>1. connectionJob' \in Jobs
      BY <2>1 DEF IdleJobs
    <3> QED
      BY <1>0, <2>1, <3>1
  <2>3. Turn(p)
    BY Zenon, <1>1, <2>1, <2>2 DEF Turn, Performed
  <2>4. Gone(p) /\ Dropped(p) /\ (Trying(p) => Trying(p)') /\ pc[p] # "over" /\ pc'[p] # "dropped"
    BY <2>1, <2>2 DEF Gone, Dropped, Trying
  <2> QED
    BY Zenon, <1>1, <2>1, <2>3, <2>4, AdvanceKeeps
<1>3. ASSUME Go(p, "idle"), Forgets(p), \E a : after' = [after EXCEPT ![p] = a] PROVE Performed'
  <2>1. pc'[p] # "dropped"
    BY <1>0, <1>3 DEF Go
  <2> QED
    BY Zenon, <1>0, <1>1, <1>3, <2>1, Alone, ForgetsKeeps
<1>4. ASSUME pc[p] = "join", Go(p, after[p]), UNCHANGED performed, after' = [after EXCEPT ![p] = "idle"]
      PROVE  Performed'
  <2>1. pc'[p] = after[p] /\ after[p] \in {"idle", "block1", "block2"}
    BY <1>0, <1>4 DEF Go, LocksInv, RepoLocks, Places
  <2>2. Turn(p)
    BY Zenon, <1>0, <1>1, <1>4, Alone
  <2>3. Gone(p) /\ Dropped(p) /\ (Trying(p) => Trying(p)') /\ pc[p] # "over" /\ pc'[p] # "dropped"
    BY <1>4, <2>1 DEF Gone, Dropped, Trying
  <2> QED
    BY Zenon, <1>1, <1>4, <2>2, <2>3, AdvanceKeeps
<1>5. CASE ConnectJoin(p) \/ ConnectAbandoned(p)
    BY Zenon, <1>3, <1>4, <1>5 DEF ConnectJoin, ConnectAbandoned, At
<1> QED
    BY Zenon, <1>2, <1>5

(* A try: what a first one may have done is nobody's yet, and a second one goes to another
   daemon, for the first one's is gone and its binder was let go of. *)
LEMMA BlockPerforms ==
    ASSUME LocksInv, Performed, ClientInv, Onward, NEW p \in Callers, OperationBlock(p)
    PROVE  Performed'
<1>a. PICK new : new = [by |-> p, try |-> pc[p], daemon |-> binder]
    BY Zenon
<1>0. /\ p \in Procs /\ pc = [q \in Procs |-> pc[q]] /\ result = [q \in Procs |-> result[q]]
      /\ incarnations \in Nat /\ binder \in Nat /\ binder <= incarnations
    BY DEF Callers, LocksInv, RepoLocks, Places, Performed, ClientInv
<1>1. Plain(p) /\ Performs(p) /\ UNCHANGED after
    BY Zenon DEF OperationBlock
<1>2. /\ UNCHANGED <<service, incarnations, binder>>
      /\ (\E s : Enter(p, s)) /\ (\E r : result' = [result EXCEPT ![p] = r])
    BY Zenon, <1>0, <1>1, CallTurn DEF Plain, Execute, fieldVars
<1>3. \/ pc[p] = "block1" /\ pc'[p] = "tried"
      \/ pc[p] = "block2" /\ pc'[p] = "over"
    BY <1>0 DEF OperationBlock, At, Go
<1>4. Turn(p)
  <2>1. \E l : Go(p, l)
    BY Zenon DEF OperationBlock
  <2> QED
    BY Zenon, <1>0, <1>1, <1>2, <2>1, Alone
<1>5. /\ result'[p] = "Died" => binder # service
      /\ binder = 0 => result'[p] = "NotFound"
  <2>1. ASSUME NEW r, result' = [result EXCEPT ![p] = r] PROVE result'[p] = r
    BY <1>0, <2>1
  <2>2. \/ binder # 0 /\ ~ Alive /\ result' = [result EXCEPT ![p] = "Died"]
        \/ binder = 0 /\ result' = [result EXCEPT ![p] = "NotFound"]
        \/ Alive /\ \E r \in {"Refused", "Done", "TimedOut", "Failed"} : result' = [result EXCEPT ![p] = r]
    BY Zenon, <1>1 DEF Plain, Execute, Answer
  <2> QED
    BY <2>1, <2>2 DEF Alive
<1>6. ASSUME NEW e \in performed, e.by = p
      PROVE  pc[p] = "block2" /\ e.try = "block1" /\ e.daemon # service /\ e.daemon # binder
    BY <1>3, <1>6 DEF Performed, Entry, Trying, Gone, Dropped
<1>7. Trying(p)' /\ ~ Dropped(p)' /\ (pc[p] = "block1" /\ Gone(p)' => result'[p] = "Died")
    BY <1>3 DEF Trying, Dropped, Gone
<1>8. ASSUME NEW e \in performed, e.by = p PROVE Entry(e)'
  <2>1. e.daemon \in 1 .. incarnations /\ e.by \in Callers
    BY Zenon, <1>8 DEF Performed, Entry
  <2> QED
    BY Zenon, <1>2, <1>6, <1>7, <1>8, <2>1 DEF Entry
<1>9. CASE performed' = performed
  <2>1. \A e \in performed' : e \in performed
    BY Zenon, <1>9
  <2>2. pc'[p] # "dropped"
    BY <1>3
  <2> QED
    BY Zenon, <1>4, <1>8, <1>9, <2>1, <2>2, TurnKeeps
<1>10. CASE result'[p] \notin {"NotFound", "Refused"} /\ performed' = performed \cup {new}
  <2>1. binder \in 1 .. incarnations'
    BY <1>0, <1>2, <1>5, <1>10
  <2>2. new.by = p /\ new.try = pc[p] /\ new.daemon = binder
    BY <1>a
  <2>3. Entry(new)'
    <3>1. CASE pc[p] = "block1"
      <4>1. Gone(p)' => new.daemon # service'
        BY Zenon, <1>2, <1>5, <1>7, <2>2, <3>1
      <4> QED
        BY Zenon, <1>7, <2>1, <2>2, <3>1, <4>1 DEF Entry
    <3>2. CASE pc[p] = "block2" /\ pc'[p] = "over"
      BY Zenon, <1>7, <2>1, <2>2, <3>2 DEF Entry
    <3> QED
      BY Zenon, <1>3, <3>1, <3>2
  <2>4. ASSUME NEW e \in performed' PROVE Entry(e)'
    <3>1. CASE e \in performed /\ e.by # p
      <4>1. Entry(e) /\ e.by \in Callers
        BY Zenon, <3>1 DEF Performed, Entry
      <4>2. /\ pc'[e.by] = pc[e.by] /\ after'[e.by] = after[e.by]
            /\ result'[e.by] = result[e.by] /\ step'[e.by] = step[e.by]
        BY <1>4, <3>1, <4>1 DEF Turn
      <4> QED
        BY Zenon, <4>1, <4>2, EntryStays
    <3> QED
      BY Zenon, <1>8, <1>10, <2>3, <2>4, <3>1
  <2>5. PerformedOnce'
    <3> SUFFICES ASSUME NEW d \in performed', NEW e \in performed', d.by = e.by, d.daemon = e.daemon
                 PROVE  d.try = e.try
      BY Zenon DEF PerformedOnce
    <3>1. d \in performed /\ e \in performed => d.try = e.try
      BY Zenon DEF Performed, PerformedOnce
    <3>2. d \in performed => ~ (d.by = p /\ d.daemon = binder)
      BY Zenon, <1>6
    <3>3. e \in performed => ~ (e.by = p /\ e.daemon = binder)
      BY Zenon, <1>6
    <3> QED
      BY Zenon, <1>10, <2>2, <3>1, <3>2, <3>3
  <2>6. ASSUME NEW q \in Callers, pc'[q] = "dropped" PROVE step'[q] \in {"idle", "disconnect"}
    <3>1. q # p
      BY <1>3, <2>6
    <3>2. pc'[q] = pc[q] /\ step'[q] = step[q]
      BY <1>4, <3>1 DEF Turn
    <3> QED
      BY Zenon, <2>6, <3>2 DEF Performed
  <2> QED
    BY Zenon, <1>4, <2>4, <2>5, <2>6 DEF Performed, Turn
<1> QED
    BY Zenon, <1>a, <1>1, <1>9, <1>10 DEF Performs

(* After a try: the end, or the way to the second one. *)
LEMMA TriedPerforms ==
    ASSUME LocksInv, Performed, ClientInv, Onward, NEW p \in Callers, OperationTried(p) \/ OperationAgain(p)
    PROVE  Performed'
<1>0. /\ p \in Procs /\ pc = [q \in Procs |-> pc[q]] /\ after = [q \in Procs |-> after[q]]
      /\ step = [q \in Procs |-> step[q]]
    BY DEF Callers, LocksInv, Locked, RepoLocks, Places
<1>1. CASE At(p, "tried") /\ result[p] = "Died" /\ Go(p, "dropped") /\ CallClient(p, "disconnect")
           /\ UNCHANGED <<performed, after>>
  <2>1. UNCHANGED <<service, incarnations, binder, result>> /\ Enter(p, "disconnect")
    BY Zenon, <1>1 DEF CallClient, daemonVars, fieldVars
  <2>2. pc[p] = "tried" /\ pc'[p] = "dropped" /\ step'[p] = "disconnect"
    BY <1>0, <1>1, <2>1 DEF At, Go, Enter
  <2>3. Turn(p)
    BY Zenon, <1>0, <1>1, <2>1, Alone
  <2>4. Gone(p) /\ ~ Dropped(p)' /\ Trying(p)' /\ pc[p] # "over"
    BY <1>1, <2>2 DEF Gone, Dropped, Trying
  <2> QED
    BY Zenon, <1>1, <2>1, <2>2, <2>3, <2>4, AdvanceKeeps
<1>2. CASE Ends(p) /\ Forgets(p) /\ UNCHANGED after
  <2>1. pc'[p] # "dropped" /\ Go(p, "idle") /\ Take(p)
    BY <1>0, <1>2 DEF Ends, Go
  <2> QED
    BY Zenon, <1>0, <1>2, <2>1, CallTurn, Alone, ForgetsKeeps
<1>3. CASE OperationAgain(p)
  <2>1. /\ pc[p] = "dropped" /\ step[p] = "idle" /\ Go(p, "lock") /\ after' = [after EXCEPT ![p] = "block2"]
        /\ Take(p) /\ UNCHANGED performed
    BY Zenon, <1>3 DEF OperationAgain, At, BeginConnect
  <2>2. pc'[p] = "lock" /\ after'[p] = "block2"
    BY <1>0, <2>1 DEF Go
  <2>3. UNCHANGED <<service, incarnations, binder>>
    BY Zenon, <2>1 DEF Take, daemonVars, fieldVars
  <2>4. Turn(p)
    BY Zenon, <1>0, <2>1, CallTurn, Alone
  <2>5. Gone(p) /\ Dropped(p) /\ Trying(p)' /\ pc[p] # "over" /\ pc'[p] # "dropped"
    BY <2>1, <2>2 DEF Gone, Dropped, Trying
  <2> QED
    BY Zenon, <2>1, <2>3, <2>4, <2>5, AdvanceKeeps
<1> QED
    BY Zenon, <1>1, <1>2, <1>3 DEF OperationTried

(* The rest of what callers do: p is in no operation, and stays so. *)
LEMMA OthersPerform ==
    ASSUME LocksInv, Performed, ClientInv, Onward, NEW p \in Callers, UNCHANGED performed,
           \/ DisconnectLock(p) \/ DisconnectCalls(p) \/ DisconnectStopped(p)
           \/ ConfigureLock(p) \/ ConfigureSend(p) \/ ConfigureSent(p)
           \/ CallConnect(p) \/ CallDisconnect(p) \/ CallOperation(p) \/ CallConfigure(p) \/ Configured(p)
           \/ SyncMove(p)
    PROVE  Performed'
<1>0. p \in Procs /\ pc = [q \in Procs |-> pc[q]]
    BY Zenon DEF Callers, LocksInv, RepoLocks, Places
<1>1. ASSUME pc[p] \notin {"tried", "dropped", "lock", "join", "block2", "over"},
             UNCHANGED after \/ \E a : after' = [after EXCEPT ![p] = a],
             UNCHANGED step \/ \E s : Enter(p, s),
             UNCHANGED result \/ \E r : result' = [result EXCEPT ![p] = r],
             NEW l, l # "dropped", Go(p, l)
      PROVE  Performed'
  <2>1. ~ Trying(p)
    BY <1>1 DEF Trying
  <2>2. pc'[p] # "dropped"
    BY <1>0, <1>1 DEF Go
  <2> QED
    BY Zenon, <1>0, <1>1, <2>1, <2>2, Alone, ElsewhereKeeps
<1>2. UNCHANGED clientVars => UNCHANGED <<step, result>>
    BY Zenon DEF clientVars
<1>3. CASE DisconnectLock(p) \/ DisconnectCalls(p) \/ DisconnectStopped(p)
  <2>1. /\ UNCHANGED after /\ (UNCHANGED step \/ \E s : Enter(p, s))
        /\ UNCHANGED result \/ \E r : result' = [result EXCEPT ![p] = r]
    BY Zenon, <1>0, <1>2, <1>3, CallTurn DEF DisconnectLock, DisconnectCalls, DisconnectStopped, Ends
  <2>2. /\ pc[p] \in {"disconnect", "unregister", "unregister2", "unregistered", "disconnected"}
        /\ \E l \in {"unregister", "unregister2", "unregistered", "disconnected", "idle"} : Go(p, l)
    BY Zenon, <1>3 DEF DisconnectLock, DisconnectCalls, DisconnectStopped, Ends, At
  <2>3. PICK l : l # "dropped" /\ Go(p, l)
    BY <2>2
  <2>4. pc[p] \notin {"tried", "dropped", "lock", "join", "block2", "over"}
    BY <2>2
  <2> QED
    BY Zenon, <1>1, <2>1, <2>3, <2>4
<1>4. CASE ConfigureLock(p) \/ ConfigureSend(p) \/ ConfigureSent(p)
  <2>1. /\ UNCHANGED after /\ (UNCHANGED step \/ \E s : Enter(p, s))
        /\ UNCHANGED result \/ \E r : result' = [result EXCEPT ![p] = r]
    BY Zenon, <1>0, <1>2, <1>4, CallTurn DEF ConfigureLock, ConfigureSend, ConfigureSent, confKeeps
  <2>2. /\ pc[p] \in {"configure", "send", "sent"}
        /\ \E l \in {"send", "sent", "configured", "refused"} : Go(p, l)
    BY Zenon, <1>4 DEF ConfigureLock, ConfigureSend, ConfigureSent, At
  <2>3. PICK l : l # "dropped" /\ Go(p, l)
    BY <2>2
  <2>4. pc[p] \notin {"tried", "dropped", "lock", "join", "block2", "over"}
    BY <2>2
  <2> QED
    BY Zenon, <1>1, <2>1, <2>3, <2>4
<1>5. CASE CallConnect(p) \/ CallDisconnect(p) \/ CallOperation(p) \/ CallConfigure(p) \/ Configured(p)
  <2>1. /\ UNCHANGED after \/ \E a : after' = [after EXCEPT ![p] = a]
        /\ UNCHANGED clientVars
    BY Zenon, <1>5 DEF CallConnect, CallDisconnect, CallOperation, CallConfigure, Configured, Begin, BeginConnect
  <2>2. /\ pc[p] \in {"idle", "configured", "refused"}
        /\ \E l \in {"lock", "disconnect", "block1", "configure", "idle"} : Go(p, l)
    BY Zenon, <1>5 DEF CallConnect, CallDisconnect, CallOperation, CallConfigure, Configured, Begin, BeginConnect, At
  <2>3. PICK l : l # "dropped" /\ Go(p, l)
    BY <2>2
  <2>4. pc[p] \notin {"tried", "dropped", "lock", "join", "block2", "over"}
    BY <2>2
  <2> QED
    BY Zenon, <1>1, <1>2, <2>1, <2>3, <2>4
<1>6. CASE SyncMove(p)
  <2>1. UNCHANGED <<after, clientVars>> /\ pc[p] \in SyncPlaces /\ \E l \in SyncPlaces : Go(p, l)
    BY Zenon, <1>6 DEF SyncMove
  <2>2. PICK l : l # "dropped" /\ Go(p, l)
    BY SMTT(40), <2>1 DEF SyncPlaces
  <2>3. pc[p] \notin {"tried", "dropped", "lock", "join", "block2", "over"}
    BY SMTT(40), <2>1 DEF SyncPlaces
  <2> QED
    BY Zenon, <1>1, <1>2, <2>1, <2>2, <2>3
<1> QED
    BY Zenon, <1>3, <1>4, <1>5, <1>6

(* Every step of the repository keeps the invariant. *)
LEMMA PerformedStep ==
    LocksInv /\ ClientInv /\ Performed /\ [ClientNext]_clientVars /\ [RepoNext]_repoAll => Performed'
<1> SUFFICES ASSUME LocksInv, ClientInv, Performed, Onward, [RepoNext]_repoAll PROVE Performed'
    BY Zenon, ClientOnward
<1>1. ASSUME UNCHANGED <<pc, after, performed, step, result>> PROVE Performed'
  <2>1. Turn("obituary") /\ "obituary" \notin Callers
    BY Zenon, <1>1 DEF Turn, Performed, Callers
  <2> QED
    BY Zenon, <1>1, <2>1, ElsewhereKeeps
<1>2. CASE Surroundings
  <2>1. CASE (DaemonDies \/ DaemonStarts) /\ UNCHANGED repoVars
    BY Zenon, <1>1, <2>1 DEF DaemonDies, DaemonStarts, repoVars
  <2> QED
    BY Zenon, <1>2, <2>1, ConnectPerforms DEF Surroundings
<1>3. CASE Collector \/ UNCHANGED repoAll
    BY Zenon, <1>1, <1>3 DEF Collector, Collect, HandleBinderState, repoAll, repoVars, clientVars
<1>4. ASSUME NEW p \in Procs, Progress(p) PROVE Performed'
  <2>1. CASE InClient(p)
    BY Zenon, <2>1, ClientPerforms DEF InClient
  <2>2. CASE p \in Jobs /\ JobStep(p)
    BY Zenon, <2>2, JobPerforms
  <2>3. CASE p \in Callers /\ CallerStep(p)
    <3>1. DisconnectLock(p) \/ DisconnectCalls(p) \/ DisconnectStopped(p) => UNCHANGED performed
      BY Zenon DEF DisconnectLock, DisconnectCalls, DisconnectStopped
    <3>2. ConfigureLock(p) \/ ConfigureSend(p) \/ ConfigureSent(p) => UNCHANGED performed
      BY Zenon DEF ConfigureLock, ConfigureSend, ConfigureSent, confKeeps
    <3> QED
      BY Zenon, <2>3, <3>1, <3>2, ConnectPerforms, BlockPerforms, TriedPerforms, OthersPerform DEF CallerStep
  <2> QED
    BY Zenon, <1>4, <2>1, <2>2, <2>3 DEF Progress
<1>5. ASSUME NEW p \in Callers,
             CallConnect(p) \/ CallDisconnect(p) \/ CallOperation(p) \/ CallConfigure(p) \/ Configured(p)
      PROVE  Performed'
  <2>1. UNCHANGED performed
    BY Zenon, <1>5 DEF CallConnect, CallDisconnect, CallOperation, CallConfigure, Configured, Begin
  <2> QED
    BY Zenon, <1>5, <2>1, OthersPerform
<1> QED
    BY Zenon, <1>2, <1>3, <1>4, <1>5 DEF RepoNext

(* Nothing was performed in the beginning. *)
LEMMA PerformedInit == RepoInit => Performed
<1> SUFFICES ASSUME RepoInit PROVE Performed
    OBVIOUS
<1>1. performed = {} /\ pc = [q \in Procs |-> "idle"] /\ result = [q \in Procs |-> None]
    BY Zenon DEF RepoInit, ClientInit
<1>2. result = [q \in Procs |-> result[q]]
    BY <1>1
<1>3. \A q \in Callers : pc[q] # "dropped"
    BY <1>1 DEF Callers
<1> QED
    BY Zenon, <1>1, <1>2, <1>3 DEF Performed, PerformedOnce

(* No daemon performs an operation of a caller twice: executeWithReconnect tries again only
   after a death it has met, and the binder of the dead daemon is not used again, whatever
   the other callers, the jobs and the death notices do to the connection in between. *)
THEOREM RepoPerformsOnce == RepoSpec => []PerformedOnce
<1>1. RepoInit => Performed
    BY PerformedInit
<1>2. LocksInv /\ ClientInv /\ RepoInv /\ SessionType /\ Performed /\ [RepoNext]_repoAll => Performed'
    BY Zenon, PerformedStep, RepoUsesClient
<1>3. Performed => PerformedOnce
    BY Zenon DEF Performed
<1> QED
    BY <1>1, <1>2, <1>3, LocksInvariant, RepoInvariant, PTL DEF RepoSpec

(* So it is in the whole application, with the synchronizer's coroutines and their retries
   among the callers. *)
THEOREM ApplicationPerformsOnce == ASSUME OwnCoroutines PROVE Spec => []PerformedOnce
<1>1. Init => AppInv /\ Performed
    BY Zenon, AllInvInit, LocksInit, PerformedInit DEF Init, AppInv
<1>2. AppInv /\ Performed /\ [Next]_vars => (AppInv /\ Performed)'
  <2> SUFFICES ASSUME AppInv, Performed, [Next]_vars PROVE Performed'
    BY Zenon, AppInvStep
  <2>1. RepoInv /\ ClientInv /\ SessionType /\ LocksInv
    BY Zenon DEF AppInv
  <2>2. CASE [RepoNext]_repoAll
    BY Zenon, <2>1, <2>2, RepoUsesClient, PerformedStep
  <2>3. ASSUME NEW p \in Callers, SyncMove(p) PROVE Performed'
    <3>1. UNCHANGED <<clientVars, performed>>
      BY Zenon, <2>3 DEF SyncMove
    <3>2. Onward
      BY Zenon, <2>1, <3>1, ClientOnward
    <3> QED
      BY Zenon, <2>1, <2>3, <3>1, <3>2, OthersPerform
  <2> QED
    BY Zenon, <2>2, <2>3, ApplicationSteps
<1>3. Performed => PerformedOnce
    BY Zenon DEF Performed
<1> QED
    BY <1>1, <1>2, <1>3, PTL DEF Spec
=============================================================================
