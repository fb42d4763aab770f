# Futon: TLA+ models and proofs

This directory holds a verification development for Futon: for its privileged native
daemon (`src/daemon`), and for the parts of the Android application (`src/app`) that talk
to the daemon or run a language model on the device. It models the parts whose correctness
depends on the order in which threads, coroutines, messages, timers, signals and process
deaths act, checks them with TLC on small instances, and proves the central results with
TLAPS for every value of the constants. `PROJECT.json` lists components, runs, mutants,
the correspondence of definitions to source lines, findings, hazards and theorems.

## The system and its parts

The daemon is one process. Eight Binder threads (`core/process_init.cpp`) serve the API of
`ipc/futon_daemon_impl.cpp`; beside them run the main thread (`core/main_loop.cpp`), the
pipeline thread (`pipeline_loop` in `main.cpp`), the watchdog's monitor thread
(`core/watchdog.cpp`), the authentication clean-up thread (`main.cpp`) and, on any of these
threads, signal handlers.

The application is a process of coroutines. Its Binder client finds the daemon, notices
its death and reconnects; the repository above it runs the connection sequence (start,
connect, authenticate, restore the configuration); the synchronizer above that keeps the
daemon's configuration equal to the user's settings. Apart from these, the local inference
engine runs a model through a bridge and a JNI layer into llama.cpp.

| Part | State | Operations | Hard behaviour | Modelled |
|---|---|---|---|---|
| Rate limiter | `attempts_` per uid | check, record, reset, clean-up | entries are reset lazily; check and record are separate | yes |
| Session manager | one `active_session_`, `pending_challenges_` | create, validate, refresh, invalidate, expire | six methods expire or refresh, each by its own rule | yes |
| Authentication | the two above, Binder threads | `getChallenge`, `authenticate`, `checkSession`, `check_authenticated` | every handler is several critical sections | partly |
| Daemon life cycle | `running_`, threads, main loop flag, vision pipeline | start, stop, capture, SIGTERM | joins under a lock, unsynchronised flags, shut-down against late calls | partly |
| Crypto channel | two double ratchets, two stream ciphers | encrypt, decrypt, rotate | lost, repeated, reordered messages | yes |
| Binder client (app) | binder, connection state, death notices | connect, disconnect, execute, reconnect | the daemon dies at any step | yes |
| Daemon repository (app) | state, connection job, remembered configuration | connect, disconnect, configure, operations | cancelled jobs, three mutexes | partly |
| Configuration synchronizer (app) | sync state, settings | two observers, `forceSync`, `setDebugStreamEnabled`, retries | several sources of one configuration | partly |
| Local inference (app) | engine, bridge, native table | load, infer, unload, background unload | cancellation, pointers used outside the native lock | partly |
| Everything else | see *Not modelled* | | | no |

## Modules

| Module | Models |
|---|---|
| `RateLimiter` | `core/auth/rate_limiter.cpp`. Every method runs under `mutex_`, so each is one action; a return value is a parameter. |
| `RateLimiterPolicy` | The limiter beside the history of recorded failures, on which the intended policy is stated. |
| `SessionManager` | `core/auth/session_manager.cpp`, one action per method. |
| `SessionLease` | What the session manager promises: an exclusive lease with a timeout. |
| `AuthManager` | `core/auth/auth_manager.cpp` and its callers in `ipc/futon_daemon_impl.cpp`: Binder threads over instances of `SessionManager` and `RateLimiter`. |
| `DaemonLifecycle` | Start, stop, on-demand start, frame acquisition, pipeline and monitor threads, signals, shut-down. |
| `DoubleRatchet` | `core/crypto/double_ratchet.cpp`: what each method does to a `RatchetState`, as operators. |
| `DualChannel` | `core/crypto/stream_cipher.cpp`: two ends, each a ratchet and a stream cipher, over an unreliable network. |
| `DaemonBinderClient` | `DaemonBinderClient.kt` and the daemon's process as the client sees it. |
| `DaemonRepository` | `DaemonRepositoryImpl.kt`, extending the client: their composition. |
| `ConfigSync` | `ConfigurationSynchronizer.kt`, extending the repository: the whole connection. |
| `LocalInference` | `LocalInferenceEngineImpl.kt`, `LlamaCppBridge.kt` and `llama_jni.cpp`. |
| `MC...` | Instances for TLC. |
| `...Proofs` | Theorems and proofs; each extends the module it is about. |

### How state and actions correspond to the code

*Rate limiter.* `attempts_` maps a uid to an entry or to `None`; `first_failure_ms` is
written and never read, so it is left out. `check_allowed(uid, allowed)` has the reply as
a parameter; `Allowed`, `RetryAfter` and `AfterCheck` are the parts of the reply and of
the update. In `RateLimiterPolicy` each method also updates the history variables `run`,
`last_failure` and `retry_at`, which the code does not have.

*Session manager.* `active_session_` and the values of `pending_challenges_` are records
or `None`. A challenge is a number never used before; its encryption in memory succeeds or
fails as a whole. `create_session` has three disjuncts as the code has three outcomes; the
one for the caller's own instance refreshes the session without a look at its expiry.

*Authentication.* `thread[t]` holds the program counter and the locals of the handler.
Each step between two locks is one action, and the clock and other threads run between any
two. Which keys are loaded, the caller verifier's verdict and the device fingerprint are
choices of the environment. `authenticate` is called with a signature over the challenge
the client received last or with one that verifies against nothing; the client is
asynchronous, so `received` may be older than the pending challenge. An instance id is a
random UUID of one installation, hence it determines its uid. The configuration modelled
is the one `main.cpp` sets: authentication and rate limiting are on.

*Life cycle.* `start_pipeline` and `stop_pipeline` run under `pipeline_callback_mutex_` on
Binder threads; `stop_pipeline` also runs on main, without it. Tests, stores, thread
assignments and joins are separate steps. Assigning to a joinable `std::thread`, a second
join of the same thread, destroying a joinable thread and dereferencing a component that
main has dropped end the process (`crashed`). A wait on the condition variable is the
evaluation of the predicate followed by blocking; the notification, which takes no mutex,
wakes main only when it has blocked. Spurious wake-ups happen. The watchdog's heartbeat is
left out: its recovery callback only logs. `capture` stands for `getScreenshot`,
`getScreenshotBytes` and `requestPerception`, which start the pipeline alike.

*Crypto channel.* Cryptography is symbolic: a key pair is a number, a DH output the pair
of two numbers, a root key the sequence of DH outputs mixed into it, a chain key its root
and a position, a message key a position of a chain. A ciphertext opens under the key that
sealed it and no other, and agreement on a secret never fails: the branch of
`force_ratchet_step` for an empty DH output, which leaves a new key pair beside old chains,
is not modelled, nor is `dh_ratchet` with one, which the code does not test for. Every method of `DualChannelCrypto` holds its mutex, so each is one
action; `RotateAndEncryptData` is `encrypt_data` when the age or volume of the key calls
for a rotation. `network` keeps whatever was sent, and a delivery may be repeated, late or
never: an arriving ciphertext is always one the peer has sealed. `accepted`, `replayed` and
`disturbances` are history variables on which the properties are stated.

*Binder client.* `step[p]` is where coroutine `p` is inside a method of the client, and
`mutex` is held over several steps, as `withLock` holds it. Each start of the daemon's
process is a new incarnation that knows neither session nor configuration. `links` counts
registrations of the death recipient, `obituaries` the notices whose coroutine still waits
for the mutex. Which calls fail and when the daemon dies is a choice; `MaxFaults` bounds
both together. The daemon's side is
external; what it does with a call is modelled as far as the application depends on it.

*Repository.* `pc[p]` is where a coroutine is outside the client. A connection job is a
coroutine of its own that `connect` launches and awaits under `connectionMutex`; a newer
`connect` cancels the older job, which stops at its next suspension point. `Starting` is
merged with `Connecting`, since nothing distinguishes them but the display; the second look
for another session's owner is part of the branch for the conflict; status and
reconciliation progress only feed the display. `disconnect` has no caller in the
application and is modelled as an operation of the interface. A configuration stands for
settings and hot-path rules, which are sent and restored alike. Any caller may call any
operation whatever the others are doing, and the scope of any caller may end while it waits
in `connect`. `performed` is a history variable: the daemon and the try of each operation
under way, entered when the call was answered, timed out, died or was lost, for in all these
cases the daemon may have done what it was asked to.

*Synchronizer.* Coroutine `settings` is the observer of the settings, `observer` that of
the repository's state. All other callers (`Users`) may also call `forceSync` and
`setDebugStreamEnabled`; the check that is launched at once when the observation begins does
what a call of `forceSync` does, and `setDebugStreamEnabled`, which has no caller today, is
modelled as an operation of the interface. `attempt` is the counter of `sendConfigWithRetry`. `stop` and
`close`, which end the observers and which nothing calls, are not modelled.

*Local inference.* Engine and bridge have a mutex each, and the engine holds its own while
it takes the bridge's. The native layer looks a pointer up under its mutex and works on it
after releasing it: `using[p]` is the context a native call works on. A cancelled coroutine
gives up at the next suspension point (`Suspended`); a native call is never cut short, and
the time-out around an inference is noticed when the call returns. `onAppBackground`,
`onAppForeground` and `unloadModel` have no caller in the application today and are
modelled as operations of the interface; loading and inference are reached through
`InferenceRouterImpl` and `SourceAvailabilityTracker`. An analysis with neither screenshot
nor context returns at once and changes nothing.

## Runs

Passing runs; each also checks the type invariant of its module:

| Run | Properties | What it shows |
|---|---|---|
| `rate_limiter` | `EntriesMatchHistory`, `NeverMoreLenient`, `DenialEnds` | The lazily reset entries stay in step with the history; no check lets a blocked uid through; polling never postpones the end of a denial past the reset window. |
| `session_manager` | `ImplementsLease` | The methods in any order implement the exclusive lease. |
| `auth_manager` | `AdmittedOwnsSession`, `ExclusiveAdmission`, `FailuresBounded`, `LiveSessionKept` | Admission in several critical sections is still sound until a timeout has passed; two installations are never admitted together; concurrent failures overshoot the maximum by at most one per further thread; no step of a handler or of the clean-up takes a live session from its owner or moves its last activity back. |
| `daemon_lifecycle` | `LoopFrameSafe`, `NoWorkAfterShutdown`, `JoinedIsLeaving`, `LockIsReleased` | The pipeline thread never works on a vision pipeline that is torn down, although main stops it without the lock; a start after the shut-down begins no work; whoever joins the pipeline thread is alone in doing so, and the thread has been told to leave; a Binder thread that joins other threads under the lock gets to release it. |
| `crypto_channel` | `AcceptedOnce`, `FirstDeliveryAccepted`, `KeysUsedOnce`, `RootsInStep` | No control message is decrypted twice, although the replay records are dropped with every ratchet step; none that arrives is lost while at most `MAX_SKIP` keys are outstanding; no two are sealed under one key, forced rotations and failed seals included; the two roots stay one step apart. |
| `app_connection` | `DeathIsNoticed`, `OneSequence`, `WaitsInOrder`, `NobodyStuck`, `CallsAreFinite`, `ConnectingMeansWork`, `PerformedOnce` | A dead binder is always about to be dropped; at most one connection sequence is at work; the three mutexes and an awaited job are waited for in one order, and only behind coroutines still at work; hence somebody always waits for nobody; every step brings its call closer to the end; a connection in progress is shown only while there is one; no daemon performs an operation twice, although `executeWithReconnect` repeats it. |
| `local_model` | `NativeSafe`, `OneModel`, `RecordedModel`, `InferringMeansWork`, `HolderGoesOn`, `CallsEnd` | No native call works on a freed context; no model leaks; the engine knows which model is in memory; whoever holds the engine's mutex never waits for the bridge's; every call and every job ends. |

`RecordedModel` has one exception, which is a fact about the code: a load that succeeds in
a coroutine cancelled meanwhile leaves a model in memory that the engine has not recorded
(`withContext` in `LlamaCppBridge` throws on its way back), and `ensureModelLoaded`, finding
the bridge loaded, does not load again. The history variable `interrupted` marks this case.

Runs that show where the code does not do what a comment or document says (the quotation
is with the finding in `PROJECT.json`):

| Run | Property | What happens |
|---|---|---|
| `auth_single_use` | `ChallengeSingleUse` | Two concurrent `authenticate` calls read one challenge before either consumes it. |
| `daemon_autostart` | `StartFindsNoThread` | A capture starts the pipeline without setting `running_`; the next `startHotPath` assigns to the joinable `g_pipeline_thread`. |
| `daemon_shutdown` | `ShutdownEnds` | Main joins a monitor thread that a Binder call restarted between main's store and join. |
| `crypto_rotation` | `RotationKeepsChannel` | A forced rotation derives one new root at one end; the peer derives two from the next message and cannot read it. |
| `config_sync` | `SyncedMeansSynced` | `forceSync` reads the settings and suspends; the user changes them and the observer sends the new ones; then `forceSync` sends what it read. The synchronizer rests at `Synced` while the daemon runs with older settings. No fault, no restored configuration and no retry is needed, and in this run none happens. |

The modules state six further properties that TLC refutes and for which no run is kept:
`RetryAfterHonoured` (a uid at its maximum that waits as told is denied by the check it
makes then), `EglSerialized` (`VisionPipeline::shutdown` does not take `egl_mutex_`),
`StatusTruthful` (`running_` is stored after the lock is released), `GracefulShutdown` (a
signal handled before `MainLoop::run` stores `running_` is overwritten), `DataReadable`
(each end derives the data key from its own sending chain, so the ends never share one) and
`RememberedRuns` (the daemon does not always run with the configuration the repository
remembers: the restoring of one by a connection job, which does not take `configMutex`,
overtakes a newer `configure`, and a `configure` that times out is performed and not
remembered; four calls without a fault, or three calls with one, suffice).
Each becomes a run with a cfg that names it.

`src/SECURITY.md` also gives a lock-out after each of the first failures; the code locks
out from the `max_failures`-th on (`rate_limiter.cpp:124`), and the model follows the code.

### Bounds and why they are enough

* `MaxTime`: in the runs of the limiter and of the session manager the clock advances past
  every timeout of the instance, so each deadline is met before, at and after it. In
  `auth_manager` the session times out after one tick, which lets every step of a handler
  fall on either side of the expiry; the challenge timeout and the limiter's reset window
  are not reached there, and what they do to the composition is left to the theorems, which
  hold for every value of them.
* `MaxFailedCount`, `MaxChallenges`: enough to reach the maximum of failures and one more,
  and to have a challenge replaced while it is in use.
* Two threads and two uids: each property of the authentication is about a pair of callers.
* Life cycle: two API calls, on two Binder threads or one after the other, and one signal:
  each pair of start, stop and capture overlaps, and main shuts down behind the back of
  either. The safety properties are proved for any number of calls.
* Crypto channel: `MAX_SKIP` is 2 (1000 in the code), so that four messages and five
  deliveries fill the store and overflow it; five key pairs allow three ratchet steps, and
  with them the return of a message from two chains ago. One chunk suffices, since
  `decrypt_data` changes nothing.
* Application: two callers, alike, with two calls between them; one fault at any step, which
  is a death of the daemon or a failing call; one reconnection attempt; room for two living
  connection jobs (a cancelled one and its successor). A third living job would have to wait
  for a slot, which the code does not. All properties of the run are proved for any number of
  callers, faults, attempts, jobs and calls. `config_sync` needs neither death nor failure:
  one user, one call, one change of the settings and two attempts.
* Local inference: two callers, one background job, two models, three calls: a load, a use
  and an unload overlap in every way, each cancelled anywhere.
* Symmetry is used in the limiter, authentication and `app_connection` runs only, where all
  checked properties are invariants or properties of single steps.

Deadlock is checked for limiter, session, authentication and local inference. It is off
where the system stops once its bounds are spent (crypto channel) or really ends (life
cycle), and for the application's connection, which may rest with its calls spent; there
`NobodyStuck` excludes that everyone at work waits for somebody else.

### Fairness

* `DaemonLifecycle`: weak fairness of each Binder thread, main, the pipeline thread, the
  monitor thread and a started signal handler: a thread that can run does run. New calls,
  signals and spurious wake-ups are not fair, and no order of granting mutexes is assumed:
  the bound on calls means that a waiting thread is overtaken finitely often.
  `LockIsReleased` claims nothing once the shut-down has begun, which `daemon_shutdown` is
  about.
* `LocalInference`: weak fairness of each coroutine and job: one that can go on does, and a
  native call returns. Calls, cancellations and the choice of a model are not fair.
* `DaemonRepository` and `ConfigSync` assume none. That calls end is split into parts that
  need no fairness: as long as somebody is at work, somebody who is waits for nobody
  (`NobodyStuck`), and every step brings the coroutine that takes it closer to its end
  (`CallsAreFinite`). So if finitely many calls are made and the daemon dies finitely often,
  they all come to an end under any scheduler that runs somebody who can run.

## Proofs

All theorems hold for every value of the constants allowed by the named assumptions:
positive limiter parameters, natural timeouts and bounds, `None` different from every proper
value, a finite set of threads for `FailuresBounded`.

* **Rate limiter** (`RateLimiterProofs`). `EntriesMatchHistory` is inductive with the type
  invariant: an entry that counts nothing belongs to a uid without recent failures; any
  other remembers the last failure and counts at least the current run. `NeverMoreLenient`
  and `DenialEnds` are not inductive, since neither says what a lazily reset entry stands
  for; both follow from it.
* **Session manager** (`SessionManagerProofs`). Type correctness, with no activity in the
  future, gives the step simulation: each method maps to `Acquire`, `Renew`, `Release` or a
  stutter of the lease and each tick to `Age` or a stutter. Removing an expired session is
  a stutter, because the refinement mapping counts live sessions only; refreshing an expired
  session of the same instance is an `Acquire` by its recorded owner.
* **Authentication** (`AuthManagerProofs`). The inductive invariant `Inv` has the types of
  threads, session, challenges and entries, that the session and each thread's instance id
  belong to their uid, that what a thread saw is not in the future, and
  `AdmittedOwnsSession`. The lemmas classify what a step does to the session (refresh,
  replace when expired, drop when expired) and to a thread (stay, leave, be admitted), and
  one argument serves all actions. `ExclusiveAdmission` follows from `Inv`. The same
  classification, with who may refresh and that the clock only advances (`NextEffect`,
  `ClockEffect`), gives `LiveSessionKept` and carries the lease over to the composition:
  with any number of threads the daemon still implements `SessionLease`
  (`DaemonImplementsLease`).
* **Concurrent failures** (`AuthManagerProofs`). The bound counts recorded failures and
  attempts in flight together: an allowed check finds fewer than `max_failures` recorded
  and at most all other threads in flight, recording moves one from one side to the other,
  and everything else only lowers the sum.
* **Life cycle** (`DaemonLifecycleProofs`). `LoopFrameSafe` is not inductive, since it does
  not say why nobody restarts the pipeline thread between the join and the tear-down. `Inv`
  adds that a Binder thread inside start or stop holds the lock (`Locked`), that after its
  join the thread is gone (`CallerStopped`), that a handle is joinable exactly while its
  thread exists (part of `TypeOK`), and
  that main stops the pipeline only once the shut-down was requested, after which a new
  pipeline thread leaves at its first test (`NoWorkAfterShutdown`). `JoinedIsLeaving` needs
  one conjunct more, `Joining`: a joinable handle belongs to a thread, a Binder thread that
  joins has cleared the flag and by its lock keeps others from setting it, and there is one
  joiner. It is the part of `LockIsReleased` that is not about fairness.
* **Client and repository** (`DaemonRepositoryProofs`). `ClientInv`: a binder in use is the
  living daemon's and linked to its death, or a dead one's with a notice pending. That is
  proved for the client with arbitrary users; a step simulation then shows that the
  repository is such a user (`RepoUsesClientSpec`), which carries the result over.
  `OneSequence` and `ConnectingMeansWork` follow from `RepoInv`: every job at work but the
  latest is cancelled, and an intermediate state is shown only while some job has begun.
  `LocksInv` says which steps hold which of the three mutexes, that a mutex is held by a
  coroutine at one of these steps, and that a caller of `connect` awaits a job while it
  holds `connectionMutex`. `RepoTypeOK` follows, and `WaitsInOrder`: each wait is for
  somebody of a lower `Level`, who is still at work. A circle of waiting would have to
  descend for ever, so there is none, for any number of jobs and callers. `NobodyStuck`
  follows by descending: whoever waits leads to somebody lower who is at work, down to one
  that waits for nobody.
* **Calls are finite** (`DaemonRepositoryProofs`). The measure is a pair: the places a
  coroutine has before it outside the client (`PlacesLeft`) and the steps it has before it
  inside (`StepsLeft`), the second counting four steps for each attempt to reconnect that is
  left. `StepsShrink` needs that only the holder of the client's mutex counts attempts
  (`Locked`) and that an attempt begins below the maximum (`Attempting`). Outside, each
  action is shown to move its coroutine down and to leave all others in place (`Moves`); a
  retry in `executeWithReconnect` goes back to the mutex, but with the second try as its
  destination, which `Detour` accounts for. That a launched job is not still inside the
  client is the invariant `Entered`.
* **Operations are performed once** (`DaemonRepositoryProofs`). `PerformedOnce` compares the
  two tries of an operation, between which the connection is dropped, made again by any
  caller and dropped again, so it does not say why the second try meets another daemon.
  `Performed` does: as soon as the caller has met the death of the first try's daemon
  (`Gone`), that daemon is not the living one and, since incarnations only grow (`Onward`),
  never will be again; once the caller has disconnected (`Dropped`), its binder is not the one
  in use either, because a binder is taken only from the living daemon.
* **The whole application** (`DaemonRepositoryProofs`, which extends `ConfigSync`). Each step
  of the application is one of the repository or moves a coroutine of the synchronizer
  between places where it holds no mutex (`SyncMove`), and such moves keep all invariants:
  `ApplicationSafe` and `ApplicationPerformsOnce`. Their hypothesis is that the synchronizer's coroutines are callers, not
  connection jobs. `SyncedMeansSynced` is of course not among the conclusions.
  `ApplicationCallsAreFinite` puts the attempts left in `sendConfigWithRetry` before the
  other two parts of the measure.
* **Local inference** (`LocalInferenceProofs`). `Inv` says where each mutex is held, that
  table and handle agree but for the moment between freeing and forgetting, that a native
  call under way belongs to a coroutine that holds the engine's mutex, and which model a
  load is about to record. All four safety properties follow; the point is that the query
  of the memory use, which takes no bridge mutex, is still under the engine's. The converse
  of the first conjunct (`Holders`: a mutex is held only where it has to be) gives
  `HolderGoesOn`, the part of `CallsEnd` that is not about fairness.
* **Crypto channel** (`RatchetProofs` has the lemmas about the methods of a single ratchet,
  `DualChannelProofs` the invariants of the two ends and the theorems). `AcceptedOnce` holds
  without the replay records: a key that has opened a message is *spent*, it lies behind the
  receiving chain and is not in the store, and no method brings a spent key back (`Keeps`),
  because a new chain starts from a longer root and only keys not yet passed enter the
  store. `RootsInStep` follows from `Roots`: one end is ahead, the other takes the missing
  step with the first message under its peer's present key, and no other message makes an
  end step.
* **Delivery and keys** (`DualChannelProofs`). `FirstDeliveryAccepted` says that a message on
  the network can be opened, so the invariant `Delivery` has to say where its key is. For
  each direction `Link` states how the sender numbers its messages, what the receiver's
  chains have passed, and that every message passed but not accepted has its key in the
  store (`NothingLost`); `InTouch` states that one end has followed the other to its present
  key pair, and the other has yet to take the step that follows. A delivery either
  takes a key from the store, moves along the present chain or turns the ratchet; in each
  case the keys skipped are those of the messages passed (`Arrivals`). All of it is relative
  to `Inv` and `Roots`, and it is claimed only as long as nothing but loss, delay and
  reordering has happened and the store has room. That the search of the store returns the
  first fitting entry is a hypothesis of the lemmas (`SearchFinds`), proved once before the
  theorems (`SearchAlwaysFinds`).
* `KeysUsedOnce` (same module) has no such condition. Two messages of one chain differ in
  their position (`Sealed`); two chains differ in their root, because the last DH output
  of a root has the key pair drawn for the chain as its newer member (`Sealing`), and a key
  pair belongs to one end (`Pairs`).

Only model-checked: `LockIsReleased` and `CallsEnd` (liveness, which the prover does not
reach; their safety parts are `JoinedIsLeaving` and `HolderGoesOn`), and all runs that show a
violation.
Every other property of a passing run is also a theorem.

## Not modelled

Most of the repository's source lines are out of the reach of this method.
The vendored llama.cpp alone is about three quarters; then come the LiteRT headers, image
processing, OCR and the user interface. These compute or display; they have no protocol
whose interleavings could be explored, and an abstraction of them would be a free choice.
The models therefore concentrate on the few thousand lines that coordinate. Of these:

* Image processing, OCR and inference proper; ELF symbol loading; calls into EGL and
  SurfaceFlinger, whose success is a choice in `DaemonLifecycle`.
* Caller verification and the other readers of `/proc` and device files: their verdict is a
  choice in `AuthManager`.
* Key whitelist and attestation. At run time the table is reloaded, a key is marked used,
  and the outcome of an attestation changes an entry; adding and removing keys have no
  caller. `AuthManager` lets a signature verify or not at every call, which covers any order
  of these changes but says nothing about the files.
* Hot-path router: rules are loaded, but nothing calls `evaluate`, so it never acts.
* Input injection: the device holds the state; the injector has only an event buffer.
* Binder callbacks and tracked buffers: lists under one mutex each.
* Debug stream, audit log, seccomp and process set-up.
* The application's own crypto channel: `SecureChannel` has no caller, so the two
  implementations never meet.
* LAN gateway: start, stop and rebinding of the server are concurrent and worth a model; its
  behaviour is mostly that of Ktor and of Android's network callbacks.
* Model downloads, the automation loop, remote AI clients, settings, history and the user
  interface. Where modelled parts depend on them, they are choices (`FindModel`, `JobStart`)
  or callers.
