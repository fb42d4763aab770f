--------------------------- MODULE DaemonLifecycle ---------------------------
(***************************************************************************)
(* Start, stop and shut-down of the daemon: Binder threads running         *)
(* startHotPath, stopAutomation and the capture calls that start the       *)
(* pipeline on demand (daemon/ipc/futon_daemon_impl.cpp), the main thread  *)
(* with its signal handler (daemon/core/main_loop.cpp), the pipeline       *)
(* thread (daemon/main.cpp) and the watchdog's monitor thread              *)
(* (daemon/core/watchdog.cpp).  start_pipeline and stop_pipeline run on    *)
(* any of them, so the steps of all share one program counter per process. *)
(* std::terminate, reached by assigning to or joining a std::thread that   *)
(* does not allow it, ends the process: crashed.                           *)
(***************************************************************************)
EXTENDS Naturals

CONSTANTS
    Callers,                    \* Binder threads
    Main, None,
    MaxCalls, MaxSignals        \* bounds: API calls and signals ever made

VARIABLES
    pc, op,                     \* next step of a process; the call a Binder thread serves
    running_,                   \* IFutonDaemonImpl::running_
    pipeline_callback_mutex_,   \* its owner
    initialized_,               \* VisionPipeline::initialized_
    g_pipeline_running, g_shutdown_requested,
    pipeline_joinable, loop,    \* g_pipeline_thread: the handle, and the thread's next step
    watchdog_running, monitor_joinable, monitor,
    main_running, handler,      \* MainLoop::running_, and the signal handler's next step
    released,                   \* cleanup_components dropped the global references
    crashed,
    calls, signals              \* how many were made

flags == <<running_, pipeline_callback_mutex_, initialized_>>
pipeline == <<g_pipeline_running, pipeline_joinable, loop>>
watchdog == <<watchdog_running, monitor_joinable, monitor>>
mainloop == <<g_shutdown_requested, main_running, handler, released, signals>>
vars == <<pc, op, flags, pipeline, watchdog, mainloop, crashed, calls>>

ASSUME LifecycleConstants ==
    /\ Main \notin Callers
    /\ None \notin Callers
    /\ MaxCalls \in Nat
    /\ MaxSignals \in Nat

Procs == Callers \cup {Main}

Init ==     \* the service is registered, main is about to enter MainLoop::run
    /\ pc = [p \in Procs |-> IF p = Main THEN "handlers" ELSE "idle"]
    /\ op = [c \in Callers |-> "none"]
    /\ running_ = FALSE
    /\ pipeline_callback_mutex_ = None
    /\ initialized_ = FALSE
    /\ g_pipeline_running = FALSE /\ g_shutdown_requested = FALSE
    /\ pipeline_joinable = FALSE /\ loop = "none"
    /\ watchdog_running = FALSE /\ monitor_joinable = FALSE /\ monitor = "none"
    /\ main_running = FALSE /\ handler = "none"
    /\ released = FALSE /\ crashed = FALSE
    /\ calls = 0 /\ signals = 0

Alive == ~ crashed /\ pc[Main] # "exited"

At(p, step) == Alive /\ pc[p] = step
Goto(p, step) == pc' = [pc EXCEPT ![p] = step]

Terminate == crashed' = TRUE /\ UNCHANGED <<pc, op, flags, pipeline, watchdog, mainloop, calls>>

-----------------------------------------------------------------------------
(* Binder calls.  capture is getScreenshot, getScreenshotBytes or
   requestPerception.  BOUND: MaxCalls. *)
Call(c, o) ==
    /\ At(c, "idle")
    /\ calls < MaxCalls
    /\ calls' = calls + 1
    /\ op' = [op EXCEPT ![c] = o]
    /\ Goto(c, "check")
    /\ UNCHANGED <<flags, pipeline, watchdog, mainloop, crashed>>

(* What the handler looks at before it takes the lock.  A capture call holds the
   vision pipeline by a weak pointer, which is empty once main has dropped it. *)
NothingToDo(o) ==
    CASE o = "start"   -> running_
      [] o = "stop"    -> ~ running_
      [] o = "capture" -> initialized_

Check(c) ==
    /\ At(c, "check")
    /\ Goto(c, IF op[c] = "capture" /\ released THEN "idle"
               ELSE IF ~ NothingToDo(op[c]) THEN "lock"
               ELSE IF op[c] = "capture" THEN "acquire" ELSE "idle")
    /\ UNCHANGED <<op, flags, pipeline, watchdog, mainloop, crashed, calls>>

Lock(c) ==
    /\ At(c, "lock")
    /\ pipeline_callback_mutex_ = None
    /\ pipeline_callback_mutex_' = c
    /\ Goto(c, IF op[c] = "stop" THEN "pipe_clear" ELSE "vision_init")
    /\ UNCHANGED <<op, running_, initialized_, pipeline, watchdog, mainloop, crashed, calls>>

(* After the lock is released: the handler publishes its result. *)
Publish(c) ==
    /\ At(c, "publish")
    /\ running_' = (op[c] = "start")
    /\ Goto(c, "idle")
    /\ UNCHANGED <<op, pipeline_callback_mutex_, initialized_, pipeline, watchdog, mainloop,
                   crashed, calls>>

(* VisionPipeline::acquire_frame for a capture call: initialized_ is read before
   egl_mutex_ is taken; the frame is done when the mutex is released. *)
EglFree == loop # "frame" /\ \A c \in Callers : pc[c] # "frame"

Acquire(c) ==
    /\ At(c, "acquire")
    /\ Goto(c, IF initialized_ THEN "egl" ELSE "idle")
    /\ UNCHANGED <<op, flags, pipeline, watchdog, mainloop, crashed, calls>>

EglLock(c) ==
    /\ At(c, "egl")
    /\ EglFree
    /\ Goto(c, "frame")
    /\ UNCHANGED <<op, flags, pipeline, watchdog, mainloop, crashed, calls>>

FrameDone(c) ==
    /\ At(c, "frame")
    /\ Goto(c, "idle")
    /\ UNCHANGED <<op, flags, pipeline, watchdog, mainloop, crashed, calls>>

-----------------------------------------------------------------------------
(* start_pipeline, under the lock. *)

(* A null g_vision_pipeline is dereferenced once main has dropped it. *)
VisionInit(c) ==
    /\ At(c, "vision_init")
    /\ IF released THEN Terminate
       ELSE /\ Goto(c, IF initialized_ THEN "wd_start" ELSE "vision_build")
            /\ UNCHANGED <<op, flags, pipeline, watchdog, mainloop, crashed, calls>>

(* All modes may fail: initialize tears down what it built and start returns false. *)
VisionBuild(c) ==
    /\ At(c, "vision_build")
    /\ \/ /\ initialized_' = TRUE
          /\ Goto(c, "wd_start")
          /\ UNCHANGED pipeline_callback_mutex_
       \/ /\ pipeline_callback_mutex_' = None
          /\ Goto(c, "idle")
          /\ UNCHANGED initialized_
    /\ UNCHANGED <<op, running_, pipeline, watchdog, mainloop, crashed, calls>>

PipeFlag(c) ==
    /\ At(c, "pipe_flag")
    /\ g_pipeline_running' = TRUE
    /\ Goto(c, "pipe_spawn")
    /\ UNCHANGED <<op, flags, pipeline_joinable, loop, watchdog, mainloop, crashed, calls>>

(* g_pipeline_thread = std::thread(pipeline_loop); the lock is released. *)
PipeSpawn(c) ==
    /\ At(c, "pipe_spawn")
    /\ IF pipeline_joinable THEN Terminate
       ELSE /\ pipeline_joinable' = TRUE
            /\ loop' = "test"
            /\ pipeline_callback_mutex_' = None
            /\ Goto(c, IF op[c] = "start" THEN "publish" ELSE "acquire")
            /\ UNCHANGED <<op, running_, initialized_, g_pipeline_running, watchdog, mainloop,
                           crashed, calls>>

-----------------------------------------------------------------------------
(* stop_pipeline: under the lock on a Binder thread, without it on main. *)

(* MUTANT of PipeClear: the pipeline thread is not told to stop. *)
PipeClearForgotten(p) ==
    /\ At(p, "pipe_clear")
    /\ Goto(p, "pipe_join")
    /\ UNCHANGED <<op, flags, pipeline, watchdog, mainloop, crashed, calls>>

PipeClear(p) ==
    /\ At(p, "pipe_clear")
    /\ g_pipeline_running' = FALSE
    /\ Goto(p, "pipe_join")
    /\ UNCHANGED <<op, flags, pipeline_joinable, loop, watchdog, mainloop, crashed, calls>>

(* MUTANT of PipeJoin: the tear-down does not wait for the thread. *)
PipeJoinSkipped(p) ==
    /\ At(p, "pipe_join")
    /\ Goto(p, "wd_stop")
    /\ UNCHANGED <<op, flags, pipeline, watchdog, mainloop, crashed, calls>>

(* joinable() and the entry into join(); a second joiner gets EINVAL, thrown. *)
PipeJoin(p) ==
    /\ At(p, "pipe_join")
    /\ IF \E q \in Procs : pc[q] = "pipe_joining" THEN Terminate
       ELSE /\ Goto(p, IF pipeline_joinable THEN "pipe_joining" ELSE "wd_stop")
            /\ UNCHANGED <<op, flags, pipeline, watchdog, mainloop, crashed, calls>>

PipeJoined(p) ==
    /\ At(p, "pipe_joining")
    /\ loop = "done"
    /\ loop' = "none"
    /\ pipeline_joinable' = FALSE
    /\ Goto(p, "wd_stop")
    /\ UNCHANGED <<op, flags, g_pipeline_running, watchdog, mainloop, crashed, calls>>

(* VisionPipeline::shutdown returns at once when there is nothing to tear down;
   an initialisation that is under way has something, sooner or later. *)
VisionDown(p) ==
    /\ At(p, "vision_down")
    /\ \/ /\ p = Main \/ ~ released
          /\ initialized_ \/ \E c \in Callers : pc[c] = "vision_build"
          /\ Goto(p, "vision_close")
          /\ UNCHANGED flags
       \/ /\ ~ initialized_ \/ released
          /\ Goto(p, IF p = Main THEN "release" ELSE "publish")
          /\ pipeline_callback_mutex_' = IF p = Main THEN pipeline_callback_mutex_ ELSE None
          /\ UNCHANGED <<running_, initialized_>>
    /\ UNCHANGED <<op, pipeline, watchdog, mainloop, crashed, calls>>

VisionClose(p) ==
    /\ At(p, "vision_close")
    /\ initialized_' = FALSE
    /\ Goto(p, IF p = Main THEN "release" ELSE "publish")
    /\ pipeline_callback_mutex_' = IF p = Main THEN pipeline_callback_mutex_ ELSE None
    /\ UNCHANGED <<op, running_, pipeline, watchdog, mainloop, crashed, calls>>

-----------------------------------------------------------------------------
(* Watchdog::start and stop, on Binder threads and on main. *)

WdStart(p) ==
    /\ At(p, "wd_start")
    /\ IF p # Main /\ released THEN Terminate
       ELSE /\ Goto(p, IF ~ watchdog_running THEN "wd_flag"
                       ELSE IF p = Main THEN "wait" ELSE "pipe_flag")
            /\ UNCHANGED <<op, flags, pipeline, watchdog, mainloop, crashed, calls>>

WdFlag(p) ==
    /\ At(p, "wd_flag")
    /\ watchdog_running' = TRUE
    /\ Goto(p, "wd_spawn")
    /\ UNCHANGED <<op, flags, pipeline, monitor_joinable, monitor, mainloop, crashed, calls>>

(* MUTANT of WdSpawn: the monitor thread is detached, so nobody can join it. *)
WdSpawnDetached(p) ==
    /\ At(p, "wd_spawn")
    /\ monitor' = "test"
    /\ Goto(p, IF p = Main THEN "wait" ELSE "pipe_flag")
    /\ UNCHANGED <<op, flags, pipeline, watchdog_running, monitor_joinable, mainloop, crashed, calls>>

WdSpawn(p) ==
    /\ At(p, "wd_spawn")
    /\ IF monitor_joinable THEN Terminate
       ELSE /\ monitor_joinable' = TRUE
            /\ monitor' = "test"
            /\ Goto(p, IF p = Main THEN "wait" ELSE "pipe_flag")
            /\ UNCHANGED <<op, flags, pipeline, watchdog_running, mainloop, crashed, calls>>

(* Where stop() returns to: stop_pipeline, MainLoop::run or, at the end, ~Watchdog. *)
AfterWatchdog(p) ==
    IF p = Main /\ ~ g_shutdown_requested THEN "callback"
    ELSE IF p = Main /\ released THEN "exit"
    ELSE "vision_down"

WdStop(p) ==
    /\ At(p, "wd_stop")
    /\ Goto(p, IF watchdog_running /\ (p = Main \/ ~ released) THEN "wd_clear"
               ELSE AfterWatchdog(p))
    /\ UNCHANGED <<op, flags, pipeline, watchdog, mainloop, crashed, calls>>

WdClear(p) ==
    /\ At(p, "wd_clear")
    /\ watchdog_running' = FALSE
    /\ Goto(p, "wd_join")
    /\ UNCHANGED <<op, flags, pipeline, monitor_joinable, monitor, mainloop, crashed, calls>>

WdJoin(p) ==
    /\ At(p, "wd_join")
    /\ IF \E q \in Procs : pc[q] = "wd_joining" THEN Terminate
       ELSE /\ Goto(p, IF monitor_joinable THEN "wd_joining" ELSE AfterWatchdog(p))
            /\ UNCHANGED <<op, flags, pipeline, watchdog, mainloop, crashed, calls>>

WdJoined(p) ==
    /\ At(p, "wd_joining")
    /\ monitor = "done"
    /\ monitor' = "none"
    /\ monitor_joinable' = FALSE
    /\ Goto(p, AfterWatchdog(p))
    /\ UNCHANGED <<op, flags, pipeline, watchdog_running, mainloop, crashed, calls>>

(* monitor_loop; its recovery callback only logs. *)
Monitor ==
    /\ Alive
    /\ monitor = "test"
    /\ ~ watchdog_running
    /\ monitor' = "done"
    /\ UNCHANGED <<pc, op, flags, pipeline, watchdog_running, monitor_joinable, mainloop,
                   crashed, calls>>

-----------------------------------------------------------------------------
(* pipeline_loop: test the flags; skip while the daemon does not run; acquire a
   frame as a capture call does; release it and report. *)

LoopGoto(step) ==
    /\ loop' = step
    /\ UNCHANGED <<pc, op, flags, g_pipeline_running, pipeline_joinable, watchdog, mainloop,
                   crashed, calls>>

(* MUTANT of LoopTest: only the pipeline's own flag counts. *)
LoopTestOwnFlag ==
    /\ loop = "test"
    /\ LoopGoto(IF g_pipeline_running THEN "work" ELSE "done")

LoopTest ==
    /\ loop = "test"
    /\ LoopGoto(IF g_pipeline_running /\ ~ g_shutdown_requested THEN "work" ELSE "done")

LoopWork == loop = "work" /\ LoopGoto(IF running_ THEN "acquire" ELSE "test")

LoopAcquire == loop = "acquire" /\ LoopGoto(IF initialized_ THEN "egl" ELSE "test")

LoopEgl == loop = "egl" /\ EglFree /\ LoopGoto("frame")

LoopFrame == loop = "frame" /\ LoopGoto("held")

LoopRelease == loop = "held" /\ LoopGoto("test")

Loop == Alive /\ (LoopTest \/ LoopWork \/ LoopAcquire \/ LoopEgl \/ LoopFrame \/ LoopRelease)

-----------------------------------------------------------------------------
(* MainLoop::run and the shut-down callback. *)

MainHandlers ==
    /\ At(Main, "handlers")
    /\ Goto(Main, "flag")
    /\ UNCHANGED <<op, flags, pipeline, watchdog, mainloop, crashed, calls>>

MainFlag ==
    /\ At(Main, "flag")
    /\ main_running' = TRUE
    /\ Goto(Main, "wd_start")
    /\ UNCHANGED <<op, flags, pipeline, watchdog, g_shutdown_requested, handler, released,
                   signals, crashed, calls>>

(* condition_variable::wait: the predicate, then the wait itself. *)
MainWait ==
    /\ At(Main, "wait")
    /\ Goto(Main, IF main_running THEN "blocked" ELSE "wd_stop")
    /\ UNCHANGED <<op, flags, pipeline, watchdog, mainloop, crashed, calls>>

SpuriousWakeup ==
    /\ At(Main, "blocked")
    /\ Goto(Main, "wait")
    /\ UNCHANGED <<op, flags, pipeline, watchdog, mainloop, crashed, calls>>

MainCallback ==
    /\ At(Main, "callback")
    /\ g_shutdown_requested' = TRUE
    /\ Goto(Main, "pipe_clear")
    /\ UNCHANGED <<op, flags, pipeline, watchdog, main_running, handler, released, signals,
                   crashed, calls>>

(* cleanup_components after stop_pipeline: the references are dropped, the last
   one to the watchdog with the main loop, whose destructor stops it again. *)
MainRelease ==
    /\ At(Main, "release")
    /\ released' = TRUE
    /\ Goto(Main, "wd_stop")
    /\ UNCHANGED <<op, flags, pipeline, watchdog, g_shutdown_requested, main_running, handler,
                   signals, crashed, calls>>

(* main returns; the destructor of a thread that is joinable terminates. *)
MainExit ==
    /\ At(Main, "exit")
    /\ IF pipeline_joinable \/ monitor_joinable THEN Terminate
       ELSE /\ Goto(Main, "exited")
            /\ UNCHANGED <<op, flags, pipeline, watchdog, mainloop, crashed, calls>>

(* SIGTERM or SIGINT, once its handler is installed: on any thread, at any time.
   BOUND: MaxSignals, one at a time. *)
Signal ==
    /\ Alive
    /\ pc[Main] # "handlers"
    /\ handler = "none"
    /\ signals < MaxSignals
    /\ signals' = signals + 1
    /\ handler' = "store"
    /\ UNCHANGED <<pc, op, flags, pipeline, watchdog, g_shutdown_requested, main_running,
                   released, crashed, calls>>

(* request_shutdown: the flag, then notify_all, which wakes a main that waits. *)
HandlerStore ==
    /\ Alive
    /\ handler = "store"
    /\ main_running' = FALSE
    /\ handler' = "notify"
    /\ UNCHANGED <<pc, op, flags, pipeline, watchdog, g_shutdown_requested, released, signals,
                   crashed, calls>>

HandlerNotify ==
    /\ Alive
    /\ handler = "notify"
    /\ handler' = "none"
    /\ pc' = IF pc[Main] = "blocked" THEN [pc EXCEPT ![Main] = "wait"] ELSE pc
    /\ UNCHANGED <<op, flags, pipeline, watchdog, g_shutdown_requested, main_running, released,
                   signals, crashed, calls>>

-----------------------------------------------------------------------------

Arrive(c) == \E o \in {"start", "stop", "capture"} : Call(c, o)

BinderStep(c) ==
    \/ Check(c) \/ Lock(c) \/ Publish(c) \/ Acquire(c) \/ EglLock(c) \/ FrameDone(c)
    \/ VisionInit(c) \/ VisionBuild(c) \/ PipeFlag(c) \/ PipeSpawn(c)

SharedStep(p) ==
    \/ PipeClear(p) \/ PipeJoin(p) \/ PipeJoined(p) \/ VisionDown(p) \/ VisionClose(p)
    \/ WdStart(p) \/ WdFlag(p) \/ WdSpawn(p)
    \/ WdStop(p) \/ WdClear(p) \/ WdJoin(p) \/ WdJoined(p)

MainStep ==
    \/ MainHandlers \/ MainFlag \/ MainWait \/ MainCallback \/ MainRelease \/ MainExit
    \/ SharedStep(Main)

Handler == HandlerStore \/ HandlerNotify

Stopped == ~ Alive /\ UNCHANGED vars

Next ==
    \/ \E c \in Callers : Arrive(c) \/ BinderStep(c) \/ SharedStep(c)
    \/ MainStep \/ SpuriousWakeup
    \/ Loop \/ Monitor
    \/ Signal \/ Handler
    \/ Stopped

(* A thread that can run does run; calls, signals and spurious wake-ups need not
   happen, and nothing is assumed of the order in which mutexes are granted. *)
Fairness ==
    /\ \A c \in Callers : WF_vars(BinderStep(c) \/ SharedStep(c))
    /\ WF_vars(MainStep)
    /\ WF_vars(Loop)
    /\ WF_vars(Monitor)
    /\ WF_vars(Handler)

Spec == Init /\ [][Next]_vars /\ Fairness

-----------------------------------------------------------------------------

SharedPcs == {"pipe_clear", "pipe_join", "pipe_joining", "vision_down", "vision_close",
              "wd_start", "wd_flag", "wd_spawn", "wd_stop", "wd_clear", "wd_join", "wd_joining"}
CallerPcs == SharedPcs \cup
    {"idle", "check", "lock", "publish", "acquire", "egl", "frame",
     "vision_init", "vision_build", "pipe_flag", "pipe_spawn"}
MainPcs == SharedPcs \cup
    {"handlers", "flag", "wait", "blocked", "callback", "release", "exit", "exited"}

(* Types of the shared flags, handles and program counters.  A handle is joinable exactly
   while it stands for a thread that was started and not joined yet: start_pipeline and
   Watchdog::start, stop_pipeline and Watchdog::stop keep it so whoever runs them. *)
TypeOK ==
    /\ \A c \in Callers : pc[c] \in CallerPcs /\ op[c] \in {"none", "start", "stop", "capture"}
    /\ pc[Main] \in MainPcs
    /\ {running_, initialized_, g_pipeline_running, g_shutdown_requested, pipeline_joinable,
        watchdog_running, monitor_joinable, main_running, released, crashed} \subseteq BOOLEAN
    /\ pipeline_callback_mutex_ \in Callers \cup {None}
    /\ loop \in {"none", "test", "work", "acquire", "egl", "frame", "held", "done"}
    /\ monitor \in {"none", "test", "done"}
    /\ pipeline_joinable = (loop # "none") /\ monitor_joinable = (monitor # "none")
    /\ handler \in {"none", "store", "notify"}
    /\ calls \in 0 .. MaxCalls /\ signals \in 0 .. MaxSignals

(* The pipeline thread between its look at initialized_ and release_frame. *)
LoopUsesVision == loop \in {"egl", "frame", "held"}

(* stop_pipeline joins the pipeline thread before it shuts the vision pipeline
   down, and main does so without the lock that start_pipeline runs under; still
   the pipeline thread never works on a vision pipeline that is torn down. *)
LoopFrameSafe == LoopUsesVision => initialized_ /\ \A p \in Procs : pc[p] # "vision_close"

(* main sets g_shutdown_requested before it stops the pipeline, so a Binder call
   that starts the pipeline behind its back starts a thread that does nothing. *)
NoWorkAfterShutdown ==
    g_shutdown_requested /\ pc[Main] \notin {"pipe_clear", "pipe_join", "pipe_joining"}
        => loop \in {"none", "test", "done"}

(* Whoever joins the pipeline thread, a stopping Binder thread or main, is the only one
   that does, and joins a thread that exists and has been told to leave: no start
   sets g_pipeline_running again behind a joiner that main's shut-down does not cover. *)
JoinedIsLeaving ==
    \A p \in Procs : pc[p] = "pipe_joining" =>
        /\ loop # "none" /\ (~ g_pipeline_running \/ g_shutdown_requested)
        /\ \A q \in Procs \ {p} : pc[q] # "pipe_joining"

(* A Binder thread that holds pipeline_callback_mutex_ waits for the pipeline
   thread and the monitor thread; it always gets to release the lock, unless the
   shut-down begins, whose joins ShutdownEnds is about. *)
LockIsReleased ==
    pipeline_callback_mutex_ # None ~>
        pipeline_callback_mutex_ = None \/ g_shutdown_requested \/ ~ Alive

-----------------------------------------------------------------------------
(* What comments of the code say, and the code does not keep. *)

(* The perception calls start the pipeline on demand, "without requiring
   startHotPath()".  Whoever starts it finds no pipeline thread to overwrite:
   assigning to a joinable std::thread would terminate the daemon. *)
StartFindsNoThread == \A c \in Callers : At(c, "pipe_spawn") => ~ pipeline_joinable

(* acquire_frame: "concurrent calls from Binder thread pool must be serialized".
   No thread works on a frame while another one tears the EGL state down. *)
EglSerialized ==
    ~ EglFree => \A p \in Procs : pc[p] # "vision_close"

(* is_running(), "Check if daemon is running": when no call is in progress and
   it says so, there is a pipeline thread. *)
StatusTruthful ==
    Alive /\ running_ /\ ~ g_shutdown_requested /\ (\A c \in Callers : pc[c] = "idle")
        => loop \notin {"none", "done"}

(* "Handle SIGTERM for graceful shutdown": after its handler has run, the daemon
   stops. *)
GracefulShutdown == handler = "notify" ~> ~ Alive

(* Once main was woken, the clean-up gets to its end: every join returns. *)
ShutdownEnds == pc[Main] = "wd_stop" ~> ~ Alive
=============================================================================
