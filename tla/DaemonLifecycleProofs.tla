------------------------ MODULE DaemonLifecycleProofs ------------------------
(***************************************************************************)
(* Proofs about the daemon's life cycle, for any number of Binder threads, *)
(* calls and signals.                                                      *)
(***************************************************************************)
EXTENDS DaemonLifecycle, TLAPS

(* Program counters and calls are functions on their processes. *)
Shape ==
    /\ pc = [p \in Procs |-> pc[p]] /\ op = [c \in Callers |-> op[c]]

(* The steps of start_pipeline and stop_pipeline on a Binder thread. *)
LockedPcs == {"vision_init", "vision_build", "wd_start", "wd_flag", "wd_spawn", "pipe_flag",
              "pipe_spawn", "pipe_clear", "pipe_join", "pipe_joining", "wd_stop", "wd_clear",
              "wd_join", "wd_joining", "vision_down", "vision_close"}
Locked == \A c \in Callers : pc[c] \in LockedPcs => pipeline_callback_mutex_ = c

(* A thread that exists can be joined. *)
Joinable == loop # "none" => pipeline_joinable

(* From the join to the end of stop_pipeline on a Binder thread, nobody restarts the
   pipeline thread: that would take the lock. *)
StoppedPcs == {"wd_stop", "wd_clear", "wd_join", "wd_joining", "vision_down", "vision_close"}
CallerStopped == \A c \in Callers : pc[c] \in StoppedPcs => loop = "none"

(* Main stops the pipeline only in the shut-down callback. *)
MainStopping ==
    pc[Main] \in {"pipe_clear", "pipe_join", "pipe_joining", "vision_down", "vision_close", "release"}
        => g_shutdown_requested

Inv == Shape /\ Locked /\ Joinable /\ CallerStopped /\ MainStopping /\ NoWorkAfterShutdown /\ LoopFrameSafe

(* Before any call the invariant holds: no thread exists and main is starting. *)
LEMMA InvInit == Init => Inv
<1> QED
    BY Zenon, LifecycleConstants DEF Init, Inv, Shape, Locked, Joinable, CallerStopped, MainStopping,
       NoWorkAfterShutdown, LoopFrameSafe, LoopUsesVision, Procs, LockedPcs, StoppedPcs

(* The steps of a Binder call outside start_pipeline and stop_pipeline keep the invariant. *)
LEMMA BinderStepInv == ASSUME NEW c \in Callers, Inv, BinderStep(c) PROVE Inv'
<1> USE LifecycleConstants DEF Inv, At, Goto, LoopGoto, flags, pipeline, watchdog, mainloop, Procs,
        Shape, Locked, LockedPcs, Joinable, CallerStopped, StoppedPcs, MainStopping,
        NoWorkAfterShutdown, LoopFrameSafe, LoopUsesVision
<1>1. CASE Check(c)
    BY Zenon, <1>1 DEF Check
<1>2. CASE Lock(c)
    BY Zenon, <1>2 DEF Lock
<1>3. CASE Publish(c)
    BY Zenon, <1>3 DEF Publish
<1>4. CASE Acquire(c)
    BY Zenon, <1>4 DEF Acquire
<1>5. CASE EglLock(c)
    BY Zenon, <1>5 DEF EglLock
<1>6. CASE FrameDone(c)
    BY Zenon, <1>6 DEF FrameDone
<1>7. CASE VisionInit(c)
    BY <1>7 DEF VisionInit, Terminate
<1>8. CASE VisionBuild(c)
    BY <1>8 DEF VisionBuild
<1>9. CASE PipeFlag(c)
    BY Zenon, <1>9 DEF PipeFlag
<1>10. CASE PipeSpawn(c)
    BY <1>10 DEF PipeSpawn, Terminate
<1> QED
    BY <1>1, <1>2, <1>3, <1>4, <1>5, <1>6, <1>7, <1>8, <1>9, <1>10 DEF BinderStep

(* The steps of start_pipeline and stop_pipeline keep it, on a Binder thread under the lock
   and on main without it. *)
LEMMA SharedStepInv == ASSUME NEW p \in Procs, Inv, SharedStep(p) PROVE Inv'
<1> USE LifecycleConstants DEF Inv, At, Goto, LoopGoto, flags, pipeline, watchdog, mainloop, Procs,
        Shape, Locked, LockedPcs, Joinable, CallerStopped, StoppedPcs, MainStopping,
        NoWorkAfterShutdown, LoopFrameSafe, LoopUsesVision
<1>1. CASE PipeClear(p)
    BY Zenon, <1>1 DEF PipeClear
<1>2. CASE PipeJoin(p)
    BY Zenon, <1>2 DEF PipeJoin, Terminate
<1>3. CASE PipeJoined(p)
    BY <1>3 DEF PipeJoined
<1>4. CASE VisionDown(p)
    BY <1>4 DEF VisionDown
<1>5. CASE VisionClose(p)
    BY Zenon, <1>5 DEF VisionClose
<1>6. CASE WdStart(p)
    BY <1>6 DEF WdStart, Terminate
<1>7. CASE WdFlag(p)
    BY Zenon, <1>7 DEF WdFlag
<1>8. CASE WdSpawn(p)
    BY <1>8 DEF WdSpawn, Terminate
<1>9. CASE WdStop(p)
    BY Zenon, <1>9 DEF WdStop, AfterWatchdog
<1>10. CASE WdClear(p)
    BY Zenon, <1>10 DEF WdClear
<1>11. CASE WdJoin(p)
    BY Zenon, <1>11 DEF WdJoin, AfterWatchdog, Terminate
<1>12. CASE WdJoined(p)
    BY Zenon, <1>12 DEF WdJoined, AfterWatchdog
<1> QED
    BY <1>1, <1>2, <1>3, <1>4, <1>5, <1>6, <1>7, <1>8, <1>9, <1>10, <1>11, <1>12 DEF SharedStep

(* The steps of the pipeline thread keep it. *)
LEMMA LoopInv == ASSUME Inv, Loop PROVE Inv'
<1> USE LifecycleConstants DEF Inv, At, Goto, LoopGoto, flags, pipeline, watchdog, mainloop, Procs,
        Shape, Locked, LockedPcs, Joinable, CallerStopped, StoppedPcs, MainStopping,
        NoWorkAfterShutdown, LoopFrameSafe, LoopUsesVision
<1>1. CASE LoopTest
    BY <1>1 DEF LoopTest
<1>2. CASE LoopWork
    BY <1>2 DEF LoopWork
<1>3. CASE LoopAcquire
    BY <1>3 DEF LoopAcquire
<1>4. CASE LoopEgl
    BY <1>4 DEF LoopEgl
<1>5. CASE LoopFrame
    BY <1>5 DEF LoopFrame
<1>6. CASE LoopRelease
    BY <1>6 DEF LoopRelease
<1> QED
    BY <1>1, <1>2, <1>3, <1>4, <1>5, <1>6 DEF Loop

(* Main, the monitor thread, signals and their handlers keep it. *)
LEMMA OthersInv ==
    ASSUME Inv, \/ MainHandlers \/ MainFlag \/ MainWait \/ MainCallback \/ MainRelease \/ MainExit
                \/ SpuriousWakeup \/ Monitor \/ Signal \/ HandlerStore \/ HandlerNotify
    PROVE  Inv' 
<1> USE LifecycleConstants DEF Inv, At, Goto, LoopGoto, flags, pipeline, watchdog, mainloop, Procs,
        Shape, Locked, LockedPcs, Joinable, CallerStopped, StoppedPcs, MainStopping,
        NoWorkAfterShutdown, LoopFrameSafe, LoopUsesVision
<1>1. CASE MainHandlers
    BY SMTT(40), <1>1 DEF MainHandlers
<1>2. CASE MainFlag
    BY <1>2 DEF MainFlag
<1>3. CASE MainWait
    BY SMTT(40), <1>3 DEF MainWait
<1>4. CASE MainCallback
    BY SMTT(40), <1>4 DEF MainCallback
<1>5. CASE MainRelease
    BY SMTT(40), <1>5 DEF MainRelease
<1>6. CASE MainExit
    BY <1>6 DEF MainExit, Terminate
<1>7. CASE SpuriousWakeup
    BY Zenon, <1>7 DEF SpuriousWakeup
<1>8. CASE Monitor
    BY <1>8 DEF Monitor
<1>9. CASE Signal
    BY <1>9 DEF Signal
<1>10. CASE HandlerStore
    BY <1>10 DEF HandlerStore
<1>11. CASE HandlerNotify
    BY SMTT(40), <1>11 DEF HandlerNotify
<1> QED
    BY <1>1, <1>2, <1>3, <1>4, <1>5, <1>6, <1>7, <1>8, <1>9, <1>10, <1>11

(* Every step keeps the invariant. *)
LEMMA InvNext == Inv /\ [Next]_vars => Inv'
<1> SUFFICES ASSUME Inv, [Next]_vars PROVE Inv'
    OBVIOUS
<1>1. ASSUME NEW c \in Callers, NEW o \in {"start", "stop", "capture"}, Call(c, o) PROVE Inv'
    BY Zenon, <1>1, LifecycleConstants DEF Call, Inv, At, Goto, flags, pipeline, watchdog, mainloop,
       Procs, Shape, Locked, LockedPcs, Joinable, CallerStopped, StoppedPcs, MainStopping,
       NoWorkAfterShutdown, LoopFrameSafe, LoopUsesVision
<1>2. CASE UNCHANGED vars
    BY <1>2 DEF vars, flags, pipeline, watchdog, mainloop, Inv, Shape, Locked, Joinable,
       CallerStopped, MainStopping, NoWorkAfterShutdown, LoopFrameSafe, LoopUsesVision
<1>3. ASSUME NEW c \in Callers, SharedStep(c) PROVE Inv'
    BY <1>3, SharedStepInv DEF Procs
<1>4. CASE MainStep
    BY <1>4, SharedStepInv, OthersInv DEF MainStep, Procs
<1> QED
    BY <1>1, <1>2, <1>3, <1>4, BinderStepInv, LoopInv, OthersInv DEF Next, Arrive, Handler, Stopped

(* Hence it always holds. *)
LEMMA SpecInv == Spec => []Inv
<1> QED
    BY InvInit, InvNext, PTL DEF Spec

(* The pipeline thread never works on a vision pipeline that stop_pipeline has torn down
   or is tearing down, although main stops it without the lock. *)
THEOREM LifecycleLoopFrameSafe == Spec => []LoopFrameSafe
<1>1. Inv => LoopFrameSafe
    BY DEF Inv
<1> QED
    BY <1>1, SpecInv, PTL

(* Once the shut-down callback has stopped the pipeline thread, a thread that a late Binder
   call starts acquires no frame. *)
THEOREM LifecycleNoWorkAfterShutdown == Spec => []NoWorkAfterShutdown
<1>1. Inv => NoWorkAfterShutdown
    BY DEF Inv
<1> QED
    BY <1>1, SpecInv, PTL

(* Types.  Truth values, program counters and the rest are treated apart. *)
Booleans ==
    {running_, initialized_, g_pipeline_running, g_shutdown_requested, pipeline_joinable,
     watchdog_running, monitor_joinable, main_running, released, crashed} \subseteq BOOLEAN

Steps ==
    /\ \A c \in Callers : pc[c] \in CallerPcs /\ op[c] \in {"none", "start", "stop", "capture"}
    /\ pc[Main] \in MainPcs

Rest ==
    /\ pipeline_callback_mutex_ \in Callers \cup {None}
    /\ loop \in {"none", "test", "work", "acquire", "egl", "frame", "held", "done"}
    /\ monitor \in {"none", "test", "done"}
    /\ pipeline_joinable = (loop # "none") /\ monitor_joinable = (monitor # "none")
    /\ handler \in {"none", "store", "notify"}
    /\ calls \in 0 .. MaxCalls /\ signals \in 0 .. MaxSignals

(* The steps of a Binder call outside start_pipeline and stop_pipeline keep the types. *)
LEMMA BinderStepTypes == ASSUME NEW c \in Callers, Shape, TypeOK, BinderStep(c) PROVE TypeOK'
<1> USE LifecycleConstants DEF At, Goto, LoopGoto, flags, pipeline, watchdog, mainloop
<1> Booleans /\ Steps /\ Rest
    BY DEF TypeOK, Booleans, Steps, Rest
<1>1. CASE Check(c)
    <2>1. Booleans'
        BY <1>1 DEF Check, Booleans
    <2>2. Steps'
        BY <1>1 DEF Check, Shape, Steps, Procs, CallerPcs, MainPcs, SharedPcs
    <2>3. Rest'
        BY <1>1 DEF Check, Rest
    <2> QED
        BY <2>1, <2>2, <2>3 DEF TypeOK, Booleans, Steps, Rest
<1>2. CASE Lock(c)
    <2>1. Booleans'
        BY <1>2 DEF Lock, Booleans
    <2>2. Steps'
        BY <1>2 DEF Lock, Shape, Steps, Procs, CallerPcs, MainPcs, SharedPcs
    <2>3. Rest'
        BY <1>2 DEF Lock, Rest
    <2> QED
        BY <2>1, <2>2, <2>3 DEF TypeOK, Booleans, Steps, Rest
<1>3. CASE Publish(c)
    <2>1. Booleans'
        BY <1>3 DEF Publish, Booleans
    <2>2. Steps'
        BY <1>3 DEF Publish, Shape, Steps, Procs, CallerPcs, MainPcs, SharedPcs
    <2>3. Rest'
        BY <1>3 DEF Publish, Rest
    <2> QED
        BY <2>1, <2>2, <2>3 DEF TypeOK, Booleans, Steps, Rest
<1>4. CASE Acquire(c)
    <2>1. Booleans'
        BY <1>4 DEF Acquire, Booleans
    <2>2. Steps'
        BY <1>4 DEF Acquire, Shape, Steps, Procs, CallerPcs, MainPcs, SharedPcs
    <2>3. Rest'
        BY <1>4 DEF Acquire, Rest
    <2> QED
        BY <2>1, <2>2, <2>3 DEF TypeOK, Booleans, Steps, Rest
<1>5. CASE EglLock(c)
    <2>1. Booleans'
        BY <1>5 DEF EglLock, Booleans
    <2>2. Steps'
        BY <1>5 DEF EglLock, Shape, Steps, Procs, CallerPcs, MainPcs, SharedPcs
    <2>3. Rest'
        BY <1>5 DEF EglLock, Rest
    <2> QED
        BY <2>1, <2>2, <2>3 DEF TypeOK, Booleans, Steps, Rest
<1>6. CASE FrameDone(c)
    <2>1. Booleans'
        BY <1>6 DEF FrameDone, Booleans
    <2>2. Steps'
        BY <1>6 DEF FrameDone, Shape, Steps, Procs, CallerPcs, MainPcs, SharedPcs
    <2>3. Rest'
        BY <1>6 DEF FrameDone, Rest
    <2> QED
        BY <2>1, <2>2, <2>3 DEF TypeOK, Booleans, Steps, Rest
<1>7. CASE VisionInit(c)
    <2>1. Booleans'
        BY Zenon, <1>7 DEF VisionInit, Terminate, Booleans
    <2>2. Steps'
        BY <1>7 DEF VisionInit, Terminate, Shape, Steps, Procs, CallerPcs, MainPcs, SharedPcs
    <2>3. Rest'
        BY <1>7 DEF VisionInit, Terminate, Rest
    <2> QED
        BY <2>1, <2>2, <2>3 DEF TypeOK, Booleans, Steps, Rest
<1>8. CASE VisionBuild(c)
    <2>1. Booleans'
        BY Zenon, <1>8 DEF VisionBuild, Booleans
    <2>2. Steps'
        BY <1>8 DEF VisionBuild, Shape, Steps, Procs, CallerPcs, MainPcs, SharedPcs
    <2>3. Rest'
        BY <1>8 DEF VisionBuild, Rest
    <2> QED
        BY <2>1, <2>2, <2>3 DEF TypeOK, Booleans, Steps, Rest
<1>9. CASE PipeFlag(c)
    <2>1. Booleans'
        BY <1>9 DEF PipeFlag, Booleans
    <2>2. Steps'
        BY <1>9 DEF PipeFlag, Shape, Steps, Procs, CallerPcs, MainPcs, SharedPcs
    <2>3. Rest'
        BY <1>9 DEF PipeFlag, Rest
    <2> QED
        BY <2>1, <2>2, <2>3 DEF TypeOK, Booleans, Steps, Rest
<1>10. CASE PipeSpawn(c)
    <2>1. Booleans'
        BY Zenon, <1>10 DEF PipeSpawn, Terminate, Booleans
    <2>2. Steps'
        BY <1>10 DEF PipeSpawn, Terminate, Shape, Steps, Procs, CallerPcs, MainPcs, SharedPcs
    <2>3. Rest'
        BY Zenon, <1>10 DEF PipeSpawn, Terminate, Rest
    <2> QED
        BY <2>1, <2>2, <2>3 DEF TypeOK, Booleans, Steps, Rest
<1> QED
    BY <1>1, <1>2, <1>3, <1>4, <1>5, <1>6, <1>7, <1>8, <1>9, <1>10 DEF BinderStep

(* The steps of start_pipeline and stop_pipeline keep them. *)
LEMMA SharedStepTypes == ASSUME NEW p \in Procs, Shape, TypeOK, SharedStep(p) PROVE TypeOK'
<1> USE LifecycleConstants DEF At, Goto, LoopGoto, flags, pipeline, watchdog, mainloop
<1> Booleans /\ Steps /\ Rest
    BY DEF TypeOK, Booleans, Steps, Rest
<1>1. CASE PipeClear(p)
    <2>1. Booleans'
        BY Zenon, <1>1 DEF PipeClear, Booleans
    <2>2. Steps'
        BY <1>1 DEF PipeClear, Shape, Steps, Procs, CallerPcs, MainPcs, SharedPcs
    <2>3. Rest'
        BY <1>1 DEF PipeClear, Rest
    <2> QED
        BY <2>1, <2>2, <2>3 DEF TypeOK, Booleans, Steps, Rest
<1>2. CASE PipeJoin(p)
    <2>1. Booleans'
        BY Zenon, <1>2 DEF PipeJoin, Terminate, Booleans
    <2>2. Steps'
        BY Zenon, <1>2 DEF PipeJoin, Terminate, Shape, Steps, Procs, CallerPcs, MainPcs, SharedPcs
    <2>3. Rest'
        BY <1>2 DEF PipeJoin, Terminate, Rest
    <2> QED
        BY <2>1, <2>2, <2>3 DEF TypeOK, Booleans, Steps, Rest
<1>3. CASE PipeJoined(p)
    <2>1. Booleans'
        BY Zenon, <1>3 DEF PipeJoined, Booleans
    <2>2. Steps'
        BY <1>3 DEF PipeJoined, Shape, Steps, Procs, CallerPcs, MainPcs, SharedPcs
    <2>3. Rest'
        BY Zenon, <1>3 DEF PipeJoined, Rest
    <2> QED
        BY <2>1, <2>2, <2>3 DEF TypeOK, Booleans, Steps, Rest
<1>4. CASE VisionDown(p)
    <2>1. Booleans'
        BY <1>4 DEF VisionDown, Booleans
    <2>2. Steps'
        BY <1>4 DEF VisionDown, Shape, Steps, Procs, CallerPcs, MainPcs, SharedPcs
    <2>3. Rest'
        BY <1>4 DEF VisionDown, Rest
    <2> QED
        BY <2>1, <2>2, <2>3 DEF TypeOK, Booleans, Steps, Rest
<1>5. CASE VisionClose(p)
    <2>1. Booleans'
        BY Zenon, <1>5 DEF VisionClose, Booleans
    <2>2. Steps'
        BY <1>5 DEF VisionClose, Shape, Steps, Procs, CallerPcs, MainPcs, SharedPcs
    <2>3. Rest'
        BY <1>5 DEF VisionClose, Rest
    <2> QED
        BY <2>1, <2>2, <2>3 DEF TypeOK, Booleans, Steps, Rest
<1>6. CASE WdStart(p)
    <2>1. Booleans'
        BY Zenon, <1>6 DEF WdStart, Terminate, Booleans
    <2>2. Steps'
        BY <1>6 DEF WdStart, Terminate, Shape, Steps, Procs, CallerPcs, MainPcs, SharedPcs
    <2>3. Rest'
        BY <1>6 DEF WdStart, Terminate, Rest
    <2> QED
        BY <2>1, <2>2, <2>3 DEF TypeOK, Booleans, Steps, Rest
<1>7. CASE WdFlag(p)
    <2>1. Booleans'
        BY <1>7 DEF WdFlag, Booleans
    <2>2. Steps'
        BY <1>7 DEF WdFlag, Shape, Steps, Procs, CallerPcs, MainPcs, SharedPcs
    <2>3. Rest'
        BY <1>7 DEF WdFlag, Rest
    <2> QED
        BY <2>1, <2>2, <2>3 DEF TypeOK, Booleans, Steps, Rest
<1>8. CASE WdSpawn(p)
    <2>1. Booleans'
        BY Zenon, <1>8 DEF WdSpawn, Terminate, Booleans
    <2>2. Steps'
        BY <1>8 DEF WdSpawn, Terminate, Shape, Steps, Procs, CallerPcs, MainPcs, SharedPcs
    <2>3. Rest'
        BY Zenon, <1>8 DEF WdSpawn, Terminate, Rest
    <2> QED
        BY <2>1, <2>2, <2>3 DEF TypeOK, Booleans, Steps, Rest
<1>9. CASE WdStop(p)
    <2>1. Booleans'
        BY <1>9 DEF WdStop, AfterWatchdog, Booleans
    <2>2. Steps'
        BY <1>9 DEF WdStop, AfterWatchdog, Shape, Steps, Procs, CallerPcs, MainPcs, SharedPcs
    <2>3. Rest'
        BY <1>9 DEF WdStop, AfterWatchdog, Rest
    <2> QED
        BY <2>1, <2>2, <2>3 DEF TypeOK, Booleans, Steps, Rest
<1>10. CASE WdClear(p)
    <2>1. Booleans'
        BY Zenon, <1>10 DEF WdClear, Booleans
    <2>2. Steps'
        BY <1>10 DEF WdClear, Shape, Steps, Procs, CallerPcs, MainPcs, SharedPcs
    <2>3. Rest'
        BY <1>10 DEF WdClear, Rest
    <2> QED
        BY <2>1, <2>2, <2>3 DEF TypeOK, Booleans, Steps, Rest
<1>11. CASE WdJoin(p)
    <2>1. Booleans'
        BY Zenon, <1>11 DEF WdJoin, AfterWatchdog, Terminate, Booleans
    <2>2. Steps'
        BY ZenonT(40), <1>11 DEF WdJoin, AfterWatchdog, Terminate, Shape, Steps, Procs, CallerPcs, MainPcs, SharedPcs
    <2>3. Rest'
        BY <1>11 DEF WdJoin, AfterWatchdog, Terminate, Rest
    <2> QED
        BY <2>1, <2>2, <2>3 DEF TypeOK, Booleans, Steps, Rest
<1>12. CASE WdJoined(p)
    <2>1. Booleans'
        BY Zenon, <1>12 DEF WdJoined, AfterWatchdog, Booleans
    <2>2. Steps'
        BY <1>12 DEF WdJoined, AfterWatchdog, Shape, Steps, Procs, CallerPcs, MainPcs, SharedPcs
    <2>3. Rest'
        BY Zenon, <1>12 DEF WdJoined, AfterWatchdog, Rest
    <2> QED
        BY <2>1, <2>2, <2>3 DEF TypeOK, Booleans, Steps, Rest
<1> QED
    BY <1>1, <1>2, <1>3, <1>4, <1>5, <1>6, <1>7, <1>8, <1>9, <1>10, <1>11, <1>12 DEF SharedStep

(* The pipeline thread keeps them. *)
LEMMA LoopTypes == ASSUME Shape, TypeOK, Loop PROVE TypeOK'
<1> USE LifecycleConstants DEF At, Goto, LoopGoto, flags, pipeline, watchdog, mainloop
<1> Booleans /\ Steps /\ Rest
    BY DEF TypeOK, Booleans, Steps, Rest
<1>1. CASE LoopTest
    <2>1. Booleans'
        BY <1>1 DEF LoopTest, Booleans
    <2>2. Steps'
        BY <1>1 DEF LoopTest, Shape, Steps, Procs, CallerPcs, MainPcs, SharedPcs
    <2>3. Rest'
        BY <1>1 DEF LoopTest, Rest
    <2> QED
        BY <2>1, <2>2, <2>3 DEF TypeOK, Booleans, Steps, Rest
<1>2. CASE LoopWork
    <2>1. Booleans'
        BY <1>2 DEF LoopWork, Booleans
    <2>2. Steps'
        BY <1>2 DEF LoopWork, Shape, Steps, Procs, CallerPcs, MainPcs, SharedPcs
    <2>3. Rest'
        BY <1>2 DEF LoopWork, Rest
    <2> QED
        BY <2>1, <2>2, <2>3 DEF TypeOK, Booleans, Steps, Rest
<1>3. CASE LoopAcquire
    <2>1. Booleans'
        BY <1>3 DEF LoopAcquire, Booleans
    <2>2. Steps'
        BY <1>3 DEF LoopAcquire, Shape, Steps, Procs, CallerPcs, MainPcs, SharedPcs
    <2>3. Rest'
        BY <1>3 DEF LoopAcquire, Rest
    <2> QED
        BY <2>1, <2>2, <2>3 DEF TypeOK, Booleans, Steps, Rest
<1>4. CASE LoopEgl
    <2>1. Booleans'
        BY <1>4 DEF LoopEgl, Booleans
    <2>2. Steps'
        BY <1>4 DEF LoopEgl, Shape, Steps, Procs, CallerPcs, MainPcs, SharedPcs
    <2>3. Rest'
        BY <1>4 DEF LoopEgl, Rest
    <2> QED
        BY <2>1, <2>2, <2>3 DEF TypeOK, Booleans, Steps, Rest
<1>5. CASE LoopFrame
    <2>1. Booleans'
        BY <1>5 DEF LoopFrame, Booleans
    <2>2. Steps'
        BY <1>5 DEF LoopFrame, Shape, Steps, Procs, CallerPcs, MainPcs, SharedPcs
    <2>3. Rest'
        BY <1>5 DEF LoopFrame, Rest
    <2> QED
        BY <2>1, <2>2, <2>3 DEF TypeOK, Booleans, Steps, Rest
<1>6. CASE LoopRelease
    <2>1. Booleans'
        BY <1>6 DEF LoopRelease, Booleans
    <2>2. Steps'
        BY <1>6 DEF LoopRelease, Shape, Steps, Procs, CallerPcs, MainPcs, SharedPcs
    <2>3. Rest'
        BY <1>6 DEF LoopRelease, Rest
    <2> QED
        BY <2>1, <2>2, <2>3 DEF TypeOK, Booleans, Steps, Rest
<1> QED
    BY <1>1, <1>2, <1>3, <1>4, <1>5, <1>6 DEF Loop

(* Main, the monitor thread, signals and their handlers keep them. *)
LEMMA OthersTypes ==
    ASSUME Shape, TypeOK,
           \/ MainHandlers \/ MainFlag \/ MainWait \/ MainCallback \/ MainRelease \/ MainExit
           \/ SpuriousWakeup \/ Monitor \/ Signal \/ HandlerStore \/ HandlerNotify
    PROVE  TypeOK' 
<1> USE LifecycleConstants DEF At, Goto, LoopGoto, flags, pipeline, watchdog, mainloop
<1> Booleans /\ Steps /\ Rest
    BY DEF TypeOK, Booleans, Steps, Rest
<1>1. CASE MainHandlers
    <2>1. Booleans'
        BY <1>1 DEF MainHandlers, Booleans
    <2>2. Steps'
        BY <1>1 DEF MainHandlers, Shape, Steps, Procs, CallerPcs, MainPcs, SharedPcs
    <2>3. Rest'
        BY <1>1 DEF MainHandlers, Rest
    <2> QED
        BY <2>1, <2>2, <2>3 DEF TypeOK, Booleans, Steps, Rest
<1>2. CASE MainFlag
    <2>1. Booleans'
        BY <1>2 DEF MainFlag, Booleans
    <2>2. Steps'
        BY <1>2 DEF MainFlag, Shape, Steps, Procs, CallerPcs, MainPcs, SharedPcs
    <2>3. Rest'
        BY <1>2 DEF MainFlag, Rest
    <2> QED
        BY <2>1, <2>2, <2>3 DEF TypeOK, Booleans, Steps, Rest
<1>3. CASE MainWait
    <2>1. Booleans'
        BY <1>3 DEF MainWait, Booleans
    <2>2. Steps'
        BY <1>3 DEF MainWait, Shape, Steps, Procs, CallerPcs, MainPcs, SharedPcs
    <2>3. Rest'
        BY <1>3 DEF MainWait, Rest
    <2> QED
        BY <2>1, <2>2, <2>3 DEF TypeOK, Booleans, Steps, Rest
<1>4. CASE MainCallback
    <2>1. Booleans'
        BY <1>4 DEF MainCallback, Booleans
    <2>2. Steps'
        BY <1>4 DEF MainCallback, Shape, Steps, Procs, CallerPcs, MainPcs, SharedPcs
    <2>3. Rest'
        BY <1>4 DEF MainCallback, Rest
    <2> QED
        BY <2>1, <2>2, <2>3 DEF TypeOK, Booleans, Steps, Rest
<1>5. CASE MainRelease
    <2>1. Booleans'
        BY <1>5 DEF MainRelease, Booleans
    <2>2. Steps'
        BY <1>5 DEF MainRelease, Shape, Steps, Procs, CallerPcs, MainPcs, SharedPcs
    <2>3. Rest'
        BY <1>5 DEF MainRelease, Rest
    <2> QED
        BY <2>1, <2>2, <2>3 DEF TypeOK, Booleans, Steps, Rest
<1>6. CASE MainExit
    <2>1. Booleans'
        BY Zenon, <1>6 DEF MainExit, Terminate, Booleans
    <2>2. Steps'
        BY <1>6 DEF MainExit, Terminate, Shape, Steps, Procs, CallerPcs, MainPcs, SharedPcs
    <2>3. Rest'
        BY <1>6 DEF MainExit, Terminate, Rest
    <2> QED
        BY <2>1, <2>2, <2>3 DEF TypeOK, Booleans, Steps, Rest
<1>7. CASE SpuriousWakeup
    <2>1. Booleans'
        BY <1>7 DEF SpuriousWakeup, Booleans
    <2>2. Steps'
        BY <1>7 DEF SpuriousWakeup, Shape, Steps, Procs, CallerPcs, MainPcs, SharedPcs
    <2>3. Rest'
        BY <1>7 DEF SpuriousWakeup, Rest
    <2> QED
        BY <2>1, <2>2, <2>3 DEF TypeOK, Booleans, Steps, Rest
<1>8. CASE Monitor
    <2>1. Booleans'
        BY <1>8 DEF Monitor, Booleans
    <2>2. Steps'
        BY <1>8 DEF Monitor, Shape, Steps, Procs, CallerPcs, MainPcs, SharedPcs
    <2>3. Rest'
        BY <1>8 DEF Monitor, Rest
    <2> QED
        BY <2>1, <2>2, <2>3 DEF TypeOK, Booleans, Steps, Rest
<1>9. CASE Signal
    <2>1. Booleans'
        BY <1>9 DEF Signal, Booleans
    <2>2. Steps'
        BY <1>9 DEF Signal, Shape, Steps, Procs, CallerPcs, MainPcs, SharedPcs
    <2>3. Rest'
        BY <1>9 DEF Signal, Rest
    <2> QED
        BY <2>1, <2>2, <2>3 DEF TypeOK, Booleans, Steps, Rest
<1>10. CASE HandlerStore
    <2>1. Booleans'
        BY Zenon, <1>10 DEF HandlerStore, Booleans
    <2>2. Steps'
        BY <1>10 DEF HandlerStore, Shape, Steps, Procs, CallerPcs, MainPcs, SharedPcs
    <2>3. Rest'
        BY <1>10 DEF HandlerStore, Rest
    <2> QED
        BY <2>1, <2>2, <2>3 DEF TypeOK, Booleans, Steps, Rest
<1>11. CASE HandlerNotify
    <2>1. Booleans'
        BY <1>11 DEF HandlerNotify, Booleans
    <2>2. Steps'
        BY <1>11 DEF HandlerNotify, Shape, Steps, Procs, CallerPcs, MainPcs, SharedPcs
    <2>3. Rest'
        BY <1>11 DEF HandlerNotify, Rest
    <2> QED
        BY <2>1, <2>2, <2>3 DEF TypeOK, Booleans, Steps, Rest
<1> QED
    BY <1>1, <1>2, <1>3, <1>4, <1>5, <1>6, <1>7, <1>8, <1>9, <1>10, <1>11

(* Every step keeps the types. *)
LEMMA TypesNext == Inv /\ TypeOK /\ [Next]_vars => TypeOK'
<1> SUFFICES ASSUME Shape, TypeOK, [Next]_vars PROVE TypeOK'
    BY DEF Inv
<1>1. ASSUME NEW c \in Callers, NEW o \in {"start", "stop", "capture"}, Call(c, o) PROVE TypeOK'
    <2> USE <1>1, LifecycleConstants DEF Call, At, Goto, flags, pipeline, watchdog, mainloop
    <2> Booleans /\ Steps /\ Rest
        BY DEF TypeOK, Booleans, Steps, Rest
    <2>1. Booleans'
        BY DEF Booleans
    <2>2. Steps'
        BY DEF Shape, Steps, Procs, CallerPcs
    <2>3. Rest'
        BY DEF Rest
    <2> QED
        BY <2>1, <2>2, <2>3 DEF TypeOK, Booleans, Steps, Rest
<1>2. CASE UNCHANGED vars
    BY <1>2 DEF vars, flags, pipeline, watchdog, mainloop, TypeOK
<1>3. ASSUME NEW c \in Callers, SharedStep(c) PROVE TypeOK'
    BY <1>3, SharedStepTypes DEF Procs
<1>4. CASE MainStep
    BY <1>4, SharedStepTypes, OthersTypes DEF MainStep, Procs
<1> QED
    BY <1>1, <1>2, <1>3, <1>4, BinderStepTypes, LoopTypes, OthersTypes
       DEF Next, Arrive, Handler, Stopped

(* Every flag, handle and program counter of the life cycle keeps its type, and the two
   handles are joinable exactly while their threads exist. *)
THEOREM LifecycleTypes == Spec => []TypeOK
<1>1. ASSUME Init PROVE TypeOK
    <2>1. Booleans
        BY Zenon, <1>1 DEF Init, Booleans
    <2>2. Steps
        BY <1>1, LifecycleConstants DEF Init, Steps, Procs, CallerPcs, MainPcs
    <2>3. Rest
        <3>1. /\ pipeline_callback_mutex_ = None /\ loop = "none" /\ monitor = "none" /\ handler = "none"
              /\ calls = 0 /\ signals = 0 /\ pipeline_joinable = FALSE /\ monitor_joinable = FALSE
            BY Zenon, <1>1 DEF Init
        <3>2. pipeline_joinable = (loop # "none") /\ monitor_joinable = (monitor # "none")
            BY Zenon, <3>1
        <3>3. calls \in 0 .. MaxCalls /\ signals \in 0 .. MaxSignals
            BY <3>1, LifecycleConstants
        <3> QED
            BY Zenon, <3>1, <3>2, <3>3 DEF Rest
    <2> QED
        BY <2>1, <2>2, <2>3 DEF TypeOK, Booleans, Steps, Rest
<1> QED
    BY <1>1, SpecInv, TypesNext, PTL DEF Spec


-----------------------------------------------------------------------------
(* Joining the pipeline thread.  A handle that is joinable belongs to a thread; a Binder
   thread has cleared the flag before it joins, and the lock keeps others from setting it;
   a second joiner ends the process. *)
Joining ==
    /\ pipeline_joinable => loop # "none"
    /\ \A c \in Callers : pc[c] \in {"pipe_join", "pipe_joining"} => ~ g_pipeline_running
    /\ \A p \in Procs : pc[p] = "pipe_joining" => pipeline_joinable
    /\ \A p, q \in Procs : pc[p] = "pipe_joining" /\ pc[q] = "pipe_joining" => p = q

(* A Binder call sets the flag only under the lock, hence while no other one joins. *)
LEMMA BinderStepJoining == ASSUME NEW c \in Callers, Inv, Joining, BinderStep(c) PROVE Joining'
<1> Shape
    BY DEF Inv
<1> USE LifecycleConstants DEF Joining, At, Goto, flags, pipeline, watchdog, mainloop, Procs, Shape
<1>1. CASE Check(c)
    BY Zenon, <1>1 DEF Check
<1>2. CASE Lock(c)
    BY Zenon, <1>2 DEF Lock
<1>3. CASE Publish(c)
    BY Zenon, <1>3 DEF Publish
<1>4. CASE Acquire(c)
    BY Zenon, <1>4 DEF Acquire
<1>5. CASE EglLock(c)
    BY Zenon, <1>5 DEF EglLock
<1>6. CASE FrameDone(c)
    BY Zenon, <1>6 DEF FrameDone
<1>7. CASE VisionInit(c)
    BY Zenon, <1>7 DEF VisionInit, Terminate
<1>8. CASE VisionBuild(c)
    BY Zenon, <1>8 DEF VisionBuild
<1>9. CASE PipeFlag(c)
    BY Zenon, <1>9 DEF PipeFlag, Inv, Locked, LockedPcs
<1>10. CASE PipeSpawn(c)
    BY Zenon, <1>10 DEF PipeSpawn, Terminate
<1> QED
    BY <1>1, <1>2, <1>3, <1>4, <1>5, <1>6, <1>7, <1>8, <1>9, <1>10 DEF BinderStep

(* stop_pipeline clears the flag, joins alone, and only its join ends the handle. *)
LEMMA SharedStepJoining == ASSUME NEW p \in Procs, Inv, Joining, SharedStep(p) PROVE Joining'
<1> Shape
    BY DEF Inv
<1> USE LifecycleConstants DEF Joining, At, Goto, flags, pipeline, watchdog, mainloop, Procs, Shape
<1>1. CASE PipeClear(p)
    BY Zenon, <1>1 DEF PipeClear
<1>2. CASE PipeJoin(p)
    BY Zenon, <1>2 DEF PipeJoin, Terminate
<1>3. CASE PipeJoined(p)
    BY Zenon, <1>3 DEF PipeJoined
<1>4. CASE VisionDown(p)
    BY Zenon, <1>4 DEF VisionDown
<1>5. CASE VisionClose(p)
    BY Zenon, <1>5 DEF VisionClose
<1>6. CASE WdStart(p)
    BY Zenon, <1>6 DEF WdStart, Terminate
<1>7. CASE WdFlag(p)
    BY Zenon, <1>7 DEF WdFlag
<1>8. CASE WdSpawn(p)
    BY Zenon, <1>8 DEF WdSpawn, Terminate
<1>9. CASE WdStop(p)
    BY Zenon, <1>9 DEF WdStop, AfterWatchdog
<1>10. CASE WdClear(p)
    BY Zenon, <1>10 DEF WdClear
<1>11. CASE WdJoin(p)
    BY Zenon, <1>11 DEF WdJoin, AfterWatchdog, Terminate
<1>12. CASE WdJoined(p)
    BY Zenon, <1>12 DEF WdJoined, AfterWatchdog
<1> QED
    BY <1>1, <1>2, <1>3, <1>4, <1>5, <1>6, <1>7, <1>8, <1>9, <1>10, <1>11, <1>12 DEF SharedStep

(* A pipeline thread ends by itself only as far as "done", where it can be joined. *)
LEMMA LoopJoining == ASSUME Joining, Loop PROVE Joining'
<1> QED
    BY DEF Joining, Loop, LoopTest, LoopWork, LoopAcquire, LoopEgl, LoopFrame, LoopRelease, LoopGoto

(* Main's own steps, the monitor thread and signals neither join nor start it. *)
LEMMA OthersJoining ==
    ASSUME Inv, Joining,
           \/ MainHandlers \/ MainFlag \/ MainWait \/ MainCallback \/ MainRelease \/ MainExit
           \/ SpuriousWakeup \/ Monitor \/ Signal \/ HandlerStore \/ HandlerNotify
    PROVE  Joining'
<1> Shape
    BY DEF Inv
<1> USE LifecycleConstants DEF Joining, At, Goto, flags, pipeline, watchdog, mainloop, Procs, Shape
<1>1. CASE MainHandlers
    BY Zenon, <1>1 DEF MainHandlers
<1>2. CASE MainFlag
    BY Zenon, <1>2 DEF MainFlag
<1>3. CASE MainWait
    BY Zenon, <1>3 DEF MainWait
<1>4. CASE MainCallback
    BY Zenon, <1>4 DEF MainCallback
<1>5. CASE MainRelease
    BY Zenon, <1>5 DEF MainRelease
<1>6. CASE SpuriousWakeup
    BY Zenon, <1>6 DEF SpuriousWakeup
<1>7. CASE MainExit
    BY Zenon, <1>7 DEF MainExit, Terminate
<1>8. CASE Monitor
    BY Zenon, <1>8 DEF Monitor
<1>9. CASE Signal
    BY Zenon, <1>9 DEF Signal
<1>10. CASE HandlerStore
    BY Zenon, <1>10 DEF HandlerStore
<1>11. CASE HandlerNotify
    BY Zenon, <1>11 DEF HandlerNotify
<1> QED
    BY <1>1, <1>2, <1>3, <1>4, <1>5, <1>6, <1>7, <1>8, <1>9, <1>10, <1>11

(* Every step keeps it. *)
LEMMA JoiningNext == Inv /\ Joining /\ [Next]_vars => Joining'
<1> SUFFICES ASSUME Inv, Joining, [Next]_vars PROVE Joining'
    OBVIOUS
<1>1. ASSUME NEW c \in Callers, NEW o \in {"start", "stop", "capture"}, Call(c, o) PROVE Joining'
    BY Zenon, <1>1, LifecycleConstants DEF Call, Inv, Joining, At, Goto, flags, pipeline, Procs, Shape
<1>2. CASE UNCHANGED vars
    BY <1>2 DEF vars, pipeline, Joining
<1>3. ASSUME NEW c \in Callers, SharedStep(c) PROVE Joining'
    BY <1>3, SharedStepJoining DEF Procs
<1>4. CASE MainStep
    BY <1>4, SharedStepJoining, OthersJoining DEF MainStep, Procs
<1> QED
    BY <1>1, <1>2, <1>3, <1>4, BinderStepJoining, LoopJoining, OthersJoining
       DEF Next, Arrive, Handler, Stopped

(* For any number of Binder threads: whoever is inside g_pipeline_thread.join() is alone
   there, and the thread it waits for exists and finds its flag cleared or the shut-down
   requested at its next test, although main stops the pipeline without the lock. *)
THEOREM LifecycleJoinedIsLeaving == Spec => []JoinedIsLeaving
<1>1. Init => Joining
    BY Zenon, LifecycleConstants DEF Init, Joining, Procs
<1>2. Inv /\ Joining => JoinedIsLeaving
    BY Zenon DEF Inv, MainStopping, Joining, JoinedIsLeaving, Procs
<1> QED
    BY <1>1, <1>2, JoiningNext, SpecInv, PTL DEF Spec
==============================================================================
