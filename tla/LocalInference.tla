--------------------------- MODULE LocalInference ---------------------------
(***************************************************************************)
(* The on-device model: the inference engine of the application            *)
(* (domain/localmodel/LocalInferenceEngineImpl.kt), the bridge below it    *)
(* (data/localmodel/inference/LlamaCppBridge.kt) and the native table of   *)
(* models (cpp/llama_jni.cpp).  Engine and bridge have a mutex each; the   *)
(* native table has one that protects the table only: a call looks up a    *)
(* pointer under it and works on the pointer after releasing it.  pc[p] is *)
(* where coroutine p is; a coroutine may be cancelled anywhere and notices *)
(* it at its next suspension point.  analyzeScreenshot and analyzeBuffer   *)
(* differ in the image only.                                               *)
(***************************************************************************)
EXTENDS Integers, FiniteSets

CONSTANTS
    Callers,            \* coroutines that call the engine
    Jobs,               \* background unload jobs that may be alive at once (a bound)
    Models, None,
    MaxCalls            \* a bound

Procs == Callers \cup Jobs

ASSUME InferenceConstants ==
    /\ None \notin Procs /\ None \notin Models /\ Callers \cap Jobs = {} /\ MaxCalls \in Nat

VARIABLES
    g_models,           \* the native table: handle -> model
    g_nextModelId,
    using,              \* the handle of the context a native call of p works on, 0 if none
    modelHandle, bridgeMutex,
    engineMutex, loadedModelId, inferenceState, backgroundUnloadJob,
    activeModelId,      \* the user's choice, in the configuration store
    pc, op, wanted, outcome,    \* locals: the call served, the model to load, a result
    cancelled,
    interrupted,        \* history: the last load succeeded in a cancelled coroutine
    calls

native == <<g_models, g_nextModelId>>
fields == <<loadedModelId, inferenceState>>
locals == <<op, wanted, outcome>>
surroundings == <<activeModelId, calls>>
vars == <<native, using, modelHandle, bridgeMutex, engineMutex, fields, backgroundUnloadJob,
          pc, locals, cancelled, interrupted, surroundings>>

Init ==
    /\ g_models = [h \in {} |-> None] /\ g_nextModelId = 1
    /\ using = [p \in Procs |-> 0]
    /\ modelHandle = 0 /\ bridgeMutex = None
    /\ engineMutex = None /\ loadedModelId = None /\ inferenceState = "Idle"
    /\ backgroundUnloadJob = None
    /\ activeModelId \in Models \cup {None}
    /\ pc = [p \in Procs |-> "idle"] /\ op = [p \in Procs |-> "none"]
    /\ wanted = [p \in Procs |-> None] /\ outcome = [p \in Procs |-> "none"]
    /\ cancelled = {} /\ interrupted = FALSE /\ calls = 0

At(p, l) == pc[p] = l
Go(p, l) == pc' = [pc EXCEPT ![p] = l]
isLoaded == modelHandle # 0

(* getModelContext: the pointer for a handle, none for a handle that is not in the table. *)
getModelContext(h) == IF h \in DOMAIN g_models THEN h ELSE 0
Work(p, h) == using' = [using EXCEPT ![p] = getModelContext(h)]
Rest(p) == using' = [using EXCEPT ![p] = 0]

(* The locals of a call end with it. *)
Forget(p) ==
    /\ op' = [op EXCEPT ![p] = "none"]
    /\ wanted' = [wanted EXCEPT ![p] = None]
    /\ outcome' = [outcome EXCEPT ![p] = "none"]

(* A call of the engine ends: whatever p holds is released. *)
Ends(p) ==
    /\ Go(p, "idle") /\ Forget(p)
    /\ engineMutex' = IF engineMutex = p THEN None ELSE engineMutex
    /\ bridgeMutex' = IF bridgeMutex = p THEN None ELSE bridgeMutex
    /\ cancelled' = cancelled \ {p}

-----------------------------------------------------------------------------
(* analyzeScreenshot, analyzeBuffer, loadModel and unloadModel begin under the engine's
   mutex; ensureModelLoaded looks only at whether some model is loaded. *)

(* A mutant in which unloadModel does not take the mutex. *)
LockEngineButUnload(p) ==
    /\ pc[p] \in {"analyze", "load", "unload"} /\ (engineMutex = None \/ At(p, "unload"))
    /\ engineMutex' = IF At(p, "unload") THEN engineMutex ELSE p
    /\ op' = [op EXCEPT ![p] = pc[p]]
    /\ Go(p, CASE At(p, "unload") -> "unload_lock"
               [] At(p, "analyze") /\ isLoaded -> "ensured"
               [] OTHER -> "find")
    /\ UNCHANGED <<native, using, modelHandle, bridgeMutex, fields, backgroundUnloadJob,
                   wanted, outcome, cancelled, interrupted, surroundings>>

LockEngine(p) ==
    /\ pc[p] \in {"analyze", "load", "unload"} /\ engineMutex = None
    /\ engineMutex' = p
    /\ op' = [op EXCEPT ![p] = pc[p]]
    /\ Go(p, CASE At(p, "unload") -> "unload_lock"
               [] At(p, "analyze") /\ isLoaded -> "ensured"
               [] OTHER -> "find")
    /\ UNCHANGED <<native, using, modelHandle, bridgeMutex, fields, backgroundUnloadJob,
                   wanted, outcome, cancelled, interrupted, surroundings>>

(* loadModelInternal: the active model, its record and its file (external: they may be
   missing) decide what to load. *)
FindModel(p) ==
    /\ At(p, "find")
    /\ \/ inferenceState' = "Error" /\ Ends(p)
       \/ /\ activeModelId # None /\ wanted' = [wanted EXCEPT ![p] = activeModelId]
          /\ inferenceState' = "Loading" /\ Go(p, "load_lock")
          /\ UNCHANGED <<engineMutex, bridgeMutex, cancelled, op, outcome>>
    /\ UNCHANGED <<native, using, modelHandle, loadedModelId, backgroundUnloadJob, interrupted,
                   surroundings>>

engineKeeps == <<engineMutex, fields, backgroundUnloadJob, op, wanted, cancelled, surroundings>>

(* A mutant that loads beside the model in memory. *)
LockBridgeKeeping(p) ==
    /\ pc[p] \in {"load_lock", "unload_lock"} /\ bridgeMutex = None /\ p \notin cancelled
    /\ bridgeMutex' = p
    /\ Go(p, CASE At(p, "load_lock") -> "native_load"
               [] At(p, "unload_lock") /\ isLoaded -> "erase"
               [] OTHER -> "unload_end")
    /\ UNCHANGED <<native, using, modelHandle, engineKeeps, outcome, interrupted>>

(* LlamaCppBridge.loadModel and unload, under the bridge's mutex.  A model in memory is
   removed first; with nothing to remove, unload is done. *)
LockBridge(p) ==
    /\ pc[p] \in {"load_lock", "unload_lock"} /\ bridgeMutex = None /\ p \notin cancelled
    /\ bridgeMutex' = p
    /\ Go(p, CASE isLoaded -> "erase"
               [] ~ isLoaded /\ At(p, "load_lock") -> "native_load"
               [] OTHER -> "unload_end")
    /\ UNCHANGED <<native, using, modelHandle, engineKeeps, outcome, interrupted>>

(* unloadModelNative frees the context; only then the bridge forgets its handle. *)
UnloadNative(p) ==
    /\ At(p, "erase")
    /\ g_models' = [h \in DOMAIN g_models \ {modelHandle} |-> g_models[h]]
    /\ Go(p, "forget")
    /\ UNCHANGED <<g_nextModelId, using, modelHandle, bridgeMutex, engineKeeps, outcome, interrupted>>

ForgetHandle(p) ==
    /\ At(p, "forget")
    /\ modelHandle' = 0
    /\ Go(p, IF op[p] = "unload" THEN "unload_end" ELSE "native_load")
    /\ UNCHANGED <<native, using, bridgeMutex, engineKeeps, outcome, interrupted>>

(* A mutant that takes the next handle without counting on. *)
LoadNativeSame(p) ==
    /\ At(p, "native_load") /\ Go(p, "load_end")
    /\ \/ /\ g_models' = [h \in DOMAIN g_models \cup {g_nextModelId} |->
                             IF h = g_nextModelId THEN wanted[p] ELSE g_models[h]]
          /\ modelHandle' = g_nextModelId
          /\ outcome' = [outcome EXCEPT ![p] = "ok"]
          /\ UNCHANGED g_nextModelId
       \/ outcome' = [outcome EXCEPT ![p] = "failed"] /\ UNCHANGED <<native, modelHandle>>
    /\ UNCHANGED <<using, bridgeMutex, engineKeeps, interrupted>>

(* loadModelNative enters the new context in the table, or fails. *)
LoadNative(p) ==
    /\ At(p, "native_load") /\ Go(p, "load_end")
    /\ \/ /\ g_models' = [h \in DOMAIN g_models \cup {g_nextModelId} |->
                             IF h = g_nextModelId THEN wanted[p] ELSE g_models[h]]
          /\ g_nextModelId' = g_nextModelId + 1
          /\ modelHandle' = g_nextModelId
          /\ outcome' = [outcome EXCEPT ![p] = "ok"]
       \/ outcome' = [outcome EXCEPT ![p] = "failed"] /\ UNCHANGED <<native, modelHandle>>
    /\ UNCHANGED <<using, bridgeMutex, engineKeeps, interrupted>>

(* A mutant that records the model that is active by now. *)
LoadEndActive(p) ==
    /\ At(p, "load_end") /\ p \notin cancelled
    /\ IF outcome[p] = "ok"
       THEN /\ loadedModelId' = activeModelId /\ Work(p, modelHandle) /\ Go(p, "load_usage")
            /\ bridgeMutex' = None /\ interrupted' = FALSE
            /\ UNCHANGED <<inferenceState, engineMutex, cancelled, locals>>
       ELSE inferenceState' = "Error" /\ Ends(p) /\ UNCHANGED <<loadedModelId, using, interrupted>>
    /\ UNCHANGED <<native, modelHandle, backgroundUnloadJob, surroundings>>

(* Back in the engine: the model is recorded and its memory use is asked for, which the
   bridge does without its mutex. *)
LoadEnd(p) ==
    /\ At(p, "load_end") /\ p \notin cancelled
    /\ IF outcome[p] = "ok"
       THEN /\ loadedModelId' = wanted[p] /\ Work(p, modelHandle) /\ Go(p, "load_usage")
            /\ bridgeMutex' = None /\ interrupted' = FALSE
            /\ UNCHANGED <<inferenceState, engineMutex, cancelled, locals>>
       ELSE inferenceState' = "Error" /\ Ends(p) /\ UNCHANGED <<loadedModelId, using, interrupted>>
    /\ UNCHANGED <<native, modelHandle, backgroundUnloadJob, surroundings>>

LoadReady(p) ==
    /\ At(p, "load_usage")
    /\ Rest(p) /\ inferenceState' = "Ready"
    /\ IF op[p] = "analyze"
       THEN Go(p, "ensured") /\ UNCHANGED <<engineMutex, bridgeMutex, cancelled, locals>>
       ELSE Ends(p)
    /\ UNCHANGED <<native, modelHandle, loadedModelId, backgroundUnloadJob, interrupted, surroundings>>

-----------------------------------------------------------------------------
(* The inference proper.  Every exception from here on ends in handleInferenceError. *)

(* A mutant that leaves the mutex locked when no model is recorded. *)
EnsuredLocked(p) ==
    /\ At(p, "ensured")
    /\ IF loadedModelId = None
       THEN Go(p, "idle") /\ Forget(p) /\ cancelled' = cancelled \ {p} /\ UNCHANGED inferenceState
       ELSE inferenceState' = "Inferring" /\ Go(p, "infer_lock") /\ UNCHANGED <<cancelled, locals>>
    /\ UNCHANGED <<native, using, modelHandle, bridgeMutex, engineMutex, loadedModelId,
                   backgroundUnloadJob, interrupted, surroundings>>

Ensured(p) ==
    /\ At(p, "ensured")
    /\ IF loadedModelId = None THEN Ends(p) /\ UNCHANGED inferenceState
       ELSE /\ inferenceState' = "Inferring" /\ Go(p, "infer_lock")
            /\ UNCHANGED <<engineMutex, bridgeMutex, cancelled, locals>>
    /\ UNCHANGED <<native, using, modelHandle, loadedModelId, backgroundUnloadJob, interrupted,
                   surroundings>>

(* LlamaCppBridge.inference: the native call is given the handle and works on the context.
   The time-out around it is noticed when it returns. *)
InferLock(p) ==
    /\ At(p, "infer_lock") /\ bridgeMutex = None /\ p \notin cancelled
    /\ bridgeMutex' = p
    /\ IF isLoaded THEN Work(p, modelHandle) /\ Go(p, "inferring") /\ UNCHANGED outcome
       ELSE /\ outcome' = [outcome EXCEPT ![p] = "failed"] /\ Go(p, "infer_end")
            /\ UNCHANGED using
    /\ UNCHANGED <<native, modelHandle, engineKeeps, interrupted>>

InferNative(p) ==
    /\ At(p, "inferring") /\ Go(p, "infer_end")
    /\ \E r \in {"ok", "failed"} :
          /\ r = "ok" => using[p] # 0
          /\ outcome' = [outcome EXCEPT ![p] = r]
    /\ Rest(p)
    /\ UNCHANGED <<native, modelHandle, bridgeMutex, engineKeeps, interrupted>>

InferEnd(p) ==
    /\ At(p, "infer_end") /\ p \notin cancelled
    /\ bridgeMutex' = None /\ Work(p, modelHandle) /\ Go(p, "infer_usage")
    /\ UNCHANGED <<native, modelHandle, engineKeeps, outcome, interrupted>>

InferReady(p) ==
    /\ At(p, "infer_usage")
    /\ Rest(p) /\ inferenceState' = IF outcome[p] = "ok" THEN "Ready" ELSE "Error"
    /\ Ends(p)
    /\ UNCHANGED <<native, modelHandle, loadedModelId, backgroundUnloadJob, interrupted, surroundings>>

(* The rest of unloadModel. *)
UnloadEnd(p) ==
    /\ At(p, "unload_end") /\ p \notin cancelled
    /\ loadedModelId' = None /\ inferenceState' = "Idle" /\ Ends(p)
    /\ UNCHANGED <<native, using, modelHandle, backgroundUnloadJob, interrupted, surroundings>>

-----------------------------------------------------------------------------
(* onAppBackground and onAppForeground, outside the mutex: the application is left, and
   after a while a job unloads the model; it is entered again, and the job is cancelled. *)

appKeeps == <<native, using, modelHandle, bridgeMutex, engineMutex, fields, locals, interrupted,
              surroundings>>

Cancelling == IF backgroundUnloadJob # None /\ pc[backgroundUnloadJob] # "idle"
              THEN cancelled \cup {backgroundUnloadJob} ELSE cancelled

OnAppBackground(p) ==
    /\ \/ /\ At(p, "background") /\ Go(p, IF isLoaded THEN "schedule" ELSE "idle")
          /\ UNCHANGED backgroundUnloadJob /\ cancelled' = IF isLoaded THEN cancelled ELSE cancelled \ {p}
       \/ /\ At(p, "schedule") /\ cancelled' = Cancelling /\ Go(p, "launch")
          /\ UNCHANGED backgroundUnloadJob
       \/ \E j \in Jobs :
             /\ At(p, "launch") /\ At(j, "idle") /\ backgroundUnloadJob' = j
             /\ pc' = [pc EXCEPT ![p] = "idle", ![j] = "delay"]
             /\ cancelled' = cancelled \ {p}
    /\ UNCHANGED appKeeps

OnAppForeground(p) ==
    /\ \/ /\ At(p, "foreground") /\ cancelled' = Cancelling /\ Go(p, "forget_job")
          /\ UNCHANGED backgroundUnloadJob
       \/ /\ At(p, "forget_job") /\ backgroundUnloadJob' = None /\ Go(p, "reload")
          /\ UNCHANGED cancelled
       \/ /\ At(p, "reload") /\ UNCHANGED backgroundUnloadJob
          /\ IF activeModelId # None /\ ~ isLoaded THEN Go(p, "load") /\ UNCHANGED cancelled
             ELSE Go(p, "idle") /\ cancelled' = cancelled \ {p}
    /\ UNCHANGED appKeeps

JobWakes(j) ==
    /\ At(j, "delay") /\ j \notin cancelled /\ Go(j, "unload")
    /\ UNCHANGED <<appKeeps, backgroundUnloadJob, cancelled>>

-----------------------------------------------------------------------------
(* Cancellation.  A cancelled coroutine is abandoned at a suspension point: where it waits
   for a mutex, a stored value or the end of the delay, and where work on the dispatcher
   for blocking calls begins or ends; native calls are never cut short.  The engine turns
   a cancelled inference into an error; a cancelled load or unload it does not notice. *)

Suspended == {"analyze", "load", "unload", "find", "load_lock", "load_end", "infer_lock",
              "infer_end", "unload_lock", "unload_end", "schedule", "reload", "delay"}

abandonKeeps == <<native, using, modelHandle, loadedModelId, backgroundUnloadJob, surroundings>>

(* A mutant that does not catch the cancellation of an inference. *)
AbandonUncaught(p) ==
    /\ p \in cancelled /\ pc[p] \in Suspended /\ Ends(p)
    /\ UNCHANGED inferenceState
    /\ interrupted' = IF At(p, "load_end") /\ outcome[p] = "ok" THEN TRUE ELSE interrupted
    /\ UNCHANGED abandonKeeps

Abandon(p) ==
    /\ p \in cancelled /\ pc[p] \in Suspended /\ Ends(p)
    /\ inferenceState' = IF pc[p] \in {"infer_lock", "infer_end"} THEN "Error" ELSE inferenceState
    /\ interrupted' = IF At(p, "load_end") /\ outcome[p] = "ok" THEN TRUE ELSE interrupted
    /\ UNCHANGED abandonKeeps

(* The callers, the user, and the end of a caller's scope.  BOUND: MaxCalls. *)
Call(p, method) ==
    /\ At(p, "idle") /\ calls < MaxCalls /\ calls' = calls + 1 /\ Go(p, method)
    /\ UNCHANGED <<native, using, modelHandle, bridgeMutex, engineMutex, fields,
                   backgroundUnloadJob, locals, cancelled, interrupted, activeModelId>>

SetActiveModel ==
    /\ \E m \in (Models \cup {None}) \ {activeModelId} : activeModelId' = m
    /\ UNCHANGED <<native, using, modelHandle, bridgeMutex, engineMutex, fields,
                   backgroundUnloadJob, pc, locals, cancelled, interrupted, calls>>

Cancel(p) ==
    /\ pc[p] # "idle" /\ p \notin cancelled /\ cancelled' = cancelled \cup {p}
    /\ UNCHANGED <<appKeeps, backgroundUnloadJob, pc>>

Methods == {"analyze", "load", "unload", "background", "foreground"}

Step(p) ==
    \/ LockEngine(p) \/ FindModel(p) \/ LockBridge(p) \/ UnloadNative(p) \/ ForgetHandle(p)
    \/ LoadNative(p) \/ LoadEnd(p) \/ LoadReady(p)
    \/ Ensured(p) \/ InferLock(p) \/ InferNative(p) \/ InferEnd(p) \/ InferReady(p)
    \/ UnloadEnd(p) \/ OnAppBackground(p) \/ OnAppForeground(p)
    \/ JobWakes(p) \/ Abandon(p)

Next ==
    \/ \E p \in Procs : Step(p)
    \/ \E p \in Callers : Cancel(p) \/ \E m \in Methods : Call(p, m)
    \/ SetActiveModel

(* A coroutine that can go on does; nobody is obliged to call, cancel or choose. *)
Spec == Init /\ [][Next]_vars /\ \A p \in Procs : WF_vars(Step(p))

-----------------------------------------------------------------------------
(* Types.  Every context in llama_jni.cpp's table has a handle that was given out and
   will not be given out again. *)
TypeOK ==
    /\ g_nextModelId \in Nat /\ modelHandle \in Nat
    /\ DOMAIN g_models \subseteq 1 .. g_nextModelId - 1
    /\ \A h \in DOMAIN g_models : g_models[h] \in Models
    /\ using \in [Procs -> Nat]
    /\ bridgeMutex \in Procs \cup {None} /\ engineMutex \in Procs \cup {None}
    /\ loadedModelId \in Models \cup {None} /\ activeModelId \in Models \cup {None}
    /\ backgroundUnloadJob \in Jobs \cup {None}
    /\ wanted \in [Procs -> Models \cup {None}]
    /\ \A p \in cancelled : p \in Procs /\ pc[p] # "idle"

(* No native call works on a context that has been freed.  llama_jni.cpp looks the
   context up under its mutex and uses it after releasing it, and the bridge asks for the
   memory use without its own mutex, so all depends on how the engine calls. *)
NativeSafe ==
    \A p \in Procs : using[p] # 0 => using[p] \in DOMAIN g_models

(* Whenever the bridge is not at work, the native table holds the one model whose handle
   the bridge knows, and nothing else: cancellations and failures neither leak a model
   nor leave the handle of a freed one. *)
OneModel ==
    bridgeMutex = None => DOMAIN g_models = {modelHandle} \ {0}

(* When the engine is free and a model is in memory, the engine has recorded which one,
   unless the coroutine that loaded it was cancelled at the very end of the load; that
   exception cannot be dropped (ensureModelLoaded, loadModelInternal). *)
RecordedModel ==
    engineMutex = None /\ modelHandle # 0 /\ ~ interrupted => loadedModelId = g_models[modelHandle]

(* The engine shows that it is inferring only while some coroutine is: time-outs,
   failures and cancellations all end in another state. *)
InferringMeansWork ==
    inferenceState = "Inferring" =>
        \E p \in Procs : pc[p] \in {"infer_lock", "inferring", "infer_end", "infer_usage"}

(* Whoever holds the engine's mutex can go on: it is inside a call, never waits for that
   mutex again, and finds the bridge's free whenever it asks for it, since nobody is in
   the bridge without holding both.  So no failure or cancellation leaves a mutex locked,
   and the engine's withLock around the bridge's cannot deadlock. *)
HolderGoesOn ==
    /\ bridgeMutex # None => bridgeMutex = engineMutex
    /\ \A p \in Procs : engineMutex = p =>
          /\ pc[p] \notin {"idle", "analyze", "load", "unload"}
          /\ pc[p] \in {"load_lock", "unload_lock", "infer_lock"} => bridgeMutex = None

(* Every call of the engine and every background job comes to its end, although two
   mutexes are taken inside each other and native calls cannot be interrupted. *)
CallsEnd ==
    \A p \in Procs : pc[p] # "idle" ~> pc[p] = "idle"
=============================================================================
