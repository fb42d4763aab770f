----------------------- MODULE LocalInferenceProofs -----------------------
(***************************************************************************)
(* Proofs about the local inference engine, for any number of callers,     *)
(* jobs, models and calls.                                                 *)
(***************************************************************************)
EXTENDS LocalInference, TLAPS

(* Where a coroutine holds the bridge's mutex, and where it holds the engine's. *)
BridgeLabels == {"erase", "forget", "native_load", "load_end", "inferring", "infer_end", "unload_end"}
EngineLabels == BridgeLabels \cup
    {"find", "load_lock", "load_usage", "ensured", "infer_lock", "infer_usage", "unload_lock"}

Shape ==
    /\ pc = [p \in Procs |-> pc[p]] /\ op = [p \in Procs |-> op[p]]
    /\ outcome = [p \in Procs |-> outcome[p]]
    /\ g_nextModelId > 0
    /\ TypeOK

Locks ==
    \A p \in Procs : /\ pc[p] \in EngineLabels => engineMutex = p
                     /\ pc[p] \in BridgeLabels => bridgeMutex = p

(* The native table agrees with the bridge's handle, but for the moment after a context
   was freed; nothing is loaded when a load begins and when an unload has ended. *)
Table ==
    /\ (\A p \in Procs : pc[p] # "forget") => DOMAIN g_models = {modelHandle} \ {0}
    /\ \A p \in Procs : pc[p] = "forget" => DOMAIN g_models = {}
    /\ \A p \in Procs : pc[p] \in {"native_load", "unload_end"} => modelHandle = 0

(* A native call under way works on the model in memory, in a coroutine that holds the
   engine's mutex. *)
Pointers ==
    \A p \in Procs : using[p] # 0 =>
        /\ pc[p] \in {"load_usage", "inferring", "infer_usage"}
        /\ using[p] = modelHandle /\ modelHandle \in DOMAIN g_models

(* The model in memory is the recorded one, or the one a load is about to record. *)
Recorded ==
    /\ modelHandle # 0 /\ ~ interrupted /\ (\A p \in Procs : pc[p] \notin {"forget", "load_end"})
          => loadedModelId = g_models[modelHandle]
    /\ \A p \in Procs : pc[p] = "load_end" =>
          IF outcome[p] = "ok" THEN modelHandle # 0 /\ wanted[p] = g_models[modelHandle]
          ELSE modelHandle = 0

(* What a load is about to load was chosen; an unload loads nothing. *)
Chosen ==
    \A p \in Procs :
        /\ pc[p] \in {"find", "load_lock"} => op[p] # "unload"
        /\ pc[p] = "unload_lock" => op[p] = "unload"
        /\ pc[p] \in {"load_lock", "native_load"} => wanted[p] \in Models
        /\ pc[p] \in {"erase", "forget"} /\ op[p] # "unload" => wanted[p] \in Models

Inv == Shape /\ Chosen /\ Locks /\ Table /\ Pointers /\ Recorded

(* A coroutine that ends is no longer among the cancelled ones, which are all at work. *)
LEMMA CancelledAtWork ==
    ASSUME Shape, NEW p \in Procs,
           \/ pc' = [pc EXCEPT ![p] = "idle"] /\ cancelled' = cancelled \ {p}
           \/ pc' = [pc EXCEPT ![p] = "infer_lock"] /\ cancelled' = cancelled
    PROVE  (\A q \in cancelled : q \in Procs /\ pc[q] # "idle")'
<1> QED
    BY Zenon DEF Shape, TypeOK

(* Before any call nothing is loaded and nobody holds a mutex. *)
LEMMA InvInit == Init => Inv
<1> SUFFICES ASSUME Init PROVE Inv
    OBVIOUS
<1>1. Shape
    BY DEF Init, Shape, TypeOK, Procs
<1>2. Chosen /\ Locks /\ Table /\ Pointers /\ Recorded
    BY DEF Init, Chosen, Locks, Table, Pointers, Recorded, EngineLabels, BridgeLabels
<1> QED
    BY <1>1, <1>2 DEF Inv

(* Taking the engine's mutex keeps the invariant. *)
LEMMA LockEngineInv == ASSUME NEW p \in Procs, Inv, LockEngine(p) PROVE Inv'
<1> USE InferenceConstants DEF Inv, LockEngine, At, Go, Ends, Forget, Work, Rest, getModelContext, isLoaded, native, fields, locals, surroundings, engineKeeps, appKeeps, abandonKeeps
<1>1. Shape'
    BY Zenon DEF Shape, TypeOK, Chosen
<1>6. Chosen'
    BY Zenon DEF Chosen, Shape, TypeOK, Suspended
<1>2. Locks'
    BY Zenon DEF Locks, Shape, TypeOK, EngineLabels, BridgeLabels, Suspended
<1>3. Table'
    BY DEF Table, Locks, Shape, TypeOK, EngineLabels, BridgeLabels, Suspended
<1>4. Pointers'
    BY DEF Pointers, Locks, Table, Shape, TypeOK, EngineLabels, BridgeLabels, Suspended
<1>5. Recorded'
    BY DEF Recorded, Table, Locks, Shape, TypeOK, EngineLabels, BridgeLabels, Suspended
<1> QED
    BY <1>1, <1>2, <1>3, <1>4, <1>5, <1>6 DEF Inv

(* The look-up of the chosen model keeps it, whether the model is found or missing. *)
LEMMA FindModelInv == ASSUME NEW p \in Procs, Inv, FindModel(p) PROVE Inv'
<1> USE InferenceConstants DEF Inv, FindModel, At, Go, Ends, Forget, Work, Rest, getModelContext, isLoaded, native, fields, locals, surroundings, engineKeeps, appKeeps, abandonKeeps
<1>1. Shape'
    <2>1. /\ (pc = [q \in Procs |-> pc[q]])' /\ (op = [q \in Procs |-> op[q]])'
          /\ (outcome = [q \in Procs |-> outcome[q]])'
        BY DEF Shape
    <2>2. /\ (g_nextModelId \in Nat /\ g_nextModelId > 0 /\ modelHandle \in Nat)'
          /\ (DOMAIN g_models \subseteq 1 .. g_nextModelId - 1)'
          /\ (\A h \in DOMAIN g_models : g_models[h] \in Models)'
        BY DEF Shape, TypeOK, Chosen
    <2>3. (using \in [Procs -> Nat] /\ wanted \in [Procs -> Models \cup {None}])'
        BY DEF Shape, TypeOK
    <2>4. (\A q \in cancelled : q \in Procs /\ pc[q] # "idle")'
        BY DEF Shape, TypeOK
    <2>5. /\ (bridgeMutex \in Procs \cup {None} /\ engineMutex \in Procs \cup {None})'
          /\ (loadedModelId \in Models \cup {None} /\ activeModelId \in Models \cup {None})'
          /\ (backgroundUnloadJob \in Jobs \cup {None})'
        BY DEF Shape, TypeOK
    <2> QED
        BY <2>1, <2>2, <2>3, <2>4, <2>5 DEF Shape, TypeOK
<1>6. Chosen'
    BY DEF Chosen, Shape, TypeOK, Suspended
<1>2. Locks'
    BY DEF Locks, Shape, TypeOK, EngineLabels, BridgeLabels, Suspended
<1>3. Table'
    BY DEF Table, Locks, Shape, TypeOK, EngineLabels, BridgeLabels, Suspended
<1>4. Pointers'
    BY Zenon DEF Pointers, Locks, Table, Shape, TypeOK, EngineLabels, BridgeLabels, Suspended
<1>5. Recorded'
    BY ZenonT(40) DEF Recorded, Table, Locks, Shape, TypeOK, EngineLabels, BridgeLabels, Suspended
<1> QED
    BY <1>1, <1>2, <1>3, <1>4, <1>5, <1>6 DEF Inv

(* Taking the bridge's mutex keeps it. *)
LEMMA LockBridgeInv == ASSUME NEW p \in Procs, Inv, LockBridge(p) PROVE Inv'
<1> USE InferenceConstants DEF Inv, LockBridge, At, Go, Ends, Forget, Work, Rest, getModelContext, isLoaded, native, fields, locals, surroundings, engineKeeps, appKeeps, abandonKeeps
<1>1. Shape'
    BY DEF Shape, TypeOK, Chosen
<1>6. Chosen'
    BY DEF Chosen, Shape, TypeOK, Suspended
<1>2. Locks'
    BY DEF Locks, Shape, TypeOK, EngineLabels, BridgeLabels, Suspended
<1>3. Table'
    BY DEF Table, Locks, Shape, TypeOK, EngineLabels, BridgeLabels, Suspended
<1>4. Pointers'
    BY DEF Pointers, Locks, Table, Shape, TypeOK, EngineLabels, BridgeLabels, Suspended
<1>5. Recorded'
    BY DEF Recorded, Table, Locks, Shape, TypeOK, EngineLabels, BridgeLabels, Suspended
<1> QED
    BY <1>1, <1>2, <1>3, <1>4, <1>5, <1>6 DEF Inv

(* Freeing a context keeps it: nobody else works on it. *)
LEMMA UnloadNativeInv == ASSUME NEW p \in Procs, Inv, UnloadNative(p) PROVE Inv'
<1> USE InferenceConstants DEF Inv, UnloadNative, At, Go, Ends, Forget, Work, Rest, getModelContext, isLoaded, native, fields, locals, surroundings, engineKeeps, appKeeps, abandonKeeps
<1>1. Shape'
    BY DEF Shape, TypeOK, Chosen
<1>6. Chosen'
    BY DEF Chosen, Shape, TypeOK, Suspended
<1>2. Locks'
    BY DEF Locks, Shape, TypeOK, EngineLabels, BridgeLabels, Suspended
<1>3. Table'
    BY DEF Table, Locks, Shape, TypeOK, EngineLabels, BridgeLabels, Suspended
<1>4. Pointers'
    BY DEF Pointers, Locks, Table, Shape, TypeOK, EngineLabels, BridgeLabels, Suspended
<1>5. Recorded'
    BY DEF Recorded, Table, Locks, Shape, TypeOK, EngineLabels, BridgeLabels, Suspended
<1> QED
    BY <1>1, <1>2, <1>3, <1>4, <1>5, <1>6 DEF Inv

(* Clearing the bridge's handle restores the agreement of handle and table. *)
LEMMA ForgetHandleInv == ASSUME NEW p \in Procs, Inv, ForgetHandle(p) PROVE Inv'
<1> USE InferenceConstants DEF Inv, ForgetHandle, At, Go, Ends, Forget, Work, Rest, getModelContext, isLoaded, native, fields, locals, surroundings, engineKeeps, appKeeps, abandonKeeps
<1>1. Shape'
    BY DEF Shape, TypeOK, Chosen
<1>6. Chosen'
    BY DEF Chosen, Shape, TypeOK, Suspended
<1>2. Locks'
    BY DEF Locks, Shape, TypeOK, EngineLabels, BridgeLabels, Suspended
<1>3. Table'
    BY Zenon DEF Table, Locks, Shape, TypeOK, EngineLabels, BridgeLabels, Suspended
<1>4. Pointers'
    BY DEF Pointers, Locks, Table, Shape, TypeOK, EngineLabels, BridgeLabels, Suspended
<1>5. Recorded'
    BY DEF Recorded, Table, Locks, Shape, TypeOK, EngineLabels, BridgeLabels, Suspended
<1> QED
    BY <1>1, <1>2, <1>3, <1>4, <1>5, <1>6 DEF Inv

(* The native load keeps it, whether it succeeds or fails. *)
LEMMA LoadNativeInv == ASSUME NEW p \in Procs, Inv, LoadNative(p) PROVE Inv'
<1> USE InferenceConstants DEF Inv, LoadNative, At, Go, Ends, Forget, Work, Rest, getModelContext, isLoaded, native, fields, locals, surroundings, engineKeeps, appKeeps, abandonKeeps
<1>1. Shape'
    <2>1. /\ (pc = [q \in Procs |-> pc[q]])' /\ (op = [q \in Procs |-> op[q]])'
          /\ (outcome = [q \in Procs |-> outcome[q]])'
        BY DEF Shape
    <2>2. /\ (g_nextModelId \in Nat /\ g_nextModelId > 0 /\ modelHandle \in Nat)'
          /\ (DOMAIN g_models \subseteq 1 .. g_nextModelId - 1)'
          /\ (\A h \in DOMAIN g_models : g_models[h] \in Models)'
        BY DEF Shape, TypeOK, Chosen
    <2>3. (using \in [Procs -> Nat] /\ wanted \in [Procs -> Models \cup {None}])'
        BY DEF Shape, TypeOK
    <2>4. (\A q \in cancelled : q \in Procs /\ pc[q] # "idle")'
        BY SMTT(40) DEF Shape, TypeOK, Cancelling, Procs
    <2>5. /\ (bridgeMutex \in Procs \cup {None} /\ engineMutex \in Procs \cup {None})'
          /\ (loadedModelId \in Models \cup {None} /\ activeModelId \in Models \cup {None})'
          /\ (backgroundUnloadJob \in Jobs \cup {None})'
        BY DEF Shape, TypeOK
    <2> QED
        BY <2>1, <2>2, <2>3, <2>4, <2>5 DEF Shape, TypeOK
<1>6. Chosen'
    BY DEF Chosen, Shape, TypeOK, Suspended
<1>2. Locks'
    BY DEF Locks, Shape, TypeOK, EngineLabels, BridgeLabels, Suspended
<1>3. Table'
    <2>1. modelHandle = 0 /\ DOMAIN g_models = {}
        BY Zenon DEF Table, Locks, Shape, TypeOK, BridgeLabels
    <2>2. DOMAIN g_models' = {modelHandle'} \ {0}
        <3>1. CASE UNCHANGED <<g_models, modelHandle>>
            BY <2>1, <3>1
        <3>2. CASE modelHandle' = g_nextModelId /\ DOMAIN g_models' = {} \cup {g_nextModelId}
            BY <3>2 DEF Shape, TypeOK
        <3> QED
            BY <2>1, <3>1, <3>2
    <2>3. \A q \in Procs : pc'[q] \notin {"forget", "native_load", "unload_end"}
        BY DEF Locks, Shape, TypeOK, BridgeLabels
    <2> QED
        BY <2>2, <2>3 DEF Table
<1>4. Pointers'
    BY DEF Pointers, Locks, Table, Shape, TypeOK, EngineLabels, BridgeLabels, Suspended
<1>5. Recorded'
    BY DEF Recorded, Table, Locks, Shape, TypeOK, EngineLabels, BridgeLabels, Suspended
<1> QED
    BY <1>1, <1>2, <1>3, <1>4, <1>5, <1>6 DEF Inv

(* The end of a load keeps it: the model is recorded, or interrupted says that it was not. *)
LEMMA LoadEndInv == ASSUME NEW p \in Procs, Inv, LoadEnd(p) PROVE Inv'
<1> USE InferenceConstants DEF Inv, LoadEnd, At, Go, Ends, Forget, Work, Rest, getModelContext, isLoaded, native, fields, locals, surroundings, engineKeeps, appKeeps, abandonKeeps
<1>1. Shape'
    <2>1. /\ (pc = [q \in Procs |-> pc[q]])' /\ (op = [q \in Procs |-> op[q]])'
          /\ (outcome = [q \in Procs |-> outcome[q]])'
        BY DEF Shape
    <2>2. /\ (g_nextModelId \in Nat /\ g_nextModelId > 0 /\ modelHandle \in Nat)'
          /\ (DOMAIN g_models \subseteq 1 .. g_nextModelId - 1)'
          /\ (\A h \in DOMAIN g_models : g_models[h] \in Models)'
        BY DEF Shape, TypeOK, Chosen
    <2>3. (using \in [Procs -> Nat] /\ wanted \in [Procs -> Models \cup {None}])'
        BY DEF Shape, TypeOK
    <2>4. (\A q \in cancelled : q \in Procs /\ pc[q] # "idle")'
        BY DEF Shape, TypeOK
    <2>5. /\ (bridgeMutex \in Procs \cup {None} /\ engineMutex \in Procs \cup {None})'
          /\ (loadedModelId \in Models \cup {None} /\ activeModelId \in Models \cup {None})'
          /\ (backgroundUnloadJob \in Jobs \cup {None})'
        BY DEF Shape, TypeOK
    <2> QED
        BY <2>1, <2>2, <2>3, <2>4, <2>5 DEF Shape, TypeOK
<1>6. Chosen'
    BY DEF Chosen, Shape, TypeOK, Suspended
<1>2. Locks'
    BY DEF Locks, Shape, TypeOK, EngineLabels, BridgeLabels, Suspended
<1>3. Table'
    BY DEF Table, Locks, Shape, TypeOK, EngineLabels, BridgeLabels, Suspended
<1>4. Pointers'
    BY DEF Pointers, Locks, Table, Shape, TypeOK, EngineLabels, BridgeLabels, Suspended
<1>5. Recorded'
    BY ZenonT(40) DEF Recorded, Table, Locks, Shape, TypeOK, EngineLabels, BridgeLabels, Suspended
<1> QED
    BY <1>1, <1>2, <1>3, <1>4, <1>5, <1>6 DEF Inv

(* The query of the memory use after a load keeps it, although it takes no bridge mutex. *)
LEMMA LoadReadyInv == ASSUME NEW p \in Procs, Inv, LoadReady(p) PROVE Inv'
<1> USE InferenceConstants DEF Inv, LoadReady, At, Go, Ends, Forget, Work, Rest, getModelContext, isLoaded, native, fields, locals, surroundings, engineKeeps, appKeeps, abandonKeeps
<1>1. Shape'
    <2>1. /\ (pc = [q \in Procs |-> pc[q]])' /\ (op = [q \in Procs |-> op[q]])'
          /\ (outcome = [q \in Procs |-> outcome[q]])'
        BY DEF Shape
    <2>2. /\ (g_nextModelId \in Nat /\ g_nextModelId > 0 /\ modelHandle \in Nat)'
          /\ (DOMAIN g_models \subseteq 1 .. g_nextModelId - 1)'
          /\ (\A h \in DOMAIN g_models : g_models[h] \in Models)'
        BY DEF Shape, TypeOK, Chosen
    <2>3. (using \in [Procs -> Nat] /\ wanted \in [Procs -> Models \cup {None}])'
        BY DEF Shape, TypeOK
    <2>4. (\A q \in cancelled : q \in Procs /\ pc[q] # "idle")'
        BY DEF Shape, TypeOK
    <2>5. /\ (bridgeMutex \in Procs \cup {None} /\ engineMutex \in Procs \cup {None})'
          /\ (loadedModelId \in Models \cup {None} /\ activeModelId \in Models \cup {None})'
          /\ (backgroundUnloadJob \in Jobs \cup {None})'
        BY DEF Shape, TypeOK
    <2> QED
        BY <2>1, <2>2, <2>3, <2>4, <2>5 DEF Shape, TypeOK
<1>6. Chosen'
    BY DEF Chosen, Shape, TypeOK, Suspended
<1>2. Locks'
    BY DEF Locks, Shape, TypeOK, EngineLabels, BridgeLabels, Suspended
<1>3. Table'
    BY DEF Table, Locks, Shape, TypeOK, EngineLabels, BridgeLabels, Suspended
<1>4. Pointers'
    BY DEF Pointers, Locks, Table, Shape, TypeOK, EngineLabels, BridgeLabels, Suspended
<1>5. Recorded'
    BY DEF Recorded, Table, Locks, Shape, TypeOK, EngineLabels, BridgeLabels, Suspended
<1> QED
    BY <1>1, <1>2, <1>3, <1>4, <1>5, <1>6 DEF Inv

(* The step from a loaded model to the inference keeps it. *)
LEMMA EnsuredInv == ASSUME NEW p \in Procs, Inv, Ensured(p) PROVE Inv'
<1> USE InferenceConstants DEF Inv, Ensured, At, Go, Ends, Forget, Work, Rest, getModelContext, isLoaded, native, fields, locals, surroundings, engineKeeps, appKeeps, abandonKeeps
<1>1. Shape'
    <2>1. /\ (pc = [q \in Procs |-> pc[q]])' /\ (op = [q \in Procs |-> op[q]])'
          /\ (outcome = [q \in Procs |-> outcome[q]])'
        BY DEF Shape
    <2>2. /\ (g_nextModelId \in Nat /\ g_nextModelId > 0 /\ modelHandle \in Nat)'
          /\ (DOMAIN g_models \subseteq 1 .. g_nextModelId - 1)'
          /\ (\A h \in DOMAIN g_models : g_models[h] \in Models)'
        BY DEF Shape, TypeOK, Chosen
    <2>3. (using \in [Procs -> Nat] /\ wanted \in [Procs -> Models \cup {None}])'
        BY DEF Shape, TypeOK
    <2>4. (\A q \in cancelled : q \in Procs /\ pc[q] # "idle")'
        <3>1. \/ pc' = [pc EXCEPT ![p] = "idle"] /\ cancelled' = cancelled \ {p}
              \/ pc' = [pc EXCEPT ![p] = "infer_lock"] /\ cancelled' = cancelled
            BY Zenon
        <3> QED
            BY Zenon, <3>1, CancelledAtWork
    <2>5. /\ (bridgeMutex \in Procs \cup {None} /\ engineMutex \in Procs \cup {None})'
          /\ (loadedModelId \in Models \cup {None} /\ activeModelId \in Models \cup {None})'
          /\ (backgroundUnloadJob \in Jobs \cup {None})'
        BY DEF Shape, TypeOK
    <2> QED
        BY <2>1, <2>2, <2>3, <2>4, <2>5 DEF Shape, TypeOK
<1>6. Chosen'
    BY DEF Chosen, Shape, TypeOK, Suspended
<1>2. Locks'
    BY DEF Locks, Shape, TypeOK, EngineLabels, BridgeLabels, Suspended
<1>3. Table'
    BY DEF Table, Locks, Shape, TypeOK, EngineLabels, BridgeLabels, Suspended
<1>4. Pointers'
    BY Zenon DEF Pointers, Locks, Table, Shape, TypeOK, EngineLabels, BridgeLabels, Suspended
<1>5. Recorded'
    BY DEF Recorded, Table, Locks, Shape, TypeOK, EngineLabels, BridgeLabels, Suspended
<1> QED
    BY <1>1, <1>2, <1>3, <1>4, <1>5, <1>6 DEF Inv

(* Looking the context up for an inference keeps it. *)
LEMMA InferLockInv == ASSUME NEW p \in Procs, Inv, InferLock(p) PROVE Inv'
<1> USE InferenceConstants DEF Inv, InferLock, At, Go, Ends, Forget, Work, Rest, getModelContext, isLoaded, native, fields, locals, surroundings, engineKeeps, appKeeps, abandonKeeps
<1>1. Shape'
    <2>1. /\ (pc = [q \in Procs |-> pc[q]])' /\ (op = [q \in Procs |-> op[q]])'
          /\ (outcome = [q \in Procs |-> outcome[q]])'
        BY DEF Shape
    <2>2. /\ (g_nextModelId \in Nat /\ g_nextModelId > 0 /\ modelHandle \in Nat)'
          /\ (DOMAIN g_models \subseteq 1 .. g_nextModelId - 1)'
          /\ (\A h \in DOMAIN g_models : g_models[h] \in Models)'
        BY DEF Shape, TypeOK, Chosen
    <2>3. (using \in [Procs -> Nat] /\ wanted \in [Procs -> Models \cup {None}])'
        BY DEF Shape, TypeOK
    <2>4. (\A q \in cancelled : q \in Procs /\ pc[q] # "idle")'
        BY Zenon DEF Shape, TypeOK, Cancelling, Procs
    <2>5. /\ (bridgeMutex \in Procs \cup {None} /\ engineMutex \in Procs \cup {None})'
          /\ (loadedModelId \in Models \cup {None} /\ activeModelId \in Models \cup {None})'
          /\ (backgroundUnloadJob \in Jobs \cup {None})'
        BY DEF Shape, TypeOK
    <2> QED
        BY <2>1, <2>2, <2>3, <2>4, <2>5 DEF Shape, TypeOK
<1>6. Chosen'
    BY DEF Chosen, Shape, TypeOK, Suspended
<1>2. Locks'
    BY DEF Locks, Shape, TypeOK, EngineLabels, BridgeLabels, Suspended
<1>3. Table'
    BY DEF Table, Locks, Shape, TypeOK, EngineLabels, BridgeLabels, Suspended
<1>4. Pointers'
    BY DEF Pointers, Locks, Table, Shape, TypeOK, EngineLabels, BridgeLabels, Suspended
<1>5. Recorded'
    BY DEF Recorded, Table, Locks, Shape, TypeOK, EngineLabels, BridgeLabels, Suspended
<1> QED
    BY <1>1, <1>2, <1>3, <1>4, <1>5, <1>6 DEF Inv

(* The native inference keeps it. *)
LEMMA InferNativeInv == ASSUME NEW p \in Procs, Inv, InferNative(p) PROVE Inv'
<1> USE InferenceConstants DEF Inv, InferNative, At, Go, Ends, Forget, Work, Rest, getModelContext, isLoaded, native, fields, locals, surroundings, engineKeeps, appKeeps, abandonKeeps
<1>1. Shape'
    BY Zenon DEF Shape, TypeOK, Chosen
<1>6. Chosen'
    BY DEF Chosen, Shape, TypeOK, Suspended
<1>2. Locks'
    BY DEF Locks, Shape, TypeOK, EngineLabels, BridgeLabels, Suspended
<1>3. Table'
    BY DEF Table, Locks, Shape, TypeOK, EngineLabels, BridgeLabels, Suspended
<1>4. Pointers'
    BY DEF Pointers, Locks, Table, Shape, TypeOK, EngineLabels, BridgeLabels, Suspended
<1>5. Recorded'
    BY DEF Recorded, Table, Locks, Shape, TypeOK, EngineLabels, BridgeLabels, Suspended
<1> QED
    BY <1>1, <1>2, <1>3, <1>4, <1>5, <1>6 DEF Inv

(* The end of an inference keeps it, whatever its outcome. *)
LEMMA InferEndInv == ASSUME NEW p \in Procs, Inv, InferEnd(p) PROVE Inv'
<1> USE InferenceConstants DEF Inv, InferEnd, At, Go, Ends, Forget, Work, Rest, getModelContext, isLoaded, native, fields, locals, surroundings, engineKeeps, appKeeps, abandonKeeps
<1>1. Shape'
    BY DEF Shape, TypeOK, Chosen
<1>6. Chosen'
    BY DEF Chosen, Shape, TypeOK, Suspended
<1>2. Locks'
    BY DEF Locks, Shape, TypeOK, EngineLabels, BridgeLabels, Suspended
<1>3. Table'
    BY DEF Table, Locks, Shape, TypeOK, EngineLabels, BridgeLabels, Suspended
<1>4. Pointers'
    BY DEF Pointers, Locks, Table, Shape, TypeOK, EngineLabels, BridgeLabels, Suspended
<1>5. Recorded'
    BY DEF Recorded, Table, Locks, Shape, TypeOK, EngineLabels, BridgeLabels, Suspended
<1> QED
    BY <1>1, <1>2, <1>3, <1>4, <1>5, <1>6 DEF Inv

(* The query of the memory use after an inference keeps it. *)
LEMMA InferReadyInv == ASSUME NEW p \in Procs, Inv, InferReady(p) PROVE Inv'
<1> USE InferenceConstants DEF Inv, InferReady, At, Go, Ends, Forget, Work, Rest, getModelContext, isLoaded, native, fields, locals, surroundings, engineKeeps, appKeeps, abandonKeeps
<1>1. Shape'
    BY Zenon DEF Shape, TypeOK, Chosen
<1>6. Chosen'
    BY Zenon DEF Chosen, Shape, TypeOK, Suspended
<1>2. Locks'
    BY Zenon DEF Locks, Shape, TypeOK, EngineLabels, BridgeLabels, Suspended
<1>3. Table'
    BY DEF Table, Locks, Shape, TypeOK, EngineLabels, BridgeLabels, Suspended
<1>4. Pointers'
    BY DEF Pointers, Locks, Table, Shape, TypeOK, EngineLabels, BridgeLabels, Suspended
<1>5. Recorded'
    BY DEF Recorded, Table, Locks, Shape, TypeOK, EngineLabels, BridgeLabels, Suspended
<1> QED
    BY <1>1, <1>2, <1>3, <1>4, <1>5, <1>6 DEF Inv

(* The end of an unload keeps it: nothing is in memory and nothing recorded. *)
LEMMA UnloadEndInv == ASSUME NEW p \in Procs, Inv, UnloadEnd(p) PROVE Inv'
<1> USE InferenceConstants DEF Inv, UnloadEnd, At, Go, Ends, Forget, Work, Rest, getModelContext, isLoaded, native, fields, locals, surroundings, engineKeeps, appKeeps, abandonKeeps
<1>1. Shape'
    BY Zenon DEF Shape, TypeOK, Chosen
<1>6. Chosen'
    BY Zenon DEF Chosen, Shape, TypeOK, Suspended
<1>2. Locks'
    BY Zenon DEF Locks, Shape, TypeOK, EngineLabels, BridgeLabels, Suspended
<1>3. Table'
    BY DEF Table, Locks, Shape, TypeOK, EngineLabels, BridgeLabels, Suspended
<1>4. Pointers'
    BY DEF Pointers, Locks, Table, Shape, TypeOK, EngineLabels, BridgeLabels, Suspended
<1>5. Recorded'
    BY DEF Recorded, Table, Locks, Shape, TypeOK, EngineLabels, BridgeLabels, Suspended
<1> QED
    BY <1>1, <1>2, <1>3, <1>4, <1>5, <1>6 DEF Inv

(* onAppBackground keeps it: it cancels the last unload job and starts another. *)
LEMMA OnAppBackgroundInv == ASSUME NEW p \in Procs, Inv, OnAppBackground(p) PROVE Inv'
<1> USE InferenceConstants DEF Inv, OnAppBackground, At, Go, Ends, Forget, Work, Rest, getModelContext, isLoaded, native, fields, locals, surroundings, engineKeeps, appKeeps, abandonKeeps
<1>1. Shape'
    <2>1. /\ (pc = [q \in Procs |-> pc[q]])' /\ (op = [q \in Procs |-> op[q]])'
          /\ (outcome = [q \in Procs |-> outcome[q]])'
        BY DEF Shape
    <2>2. /\ (g_nextModelId \in Nat /\ g_nextModelId > 0 /\ modelHandle \in Nat)'
          /\ (DOMAIN g_models \subseteq 1 .. g_nextModelId - 1)'
          /\ (\A h \in DOMAIN g_models : g_models[h] \in Models)'
        BY DEF Shape, TypeOK, Chosen
    <2>3. (using \in [Procs -> Nat] /\ wanted \in [Procs -> Models \cup {None}])'
        BY DEF Shape, TypeOK
    <2>4. (\A q \in cancelled : q \in Procs /\ pc[q] # "idle")'
        BY SMTT(40) DEF Shape, TypeOK, Cancelling, Procs
    <2>5. /\ (bridgeMutex \in Procs \cup {None} /\ engineMutex \in Procs \cup {None})'
          /\ (loadedModelId \in Models \cup {None} /\ activeModelId \in Models \cup {None})'
          /\ (backgroundUnloadJob \in Jobs \cup {None})'
        BY DEF Shape, TypeOK
    <2> QED
        BY <2>1, <2>2, <2>3, <2>4, <2>5 DEF Shape, TypeOK
<1>6. Chosen'
    BY DEF Chosen, Shape, TypeOK, Suspended
<1>2. Locks'
    BY DEF Locks, Shape, TypeOK, EngineLabels, BridgeLabels, Suspended
<1>3. Table'
    <2>1. \A q \in Procs : \A l \in {"forget", "native_load", "unload_end"} : pc'[q] = l <=> pc[q] = l
        BY Zenon DEF Shape, TypeOK, Procs
    <2>2. UNCHANGED <<g_models, modelHandle>>
        OBVIOUS
    <2> QED
        BY <2>1, <2>2 DEF Table
<1>4. Pointers'
    BY Zenon DEF Pointers, Locks, Table, Shape, TypeOK, EngineLabels, BridgeLabels, Suspended
<1>5. Recorded'
    BY Zenon DEF Recorded, Table, Locks, Shape, TypeOK, EngineLabels, BridgeLabels, Suspended
<1> QED
    BY <1>1, <1>2, <1>3, <1>4, <1>5, <1>6 DEF Inv

(* onAppForeground keeps it: it cancels the unload job and may go on to a load. *)
LEMMA OnAppForegroundInv == ASSUME NEW p \in Procs, Inv, OnAppForeground(p) PROVE Inv'
<1> USE InferenceConstants DEF Inv, OnAppForeground, At, Go, Ends, Forget, Work, Rest, getModelContext, isLoaded, native, fields, locals, surroundings, engineKeeps, appKeeps, abandonKeeps
<1>1. Shape'
    <2>1. /\ (pc = [q \in Procs |-> pc[q]])' /\ (op = [q \in Procs |-> op[q]])'
          /\ (outcome = [q \in Procs |-> outcome[q]])'
        BY DEF Shape
    <2>2. /\ (g_nextModelId \in Nat /\ g_nextModelId > 0 /\ modelHandle \in Nat)'
          /\ (DOMAIN g_models \subseteq 1 .. g_nextModelId - 1)'
          /\ (\A h \in DOMAIN g_models : g_models[h] \in Models)'
        BY DEF Shape, TypeOK, Chosen
    <2>3. (using \in [Procs -> Nat] /\ wanted \in [Procs -> Models \cup {None}])'
        BY DEF Shape, TypeOK
    <2>4. (\A q \in cancelled : q \in Procs /\ pc[q] # "idle")'
        <3>1. CASE At(p, "foreground")
            <4>1. cancelled' = Cancelling /\ pc' = [pc EXCEPT ![p] = "forget_job"]
                BY <3>1
            <4>2. \A q \in Cancelling : q \in Procs /\ pc[q] # "idle"
                BY Zenon DEF Shape, TypeOK, Cancelling, Procs
            <4> QED
                BY <4>1, <4>2 DEF Shape
        <3>2. CASE ~ At(p, "foreground")
            BY <3>2 DEF Shape, TypeOK
        <3> QED
            BY <3>1, <3>2
    <2>5. /\ (bridgeMutex \in Procs \cup {None} /\ engineMutex \in Procs \cup {None})'
          /\ (loadedModelId \in Models \cup {None} /\ activeModelId \in Models \cup {None})'
          /\ (backgroundUnloadJob \in Jobs \cup {None})'
        BY DEF Shape, TypeOK
    <2> QED
        BY <2>1, <2>2, <2>3, <2>4, <2>5 DEF Shape, TypeOK
<1>6. Chosen'
    BY DEF Chosen, Shape, TypeOK, Suspended
<1>2. Locks'
    BY DEF Locks, Shape, TypeOK, EngineLabels, BridgeLabels, Suspended
<1>3. Table'
    BY DEF Table, Locks, Shape, TypeOK, EngineLabels, BridgeLabels, Suspended
<1>4. Pointers'
    BY SMTT(40) DEF Pointers, Locks, Table, Shape, TypeOK, EngineLabels, BridgeLabels, Suspended
<1>5. Recorded'
    BY DEF Recorded, Table, Locks, Shape, TypeOK, EngineLabels, BridgeLabels, Suspended
<1> QED
    BY <1>1, <1>2, <1>3, <1>4, <1>5, <1>6 DEF Inv

(* The wake-up of a background job keeps it. *)
LEMMA JobWakesInv == ASSUME NEW p \in Procs, Inv, JobWakes(p) PROVE Inv'
<1> USE InferenceConstants DEF Inv, JobWakes, At, Go, Ends, Forget, Work, Rest, getModelContext, isLoaded, native, fields, locals, surroundings, engineKeeps, appKeeps, abandonKeeps
<1>1. Shape'
    BY DEF Shape, TypeOK, Chosen
<1>6. Chosen'
    BY DEF Chosen, Shape, TypeOK, Suspended
<1>2. Locks'
    BY DEF Locks, Shape, TypeOK, EngineLabels, BridgeLabels, Suspended
<1>3. Table'
    BY DEF Table, Locks, Shape, TypeOK, EngineLabels, BridgeLabels, Suspended
<1>4. Pointers'
    BY DEF Pointers, Locks, Table, Shape, TypeOK, EngineLabels, BridgeLabels, Suspended
<1>5. Recorded'
    BY DEF Recorded, Table, Locks, Shape, TypeOK, EngineLabels, BridgeLabels, Suspended
<1> QED
    BY <1>1, <1>2, <1>3, <1>4, <1>5, <1>6 DEF Inv

(* A cancelled coroutine that gives up keeps it: it releases what it holds. *)
LEMMA AbandonInv == ASSUME NEW p \in Procs, Inv, Abandon(p) PROVE Inv'
<1> USE InferenceConstants DEF Inv, Abandon, At, Go, Ends, Forget, Work, Rest, getModelContext, isLoaded, native, fields, locals, surroundings, engineKeeps, appKeeps, abandonKeeps
<1>1. Shape'
    BY Zenon DEF Shape, TypeOK, Chosen
<1>6. Chosen'
    BY Zenon DEF Chosen, Shape, TypeOK, Suspended
<1>2. Locks'
    BY Zenon DEF Locks, Shape, TypeOK, EngineLabels, BridgeLabels, Suspended
<1>3. Table'
    BY DEF Table, Locks, Shape, TypeOK, EngineLabels, BridgeLabels, Suspended
<1>4. Pointers'
    BY Zenon DEF Pointers, Locks, Table, Shape, TypeOK, EngineLabels, BridgeLabels, Suspended
<1>5. Recorded'
    BY DEF Recorded, Table, Locks, Shape, TypeOK, EngineLabels, BridgeLabels, Suspended
<1> QED
    BY <1>1, <1>2, <1>3, <1>4, <1>5, <1>6 DEF Inv

(* New calls, cancellations and the user's choice keep it. *)
LEMMA OthersInv ==
    ASSUME Inv, (\E p \in Callers : Cancel(p) \/ \E m \in Methods : Call(p, m)) \/ SetActiveModel
    PROVE  Inv'
<1> USE InferenceConstants DEF Inv, At, Go, native, fields, locals, surroundings, appKeeps
<1>1. CASE SetActiveModel
    BY Zenon, <1>1 DEF SetActiveModel, Shape, TypeOK, Chosen, Locks, Table, Pointers, Recorded
<1>2. ASSUME NEW p \in Callers, Cancel(p) PROVE Inv'
    BY ZenonT(40), <1>2 DEF Cancel, Shape, TypeOK, Procs, Chosen, Locks, Table, Pointers, Recorded
<1>3. ASSUME NEW p \in Callers, NEW m \in Methods, Call(p, m) PROVE Inv'
    <2> USE <1>3 DEF Call, Methods
    <2>1. p \in Procs /\ pc[p] = "idle" /\ pc' = [pc EXCEPT ![p] = m]
        BY DEF Procs
    <2>2. Shape'
        BY <2>1 DEF Shape, TypeOK
    <2>3. Chosen' /\ Locks' /\ Pointers'
        BY <2>1 DEF Chosen, Locks, Pointers, Shape, EngineLabels, BridgeLabels
    <2>4. Table' /\ Recorded'
        BY <2>1 DEF Table, Recorded, Shape
    <2> QED
        BY <2>2, <2>3, <2>4
<1> QED
    BY <1>1, <1>2, <1>3

(* Every step keeps the invariant. *)
LEMMA InvNext == Inv /\ [Next]_vars => Inv'
<1> SUFFICES ASSUME Inv, [Next]_vars PROVE Inv'
    OBVIOUS
<1>1. ASSUME NEW p \in Procs, Step(p) PROVE Inv'
    BY <1>1, LockEngineInv, FindModelInv, LockBridgeInv, UnloadNativeInv, ForgetHandleInv,
       LoadNativeInv, LoadEndInv, LoadReadyInv, EnsuredInv, InferLockInv, InferNativeInv,
       InferEndInv, InferReadyInv, UnloadEndInv, OnAppBackgroundInv, OnAppForegroundInv,
       JobWakesInv, AbandonInv DEF Step
<1>2. CASE UNCHANGED vars
    BY ZenonT(40), <1>2 DEF vars, native, fields, locals, surroundings, Inv, Shape, TypeOK, Chosen, Locks,
       Table, Pointers, Recorded
<1> QED
    BY <1>1, <1>2, OthersInv DEF Next

(* Hence it always holds. *)
LEMMA SpecInv == Spec => []Inv
<1> QED
    BY InvInit, InvNext, PTL DEF Spec

(* The types of the engine's, the bridge's and the native state; a cancelled coroutine is
   one that still runs. *)
THEOREM EngineTypes == Spec => []TypeOK
<1>1. Inv => TypeOK
    BY DEF Inv, Shape
<1> QED
    BY <1>1, SpecInv, PTL

(* No native call ever works on a context that unloadModelNative has freed, although
   llama_jni.cpp uses the context outside its mutex. *)
THEOREM EngineNativeSafe == Spec => []NativeSafe
<1>1. Inv => NativeSafe
    BY DEF Inv, Pointers, NativeSafe
<1> QED
    BY <1>1, SpecInv, PTL

(* Between calls of the bridge exactly the model whose handle it knows is in the native
   table: no load, failure or cancellation leaks one. *)
THEOREM EngineOneModel == Spec => []OneModel
<1>1. Inv => OneModel
    <2> SUFFICES ASSUME Inv, bridgeMutex = None PROVE DOMAIN g_models = {modelHandle} \ {0}
        BY DEF OneModel
    <2>1. \A p \in Procs : pc[p] # "forget"
        BY InferenceConstants DEF Inv, Locks, BridgeLabels
    <2> QED
        BY <2>1 DEF Inv, Table
<1> QED
    BY <1>1, SpecInv, PTL

(* With the engine free, the model recorded in loadedModelId is the one in memory, unless
   a load was cancelled after it had succeeded. *)
THEOREM EngineRecordedModel == Spec => []RecordedModel
<1>1. Inv => RecordedModel
    <2> SUFFICES ASSUME Inv, engineMutex = None PROVE RecordedModel
        BY DEF RecordedModel
    <2>1. \A p \in Procs : pc[p] \notin {"forget", "load_end"}
        BY InferenceConstants DEF Inv, Locks, BridgeLabels, EngineLabels
    <2> QED
        BY <2>1 DEF Inv, Recorded, RecordedModel
<1> QED
    BY <1>1, SpecInv, PTL

(* Only the coroutine at work moves, but for the start of an unload job. *)
LEMMA InferringNext == Inv /\ InferringMeansWork /\ [Next]_vars => InferringMeansWork'
<1> SUFFICES ASSUME Inv, InferringMeansWork, [Next]_vars, inferenceState' = "Inferring"
             PROVE  \E q \in Procs : pc'[q] \in {"infer_lock", "inferring", "infer_end", "infer_usage"}
    BY DEF InferringMeansWork
<1> USE DEF InferringMeansWork, Inv, Shape, At, Go, Ends, Forget, native, fields, locals, surroundings,
            engineKeeps, appKeeps, abandonKeeps
<1> DEFINE Goal == \E q \in Procs : pc'[q] \in {"infer_lock", "inferring", "infer_end", "infer_usage"}
<1>1. ASSUME NEW p \in Procs, Step(p) PROVE Goal
    <2>1. CASE LockEngine(p)
        BY <2>1 DEF LockEngine
    <2>2. CASE FindModel(p)
        BY <2>2 DEF FindModel
    <2>3. CASE LockBridge(p)
        BY <2>3 DEF LockBridge
    <2>4. CASE UnloadNative(p)
        BY <2>4 DEF UnloadNative
    <2>5. CASE ForgetHandle(p)
        BY <2>5 DEF ForgetHandle
    <2>6. CASE LoadNative(p)
        BY <2>6 DEF LoadNative
    <2>7. CASE LoadEnd(p)
        BY <2>7 DEF LoadEnd
    <2>8. CASE LoadReady(p)
        BY <2>8 DEF LoadReady
    <2>9. CASE Ensured(p)
        BY <2>9 DEF Ensured
    <2>10. CASE InferLock(p)
        BY <2>10 DEF InferLock
    <2>11. CASE InferNative(p)
        BY <2>11 DEF InferNative
    <2>12. CASE InferEnd(p)
        BY <2>12 DEF InferEnd
    <2>13. CASE InferReady(p)
        BY <2>13 DEF InferReady
    <2>14. CASE UnloadEnd(p)
        BY <2>14 DEF UnloadEnd
    <2>15. CASE OnAppBackground(p)
        BY <2>15 DEF OnAppBackground, Procs
    <2>16. CASE OnAppForeground(p)
        BY <2>16 DEF OnAppForeground
    <2>17. CASE JobWakes(p)
        BY <2>17 DEF JobWakes
    <2>18. CASE Abandon(p)
        BY <2>18 DEF Abandon, Suspended
    <2> QED
        BY <1>1, <2>1, <2>2, <2>3, <2>4, <2>5, <2>6, <2>7, <2>8, <2>9, <2>10, <2>11, <2>12, <2>13, <2>14, <2>15, <2>16, <2>17, <2>18 DEF Step
<1>2. CASE SetActiveModel \/ UNCHANGED vars
    BY <1>2 DEF SetActiveModel, vars
<1>3. ASSUME NEW p \in Callers, Cancel(p) \/ \E m \in Methods : Call(p, m) PROVE Goal
    BY SMTT(40), <1>3 DEF Cancel, Call, Procs
<1> QED
    BY <1>1, <1>2, <1>3 DEF Next

(* The engine shows Inferring only while a coroutine is inferring, whatever fails, times
   out or is cancelled. *)
THEOREM EngineInferringMeansWork == Spec => []InferringMeansWork
<1>1. Init => InferringMeansWork
    BY DEF Init, InferringMeansWork
<1> QED
    BY <1>1, SpecInv, InferringNext, PTL DEF Spec


-----------------------------------------------------------------------------
(* The converse of Locks: a mutex is held only by a coroutine that is where its holder
   has to be. *)
Holders ==
    \A p \in Procs : /\ engineMutex = p => pc[p] \in EngineLabels
                     /\ bridgeMutex = p => pc[p] \in BridgeLabels

(* A step of a coroutine takes a mutex on its way in and releases it on every way out:
   at the end, after a failure and when it is abandoned. *)
LEMMA HoldersStep == ASSUME NEW p \in Procs, Inv, Holders, Step(p) PROVE Holders'
<1> USE InferenceConstants
<1> DEFINE Others == \A q \in Procs \ {p} :
               /\ engineMutex' = q => engineMutex = q
               /\ bridgeMutex' = q => bridgeMutex = q
               /\ pc[q] \in EngineLabels => pc'[q] = pc[q]
           Own == /\ engineMutex' = p => pc'[p] \in EngineLabels
                  /\ bridgeMutex' = p => pc'[p] \in BridgeLabels
<1>0. pc = [q \in Procs |-> pc[q]] /\ Locks
    BY DEF Inv, Shape
<1>1. SUFFICES Others /\ Own
    BY DEF Holders, EngineLabels
<1>2. CASE LockEngine(p)
    BY <1>0, <1>2 DEF LockEngine, Go, At, Holders, Locks, EngineLabels, BridgeLabels
<1>3. CASE FindModel(p)
    BY <1>0, <1>3 DEF FindModel, Ends, Forget, Go, At, Holders, Locks, EngineLabels, BridgeLabels
<1>4. CASE LockBridge(p)
    BY <1>0, <1>4 DEF LockBridge, engineKeeps, Go, At, Holders, Locks, EngineLabels, BridgeLabels
<1>5. CASE UnloadNative(p) \/ ForgetHandle(p) \/ LoadNative(p)
    BY <1>0, <1>5 DEF UnloadNative, ForgetHandle, LoadNative, engineKeeps, Go, At, Holders, Locks,
       EngineLabels, BridgeLabels
<1>6. CASE LoadEnd(p)
    BY <1>0, <1>6 DEF LoadEnd, Ends, Forget, Go, At, Holders, Locks, EngineLabels, BridgeLabels
<1>7. CASE LoadReady(p)
    BY <1>0, <1>7 DEF LoadReady, Ends, Forget, Go, At, Holders, Locks, EngineLabels, BridgeLabels
<1>8. CASE Ensured(p)
    BY <1>0, <1>8 DEF Ensured, Ends, Forget, Go, At, Holders, Locks, EngineLabels, BridgeLabels
<1>9. CASE InferLock(p)
    BY <1>0, <1>9 DEF InferLock, engineKeeps, Go, At, Holders, Locks, EngineLabels, BridgeLabels
<1>10. CASE InferNative(p) \/ InferEnd(p)
    BY <1>0, <1>10 DEF InferNative, InferEnd, engineKeeps, Go, At, Holders, Locks, EngineLabels,
       BridgeLabels
<1>11. CASE InferReady(p) \/ UnloadEnd(p)
    BY <1>0, <1>11 DEF InferReady, UnloadEnd, Ends, Forget, Go, At, Holders, Locks, EngineLabels, BridgeLabels
<1>12. CASE OnAppBackground(p)
    BY <1>0, <1>12 DEF OnAppBackground, appKeeps, Go, At, Holders, Locks, EngineLabels, BridgeLabels
<1>13. CASE OnAppForeground(p) \/ JobWakes(p)
    BY <1>0, <1>13 DEF OnAppForeground, JobWakes, appKeeps, Go, At, Holders, Locks, EngineLabels,
       BridgeLabels
<1>14. CASE Abandon(p)
    BY <1>0, <1>14 DEF Abandon, Ends, Forget, Go, At, Holders, Locks, EngineLabels, BridgeLabels
<1> QED
    BY Zenon, <1>2, <1>3, <1>4, <1>5, <1>6, <1>7, <1>8, <1>9, <1>10, <1>11, <1>12, <1>13, <1>14 DEF Step

(* Calls, cancellations and the user's choice take and release no mutex. *)
LEMMA HoldersNext == Inv /\ Holders /\ [Next]_vars => Holders'
<1> SUFFICES ASSUME Inv, Holders, [Next]_vars PROVE Holders'
    OBVIOUS
<1>1. ASSUME NEW p \in Procs, Step(p) PROVE Holders'
    BY <1>1, HoldersStep
<1>2. ASSUME NEW p \in Callers, Cancel(p) PROVE Holders'
    BY <1>2 DEF Cancel, appKeeps, Holders
<1>3. ASSUME NEW p \in Callers, NEW m \in Methods, Call(p, m) PROVE Holders'
    BY SMTT(40), <1>3 DEF Call, Go, At, Holders, Inv, Shape, EngineLabels, BridgeLabels, Procs
<1>4. CASE SetActiveModel
    BY <1>4 DEF SetActiveModel, Holders
<1>5. CASE UNCHANGED vars
    BY <1>5 DEF vars, Holders
<1> QED
    BY <1>1, <1>2, <1>3, <1>4, <1>5 DEF Next

(* For any number of callers and jobs, a coroutine that holds the engine's mutex is never
   made to wait, and no way out of analyzeScreenshot, loadModel, unloadModel or the bridge
   leaves a mutex locked. *)
THEOREM EngineHolderGoesOn == Spec => []HolderGoesOn
<1>1. Init => Holders
    BY InferenceConstants DEF Init, Holders, Procs
<1>2. Inv /\ Holders => HolderGoesOn
    <2> SUFFICES ASSUME Inv, Holders PROVE HolderGoesOn
        OBVIOUS
    <2>1. bridgeMutex \in Procs => bridgeMutex = engineMutex /\ pc[bridgeMutex] \in BridgeLabels
        BY DEF Inv, Locks, Holders, EngineLabels
    <2>2. bridgeMutex \in Procs \cup {None}
        BY DEF Inv, Shape, TypeOK
    <2> QED
        BY <2>1, <2>2 DEF HolderGoesOn, Holders, EngineLabels, BridgeLabels
<1> QED
    BY <1>1, <1>2, HoldersNext, SpecInv, PTL DEF Spec
=============================================================================
