----------------------------- MODULE ModelRuntime -----------------------------
(***************************************************************************)
(* The shared llama.cpp context of a mobile worker: the hot swap of the     *)
(* model, the inference tasks that read the global pointer, the global stop *)
(* flag behind a cancel, and the JNI engine calls that touch the same       *)
(* globals.                                                                 *)
(*                                                                          *)
(* A model and its context are created and freed together, so one handle    *)
(* stands for the pair; 0 is the null pointer.  Handle n is the result of   *)
(* the n-th load and also names the path that load was given.               *)
(*                                                                          *)
(* The two platforms differ in one place.  On Android the handler thread    *)
(* reads the pointer and starts a thread per task, which takes the          *)
(* inference mutex; on iOS the handler takes the mutex, then reads the      *)
(* pointer, and serves the task itself.                                     *)
(***************************************************************************)
EXTENDS Naturals, Sequences, FiniteSets

CONSTANTS
    Tasks,          \* inference tasks the server sends
    Callers,        \* application threads that call the C or JNI interface
    MaxLoads        \* bound: models loaded in one behaviour

NoOne == "none"     \* None, and a mutex nobody holds

ASSUME RuntimeAssumption == /\ MaxLoads \in Nat
                            /\ NoOne \notin Tasks \cup Callers
                            /\ Tasks \cap Callers = {}

VARIABLES
    platform,   \* "android" or "ios"
    inbox,      \* commands on the control stream: <<kind, task>>
    handler,    \* the handler thread: "read", or what it is busy with
    active,     \* ANDROID_ACTIVE_TASK_ID
    cancelled,  \* WORKER_CANCELLED_TASK (iOS)
    tpc,        \* per task, where it is
    tctx,       \* per task, the context pointer it uses
    stopFlag,   \* GENERATION_STOP_FLAG
    stoppers,   \* tasks that were generating when the flag was raised
    mutex,      \* holder of GLOBAL_INFERENCE_MUTEX
    ctx,        \* GLOBAL_CONTEXT_PTR (and GLOBAL_MODEL_PTR)
    freed,      \* handles that were freed
    loads,      \* loads started
    swapLock,   \* holder of MODEL_SWAP_LOCK
    cpc, cload, \* per caller, where it is and the handle of its call
    overlap,    \* two model calls have overlapped
    status      \* MODEL_STATUS

taskVars == <<tpc, tctx>>
cmdVars == <<platform, inbox, handler, active, cancelled>>
genVars == <<stopFlag, stoppers>>
callVars == <<loads, swapLock, cpc, cload, overlap, status>>
ptrVars == <<ctx, freed>>
runtimeVars == <<cmdVars, taskVars, genVars, mutex, ptrVars, callVars>>

Handles == 1..MaxLoads

RuntimeInit ==
    /\ platform \in {"android", "ios"}
    /\ inbox = <<>> /\ handler = "read"
    /\ active = NoOne /\ cancelled = NoOne
    /\ tpc = [t \in Tasks |-> "new"]
    /\ tctx = [t \in Tasks |-> 0]
    /\ stopFlag = FALSE /\ stoppers = {}
    /\ mutex = NoOne
    /\ ctx = 0 /\ freed = {}
    /\ loads = 0 /\ swapLock = NoOne
    /\ cpc = [c \in Callers |-> "idle"]
    /\ cload = [c \in Callers |-> 0]
    /\ overlap = FALSE
    /\ status = [model |-> 0, state |-> "Not_initialized"]

-------------------------------------------------------------------------------
(* The server: a task, and perhaps a cancel of it later.                    *)

SendTask(t) ==
    /\ tpc[t] = "new"
    /\ tpc' = [tpc EXCEPT ![t] = "sent"]
    /\ \E kind \in {"task", "chat"} : inbox' = Append(inbox, <<kind, t>>)
    /\ UNCHANGED <<platform, handler, active, cancelled, tctx, genVars, mutex,
                   ptrVars, callVars>>

SendCancel(t) ==
    /\ tpc[t] # "new" /\ tpc[t] # "done"
    /\ \A i \in DOMAIN inbox : inbox[i] # <<"cancel", t>>
    /\ Len(inbox) < Cardinality(Tasks)
    /\ inbox' = Append(inbox, <<"cancel", t>>)
    /\ UNCHANGED <<platform, handler, active, cancelled, taskVars,
                   genVars, mutex, ptrVars, callVars>>

-------------------------------------------------------------------------------
(* The handler thread.                                                      *)

Reads(kind, t) ==
    /\ handler = "read" /\ inbox # <<>> /\ Head(inbox) = <<kind, t>>
    /\ inbox' = Tail(inbox)

Goes(t, to) == tpc' = [tpc EXCEPT ![t] = to]

\* Android: read the pointer, answer at once without a model, else start a
\* thread that will use it.
SpawnTask(t) ==
    /\ IF ctx = 0
       THEN Goes(t, "done") /\ UNCHANGED <<active, tctx>>
       ELSE /\ active' = t
            /\ tctx' = [tctx EXCEPT ![t] = ctx]
            /\ Goes(t, "spawned")
    /\ UNCHANGED <<platform, handler, cancelled, genVars, mutex, ptrVars, callVars>>

AndroidTask(t) == platform = "android" /\ Reads("task", t) /\ SpawnTask(t)

\* A chat also renders its prompt, with the template the pointer's model has.
AndroidChat(t) == platform = "android" /\ Reads("chat", t) /\ SpawnTask(t)

\* The handler of a start with a callback has a copy of both.
CallbackTask(t) == platform = "android" /\ Reads("task", t) /\ SpawnTask(t)
CallbackChat(t) == platform = "android" /\ Reads("chat", t) /\ SpawnTask(t)

\* Variant: the early return keeps the mutex.
KeepMutexOnBadPrompt(t) ==
    /\ platform = "android" /\ tpc[t] = "spawned" /\ mutex = NoOne
    /\ mutex' = t
    /\ Goes(t, "done") \/ Goes(t, "locked")
    /\ UNCHANGED <<cmdVars, tctx, genVars, ptrVars, callVars>>

\* Android: the new thread locks the mutex.  A prompt that is no C string is
\* answered at once, and the active slot keeps the task's name.
AndroidLock(t) ==
    /\ platform = "android" /\ tpc[t] = "spawned" /\ mutex = NoOne
    /\ \/ Goes(t, "done") /\ mutex' = mutex
       \/ Goes(t, "locked") /\ mutex' = t
    /\ UNCHANGED <<cmdVars, tctx, genVars, ptrVars, callVars>>

\* Variant: the pointer is read before the mutex is taken.
IosLoadsBeforeLock(t) ==
    \/ /\ platform = "ios" /\ \E kind \in {"task", "chat"} : Reads(kind, t)
       /\ handler' = t /\ Goes(t, "queued")
       /\ tctx' = [tctx EXCEPT ![t] = ctx]
       /\ UNCHANGED <<mutex, platform, active, cancelled, genVars, ptrVars, callVars>>
    \/ /\ platform = "ios" /\ tpc[t] = "queued" /\ mutex = NoOne
       /\ IF tctx[t] = 0
          THEN Goes(t, "done") /\ handler' = "read" /\ mutex' = mutex
          ELSE Goes(t, "locked") /\ handler' = handler /\ mutex' = t
       /\ UNCHANGED <<platform, inbox, active, cancelled, tctx, genVars, ptrVars,
                      callVars>>

\* iOS: lock, then read the pointer.  A prompt that is no C string ends the
\* task with a status callback, and nothing is written to the server.
IosTask(t) ==
    /\ platform = "ios" /\ mutex = NoOne
    /\ \E kind \in {"task", "chat"} : Reads(kind, t)
    /\ \/ /\ ctx = 0 /\ Goes(t, "done")
          /\ UNCHANGED <<handler, mutex, tctx>>
       \/ /\ ctx # 0 /\ Goes(t, "refused")
          /\ UNCHANGED <<handler, mutex, tctx>>
       \/ /\ ctx # 0 /\ Goes(t, "locked")
          /\ handler' = t /\ mutex' = t
          /\ tctx' = [tctx EXCEPT ![t] = ctx]
    /\ UNCHANGED <<platform, active, cancelled, genVars, ptrVars, callVars>>

\* CancelInference: Android compares with the active task, then stops whatever
\* generates; iOS leaves the task's name for its token callback.
ReadCancel(t) ==
    /\ Reads("cancel", t)
    /\ IF platform = "android"
       THEN /\ handler' = IF active = t THEN "stop" ELSE handler
            /\ cancelled' = cancelled
       ELSE /\ cancelled' = t
            /\ handler' = handler
    /\ UNCHANGED <<platform, active, taskVars, genVars, mutex,
                   ptrVars, callVars>>

Generating == {t \in Tasks : tpc[t] = "generating"}

\* gpuf_stop_generation: the flag belongs to no task.
RaiseStop ==
    /\ stopFlag' = TRUE
    /\ stoppers' = Generating

AndroidStop ==
    /\ handler = "stop"
    /\ handler' = "read"
    /\ IF ctx = 0 THEN UNCHANGED genVars ELSE RaiseStop
    /\ UNCHANGED <<platform, inbox, active, cancelled, taskVars, mutex,
                   ptrVars, callVars>>

-------------------------------------------------------------------------------
(* gpuf_start_generation_async, in the thread that holds the mutex.         *)

\* Variant: the flag is not lowered.
KeepStop(t) ==
    /\ tpc[t] = "locked" /\ Goes(t, "generating")
    /\ UNCHANGED <<cmdVars, tctx, genVars, mutex, ptrVars, callVars>>

\* A stop that was raised before is forgotten.
StartGeneration(t) ==
    /\ tpc[t] = "locked" /\ Goes(t, "generating")
    /\ stopFlag' = FALSE /\ stoppers' = {}
    /\ UNCHANGED <<cmdVars, tctx, mutex, ptrVars, callVars>>

\* An empty prompt, or a prefill that fails, returns -1 before the clean-up.
PrefillFails(t) ==
    /\ tpc[t] = "generating" /\ Goes(t, "ended")
    /\ UNCHANGED <<cmdVars, tctx, genVars, mutex, ptrVars, callVars>>

\* A token's callback on iOS: that of a cancelled task stops the generation.
TokenCallback(t) ==
    /\ platform = "ios" /\ tpc[t] = "generating" /\ cancelled = t
    /\ RaiseStop
    /\ UNCHANGED <<cmdVars, taskVars, mutex, ptrVars, callVars>>

\* The loop over the tokens ends at the flag, the limit, the end of the text
\* or a decode error, and lowers the flag.
EndGeneration(t) ==
    /\ tpc[t] = "generating" /\ Goes(t, "ended")
    /\ stopFlag' = FALSE /\ stoppers' = {}
    /\ UNCHANGED <<cmdVars, tctx, mutex, ptrVars, callVars>>

\* The rest of the text and the done chunk go out, the active slot is cleared
\* if it still names the task, and the thread ends, releasing the mutex.
AndroidFinish(t) ==
    /\ platform = "android" /\ tpc[t] = "ended" /\ Goes(t, "done")
    /\ mutex' = NoOne
    /\ active' = IF active = t THEN NoOne ELSE active
    /\ UNCHANGED <<platform, inbox, handler, cancelled, tctx, genVars, ptrVars,
                   callVars>>

\* iOS forgets the cancelled task, whichever it is, and reads on.
IosFinish(t) ==
    /\ platform = "ios" /\ tpc[t] = "ended" /\ Goes(t, "done")
    /\ mutex' = NoOne
    /\ cancelled' = NoOne /\ handler' = "read"
    /\ UNCHANGED <<platform, inbox, active, tctx, genVars, ptrVars, callVars>>

-------------------------------------------------------------------------------
(* The application's threads.                                               *)

Busy == {c \in Callers : cpc[c] # "idle"}
Step(c, from, to) == cpc[c] = from /\ cpc' = [cpc EXCEPT ![c] = to]

\* set_remote_worker_model ("swap"), or startInferenceService and loadModelNew
\* of the JNI engine ("store"): the status names the path, and loading starts.
BeginLoad(c) ==
    /\ loads < MaxLoads /\ loads' = loads + 1
    /\ \/ Step(c, "idle", "loading_for_swap")
       \/ platform = "android" /\ Step(c, "idle", "loading_for_store")
    /\ cload' = [cload EXCEPT ![c] = loads']
    /\ overlap' = (overlap \/ Busy # {})
    /\ status' = [model |-> loads', state |-> "Loading"]
    /\ UNCHANGED <<cmdVars, taskVars, genVars, mutex, ptrVars, swapLock>>

\* The file does not load, or no context can be made of it.
LoadFails(c) ==
    /\ \/ Step(c, "loading_for_swap", "idle")
       \/ Step(c, "loading_for_store", "idle")
    /\ status' = [status EXCEPT !.state = "Error"]
    /\ UNCHANGED <<cmdVars, taskVars, genVars, mutex, ptrVars, loads, swapLock,
                   cload, overlap>>

TakeSwapLock(c) ==
    /\ Step(c, "loading_for_swap", "swapping")
    /\ swapLock = NoOne /\ swapLock' = c
    /\ UNCHANGED <<cmdVars, taskVars, genVars, mutex, ptrVars, loads, cload,
                   overlap, status>>

\* Under both mutexes: exchange the pointer and free what it named.
SwapModel(c) ==
    /\ Step(c, "swapping", "stored")
    /\ swapLock = c /\ swapLock' = NoOne
    /\ mutex = NoOne
    /\ ctx' = cload[c]
    /\ freed' = freed \cup ({ctx} \ {0})
    /\ UNCHANGED <<cmdVars, taskVars, genVars, mutex, loads, cload, overlap, status>>

\* The JNI engine stores the pointer without a mutex and frees nothing.
StoreModel(c) ==
    /\ Step(c, "loading_for_store", "stored")
    /\ ctx' = cload[c]
    /\ UNCHANGED <<cmdVars, taskVars, genVars, mutex, freed, loads, swapLock,
                   cload, overlap, status>>

\* stopInferenceService: the pointer is dropped, not freed; then the status.
DropModel(c) ==
    /\ platform = "android" /\ ctx # 0
    /\ Step(c, "idle", "dropped")
    /\ ctx' = 0
    /\ overlap' = (overlap \/ Busy # {})
    /\ UNCHANGED <<cmdVars, taskVars, genVars, mutex, freed, loads, swapLock,
                   cload, status>>

\* Variant: the status is left alone by a drop.
KeepStatusOnDrop(c) ==
    /\ \/ /\ Step(c, "stored", "idle")
          /\ status' = [model |-> cload[c], state |-> "Loaded"]
       \/ Step(c, "dropped", "idle") /\ status' = status
    /\ UNCHANGED <<cmdVars, taskVars, genVars, mutex, ptrVars, loads, swapLock,
                   cload, overlap>>

SetLoaded(c) ==
    /\ \/ /\ Step(c, "stored", "idle")
          /\ status' = [model |-> cload[c], state |-> "Loaded"]
       \/ /\ Step(c, "dropped", "idle")
          /\ status' = [model |-> 0, state |-> "Not_initialized"]
    /\ UNCHANGED <<cmdVars, taskVars, genVars, mutex, ptrVars, loads, swapLock,
                   cload, overlap>>

\* generateText of the JNI engine reads the pointer and uses it without the
\* mutex until it returns.
BeginLocal(c) ==
    /\ platform = "android" /\ ctx # 0
    /\ Step(c, "idle", "generating")
    /\ cload' = [cload EXCEPT ![c] = ctx]
    /\ UNCHANGED <<cmdVars, taskVars, genVars, mutex, ptrVars, loads, swapLock,
                   overlap, status>>

EndLocal(c) ==
    /\ Step(c, "generating", "idle")
    /\ UNCHANGED <<cmdVars, taskVars, genVars, mutex, ptrVars, loads, swapLock,
                   cload, overlap, status>>

\* startGenerationAsync runs the same loop on a context of the application's
\* own: the flag it lowers at its start and at its end is the worker's too.
LocalAsync(c) ==
    /\ platform = "android" /\ cpc[c] = "idle"
    /\ stopFlag' = FALSE /\ stoppers' = {}
    /\ UNCHANGED <<cmdVars, taskVars, mutex, ptrVars, callVars>>

LocalStop(c) ==
    /\ platform = "android" /\ cpc[c] = "idle"
    /\ RaiseStop
    /\ UNCHANGED <<cmdVars, taskVars, mutex, ptrVars, callVars>>

-------------------------------------------------------------------------------
\* The handler thread takes the next command, or goes on with a cancel.
HandlerStep ==
    \/ AndroidStop
    \/ \E t \in Tasks : \/ AndroidTask(t) \/ AndroidChat(t) \/ CallbackTask(t)
                        \/ CallbackChat(t) \/ IosTask(t) \/ ReadCancel(t)

\* The thread that serves a task.
Serve(t) ==
    \/ AndroidLock(t) \/ StartGeneration(t) \/ EndGeneration(t)
    \/ AndroidFinish(t) \/ IosFinish(t)

CallerStep(c) ==
    \/ BeginLoad(c) \/ LoadFails(c) \/ TakeSwapLock(c) \/ SwapModel(c)
    \/ StoreModel(c) \/ DropModel(c) \/ SetLoaded(c)
    \/ BeginLocal(c) \/ EndLocal(c) \/ LocalAsync(c) \/ LocalStop(c)

RuntimeNext ==
    \/ \E t \in Tasks : \/ SendTask(t) \/ SendCancel(t)
                        \/ Serve(t) \/ PrefillFails(t) \/ TokenCallback(t)
    \/ HandlerStep
    \/ \E c \in Callers : CallerStep(c)

RuntimeSpec == RuntimeInit /\ [][RuntimeNext]_runtimeVars

\* Threads are scheduled and a generation ends (its loop is bounded).
RuntimeFairness ==
    WF_runtimeVars(HandlerStep) /\ \A t \in Tasks : WF_runtimeVars(Serve(t))

-------------------------------------------------------------------------------
(* Properties.                                                              *)

CmdTypeOK ==
    /\ platform \in {"android", "ios"}
    /\ inbox \in Seq({"task", "chat", "cancel"} \X Tasks)
    /\ handler \in {"read", "stop"} \cup Tasks
    /\ active \in Tasks \cup {NoOne} /\ cancelled \in Tasks \cup {NoOne}

TaskTypeOK ==
    /\ tpc \in [Tasks -> {"new", "sent", "queued", "spawned", "locked",
                          "generating", "ended", "done", "refused"}]
    /\ tctx \in [Tasks -> Handles \cup {0}]
    /\ mutex \in Tasks \cup {NoOne}

GenTypeOK == stopFlag \in BOOLEAN /\ stoppers \subseteq Tasks

PtrTypeOK ==
    /\ ctx \in Handles \cup {0} /\ freed \subseteq Handles
    /\ loads \in 0..MaxLoads /\ swapLock \in Callers \cup {NoOne}

CallTypeOK ==
    /\ cpc \in [Callers -> {"idle", "loading_for_swap", "loading_for_store",
                            "swapping", "stored", "dropped", "generating"}]
    /\ cload \in [Callers -> Handles \cup {0}]
    /\ overlap \in BOOLEAN
    /\ status \in [model : Handles \cup {0},
                   state : {"Not_initialized", "Loading", "Loaded", "Error"}]

\* Type invariant of the globals, the tasks and the calls.
RuntimeTypeOK == CmdTypeOK /\ TaskTypeOK /\ GenTypeOK /\ PtrTypeOK /\ CallTypeOK

HasMutex(t) == tpc[t] \in {"locked", "generating", "ended"}

\* The pointer a new task would read is never a freed context; on iOS, where the
\* pointer is read under the mutex, no task ever uses a freed one, whatever swaps
\* overlap it (handle_inference_task); and on either build the context of a task
\* that holds the inference mutex is not freed under it: a hot swap waits for the
\* task (set_remote_worker_model, step 5).
PointersLive ==
    /\ []/\ ctx \notin freed
         /\ platform = "ios" => \A t \in Tasks : HasMutex(t) => tctx[t] \notin freed
    /\ [][\A t \in Tasks : (HasMutex(t) /\ tctx[t] \notin freed)
                               => tctx[t] \notin freed']_runtimeVars

\* A task is stopped only by a stop raised while it was generating: what a
\* cancel left behind, which came too late for its own task, never cuts the
\* next generation short (gpuf_start_generation_async lowers the flag first).
StopIsForRunning == stopFlag => Generating \subseteq stoppers

\* With one model call at a time, the status the application reads after the
\* call says "Loaded" exactly for the model that tasks will run on.
StatusHonest ==
    (~overlap /\ Busy = {} /\ status.state = "Loaded") => ctx = status.model

\* Every task the server sends is answered with a done chunk, except one with
\* a NUL in its prompt on iOS; swaps, cancels and other tasks only delay it.
TaskAnswered == <>[](\A t \in Tasks : tpc[t] \in {"new", "done", "refused"})

\* What the comment above set_remote_worker_model claims: "Uses coordination
\* mutex to ensure no inference requests access freed memory."
NoUseAfterFree ==
    \A t \in Tasks : tpc[t] = "generating" => tctx[t] \notin freed
=============================================================================
