----------------------------- MODULE DeviceProofs -----------------------------
(***************************************************************************)
(* Theorems about the parts of a device: the model runtime of the mobile    *)
(* SDK, for any number of tasks, application threads and loads, on both     *)
(* platforms; the mobile worker, for any number of starts and connections;  *)
(* the engine of the desktop worker, for any models and sessions; the model *)
(* downloader, for any size of the file and of its chunks and any number of *)
(* attempts and faults.                                                     *)
(***************************************************************************)
EXTENDS ModelRuntime, MobileWorker, ModelDownloader, DesktopEngine, SequenceTheorems, TLAPS

(***************************************************************************)
(* The model runtime.                                                       *)
(***************************************************************************)

\* A load that has not stored its handle yet: nobody else knows the handle.
Loading(c) == cpc[c] \in {"loading_for_swap", "loading_for_store", "swapping"}

\* Every handle comes from a load of its own, so a swap frees an older handle
\* than the one it stores.
HandlesFresh ==
    /\ ctx \in 0..loads /\ freed \subseteq 1..loads /\ ctx \notin freed
    /\ \A c \in Callers : Loading(c) =>
          cload[c] \in 1..loads /\ cload[c] # ctx /\ cload[c] \notin freed
    /\ \A c, d \in Callers : Loading(c) /\ Loading(d) /\ cload[c] = cload[d] => c = d

\* The inference mutex is held by the task that is between lock and finish.
MutexHeld == \A t \in Tasks : HasMutex(t) <=> mutex = t

\* A task on the control stream is there once and has not been started.
IsStart(i) == inbox[i][1] # "cancel"
StartsOnce ==
    /\ \A i \in 1..Len(inbox) : IsStart(i) => tpc[inbox[i][2]] = "sent"
    /\ \A i, j \in 1..Len(inbox) : IsStart(i) /\ IsStart(j) /\ inbox[i][2] = inbox[j][2] => i = j

\* What iOS reads under the mutex is live while the mutex is held.
IosLive == platform = "ios" => \A t \in Tasks : HasMutex(t) => tctx[t] \notin freed

\* A model call that is under way, from its first write to its last.
Calling(c) ==
    cpc[c] \in {"loading_for_swap", "loading_for_store", "swapping", "stored", "dropped"}

\* Without overlap the one call under way has not promised anything yet, and a
\* call that has stored its handle finds it there when it writes the status.
StatusOwned ==
    ~overlap =>
       /\ \A c, d \in Callers : Calling(c) /\ Calling(d) => c = d
       /\ (\A c \in Callers : ~Calling(c)) /\ status.state = "Loaded" => ctx = status.model
       /\ \A c \in Callers : cpc[c] = "stored" => ctx = cload[c]

\* The inductive invariant.
RuntimeInv ==
    /\ RuntimeTypeOK /\ HandlesFresh /\ StartsOnce /\ MutexHeld /\ IosLive
    /\ StopIsForRunning /\ StatusOwned

LEMMA RuntimeInitInv == RuntimeInit => RuntimeInv
  <1> SUFFICES ASSUME RuntimeInit PROVE RuntimeInv  OBVIOUS
  <1> USE RuntimeAssumption DEF RuntimeInit
  <1>1. RuntimeTypeOK
    <2>1. CmdTypeOK  BY DEF CmdTypeOK
    <2>2. TaskTypeOK  BY DEF TaskTypeOK
    <2>3. GenTypeOK  BY DEF GenTypeOK
    <2>4. PtrTypeOK  BY DEF PtrTypeOK
    <2>5. CallTypeOK  BY DEF CallTypeOK
    <2> QED BY <2>1, <2>2, <2>3, <2>4, <2>5 DEF RuntimeTypeOK
  <1>2. HandlesFresh  BY DEF HandlesFresh, Loading
  <1>3. StartsOnce /\ MutexHeld /\ IosLive
        BY DEF StartsOnce, MutexHeld, IosLive, HasMutex
  <1>4. StopIsForRunning /\ StatusOwned
        BY DEF StopIsForRunning, StatusOwned, Calling
  <1> QED BY <1>1, <1>2, <1>3, <1>4 DEF RuntimeInv

-------------------------------------------------------------------------------
(* Types.                                                                   *)

\* The command at the head of the control stream names a task.
LEMMA ReadsType ==
    ASSUME RuntimeTypeOK, NEW kind, NEW t, Reads(kind, t)
    PROVE  t \in Tasks /\ inbox' \in Seq({"task", "chat", "cancel"} \X Tasks)
  <1>1. inbox \in Seq({"task", "chat", "cancel"} \X Tasks) /\ inbox # <<>>
        BY DEF RuntimeTypeOK, CmdTypeOK, Reads
  <1>2. Head(inbox) \in {"task", "chat", "cancel"} \X Tasks  BY <1>1
  <1> QED BY <1>1, <1>2 DEF Reads

\* The server and the handler thread keep the types.
LEMMA HandlerTypeOK ==
    ASSUME RuntimeTypeOK,
           HandlerStep \/ \E t \in Tasks : SendTask(t) \/ SendCancel(t)
    PROVE  RuntimeTypeOK'
  <1> USE DEF RuntimeTypeOK, CmdTypeOK, TaskTypeOK, GenTypeOK, PtrTypeOK, CallTypeOK, genVars, callVars, ptrVars, taskVars, Goes
  <1>1. ASSUME NEW t \in Tasks, SendTask(t) PROVE RuntimeTypeOK'
        BY <1>1 DEF SendTask
  <1>2. ASSUME NEW t \in Tasks, SendCancel(t) PROVE RuntimeTypeOK'
        BY <1>2 DEF SendCancel
  <1>3. ASSUME NEW t \in Tasks,
               AndroidTask(t) \/ AndroidChat(t) \/ CallbackTask(t) \/ CallbackChat(t)
        PROVE  RuntimeTypeOK'
    <2>1. inbox' \in Seq({"task", "chat", "cancel"} \X Tasks)
          BY <1>3, ReadsType DEF AndroidTask, AndroidChat, CallbackTask, CallbackChat
    <2>2. SpawnTask(t)  BY <1>3 DEF AndroidTask, AndroidChat, CallbackTask, CallbackChat
    <2> QED BY <2>1, <2>2 DEF SpawnTask
  <1>4. ASSUME NEW t \in Tasks, IosTask(t) PROVE RuntimeTypeOK'
    <2>1. inbox' \in Seq({"task", "chat", "cancel"} \X Tasks)  BY <1>4, ReadsType DEF IosTask
    <2> QED BY <1>4, <2>1 DEF IosTask
  <1>5. ASSUME NEW t \in Tasks, ReadCancel(t) PROVE RuntimeTypeOK'
    <2>1. inbox' \in Seq({"task", "chat", "cancel"} \X Tasks)  BY <1>5, ReadsType DEF ReadCancel
    <2> QED BY <1>5, <2>1 DEF ReadCancel
  <1>6. CASE AndroidStop  BY <1>6 DEF AndroidStop, RaiseStop, Generating
  <1> QED BY <1>1, <1>2, <1>3, <1>4, <1>5, <1>6 DEF HandlerStep

\* So does the thread that serves a task.
LEMMA ServeTypeOK ==
    ASSUME RuntimeTypeOK, NEW t \in Tasks, Serve(t) \/ PrefillFails(t) \/ TokenCallback(t)
    PROVE  RuntimeTypeOK'
  <1> USE DEF RuntimeTypeOK, CmdTypeOK, TaskTypeOK, GenTypeOK, PtrTypeOK, CallTypeOK, cmdVars, genVars, callVars, ptrVars, taskVars, Goes
  <1>1. CASE AndroidLock(t)  BY <1>1 DEF AndroidLock
  <1>2. CASE StartGeneration(t) \/ EndGeneration(t) \/ PrefillFails(t)
        BY <1>2 DEF StartGeneration, EndGeneration, PrefillFails
  <1>3. CASE AndroidFinish(t) \/ IosFinish(t)  BY <1>3 DEF AndroidFinish, IosFinish
  <1>4. CASE TokenCallback(t)  BY <1>4 DEF TokenCallback, RaiseStop, Generating
  <1> QED BY <1>1, <1>2, <1>3, <1>4 DEF Serve

\* So do the application's calls.
LEMMA CallerTypeOK ==
    ASSUME RuntimeTypeOK, NEW c \in Callers, CallerStep(c)
    PROVE  RuntimeTypeOK'
  <1> USE RuntimeAssumption
          DEF RuntimeTypeOK, CmdTypeOK, TaskTypeOK, GenTypeOK, PtrTypeOK, CallTypeOK, cmdVars, genVars, callVars, ptrVars, taskVars, Step, Handles
  <1>1. CASE BeginLoad(c)
    <2>1. overlap' \in BOOLEAN  BY <1>1, Zenon DEF BeginLoad
    <2>2. loads' \in 1..MaxLoads  BY <1>1 DEF BeginLoad
    <2>3. cpc' \in [Callers -> {"idle", "loading_for_swap", "loading_for_store",
                              "swapping", "stored", "dropped", "generating"}]
          BY <1>1 DEF BeginLoad
    <2>4. cload' \in [Callers -> Handles \cup {0}]  BY <1>1, <2>2 DEF BeginLoad
    <2>5. CallTypeOK'  BY <1>1, <2>1, <2>2, <2>3, <2>4 DEF BeginLoad
    <2>6. UNCHANGED <<cmdVars, taskVars, genVars, mutex, ptrVars, swapLock>>  BY <1>1 DEF BeginLoad
    <2>7. CmdTypeOK' /\ TaskTypeOK'  BY <2>6
    <2>8. GenTypeOK' /\ PtrTypeOK'
      <3>1. PtrTypeOK'  BY <2>2, <2>6
      <3>2. GenTypeOK'  BY <2>6, Zenon
      <3> QED BY <3>1, <3>2, Zenon
    <2> HIDE DEF CmdTypeOK, TaskTypeOK, GenTypeOK, PtrTypeOK, CallTypeOK
    <2> QED BY <2>5, <2>7, <2>8, Zenon DEF RuntimeTypeOK
  <1>2. CASE LoadFails(c)  BY <1>2 DEF LoadFails
  <1>3. CASE TakeSwapLock(c)  BY <1>3 DEF TakeSwapLock
  <1>4. CASE SwapModel(c)  BY <1>4 DEF SwapModel
  <1>5. CASE StoreModel(c)  BY <1>5 DEF StoreModel
  <1>6. CASE DropModel(c)
    <2>1. overlap' \in BOOLEAN  BY <1>6, Zenon DEF DropModel
    <2> QED BY <1>6, <2>1 DEF DropModel
  <1>7. CASE SetLoaded(c)  BY <1>7 DEF SetLoaded
  <1>8. CASE BeginLocal(c)  BY <1>8 DEF BeginLocal
  <1>9. CASE EndLocal(c)  BY <1>9 DEF EndLocal
  <1>10. CASE LocalAsync(c)  BY <1>10 DEF LocalAsync
  <1>11. CASE LocalStop(c)  BY <1>11 DEF LocalStop, RaiseStop, Generating
  <1> QED BY <1>1, <1>2, <1>3, <1>4, <1>5, <1>6, <1>7, <1>8, <1>9, <1>10, <1>11 DEF CallerStep

-------------------------------------------------------------------------------
(* The parts of the invariant.                                              *)

\* Tasks and commands leave the pointers and the calls alone.
LEMMA TaskFrame ==
    ASSUME \/ HandlerStep
           \/ \E t \in Tasks : \/ SendTask(t) \/ SendCancel(t) \/ Serve(t) \/ PrefillFails(t)
                               \/ TokenCallback(t)
    PROVE  UNCHANGED <<platform, ptrVars, callVars>>
  BY DEF HandlerStep, AndroidStop, AndroidTask, AndroidChat, CallbackTask, CallbackChat,
         SpawnTask, IosTask, ReadCancel, SendTask, SendCancel, Serve, AndroidLock,
         StartGeneration, EndGeneration, AndroidFinish, IosFinish, PrefillFails, TokenCallback,
         cmdVars

\* The application's calls leave the tasks and the inference mutex alone.
LEMMA CallFrame ==
    ASSUME NEW c \in Callers, CallerStep(c)
    PROVE  UNCHANGED <<platform, taskVars, mutex>>
  BY DEF CallerStep, BeginLoad, LoadFails, TakeSwapLock, SwapModel, StoreModel, DropModel,
         SetLoaded, BeginLocal, EndLocal, LocalAsync, LocalStop, cmdVars

\* A load takes the next handle; only a swap frees one, which was the current one.
LEMMA StepHandlesFresh ==
    ASSUME RuntimeTypeOK, HandlesFresh, [RuntimeNext]_runtimeVars PROVE HandlesFresh'
  <1> USE DEF HandlesFresh, Loading
  <1>0. /\ cpc \in [Callers -> {"idle", "loading_for_swap", "loading_for_store",
                                "swapping", "stored", "dropped", "generating"}]
        /\ cload \in [Callers -> Handles \cup {0}] /\ loads \in Nat
        BY RuntimeAssumption DEF RuntimeTypeOK, PtrTypeOK, CallTypeOK
  <1>1. CASE UNCHANGED <<ptrVars, callVars>>  BY <1>1 DEF ptrVars, callVars
  <1>2. ASSUME NEW c \in Callers, CallerStep(c) PROVE HandlesFresh'
    <2> USE <1>0 DEF Step
    <2>1. CASE BeginLoad(c)
      <3>1. /\ loads' = loads + 1 /\ UNCHANGED <<ctx, freed>>
            /\ cload' = [cload EXCEPT ![c] = loads + 1]
            /\ ~Loading(c)
            BY <2>1 DEF BeginLoad, ptrVars
      <3>2. \A d \in Callers \ {c} : cload'[d] = cload[d] /\ cpc'[d] = cpc[d]
            BY <2>1, <3>1 DEF BeginLoad
      <3>3. cload'[c] = loads + 1  BY <3>1
      <3> QED BY <3>1, <3>2, <3>3
    <2>2. CASE LoadFails(c) \/ SetLoaded(c)  BY <2>2 DEF LoadFails, SetLoaded, ptrVars
    <2>3. CASE TakeSwapLock(c)  BY <2>3 DEF TakeSwapLock, ptrVars
    <2>4. CASE SwapModel(c)  BY <2>4 DEF SwapModel
    <2>5. CASE StoreModel(c)  BY <2>5 DEF StoreModel
    <2>6. CASE DropModel(c)  BY <2>6 DEF DropModel
    <2>7. CASE BeginLocal(c) \/ EndLocal(c)  BY <2>7 DEF BeginLocal, EndLocal, ptrVars
    <2>8. CASE LocalAsync(c) \/ LocalStop(c)  BY <1>1, <2>8 DEF LocalAsync, LocalStop
    <2> QED BY <1>2, <2>1, <2>2, <2>3, <2>4, <2>5, <2>6, <2>7, <2>8 DEF CallerStep
  <1> QED BY <1>1, <1>2, TaskFrame DEF RuntimeNext, runtimeVars

\* A task is put on the stream once, and leaves "sent" as its command is read.
LEMMA StepStartsOnce ==
    ASSUME RuntimeTypeOK, StartsOnce, [RuntimeNext]_runtimeVars PROVE StartsOnce'
  <1> USE DEF StartsOnce, IsStart
  <1>0. /\ inbox \in Seq({"task", "chat", "cancel"} \X Tasks)
        /\ tpc \in [Tasks -> {"new", "sent", "queued", "spawned", "locked",
                              "generating", "ended", "done", "refused"}]
        BY DEF RuntimeTypeOK, CmdTypeOK, TaskTypeOK
  <1>00. \A i \in 1..Len(inbox) : inbox[i][2] \in Tasks
    <2>1. \A i \in 1..Len(inbox) : inbox[i] \in {"task", "chat", "cancel"} \X Tasks  BY <1>0
    <2> QED BY <2>1
  <1>1. CASE UNCHANGED <<inbox, tpc>>  BY <1>1
  <1>2. ASSUME NEW t \in Tasks, SendTask(t) PROVE StartsOnce'
    <2>1. PICK kind \in {"task", "chat"} : inbox' = Append(inbox, <<kind, t>>)
          BY <1>2 DEF SendTask
    <2>2. tpc[t] = "new" /\ tpc' = [tpc EXCEPT ![t] = "sent"]  BY <1>2 DEF SendTask
    <2>3. /\ Len(inbox') = Len(inbox) + 1 /\ inbox'[Len(inbox) + 1] = <<kind, t>>
          /\ \A i \in 1..Len(inbox) : inbox'[i] = inbox[i]
          BY <1>0, <2>1
    <2>4. \A i \in 1..Len(inbox) : IsStart(i) => inbox[i][2] # t  BY <2>2
    <2>5. Len(inbox) \in Nat  BY <1>0
    <2> QED BY <1>0, <1>00, <2>2, <2>3, <2>4, <2>5
  <1>3. ASSUME NEW t \in Tasks, SendCancel(t) PROVE StartsOnce'
    <2>1. inbox' = Append(inbox, <<"cancel", t>>) /\ tpc' = tpc  BY <1>3 DEF SendCancel, taskVars
    <2>2. /\ Len(inbox') = Len(inbox) + 1 /\ inbox'[Len(inbox) + 1] = <<"cancel", t>>
          /\ \A i \in 1..Len(inbox) : inbox'[i] = inbox[i] /\ Len(inbox) \in Nat
          BY <1>0, <2>1
    <2> QED BY <2>1, <2>2
  <1>4. ASSUME NEW t \in Tasks, NEW kind, Reads(kind, t),
               tpc' = tpc \/ (kind # "cancel" /\ \E to : tpc' = [tpc EXCEPT ![t] = to])
        PROVE  StartsOnce'
    <2>1. /\ inbox # <<>> /\ inbox[1] = <<kind, t>> /\ Len(inbox) \in Nat
          /\ Len(inbox') = Len(inbox) - 1 /\ Len(inbox) # 0
          /\ \A i \in 1..Len(inbox') : inbox'[i] = inbox[i + 1]
          BY <1>0, <1>4 DEF Reads
    <2>2. \A i \in 1..Len(inbox') : i + 1 \in 1..Len(inbox) /\ i + 1 # 1  BY <2>1
    <2>3. kind # "cancel" =>
             \A i \in 1..Len(inbox') : IsStart(i + 1) => inbox[i + 1][2] # t
          BY <2>1, <2>2
    <2>4. ASSUME NEW i \in 1..Len(inbox'), IsStart(i + 1)
          PROVE  tpc'[inbox'[i][2]] = "sent"
      <3> DEFINE s == inbox[i + 1][2]
      <3>1. s \in Tasks /\ tpc[s] = "sent" /\ inbox'[i] = inbox[i + 1]
            BY <1>0, <1>00, <2>1, <2>2, <2>4
      <3>2. CASE tpc' = tpc  BY <3>1, <3>2
      <3>3. CASE kind # "cancel" /\ \E to : tpc' = [tpc EXCEPT ![t] = to]
        <4>1. PICK to : tpc' = [tpc EXCEPT ![t] = to]  BY <3>3
        <4>2. s # t  BY <2>3, <2>4, <3>3
        <4> QED BY <1>0, <3>1, <4>1, <4>2
      <3> QED BY <1>4, <3>2, <3>3
    <2>5. \A i \in 1..Len(inbox') : IsStart(i)' <=> IsStart(i + 1)  BY <2>1
    <2> QED BY <2>1, <2>2, <2>4, <2>5
  <1>5. ASSUME HandlerStep PROVE StartsOnce'
    <2> USE DEF Goes
    <2>1. ASSUME NEW t \in Tasks,
                 AndroidTask(t) \/ AndroidChat(t) \/ CallbackTask(t) \/ CallbackChat(t)
          PROVE  StartsOnce'
      <3>1. Reads("task", t) \/ Reads("chat", t)
            BY <2>1 DEF AndroidTask, AndroidChat, CallbackTask, CallbackChat
      <3>2. \E to : tpc' = [tpc EXCEPT ![t] = to]
            BY <2>1 DEF AndroidTask, AndroidChat, CallbackTask, CallbackChat, SpawnTask
      <3> QED BY <1>4, <3>1, <3>2
    <2>2. ASSUME NEW t \in Tasks, IosTask(t) PROVE StartsOnce'
      <3>1. Reads("task", t) \/ Reads("chat", t)  BY <2>2 DEF IosTask
      <3>2. \E to : tpc' = [tpc EXCEPT ![t] = to]  BY <2>2 DEF IosTask
      <3> QED BY <1>4, <3>1, <3>2
    <2>3. ASSUME NEW t \in Tasks, ReadCancel(t) PROVE StartsOnce'
          BY <1>4, <2>3 DEF ReadCancel, taskVars
    <2>4. CASE AndroidStop  BY <1>1, <2>4 DEF AndroidStop, taskVars
    <2> QED BY <1>5, <2>1, <2>2, <2>3, <2>4 DEF HandlerStep
  <1>6. ASSUME NEW t \in Tasks, Serve(t) \/ PrefillFails(t) \/ TokenCallback(t) PROVE StartsOnce'
    <2>1. /\ inbox' = inbox
          /\ tpc' = tpc \/ (tpc[t] # "sent" /\ \E to : tpc' = [tpc EXCEPT ![t] = to])
          BY <1>6 DEF Serve, AndroidLock, StartGeneration, EndGeneration, AndroidFinish, IosFinish,
             PrefillFails, TokenCallback, Goes, cmdVars, taskVars
    <2> QED BY <1>0, <1>00, <2>1
  <1>7. ASSUME NEW c \in Callers, CallerStep(c) PROVE UNCHANGED <<inbox, tpc>>
        BY <1>7 DEF CallerStep, BeginLoad, LoadFails, TakeSwapLock, SwapModel, StoreModel, DropModel,
           SetLoaded, BeginLocal, EndLocal, LocalAsync, LocalStop, cmdVars, taskVars
  <1> QED BY <1>1, <1>2, <1>3, <1>5, <1>6, <1>7 DEF RuntimeNext, runtimeVars, cmdVars, taskVars

\* One task at a time is between lock and finish, on either platform; on iOS the
\* pointer it uses was read under the lock, and a swap waits for the lock.
LEMMA StepMutexHeld ==
    ASSUME RuntimeInv, [RuntimeNext]_runtimeVars PROVE MutexHeld' /\ IosLive'
  <1> USE DEF MutexHeld, IosLive, HasMutex
  <1>0. /\ MutexHeld /\ IosLive /\ ctx \notin freed /\ NoOne \notin Tasks
        /\ tpc \in [Tasks -> {"new", "sent", "queued", "spawned", "locked",
                              "generating", "ended", "done", "refused"}]
        /\ tctx \in [Tasks -> Handles \cup {0}]
        BY RuntimeAssumption DEF RuntimeInv, HandlesFresh, RuntimeTypeOK, TaskTypeOK
  <1>1. CASE UNCHANGED <<platform, taskVars, mutex, freed>>  BY <1>0, <1>1 DEF taskVars
  <1>2. ASSUME NEW c \in Callers, CallerStep(c) PROVE MutexHeld' /\ IosLive'
    <2>1. UNCHANGED <<platform, taskVars, mutex>>  BY <1>2, CallFrame
    <2>2. freed' = freed \/ mutex = NoOne
          BY <1>2 DEF CallerStep, BeginLoad, LoadFails, TakeSwapLock, SwapModel, StoreModel,
             DropModel, SetLoaded, BeginLocal, EndLocal, LocalAsync, LocalStop, ptrVars
    <2> QED BY <1>0, <2>1, <2>2 DEF taskVars
  <1>3. CASE \/ HandlerStep
             \/ \E t \in Tasks : \/ SendTask(t) \/ SendCancel(t) \/ Serve(t) \/ PrefillFails(t)
                                 \/ TokenCallback(t)
    <2> USE DEF Goes
    <2>0. UNCHANGED <<platform, freed>>  BY <1>3, TaskFrame DEF ptrVars
    <2>1. ASSUME NEW t \in Tasks, SendTask(t) PROVE MutexHeld' /\ IosLive'
          BY <1>0, <2>0, <2>1 DEF SendTask
    <2>2. ASSUME NEW t \in Tasks, SendCancel(t) \/ ReadCancel(t) \/ TokenCallback(t) \/ AndroidStop
          PROVE  MutexHeld' /\ IosLive'
          BY <1>1, <2>0, <2>2 DEF SendCancel, ReadCancel, TokenCallback, AndroidStop
    <2>3. ASSUME NEW t \in Tasks,
                 AndroidTask(t) \/ AndroidChat(t) \/ CallbackTask(t) \/ CallbackChat(t)
          PROVE  MutexHeld' /\ IosLive'
      <3>1. SpawnTask(t) /\ platform = "android"
            BY <2>3 DEF AndroidTask, AndroidChat, CallbackTask, CallbackChat
      <3>2. tpc[t] = "sent"
        <4>1. Reads("task", t) \/ Reads("chat", t)
              BY <2>3 DEF AndroidTask, AndroidChat, CallbackTask, CallbackChat
        <4>2. inbox \in Seq({"task", "chat", "cancel"} \X Tasks)
              BY DEF RuntimeInv, RuntimeTypeOK, CmdTypeOK
        <4>3. 1 \in 1..Len(inbox) /\ inbox[1][1] # "cancel" /\ inbox[1][2] = t
              BY <4>1, <4>2 DEF Reads
        <4> QED BY <4>3 DEF RuntimeInv, StartsOnce, IsStart
      <3> QED BY <1>0, <2>0, <3>1, <3>2 DEF SpawnTask
    <2>4. ASSUME NEW t \in Tasks, IosTask(t) PROVE MutexHeld' /\ IosLive'
          BY <1>0, <2>0, <2>4 DEF IosTask
    <2>5. ASSUME NEW t \in Tasks, AndroidLock(t) PROVE MutexHeld' /\ IosLive'
          BY <1>0, <2>0, <2>5 DEF AndroidLock
    <2>6. ASSUME NEW t \in Tasks, StartGeneration(t) \/ EndGeneration(t) \/ PrefillFails(t)
          PROVE  MutexHeld' /\ IosLive'
          BY <1>0, <2>0, <2>6 DEF StartGeneration, EndGeneration, PrefillFails
    <2>7. ASSUME NEW t \in Tasks, AndroidFinish(t) \/ IosFinish(t) PROVE MutexHeld' /\ IosLive'
          BY <1>0, <2>0, <2>7 DEF AndroidFinish, IosFinish
    <2>8. CASE AndroidStop  BY <1>1, <2>0, <2>8 DEF AndroidStop
    <2> QED BY <1>3, <2>1, <2>2, <2>3, <2>4, <2>5, <2>6, <2>7, <2>8 DEF HandlerStep, Serve
  <1> QED BY <1>1, <1>2, <1>3 DEF RuntimeNext, runtimeVars, cmdVars, ptrVars

\* Only gpuf_start_generation_async starts a generation, and it lowers the flag.
LEMMA StepStop ==
    ASSUME RuntimeInv, [RuntimeNext]_runtimeVars PROVE StopIsForRunning'
  <1> USE DEF StopIsForRunning, Generating
  <1>0. /\ StopIsForRunning
        /\ tpc \in [Tasks -> {"new", "sent", "queued", "spawned", "locked",
                              "generating", "ended", "done", "refused"}]
        BY DEF RuntimeInv, RuntimeTypeOK, TaskTypeOK
  <1>1. CASE UNCHANGED <<tpc, genVars>>  BY <1>0, <1>1 DEF genVars
  <1>2. CASE stopFlag' = FALSE  BY <1>2
  <1>3. CASE UNCHANGED tpc /\ RaiseStop  BY <1>3 DEF RaiseStop
  <1>4. ASSUME NEW t \in Tasks, NEW to, to # "generating", UNCHANGED genVars,
               tpc' = [tpc EXCEPT ![t] = to]
        PROVE  StopIsForRunning'
        BY <1>0, <1>4 DEF genVars
  <1>5. ASSUME NEW t \in Tasks,
               \/ SendTask(t) \/ AndroidTask(t) \/ AndroidChat(t) \/ CallbackTask(t)
               \/ CallbackChat(t) \/ IosTask(t)
        PROVE  StopIsForRunning'
    <2>1. /\ UNCHANGED genVars
          /\ \E to : to # "generating" /\ tpc' = [tpc EXCEPT ![t] = to]
          BY <1>5 DEF SendTask, AndroidTask, AndroidChat, CallbackTask, CallbackChat, IosTask,
             SpawnTask, Goes
    <2> QED BY <1>4, <2>1
  <1>6. ASSUME NEW t \in Tasks, AndroidLock(t) \/ AndroidFinish(t) \/ IosFinish(t) \/ PrefillFails(t)
        PROVE  StopIsForRunning'
    <2>1. /\ UNCHANGED genVars
          /\ \E to : to # "generating" /\ tpc' = [tpc EXCEPT ![t] = to]
          BY <1>6 DEF AndroidLock, AndroidFinish, IosFinish, PrefillFails, Goes
    <2> QED BY <1>4, <2>1
  <1>7. ASSUME NEW t \in Tasks, StartGeneration(t) \/ EndGeneration(t) PROVE StopIsForRunning'
        BY <1>2, <1>7 DEF StartGeneration, EndGeneration
  <1>8. ASSUME NEW t \in Tasks, TokenCallback(t) \/ SendCancel(t) \/ ReadCancel(t)
        PROVE  StopIsForRunning'
        BY <1>1, <1>3, <1>8 DEF TokenCallback, SendCancel, ReadCancel, taskVars
  <1>9. CASE AndroidStop  BY <1>1, <1>3, <1>9 DEF AndroidStop, taskVars
  <1>10. ASSUME NEW c \in Callers, CallerStep(c) PROVE StopIsForRunning'
    <2>1. UNCHANGED tpc  BY <1>10, CallFrame DEF taskVars
    <2>2. UNCHANGED genVars \/ stopFlag' = FALSE \/ RaiseStop
          BY <1>10 DEF CallerStep, BeginLoad, LoadFails, TakeSwapLock, SwapModel, StoreModel,
             DropModel, SetLoaded, BeginLocal, EndLocal, LocalAsync, LocalStop
    <2> QED BY <1>1, <1>2, <1>3, <2>1, <2>2
  <1> QED BY <1>1, <1>5, <1>6, <1>7, <1>8, <1>9, <1>10
          DEF RuntimeNext, HandlerStep, Serve, runtimeVars, taskVars

\* A call that overlaps no other finds the status and the pointer as it left them.
LEMMA StepStatusOwned ==
    ASSUME RuntimeTypeOK, StatusOwned, [RuntimeNext]_runtimeVars PROVE StatusOwned'
  <1> USE DEF StatusOwned, Calling
  <1>0. /\ cpc \in [Callers -> {"idle", "loading_for_swap", "loading_for_store",
                                "swapping", "stored", "dropped", "generating"}]
        /\ cload \in [Callers -> Handles \cup {0}]
        /\ status \in [model : Handles \cup {0},
                       state : {"Not_initialized", "Loading", "Loaded", "Error"}]
        BY DEF RuntimeTypeOK, CallTypeOK
  <1>1. CASE UNCHANGED <<ptrVars, callVars>>  BY <1>1 DEF ptrVars, callVars
  <1>2. ASSUME NEW c \in Callers, CallerStep(c) PROVE StatusOwned'
    <2> USE <1>0 DEF Step, Busy
    <2>1. CASE BeginLoad(c)
      <3>1. ~overlap' => \A d \in Callers : cpc[d] = "idle"  BY <2>1 DEF BeginLoad
      <3>2. ~overlap' => \A d \in Callers \ {c} : cpc'[d] = "idle"  BY <2>1, <3>1 DEF BeginLoad
      <3>3. cpc'[c] \in {"loading_for_swap", "loading_for_store"}  BY <2>1 DEF BeginLoad
      <3> QED BY <3>2, <3>3
    <2>2. CASE LoadFails(c)  BY <2>2 DEF LoadFails, ptrVars
    <2>3. CASE TakeSwapLock(c)  BY <2>3 DEF TakeSwapLock, ptrVars
    <2>4. CASE SwapModel(c)  BY <2>4 DEF SwapModel
    <2>5. CASE StoreModel(c)  BY <2>5 DEF StoreModel
    <2>6. CASE DropModel(c)
      <3>1. ~overlap' => \A d \in Callers : cpc[d] = "idle"  BY <2>6 DEF DropModel
      <3>2. ~overlap' => \A d \in Callers \ {c} : cpc'[d] = "idle"  BY <2>6, <3>1 DEF DropModel
      <3>3. cpc'[c] = "dropped"  BY <2>6 DEF DropModel
      <3> QED BY <3>2, <3>3
    <2>7. CASE SetLoaded(c)  BY <2>7 DEF SetLoaded, ptrVars
    <2>8. CASE BeginLocal(c)  BY <2>8 DEF BeginLocal, ptrVars
    <2>9. CASE EndLocal(c)  BY <2>9 DEF EndLocal, ptrVars
    <2>10. CASE LocalAsync(c) \/ LocalStop(c)  BY <1>1, <2>10 DEF LocalAsync, LocalStop
    <2> QED BY <1>2, <2>1, <2>2, <2>3, <2>4, <2>5, <2>6, <2>7, <2>8, <2>9, <2>10 DEF CallerStep
  <1> QED BY <1>1, <1>2, TaskFrame DEF RuntimeNext, runtimeVars

-------------------------------------------------------------------------------
(* The theorems.                                                            *)

\* Every step keeps the types.
LEMMA StepRuntimeTypeOK ==
    ASSUME RuntimeTypeOK, [RuntimeNext]_runtimeVars PROVE RuntimeTypeOK'
  <1>1. CASE UNCHANGED runtimeVars
        BY <1>1 DEF RuntimeTypeOK, CmdTypeOK, TaskTypeOK, GenTypeOK, PtrTypeOK, CallTypeOK,
           runtimeVars, cmdVars, taskVars, genVars, ptrVars, callVars
  <1> QED BY <1>1, HandlerTypeOK, ServeTypeOK, CallerTypeOK DEF RuntimeNext

\* RuntimeInv holds in every reachable state.
THEOREM RuntimeInvariance == RuntimeSpec => []RuntimeInv
  <1>1. RuntimeInit => RuntimeInv  BY RuntimeInitInv
  <1>2. RuntimeInv /\ [RuntimeNext]_runtimeVars => RuntimeInv'
        BY StepRuntimeTypeOK, StepHandlesFresh, StepStartsOnce, StepMutexHeld, StepStop,
           StepStatusOwned DEF RuntimeInv
  <1> QED BY <1>1, <1>2, PTL DEF RuntimeSpec

\* set_remote_worker_model, step 5, and handle_inference_task: the global pointer is
\* never a freed one, iOS never uses a freed one, and no swap frees the context of a
\* task that holds the inference mutex, for any number of tasks, calls and swaps.
THEOREM PointersStayLive == RuntimeSpec => PointersLive
  <1>1. RuntimeInv => /\ ctx \notin freed
                      /\ platform = "ios" => \A t \in Tasks : HasMutex(t) => tctx[t] \notin freed
        BY DEF RuntimeInv, HandlesFresh, IosLive
  <1>2. RuntimeInv /\ [RuntimeNext]_runtimeVars =>
          [\A t \in Tasks : (HasMutex(t) /\ tctx[t] \notin freed)
                               => tctx[t] \notin freed']_runtimeVars
    <2> SUFFICES ASSUME RuntimeInv, RuntimeNext, NEW t \in Tasks, HasMutex(t), tctx[t] \notin freed
                 PROVE  tctx[t] \notin freed'
        OBVIOUS
    <2>1. CASE freed' = freed  BY <2>1
    <2>2. ASSUME NEW c \in Callers, CallerStep(c) PROVE freed' = freed
      <3>1. mutex # NoOne  BY RuntimeAssumption DEF RuntimeInv, MutexHeld
      <3> QED BY <2>2, <3>1 DEF CallerStep, BeginLoad, LoadFails, TakeSwapLock, SwapModel, StoreModel,
              DropModel, SetLoaded, BeginLocal, EndLocal, LocalAsync, LocalStop, ptrVars
    <2> QED BY <2>1, <2>2, TaskFrame DEF RuntimeNext, ptrVars
  <1> QED BY <1>1, <1>2, RuntimeInvariance, PTL DEF RuntimeSpec, PointersLive

\* gpuf_start_generation_async: a stop raised for one task never ends another's
\* generation, whatever threads raise and lower the one flag.
THEOREM StopsOnlyRunning == RuntimeSpec => []StopIsForRunning
  <1>1. RuntimeInv => StopIsForRunning  BY DEF RuntimeInv
  <1> QED BY <1>1, RuntimeInvariance, PTL

\* MODEL_STATUS after calls that do not overlap: "Loaded" is said of the model that
\* tasks will run on.
THEOREM StatusIsHonest == RuntimeSpec => []StatusHonest
  <1>1. RuntimeInv => StatusHonest
        BY DEF RuntimeInv, StatusOwned, StatusHonest, Busy, Calling
  <1> QED BY <1>1, RuntimeInvariance, PTL

(***************************************************************************)
(* The mobile worker.                                                       *)
(***************************************************************************)

Ended(g) == hbPc[g] = "end" /\ hdPc[g] = "end"

\* Only iOS reconnects from its handler or logs in in three steps; on Android with a
\* callback the handles are those of the last start, or its threads were joined.
WorkerInv ==
    /\ build \in {"ios", "callback", "plain"}
    /\ starts \in 0..MaxStarts /\ DOMAIN hbPc = Starts /\ DOMAIN hdPc = Starts
    /\ \A g \in Starts : hdPc[g] = "get" => build = "ios"
    /\ api \in {"closing", "connecting"} => build = "ios"
    /\ build = "callback" => handles = starts \/ (handles = 0 /\ (starts # 0 => Ended(starts)))

WorkerIInv == WorkerInv /\ StoppedIsQuiet

LEMMA WorkerInit == WkInit => WorkerIInv
  BY WorkerAssumption DEF WkInit, WorkerIInv, WorkerInv, StoppedIsQuiet, Starts

\* The threads' own steps never leave "end", and touch neither the application's state
\* nor, on Android, the stored stream.
LEMMA ThreadStep ==
    ASSUME WorkerIInv, NEW g \in Starts, HbStep(g) \/ HdStep(g)
    PROVE  /\ UNCHANGED wkApp /\ (build # "ios" => slot' = slot)
           /\ DOMAIN hbPc' = Starts /\ DOMAIN hdPc' = Starts
           /\ \A h \in Starts : hdPc'[h] = "get" => build = "ios"
           /\ \A h \in Starts : Ended(h) => Ended(h)'
  <1> USE DEF WorkerIInv, WorkerInv, Ended, Hb, Hd
  <1>1. CASE HbStep(g)
    <2>1. UNCHANGED <<wkApp, hdPc, slot>>
      BY <1>1 DEF HbStep, HbCheck, IosHeartbeat, PlainHeartbeat, CallbackHeartbeat, HbOnly, wkConns
    <2>2. hbPc[g] # "end" /\ \E to : hbPc' = [hbPc EXCEPT ![g] = to]
      BY <1>1 DEF HbStep, HbCheck, IosHeartbeat, PlainHeartbeat, CallbackHeartbeat
    <2> QED BY <2>1, <2>2 DEF wkApp
  <1>2. CASE HdStep(g)
    <2>1. UNCHANGED <<wkApp, hbPc>>
      BY <1>2 DEF HdStep, HdCheck, IosGetStream, IosReconnect, IosRead, IosIdle, IosTaskRead, IosServe,
         IosServed, IosLost, PlainRead, PlainCommand, CallbackRead, CallbackCommand, HandledAt
    <2>2. build # "ios" => slot' = slot
      BY <1>2 DEF HdStep, HdCheck, IosGetStream, IosReconnect, IosRead, IosIdle, IosTaskRead, IosServe,
         IosServed, IosLost, PlainRead, PlainCommand, CallbackRead, CallbackCommand, HandledAt, wkConns
    <2>3. hdPc[g] # "end" /\ \E to : hdPc' = [hdPc EXCEPT ![g] = to] /\ (to = "get" => build = "ios")
      BY <1>2 DEF HdStep, HdCheck, IosGetStream, IosReconnect, IosRead, IosIdle, IosTaskRead, IosServe,
         IosServed, IosLost, PlainRead, PlainCommand, CallbackRead, CallbackCommand, HandledAt
    <2> QED BY <2>1, <2>2, <2>3
  <1> QED BY <1>1, <1>2

LEMMA WorkerStep == ASSUME WorkerIInv, [WkNext]_wkVars PROVE WorkerIInv'
  <1> USE DEF WorkerIInv, WorkerInv, Ended, StoppedIsQuiet
  <1>1. CASE UNCHANGED wkVars  BY <1>1 DEF wkVars, wkApp, wkConns, wkThreads, Starts
  <1>2. ASSUME NEW g \in Starts, HbStep(g) \/ HdStep(g) PROVE WorkerIInv'
    <2>1. /\ UNCHANGED wkApp /\ (build # "ios" => slot' = slot)
          /\ DOMAIN hbPc' = Starts /\ DOMAIN hdPc' = Starts
          /\ \A h \in Starts : hdPc'[h] = "get" => build = "ios"
          /\ \A h \in Starts : Ended(h) => Ended(h)'
      BY <1>2, ThreadStep
    <2>2. starts # 0 => starts \in Starts  BY WorkerAssumption DEF Starts
    <2> QED BY <2>1, <2>2 DEF wkApp
  <1>3. CASE AppStep
    <2>1. CASE IosLogin \/ IosCloseOld \/ IosConnect \/ AndroidLogin \/ IosStop \/ AndroidStopCall
      BY <2>1 DEF IosLogin, IosCloseOld, IosConnect, AndroidLogin, IosStop, AndroidStopCall, wkThreads, wkConns
    <2>2. CASE IosStart \/ AndroidStart \/ AndroidStartPlain
      <3>1. CASE UNCHANGED <<starts, handles, hbPc, hdPc>> /\ quiet' = FALSE /\ UNCHANGED <<build, api>>
        BY <3>1
      <3>2. ASSUME Spawn(starts + 1, TRUE) \/ Spawn(starts + 1, configured), starts < MaxStarts,
                   quiet' = FALSE, UNCHANGED <<build, api>>,
                   build = "callback" => handles' = starts + 1
            PROVE  WorkerIInv'
        <4>1. starts' = starts + 1 /\ starts' \in 0..MaxStarts  BY <3>2, WorkerAssumption DEF Spawn
        <4>2. DOMAIN hbPc' = Starts /\ DOMAIN hdPc' = Starts  BY <3>2 DEF Spawn, Hb, Hd
        <4>3. \A h \in Starts : hdPc'[h] = "get" => build = "ios"  BY <3>2 DEF Spawn, Hb, Hd
        <4> QED BY <3>2, <4>1, <4>2, <4>3
      <3> QED BY <2>2, <3>1, <3>2 DEF IosStart, AndroidStart, AndroidStartPlain
    <2>3. CASE AndroidStopped
      <3>1. starts # 0 /\ build = "callback" => Ended(starts)  BY <2>3 DEF AndroidStopped
      <3> QED BY <2>3, <3>1 DEF AndroidStopped, wkThreads
    <2> QED BY <1>3, <2>1, <2>2, <2>3 DEF AppStep
  <1> QED BY <1>1, <1>2, <1>3 DEF WkNext

\* stop_global_worker of android_sdk returns only when the threads it must join have
\* ended, whatever logins, starts and stops came before.
THEOREM StopJoins == WkSpec => []StoppedIsQuiet
  <1>1. WorkerIInv /\ [WkNext]_wkVars => WorkerIInv'  BY WorkerStep
  <1>2. WorkerIInv => StoppedIsQuiet  BY DEF WorkerIInv
  <1> QED BY WorkerInit, <1>1, <1>2, PTL DEF WkSpec


(***************************************************************************)
(* The engine of the desktop worker.                                        *)
(***************************************************************************)

Paths == PodModels \cup {LocalModel, NoModel}
Engines == [path : Paths \cup {"no_engine"}, init : BOOLEAN, cached : Paths, cpath : Paths]

\* An engine that says it is initialised holds the model its path names.
Agrees(e) == e.init => e.cached # NoModel /\ e.cached = e.path /\ e.cpath = e.path

Loaded == engine.init /\ engine.cached = modelStatus.model

\* There is no session, no engine and nothing reported as loaded before the cached copy
\* exists.
EngineInv ==
    /\ local \in {NoModel, LocalModel}
    /\ engine \in Engines /\ cache \in Engines /\ httpEngine \in Engines
    /\ Agrees(engine) /\ Agrees(cache) /\ Agrees(httpEngine)
    /\ cache = NoEngine => session = "down" /\ engine = NoEngine /\ ~modelStatus.loaded
    /\ engine # NoEngine /\ modelStatus.loaded /\ ~reused => Loaded

LEMMA NoEngineType == NoEngine \in Engines /\ Agrees(NoEngine)
  BY DEF NoEngine, NoModel, Engines, Paths, Agrees

LEMMA InitializeType ==
    ASSUME NEW e \in Engines, e.path \in Paths, Agrees(e), NEW ok \in BOOLEAN
    PROVE  LET f == EnsureInitialized(e, ok) IN
           f \in Engines /\ Agrees(f) /\ f.path = e.path
  <1>1. CASE e.init  BY <1>1 DEF EnsureInitialized
  <1>2. CASE ~e.init
    <2> DEFINE kept == IF e.cpath \in {NoModel, e.path} THEN e ELSE ClearCache(e)
    <2>1. kept \in Engines /\ ~kept.init /\ kept.path = e.path
      BY <1>2 DEF ClearCache, Engines, Paths
    <2> HIDE DEF kept
    <2>2. CASE e.path = NoModel \/ (e.cpath = e.path /\ e.cached # NoModel)
      BY <1>2, <2>2 DEF EnsureInitialized, InitializeModel
    <2>3. CASE ~(e.path = NoModel \/ (e.cpath = e.path /\ e.cached # NoModel)) /\ ok
      <3> DEFINE f == [kept EXCEPT !.cached = e.path, !.cpath = e.path, !.init = TRUE]
      <3>1. EnsureInitialized(e, ok) = f  BY <1>2, <2>3 DEF EnsureInitialized, InitializeModel, kept
      <3>2. f \in Engines /\ f.path = e.path /\ f.cached = e.path /\ f.cpath = e.path /\ e.path # NoModel
        BY <2>1, <2>3 DEF Engines
      <3> HIDE DEF f
      <3> QED BY <3>1, <3>2 DEF Agrees
    <2>4. CASE ~(e.path = NoModel \/ (e.cpath = e.path /\ e.cached # NoModel)) /\ ~ok
      <3>1. EnsureInitialized(e, ok) = kept  BY <1>2, <2>4 DEF EnsureInitialized, InitializeModel, kept
      <3> QED BY <2>1, <3>1 DEF Agrees
    <2> QED BY <2>2, <2>3, <2>4
  <1> QED BY <1>1, <1>2

LEMMA SetModelsType ==
    ASSUME NEW e \in Engines, Agrees(e), NEW m \in PodModels, NEW ok \in BOOLEAN
    PROVE  LET f == SetModels(e, m, ok) IN
           f \in Engines /\ Agrees(f) /\ f.path = m
  <1> DEFINE emptied == IF e.init /\ e.path # m THEN [e EXCEPT !.cached = NoModel, !.init = FALSE] ELSE e
  <1> DEFINE g == [emptied EXCEPT !.path = m]
  <1>1. emptied \in Engines /\ (emptied.init => emptied = e /\ e.path = m)
    BY DEF Engines, Paths
  <1>2. SetModels(e, m, ok) = EnsureInitialized(g, ok)  BY DEF SetModels
  <1> HIDE DEF emptied
  <1>3. g \in Engines /\ g.path = m /\ g.path \in Paths /\ g.init = emptied.init /\ g.cached = emptied.cached
        /\ g.cpath = emptied.cpath
    BY <1>1 DEF Engines, Paths
  <1> HIDE DEF g
  <1>4. Agrees(g)  BY <1>1, <1>3 DEF Agrees
  <1> QED BY <1>2, <1>3, <1>4, InitializeType

LEMMA EngineStart == EngInit => EngineInv
  BY NoEngineType DEF EngInit, EngineInv, Status

LEMMA EngineStep == ASSUME EngineInv, [EngNext]_engVars PROVE EngineInv'
  <1> USE DEF EngineInv
  <1>1. CASE UNCHANGED engVars  BY <1>1 DEF engVars, Loaded
  <1>2. ASSUME NEW ok \in BOOLEAN, CreateEngine(ok) PROVE EngineInv'
    <2>1. local \in Paths /\ engine' = EnsureInitialized(NewEngine(local), ok)
      BY <1>2 DEF CreateEngine, Paths
    <2>2. NewEngine(local) \in Engines /\ Agrees(NewEngine(local)) /\ NewEngine(local).path = local
      BY <2>1 DEF NewEngine, Engines, Agrees, Paths
    <2>3. engine' \in Engines /\ Agrees(engine') /\ engine'.path = local
      BY <2>1, <2>2, InitializeType
    <2>4. engine' # NoEngine
      <3>1. local # "no_engine"  BY EngineAssumption DEF NoEngine, NoModel
      <3> QED BY <2>3, <3>1 DEF NoEngine
    <2>5. ok /\ local # NoModel => engine'.init
      BY <2>1 DEF EnsureInitialized, InitializeModel, NewEngine
    <2>6. modelStatus'.loaded => Loaded'
      <3>1. modelStatus'.loaded => ok /\ local # NoModel /\ modelStatus'.model = local
        BY <1>2 DEF CreateEngine, Status
      <3> QED BY <2>3, <2>5, <3>1 DEF Loaded, Agrees
    <2> QED BY <1>2, <2>3, <2>4, <2>6 DEF CreateEngine
  <1>3. CASE ReuseEngine
    BY <1>3 DEF ReuseEngine
  <1>4. CASE StartHttpServer \/ HttpServerFails \/ ModelsDone
    BY <1>4, NoEngineType DEF StartHttpServer, HttpServerFails, ModelsDone, Loaded
  <1>5. CASE ConnectWorker \/ LoseSession \/ ChatTask
    BY <1>5, NoEngineType DEF ConnectWorker, LoseSession, ChatTask, Lost, Loaded
  <1>6. ASSUME NEW pods \in Pods, LoginModels(pods) \/ PullModels(pods) PROVE EngineInv'
    BY <1>6, NoEngineType DEF LoginModels, PullModels, Lost, Loaded
  <1>7. ASSUME NEW m \in PodModels, SkipModel(m) \/ BeginSetModels(m) \/ DownloadGivenUp(m) PROVE EngineInv'
    BY <1>7 DEF SkipModel, BeginSetModels, DownloadGivenUp, Status, Loaded
  <1>8. ASSUME NEW m \in PodModels, NEW ok \in BOOLEAN, EndSetModels(m, ok) PROVE EngineInv'
    <2>1. engine' \in Engines /\ Agrees(engine') /\ engine'.path = m
      BY <1>8, SetModelsType DEF EndSetModels
    <2>2. modelStatus'.loaded => engine'.init /\ modelStatus'.model = m
      BY <1>8 DEF EndSetModels, Status
    <2>3. modelStatus'.loaded => Loaded'  BY <2>1, <2>2 DEF Loaded, Agrees
    <2>4. cache # NoEngine /\ UNCHANGED <<cache, httpEngine, local>>
      BY <1>8 DEF EndSetModels, LoadingInto, Dealing
    <2> QED BY <2>1, <2>3, <2>4
  <1> QED BY <1>1, <1>2, <1>3, <1>4, <1>5, <1>6, <1>7, <1>8 DEF EngNext

\* What the desktop worker reports as loaded its engine holds, and in every copy of the
\* engine flag, path and model slot agree, after any sequence of loads and sessions.
THEOREM ReportIsTrue == EngSpec => []ReportedIsInEngine
  <1>1. EngineInv /\ [EngNext]_engVars => EngineInv'  BY EngineStep
  <1>2. EngineInv => ReportedIsInEngine  BY DEF EngineInv, ReportedIsInEngine, Agrees, Loaded
  <1> QED BY EngineStart, <1>1, <1>2, PTL DEF EngSpec


(***************************************************************************)
(* The model downloader.                                                    *)
(***************************************************************************)

LEMMA MulMono ==
    ASSUME NEW a \in Nat, NEW c \in Nat, NEW k \in Nat, a <= c
    PROVE  k * a <= k * c
  OBVIOUS

LEMMA DivBounds ==
    ASSUME NEW a \in Nat, NEW k \in Nat, k # 0
    PROVE  a \div k \in Nat /\ k * (a \div k) <= a /\ a < k * ((a \div k) + 1)
  OBVIOUS

\* The number of the last chunk, and where a chunk starts; the file ends where the chunk
\* after the last would start.
LastChunk == IF FileBlocks <= ChunkBlocks \/ ParallelChunks = 1 THEN 0
         ELSE MinOf(FileBlocks \div ChunkBlocks, ParallelChunks) - 1
StartOf(c) == IF c \in 0..LastChunk THEN Chunks[c][1] ELSE FileBlocks

\* calculate_chunks: the chunks follow each other without gap or overlap, start with the
\* file and end with it, and there is a part for each.
LEMMA ChunksTile ==
    /\ LastChunk \in Nat /\ LastChunk < ParallelChunks /\ DOMAIN Chunks = 0..LastChunk
    /\ StartOf(0) = 0 /\ StartOf(LastChunk + 1) = FileBlocks
    /\ \A i \in 0..LastChunk : /\ Chunks[i][1] = StartOf(i) /\ StartOf(i) \in Nat
                           /\ ChunkLen(i) \in Nat /\ StartOf(i) + ChunkLen(i) = StartOf(i + 1)
  <1>0. /\ FileBlocks \in Nat /\ FileBlocks >= 1 /\ ChunkBlocks \in Nat /\ ChunkBlocks >= 1
        /\ ParallelChunks \in Nat /\ ParallelChunks >= 1
    BY DownloadAssumption
  <1>1. CASE FileBlocks <= ChunkBlocks \/ ParallelChunks = 1
    <2>1. LastChunk = 0 /\ 0..LastChunk = {0}  BY <1>1 DEF LastChunk
    <2>2. Chunks = [i \in {0} |-> <<0, 0 + FileBlocks - 1>>]  BY <1>1 DEF Chunks, CalculateChunks
    <2>3. DOMAIN Chunks = {0} /\ Chunks[0][1] = 0 /\ Chunks[0][2] = FileBlocks - 1  BY <1>0, <2>2
    <2>4. ChunkLen(0) = FileBlocks /\ StartOf(0) = 0 /\ StartOf(1) = FileBlocks
      BY <1>0, <2>1, <2>3 DEF ChunkLen, StartOf
    <2> QED BY <1>0, <2>1, <2>3, <2>4
  <1>2. CASE ~(FileBlocks <= ChunkBlocks \/ ParallelChunks = 1)
    <2> DEFINE count == MinOf(FileBlocks \div ChunkBlocks, ParallelChunks)
    <2> DEFINE each == FileBlocks \div count
    <2>1. FileBlocks \div ChunkBlocks \in Nat /\ FileBlocks \div ChunkBlocks >= 1
      <3> DEFINE q == FileBlocks \div ChunkBlocks
      <3>1. q \in Nat /\ FileBlocks < ChunkBlocks * (q + 1)  BY <1>0, DivBounds
      <3> HIDE DEF q
      <3>2. q # 0  BY <1>0, <1>2, <3>1
      <3> QED BY <3>1, <3>2 DEF q
    <2>2. count \in Nat /\ count >= 1 /\ count <= ParallelChunks  BY <1>0, <2>1 DEF MinOf
    <2>3. LastChunk = count - 1  BY <1>2 DEF LastChunk
    <2>4. Chunks = [i \in 0..(count - 1) |->
                       <<0 + i * each, IF i = count - 1 THEN 0 + FileBlocks - 1
                                                        ELSE 0 + (i + 1) * each - 1>>]
      BY <1>2 DEF Chunks, CalculateChunks
    <2> HIDE DEF count
    <2>5. each \in Nat /\ count * each <= FileBlocks  BY <1>0, <2>2, DivBounds
    <2> HIDE DEF each
    <2>6. DOMAIN Chunks = 0..LastChunk /\ LastChunk \in Nat /\ LastChunk < ParallelChunks
      BY <1>0, <2>2, <2>3, <2>4
    <2>7. ASSUME NEW i \in 0..LastChunk
          PROVE  /\ Chunks[i][1] = i * each /\ i * each \in Nat
                 /\ i = LastChunk => Chunks[i][2] = FileBlocks - 1
                 /\ i # LastChunk => Chunks[i][2] = (i + 1) * each - 1
      <3>1. i \in Nat /\ i \in 0..(count - 1)  BY <2>2, <2>3
      <3>2. i * each \in Nat /\ (i + 1) * each \in Nat  BY <2>5, <3>1
      <3>3. Chunks[i] = <<0 + i * each, IF i = count - 1 THEN 0 + FileBlocks - 1
                                                        ELSE 0 + (i + 1) * each - 1>>
        BY <2>4, <3>1
      <3> QED BY <1>0, <2>2, <2>3, <3>2, <3>3
    <2>8. StartOf(0) = 0 /\ StartOf(LastChunk + 1) = FileBlocks
      <3>1. Chunks[0][1] = 0 * each  BY <2>6, <2>7
      <3> QED BY <2>5, <2>6, <3>1 DEF StartOf
    <2>9. ASSUME NEW i \in 0..LastChunk
          PROVE  /\ Chunks[i][1] = StartOf(i) /\ StartOf(i) \in Nat
                 /\ ChunkLen(i) \in Nat /\ StartOf(i) + ChunkLen(i) = StartOf(i + 1)
      <3>1. Chunks[i][1] = StartOf(i) /\ StartOf(i) = i * each /\ i * each \in Nat  BY <2>7 DEF StartOf
      <3>2. CASE i = LastChunk
        <4>1. ChunkLen(i) = FileBlocks - i * each  BY <1>0, <2>7, <3>1, <3>2 DEF ChunkLen
        <4>2. each * i <= each * count  BY <2>2, <2>3, <2>5, <3>2, MulMono
        <4>3. i \in Nat /\ each * i = i * each /\ each * count = count * each  BY <2>2, <2>5, <2>6, <3>2
        <4>4. i * each <= FileBlocks  BY <1>0, <2>2, <2>5, <3>1, <4>2, <4>3
        <4> HIDE DEF StartOf
        <4> QED BY <1>0, <2>8, <3>1, <3>2, <4>1, <4>4
      <3>3. CASE i # LastChunk
        <4>1. i \in Nat /\ i + 1 \in 0..LastChunk  BY <2>6, <3>3
        <4>2. StartOf(i + 1) = (i + 1) * each /\ (i + 1) * each \in Nat  BY <2>7, <4>1 DEF StartOf
        <4>3. (i + 1) * each = i * each + each  BY <2>5, <4>1
        <4>4. ChunkLen(i) = ((i + 1) * each - 1) - i * each + 1  BY <2>7, <3>3 DEF ChunkLen
        <4> QED BY <2>5, <3>1, <4>2, <4>3, <4>4
      <3> QED BY <3>1, <3>2, <3>3
    <2> QED BY <2>6, <2>8, <2>9
  <1> QED BY <1>1, <1>2

\* The first n blocks of the right file.
Upto(n) == [k \in 1..n |-> k]

LEMMA UptoExtends ==
    ASSUME NEW n \in Nat, NEW p \in Seq(Nat), \A k \in DOMAIN p : p[k] = n + k
    PROVE  Upto(n) \o p = Upto(n + Len(p))
  <1>1. Upto(n) \in Seq(Nat) /\ Len(Upto(n)) = n /\ \A k \in 1..n : Upto(n)[k] = k  BY DEF Upto
  <1>2. Len(p) \in Nat /\ DOMAIN p = 1..Len(p)  OBVIOUS
  <1>3. Upto(n + Len(p)) \in Seq(Nat) /\ Len(Upto(n + Len(p))) = n + Len(p)
        /\ \A k \in 1..(n + Len(p)) : Upto(n + Len(p))[k] = k
    BY <1>2 DEF Upto
  <1> DEFINE s == Upto(n)
  <1> DEFINE l == Upto(n + Len(p))
  <1> HIDE DEF s, l
  <1>4. s \o p \in Seq(Nat) /\ Len(s \o p) = n + Len(p)
        /\ \A k \in 1..(n + Len(p)) : (s \o p)[k] = IF k <= n THEN s[k] ELSE p[k - n]
    <2>1. s \in Seq(Nat) /\ Len(s) = n  BY <1>1 DEF s
    <2>2. /\ s \o p \in Seq(Nat) /\ Len(s \o p) = Len(s) + Len(p)
          /\ \A k \in 1..(Len(s) + Len(p)) : (s \o p)[k] = IF k <= Len(s) THEN s[k] ELSE p[k - Len(s)]
      BY <2>1, ConcatProperties
    <2> QED BY <2>1, <2>2
  <1>5. \A k \in 1..(n + Len(p)) : (s \o p)[k] = l[k]
    <2> SUFFICES ASSUME NEW k \in 1..(n + Len(p)) PROVE (s \o p)[k] = l[k]  OBVIOUS
    <2>1. l[k] = k  BY <1>3 DEF l
    <2>2. CASE k <= n  BY <1>1, <1>4, <2>1, <2>2 DEF s
    <2>3. CASE ~(k <= n)
      <3>1. k - n \in DOMAIN p  BY <1>2, <2>3
      <3> QED BY <1>4, <2>1, <2>3, <3>1
    <2> QED BY <2>2, <2>3
  <1>6. s \o p = l
    <2>1. l \in Seq(Nat) /\ Len(l) = n + Len(p)  BY <1>3 DEF l
    <2> QED BY <1>2, <1>4, <1>5, <2>1, SeqEqual
  <1> QED BY <1>6 DEF s, l


DownloadTypeOK ==
    /\ serves \in {"ranges", "length", "stream"}
    /\ outFile \in Seq(Nat) /\ tmpFile \in Seq(Nat) /\ parts \in [Indices -> Seq(Nat)]
    /\ dlPc \in {"idle", "size", "chunks", "fetch", "assemble", "verify", "installed", "simple", "stream",
                 "ok", "err", "failed"}
    /\ chunkPc \in [Indices -> {"idle", "ask", "body", "done"}]
    /\ \A i \in Indices \ DOMAIN Chunks : chunkPc[i] \in {"idle", "done"}
    /\ copied \in Nat /\ resumeAt \in Nat /\ clean \in BOOLEAN

SoundParts == serves = "ranges" /\ \A i \in DOMAIN Chunks : SoundPart(i, parts[i])

\* A clean attempt never takes the simple path nor fails; its parts are sound, those whose
\* task is done are complete, and what is assembled of them is the start of the right file.
CleanAttempt ==
    clean =>
       /\ dlPc \notin {"idle", "simple", "stream", "err", "failed"}
       /\ dlPc = "size" => SoundFiles
       /\ dlPc \in {"chunks", "fetch", "assemble"} => SoundParts
       /\ dlPc \in {"fetch", "assemble"} =>
             \A i \in DOMAIN Chunks : chunkPc[i] = "done" => Len(parts[i]) = ChunkLen(i)
       /\ dlPc = "assemble" => /\ \A i \in DOMAIN Chunks : chunkPc[i] = "done"
                               /\ copied \in 0..(LastChunk + 1) /\ tmpFile = Upto(StartOf(copied))
       /\ dlPc = "verify" => tmpFile = Right

\* What was just installed is the right file.
InstalledRight == dlPc = "installed" => outFile = Right

DownloadInv == DownloadTypeOK /\ CleanAttempt /\ InstalledRight

LEMMA FilesType == Right \in Seq(Nat) /\ <<>> \in Seq(Nat) /\ NoParts \in [Indices -> Seq(Nat)]
  BY DownloadAssumption DEF Right, NoParts

LEMMA DownloadInit == DlInit => DownloadInv
  <1> SUFFICES ASSUME DlInit PROVE DownloadInv  OBVIOUS
  <1>1. outFile \in Seq(Nat)
    <2>1. FileBlocks \in Nat /\ FileBlocks + 1 \in Nat  BY DownloadAssumption
    <2>2. Right \in Seq(Nat) /\ [i \in 1..FileBlocks |-> 0] \in Seq(Nat) /\ <<>> \in Seq(Nat)
          /\ [i \in 1..(FileBlocks + 1) |-> 0] \in Seq(Nat) /\ <<1>> \in Seq(Nat)
      BY <2>1 DEF Right
    <2> QED BY <2>2 DEF DlInit
  <1>2. DownloadTypeOK  BY <1>1, FilesType DEF DlInit, DownloadTypeOK
  <1>3. CleanAttempt /\ InstalledRight  BY DEF DlInit, CleanAttempt, InstalledRight
  <1> QED BY <1>2, <1>3 DEF DownloadInv

\* A fault makes the attempt unclean: nothing more is promised of it.
LEMMA UncleanStep ==
    ASSUME DownloadTypeOK', clean' = FALSE, InstalledRight' PROVE DownloadInv'
  BY DEF DownloadInv, CleanAttempt

LEMMA BlockType ==
    ASSUME NEW f \in Seq(Nat), NEW b \in Nat PROVE AddBlock(f, b) \in Seq(Nat)
  BY DEF AddBlock

LEMMA DownloadTypeStep == ASSUME DownloadTypeOK, [DlNext]_dlVars PROVE DownloadTypeOK'
  <1> USE DEF DownloadTypeOK
  <1>1. CASE UNCHANGED dlVars  BY <1>1 DEF dlVars
  <1>2. CASE StartDownload \/ RetryDownload
    <2>1. SoundFiles \in BOOLEAN  BY DEF SoundFiles
    <2> QED BY <1>2, <2>1 DEF StartDownload, RetryDownload, dlFiles
  <1>3. CASE SizeRequestFails \/ PlanDownload
    BY <1>3, FilesType DEF SizeRequestFails, PlanDownload, dlFiles, Fault, NoFault, AttemptFails, DiscardAll
  <1>4. CASE StartChunks
    <2>1. parts' \in [Indices -> Seq(Nat)]  BY <1>4 DEF StartChunks
    <2>2. chunkPc' \in [Indices -> {"idle", "ask", "body", "done"}]  BY <1>4 DEF StartChunks
    <2> QED BY <1>4, <2>1, <2>2 DEF StartChunks
  <1>5. CASE AssembleParts \/ AssembleFails \/ Assembled
    <2>1. CASE AssembleParts  BY <2>1, FilesType DEF AssembleParts
    <2>2. CASE AssembleFails  BY <2>2 DEF AssembleFails, dlFiles, Fault, AttemptFails
    <2>3. CASE Assembled  BY <2>3 DEF Assembled, dlFiles
    <2> QED BY <1>5, <2>1, <2>2, <2>3
  <1>6. CASE CopyPart
    <2>1. copied \in Indices
      <3>1. copied \in 0..LastChunk  BY <1>6, ChunksTile DEF CopyPart
      <3> QED BY <3>1, ChunksTile, DownloadAssumption DEF Indices
    <2>2. tmpFile \o parts[copied] \in Seq(Nat)  BY <2>1, ConcatProperties
    <2> QED BY <1>6, <2>2 DEF CopyPart
  <1>7. CASE Install \/ FinishDownload
    BY <1>7, FilesType DEF Install, FinishDownload, AttemptFails
  <1>8. CASE AskSimple
    <2>1. Len(outFile) \in Nat  OBVIOUS
    <2>2. tmpFile' \in Seq(Nat)  BY <1>8, FilesType DEF AskSimple
    <2>3. resumeAt' \in Nat  BY <1>8, <2>1 DEF AskSimple
    <2>4. dlPc' \in {"ok", "err", "stream"} /\ (chunkPc' = chunkPc \/ chunkPc' = [i \in Indices |-> "idle"])
      BY <1>8 DEF AskSimple, AttemptFails
    <2> QED BY <1>8, <2>2, <2>3, <2>4 DEF AskSimple
  <1>9. CASE SimpleData
    <2>0. resumeAt + 1 \in Nat /\ 0 \in Nat /\ tmpFile \in Seq(Nat)  OBVIOUS
    <2>1. AddBlock(tmpFile, resumeAt + 1) \in Seq(Nat) /\ AddBlock(tmpFile, 0) \in Seq(Nat)
      BY <2>0, BlockType
    <2>2. tmpFile' \in Seq(Nat) /\ clean' \in BOOLEAN  BY <1>9, <2>1 DEF SimpleData, Fault, NoFault
    <2> QED BY <1>9, <2>0, <2>2 DEF SimpleData
  <1>10. CASE SimpleEnds \/ SimpleFails \/ DlCrash
    BY <1>10, FilesType DEF SimpleEnds, SimpleFails, DlCrash, dlFiles, Fault, NoFault, AttemptFails
  <1>11. ASSUME NEW i \in Indices, AskChunk(i) \/ ChunkEnds(i) \/ ChunkFails(i) PROVE DownloadTypeOK'
    BY <1>11 DEF AskChunk, ChunkEnds, ChunkFails, dlFiles, Fault, NoFault, AttemptFails
  <1>12. ASSUME NEW i \in Indices, ChunkData(i) PROVE DownloadTypeOK'
    <2>1. Len(parts[i]) \in Nat /\ Append(parts[i], 0) \in Seq(Nat)  OBVIOUS
    <2>2. CASE Fault /\ parts' = [parts EXCEPT ![i] = Append(@, 0)]
      BY <1>12, <2>1, <2>2 DEF ChunkData, Fault
    <2>3. CASE NoFault /\ parts' = [parts EXCEPT ![i] = Append(@, Chunks[i][1] + Len(@) + 1)]
      <3>1. i \in DOMAIN Chunks  BY <1>12 DEF ChunkData
      <3>2. Chunks[i][1] \in Nat  BY <3>1, ChunksTile
      <3>3. Append(parts[i], Chunks[i][1] + Len(parts[i]) + 1) \in Seq(Nat)  BY <2>1, <3>2
      <3> QED BY <1>12, <2>3, <3>3 DEF ChunkData, NoFault
    <2> QED BY <1>12, <2>2, <2>3 DEF ChunkData
  <1> QED BY <1>1, <1>2, <1>3, <1>4, <1>5, <1>6, <1>7, <1>8, <1>9, <1>10, <1>11, <1>12 DEF DlNext


LEMMA InstalledStep ==
    ASSUME DownloadTypeOK, InstalledRight, [DlNext]_dlVars PROVE InstalledRight'
  <1> USE DEF InstalledRight
  <1>1. CASE UNCHANGED dlVars  BY <1>1 DEF dlVars
  <1>2. CASE Install  BY <1>2 DEF Install, AttemptFails
  <1>3. ASSUME NEW i \in Indices, AskChunk(i) \/ ChunkData(i) \/ ChunkEnds(i) \/ ChunkFails(i)
        PROVE  InstalledRight'
    BY <1>3 DEF AskChunk, ChunkData, ChunkEnds, ChunkFails, AttemptFails
  <1>4. CASE SimpleEnds  BY <1>4 DEF SimpleEnds, AttemptFails
  <1>5. CASE \/ StartDownload \/ RetryDownload \/ SizeRequestFails \/ PlanDownload
             \/ StartChunks \/ AssembleParts \/ CopyPart \/ AssembleFails \/ Assembled
             \/ FinishDownload \/ AskSimple \/ SimpleData \/ SimpleFails \/ DlCrash
    BY <1>5 DEF StartDownload, RetryDownload, SizeRequestFails, PlanDownload, StartChunks, AssembleParts,
       CopyPart, AssembleFails, Assembled, FinishDownload, AskSimple, SimpleData, SimpleFails, DlCrash,
       AttemptFails
  <1> QED BY <1>1, <1>2, <1>3, <1>4, <1>5 DEF DlNext

LEMMA EmptyPartsSound ==
    ASSUME NEW i \in DOMAIN Chunks PROVE SoundPart(i, <<>>)
  <1>1. ChunkLen(i) \in Nat  BY ChunksTile
  <1> QED BY <1>1 DEF SoundPart

\* The plan of a clean attempt: the file is there, or sound parts are fetched.
LEMMA CleanPlan ==
    ASSUME DownloadTypeOK, CleanAttempt, clean, PlanDownload PROVE CleanAttempt'
  <1>1. SoundFiles /\ serves' = serves /\ clean' = clean  BY DEF CleanAttempt, PlanDownload, NoFault
  <1>2. serves = "ranges" /\ ~(Len(outFile) \in 1..(FileBlocks - 1))
        /\ \A i \in DOMAIN Chunks : SoundPart(i, parts[i])
    BY <1>1 DEF SoundFiles
  <1>3. dlPc' \in {"ok", "chunks"} /\ (parts' = parts \/ parts' = NoParts)
    BY <1>2 DEF PlanDownload, DiscardAll
  <1>4. \A i \in DOMAIN Chunks : i \in Indices
    BY ChunksTile, DownloadAssumption DEF Indices
  <1>5. \A i \in DOMAIN Chunks : NoParts[i] = <<>>  BY <1>4 DEF NoParts
  <1>6. \A i \in DOMAIN Chunks : SoundPart(i, parts'[i])
    BY <1>2, <1>3, <1>5, EmptyPartsSound
  <1> QED BY <1>1, <1>2, <1>3, <1>6 DEF CleanAttempt, SoundParts

LEMMA DomainIndices == DOMAIN Chunks \subseteq Indices /\ DOMAIN Chunks = 0..LastChunk
  BY ChunksTile, DownloadAssumption DEF Indices

LEMMA PartLength ==
    ASSUME DownloadTypeOK, NEW i \in DOMAIN Chunks
    PROVE  /\ parts[i] \in Seq(Nat) /\ Len(parts[i]) \in Nat /\ DOMAIN parts[i] = 1..Len(parts[i])
           /\ ChunkLen(i) \in Nat /\ i \in Indices
  BY DomainIndices, ChunksTile DEF DownloadTypeOK

LEMMA CleanStartChunks ==
    ASSUME DownloadTypeOK, CleanAttempt, clean, StartChunks PROVE CleanAttempt'
  <1>1. SoundParts /\ clean' = clean /\ serves' = serves /\ dlPc' = "fetch"
    BY DEF CleanAttempt, StartChunks
  <1>2. \A i \in DOMAIN Chunks : i \in Indices /\ Len(parts[i]) <= ChunkLen(i)
    BY <1>1, DomainIndices DEF SoundParts, SoundPart
  <1>3. \A i \in DOMAIN Chunks : parts'[i] = parts[i] /\ chunkPc'[i] = "ask"
    <2> SUFFICES ASSUME NEW i \in DOMAIN Chunks PROVE parts'[i] = parts[i] /\ chunkPc'[i] = "ask"
      OBVIOUS
    <2>1. i \in Indices /\ Len(parts[i]) \in Nat /\ ChunkLen(i) \in Nat /\ ~(Len(parts[i]) > ChunkLen(i))
      BY <1>2, PartLength
    <2> QED BY <2>1 DEF StartChunks
  <1> QED BY <1>1, <1>3 DEF CleanAttempt, SoundParts

\* The tasks of the chunks: only a clean step of one that is asked for data grows its part.
LEMMA CleanFetch ==
    ASSUME DownloadTypeOK, CleanAttempt, clean, clean', NEW i \in Indices,
           AskChunk(i) \/ ChunkData(i) \/ ChunkEnds(i) \/ ChunkFails(i)
    PROVE  CleanAttempt'
  <1>0. dlPc = "fetch" /\ SoundParts /\ serves' = serves
    BY DEF CleanAttempt, AskChunk, ChunkData, ChunkEnds, ChunkFails
  <1>1. \A j \in DOMAIN Chunks : chunkPc[j] = "done" => Len(parts[j]) = ChunkLen(j)
    BY <1>0 DEF CleanAttempt
  <1>2. CASE AskChunk(i)
    <2>1. i \in DOMAIN Chunks  BY <1>2 DEF AskChunk, DownloadTypeOK
    <2>2. Len(parts[i]) <= ChunkLen(i) /\ Len(parts[i]) \in Nat /\ ChunkLen(i) \in Nat /\ serves = "ranges"
      BY <1>0, <2>1, PartLength DEF SoundParts, SoundPart
    <2>3. dlPc' = "fetch" /\ parts' = parts
          /\ chunkPc' = [chunkPc EXCEPT ![i] = IF Len(parts[i]) < ChunkLen(i) THEN "body" ELSE "done"]
      BY <1>0, <1>2, <2>2 DEF AskChunk, dlFiles
    <2>4. \A j \in DOMAIN Chunks : chunkPc'[j] = "done" => Len(parts[j]) = ChunkLen(j)
      <3> SUFFICES ASSUME NEW j \in DOMAIN Chunks, chunkPc'[j] = "done" PROVE Len(parts[j]) = ChunkLen(j)
        OBVIOUS
      <3>1. CASE j = i  BY <2>2, <2>3, <3>1 DEF DownloadTypeOK
      <3>2. CASE j # i  BY <1>1, <2>3, <3>2 DEF DownloadTypeOK
      <3> QED BY <3>1, <3>2
    <2> QED BY <1>0, <2>3, <2>4 DEF CleanAttempt, SoundParts
  <1>3. CASE ChunkData(i)
    <2>1. i \in DOMAIN Chunks /\ chunkPc[i] = "body" /\ Len(parts[i]) < ChunkLen(i)
      BY <1>3 DEF ChunkData, DownloadTypeOK
    <2>2. dlPc' = "fetch" /\ chunkPc' = chunkPc
          /\ parts' = [parts EXCEPT ![i] = Append(@, Chunks[i][1] + Len(@) + 1)]
      BY <1>0, <1>3 DEF ChunkData, Fault
    <2>3. SoundPart(i, parts'[i])
      <3> DEFINE p == parts[i]
      <3> DEFINE q == Append(p, Chunks[i][1] + Len(p) + 1)
      <3>1. parts'[i] = q  BY <2>2 DEF DownloadTypeOK
      <3>2. p \in Seq(Nat) /\ Len(p) \in Nat /\ ChunkLen(i) \in Nat /\ DOMAIN p = 1..Len(p)
        BY <2>1, PartLength
      <3>3. \A k \in DOMAIN p : p[k] = Chunks[i][1] + k  BY <1>0, <2>1 DEF SoundParts, SoundPart
      <3>4. Chunks[i][1] \in Nat /\ Len(p) < ChunkLen(i)  BY <2>1, ChunksTile
      <3> HIDE DEF p
      <3>5. Len(q) = Len(p) + 1 /\ DOMAIN q = 1..(Len(p) + 1) /\ q[Len(p) + 1] = Chunks[i][1] + Len(p) + 1
            /\ \A k \in 1..Len(p) : q[k] = p[k]
        BY <3>2, <3>4
      <3> HIDE DEF q
      <3>6. Len(q) <= ChunkLen(i)  BY <3>2, <3>4, <3>5
      <3>7. ASSUME NEW k \in DOMAIN q PROVE q[k] = Chunks[i][1] + k
        <4>1. k \in 1..(Len(p) + 1)  BY <3>5, <3>7
        <4>2. CASE k = Len(p) + 1  BY <3>2, <3>4, <3>5, <4>2
        <4>3. CASE k \in 1..Len(p)  BY <3>2, <3>3, <3>5, <4>3
        <4> QED BY <3>2, <4>1, <4>2, <4>3
      <3> QED BY <2>1, <3>1, <3>6, <3>7 DEF SoundPart
    <2>4. \A j \in DOMAIN Chunks : j # i => parts'[j] = parts[j]  BY <2>2, DomainIndices DEF DownloadTypeOK
    <2>5. \A j \in DOMAIN Chunks : SoundPart(j, parts'[j])  BY <1>0, <2>3, <2>4 DEF SoundParts
    <2>6. \A j \in DOMAIN Chunks : chunkPc'[j] = "done" => Len(parts'[j]) = ChunkLen(j)
      BY <1>1, <2>1, <2>2, <2>4
    <2> QED BY <1>0, <2>2, <2>5, <2>6 DEF CleanAttempt, SoundParts
  <1>4. CASE ChunkEnds(i)
    <2>1. i \in DOMAIN Chunks  BY <1>4 DEF ChunkEnds, DownloadTypeOK
    <2>2. ~(Len(parts[i]) < ChunkLen(i)) /\ Len(parts[i]) <= ChunkLen(i)
      BY <1>0, <1>4, <2>1 DEF ChunkEnds, Fault, SoundParts, SoundPart
    <2>3. Len(parts[i]) = ChunkLen(i)  BY <2>1, <2>2, PartLength
    <2>4. dlPc' = "fetch" /\ parts' = parts /\ chunkPc' = [chunkPc EXCEPT ![i] = "done"]
      BY <1>0, <1>4 DEF ChunkEnds, dlFiles
    <2>5. \A j \in DOMAIN Chunks : chunkPc'[j] = "done" => Len(parts[j]) = ChunkLen(j)
      BY <1>1, <2>3, <2>4 DEF DownloadTypeOK
    <2> QED BY <1>0, <2>4, <2>5 DEF CleanAttempt, SoundParts
  <1>5. CASE ChunkFails(i)  BY <1>5 DEF ChunkFails, Fault
  <1> QED BY <1>2, <1>3, <1>4, <1>5

\* assemble_parts of a clean attempt: each part continues the file where the one before ended.
LEMMA CleanAssembly ==
    ASSUME DownloadTypeOK, CleanAttempt, clean, AssembleParts \/ CopyPart \/ Assembled PROVE CleanAttempt'
  <1>0. LastChunk \in Nat /\ DOMAIN Chunks = 0..LastChunk /\ StartOf(0) = 0 /\ StartOf(LastChunk + 1) = FileBlocks
    BY ChunksTile
  <1>1. CASE AssembleParts
    <2>1. \A i \in DOMAIN Chunks : chunkPc[i] = "done"  BY <1>1, DomainIndices DEF AssembleParts
    <2>2. Upto(0) = <<>>  BY DEF Upto
    <2>3. tmpFile' = Upto(StartOf(copied'))  BY <1>0, <1>1, <2>2 DEF AssembleParts
    <2> QED BY <1>0, <1>1, <2>1, <2>3 DEF AssembleParts, CleanAttempt, SoundParts
  <1>2. CASE CopyPart
    <2>1. copied \in 0..LastChunk /\ dlPc = "assemble" /\ tmpFile' = tmpFile \o parts[copied] /\ copied' = copied + 1
      BY <1>0, <1>2 DEF CopyPart
    <2>2. tmpFile = Upto(StartOf(copied)) /\ SoundPart(copied, parts[copied])
          /\ Len(parts[copied]) = ChunkLen(copied)
      BY <1>0, <2>1 DEF CleanAttempt, SoundParts
    <2>3. /\ StartOf(copied) \in Nat /\ Chunks[copied][1] = StartOf(copied)
          /\ StartOf(copied) + ChunkLen(copied) = StartOf(copied + 1)
      BY <2>1, ChunksTile
    <2>4. parts[copied] \in Seq(Nat)  BY <1>0, <2>1, PartLength
    <2>5. \A k \in DOMAIN parts[copied] : parts[copied][k] = StartOf(copied) + k
      BY <2>2, <2>3 DEF SoundPart
    <2>6. Upto(StartOf(copied)) \o parts[copied] = Upto(StartOf(copied) + Len(parts[copied]))
      BY <2>3, <2>4, <2>5, UptoExtends
    <2>7. tmpFile' = Upto(StartOf(copied'))  BY <2>1, <2>2, <2>3, <2>6
    <2>8. copied' \in 0..(LastChunk + 1)  BY <1>0, <2>1
    <2> QED BY <1>2, <2>7, <2>8 DEF CopyPart, CleanAttempt, SoundParts
  <1>3. CASE Assembled
    <2>1. copied = LastChunk + 1  BY <1>0, <1>3 DEF Assembled, CleanAttempt
    <2>2. tmpFile = Upto(FileBlocks)  BY <1>0, <1>3, <2>1 DEF Assembled, CleanAttempt
    <2>3. tmpFile' = Right /\ dlPc' = "verify"  BY <1>3, <2>2 DEF Assembled, dlFiles, Upto, Right
    <2> QED BY <2>3 DEF CleanAttempt
  <1> QED BY <1>1, <1>2, <1>3

LEMMA CleanStep ==
    ASSUME DownloadInv, [DlNext]_dlVars PROVE CleanAttempt'
  <1>0. DownloadTypeOK /\ CleanAttempt /\ InstalledRight  BY DEF DownloadInv
  <1>1. CASE ~clean'  BY <1>1 DEF CleanAttempt
  <1>2. CASE clean'
    <2>1. CASE UNCHANGED dlVars
      BY <1>0, <2>1 DEF dlVars, CleanAttempt, SoundParts, SoundFiles
    <2>2. CASE StartDownload \/ RetryDownload
      BY <1>2, <2>2 DEF StartDownload, RetryDownload, dlFiles, CleanAttempt, SoundFiles
    <2>3. ~Fault  BY <1>2 DEF Fault
    <2>4. CASE clean
      <3>1. CASE PlanDownload  BY <1>0, <2>4, <3>1, CleanPlan
      <3>2. CASE StartChunks  BY <1>0, <2>4, <3>2, CleanStartChunks
      <3>3. CASE AssembleParts \/ CopyPart \/ Assembled  BY <1>0, <2>4, <3>3, CleanAssembly
      <3>4. ASSUME NEW i \in Indices, AskChunk(i) \/ ChunkData(i) \/ ChunkEnds(i) \/ ChunkFails(i)
            PROVE  CleanAttempt'
        BY <1>0, <1>2, <2>4, <3>4, CleanFetch
      <3>5. CASE Install
        <4>1. tmpFile = Right  BY <1>0, <2>4, <3>5 DEF Install, CleanAttempt
        <4>2. dlPc' = "installed"  BY <3>5, <4>1 DEF Install
        <4> QED BY <4>2 DEF CleanAttempt
      <3>6. CASE FinishDownload
        <4>1. dlPc' = "ok"  BY <1>0, <3>6 DEF FinishDownload, InstalledRight
        <4> QED BY <4>1 DEF CleanAttempt
      <3>7. CASE SizeRequestFails \/ AssembleFails \/ SimpleFails \/ DlCrash
        BY <2>3, <3>7 DEF SizeRequestFails, AssembleFails, SimpleFails, DlCrash
      <3>8. CASE AskSimple \/ SimpleData \/ SimpleEnds
        BY <1>0, <2>4, <3>8 DEF AskSimple, SimpleData, SimpleEnds, CleanAttempt
      <3> QED BY <2>1, <2>2, <3>1, <3>2, <3>3, <3>4, <3>5, <3>6, <3>7, <3>8 DEF DlNext
    <2>5. CASE ~clean
      <3>1. UNCHANGED clean \/ Fault \/ StartDownload \/ RetryDownload
        BY DEF DlNext, SizeRequestFails, PlanDownload, StartChunks, AssembleParts, CopyPart, AssembleFails,
           Assembled, Install, FinishDownload, AskSimple, SimpleData, SimpleEnds, SimpleFails, DlCrash,
           AskChunk, ChunkData, ChunkEnds, ChunkFails, NoFault, dlVars
      <3> QED BY <1>2, <2>2, <2>3, <2>5, <3>1
    <2> QED BY <2>4, <2>5
  <1> QED BY <1>1, <1>2

\* Resuming is sound for every file, chunk size and number of parts: an attempt on a
\* server with ranges that finds sound files and meets no fault does not fail.
THEOREM ResumingWorks == DlSpec => []ResumeSucceeds
  <1>1. DownloadInv /\ [DlNext]_dlVars => DownloadInv'
    BY DownloadTypeStep, InstalledStep, CleanStep DEF DownloadInv
  <1>2. DownloadInv => ResumeSucceeds  BY DEF DownloadInv, CleanAttempt, ResumeSucceeds
  <1> QED BY DownloadInit, <1>1, <1>2, PTL DEF DlSpec

\* No path of download() puts at the output path anything but the verified file.
THEOREM InstallsOnlyVerified == DlSpec => OnlyVerifiedInstalled
  <1>1. ASSUME DlNext PROVE outFile' = outFile \/ outFile' \in {<<>>, Right}
    BY <1>1 DEF DlNext, StartDownload, RetryDownload, SizeRequestFails, PlanDownload, StartChunks,
       AssembleParts, CopyPart, AssembleFails, Assembled, Install, FinishDownload, AskSimple, SimpleData,
       SimpleEnds, SimpleFails, DlCrash, AskChunk, ChunkData, ChunkEnds, ChunkFails, DiscardAll, dlFiles
  <1>2. [DlNext]_dlVars => [outFile' = outFile \/ outFile' \in {<<>>, Right}]_dlVars  BY <1>1
  <1> QED BY <1>2, PTL DEF DlSpec, OnlyVerifiedInstalled
===============================================================================
