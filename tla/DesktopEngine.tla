---------------------------- MODULE DesktopEngine ----------------------------
(***************************************************************************)
(* The llama engine of the desktop worker across its connections: the copy  *)
(* GLOBAL_ENGINE keeps between connections, the copy the worker of a        *)
(* connection uses, the copy the local HTTP server was started with, the    *)
(* models the server assigns, and the MODEL_STATUS the device reports.      *)
(*                                                                          *)
(* LlamaEngine is Clone: a copy shares the loaded model but has a path, a   *)
(* flag and a model slot of its own.  A load by the llama.cpp library may   *)
(* succeed or fail, a download leaves the right file or none.               *)
(***************************************************************************)
EXTENDS Naturals, Sequences, FiniteSets

CONSTANTS
    PodModels,   \* models the server may assign
    LocalModel,  \* the model --llama-model-path names
    MaxSessions  \* bound: connections of the worker

NoModel == "none"
NoEngine == [path |-> "no_engine", init |-> FALSE, cached |-> NoModel, cpath |-> NoModel]

ASSUME EngineAssumption == /\ LocalModel \notin PodModels \cup {NoModel}
                           /\ NoModel \notin PodModels
                           /\ NoEngine.path # LocalModel
                           /\ MaxSessions \in Nat

VARIABLES
    local,      \* args.llama_model_path: LocalModel or NoModel
    session,    \* "down", "engine", "server", "login", "up" or "models"
    sessions,   \* connections so far
    cache,      \* GLOBAL_ENGINE
    engine,     \* the engine of this connection's worker
    httpEngine, \* the engine of the local HTTP server, NoEngine if it is down
    served,     \* HTTP_SERVER_STARTED
    reused,     \* this worker's engine came from the cache
    modelStatus,\* MODEL_STATUS: current_model, is_loaded, loading_status
    modelFile,  \* per model, what is at its path
    pending     \* pods_model still to be dealt with

engVars == <<local, session, sessions, cache, engine, httpEngine, served, reused,
             modelStatus, modelFile, pending>>

AllModels == PodModels \cup {LocalModel}

-------------------------------------------------------------------------------
(* LlamaEngine: each method as the engine it leaves behind.  `ok` is the     *)
(* answer of the library.                                                    *)

NewEngine(path) == [path |-> path, init |-> FALSE, cached |-> NoModel, cpath |-> NoModel]

ClearCache(e) == IF e.cached = NoModel THEN e
                 ELSE [e EXCEPT !.cached = NoModel, !.cpath = NoModel, !.init = FALSE]

InitializeModel(e, ok) ==
    LET kept == IF e.cpath \in {NoModel, e.path} THEN e ELSE ClearCache(e)
    IN  IF e.path = NoModel \/ (e.cpath = e.path /\ e.cached # NoModel) THEN e
        ELSE IF ok THEN [kept EXCEPT !.cached = e.path, !.cpath = e.path, !.init = TRUE]
        ELSE kept

EnsureInitialized(e, ok) == IF e.init THEN e ELSE InitializeModel(e, ok)

\* Variant: the flag stays set while the model slot is emptied.
KeepInitialized(e, m, ok) ==
    LET emptied == IF e.init /\ e.path # m THEN [e EXCEPT !.cached = NoModel] ELSE e
    IN  EnsureInitialized([emptied EXCEPT !.path = m], ok)

\* set_models: an initialised engine with another path is emptied first, and
\* stays empty if the new model does not load.
SetModels(e, m, ok) ==
    LET emptied == IF e.init /\ e.path # m
                   THEN [e EXCEPT !.cached = NoModel, !.init = FALSE] ELSE e
    IN  EnsureInitialized([emptied EXCEPT !.path = m], ok)

Status(m, loaded, state) == [model |-> m, loaded |-> loaded, state |-> state]

-------------------------------------------------------------------------------
EngInit ==
    /\ local \in {NoModel, LocalModel}
    /\ session = "down" /\ sessions = 0
    /\ cache = NoEngine /\ engine = NoEngine /\ httpEngine = NoEngine
    /\ served = FALSE /\ reused = FALSE
    /\ modelStatus = Status(NoModel, FALSE, "Not_initialized")
    /\ modelFile \in [AllModels -> {"absent", "partial", "complete"}]
    /\ pending = <<>>

\* ClientWorker::new, first start: create the engine, load the configured model
\* if there is one, and keep a copy even if that failed.
CreateEngine(ok) ==
    /\ session = "down" /\ sessions < MaxSessions /\ cache = NoEngine
    /\ ok => local # NoModel /\ modelFile[local] # "absent"
    /\ engine' = EnsureInitialized(NewEngine(local), ok)
    /\ cache' = engine' /\ reused' = FALSE
    /\ modelStatus' = IF local = NoModel THEN modelStatus
                      ELSE IF ok THEN Status(local, TRUE, "Loaded")
                      ELSE Status(local, FALSE, "Error")
    /\ session' = "engine" /\ sessions' = sessions + 1
    /\ UNCHANGED <<local, httpEngine, served, modelFile, pending>>

\* ClientWorker::new, reconnection: a copy of the cached engine as it was.
ReuseEngine ==
    /\ session = "down" /\ sessions < MaxSessions /\ cache # NoEngine
    /\ engine' = cache /\ reused' = TRUE
    /\ modelStatus' = IF local # NoModel /\ modelStatus.model = NoModel
                      THEN Status(local, TRUE, "Loaded") ELSE modelStatus
    /\ session' = "engine" /\ sessions' = sessions + 1
    /\ UNCHANGED <<local, cache, httpEngine, served, modelFile, pending>>

\* The HTTP server is started once, with a copy of the engine of that moment.
StartHttpServer ==
    /\ session = "engine" /\ session' = "server"
    /\ served' = TRUE
    /\ httpEngine' = IF served THEN httpEngine ELSE engine
    /\ UNCHANGED <<local, sessions, cache, engine, reused, modelStatus, modelFile, pending>>

\* start_server fails (an address in use, no API key): the flag is lowered.
HttpServerFails ==
    /\ httpEngine # NoEngine
    /\ httpEngine' = NoEngine /\ served' = FALSE
    /\ UNCHANGED <<local, session, sessions, cache, engine, reused, modelStatus,
                   modelFile, pending>>

Lost == session' = "down" /\ engine' = NoEngine /\ pending' = <<>>

\* connect_control_stream and login.
ConnectWorker ==
    /\ session = "server"
    /\ \/ session' = "login" /\ UNCHANGED <<engine, pending>>
       \/ Lost
    /\ UNCHANGED <<local, sessions, cache, httpEngine, served, reused, modelStatus, modelFile>>

\* The connection ends, a login is refused, or a command reports an error; the
\* worker with its engine is dropped.
LoseSession ==
    /\ session \in {"login", "up"} /\ Lost
    /\ UNCHANGED <<local, sessions, cache, httpEngine, served, reused, modelStatus, modelFile>>

\* LoginResult with the assigned models.  None, and none loaded: the device is
\* not compatible.  They are skipped if a local model is configured.
LoginModels(pods) ==
    /\ session = "login"
    /\ IF pods = <<>> /\ modelStatus.model = NoModel THEN Lost
       ELSE /\ pending' = IF local = NoModel THEN pods ELSE <<>>
            /\ session' = "models" /\ engine' = engine
    /\ UNCHANGED <<local, sessions, cache, httpEngine, served, reused, modelStatus, modelFile>>

PullModels(pods) ==
    /\ session = "up" /\ local = NoModel /\ pods # <<>>
    /\ pending' = pods /\ session' = "models"
    /\ UNCHANGED <<local, sessions, cache, engine, httpEngine, served, reused, modelStatus,
                   modelFile>>

ModelsDone ==
    /\ session = "models" /\ pending = <<>>
    /\ session' = "up"
    /\ UNCHANGED <<local, sessions, cache, engine, httpEngine, served, reused, modelStatus,
                   modelFile, pending>>

-------------------------------------------------------------------------------
(* deal_with_pod_model, for the first pending model.                         *)

Dealing(m) == session = "models" /\ pending # <<>> /\ Head(pending) = m
AlreadyLoaded(m) == modelStatus.model = m /\ modelStatus.loaded
LoadingInto(m) == Dealing(m) /\ modelStatus = Status(m, FALSE, "Loading_into_engine")

\* No name, no URL or no checksum; or the status says that it is loaded.
SkipModel(m) ==
    /\ Dealing(m) /\ ~LoadingInto(m)
    /\ pending' = Tail(pending)
    /\ UNCHANGED <<local, session, sessions, cache, engine, httpEngine, served, reused,
                   modelStatus, modelFile>>

\* A complete file is loaded as it is; otherwise the download must succeed.
BeginSetModels(m) ==
    /\ Dealing(m) /\ ~LoadingInto(m) /\ ~AlreadyLoaded(m)
    /\ modelFile' = [modelFile EXCEPT ![m] = "complete"]
    /\ modelStatus' = Status(m, FALSE, "Loading_into_engine")
    /\ UNCHANGED <<local, session, sessions, cache, engine, httpEngine, served, reused, pending>>

\* The last attempt fails too, or a progress report cannot be written (the file
\* may be complete by then): the error is logged, the next model follows.
DownloadGivenUp(m) ==
    /\ Dealing(m) /\ ~LoadingInto(m) /\ ~AlreadyLoaded(m) /\ modelFile[m] # "complete"
    /\ pending' = Tail(pending)
    /\ \E left \in {"absent", "partial", "complete"} :
          modelFile' = [modelFile EXCEPT ![m] = left]
    /\ UNCHANGED <<local, session, sessions, cache, engine, httpEngine, served, reused,
                   modelStatus>>

\* set_models on the worker's copy, and the status of its outcome.
EndSetModels(m, ok) ==
    /\ LoadingInto(m)
    /\ engine' = SetModels(engine, m, ok)
    /\ modelStatus' = IF engine'.init THEN Status(m, TRUE, "Loaded")
                      ELSE Status(m, FALSE, "Load_failed")
    /\ pending' = Tail(pending)
    /\ UNCHANGED <<local, session, sessions, cache, httpEngine, served, reused, modelFile>>

\* A ChatInferenceTask without a model makes the handler return Err.
ChatTask ==
    /\ session = "up"
    /\ IF engine.cached = NoModel THEN Lost ELSE UNCHANGED <<session, engine, pending>>
    /\ UNCHANGED <<local, sessions, cache, httpEngine, served, reused, modelStatus, modelFile>>

Pods == {<<>>} \cup {<<m>> : m \in PodModels} \cup (PodModels \X PodModels)

EngNext ==
    \/ ReuseEngine \/ StartHttpServer \/ HttpServerFails \/ ConnectWorker \/ LoseSession
    \/ ModelsDone \/ ChatTask
    \/ \E ok \in BOOLEAN : CreateEngine(ok)
    \/ \E pods \in Pods : LoginModels(pods) \/ PullModels(pods)
    \/ \E m \in PodModels : \/ SkipModel(m) \/ BeginSetModels(m) \/ DownloadGivenUp(m)
                            \/ \E ok \in BOOLEAN : EndSetModels(m, ok)

EngSpec == EngInit /\ [][EngNext]_engVars

-------------------------------------------------------------------------------
\* What ClientWorker::new and deal_with_pod_model report as loaded is in the
\* engine that serves the connection, through every change, failed load and
\* partial list of assigned models; and in the worker's, the cached and the
\* server's copy LlamaEngine's flag, path and model slot agree, so an engine that
\* accepts a prompt generates with the model it names.  A worker whose engine
\* came from the cache is excepted from the first part: set_models never reaches
\* the cached copy.
ReportedIsInEngine ==
    /\ engine # NoEngine /\ modelStatus.loaded /\ ~reused =>
          engine.init /\ engine.cached = modelStatus.model
    /\ \A e \in {engine, cache, httpEngine} \ {NoEngine} :
          e.init => e.cached # NoModel /\ e.cached = e.path /\ e.cpath = e.path
===============================================================================
