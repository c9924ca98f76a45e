---------------------------- MODULE ClientRegistry ----------------------------
(***************************************************************************)
(* How a device comes to be, and stays, reachable: the control connections *)
(* of gpuf-c (login, handler, heartbeat task), the session task the server *)
(* runs for each (handle/handle_connections.rs), the active_clients map    *)
(* they share, and the gpu_assets row (client_status, valid_status) that   *)
(* sessions, the heartbeat consumer and the sweeper write.                 *)
(*                                                                         *)
(* A session looks its device up by client id and not by connection, and a *)
(* device may have several connections at once: one in use, one the server *)
(* does not know to be dead, one whose handler gave up while its heartbeat *)
(* task keeps the socket open.                                             *)
(***************************************************************************)
EXTENDS Integers, FiniteSets

CONSTANTS
    Devices,     \* client ids
    Conns,       \* connection slots, reused once both ends are finished
    MaxFaults,   \* bound: faults (network cuts, database errors, failing handlers, wrong edits)
    None

ASSUME RegistryAssumption ==
    /\ MaxFaults \in Nat
    /\ None \notin Devices \cup Conns

VARIABLES
    active,   \* active_clients: Devices -> [conn, authed] or None
    srv,      \* Conns -> where the session task is
    sid,      \* Conns -> session_client_id (None: still all zero)
    authed,   \* Conns -> the session's authed flag
    reply,    \* Conns -> LoginResult the session is about to write, or None
    owner,    \* Conns -> device that opened the connection
    cli,      \* Conns -> what the device does with its end
    result,   \* Conns -> LoginResult that reached the device, or None
    valid,    \* Devices -> gpu_assets.valid_status = 'valid'
    cache,    \* Devices -> validity cached in Redis, or None
    online,   \* Devices -> gpu_assets.client_status = 'online'
    fresh,    \* Devices -> updated_at is within offline_after_secs
    topic,    \* devices with a heartbeat in Kafka
    faults,   \* how many faults have been injected
    errored   \* history: sessions that returned Err

connVars == <<owner, cli, result>>
sessVars == <<srv, sid, authed, reply, errored>>
dbVars   == <<valid, cache, online, fresh>>
vars == <<active, connVars, sessVars, dbVars, topic, faults>>

\* The server's end is open while the session runs or the map holds its writer.
WriterHeld(c) == \E d \in Devices : active[d] # None /\ active[d].conn = c
ServerEndOpen(c) == srv[c] \in {"open", "reply", "offline"} \/ WriterHeld(c)

Init ==
    /\ active = [d \in Devices |-> None]
    /\ srv = [c \in Conns |-> "ended"]
    /\ sid = [c \in Conns |-> None]
    /\ authed = [c \in Conns |-> FALSE]
    /\ reply = [c \in Conns |-> None]
    /\ owner \in [Conns -> Devices]
    /\ cli = [c \in Conns |-> "gone"]
    /\ result = [c \in Conns |-> None]
    /\ valid \in [Devices -> BOOLEAN]
    /\ cache = [d \in Devices |-> None]
    /\ online = [d \in Devices |-> FALSE]
    /\ fresh = [d \in Devices |-> FALSE]
    /\ topic = {}
    /\ faults = 0
    /\ errored = {}

-----------------------------------------------------------------------------
(* The device.                                                              *)

\* Something fails that the code reacts to.
Fault == faults < MaxFaults /\ faults' = faults + 1

\* main's loop: connect and send Login; one handler at a time.
Connect(d, c) ==
    /\ \A e \in Conns : owner[e] = d => cli[e] \in {"leaked", "gone"}
    /\ cli[c] = "gone" /\ ~ServerEndOpen(c)
    /\ owner' = [owner EXCEPT ![c] = d]
    /\ cli' = [cli EXCEPT ![c] = "login"]
    /\ result' = [result EXCEPT ![c] = None]
    /\ srv' = [srv EXCEPT ![c] = "open"]
    /\ sid' = [sid EXCEPT ![c] = None]
    /\ authed' = [authed EXCEPT ![c] = FALSE]
    /\ errored' = errored \ {c}
    /\ UNCHANGED <<active, reply, dbVars, topic, faults>>

\* The handler reads the LoginResult.  Success starts the model and heartbeat
\* tasks, unless no model fits; otherwise the handler returns and the worker,
\* the only owner of the socket, is dropped.
ReceiveLogin(c) ==
    /\ cli[c] = "login" /\ result[c] # None
    /\ \/ /\ result[c] = "ok"
          /\ cli' = [cli EXCEPT ![c] = "run"]
          /\ result' = [result EXCEPT ![c] = "started"]
          /\ UNCHANGED faults
       \/ /\ result[c] = "ok" /\ Fault
          /\ cli' = [cli EXCEPT ![c] = "gone"]
          /\ UNCHANGED result
       \/ /\ result[c] = "fail"
          /\ cli' = [cli EXCEPT ![c] = "gone"]
          /\ UNCHANGED <<result, faults>>
    /\ UNCHANGED <<active, owner, sessVars, dbVars, topic>>

\* The handler returns Err on a connection that still works ("Pull model
\* failed"); the spawned heartbeat task owns the writer and carries on.
HandlerFails(c) ==
    /\ cli[c] = "run"
    /\ Fault
    /\ cli' = [cli EXCEPT ![c] = "leaked"]
    /\ UNCHANGED <<active, owner, result, sessVars, dbVars, topic>>

\* The server closed its end: the handler and the heartbeat task both stop.
SeeClosed(c) ==
    /\ cli[c] # "gone" /\ ~ServerEndOpen(c)
    /\ cli' = [cli EXCEPT ![c] = "gone"]
    /\ UNCHANGED <<active, owner, result, sessVars, dbVars, topic, faults>>

\* The network cuts the connection, or the device goes down.
NetDies(c) ==
    /\ cli[c] # "gone"
    /\ Fault
    /\ cli' = [cli EXCEPT ![c] = "gone"]
    /\ UNCHANGED <<active, owner, result, sessVars, dbVars, topic>>

-----------------------------------------------------------------------------
(* The session task: handle_single_client.                                  *)

\* Variant: a login takes over an entry that is already there.
Registered_Never(d) == FALSE

\* active_clients.contains_key
Registered(d) == active[d] # None

\* validate_client: the cached verdict, else the row's, cached if Redis lets it.
validate_client(d, ok) ==
    \/ /\ cache[d] # None /\ ok = (cache[d] = "valid")
       /\ UNCHANGED cache
    \/ /\ cache[d] = None /\ ok = valid[d]
       /\ \/ UNCHANGED cache
          \/ cache' = [cache EXCEPT ![d] = IF valid[d] THEN "valid" ELSE "invalid"]

\* handle_login, which holds the active_clients lock throughout.  It refuses an
\* id that is registered; it registers the device whether or not it is valid;
\* a database error leaves it unregistered (after `authed` was set, when it is
\* the model recommendation that failed).
Login(c) ==
    /\ srv[c] = "open" /\ sid[c] = None
    /\ LET d == owner[c] IN
         /\ \/ /\ Registered(d)
               /\ reply' = [reply EXCEPT ![c] = "fail"]
               /\ UNCHANGED <<active, authed, cache, faults>>
            \/ /\ ~Registered(d)
               /\ \E ok \in BOOLEAN :
                    /\ validate_client(d, ok)
                    /\ authed' = [authed EXCEPT ![c] = @ \/ ok]
                    /\ \/ /\ active' = [active EXCEPT ![d] = [conn |-> c, authed |-> authed'[c]]]
                          /\ reply' = [reply EXCEPT ![c] = IF ok THEN "ok" ELSE "fail"]
                          /\ UNCHANGED faults
                       \/ /\ ok /\ Fault
                          /\ reply' = [reply EXCEPT ![c] = "fail"]
                          /\ UNCHANGED active
            \/ /\ ~Registered(d) /\ cache[d] = None /\ Fault
               /\ reply' = [reply EXCEPT ![c] = "fail"]
               /\ UNCHANGED <<active, authed, cache>>
         /\ sid' = [sid EXCEPT ![c] = d]
    /\ srv' = [srv EXCEPT ![c] = "reply"]
    /\ UNCHANGED <<connVars, errored, valid, online, fresh, topic>>

\* write_command(LoginResult): `?` ends the session if the device has gone.
WriteReply(c) ==
    /\ srv[c] = "reply"
    /\ \/ /\ result' = [result EXCEPT ![c] = reply[c]]
          /\ srv' = [srv EXCEPT ![c] = "open"]
          /\ UNCHANGED errored
       \/ /\ cli[c] = "gone"
          /\ srv' = [srv EXCEPT ![c] = "ended"]
          /\ errored' = errored \cup {c}
          /\ UNCHANGED result
    /\ reply' = [reply EXCEPT ![c] = None]
    /\ UNCHANGED <<active, owner, cli, sid, authed, dbVars, topic, faults>>

\* Heartbeat: handed to Kafka, or lost with a log line.
Heartbeat(c) ==
    /\ srv[c] = "open" /\ cli[c] \in {"run", "leaked"} /\ sid[c] # None
    /\ topic' = topic \cup {owner[c]}
    /\ UNCHANGED <<active, connVars, sessVars, dbVars, faults>>

\* A command's handler returns Err: the answer to ModelStatus cannot be written,
\* or a P2P request or candidate list names a peer that has left.
CommandFails(c) ==
    /\ srv[c] = "open" /\ sid[c] # None
    /\ \/ cli[c] = "gone" /\ result[c] = "started" /\ UNCHANGED faults
       \/ cli[c] = "run" /\ authed[c] /\ Fault
    /\ srv' = [srv EXCEPT ![c] = "ended"]
    /\ errored' = errored \cup {c}
    /\ UNCHANGED <<active, connVars, sid, authed, reply, dbVars, topic>>

\* Variant: the session's own id is recorded only by a login that succeeded.
Forget_OnlyAuthed(c) ==
    active' = [d \in Devices |-> IF d = sid[c] /\ authed[c] THEN None ELSE active[d]]

\* active_clients.remove(&session_client_id)
Forget(c) == active' = [d \in Devices |-> IF d = sid[c] THEN None ELSE active[d]]

\* Variant: the entry of a dead connection is left for the next login to find.
ReadError_KeepEntry(c) ==
    /\ srv[c] = "open" /\ cli[c] = "gone"
    /\ srv' = [srv EXCEPT ![c] = "offline"]
    /\ UNCHANGED <<active, connVars, sid, authed, reply, errored, dbVars, topic, faults>>

\* read_command fails: the device's entry goes, whoever's it is ...
ReadError(c) ==
    /\ srv[c] = "open" /\ cli[c] = "gone"
    /\ Forget(c)
    /\ srv' = [srv EXCEPT ![c] = "offline"]
    /\ UNCHANGED <<connVars, sid, authed, reply, errored, dbVars, topic, faults>>

\* Variant: the status is upserted, so the all-zero id of a session that never
\* logged in gets a row of its own.
MarkOffline_Upsert(c) ==
    /\ srv[c] = "offline"
    /\ online' = [d \in Devices \cup {sid[c]} |-> IF d = sid[c] THEN FALSE ELSE online[d]]
    /\ fresh' = [d \in Devices |-> fresh[d] \/ d = sid[c]]
    /\ srv' = [srv EXCEPT ![c] = "ended"]
    /\ UNCHANGED <<active, connVars, sid, authed, reply, errored, valid, cache, topic, faults>>

\* ... and the database is told, if it answers.
MarkOffline(c) ==
    /\ srv[c] = "offline"
    /\ \/ /\ online' = [d \in Devices |-> online[d] /\ d # sid[c]]
          /\ fresh' = [d \in Devices |-> fresh[d] \/ d = sid[c]]
          /\ UNCHANGED errored
       \/ /\ errored' = errored \cup {c}
          /\ UNCHANGED <<online, fresh>>
    /\ srv' = [srv EXCEPT ![c] = "ended"]
    /\ UNCHANGED <<active, connVars, sid, authed, reply, valid, cache, topic, faults>>

-----------------------------------------------------------------------------
(* The database and the processes that write it.                            *)

\* process_batch -> insert_heartbeat: committed, or rolled back and forgotten.
ConsumeHeartbeat(d) ==
    /\ d \in topic
    /\ topic' = topic \ {d}
    /\ \/ /\ valid[d]
          /\ online' = [online EXCEPT ![d] = TRUE]
          /\ fresh' = [fresh EXCEPT ![d] = TRUE]
       \/ UNCHANGED <<online, fresh>>
    /\ UNCHANGED <<active, connVars, sessVars, valid, cache, faults>>

\* offline_after_secs pass without a write to the row.
Age(d) ==
    /\ fresh[d]
    /\ fresh' = [fresh EXCEPT ![d] = FALSE]
    /\ UNCHANGED <<active, connVars, sessVars, valid, cache, online, topic, faults>>

\* Variant: the sweeper leaves alone the devices the server has an entry for.
Sweep_Unregistered(d) ==
    /\ valid[d] /\ online[d] /\ ~fresh[d] /\ active[d] = None
    /\ online' = [online EXCEPT ![d] = FALSE]
    /\ fresh' = [fresh EXCEPT ![d] = TRUE]
    /\ UNCHANGED <<active, connVars, sessVars, valid, cache, topic, faults>>

\* The sweeper's UPDATE.
Sweep(d) ==
    /\ valid[d] /\ online[d] /\ ~fresh[d]
    /\ online' = [online EXCEPT ![d] = FALSE]
    /\ fresh' = [fresh EXCEPT ![d] = TRUE]
    /\ UNCHANGED <<active, connVars, sessVars, valid, cache, topic, faults>>

\* update_gpu_asset_status: the owner edits valid_status, or client_status itself
\* (by mistake, so counted with the faults).
Edit(d) ==
    /\ \/ /\ valid' = [valid EXCEPT ![d] = ~@]
          /\ UNCHANGED <<online, faults>>
       \/ /\ Fault
          /\ online' = [online EXCEPT ![d] = ~@]
          /\ UNCHANGED valid
    /\ fresh' = [fresh EXCEPT ![d] = TRUE]
    /\ UNCHANGED <<active, connVars, sessVars, cache, topic>>

\* Redis expires the cached verdict after 300 seconds.
CacheExpires(d) ==
    /\ cache[d] # None
    /\ cache' = [cache EXCEPT ![d] = None]
    /\ UNCHANGED <<active, connVars, sessVars, valid, online, fresh, topic, faults>>

-----------------------------------------------------------------------------
SessionStep(c) ==
    Login(c) \/ WriteReply(c) \/ ReadError(c) \/ MarkOffline(c) \/ CommandFails(c) \/ Heartbeat(c)

Next ==
    \/ \E c \in Conns :
          \/ \E d \in Devices : Connect(d, c)
          \/ ReceiveLogin(c) \/ HandlerFails(c) \/ SeeClosed(c) \/ NetDies(c)
          \/ SessionStep(c)
    \/ \E d \in Devices :
          ConsumeHeartbeat(d) \/ Age(d) \/ Sweep(d) \/ Edit(d) \/ CacheExpires(d)

Spec == Init /\ [][Next]_vars

\* The server and the consumer keep running: sessions answer and notice dead
\* connections (TCP keepalive), Kafka is drained, time passes, the sweeper
\* ticks.  Failures are possible, never forced.
ServerFairness ==
    /\ \A c \in Conns :
          /\ WF_vars(Login(c)) /\ WF_vars(WriteReply(c)) /\ WF_vars(MarkOffline(c))
          /\ WF_vars((ReadError(c) \/ CommandFails(c)) /\ cli[c] = "gone")
    /\ \A d \in Devices :
          /\ WF_vars(ConsumeHeartbeat(d)) /\ WF_vars(Age(d)) /\ WF_vars(Sweep(d))
          /\ WF_vars(CacheExpires(d))

\* The device's main loop retries, and its handler reads what arrives.
DeviceFairness ==
    /\ \A d \in Devices : WF_vars(\E c \in Conns : Connect(d, c))
    /\ \A c \in Conns : WF_vars(ReceiveLogin(c)) /\ WF_vars(SeeClosed(c))

ServerFairSpec == Spec /\ ServerFairness
FairSpec == ServerFairSpec /\ DeviceFairness

-----------------------------------------------------------------------------
(* Properties.                                                              *)

\* Every variable keeps its type; in particular no write of a session that never
\* logged in (session_client_id all zero) adds a device to the map or the table.
TypeOK ==
    /\ active \in [Devices -> [conn : Conns, authed : BOOLEAN] \cup {None}]
    /\ srv \in [Conns -> {"open", "reply", "offline", "ended"}]
    /\ sid \in [Conns -> Devices \cup {None}]
    /\ authed \in [Conns -> BOOLEAN]
    /\ reply \in [Conns -> {"ok", "fail", None}]
    /\ owner \in [Conns -> Devices]
    /\ cli \in [Conns -> {"login", "run", "leaked", "gone"}]
    /\ result \in [Conns -> {"ok", "fail", "started", None}]
    /\ valid \in [Devices -> BOOLEAN]
    /\ cache \in [Devices -> {"valid", "invalid", None}]
    /\ online \in [Devices -> BOOLEAN]
    /\ fresh \in [Devices -> BOOLEAN]
    /\ topic \subseteq Devices
    /\ faults \in 0..MaxFaults
    /\ errored \subseteq Conns

\* An entry of active_clients outlives its session only if the session returned
\* Err; a session that ends by losing its connection leaves nothing behind, not
\* even the entry of a device that failed validation (handle_connections.rs:220,
\* 285-290, 634).
EntryOwned ==
    \A d \in Devices : active[d] # None =>
       LET c == active[d].conn IN
          /\ owner[c] = d /\ sid[c] = d
          /\ srv[c] \in {"open", "reply"} \/ c \in errored

\* A login never takes over a registered device: the entry must go first, so a
\* task is never sent to a connection other than the one that was selected
\* without the device having been unregistered in between.
NoTakeover ==
    [][\A d \in Devices : active[d] # None => active'[d] \in {active[d], None}]_vars

Live(d) == \E c \in Conns : owner[c] = d /\ cli[c] # "gone"

Reachable(d) ==
    /\ active[d] # None /\ active[d].authed
    /\ cli[active[d].conn] = "run" /\ srv[active[d].conn] = "open"

Running(d) == \E c \in Conns : owner[c] = d /\ cli[c] = "run"

\* A device that is valid and keeps retrying gets in, whatever entries earlier
\* connections left: the refusal it meets ends in a disconnect that removes them.
RetryGetsIn ==
    DeviceFairness => \A d \in Devices :
       (~Running(d) /\ [](valid[d] /\ cache[d] # "invalid")) ~> Running(d)

\* A device whose connections are gone for good is marked offline for good,
\* however late its last heartbeats are consumed and however its sessions ended.
GoneGoesOffline ==
    \A d \in Devices : <>[](~Live(d) /\ valid[d]) => <>[](~online[d])

\* "Automatic reconnection mechanism": a device that runs stays reachable, or
\* becomes so again.
ReconnectsWhenLost ==
    \A d \in Devices : []<>(Reachable(d)) \/ []<>(~Running(d))
=============================================================================
