---------------------------- MODULE ProxyRouting ----------------------------
(* Public connections and the devices that serve them.                         *)
(*                                                                             *)
(* Sources: gpuf-s/src/handle/handle_agent.rs (both listeners), the device's   *)
(* create_proxy_connection in gpuf-c/src/handle/handle_tcp.rs and join_streams *)
(* in common/src/lib.rs.                                                       *)
(*                                                                             *)
(* Each user sends one request.  A proxy_conn_id is fresh, so it is named by   *)
(* its user.  A body is a sequence of pieces, of which a read returns any      *)
(* number; the buffer holds positions in the body, so that a lost piece shows. *)
(* The buffer pool only saves allocations and is left out.                     *)
EXTENDS Integers, Sequences, FiniteSets, SequencesExt, FiniteSetsExt

CONSTANTS
    Users, Devices, Models,
    Bodies,       \* bodies of requests: "key" "value" is the model's, "text" the rest
    MaxFaults,    \* bound: faults
    Empty,        \* the model name ""
    None

\* Every model that a device offers has a name.
ASSUME ProxyAssumption ==
    /\ Bodies \subseteq Seq({"key", "value", "text"}) /\ MaxFaults \in Nat
    /\ IsFiniteSet(Devices)
    /\ Empty \notin Models /\ None \notin Models /\ None \notin Users

VARIABLES
    req,          \* the request of each user: is it JSON, its body, its model
    open,         \* the user has not closed its side
    pc,           \* where route_public_connection_new is
    buf,          \* the body in buffer, as positions
    nread,        \* pieces read from the user
    model,        \* chat_info.model
    allowed,      \* client_ids: the devices the key may use, as queried
    to,           \* the chosen client
    answer,       \* what became of the user's connection
    clients,      \* active_clients: is the device authenticated, its models
    active,       \* the user whose routing holds active_clients
    pending,      \* pending_connections
    plock,        \* the proxy connection that holds pending_connections
    dial,         \* the device's proxy connection for the user
    stalled,      \* devices that do not read
    faults        \* faults so far

userVars == <<req, open, buf, nread, model>>
routeVars == <<allowed, to>>
vars == <<userVars, routeVars, pc, answer, clients, active, pending, plock, dial,
          stalled, faults>>

Request == [json : BOOLEAN, body : Bodies, model : Models]
Info == [authed : BOOLEAN, models : SUBSET Models]
\* Lists of devices that get_user_client_by_token may return.
Lists == UNION {SetToSeqs(D) : D \in SUBSET Devices}

Init ==
    /\ req \in [Users -> Request]
    /\ open = [u \in Users |-> TRUE]
    /\ pc = [u \in Users |-> "header"]
    /\ buf = [u \in Users |-> <<>>]
    /\ nread = [u \in Users |-> 0]
    /\ model = [u \in Users |-> None]
    /\ allowed = [u \in Users |-> <<>>]
    /\ to = [u \in Users |-> None]
    /\ answer = [u \in Users |-> None]
    /\ clients = [d \in Devices |-> None]
    /\ active = None
    /\ pending = {}
    /\ plock = None
    /\ dial = [u \in Users |-> "none"]
    /\ stalled = {}
    /\ faults = 0

Fault == faults < MaxFaults /\ faults' = faults + 1

Go(u, label) == pc' = [pc EXCEPT ![u] = label]
End(u, what) == Go(u, "done") /\ answer' = [answer EXCEPT ![u] = what]

-----------------------------------------------------------------------------
(* Reading the request.                                                     *)

Positions(from, n) == [i \in 1..n |-> from + i]

\* Variant: the fall-back finds the name behind its opening quote.
try_parse_model_from_slice_Quoted(r, b) ==
    LET key == {i \in 1..Len(b) : r.body[b[i]] = "key"} IN
    IF b = Positions(0, Len(r.body)) /\ key # {} THEN r.model
    ELSE IF \E i \in key : i < Len(b) THEN r.model ELSE None

\* The name in a complete JSON text; else the text between the first two quotes
\* after the key, and the first of them opens the name: nothing is between them.
try_parse_model_from_slice(r, b) ==
    LET key == {i \in 1..Len(b) : r.body[b[i]] = "key"} IN
    IF b = Positions(0, Len(r.body)) /\ key # {} THEN r.model
    ELSE IF \E i \in key : i < Len(b) THEN Empty ELSE None

UserCloses(u) ==
    /\ open[u]
    /\ open' = [open EXCEPT ![u] = FALSE]
    /\ UNCHANGED <<req, buf, nread, model, routeVars, pc, answer, clients, active,
                   pending, plock, dial, stalled, faults>>

\* extract_chat_info: the read that completes the headers may bring pieces of the body.
ReadHeader(u) ==
    /\ pc[u] = "header"
    /\ \E n \in 0..Len(req[u].body) :
          /\ buf' = [buf EXCEPT ![u] = Positions(0, n)]
          /\ nread' = [nread EXCEPT ![u] = n]
    /\ model' = [model EXCEPT ![u] = IF req[u].json
                    THEN try_parse_model_from_slice(req[u], buf'[u]) ELSE None]
    /\ Go(u, IF req[u].json /\ model'[u] = None THEN "body" ELSE "auth")
    /\ UNCHANGED <<req, open, routeVars, answer, clients, active, pending, plock, dial,
                   stalled, faults>>

\* The headers never end: the connection is dropped without an answer.
HeaderFails(u) ==
    /\ pc[u] = "header" /\ ~open[u]
    /\ End(u, "dropped")
    /\ UNCHANGED <<userVars, routeVars, clients, active, pending, plock, dial, stalled, faults>>

\* read_model_from_json_body: a read of n bytes first cuts the buffered body to n.
ReadBody(u) ==
    /\ pc[u] = "body"
    /\ \E n \in 1..(Len(req[u].body) - nread[u]) :
          /\ buf' = [buf EXCEPT ![u] =
                 SubSeq(@, 1, Min({n, Len(@)})) \o Positions(nread[u], n)]
          /\ nread' = [nread EXCEPT ![u] = @ + n]
    /\ model' = [model EXCEPT ![u] = try_parse_model_from_slice(req[u], buf'[u])]
    /\ Go(u, IF model'[u] = None THEN "body" ELSE "auth")
    /\ UNCHANGED <<req, open, routeVars, answer, clients, active, pending, plock, dial,
                   stalled, faults>>

\* The user closes without a model having been found.
BodyEnds(u) ==
    /\ pc[u] = "body" /\ ~open[u] /\ nread[u] = Len(req[u].body)
    /\ Go(u, "auth")
    /\ UNCHANGED <<userVars, routeVars, answer, clients, active, pending, plock, dial,
                   stalled, faults>>

-----------------------------------------------------------------------------
(* Routing.                                                                 *)

\* No model or key, an invalid key, or no device online.
Refuse401(u) ==
    /\ pc[u] = "auth"
    /\ End(u, "401")
    /\ UNCHANGED <<userVars, routeVars, clients, active, pending, plock, dial, stalled, faults>>

\* authenticate_and_select_client.
Authenticate(u) ==
    /\ pc[u] = "auth" /\ model[u] # None
    /\ \E l \in Lists \ {<<>>} : allowed' = [allowed EXCEPT ![u] = l]
    /\ Go(u, "route")
    /\ UNCHANGED <<userVars, to, answer, clients, active, pending, plock, dial, stalled,
                   faults>>

Offers(d, m) == clients[d] # None /\ m \in clients[d].models

\* The first listed device that offers the model, if any.
FirstOffering(u) ==
    LET l == allowed[u]
        offering == {i \in 1..Len(l) : Offers(l[i], model[u])}
    IN  {l[i] : i \in {j \in offering : \A k \in offering : j <= k}}

\* Locks active_clients until the routing ends; the first listed device that offers
\* the model is the only candidate.
Choose(u) ==
    /\ pc[u] = "route" /\ active = None
    /\ active' = u
    /\ \/ \E d \in FirstOffering(u) :
             clients[d].authed /\ to' = [to EXCEPT ![u] = d] /\ Go(u, "send")
       \/ /\ \A d \in FirstOffering(u) : ~clients[d].authed
          /\ Go(u, "refuse") /\ UNCHANGED to
    /\ UNCHANGED <<userVars, allowed, answer, clients, pending, plock, dial, stalled, faults>>

\* RequestNewProxyConn is written to the device.
SendCommand(u) ==
    /\ pc[u] = "send" /\ to[u] \notin stalled
    /\ Go(u, "insert")
    /\ dial' = [dial EXCEPT ![u] = "asked"]
    /\ UNCHANGED <<userVars, routeVars, answer, clients, active, pending, plock, stalled, faults>>

\* The write fails, perhaps after the device got the command, and its entry is removed.
SendFails(u) ==
    /\ pc[u] = "send" /\ Fault
    /\ Go(u, "refuse")
    /\ clients' = [clients EXCEPT ![to[u]] = None]
    /\ \E s \in {"none", "asked"} : dial' = [dial EXCEPT ![u] = s]
    /\ UNCHANGED <<userVars, routeVars, answer, active, pending, plock, stalled>>

\* pending_connections.lock().await.insert.  A key that is not metered is done.
Insert(u) ==
    /\ pc[u] = "insert" /\ plock = None
    /\ pending' = pending \cup {u}
    /\ \/ Go(u, "meter") /\ UNCHANGED active
       \/ Go(u, "done") /\ active' = None
    /\ UNCHANGED <<userVars, routeVars, answer, clients, plock, dial, stalled, faults>>

\* Variant: the guard of active_clients is forgotten.
Meter_KeepLock(u) ==
    /\ pc[u] = "meter"
    /\ Go(u, "done")
    /\ UNCHANGED <<userVars, routeVars, answer, clients, active, pending, plock, dial,
                   stalled, faults>>

\* request_to_kafka, whatever its result.
Meter(u) ==
    /\ pc[u] = "meter"
    /\ Go(u, "done") /\ active' = None
    /\ UNCHANGED <<userVars, routeVars, answer, clients, pending, plock, dial, stalled, faults>>

\* "No available clients".
Refuse400(u) ==
    /\ pc[u] = "refuse"
    /\ End(u, "400") /\ active' = None
    /\ UNCHANGED <<userVars, routeVars, clients, pending, plock, dial, stalled, faults>>

-----------------------------------------------------------------------------
(* The device's proxy connection.                                           *)

\* create_proxy_connection reaches the server and is read there, or fails.
Dial(u) ==
    /\ dial[u] = "asked"
    /\ \/ dial' = [dial EXCEPT ![u] = "dialled"] /\ UNCHANGED faults
       \/ dial' = [dial EXCEPT ![u] = "failed"] /\ Fault
    /\ UNCHANGED <<userVars, routeVars, pc, answer, clients, active, pending, plock, stalled>>

\* Variant: the lock is only tried.
Pair_TryLock(u) ==
    /\ dial[u] = "dialled"
    /\ IF u \in pending /\ plock = None
       THEN /\ pending' = pending \ {u}
            /\ plock' = u
            /\ dial' = [dial EXCEPT ![u] = "forwarding"]
       ELSE /\ dial' = [dial EXCEPT ![u] = "away"]
            /\ UNCHANGED <<pending, plock>>
    /\ UNCHANGED <<userVars, routeVars, pc, answer, clients, active, stalled, faults>>

\* handle_proxy_connections: the user is taken out of the map, which stays locked
\* while the buffer is written; a connection nobody waits for is dropped.
Pair(u) ==
    /\ dial[u] = "dialled" /\ plock = None
    /\ IF u \in pending
       THEN /\ pending' = pending \ {u}
            /\ plock' = u
            /\ dial' = [dial EXCEPT ![u] = "forwarding"]
       ELSE /\ dial' = [dial EXCEPT ![u] = "away"]
            /\ UNCHANGED <<pending, plock>>
    /\ UNCHANGED <<userVars, routeVars, pc, answer, clients, active, stalled, faults>>

\* write_all and flush, whose errors are ignored.
Forward(u) ==
    /\ dial[u] = "forwarding" /\ to[u] \notin stalled
    /\ plock' = None
    /\ dial' = [dial EXCEPT ![u] = "joined"]
    /\ UNCHANGED <<userVars, routeVars, pc, answer, clients, active, pending, stalled, faults>>

\* join_streams ends with the first direction that ends: the device has answered, or
\* the user has closed its side, or a connection or the local service fails.
JoinEnds(u) ==
    /\ dial[u] = "joined"
    /\ dial' = [dial EXCEPT ![u] = "closed"]
    /\ \/ answer' = [answer EXCEPT ![u] = "served"] /\ UNCHANGED faults
       \/ answer' = [answer EXCEPT ![u] = "cut"] /\ ~open[u] /\ UNCHANGED faults
       \/ answer' = [answer EXCEPT ![u] = "cut"] /\ Fault
    /\ UNCHANGED <<userVars, routeVars, pc, clients, active, pending, plock, stalled>>

-----------------------------------------------------------------------------
(* The control sessions, which lock active_clients for one step.            *)

Register(d) ==
    /\ active = None
    /\ \E i \in Info : clients' = [clients EXCEPT ![d] = i]
    /\ UNCHANGED <<userVars, routeVars, pc, answer, active, pending, plock, dial, stalled, faults>>

Leave(d) ==
    /\ active = None /\ clients[d] # None
    /\ clients' = [clients EXCEPT ![d] = None]
    /\ UNCHANGED <<userVars, routeVars, pc, answer, active, pending, plock, dial, stalled, faults>>

Stall(d) ==
    /\ d \notin stalled /\ Fault
    /\ stalled' = stalled \cup {d}
    /\ UNCHANGED <<userVars, routeVars, pc, answer, clients, active, pending, plock, dial>>

Recover(d) ==
    /\ d \in stalled
    /\ stalled' = stalled \ {d}
    /\ UNCHANGED <<userVars, routeVars, pc, answer, clients, active, pending, plock, dial, faults>>

-----------------------------------------------------------------------------
Route(u) ==
    Choose(u) \/ SendCommand(u) \/ Insert(u) \/ Meter(u) \/ Refuse400(u)

Proxy(u) == Pair(u) \/ Forward(u)

Next ==
    \/ \E u \in Users :
          \/ UserCloses(u) \/ ReadHeader(u) \/ HeaderFails(u) \/ ReadBody(u) \/ BodyEnds(u)
          \/ Refuse401(u) \/ Authenticate(u) \/ Route(u) \/ SendFails(u)
          \/ Dial(u) \/ Proxy(u) \/ JoinEnds(u)
    \/ \E d \in Devices : Register(d) \/ Leave(d) \/ Stall(d) \/ Recover(d)

Spec == Init /\ [][Next]_vars

\* The server's tasks run, their locks are fair, and a device's dialling ends.
FairSpec ==
    /\ Spec
    /\ \A u \in Users : WF_vars(Route(u)) /\ WF_vars(Proxy(u)) /\ WF_vars(Dial(u))

-----------------------------------------------------------------------------
(* Properties.                                                              *)

PCs == {"header", "body", "auth", "route", "send", "insert", "meter", "refuse", "done"}
Answers == {"dropped", "401", "400", "served", "cut"}
Dials == {"none", "asked", "dialled", "forwarding", "joined", "closed", "away", "failed"}

\* Every variable keeps its type.
TypeOK ==
    /\ req \in [Users -> Request] /\ open \in [Users -> BOOLEAN]
    /\ pc \in [Users -> PCs] /\ answer \in [Users -> Answers \cup {None}]
    /\ dial \in [Users -> Dials]
    /\ buf \in [Users -> Seq(Nat)] /\ nread \in [Users -> Nat]
    /\ model \in [Users -> Models \cup {None, Empty}]
    /\ allowed \in [Users -> Seq(Devices)] /\ to \in [Users -> Devices \cup {None}]
    /\ clients \in [Devices -> Info \cup {None}]
    /\ active \in Users \cup {None} /\ plock \in Users \cup {None}
    /\ pending \subseteq Users /\ stalled \subseteq Devices /\ faults \in 0..MaxFaults

\* A device is given a request that the user was not refused, and exactly what the user
\* sent: only a name found in a complete body ever leads to a device, so the reads that
\* cut the buffered body (handle_agent.rs:550) never reach one.
ForwardedIntact ==
    \A u \in Users : dial[u] \in {"forwarding", "joined"} =>
       /\ buf[u] = Positions(0, nread[u])
       /\ answer[u] = None

\* A device that dials is turned away only if it was quicker than the insertion of its
\* user (handle_agent.rs:817), or its user was refused.
TurnedAwayOnlyEarly ==
    [][\A u \in Users : dial[u] # "away" /\ dial'[u] = "away" =>
          pc[u] \in {"insert", "refuse"} \/ answer[u] = "400"]_vars

NoneStalled == <>[](stalled = {})

\* Once devices read again, every routing ends: none waits for ever for a map that
\* another holds across its waits (handle_agent.rs:807, 77).  And nobody stays for ever
\* in pending_connections, except the user whose device could not dial or was turned
\* away: for these there is no time-out.
RoutingEnds ==
    NoneStalled => \A u \in Users :
       /\ pc[u] = "route" ~> pc[u] = "done"
       /\ u \in pending ~> (u \notin pending \/ dial[u] \in {"failed", "away"})
=============================================================================
