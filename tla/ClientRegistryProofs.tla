------------------------- MODULE ClientRegistryProofs -------------------------
(***************************************************************************)
(* For any number of devices, connections and faults: the state keeps its  *)
(* type, an entry of active_clients belongs to the session that made it,   *)
(* and no login takes over a registered device.                            *)
(***************************************************************************)
EXTENDS ClientRegistry, TLAPS

Entry == [conn : Conns, authed : BOOLEAN]

\* The type invariant in three parts, one per group of variables.
ConnType ==
    /\ owner \in [Conns -> Devices]
    /\ cli \in [Conns -> {"login", "run", "leaked", "gone"}]
    /\ result \in [Conns -> {"ok", "fail", "started", None}]

SessType ==
    /\ srv \in [Conns -> {"open", "reply", "offline", "ended"}]
    /\ sid \in [Conns -> Devices \cup {None}]
    /\ authed \in [Conns -> BOOLEAN]
    /\ reply \in [Conns -> {"ok", "fail", None}]
    /\ errored \subseteq Conns

RowType ==
    /\ valid \in [Devices -> BOOLEAN]
    /\ cache \in [Devices -> {"valid", "invalid", None}]
    /\ online \in [Devices -> BOOLEAN]
    /\ fresh \in [Devices -> BOOLEAN]
    /\ topic \subseteq Devices

MapType == active \in [Devices -> Entry \cup {None}]

\* TypeOK is its parts.
LEMMA Parts == TypeOK <=> ConnType /\ SessType /\ RowType /\ MapType /\ faults \in 0..MaxFaults
  BY DEF TypeOK, ConnType, SessType, RowType, MapType, Entry

\* A counter of faults stays within its bound, counted or not.
LEMMA FaultBound == ASSUME faults \in 0..MaxFaults, Fault \/ UNCHANGED faults
                    PROVE  faults' \in 0..MaxFaults
  BY RegistryAssumption DEF Fault

LEMMA InitType == Init => TypeOK
  BY RegistryAssumption DEF Init, TypeOK

\* The device's actions keep the type of its ends of the connections ...
LEMMA NextConnType == ASSUME TypeOK, [Next]_vars PROVE ConnType'
<1> USE DEF ConnType
<1>0. ConnType  BY Parts
<1>1. ASSUME NEW d \in Devices, NEW c \in Conns, Connect(d, c) PROVE ConnType'
  BY <1>0, <1>1 DEF Connect
<1>2. ASSUME NEW c \in Conns, ReceiveLogin(c) PROVE ConnType'
  BY <1>0, <1>2 DEF ReceiveLogin
<1>3. ASSUME NEW c \in Conns, HandlerFails(c) \/ SeeClosed(c) \/ NetDies(c) PROVE ConnType'
  BY <1>0, <1>3 DEF HandlerFails, SeeClosed, NetDies
<1>4. ASSUME NEW c \in Conns, WriteReply(c) PROVE ConnType'
  <2>1. reply[c] \in {"ok", "fail", None}  BY Parts DEF SessType
  <2> QED  BY <1>0, <1>4, <2>1 DEF WriteReply
<1>5. ASSUME UNCHANGED connVars PROVE ConnType'
  BY <1>0, <1>5 DEF connVars
<1>6. ASSUME NEW c \in Conns, SessionStep(c) PROVE ConnType'
  BY <1>4, <1>5, <1>6 DEF SessionStep, Login, ReadError, MarkOffline, CommandFails, Heartbeat
<1>7. ASSUME NEW d \in Devices,
             ConsumeHeartbeat(d) \/ Age(d) \/ Sweep(d) \/ Edit(d) \/ CacheExpires(d)
      PROVE  ConnType'
  BY <1>5, <1>7 DEF ConsumeHeartbeat, Age, Sweep, Edit, CacheExpires
<1> QED  BY <1>1, <1>2, <1>3, <1>5, <1>6, <1>7 DEF Next, vars

\* ... the sessions' that of their own state ...
LEMMA NextSessType == ASSUME TypeOK, [Next]_vars PROVE SessType'
<1> USE DEF SessType
<1>0. SessType  BY Parts
<1>1. ASSUME NEW d \in Devices, NEW c \in Conns, Connect(d, c) PROVE SessType'
  BY <1>0, <1>1 DEF Connect
<1>2. ASSUME NEW c \in Conns, Login(c) PROVE SessType'
  <2>1. owner[c] \in Devices  BY Parts DEF ConnType
  <2>2. authed' \in [Conns -> BOOLEAN]  BY <1>0, <1>2 DEF Login
  <2>3. reply' \in [Conns -> {"ok", "fail", None}]  BY <1>0, <1>2 DEF Login
  <2>4. srv' = [srv EXCEPT ![c] = "reply"] /\ sid' = [sid EXCEPT ![c] = owner[c]] /\ errored' = errored
    BY <1>2 DEF Login
  <2> QED  BY <1>0, <2>1, <2>2, <2>3, <2>4
<1>3. ASSUME NEW c \in Conns, WriteReply(c) PROVE SessType'
  BY <1>0, <1>3 DEF WriteReply
<1>4. ASSUME NEW c \in Conns, ReadError(c) \/ MarkOffline(c) \/ CommandFails(c) PROVE SessType'
  BY <1>0, <1>4 DEF ReadError, MarkOffline, CommandFails
<1>5. ASSUME UNCHANGED sessVars PROVE SessType'
  BY <1>0, <1>5 DEF sessVars
<1>6. ASSUME NEW c \in Conns, SessionStep(c) PROVE SessType'
  BY <1>2, <1>3, <1>4, <1>5, <1>6 DEF SessionStep, Heartbeat
<1>7. ASSUME NEW c \in Conns, ReceiveLogin(c) \/ HandlerFails(c) \/ SeeClosed(c) \/ NetDies(c)
      PROVE  SessType'
  BY <1>5, <1>7 DEF ReceiveLogin, HandlerFails, SeeClosed, NetDies
<1>8. ASSUME NEW d \in Devices,
             ConsumeHeartbeat(d) \/ Age(d) \/ Sweep(d) \/ Edit(d) \/ CacheExpires(d)
      PROVE  SessType'
  BY <1>5, <1>8 DEF ConsumeHeartbeat, Age, Sweep, Edit, CacheExpires
<1> QED  BY <1>1, <1>5, <1>6, <1>7, <1>8 DEF Next, vars

\* ... whoever writes the device's row, the cache or the topic, that of the row ...
LEMMA NextRowType == ASSUME TypeOK, [Next]_vars PROVE RowType'
<1> USE DEF RowType
<1>0. RowType  BY Parts
<1>1. ASSUME NEW c \in Conns, Login(c) PROVE RowType'
  <2>1. owner[c] \in Devices  BY Parts DEF ConnType
  <2>2. UNCHANGED <<valid, online, fresh, topic>>  BY <1>1 DEF Login
  <2>3. UNCHANGED cache \/ \E ok \in BOOLEAN : validate_client(owner[c], ok)
    BY <1>1 DEF Login
  <2>4. cache' \in [Devices -> {"valid", "invalid", None}]
    BY <1>0, <2>1, <2>3 DEF validate_client
  <2> QED  BY <1>0, <2>2, <2>4
<1>2. ASSUME NEW c \in Conns, Heartbeat(c) PROVE RowType'
  <2>1. owner[c] \in Devices  BY Parts DEF ConnType
  <2> QED  BY <1>0, <1>2, <2>1 DEF Heartbeat, dbVars
<1>3. ASSUME NEW c \in Conns, MarkOffline(c) PROVE RowType'
  BY <1>0, <1>3 DEF MarkOffline
<1>4. ASSUME UNCHANGED <<dbVars, topic>> PROVE RowType'
  BY <1>0, <1>4 DEF dbVars
<1>5. ASSUME NEW c \in Conns, SessionStep(c) PROVE RowType'
  BY <1>1, <1>2, <1>3, <1>4, <1>5 DEF SessionStep, WriteReply, ReadError, CommandFails
<1>6. ASSUME NEW c \in Conns,
             \/ \E d \in Devices : Connect(d, c)
             \/ ReceiveLogin(c) \/ HandlerFails(c) \/ SeeClosed(c) \/ NetDies(c)
      PROVE  RowType'
  BY <1>4, <1>6 DEF Connect, ReceiveLogin, HandlerFails, SeeClosed, NetDies
<1>7. ASSUME NEW d \in Devices,
             ConsumeHeartbeat(d) \/ Age(d) \/ Sweep(d) \/ Edit(d) \/ CacheExpires(d)
      PROVE  RowType'
  BY <1>0, <1>7 DEF ConsumeHeartbeat, Age, Sweep, Edit, CacheExpires
<1> QED  BY <1>4, <1>5, <1>6, <1>7 DEF Next, vars

\* What a step may do to active_clients: a login of an unregistered device adds an
\* entry for its own connection, a read error removes the entry of its session's
\* device, and nothing else touches it.
Added(c) ==
    /\ Login(c) /\ active[owner[c]] = None
    /\ \E a \in BOOLEAN : active' = [active EXCEPT ![owner[c]] = [conn |-> c, authed |-> a]]

LEMMA MapSteps ==
    ASSUME TypeOK, [Next]_vars
    PROVE  \/ UNCHANGED active
           \/ \E c \in Conns : Added(c)
           \/ \E c \in Conns : ReadError(c)
<1>1. ASSUME NEW c \in Conns, Login(c) PROVE UNCHANGED active \/ Added(c)
  <2>1. authed' \in [Conns -> BOOLEAN]  BY NextSessType DEF SessType
  <2>2. CASE UNCHANGED active  BY <2>2
  <2>3. CASE /\ ~Registered(owner[c])
             /\ active' = [active EXCEPT ![owner[c]] = [conn |-> c, authed |-> authed'[c]]]
    BY <1>1, <2>1, <2>3 DEF Added, Registered
  <2> QED  BY <1>1, <2>2, <2>3 DEF Login
<1>2. ASSUME NEW c \in Conns, SessionStep(c)
      PROVE  UNCHANGED active \/ Added(c) \/ ReadError(c)
  BY <1>1, <1>2 DEF SessionStep, WriteReply, MarkOffline, CommandFails, Heartbeat
<1>3. ASSUME NEW c \in Conns,
             \/ \E d \in Devices : Connect(d, c)
             \/ ReceiveLogin(c) \/ HandlerFails(c) \/ SeeClosed(c) \/ NetDies(c)
      PROVE  UNCHANGED active
  BY <1>3 DEF Connect, ReceiveLogin, HandlerFails, SeeClosed, NetDies
<1>4. ASSUME NEW d \in Devices,
             ConsumeHeartbeat(d) \/ Age(d) \/ Sweep(d) \/ Edit(d) \/ CacheExpires(d)
      PROVE  UNCHANGED active
  BY <1>4 DEF ConsumeHeartbeat, Age, Sweep, Edit, CacheExpires
<1> QED  BY <1>2, <1>3, <1>4 DEF Next, vars

LEMMA NextMapType == ASSUME TypeOK, [Next]_vars PROVE MapType'
<1>0. MapType  BY Parts
<1>1. ASSUME NEW c \in Conns, Added(c) PROVE MapType'
  <2>1. PICK a \in BOOLEAN : active' = [active EXCEPT ![owner[c]] = [conn |-> c, authed |-> a]]
    BY <1>1 DEF Added
  <2>2. [conn |-> c, authed |-> a] \in Entry  BY DEF Entry
  <2> QED  BY <1>0, <2>1, <2>2 DEF MapType
<1>2. ASSUME NEW c \in Conns, ReadError(c) PROVE MapType'
  BY <1>0, <1>2 DEF ReadError, Forget, MapType
<1> QED  BY <1>0, <1>1, <1>2, MapSteps DEF MapType

\* The fault counter is only ever touched by Fault.
LEMMA NextFaults == ASSUME TypeOK, [Next]_vars PROVE faults' \in 0..MaxFaults
<1>1. Fault \/ UNCHANGED faults
  BY DEF Next, vars, Connect, ReceiveLogin, HandlerFails, SeeClosed, NetDies, SessionStep, Login,
         WriteReply, ReadError, MarkOffline, CommandFails, Heartbeat, ConsumeHeartbeat, Age, Sweep,
         Edit, CacheExpires
<1> QED  BY <1>1, FaultBound, Parts

LEMMA NextType == ASSUME TypeOK, [Next]_vars PROVE TypeOK'
  BY NextConnType, NextSessType, NextRowType, NextMapType, NextFaults DEF ConnType, SessType,
     RowType, MapType, TypeOK, Entry

-----------------------------------------------------------------------------
\* The inductive invariant of the ownership argument.
IInv == TypeOK /\ EntryOwned

\* Connection e is d's, its session logged in as d, and the session either still
\* runs or returned Err.
OwnedBy(d, e) ==
    /\ owner[e] = d /\ sid[e] = d
    /\ srv[e] \in {"open", "reply"} \/ e \in errored

LEMMA OwnedAll ==
    EntryOwned <=> \A d \in Devices : active[d] # None => OwnedBy(d, active[d].conn)
  BY DEF EntryOwned, OwnedBy

LEMMA InitOwned == Init => EntryOwned
  BY DEF Init, EntryOwned

\* Once the map refers to a connection, the slot is not reused (its writer keeps
\* the socket open) and its session keeps its id, until the session's read error.
LEMMA StaysOwned ==
    ASSUME TypeOK, [Next]_vars, NEW d \in Devices, NEW e \in Conns,
           active[d] # None, active[d].conn = e, OwnedBy(d, e)
    PROVE  OwnedBy(d, e)' \/ ReadError(e)
<1> USE DEF OwnedBy
<1>0. /\ owner \in [Conns -> Devices] /\ sid \in [Conns -> Devices \cup {None}]
      /\ srv \in [Conns -> {"open", "reply", "offline", "ended"}]
      /\ d # None
  BY RegistryAssumption DEF TypeOK
<1>1. ASSUME NEW f \in Devices, NEW c \in Conns, Connect(f, c) PROVE OwnedBy(d, e)'
  <2>1. c # e  BY <1>1 DEF Connect, ServerEndOpen, WriterHeld
  <2> QED  BY <1>0, <1>1, <2>1 DEF Connect
<1>2. ASSUME NEW c \in Conns, Login(c) PROVE OwnedBy(d, e)'
  <2>1. c # e  BY <1>0, <1>2 DEF Login
  <2>2. /\ srv' = [srv EXCEPT ![c] = "reply"] /\ sid' = [sid EXCEPT ![c] = owner[c]]
        /\ errored' = errored /\ owner' = owner
    BY <1>2 DEF Login, connVars
  <2> QED  BY <1>0, <2>1, <2>2
<1>3. ASSUME NEW c \in Conns, WriteReply(c) PROVE OwnedBy(d, e)'
  BY <1>0, <1>3 DEF WriteReply
<1>4. ASSUME NEW c \in Conns, ReadError(c) PROVE OwnedBy(d, e)' \/ ReadError(e)
  BY <1>0, <1>4 DEF ReadError, connVars
<1>5. ASSUME NEW c \in Conns, MarkOffline(c) PROVE OwnedBy(d, e)'
  BY <1>0, <1>5 DEF MarkOffline, connVars
<1>6. ASSUME NEW c \in Conns, CommandFails(c) PROVE OwnedBy(d, e)'
  BY <1>0, <1>6 DEF CommandFails, connVars
<1>7. ASSUME UNCHANGED <<owner, sessVars>> PROVE OwnedBy(d, e)'
  BY <1>7 DEF sessVars
<1>8. ASSUME NEW c \in Conns, SessionStep(c) PROVE OwnedBy(d, e)' \/ ReadError(e)
  BY <1>2, <1>3, <1>4, <1>5, <1>6, <1>7, <1>8 DEF SessionStep, Heartbeat, connVars
<1>9. ASSUME NEW c \in Conns, ReceiveLogin(c) \/ HandlerFails(c) \/ SeeClosed(c) \/ NetDies(c)
      PROVE  OwnedBy(d, e)'
  BY <1>7, <1>9 DEF ReceiveLogin, HandlerFails, SeeClosed, NetDies
<1>10. ASSUME NEW f \in Devices,
              ConsumeHeartbeat(f) \/ Age(f) \/ Sweep(f) \/ Edit(f) \/ CacheExpires(f)
       PROVE  OwnedBy(d, e)'
  BY <1>7, <1>10 DEF ConsumeHeartbeat, Age, Sweep, Edit, CacheExpires, connVars
<1> QED  BY <1>1, <1>7, <1>8, <1>9, <1>10 DEF Next, vars, connVars

LEMMA NextOwned == ASSUME IInv, [Next]_vars PROVE EntryOwned'
<1>0. TypeOK /\ MapType  BY Parts DEF IInv
<1> SUFFICES ASSUME NEW d \in Devices, active'[d] # None
             PROVE  OwnedBy(d, active[d].conn)'
  BY DEF EntryOwned, OwnedBy
<1>1. CASE active'[d] = active[d]
  <2>1. active[d].conn \in Conns  BY <1>0, <1>1 DEF MapType, Entry
  <2>2. OwnedBy(d, active[d].conn)  BY <1>1, OwnedAll DEF IInv
  <2>3. ~ReadError(active[d].conn)
    <3> SUFFICES ASSUME ReadError(active[d].conn) PROVE FALSE  OBVIOUS
    <3>1. active'[d] = None  BY <2>2 DEF ReadError, Forget, OwnedBy
    <3> QED  BY <3>1
  <2>4. \A e \in Conns : e = active[d].conn => OwnedBy(d, e)'
    BY <1>0, <1>1, <2>2, <2>3, StaysOwned
  <2> QED  BY <1>1, <2>1, <2>4 DEF OwnedBy
<1>2. CASE active'[d] # active[d]
  <2>1. PICK c \in Conns : Added(c)
    BY <1>0, <1>2, MapSteps DEF ReadError, Forget
  <2>2. PICK a \in BOOLEAN : active' = [active EXCEPT ![owner[c]] = [conn |-> c, authed |-> a]]
    BY <2>1 DEF Added
  <2>3. d = owner[c] /\ active'[d].conn = c  BY <1>0, <1>2, <2>2 DEF MapType
  <2>4. /\ srv' = [srv EXCEPT ![c] = "reply"] /\ sid' = [sid EXCEPT ![c] = owner[c]]
        /\ owner' = owner
    BY <2>1 DEF Added, Login, connVars
  <2>5. srv'[c] = "reply" /\ sid'[c] = d /\ owner'[c] = d
    BY <1>0, <2>3, <2>4 DEF TypeOK
  <2> QED  BY <2>3, <2>5 DEF OwnedBy
<1> QED  BY <1>1, <1>2

-----------------------------------------------------------------------------
\* The invariant holds of every behaviour.
THEOREM Invariance == Spec => []IInv
<1>1. Init => IInv  BY InitType, InitOwned DEF IInv
<1>2. IInv /\ [Next]_vars => IInv'  BY NextType, NextOwned DEF IInv
<1> QED  BY <1>1, <1>2, PTL DEF Spec

\* Every variable keeps its type, for any number of devices and connections.
THEOREM TypeCorrect == Spec => []TypeOK
<1>1. IInv => TypeOK  BY DEF IInv
<1> QED  BY <1>1, Invariance, PTL

\* handle_connections.rs:285-290, 634: a session that loses its connection leaves
\* no entry behind; an entry without a session is one whose session returned Err.
THEOREM EntriesOwned == Spec => []EntryOwned
<1>1. IInv => EntryOwned  BY DEF IInv
<1> QED  BY <1>1, Invariance, PTL

\* handle_connections.rs:583-586: no login replaces the connection of a registered
\* device; the entry is removed first.
THEOREM NoLoginTakesOver == Spec => NoTakeover
<1>1. ASSUME IInv, [Next]_vars, NEW d \in Devices, active[d] # None
      PROVE  active'[d] \in {active[d], None}
  <2>1. TypeOK /\ MapType  BY <1>1, Parts DEF IInv
  <2>2. ASSUME NEW c \in Conns, Added(c) PROVE active'[d] = active[d]
    BY <1>1, <2>1, <2>2 DEF Added, MapType
  <2>3. ASSUME NEW c \in Conns, ReadError(c) PROVE active'[d] \in {active[d], None}
    BY <2>3 DEF ReadError, Forget
  <2> QED  BY <1>1, <2>1, <2>2, <2>3, MapSteps
<1>2. IInv /\ [Next]_vars =>
        [\A d \in Devices : active[d] # None => active'[d] \in {active[d], None}]_vars
  BY <1>1
<1> QED  BY <1>2, Invariance, PTL DEF Spec, NoTakeover
=============================================================================
