------------------------------ MODULE P2PSession ------------------------------
(***************************************************************************)
(* One peer-to-peer inference: an SDK client asks the server for a          *)
(* connection to a device, learns the device's addresses, and sends one     *)
(* request over UDP; the device answers with a stream of chunks.            *)
(*                                                                          *)
(* Both sides send a message with the same stop-and-wait loop: every        *)
(* fragment is sent, up to MaxTries times, until an ACK with the message's  *)
(* id arrives.  A side that is sending does not serve: what it receives     *)
(* that is not its ACK is dropped on the direct leg, and on the TURN leg    *)
(* kept in an inbox for later.                                              *)
(*                                                                          *)
(* net is the set of the packets sent so far.  Any of them may arrive, at   *)
(* any time and any number of times, or never, so loss, duplication,        *)
(* reordering and the two fates of a packet that a sender receives are all  *)
(* choices of what the network delivers next.                               *)
(***************************************************************************)
EXTENDS Naturals, Sequences, FiniteSets

CONSTANTS
    MaxTries,       \* sends of one fragment before it fails (10 in the code)
    MaxDeltas,      \* bound: chunks of text in one answer
    ReqFrags        \* fragments of the inference request

ASSUME P2PAssumption == /\ MaxTries \in Nat \ {0}
                        /\ MaxDeltas \in Nat
                        /\ ReqFrags \in Nat \ {0}

VARIABLES
    collects,   \* the client waits for all candidate messages, not just one
    ctl,        \* signalling messages on their way to the client
    dcfg,       \* the device's P2PConnectionConfig handler: where it is
    cands,      \* candidates the client has read
    clientPc, leg,   \* where the client is, and the path it uses
    cid,        \* the client's next_msg_id
    csend,      \* the client's send loop: fragment and tries
    got,        \* per leg, ids of the device's messages the client processed
    dpc,        \* per leg, the device's serving loop
    dsend,      \* per leg, the message the device is sending
    dnext,      \* per leg, the device's next_msg_id
    din,        \* per leg, fragments being reassembled, as <<id, frag>>
    completed,  \* per leg, ids of reassembled messages
    runs,       \* per leg, inferences the device has started
    gave,       \* per leg, ids whose send the device gave up
    net         \* packets that may arrive

clientVars == <<collects, cands, clientPc, leg, cid, csend, got>>
deviceVars == <<dcfg, dpc, dsend, dnext, din, completed, runs, gave>>
p2pVars == <<clientVars, deviceVars, ctl, net>>

Legs == {"direct", "relay"}

\* A packet of either direction; an ACK names the message and no fragment.
Data(l, to, body, id, frag) ==
    [leg |-> l, to |-> to, body |-> body, id |-> id, frag |-> frag]
Ack(l, to, id) == Data(l, to, "ack", id, 0)

\* frag_cnt: only the request is longer than one packet.
FragCnt(body) == IF body = "request" THEN ReqFrags ELSE 1

NotSending == [body |-> "none", id |-> 0, tries |-> 0, then |-> "idle"]

\* A client whose login fails has already returned its error.
P2PInit ==
    /\ collects \in BOOLEAN
    /\ ctl = <<>> /\ dcfg = "none" /\ cands = {}
    /\ clientPc \in {"login", "failed"} /\ leg = "direct" /\ cid = 1
    /\ csend = [frag |-> 0, tries |-> 0]
    /\ got = [l \in Legs |-> {}]
    /\ dpc = [l \in Legs |-> "off"]
    /\ dsend = [l \in Legs |-> NotSending]
    /\ dnext = [l \in Legs |-> 1]
    /\ din = [l \in Legs |-> {}]
    /\ completed = [l \in Legs |-> {}]
    /\ runs = [l \in Legs |-> 0]
    /\ gave = [l \in Legs |-> {}]
    /\ net = {}

-------------------------------------------------------------------------------
(* Signalling: server, device's config handler, client's candidate loop.   *)

\* The server forwards a candidate message to the client's connection.
ToClient(m) == ctl' = Append(ctl, m)

\* The client logs in and requests; the server writes a config to both ends.
ConnectionRequest ==
    /\ clientPc = "login"
    /\ clientPc' = "candidates"
    /\ ctl' = Append(ctl, "config")
    /\ dcfg' = "config"
    /\ UNCHANGED <<collects, cands, leg, cid, csend, got, dpc, dsend, dnext,
                   din, completed, runs, gave, net>>

\* The device binds its socket, starts serving on it, and spawns the TURN task.
ConnectionConfig ==
    /\ dcfg = "config"
    /\ dcfg' = "host"
    /\ dpc' = [direct |-> "idle", relay |-> "allocating"]
    /\ UNCHANGED <<clientVars, ctl, dsend, dnext, din, completed, runs, gave, net>>

\* The handler's last step: host (and server-reflexive) candidates.
SendHostCandidates ==
    /\ dcfg = "host"
    /\ dcfg' = "done"
    /\ ToClient("host")
    /\ UNCHANGED <<clientVars, dpc, dsend, dnext, din, completed, runs, gave, net>>

\* turn_allocate_udp in the spawned task: the relay candidate goes out in a
\* message of its own, whenever the TURN server answers, or never.
RelayAllocate ==
    /\ dpc["relay"] = "allocating"
    /\ \/ /\ dpc' = [dpc EXCEPT !["relay"] = "idle"]
          /\ ToClient("relay")
       \/ /\ dpc' = [dpc EXCEPT !["relay"] = "off"]
          /\ ctl' = ctl
    /\ UNCHANGED <<clientVars, dcfg, dsend, dnext, din, completed, runs, gave, net>>

\* The client's read loop takes the next signalling message.
ReadSignal ==
    /\ clientPc = "candidates" /\ ctl # <<>>
    /\ ctl' = Tail(ctl)
    /\ cands' = IF Head(ctl) = "config" THEN cands ELSE cands \cup {Head(ctl)}
    /\ clientPc' = IF collects \/ Head(ctl) = "config" THEN clientPc ELSE "pick"
    /\ UNCHANGED <<collects, leg, cid, csend, got, deviceVars, net>>

\* A client that collects stops reading once it has an address to try.
StopCollecting ==
    /\ clientPc = "candidates" /\ collects /\ "host" \in cands
    /\ clientPc' = "pick"
    /\ UNCHANGED <<collects, cands, leg, cid, csend, got, deviceVars, ctl, net>>

-------------------------------------------------------------------------------
(* The client.                                                              *)

\* The client's packet under way.
CPacket(l, body, frag) == Data(l, "device", body, cid, frag)

\* p2p_udp_send_reliable begins: the first fragment is sent once.
BeginSend(l, body) ==
    /\ csend' = [frag |-> 0, tries |-> 1]
    /\ net' = net \cup {Data(l, "device", body, cid', 0)}

\* Choose the direct address, and greet the device with an empty message.
PickDirect ==
    /\ clientPc = "pick"
    /\ IF "host" \in cands
       THEN /\ clientPc' = "hello" /\ cid' = cid
            /\ BeginSend("direct", "hello")
       ELSE clientPc' = "failed" /\ UNCHANGED <<cid, csend, net>>
    /\ UNCHANGED <<collects, cands, leg, got, deviceVars, ctl>>

\* The ACK of the fragment under way (it names the message only): the next
\* fragment, or the end of the message.
ClientAcked ==
    /\ clientPc \in {"hello", "request"}
    /\ Ack(leg, "client", cid) \in net
    /\ IF csend.frag + 1 < FragCnt(clientPc)
       THEN /\ csend' = [frag |-> csend.frag + 1, tries |-> 1]
            /\ net' = net \cup {CPacket(leg, clientPc, csend.frag + 1)}
            /\ UNCHANGED <<clientPc, cid>>
       ELSE /\ cid' = cid + 1
            /\ IF clientPc = "hello"
               THEN clientPc' = "request" /\ BeginSend(leg, "request")
               ELSE clientPc' = "answers" /\ UNCHANGED <<csend, net>>
    /\ UNCHANGED <<collects, cands, leg, got, deviceVars, ctl>>

\* 400 ms pass, or the client receives something else: send again, or fail.
ClientRetry(l) ==
    /\ clientPc \in {"hello", "request"} /\ leg = l
    /\ IF csend.tries < MaxTries
       THEN /\ csend' = [csend EXCEPT !.tries = @ + 1]
            /\ net' = net \cup {CPacket(leg, clientPc, csend.frag)}
            /\ clientPc' = clientPc
       ELSE /\ clientPc' = IF leg = "direct" THEN "fallback" ELSE "failed"
            /\ UNCHANGED <<csend, net>>
    /\ UNCHANGED <<collects, cands, leg, cid, got, deviceVars, ctl>>

\* p2p_udp_send_reliable, and its twin that sends TURN indications.
ClientDirectRetry == ClientRetry("direct")
ClientRelayRetry  == ClientRetry("relay")

\* A message of the device reaches the answer loop: acknowledged at once, then
\* processed.  A message that arrives twice is processed twice.
Answer(l) ==
    /\ clientPc = "answers" /\ leg = l
    /\ \E p \in net :
        /\ p.leg = l /\ p.to = "client" /\ p.body # "ack"
        /\ net' = net \cup {Ack(l, "device", p.id)}
        /\ got' = [got EXCEPT ![l] = @ \cup {p.id}]
        /\ clientPc' = CASE p.body = "done"  -> "done"
                    [] p.body = "error" -> IF l = "direct" THEN "fallback"
                                           ELSE "failed"
                    [] OTHER            -> "answers"
    /\ UNCHANGED <<collects, cands, leg, cid, csend, deviceVars, ctl>>
DirectAnswer == Answer("direct")
RelayAnswer  == Answer("relay")

\* 15 s without a packet.
AnswerTimeout ==
    /\ clientPc = "answers"
    /\ clientPc' = IF leg = "direct" THEN "fallback" ELSE "failed"
    /\ UNCHANGED <<collects, cands, leg, cid, csend, got, deviceVars, ctl, net>>

\* Direct UDP failed: go on over TURN, when the device's relay is known.
Fallback ==
    /\ clientPc = "fallback"
    /\ IF "relay" \in cands THEN clientPc' = "allocate" /\ leg' = "relay"
                            ELSE clientPc' = "failed" /\ leg' = leg
    /\ UNCHANGED <<collects, cands, cid, csend, got, deviceVars, ctl, net>>

\* Allocate a relay of its own and a permission, then start again at the hello.
ClientAllocate ==
    /\ clientPc = "allocate"
    /\ \/ clientPc' = "hello" /\ cid' = cid /\ BeginSend("relay", "hello")
       \/ clientPc' = "failed" /\ UNCHANGED <<cid, csend, net>>
    /\ UNCHANGED <<collects, cands, leg, got, deviceVars, ctl>>

-------------------------------------------------------------------------------
(* The device: one serving loop per leg.                                    *)

\* The device starts sending message dnext[l]; afterwards it goes to then.
SendMsg(l, body, then) ==
    /\ dpc' = [dpc EXCEPT ![l] = "send"]
    /\ dsend' = [dsend EXCEPT ![l] = [body |-> body, id |-> dnext[l],
                                      tries |-> 1, then |-> then]]
    /\ dnext' = [dnext EXCEPT ![l] = @ + 1]

\* The packet SendMsg puts on the wire.
FirstSend(l, body) == Data(l, "client", body, dnext[l], 0)

\* A fragment of a message that is not complete yet is stored; the last one
\* completes the message.
Parts(l, p) == din[l] \cup {<<p.id, p.frag>>}
Complete(l, p) ==
    \A f \in 0 .. FragCnt(p.body) - 1 : <<p.id, f>> \in Parts(l, p)

\* Variant: completed messages are not looked up.
AlwaysFresh(l, p) == TRUE

\* The message has not been reassembled in the last 300 s.
Fresh(l, p) == p.id \notin completed[l]

\* accept_fragment, and the ACK that every accepted fragment gets.  A fragment
\* of a completed message is acknowledged again and otherwise ignored.
AcceptFragment(l, p) ==
    IF ~Fresh(l, p)
    THEN UNCHANGED <<din, completed>>
    ELSE IF Complete(l, p)
    THEN /\ completed' = [completed EXCEPT ![l] = @ \cup {p.id}]
         /\ din' = [din EXCEPT ![l] = {x \in @ : x[1] # p.id}]
    ELSE /\ din' = [din EXCEPT ![l] = Parts(l, p)]
         /\ completed' = completed

\* The message p completes is the request: the hello fails to decode.
IsRequest(l, p) == Fresh(l, p) /\ Complete(l, p) /\ p.body = "request"

\* A request opens the token stream, or is answered by one error chunk when
\* there is no engine to stream from; ack goes out before either.
Open(l, ack) ==
    \/ /\ dpc' = [dpc EXCEPT ![l] = "stream"]
       /\ net' = net \cup {ack}
       /\ UNCHANGED <<dsend, dnext>>
    \/ /\ SendMsg(l, "error", "idle")
       /\ net' = net \cup {ack, FirstSend(l, "error")}

\* A data packet reaches an idle loop.
Receive(l) ==
    /\ dpc[l] = "idle"
    /\ \E p \in net :
        /\ p.leg = l /\ p.to = "device" /\ p.body # "ack"
        /\ AcceptFragment(l, p)
        /\ \/ /\ ~IsRequest(l, p)
              /\ net' = net \cup {Ack(l, "client", p.id)}
              /\ UNCHANGED <<dpc, dsend, dnext, runs>>
           \/ /\ IsRequest(l, p)
              /\ runs' = [runs EXCEPT ![l] = @ + 1]
              /\ Open(l, Ack(l, "client", p.id))
    /\ UNCHANGED <<clientVars, dcfg, gave, ctl>>

\* The loop on the device's own socket, and the loop on its TURN allocation.
DirectReceive == Receive("direct")
RelayReceive  == Receive("relay")

\* The token stream of leg l yields a piece, fails, or ends.
Piece(l) ==
    /\ dpc[l] = "stream"
    /\ \/ /\ dnext[l] <= MaxDeltas
          /\ SendMsg(l, "delta", "stream") /\ net' = net \cup {FirstSend(l, "delta")}
       \/ SendMsg(l, "error", "done") /\ net' = net \cup {FirstSend(l, "error")}
       \/ SendMsg(l, "done", "idle")  /\ net' = net \cup {FirstSend(l, "done")}
    /\ UNCHANGED <<clientVars, dcfg, din, completed, runs, gave, ctl>>
DirectPiece == Piece("direct")
RelayPiece  == Piece("relay")

\* After a send, whatever its result: the next step of the loop.  A failed
\* stream still ends with a done message.
AfterSend(l) ==
    IF dsend[l].then = "done"
    THEN /\ SendMsg(l, "done", "idle")
         /\ net' = net \cup {FirstSend(l, "done")}
    ELSE /\ dpc' = [dpc EXCEPT ![l] = dsend[l].then]
         /\ dsend' = [dsend EXCEPT ![l] = NotSending]
         /\ UNCHANGED <<dnext, net>>

\* Variant: any ACK of the peer ends the send (no ack_id == msg_id).
AckedByAny(l) ==
    /\ dpc[l] = "send"
    /\ \E p \in net : p.leg = l /\ p.to = "device" /\ p.body = "ack"
    /\ AfterSend(l)
    /\ UNCHANGED <<clientVars, dcfg, din, completed, runs, gave, ctl>>

\* The ACK of the message being sent.
DeviceAcked(l) ==
    /\ dpc[l] = "send"
    /\ Ack(l, "device", dsend[l].id) \in net
    /\ AfterSend(l)
    /\ UNCHANGED <<clientVars, dcfg, din, completed, runs, gave, ctl>>

\* Variant: a device that never gives up.
RetryForever(l) ==
    /\ dpc[l] = "send"
    /\ net' = net \cup {Data(l, "client", dsend[l].body, dsend[l].id, 0)}
    /\ UNCHANGED <<clientVars, deviceVars, ctl>>

\* 400 ms, or another packet: send again; after MaxTries the error is ignored.
DeviceRetry(l) ==
    /\ dpc[l] = "send"
    /\ IF dsend[l].tries < MaxTries
       THEN /\ dsend' = [dsend EXCEPT ![l].tries = @ + 1]
            /\ net' = net \cup {Data(l, "client", dsend[l].body, dsend[l].id, 0)}
            /\ UNCHANGED <<dpc, dnext, gave>>
       ELSE /\ gave' = [gave EXCEPT ![l] = @ \cup {dsend[l].id}]
            /\ AfterSend(l)
    /\ UNCHANGED <<clientVars, dcfg, din, completed, runs, ctl>>
DirectRetry == DeviceRetry("direct")
RelayRetry  == DeviceRetry("relay")

\* Reassembly entries live 30 s.
PruneInflight(l) ==
    /\ din[l] # {}
    /\ \E p \in din[l] : din' = [din EXCEPT ![l] = {x \in @ : x[1] # p[1]}]
    /\ UNCHANGED <<clientVars, dcfg, dpc, dsend, dnext, completed, runs, gave, ctl, net>>

\* The packets of message id that p2p_udp_validate_fragment refuses 300 s later.
TooOld(l, id) ==
    {p \in net : p.leg = l /\ p.to = "device" /\ p.body # "ack" /\ p.id = id}

\* Completed ids are forgotten after 300 s, the age at which validation
\* refuses a packet: those of the message are too old by then.  (A client
\* sends one fragment for at most ten times 400 ms.)
PruneCompleted(l) ==
    /\ \E id \in completed[l] :
        /\ ~(clientPc \in {"hello", "request"} /\ leg = l /\ cid = id)
        /\ completed' = [completed EXCEPT ![l] = @ \ {id}]
        /\ net' = net \ TooOld(l, id)
    /\ UNCHANGED <<clientVars, dcfg, dpc, dsend, dnext, din, runs, gave, ctl>>

-------------------------------------------------------------------------------
Signalling == \/ ConnectionRequest \/ ConnectionConfig \/ SendHostCandidates
              \/ RelayAllocate \/ ReadSignal \/ StopCollecting
Client == \/ PickDirect \/ ClientAcked \/ ClientDirectRetry \/ ClientRelayRetry
          \/ DirectAnswer \/ RelayAnswer \/ AnswerTimeout
          \/ Fallback \/ ClientAllocate
Device == \/ DirectReceive \/ RelayReceive \/ DirectPiece \/ RelayPiece
          \/ DirectRetry \/ RelayRetry
          \/ \E l \in Legs : DeviceAcked(l) \/ PruneInflight(l) \/ PruneCompleted(l)
P2PNext == Signalling \/ Client \/ Device

P2PSpec == P2PInit /\ [][P2PNext]_p2pVars

\* Timers fire, the engine yields its next piece, the runtime polls every task,
\* and control messages arrive (TCP).  Nothing is assumed of the network.
P2PFairness ==
    /\ WF_p2pVars(Signalling)
    /\ WF_p2pVars(\/ PickDirect \/ ClientDirectRetry \/ ClientRelayRetry
                  \/ AnswerTimeout \/ Fallback \/ ClientAllocate)
    /\ WF_p2pVars(DirectPiece \/ DirectRetry) /\ WF_p2pVars(RelayPiece \/ RelayRetry)
P2PFairSpec == P2PSpec /\ P2PFairness

-------------------------------------------------------------------------------
(* Properties.                                                              *)

ClientPCs == {"login", "candidates", "pick", "hello", "request", "answers", "fallback",
              "allocate", "done", "failed"}
DevicePCs == {"off", "allocating", "idle", "stream", "send"}
Bodies == {"hello", "request", "delta", "error", "done"}
Packets == [leg : Legs, to : {"client", "device"}, body : Bodies \cup {"ack"},
            id : Nat, frag : Nat]
Sends == [body : Bodies \cup {"none"}, id : Nat, tries : 0 .. MaxTries,
          then : {"idle", "stream", "done"}]

\* Type invariant: where each loop can be, and what a packet can carry.
P2PTypeOK ==
    /\ collects \in BOOLEAN /\ ctl \in Seq({"config", "host", "relay"})
    /\ dcfg \in {"none", "config", "host", "done"} /\ cands \subseteq {"host", "relay"}
    /\ clientPc \in ClientPCs /\ leg \in Legs /\ cid \in Nat
    /\ csend \in [frag : Nat, tries : 0 .. MaxTries]
    /\ got \in [Legs -> SUBSET Nat] /\ gave \in [Legs -> SUBSET Nat]
    /\ dpc \in [Legs -> DevicePCs] /\ dsend \in [Legs -> Sends] /\ dnext \in [Legs -> Nat]
    /\ \A l \in Legs : dpc[l] = "send" => dsend[l].body \in Bodies
    /\ din \in [Legs -> SUBSET (Nat \X Nat)] /\ completed \in [Legs -> SUBSET Nat]
    /\ runs \in [Legs -> Nat] /\ net \subseteq Packets

\* A device runs the request at most once per leg, however often the client
\* repeats it and however late a copy arrives: accept_fragment drops what it
\* has completed, and forgets it only when its packets are too old to pass
\* p2p_udp_validate_fragment.
RunsOnce == \A l \in Legs : runs[l] <= 1

\* A chunk whose reliable send has returned Ok has been processed by the
\* client: an ACK names its message, and the client acknowledges no message
\* it does not process.  So a finished client misses only chunks whose send
\* failed MaxTries times.
AckedIsProcessed ==
    \A l \in Legs : \A id \in 1 .. dnext[l] - 1 :
        ~(dpc[l] = "send" /\ dsend[l].id = id) => id \in got[l] \cup gave[l]

\* Both ends come to rest, whatever the network does: a sender that gets no ACK
\* gives up, a client that gets no answer gives up, and the device's loops
\* return to reading.
SessionEnds ==
    <>[](/\ clientPc \in {"done", "failed"}
         /\ \A l \in Legs : dpc[l] \in {"off", "idle"})
===============================================================================
