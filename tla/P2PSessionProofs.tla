-------------------------- MODULE P2PSessionProofs --------------------------
(* Theorems about P2PSession: whatever the network loses, repeats, delays or *)
(* reorders, for every number of retries, chunks and fragments.              *)
EXTENDS P2PSession, TLAPS

\* Packets of the client's request on leg l.
Requests(l) == {p \in net : p.leg = l /\ p.to = "device" /\ p.body = "request"}

\* The client has not come to its request on leg l.
NotYet(l) ==
    \/ l = "relay" /\ leg = "direct"
    \/ l = leg /\ clientPc \in {"login", "candidates", "pick", "hello", "allocate"}

Requesting(l) == clientPc = "request" /\ leg = l

\* One request per leg, under one id.
OneRequest ==
    \A l \in Legs :
       /\ NotYet(l) => Requests(l) = {}
       /\ \A p, q \in Requests(l) : p.id = q.id
       /\ Requesting(l) => \A p \in Requests(l) : p.id = cid

\* A leg that has run the request recognises every copy that is left, and every copy
\* the client may still send.
Recognised ==
    \A l \in Legs :
       /\ runs[l] \in {0, 1}
       /\ runs[l] = 1 => /\ ~NotYet(l)
                         /\ \A p \in Requests(l) : p.id \in completed[l]
                         /\ Requesting(l) => cid \in completed[l]

\* The client begins on the direct leg and falls back from it once.
LegInv == clientPc \in {"login", "candidates", "pick", "fallback"} => leg = "direct"

\* An ACK of the client names a message it has processed.
AcksHonest == \A l \in Legs : \A p \in net :
    p.leg = l /\ p.to = "device" /\ p.body = "ack" => p.id \in got[l]

\* The message being sent is the newest one; there is none before the loops start.
Newest ==
    /\ \A l \in Legs : dpc[l] = "send" => dnext[l] = dsend[l].id + 1
    /\ dcfg \in {"none", "config"} => \A l \in Legs : dpc[l] = "off"

\* The client asks for one connection.
AskedOnce == clientPc = "login" => dcfg = "none"

IInv == /\ P2PTypeOK /\ LegInv /\ OneRequest /\ Recognised
        /\ AskedOnce /\ AcksHonest /\ Newest /\ AckedIsProcessed

-----------------------------------------------------------------------------
\* What Data and Ack build.
LEMMA PacketFields ==
    ASSUME NEW l \in Legs, NEW to \in {"client", "device"}, NEW b \in Bodies \cup {"ack"},
           NEW id \in Nat, NEW f \in Nat
    PROVE  /\ Data(l, to, b, id, f) \in Packets
           /\ Data(l, to, b, id, f).leg = l /\ Data(l, to, b, id, f).to = to
           /\ Data(l, to, b, id, f).body = b /\ Data(l, to, b, id, f).id = id
  BY DEF Data, Packets

LEMMA InitIInv == P2PInit => IInv
  <1> SUFFICES ASSUME P2PInit PROVE IInv  OBVIOUS
  <1>1. P2PTypeOK
        BY P2PAssumption DEF P2PInit, P2PTypeOK, ClientPCs, DevicePCs, Sends, NotSending, Legs
  <1>2. LegInv /\ OneRequest /\ Recognised /\ AcksHonest
        BY DEF P2PInit, LegInv, OneRequest, Recognised, AcksHonest, Requests
  <1>3. AskedOnce /\ Newest /\ AckedIsProcessed
        BY DEF P2PInit, AskedOnce, Newest, AckedIsProcessed
  <1> QED BY <1>1, <1>2, <1>3 DEF IInv
-----------------------------------------------------------------------------
(* Types.                                                                   *)

LEMMA SignallingType == ASSUME P2PTypeOK, Signalling PROVE P2PTypeOK'
  <1> USE DEF P2PTypeOK, clientVars, deviceVars
  <1>0. \A m \in {"config", "host", "relay"} : Append(ctl, m) \in Seq({"config", "host", "relay"})
        OBVIOUS
  <1>1. CASE ConnectionRequest  BY <1>0, <1>1 DEF ConnectionRequest, ClientPCs
  <1>2. CASE ConnectionConfig  BY <1>2 DEF ConnectionConfig, DevicePCs, Legs
  <1>3. CASE SendHostCandidates  BY <1>0, <1>3 DEF SendHostCandidates, ToClient
  <1>4. CASE RelayAllocate
    <2>1. PICK x \in {"idle", "off"} : dpc' = [dpc EXCEPT !["relay"] = x]  BY <1>4 DEF RelayAllocate
    <2>2. ctl' \in Seq({"config", "host", "relay"})  BY <1>0, <1>4 DEF RelayAllocate, ToClient
    <2>3. /\ dpc' \in [Legs -> DevicePCs]
          /\ \A l \in Legs : dpc'[l] = "send" => dpc[l] = "send"
          BY <2>1 DEF DevicePCs
    <2> QED BY <1>4, <2>2, <2>3 DEF RelayAllocate
  <1>5. CASE ReadSignal
    <2>1. Head(ctl) \in {"config", "host", "relay"} /\ Tail(ctl) \in Seq({"config", "host", "relay"})
          BY <1>5 DEF ReadSignal
    <2> QED BY <1>5, <2>1 DEF ReadSignal, ClientPCs
  <1>6. CASE StopCollecting  BY <1>6 DEF StopCollecting, ClientPCs
  <1> QED BY <1>1, <1>2, <1>3, <1>4, <1>5, <1>6 DEF Signalling

LEMMA ClientType == ASSUME P2PTypeOK, Client PROVE P2PTypeOK'
  <1> USE DEF P2PTypeOK, deviceVars
  <1>0. \A l \in Legs, b \in Bodies, id \in Nat, f \in Nat : Data(l, "device", b, id, f) \in Packets
        BY PacketFields
  <1>8. /\ [frag |-> 0, tries |-> 1] \in [frag : Nat, tries : 0 .. MaxTries]
        /\ \A l \in Legs : Data(l, "device", "hello", cid, 0) \in Packets
        BY <1>0, P2PAssumption DEF Bodies
  <1>1. CASE PickDirect
    <2>1. /\ clientPc' \in {"hello", "failed"} /\ cid' = cid
          /\ csend' \in {csend, [frag |-> 0, tries |-> 1]}
          /\ net' \in {net, net \cup {Data("direct", "device", "hello", cid, 0)}}
          /\ UNCHANGED <<collects, cands, leg, got, deviceVars, ctl>>
          BY <1>1 DEF PickDirect, BeginSend
    <2> QED BY <1>8, <2>1 DEF ClientPCs, Legs
  <1>2. CASE ClientAcked
    <2>1. clientPc \in Bodies /\ csend.frag + 1 \in Nat /\ 1 \in 0 .. MaxTries
          BY <1>2, P2PAssumption DEF ClientAcked, Bodies
    <2>2. CASE csend.frag + 1 < FragCnt(clientPc)
          BY <1>0, <1>2, <2>1, <2>2 DEF ClientAcked, CPacket
    <2>3. CASE ~(csend.frag + 1 < FragCnt(clientPc))
          BY <1>0, <1>2, <2>1, <2>3 DEF ClientAcked, BeginSend, ClientPCs, Bodies
    <2> QED BY <2>2, <2>3
  <1>3. ASSUME NEW l \in Legs, ClientRetry(l) PROVE P2PTypeOK'
    <2>1. clientPc \in Bodies /\ csend.frag \in Nat  BY <1>3 DEF ClientRetry, Bodies
    <2>2. CASE csend.tries < MaxTries
      <3>1. csend' \in [frag : Nat, tries : 0 .. MaxTries]
            BY <1>3, <2>2, P2PAssumption DEF ClientRetry
      <3>2. net' \subseteq Packets  BY <1>0, <1>3, <2>1, <2>2 DEF ClientRetry, CPacket
      <3> QED BY <1>3, <2>2, <3>1, <3>2 DEF ClientRetry
    <2>3. CASE ~(csend.tries < MaxTries)  BY <1>3, <2>3 DEF ClientRetry, ClientPCs
    <2> QED BY <2>2, <2>3
  <1>4. ASSUME NEW l \in Legs, Answer(l) PROVE P2PTypeOK'
    <2>1. PICK p \in net : /\ net' = net \cup {Ack(l, "device", p.id)}
                           /\ got' = [got EXCEPT ![l] = @ \cup {p.id}]
                           /\ clientPc' \in {"done", "fallback", "failed", "answers"}
          BY <1>4 DEF Answer
    <2>2. p.id \in Nat  BY <2>1 DEF Packets
    <2>3. Ack(l, "device", p.id) \in Packets  BY <2>2, PacketFields DEF Ack
    <2>4. got' \in [Legs -> SUBSET Nat]  BY <2>1, <2>2
    <2> QED BY <1>4, <2>1, <2>3, <2>4 DEF Answer, ClientPCs
  <1>5. CASE AnswerTimeout  BY <1>5 DEF AnswerTimeout, ClientPCs
  <1>6. CASE Fallback  BY <1>6 DEF Fallback, ClientPCs, Legs
  <1>7. CASE ClientAllocate
    <2>1. /\ clientPc' \in {"hello", "failed"} /\ cid' = cid
          /\ csend' \in {csend, [frag |-> 0, tries |-> 1]}
          /\ net' \in {net, net \cup {Data("relay", "device", "hello", cid, 0)}}
          /\ UNCHANGED <<collects, cands, leg, got, deviceVars, ctl>>
          BY <1>7 DEF ClientAllocate, BeginSend
    <2> QED BY <1>8, <2>1 DEF ClientPCs, Legs
  <1> QED BY <1>1, <1>2, <1>3, <1>4, <1>5, <1>6, <1>7
          DEF Client, ClientDirectRetry, ClientRelayRetry, DirectAnswer, RelayAnswer, Legs

\* The start of a device's message and the end of its send.
LEMMA SendMsgType ==
    ASSUME P2PTypeOK, NEW l \in Legs, NEW b \in Bodies, NEW then \in {"idle", "stream", "done"},
           SendMsg(l, b, then)
    PROVE  /\ dpc' \in [Legs -> DevicePCs] /\ dsend' \in [Legs -> Sends] /\ dnext' \in [Legs -> Nat]
           /\ FirstSend(l, b) \in Packets
           /\ FirstSend(l, b).leg = l /\ FirstSend(l, b).to = "client"
           /\ dpc' = [dpc EXCEPT ![l] = "send"] /\ dnext' = [dnext EXCEPT ![l] = @ + 1]
           /\ \A k \in Legs : k # l => dsend'[k] = dsend[k]
           /\ dsend'[l].id = dnext[l] /\ dsend'[l].body = b
  <1>1. dnext[l] \in Nat /\ 1 \in 0 .. MaxTries  BY P2PAssumption DEF P2PTypeOK
  <1>2. PICK m \in Sends : m.id = dnext[l] /\ m.body = b /\ dsend' = [dsend EXCEPT ![l] = m]
    <2> DEFINE m == [body |-> b, id |-> dnext[l], tries |-> 1, then |-> then]
    <2>1. m \in Sends /\ m.id = dnext[l] /\ m.body = b  BY <1>1 DEF Sends
    <2>2. dsend' = [dsend EXCEPT ![l] = m]  BY DEF SendMsg
    <2> HIDE DEF m
    <2> QED BY <2>1, <2>2
  <1>3. /\ FirstSend(l, b) \in Packets
        /\ FirstSend(l, b).leg = l /\ FirstSend(l, b).to = "client"
        BY <1>1, PacketFields DEF FirstSend
  <1>4. /\ dpc' \in [Legs -> DevicePCs] /\ dnext' \in [Legs -> Nat]
        /\ dpc' = [dpc EXCEPT ![l] = "send"] /\ dnext' = [dnext EXCEPT ![l] = @ + 1]
        BY <1>1 DEF SendMsg, P2PTypeOK, DevicePCs
  <1>5. /\ dsend' \in [Legs -> Sends] /\ \A k \in Legs : k # l => dsend'[k] = dsend[k]
        /\ dsend'[l].id = dnext[l] /\ dsend'[l].body = b
        BY <1>2 DEF P2PTypeOK
  <1> QED BY <1>3, <1>4, <1>5

\* A loop whose send is over reads again, goes on with the stream, or ends it.
LEMMA AfterSendEffect ==
    ASSUME P2PTypeOK, NEW l \in Legs, AfterSend(l)
    PROVE  \/ SendMsg(l, "done", "idle") /\ net' = net \cup {FirstSend(l, "done")}
           \/ /\ \E x \in {"idle", "stream"} : dpc' = [dpc EXCEPT ![l] = x]
              /\ dsend' = [dsend EXCEPT ![l] = NotSending] /\ dsend' \in [Legs -> Sends]
              /\ UNCHANGED <<dnext, net>>
  <1>1. dsend[l].then \in {"idle", "stream", "done"}  BY DEF P2PTypeOK, Sends
  <1>2. NotSending \in Sends  BY P2PAssumption DEF NotSending, Sends
  <1>3. CASE dsend[l].then = "done"  BY <1>3 DEF AfterSend
  <1>4. CASE dsend[l].then # "done"
    <2>1. /\ dpc' = [dpc EXCEPT ![l] = dsend[l].then]
          /\ dsend' = [dsend EXCEPT ![l] = NotSending] /\ UNCHANGED <<dnext, net>>
          BY <1>4 DEF AfterSend
    <2>2. dsend' \in [Legs -> Sends]  BY <1>2, <2>1 DEF P2PTypeOK
    <2>3. PICK x \in {"idle", "stream"} : x = dsend[l].then  BY <1>1, <1>4
    <2> QED BY <2>1, <2>2, <2>3
  <1> QED BY <1>3, <1>4

\* What a step of the device's loop on leg l does: it begins a message, or leaves its
\* send or its reading, or stays; the packets it adds go to the client.
Begins(l) == /\ dpc' = [dpc EXCEPT ![l] = "send"] /\ dnext' = [dnext EXCEPT ![l] = @ + 1]
             /\ dsend'[l].id = dnext[l] /\ \A k \in Legs : k # l => dsend'[k] = dsend[k]
Leaves(l) == /\ \E x \in {"idle", "stream"} : dpc' = [dpc EXCEPT ![l] = x]
             /\ dnext' = dnext /\ \A k \in Legs : k # l => dsend'[k] = dsend[k]
Stays == dpc' = dpc /\ dnext' = dnext /\ \A k \in Legs : dsend'[k].id = dsend[k].id
ToClientOnly(l) == net \subseteq net' /\ \A p \in net' \ net : p \in Packets /\ p.leg = l /\ p.to = "client"
SendVarsOK == /\ dpc' \in [Legs -> DevicePCs] /\ dsend' \in [Legs -> Sends] /\ dnext' \in [Legs -> Nat]
              /\ \A k \in Legs : dpc'[k] = "send" => dsend'[k].body \in Bodies

LEMMA SendMsgBegins ==
    ASSUME P2PTypeOK, NEW l \in Legs, NEW b \in Bodies, NEW then \in {"idle", "stream", "done"},
           SendMsg(l, b, then), net \subseteq net',
           \A p \in net' \ net :
              p = FirstSend(l, b) \/ (p \in Packets /\ p.leg = l /\ p.to = "client")
    PROVE  Begins(l) /\ ToClientOnly(l) /\ SendVarsOK
  <1>1. /\ dpc' \in [Legs -> DevicePCs] /\ dsend' \in [Legs -> Sends] /\ dnext' \in [Legs -> Nat]
        /\ dpc' = [dpc EXCEPT ![l] = "send"] /\ dnext' = [dnext EXCEPT ![l] = @ + 1]
        /\ \A k \in Legs : k # l => dsend'[k] = dsend[k]
        /\ dsend'[l].id = dnext[l] /\ dsend'[l].body = b
        BY SendMsgType
  <1>2. /\ FirstSend(l, b) \in Packets
        /\ FirstSend(l, b).leg = l /\ FirstSend(l, b).to = "client"
        BY SendMsgType
  <1>3. Begins(l)  BY <1>1 DEF Begins
  <1>4. ToClientOnly(l)  BY <1>2 DEF ToClientOnly
  <1>5. \A k \in Legs : dpc'[k] = "send" => dsend'[k].body \in Bodies  BY <1>1 DEF P2PTypeOK
  <1> QED BY <1>1, <1>3, <1>4, <1>5 DEF SendVarsOK

LEMMA AfterSendMoves ==
    ASSUME P2PTypeOK, NEW l \in Legs, AfterSend(l)
    PROVE  (Begins(l) \/ Leaves(l)) /\ ToClientOnly(l) /\ SendVarsOK
  <1>1. CASE SendMsg(l, "done", "idle") /\ net' = net \cup {FirstSend(l, "done")}
    <2>1. /\ net \subseteq net' /\ \A p \in net' \ net : p = FirstSend(l, "done")
          /\ "done" \in Bodies
          BY <1>1 DEF Bodies
    <2> QED BY <1>1, <2>1, SendMsgBegins
  <1>2. CASE /\ \E x \in {"idle", "stream"} : dpc' = [dpc EXCEPT ![l] = x]
             /\ dsend' = [dsend EXCEPT ![l] = NotSending] /\ dsend' \in [Legs -> Sends]
             /\ UNCHANGED <<dnext, net>>
        BY <1>2 DEF Leaves, ToClientOnly, SendVarsOK, P2PTypeOK, DevicePCs
  <1> QED BY <1>1, <1>2, AfterSendEffect

LEMMA PieceMoves ==
    ASSUME P2PTypeOK, NEW l \in Legs, Piece(l)
    PROVE  /\ Begins(l) /\ ToClientOnly(l) /\ SendVarsOK
           /\ UNCHANGED <<clientVars, dcfg, din, completed, runs, gave, ctl>>
  <1>1. \E b \in Bodies, th \in {"idle", "stream", "done"} :
           SendMsg(l, b, th) /\ net' = net \cup {FirstSend(l, b)}
        BY DEF Piece, Bodies
  <1>2. PICK b \in Bodies, th \in {"idle", "stream", "done"} :
           /\ SendMsg(l, b, th)
           /\ net \subseteq net' /\ \A p \in net' \ net : p = FirstSend(l, b)
        BY <1>1
  <1> QED BY <1>2, SendMsgBegins DEF Piece

LEMMA RetryMoves ==
    ASSUME P2PTypeOK, NEW l \in Legs, DeviceRetry(l)
    PROVE  /\ \/ Stays /\ gave' = gave
              \/ (Begins(l) \/ Leaves(l)) /\ gave' = [gave EXCEPT ![l] = @ \cup {dsend[l].id}]
           /\ ToClientOnly(l) /\ SendVarsOK
           /\ UNCHANGED <<clientVars, dcfg, din, completed, runs, ctl>>
  <1>0. dsend \in [Legs -> Sends] /\ dsend[l] \in Sends  BY DEF P2PTypeOK
  <1>1. CASE dsend[l].tries < MaxTries
    <2>1. /\ dsend' = [dsend EXCEPT ![l].tries = @ + 1]
          /\ net' = net \cup {Data(l, "client", dsend[l].body, dsend[l].id, 0)}
          /\ UNCHANGED <<dpc, dnext, gave>>
          BY <1>1 DEF DeviceRetry
    <2>2. dsend[l].tries + 1 \in 0 .. MaxTries  BY <1>0, <1>1, P2PAssumption DEF Sends
    <2>3. PICK m : m = [dsend[l] EXCEPT !.tries = @ + 1]  OBVIOUS
    <2>4. m \in Sends /\ m.id = dsend[l].id /\ m.body = dsend[l].body  BY <1>0, <2>2, <2>3 DEF Sends
    <2>5. dsend' = [dsend EXCEPT ![l] = m]  BY <1>0, <2>1, <2>3
    <2>6. /\ dsend' \in [Legs -> Sends]
          /\ \A k \in Legs : dsend'[k].id = dsend[k].id /\ dsend'[k].body = dsend[k].body
          BY <1>0, <2>4, <2>5
    <2>7. dsend[l].id \in Nat /\ dsend[l].body \in Bodies \cup {"none"}  BY <1>0 DEF Sends
    <2>8. dsend[l].body \in Bodies  BY DEF DeviceRetry, P2PTypeOK
    <2>9. PICK p : p = Data(l, "client", dsend[l].body, dsend[l].id, 0)  OBVIOUS
    <2>10. p \in Packets /\ p.leg = l /\ p.to = "client"  BY <2>7, <2>8, <2>9, PacketFields
    <2>11. Stays /\ SendVarsOK  BY <2>1, <2>6 DEF Stays, SendVarsOK, P2PTypeOK
    <2>12. ToClientOnly(l)  BY <2>1, <2>9, <2>10 DEF ToClientOnly
    <2> QED BY <2>1, <2>11, <2>12 DEF DeviceRetry
  <1>2. CASE ~(dsend[l].tries < MaxTries)  BY <1>2, AfterSendMoves DEF DeviceRetry
  <1> QED BY <1>1, <1>2


LEMMA ReceiveMoves ==
    ASSUME P2PTypeOK, NEW l \in Legs, Receive(l)
    PROVE  /\ \/ /\ Stays /\ runs' = runs
                 /\ \A k \in Legs : completed[k] \subseteq completed'[k]
              \/ /\ Begins(l) \/ Leaves(l)
                 /\ runs' = [runs EXCEPT ![l] = @ + 1]
                 /\ \E p \in Requests(l) :
                       /\ p.id \notin completed[l]
                       /\ completed' = [completed EXCEPT ![l] = @ \cup {p.id}]
           /\ ToClientOnly(l) /\ SendVarsOK
           /\ din' \in [Legs -> SUBSET (Nat \X Nat)] /\ completed' \in [Legs -> SUBSET Nat]
           /\ UNCHANGED <<clientVars, dcfg, gave, ctl>>
  <1>1. PICK p \in net :
           /\ p.leg = l /\ p.to = "device" /\ p.body # "ack"
           /\ AcceptFragment(l, p)
           /\ \/ /\ ~IsRequest(l, p)
                 /\ net' = net \cup {Ack(l, "client", p.id)}
                 /\ UNCHANGED <<dpc, dsend, dnext, runs>>
              \/ /\ IsRequest(l, p)
                 /\ runs' = [runs EXCEPT ![l] = @ + 1]
                 /\ Open(l, Ack(l, "client", p.id))
        BY DEF Receive
  <1>2. UNCHANGED <<clientVars, dcfg, gave, ctl>>  BY DEF Receive
  <1>3. p \in Packets /\ p.id \in Nat /\ p.frag \in Nat  BY <1>1 DEF P2PTypeOK, Packets
  <1>4. PICK a : a = Ack(l, "client", p.id)  OBVIOUS
  <1>5. a \in Packets /\ a.leg = l /\ a.to = "client"  BY <1>3, <1>4, PacketFields DEF Ack
  <1>6. /\ din' \in [Legs -> SUBSET (Nat \X Nat)]
        /\ completed' \in {completed, [completed EXCEPT ![l] = @ \cup {p.id}]}
        /\ IsRequest(l, p) => completed' = [completed EXCEPT ![l] = @ \cup {p.id}]
    <2>1. Parts(l, p) \in SUBSET (Nat \X Nat)  BY <1>3 DEF Parts, P2PTypeOK
    <2>2. {x \in din[l] : x[1] # p.id} \in SUBSET (Nat \X Nat)  BY DEF P2PTypeOK
    <2>3. \/ din' = din \/ din' = [din EXCEPT ![l] = {x \in din[l] : x[1] # p.id}]
          \/ din' = [din EXCEPT ![l] = Parts(l, p)]
          BY <1>1 DEF AcceptFragment
    <2>4. din' \in [Legs -> SUBSET (Nat \X Nat)]  BY <2>1, <2>2, <2>3 DEF P2PTypeOK
    <2>5. /\ completed' \in {completed, [completed EXCEPT ![l] = @ \cup {p.id}]}
          /\ IsRequest(l, p) => completed' = [completed EXCEPT ![l] = @ \cup {p.id}]
          BY <1>1 DEF AcceptFragment, IsRequest
    <2> QED BY <2>4, <2>5
  <1>7. completed' \in [Legs -> SUBSET Nat] /\ \A k \in Legs : completed[k] \subseteq completed'[k]
    <2>1. CASE completed' = completed  BY <2>1 DEF P2PTypeOK
    <2>2. CASE completed' = [completed EXCEPT ![l] = @ \cup {p.id}]
          BY <1>3, <2>2 DEF P2PTypeOK
    <2> QED BY <1>6, <2>1, <2>2
  <1>8. CASE ~IsRequest(l, p)
    <2>1. net' = net \cup {a} /\ UNCHANGED <<dpc, dsend, dnext, runs>>  BY <1>1, <1>4, <1>8
    <2>2. ToClientOnly(l)  BY <1>5, <2>1 DEF ToClientOnly
    <2>3. Stays /\ SendVarsOK  BY <2>1 DEF Stays, SendVarsOK, P2PTypeOK
    <2> QED BY <1>2, <1>6, <1>7, <2>1, <2>2, <2>3
  <1>9. CASE IsRequest(l, p)
    <2>1. runs' = [runs EXCEPT ![l] = @ + 1] /\ Open(l, a)  BY <1>1, <1>4, <1>9
    <2>2. p \in Requests(l) /\ p.id \notin completed[l]
          BY <1>1, <1>9 DEF Requests, IsRequest, Fresh
    <2>3. (Begins(l) \/ Leaves(l)) /\ ToClientOnly(l) /\ SendVarsOK
      <3>1. CASE /\ dpc' = [dpc EXCEPT ![l] = "stream"] /\ net' = net \cup {a}
                 /\ UNCHANGED <<dsend, dnext>>
        <4>1. Leaves(l)  BY <3>1 DEF Leaves
        <4>2. ToClientOnly(l)  BY <1>5, <3>1 DEF ToClientOnly
        <4>3. SendVarsOK  BY <3>1 DEF SendVarsOK, P2PTypeOK, DevicePCs
        <4> QED BY <4>1, <4>2, <4>3
      <3>2. CASE SendMsg(l, "error", "idle") /\ net' = net \cup {a, FirstSend(l, "error")}
        <4>1. /\ net \subseteq net' /\ "error" \in Bodies
              /\ \A q \in net' \ net :
                    q = FirstSend(l, "error") \/ (q \in Packets /\ q.leg = l /\ q.to = "client")
              BY <1>5, <3>2 DEF Bodies
        <4> QED BY <3>2, <4>1, SendMsgBegins
      <3> QED BY <2>1, <3>1, <3>2 DEF Open
    <2> QED BY <1>2, <1>6, <1>7, <1>9, <2>1, <2>2, <2>3
  <1> QED BY <1>8, <1>9

LEMMA AckedMoves ==
    ASSUME P2PTypeOK, NEW l \in Legs, DeviceAcked(l)
    PROVE  /\ Begins(l) \/ Leaves(l)
           /\ ToClientOnly(l) /\ SendVarsOK
           /\ UNCHANGED <<clientVars, dcfg, din, completed, runs, gave, ctl>>
  BY AfterSendMoves DEF DeviceAcked

LEMMA PruneType ==
    ASSUME P2PTypeOK, NEW l \in Legs, PruneInflight(l) \/ PruneCompleted(l)
    PROVE  P2PTypeOK' /\ UNCHANGED <<clientVars, dcfg, dpc, dsend, dnext, runs, gave, ctl>> /\ net' \subseteq net
  <1> USE DEF P2PTypeOK, clientVars
  <1>1. CASE PruneInflight(l)
    <2>1. PICK p \in din[l] : din' = [din EXCEPT ![l] = {x \in @ : x[1] # p[1]}]
          BY <1>1 DEF PruneInflight
    <2>2. din' \in [Legs -> SUBSET (Nat \X Nat)]  BY <2>1
    <2> QED BY <1>1, <2>2 DEF PruneInflight
  <1>2. CASE PruneCompleted(l)
    <2>1. PICK id : completed' = [completed EXCEPT ![l] = @ \ {id}] /\ net' = net \ TooOld(l, id)
          BY <1>2 DEF PruneCompleted
    <2> QED BY <1>2, <2>1 DEF PruneCompleted
  <1> QED BY <1>1, <1>2

LEMMA LoopType ==
    ASSUME P2PTypeOK, NEW l \in Legs, SendVarsOK, ToClientOnly(l), UNCHANGED <<clientVars, dcfg, ctl>>,
           din' \in [Legs -> SUBSET (Nat \X Nat)], completed' \in [Legs -> SUBSET Nat],
           runs' \in [Legs -> Nat], gave' \in [Legs -> SUBSET Nat]
    PROVE  P2PTypeOK'
  BY DEF P2PTypeOK, SendVarsOK, ToClientOnly, clientVars

LEMMA DeviceType == ASSUME P2PTypeOK, Device PROVE P2PTypeOK'
  <1>0. /\ din \in [Legs -> SUBSET (Nat \X Nat)] /\ completed \in [Legs -> SUBSET Nat]
        /\ runs \in [Legs -> Nat] /\ gave \in [Legs -> SUBSET Nat]
        /\ \A l \in Legs : dsend[l].id \in Nat
        BY DEF P2PTypeOK, Sends
  <1>1. ASSUME NEW l \in Legs, Receive(l) PROVE P2PTypeOK'
    <2>1. /\ runs' \in {runs, [runs EXCEPT ![l] = @ + 1]} /\ ToClientOnly(l) /\ SendVarsOK
          /\ din' \in [Legs -> SUBSET (Nat \X Nat)] /\ completed' \in [Legs -> SUBSET Nat]
          /\ UNCHANGED <<clientVars, dcfg, gave, ctl>>
          BY <1>1, ReceiveMoves
    <2>2. runs' \in [Legs -> Nat]  BY <1>0, <2>1
    <2> QED BY <1>0, <2>1, <2>2, LoopType
  <1>2. ASSUME NEW l \in Legs, Piece(l) PROVE P2PTypeOK'
    <2>1. /\ ToClientOnly(l) /\ SendVarsOK
          /\ UNCHANGED <<clientVars, dcfg, din, completed, runs, gave, ctl>>
          BY <1>2, PieceMoves
    <2> QED BY <1>0, <2>1, LoopType
  <1>3. ASSUME NEW l \in Legs, DeviceRetry(l) PROVE P2PTypeOK'
    <2>1. /\ gave' \in {gave, [gave EXCEPT ![l] = @ \cup {dsend[l].id}]}
          /\ ToClientOnly(l) /\ SendVarsOK
          /\ UNCHANGED <<clientVars, dcfg, din, completed, runs, ctl>>
          BY <1>3, RetryMoves
    <2>2. gave' \in [Legs -> SUBSET Nat]  BY <1>0, <2>1
    <2> QED BY <1>0, <2>1, <2>2, LoopType
  <1>4. ASSUME NEW l \in Legs, DeviceAcked(l) PROVE P2PTypeOK'
    <2>1. /\ ToClientOnly(l) /\ SendVarsOK
          /\ UNCHANGED <<clientVars, dcfg, din, completed, runs, gave, ctl>>
          BY <1>4, AckedMoves
    <2> QED BY <1>0, <2>1, LoopType
  <1>5. ASSUME NEW l \in Legs, PruneInflight(l) \/ PruneCompleted(l) PROVE P2PTypeOK'
        BY <1>5, PruneType
  <1> QED BY <1>1, <1>2, <1>3, <1>4, <1>5
          DEF Device, DirectReceive, RelayReceive, DirectPiece, RelayPiece, DirectRetry, RelayRetry, Legs


-----------------------------------------------------------------------------
(* One run per leg.                                                         *)

\* Steps that send no request and do not bring the client nearer to one.
LEMMA NoNewRequest ==
    ASSUME OneRequest, Recognised, runs' = runs,
           \A l \in Legs : /\ completed[l] \subseteq completed'[l]
                           /\ Requests(l)' \subseteq Requests(l)
                           /\ NotYet(l)' => NotYet(l)
                           /\ Requesting(l)' => Requesting(l) /\ cid' = cid
    PROVE  OneRequest' /\ Recognised'
  BY DEF OneRequest, Recognised

\* Another packet of the request under way.
LEMMA CopyOfRequest ==
    ASSUME OneRequest, Recognised, NEW m \in Legs, Requesting(m), NEW p,
           p.leg = m, p.to = "device", p.id = cid, net' = net \cup {p},
           UNCHANGED <<clientPc, leg, cid, runs, completed>>
    PROVE  OneRequest' /\ Recognised'
  <1>1. /\ \A l \in Legs : l # m => Requests(l)' = Requests(l)
        /\ Requests(m)' \subseteq Requests(m) \cup {p}
        BY DEF Requests
  <1>2. ~NotYet(m)  BY DEF NotYet, Requesting, Legs
  <1>3. \A l \in Legs : (NotYet(l)' <=> NotYet(l)) /\ (Requesting(l)' <=> Requesting(l))
        BY DEF NotYet, Requesting
  <1>4. OneRequest'  BY <1>1, <1>2, <1>3 DEF OneRequest
  <1>5. Recognised'  BY <1>1, <1>2, <1>3 DEF Recognised
  <1> QED BY <1>4, <1>5

\* The client has been acknowledged its hello and sends its request.
LEMMA FirstRequest ==
    ASSUME OneRequest, Recognised, clientPc = "hello", leg \in Legs, NEW p,
           p.leg = leg, p.id = cid', net' = net \cup {p}, clientPc' = "request",
           UNCHANGED <<leg, runs, completed>>
    PROVE  OneRequest' /\ Recognised'
  <1>1. /\ \A l \in Legs : l # leg => Requests(l)' = Requests(l)
        /\ Requests(leg)' \subseteq Requests(leg) \cup {p}
        BY DEF Requests
  <1>2. NotYet(leg) /\ Requests(leg) = {} /\ runs[leg] # 1  BY DEF NotYet, OneRequest, Recognised
  <1>3. \A l \in Legs : l # leg => (NotYet(l)' <=> NotYet(l)) /\ ~Requesting(l)'
        BY DEF NotYet, Requesting
  <1>4. ~NotYet(leg)'  BY DEF NotYet
  <1>5. OneRequest'  BY <1>1, <1>2, <1>3, <1>4 DEF OneRequest
  <1>6. Recognised'  BY <1>1, <1>2, <1>3, <1>4 DEF Recognised
  <1> QED BY <1>5, <1>6

LEMMA SignallingRequests ==
    ASSUME IInv, Signalling PROVE LegInv' /\ OneRequest' /\ Recognised'
  <1>1. /\ UNCHANGED <<leg, cid, runs, completed, net>>
        /\ clientPc' = clientPc \/ (/\ clientPc \in {"login", "candidates"}
                                    /\ clientPc' \in {"candidates", "pick"})
        BY DEF Signalling, ConnectionRequest, ConnectionConfig, SendHostCandidates, RelayAllocate,
           ReadSignal, StopCollecting, clientVars, deviceVars
  <1>2. LegInv'  BY <1>1 DEF IInv, LegInv
  <1>3. \A l \in Legs : /\ Requests(l)' = Requests(l) /\ (NotYet(l)' => NotYet(l))
                        /\ Requesting(l)' => Requesting(l)
        BY <1>1 DEF Requests, NotYet, Requesting
  <1> QED BY <1>1, <1>2, <1>3, NoNewRequest DEF IInv

LEMMA ClientRequests ==
    ASSUME IInv, Client PROVE LegInv' /\ OneRequest' /\ Recognised'
  <1>0. P2PTypeOK /\ LegInv /\ OneRequest /\ Recognised /\ leg \in Legs /\ cid \in Nat /\ csend.frag \in Nat
        BY DEF IInv, P2PTypeOK
  <1>1. ASSUME UNCHANGED <<runs, completed>>,
               \A p \in net' \ net : p.body \in {"hello", "ack"},
               \/ clientPc' = clientPc /\ leg' = leg /\ cid' = cid
               \/ clientPc' \in {"answers", "done", "failed"} /\ leg' = leg
               \/ clientPc' = "fallback" /\ leg' = leg /\ leg = "direct"
               \/ clientPc' = "hello" /\ clientPc \in {"pick", "allocate"} /\ leg' = leg
               \/ clientPc' = "allocate" /\ leg = "direct" /\ leg' = "relay"
        PROVE  LegInv' /\ OneRequest' /\ Recognised'
    <2>1. \A l \in Legs : Requests(l)' \subseteq Requests(l)  BY <1>1 DEF Requests
    <2>2. \A l \in Legs : /\ NotYet(l)' => NotYet(l)
                          /\ Requesting(l)' => Requesting(l) /\ cid' = cid
          BY <1>0, <1>1 DEF NotYet, Requesting, Legs
    <2>3. LegInv'  BY <1>0, <1>1 DEF LegInv
    <2> QED BY <1>0, <1>1, <2>1, <2>2, <2>3, NoNewRequest
  <1>2. \A l \in Legs, i \in Nat, f \in Nat, b \in {"hello", "request"} :
           /\ Data(l, "device", b, i, f).leg = l /\ Data(l, "device", b, i, f).to = "device"
           /\ Data(l, "device", b, i, f).body = b /\ Data(l, "device", b, i, f).id = i
        BY DEF Data
  <1>3. CASE PickDirect
    <2>1. /\ clientPc = "pick" /\ clientPc' \in {"hello", "failed"} /\ UNCHANGED <<leg, runs, completed>>
          /\ net' \in {net, net \cup {Data("direct", "device", "hello", cid, 0)}}
          BY <1>3 DEF PickDirect, BeginSend, deviceVars
    <2>2. \A p \in net' \ net : p.body \in {"hello", "ack"}  BY <1>0, <1>2, <2>1 DEF Legs
    <2> QED BY <1>1, <2>1, <2>2
  <1>4. CASE ClientAcked
    <2>1. UNCHANGED <<leg, runs, completed>>  BY <1>4 DEF ClientAcked, deviceVars
    <2>2. CASE clientPc = "hello"
      <3>1. /\ clientPc' = "request" /\ cid' = cid + 1
            /\ net' = net \cup {Data(leg, "device", "request", cid', 0)}
            BY <1>0, <1>4, <2>2 DEF ClientAcked, FragCnt, BeginSend
      <3>2. LegInv'  BY <3>1 DEF LegInv
      <3>3. PICK p : p = Data(leg, "device", "request", cid', 0)  OBVIOUS
      <3>4. p.leg = leg /\ p.id = cid'  BY <1>0, <1>2, <3>1, <3>3
      <3> QED BY <1>0, <2>1, <2>2, <3>1, <3>2, <3>3, <3>4, FirstRequest
    <2>3. CASE clientPc = "request" /\ csend.frag + 1 < FragCnt("request")
      <3>1. /\ clientPc' = clientPc /\ cid' = cid
            /\ net' = net \cup {Data(leg, "device", "request", cid, csend.frag + 1)}
            BY <1>4, <2>3 DEF ClientAcked, CPacket
      <3>2. LegInv'  BY <1>0, <2>1, <3>1 DEF LegInv
      <3>3. PICK p : p = Data(leg, "device", "request", cid, csend.frag + 1)  OBVIOUS
      <3>4. p.leg = leg /\ p.to = "device" /\ p.id = cid  BY <1>0, <1>2, <3>3
      <3>5. PICK m \in Legs : m = leg /\ Requesting(m)  BY <1>0, <2>3 DEF Requesting
      <3> QED BY <1>0, <2>1, <3>1, <3>2, <3>3, <3>4, <3>5, CopyOfRequest
    <2>4. CASE clientPc = "request" /\ ~(csend.frag + 1 < FragCnt("request"))
          BY <1>1, <1>4, <2>1, <2>4 DEF ClientAcked
    <2> QED BY <1>4, <2>2, <2>3, <2>4 DEF ClientAcked
  <1>5. ASSUME NEW l \in Legs, ClientRetry(l) PROVE LegInv' /\ OneRequest' /\ Recognised'
    <2>1. UNCHANGED <<leg, cid, runs, completed>> /\ clientPc \in {"hello", "request"}
          BY <1>5 DEF ClientRetry, deviceVars
    <2>2. CASE csend.tries < MaxTries
      <3>1. clientPc' = clientPc /\ net' = net \cup {Data(leg, "device", clientPc, cid, csend.frag)}
            BY <1>5, <2>2 DEF ClientRetry, CPacket
      <3>2. CASE clientPc = "hello"
        <4>1. \A p \in net' \ net : p.body \in {"hello", "ack"}  BY <1>0, <1>2, <3>1, <3>2
        <4> QED BY <1>1, <2>1, <3>1, <4>1
      <3>3. CASE clientPc = "request"
        <4>1. PICK p : p = Data(leg, "device", "request", cid, csend.frag)  OBVIOUS
        <4>2. p.leg = leg /\ p.to = "device" /\ p.id = cid  BY <1>0, <1>2, <4>1
        <4>3. PICK m \in Legs : m = leg /\ Requesting(m)  BY <1>0, <3>3 DEF Requesting
        <4>4. LegInv'  BY <1>0, <2>1, <3>1 DEF LegInv
        <4> QED BY <1>0, <2>1, <3>1, <3>3, <4>1, <4>2, <4>3, <4>4, CopyOfRequest
      <3> QED BY <2>1, <3>2, <3>3
    <2>3. CASE ~(csend.tries < MaxTries)
      <3>1. net' = net /\ clientPc' = IF leg = "direct" THEN "fallback" ELSE "failed"
            BY <1>5, <2>3 DEF ClientRetry
      <3> QED BY <1>1, <2>1, <3>1
    <2> QED BY <2>2, <2>3
  <1>6. ASSUME NEW l \in Legs, Answer(l) PROVE LegInv' /\ OneRequest' /\ Recognised'
    <2>1. PICK p \in net : /\ net' = net \cup {Ack(l, "device", p.id)}
                           /\ clientPc' = CASE p.body = "done"  -> "done"
                                            [] p.body = "error" -> IF l = "direct" THEN "fallback"
                                                                   ELSE "failed"
                                            [] OTHER            -> "answers"
          BY <1>6 DEF Answer
    <2>2. /\ UNCHANGED <<leg, cid, runs, completed>> /\ leg = l /\ clientPc = "answers"
          BY <1>6 DEF Answer, deviceVars
    <2>3. Ack(l, "device", p.id).body = "ack"  BY DEF Ack, Data
    <2>4. clientPc' \in {"answers", "done", "failed"} \/ (clientPc' = "fallback" /\ leg = "direct")
          BY <2>1, <2>2
    <2> QED BY <1>1, <2>1, <2>2, <2>3, <2>4
  <1>7. CASE AnswerTimeout  BY <1>1, <1>7 DEF AnswerTimeout, deviceVars
  <1>8. CASE Fallback  BY <1>0, <1>1, <1>8 DEF Fallback, LegInv, deviceVars
  <1>9. CASE ClientAllocate
    <2>1. /\ clientPc = "allocate" /\ clientPc' \in {"hello", "failed"} /\ UNCHANGED <<leg, runs, completed>>
          /\ net' \in {net, net \cup {Data("relay", "device", "hello", cid, 0)}}
          BY <1>9 DEF ClientAllocate, BeginSend, deviceVars
    <2>2. \A p \in net' \ net : p.body \in {"hello", "ack"}  BY <1>0, <1>2, <2>1 DEF Legs
    <2> QED BY <1>1, <2>1, <2>2
  <1> QED BY <1>3, <1>4, <1>5, <1>6, <1>7, <1>8, <1>9
          DEF Client, ClientDirectRetry, ClientRelayRetry, DirectAnswer, RelayAnswer, Legs


LEMMA DeviceRequests ==
    ASSUME IInv, Device PROVE LegInv' /\ OneRequest' /\ Recognised'
  <1>0. P2PTypeOK /\ LegInv /\ OneRequest /\ Recognised  BY DEF IInv
  <1>1. ASSUME UNCHANGED clientVars,
               \A p \in net' \ net : p.to = "client"
        PROVE  /\ \A l \in Legs : /\ Requests(l)' \subseteq Requests(l)
                                  /\ NotYet(l)' <=> NotYet(l)
                                  /\ Requesting(l)' <=> Requesting(l)
               /\ cid' = cid /\ LegInv'
        BY <1>0, <1>1 DEF clientVars, Requests, NotYet, Requesting, LegInv
  <1>2. ASSUME NEW l \in Legs, Receive(l) PROVE LegInv' /\ OneRequest' /\ Recognised'
    <2>1. /\ UNCHANGED clientVars /\ \A p \in net' \ net : p.to = "client"
          BY <1>0, <1>2, ReceiveMoves DEF ToClientOnly
    <2>2. CASE runs' = runs /\ \A k \in Legs : completed[k] \subseteq completed'[k]
          BY <1>0, <1>1, <2>1, <2>2, NoNewRequest
    <2>3. ASSUME NEW p \in Requests(l), p.id \notin completed[l],
                 runs' = [runs EXCEPT ![l] = @ + 1],
                 completed' = [completed EXCEPT ![l] = @ \cup {p.id}]
          PROVE  OneRequest' /\ Recognised'
      <3>1. runs[l] = 0 /\ ~NotYet(l) /\ (Requesting(l) => p.id = cid) /\ \A q \in Requests(l) : q.id = p.id
            BY <1>0, <2>3 DEF OneRequest, Recognised
      <3>2. /\ runs'[l] = 1 /\ p.id \in completed'[l]
            /\ \A k \in Legs : k # l => runs'[k] = runs[k] /\ completed'[k] = completed[k]
            BY <1>0, <2>3, <3>1 DEF P2PTypeOK
      <3>3. OneRequest'  BY <1>0, <1>1, <2>1 DEF OneRequest
      <3>4. Recognised'
        <4>1. ASSUME NEW k \in Legs, k # l
              PROVE  /\ runs'[k] \in {0, 1}
                     /\ runs'[k] = 1 => /\ ~NotYet(k)'
                                        /\ \A q \in Requests(k)' : q.id \in completed'[k]
                                        /\ Requesting(k)' => cid' \in completed'[k]
              BY <1>0, <1>1, <2>1, <3>2, <4>1 DEF Recognised
        <4>2. /\ ~NotYet(l)' /\ \A q \in Requests(l)' : q.id \in completed'[l]
              /\ Requesting(l)' => cid' \in completed'[l]
              BY <1>1, <2>1, <3>1, <3>2
        <4> QED BY <3>2, <4>1, <4>2 DEF Recognised
      <3> QED BY <3>3, <3>4
    <2>4. LegInv'  BY <1>1, <2>1
    <2> QED BY <1>0, <1>2, <2>2, <2>3, <2>4, ReceiveMoves
  <1>3. ASSUME NEW l \in Legs, Piece(l) \/ DeviceRetry(l) \/ DeviceAcked(l)
        PROVE  LegInv' /\ OneRequest' /\ Recognised'
    <2>1. UNCHANGED <<clientVars, completed, runs>> /\ ToClientOnly(l)
          BY <1>0, <1>3, PieceMoves, RetryMoves, AckedMoves
    <2>2. \A p \in net' \ net : p.to = "client"  BY <2>1 DEF ToClientOnly
    <2> QED BY <1>0, <1>1, <2>1, <2>2, NoNewRequest
  <1>4. ASSUME NEW l \in Legs, PruneInflight(l) PROVE LegInv' /\ OneRequest' /\ Recognised'
    <2>1. UNCHANGED <<clientVars, completed, runs, net>>  BY <1>4 DEF PruneInflight
    <2> QED BY <1>0, <1>1, <2>1, NoNewRequest
  <1>5. ASSUME NEW l \in Legs, PruneCompleted(l) PROVE LegInv' /\ OneRequest' /\ Recognised'
    <2>1. PICK id \in completed[l] :
             /\ ~(clientPc \in {"hello", "request"} /\ leg = l /\ cid = id)
             /\ completed' = [completed EXCEPT ![l] = @ \ {id}]
             /\ net' = net \ TooOld(l, id)
          BY <1>5 DEF PruneCompleted
    <2>2. UNCHANGED <<clientVars, runs>>  BY <1>5 DEF PruneCompleted
    <2>3. /\ completed'[l] = completed[l] \ {id}
          /\ \A k \in Legs : k # l => completed'[k] = completed[k]
          BY <1>0, <2>1 DEF P2PTypeOK
    <2>4. \A q \in Requests(l)' : q \in Requests(l) /\ q.id # id
          BY <2>1 DEF Requests, TooOld
    <2>5. Requesting(l) => cid # id  BY <2>1 DEF Requesting
    <2>6. /\ \A k \in Legs : /\ Requests(k)' \subseteq Requests(k)
                             /\ NotYet(k)' <=> NotYet(k)
                             /\ Requesting(k)' <=> Requesting(k)
          /\ cid' = cid /\ LegInv'
          BY <1>1, <2>1, <2>2
    <2>7. OneRequest'  BY <1>0, <2>6 DEF OneRequest
    <2>8. Recognised'
      <3>1. ASSUME NEW k \in Legs
            PROVE  /\ runs'[k] \in {0, 1}
                   /\ runs'[k] = 1 => /\ ~NotYet(k)'
                                      /\ \A q \in Requests(k)' : q.id \in completed'[k]
                                      /\ Requesting(k)' => cid' \in completed'[k]
        <4>1. CASE k = l  BY <1>0, <2>2, <2>3, <2>4, <2>5, <2>6, <4>1 DEF Recognised
        <4>2. CASE k # l  BY <1>0, <2>2, <2>3, <2>6, <4>2 DEF Recognised
        <4> QED BY <4>1, <4>2
      <3> QED BY <3>1 DEF Recognised
    <2> QED BY <2>6, <2>7, <2>8
  <1> QED BY <1>2, <1>3, <1>4, <1>5
          DEF Device, DirectReceive, RelayReceive, DirectPiece, RelayPiece, DirectRetry, RelayRetry, Legs

-----------------------------------------------------------------------------
(* Acknowledged means processed.                                            *)

LEMMA StepAcksHonest == ASSUME IInv, [P2PNext]_p2pVars PROVE AcksHonest'
  <1>0. P2PTypeOK /\ AcksHonest  BY DEF IInv
  <1>1. ASSUME \A l \in Legs : got[l] \subseteq got'[l],
               \A p \in net' \ net : p.to = "client" \/ p.body # "ack" \/ p.id \in got'[p.leg]
        PROVE  AcksHonest'
        BY <1>0, <1>1 DEF AcksHonest
  <1>2. ASSUME UNCHANGED <<net, got>> PROVE AcksHonest'  BY <1>1, <1>2
  <1>3. ASSUME Signalling PROVE UNCHANGED <<net, got>>
        BY <1>3 DEF Signalling, ConnectionRequest, ConnectionConfig, SendHostCandidates, RelayAllocate,
           ReadSignal, StopCollecting, clientVars, deviceVars
  <1>4. \A l, b, i, f : Data(l, "device", b, i, f).body = b  BY DEF Data
  <1>5. CASE PickDirect \/ ClientAllocate
    <2>1. /\ got' = got
          /\ \E l \in Legs : net' \in {net, net \cup {Data(l, "device", "hello", cid, 0)}}
          BY <1>5 DEF PickDirect, ClientAllocate, BeginSend, Legs
    <2>2. \A p \in net' \ net : p.body # "ack"  BY <1>4, <2>1
    <2> QED BY <1>1, <2>1, <2>2
  <1>6. CASE ClientAcked \/ ClientDirectRetry \/ ClientRelayRetry
    <2>1. /\ got' = got
          /\ \/ net' = net
             \/ \E b \in {"hello", "request"} : \E i, f : net' = net \cup {Data(leg, "device", b, i, f)}
          BY <1>6 DEF ClientAcked, ClientDirectRetry, ClientRelayRetry, ClientRetry, BeginSend, CPacket
    <2>2. \A p \in net' \ net : p.body # "ack"  BY <1>4, <2>1
    <2> QED BY <1>1, <2>1, <2>2
  <1>7. ASSUME NEW l \in Legs, Answer(l) PROVE AcksHonest'
    <2>1. PICK p \in net : /\ net' = net \cup {Ack(l, "device", p.id)}
                           /\ got' = [got EXCEPT ![l] = @ \cup {p.id}]
          BY <1>7 DEF Answer
    <2>2. Ack(l, "device", p.id).leg = l /\ Ack(l, "device", p.id).id = p.id  BY DEF Ack, Data
    <2>3. /\ p.id \in got'[l] /\ \A k \in Legs : got[k] \subseteq got'[k]
          BY <1>0, <2>1 DEF P2PTypeOK
    <2>4. \A q \in net' \ net : q.id \in got'[q.leg]  BY <2>1, <2>2, <2>3
    <2> QED BY <1>1, <2>3, <2>4
  <1>8. CASE AnswerTimeout \/ Fallback  BY <1>2, <1>8 DEF AnswerTimeout, Fallback
  <1>9. ASSUME Device PROVE got' = got /\ \A p \in net' \ net : p.to = "client"
    <2>1. ASSUME NEW l \in Legs, Receive(l) \/ Piece(l) \/ DeviceRetry(l) \/ DeviceAcked(l)
          PROVE  got' = got /\ \A p \in net' \ net : p.to = "client"
      <3>1. UNCHANGED clientVars /\ ToClientOnly(l)
            BY <1>0, <2>1, ReceiveMoves, PieceMoves, RetryMoves, AckedMoves
      <3> QED BY <3>1 DEF clientVars, ToClientOnly
    <2>2. ASSUME NEW l \in Legs, PruneInflight(l) \/ PruneCompleted(l)
          PROVE  got' = got /\ net' \subseteq net
      <3>1. UNCHANGED clientVars /\ net' \subseteq net  BY <1>0, <2>2, PruneType
      <3> QED BY <3>1 DEF clientVars
    <2> QED BY <1>9, <2>1, <2>2
            DEF Device, DirectReceive, RelayReceive, DirectPiece, RelayPiece, DirectRetry, RelayRetry, Legs
  <1>10. CASE UNCHANGED p2pVars  BY <1>2, <1>10 DEF p2pVars, clientVars
  <1>11. Legs = {"direct", "relay"}  BY DEF Legs
  <1> QED BY <1>1, <1>2, <1>3, <1>5, <1>6, <1>7, <1>8, <1>9, <1>10, <1>11
          DEF P2PNext, Client, DirectAnswer, RelayAnswer

\* A loop that begins a message or leaves a send has settled the one before.
LEMMA LoopSettles ==
    ASSUME IInv, NEW l \in Legs, Begins(l) \/ Leaves(l), dcfg' = dcfg, dcfg \notin {"none", "config"},
           \A k \in Legs : got[k] \subseteq got'[k] /\ gave[k] \subseteq gave'[k],
           dpc[l] = "send" => dsend[l].id \in got'[l] \cup gave'[l]
    PROVE  Newest' /\ AckedIsProcessed'
  <1>0. /\ dpc \in [Legs -> DevicePCs] /\ dnext \in [Legs -> Nat] /\ dnext[l] \in Nat
        /\ \A k \in Legs : dsend[k].id \in Nat
        BY DEF IInv, P2PTypeOK, Sends
  <1>1. \A id \in 1 .. dnext[l] - 1 : id \in got'[l] \cup gave'[l]
        BY DEF IInv, AckedIsProcessed
  <1>2. \A k \in Legs : k # l => dpc'[k] = dpc[k] /\ dnext'[k] = dnext[k] /\ dsend'[k] = dsend[k]
        BY <1>0 DEF Begins, Leaves
  <1>3. \/ dpc'[l] = "send" /\ dnext'[l] = dnext[l] + 1 /\ dsend'[l].id = dnext[l]
        \/ dpc'[l] # "send" /\ dnext'[l] = dnext[l]
        BY <1>0 DEF Begins, Leaves
  <1>4. Newest'  BY <1>2, <1>3 DEF IInv, Newest
  <1>5. ASSUME NEW id \in 1 .. dnext'[l] - 1, ~(dpc'[l] = "send" /\ dsend'[l].id = id)
        PROVE  id \in got'[l] \cup gave'[l]
    <2>1. id \in 1 .. dnext[l] - 1  BY <1>0, <1>3, <1>5
    <2> QED BY <1>1, <2>1
  <1>6. ASSUME NEW k \in Legs, k # l, NEW id \in 1 .. dnext'[k] - 1,
               ~(dpc'[k] = "send" /\ dsend'[k].id = id)
        PROVE  id \in got'[k] \cup gave'[k]
        BY <1>2, <1>6 DEF IInv, AckedIsProcessed
  <1> QED BY <1>4, <1>5, <1>6 DEF AckedIsProcessed

LEMMA StepProcessed == ASSUME IInv, [P2PNext]_p2pVars PROVE Newest' /\ AckedIsProcessed'
  <1>0. P2PTypeOK /\ AskedOnce /\ Newest /\ AckedIsProcessed /\ AcksHonest  BY DEF IInv
  <1>1. ASSUME dpc' = dpc, dnext' = dnext, \A k \in Legs : dsend'[k].id = dsend[k].id, dcfg' = dcfg,
               \A k \in Legs : got[k] \subseteq got'[k] /\ gave[k] \subseteq gave'[k]
        PROVE  Newest' /\ AckedIsProcessed'
        BY <1>0, <1>1 DEF Newest, AckedIsProcessed
  <1>2. ASSUME Client PROVE UNCHANGED <<dpc, dnext, dsend, dcfg, gave>> /\ \A k \in Legs : got[k] \subseteq got'[k]
    <2>1. ASSUME NEW l \in Legs, Answer(l) PROVE \A k \in Legs : got[k] \subseteq got'[k]
          BY <1>0, <2>1 DEF Answer, P2PTypeOK
    <2>2. got' = got \/ DirectAnswer \/ RelayAnswer
          BY <1>2 DEF Client, PickDirect, ClientAcked, ClientDirectRetry, ClientRelayRetry, ClientRetry,
             AnswerTimeout, Fallback, ClientAllocate
    <2>3. UNCHANGED <<dpc, dnext, dsend, dcfg, gave>>
          BY <1>2 DEF Client, PickDirect, ClientAcked, ClientDirectRetry, ClientRelayRetry, ClientRetry,
             DirectAnswer, RelayAnswer, Answer, AnswerTimeout, Fallback, ClientAllocate, deviceVars
    <2> QED BY <2>1, <2>2, <2>3 DEF DirectAnswer, RelayAnswer, Legs
  <1>3. ASSUME ConnectionRequest \/ SendHostCandidates \/ ReadSignal \/ StopCollecting
        PROVE  Newest' /\ AckedIsProcessed'
    <2>1. UNCHANGED <<dpc, dnext, dsend, got, gave>>
          BY <1>3 DEF ConnectionRequest, SendHostCandidates, ReadSignal, StopCollecting, clientVars,
             deviceVars
    <2>2. dcfg' \in {"none", "config"} => \A l \in Legs : dpc[l] = "off"
          BY <1>0, <1>3 DEF AskedOnce, Newest, ConnectionRequest, SendHostCandidates, ReadSignal,
             StopCollecting, deviceVars
    <2> QED BY <1>0, <2>1, <2>2 DEF Newest, AckedIsProcessed
  <1>4. CASE ConnectionConfig
    <2>1. /\ dcfg = "config" /\ dcfg' = "host" /\ UNCHANGED <<dnext, dsend, got, gave>>
          /\ dpc' = [direct |-> "idle", relay |-> "allocating"]
          BY <1>4 DEF ConnectionConfig, clientVars
    <2>2. \A l \in Legs : dpc[l] = "off" /\ dpc'[l] # "send"  BY <1>0, <2>1 DEF Newest, Legs
    <2> QED BY <1>0, <2>1, <2>2 DEF Newest, AckedIsProcessed
  <1>5. CASE RelayAllocate
    <2>1. /\ dpc["relay"] = "allocating" /\ UNCHANGED <<dcfg, dnext, dsend, got, gave>>
          /\ dpc' \in {[dpc EXCEPT !["relay"] = "idle"], [dpc EXCEPT !["relay"] = "off"]}
          BY <1>5 DEF RelayAllocate, clientVars
    <2>2. \A l \in Legs : dpc'[l] = dpc[l] \/ (dpc[l] # "send" /\ dpc'[l] # "send")
          BY <1>0, <2>1 DEF P2PTypeOK
    <2>3. dcfg \notin {"none", "config"}  BY <1>0, <2>1 DEF Newest, Legs
    <2> QED BY <1>0, <2>1, <2>2, <2>3 DEF Newest, AckedIsProcessed
  <1>6. ASSUME NEW l \in Legs, dpc[l] # "off" PROVE dcfg \notin {"none", "config"}
        BY <1>0, <1>6 DEF Newest
  <1>7. ASSUME NEW l \in Legs, Receive(l) PROVE Newest' /\ AckedIsProcessed'
    <2>1. /\ Stays \/ Begins(l) \/ Leaves(l)
          /\ UNCHANGED <<clientVars, dcfg, gave>> /\ dpc[l] = "idle"
          BY <1>0, <1>7, ReceiveMoves DEF Receive
    <2>2. got' = got  BY <2>1 DEF clientVars
    <2> QED BY <1>1, <1>6, <2>1, <2>2, LoopSettles DEF Stays
  <1>8. ASSUME NEW l \in Legs, Piece(l) PROVE Newest' /\ AckedIsProcessed'
    <2>1. Begins(l) /\ UNCHANGED <<clientVars, dcfg, gave>> /\ dpc[l] = "stream"
          BY <1>0, <1>8, PieceMoves DEF Piece
    <2>2. got' = got  BY <2>1 DEF clientVars
    <2> QED BY <1>6, <2>1, <2>2, LoopSettles
  <1>9. ASSUME NEW l \in Legs, DeviceRetry(l) PROVE Newest' /\ AckedIsProcessed'
    <2>1. /\ \/ Stays /\ gave' = gave
             \/ (Begins(l) \/ Leaves(l)) /\ gave' = [gave EXCEPT ![l] = @ \cup {dsend[l].id}]
          /\ UNCHANGED <<clientVars, dcfg>> /\ dpc[l] = "send"
          BY <1>0, <1>9, RetryMoves DEF DeviceRetry
    <2>2. got' = got  BY <2>1 DEF clientVars
    <2>3. CASE Stays /\ gave' = gave  BY <1>1, <2>1, <2>2, <2>3 DEF Stays
    <2>4. CASE (Begins(l) \/ Leaves(l)) /\ gave' = [gave EXCEPT ![l] = @ \cup {dsend[l].id}]
      <3>1. dsend[l].id \in gave'[l] /\ \A k \in Legs : gave[k] \subseteq gave'[k]
            BY <1>0, <2>4 DEF P2PTypeOK
      <3> QED BY <1>6, <2>1, <2>2, <2>4, <3>1, LoopSettles
    <2> QED BY <2>1, <2>3, <2>4
  <1>10. ASSUME NEW l \in Legs, DeviceAcked(l) PROVE Newest' /\ AckedIsProcessed'
    <2>1. /\ Begins(l) \/ Leaves(l)
          /\ UNCHANGED <<clientVars, dcfg, gave>>
          /\ dpc[l] = "send" /\ Ack(l, "device", dsend[l].id) \in net
          BY <1>0, <1>10, AckedMoves DEF DeviceAcked
    <2>2. got' = got  BY <2>1 DEF clientVars
    <2>3. dsend[l].id \in got[l]
      <3>1. PICK a : a = Ack(l, "device", dsend[l].id)  OBVIOUS
      <3>2. a.leg = l /\ a.to = "device" /\ a.body = "ack" /\ a.id = dsend[l].id
            BY <3>1 DEF Ack, Data
      <3> QED BY <1>0, <2>1, <3>1, <3>2 DEF AcksHonest
    <2> QED BY <1>6, <2>1, <2>2, <2>3, LoopSettles
  <1>11. ASSUME NEW l \in Legs, PruneInflight(l) \/ PruneCompleted(l) PROVE Newest' /\ AckedIsProcessed'
    <2>1. UNCHANGED <<clientVars, dcfg, dpc, dsend, dnext, gave>>  BY <1>0, <1>11, PruneType
    <2> QED BY <1>1, <2>1 DEF clientVars
  <1>12. CASE UNCHANGED p2pVars  BY <1>1, <1>12 DEF p2pVars, clientVars, deviceVars
  <1>13. CASE Client  BY <1>1, <1>2, <1>13
  <1> QED BY <1>3, <1>4, <1>5, <1>7, <1>8, <1>9, <1>10, <1>11, <1>12, <1>13
          DEF P2PNext, Signalling, Device, DirectReceive, RelayReceive, DirectPiece, RelayPiece,
              DirectRetry, RelayRetry, Legs

LEMMA StepAskedOnce == ASSUME IInv, [P2PNext]_p2pVars PROVE AskedOnce'
  <1>0. P2PTypeOK /\ AskedOnce  BY DEF IInv
  <1>1. CASE UNCHANGED <<clientPc, dcfg>>  BY <1>0, <1>1 DEF AskedOnce
  <1>2. CASE Signalling
        BY <1>0, <1>2 DEF AskedOnce, Signalling, ConnectionRequest, ConnectionConfig, SendHostCandidates,
           RelayAllocate, ReadSignal, StopCollecting, clientVars, deviceVars
  <1>3. CASE Client
        BY <1>3 DEF AskedOnce, Client, PickDirect, ClientAcked, ClientDirectRetry, ClientRelayRetry,
           ClientRetry, DirectAnswer, RelayAnswer, Answer, AnswerTimeout, Fallback, ClientAllocate
  <1>4. ASSUME Device PROVE UNCHANGED <<clientPc, dcfg>>
        BY <1>4 DEF Device, DirectReceive, RelayReceive, Receive, DirectPiece, RelayPiece, Piece,
           DirectRetry, RelayRetry, DeviceRetry, DeviceAcked, PruneInflight, PruneCompleted, clientVars
  <1>5. CASE UNCHANGED p2pVars  BY <1>1, <1>5 DEF p2pVars, clientVars, deviceVars
  <1> QED BY <1>1, <1>2, <1>3, <1>4, <1>5 DEF P2PNext

LEMMA Invariance == P2PSpec => []IInv
  <1>1. ASSUME IInv, [P2PNext]_p2pVars PROVE IInv'
    <2>1. P2PTypeOK'
      <3>1. CASE UNCHANGED p2pVars  BY <1>1, <3>1 DEF IInv, P2PTypeOK, p2pVars, clientVars, deviceVars
      <3> QED BY <1>1, <3>1, SignallingType, ClientType, DeviceType DEF IInv, P2PNext
    <2>2. LegInv' /\ OneRequest' /\ Recognised'
      <3>1. CASE UNCHANGED p2pVars
        <4>1. \A l \in Legs : /\ Requests(l)' = Requests(l) /\ (NotYet(l)' <=> NotYet(l))
                              /\ Requesting(l)' <=> Requesting(l)
              BY <3>1 DEF Requests, NotYet, Requesting, p2pVars, clientVars
        <4> QED BY <1>1, <3>1, <4>1, NoNewRequest DEF IInv, LegInv, p2pVars, clientVars, deviceVars
      <3> QED BY <1>1, <3>1, SignallingRequests, ClientRequests, DeviceRequests DEF P2PNext
    <2> QED BY <1>1, <2>1, <2>2, StepAskedOnce, StepAcksHonest, StepProcessed DEF IInv
  <1> QED BY <1>1, InitIInv, PTL DEF P2PSpec

(***************************************************************************)
(* A device runs the request at most once per leg, for every number of     *)
(* retries and fragments and whatever the network does with the packets.   *)
(* The inductive invariant says that every copy of the request that can    *)
(* still arrive, or still be sent, carries an id the device remembers.     *)
(***************************************************************************)
THEOREM RequestRunsOnce == P2PSpec => []RunsOnce
  <1>1. IInv => RunsOnce  BY DEF IInv, Recognised, RunsOnce
  <1> QED BY <1>1, Invariance, PTL

(***************************************************************************)
(* A chunk that the device's reliable send reported as delivered was       *)
(* processed by the client: no ACK is ever taken for another message's.    *)
(***************************************************************************)
THEOREM DeliveredIsProcessed == P2PSpec => []AckedIsProcessed
  <1>1. IInv => AckedIsProcessed  BY DEF IInv
  <1> QED BY <1>1, Invariance, PTL
=============================================================================
