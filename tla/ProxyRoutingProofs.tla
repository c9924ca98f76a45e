------------------------ MODULE ProxyRoutingProofs ------------------------
(* Theorems about ProxyRouting, for every number of users and devices, every *)
(* body and every way of cutting it into reads.                              *)
EXTENDS ProxyRouting, SequenceTheorems, FiniteSetTheorems, TLAPS

\* The buffered body is no longer than what was read; a model's name was found in a
\* body that is complete.
Buffered ==
    \A u \in Users :
       /\ nread[u] <= Len(req[u].body)
       /\ Len(buf[u]) <= nread[u]
       /\ model[u] \in Models => buf[u] = Positions(0, nread[u])

\* What each place of the routing has behind it.  A device is only chosen for a user
\* whose model has a name; an answer is only given where the routing ends.
Progress ==
    \A u \in Users :
       /\ pc[u] \in {"send", "insert", "meter"} => model[u] \in Models
       /\ pc[u] \in {"header", "body", "auth", "route", "send"} => dial[u] = "none"
       /\ dial[u] # "none" => model[u] \in Models
       /\ pc[u] \notin {"meter", "done"} => answer[u] = None

\* A user waits in the map from the end of its routing until its device takes it out.
Waiting ==
    \A u \in Users :
       /\ u \in pending => pc[u] \in {"meter", "done"} /\ answer[u] = None
       /\ u \in pending \/ pc[u] = "insert" => dial[u] \in {"asked", "dialled", "away", "failed"}
       /\ dial[u] \in {"forwarding", "joined"} => pc[u] \in {"meter", "done"} /\ answer[u] = None

\* A device that was asked to dial finds its user, unless it is early or the user refused.
Expected ==
    \A u \in Users : dial[u] \in {"asked", "dialled"} =>
       u \in pending \/ pc[u] \in {"insert", "refuse"} \/ answer[u] = "400"

IInv == TypeOK /\ Buffered /\ Progress /\ Waiting /\ Expected

-----------------------------------------------------------------------------
LEMMA PositionsType ==
    ASSUME NEW k \in Nat, NEW n \in Nat
    PROVE  /\ Positions(k, n) \in Seq(Nat) /\ Len(Positions(k, n)) = n
           /\ \A i \in 1..n : Positions(k, n)[i] = k + i
  BY DEF Positions

LEMMA Parsed ==
    ASSUME NEW r, NEW b
    PROVE  /\ try_parse_model_from_slice(r, b) \in {r.model, Empty, None}
           /\ try_parse_model_from_slice(r, b) \notin {Empty, None} => b = Positions(0, Len(r.body))
  BY DEF try_parse_model_from_slice

LEMMA BodyType ==
    ASSUME TypeOK, NEW u \in Users
    PROVE  req[u].model \in Models /\ Len(req[u].body) \in Nat
  <1>1. req[u].body \in Bodies /\ req[u].model \in Models  BY DEF TypeOK, Request
  <1> QED BY <1>1, ProxyAssumption

LEMMA Prefix ==
    ASSUME NEW b \in Seq(Nat), NEW m \in 0..Len(b)
    PROVE  SubSeq(b, 1, m) \in Seq(Nat) /\ Len(SubSeq(b, 1, m)) = m
  <1>1. Len(b) \in Nat /\ m \in Int /\ \A i \in 1..m : i \in 1..Len(b)  OBVIOUS
  <1>2. \A i \in 1..m : b[i] \in Nat  BY <1>1
  <1>3. SubSeq(b, 1, m) \in Seq(Nat) /\ Len(SubSeq(b, 1, m)) = IF 1 <= m THEN m - 1 + 1 ELSE 0
        BY <1>1, <1>2, SubSeqProperties
  <1> QED BY <1>1, <1>3

\* A read that cuts the buffer to n pieces and appends n fresh ones: the last piece of
\* the buffer is the last one read, so a complete body was read to the end.
LEMMA CutAndAppend ==
    ASSUME NEW b \in Seq(Nat), NEW k \in Nat, Len(b) <= k, NEW n \in Nat \ {0}
    PROVE  LET c == SubSeq(b, 1, Min({n, Len(b)})) \o Positions(k, n) IN
              /\ c \in Seq(Nat) /\ Len(c) <= k + n
              /\ \A l \in Nat : c = Positions(0, l) => l = k + n
  <1>1. Len(b) \in Nat  OBVIOUS
  <1>2. PICK m \in 0..Len(b) : m = Min({n, Len(b)})
    <2> DEFINE y == IF n <= Len(b) THEN n ELSE Len(b)
    <2>1. y \in {n, Len(b)} /\ \A x \in {n, Len(b)} : y <= x  BY <1>1
    <2>2. \A z \in {n, Len(b)} : (\A x \in {n, Len(b)} : z <= x) => z = y  BY <1>1, <2>1
    <2>3. Min({n, Len(b)}) = y  BY <2>1, <2>2 DEF Min
    <2>4. y \in 0..Len(b)  BY <1>1
    <2> QED BY <2>3, <2>4
  <1>3. PICK p : p = SubSeq(b, 1, m)  OBVIOUS
  <1>4. PICK q : q = Positions(k, n)  OBVIOUS
  <1>5. PICK c : c = p \o q  OBVIOUS
  <1>6. p \in Seq(Nat) /\ Len(p) = m
    <2>1. SubSeq(b, 1, m) \in Seq(Nat) /\ Len(SubSeq(b, 1, m)) = m  BY Prefix
    <2> QED BY <1>3, <2>1
  <1>7. q \in Seq(Nat) /\ Len(q) = n /\ q[n] = k + n
    <2>1. n \in 1..n  OBVIOUS
    <2> QED BY <1>4, <2>1, PositionsType
  <1>8. c \in Seq(Nat) /\ Len(c) = m + n /\ c[m + n] = k + n
    <2>1. /\ p \o q \in Seq(Nat) /\ Len(p \o q) = Len(p) + Len(q)
          /\ \A i \in 1 .. Len(p) + Len(q) :
                (p \o q)[i] = IF i <= Len(p) THEN p[i] ELSE q[i - Len(p)]
          BY <1>6, <1>7, ConcatProperties
    <2>2. m + n \in 1..(m + n) /\ ~(m + n <= m) /\ (m + n) - m = n  BY <1>2
    <2> QED BY <1>5, <1>6, <1>7, <2>1, <2>2
  <1>9. ASSUME NEW l \in Nat, c = Positions(0, l) PROVE l = k + n
    <2>1. Len(Positions(0, l)) = l /\ (l \in 1..l => Positions(0, l)[l] = 0 + l)
          BY PositionsType
    <2>2. l = m + n /\ l \in 1..l  BY <1>2, <1>8, <1>9, <2>1
    <2> QED BY <1>8, <1>9, <2>1, <2>2
  <1>10. c \in Seq(Nat) /\ Len(c) <= k + n  BY <1>1, <1>2, <1>8
  <1>11. c = SubSeq(b, 1, Min({n, Len(b)})) \o Positions(k, n)  BY <1>2, <1>3, <1>4, <1>5
  <1> QED BY <1>9, <1>10, <1>11

LEMMA ListsAreSequences == Lists \subseteq Seq(Devices)
  <1> SUFFICES ASSUME NEW D \in SUBSET Devices, NEW l \in SetToSeqs(D) PROVE l \in Seq(Devices)
      BY DEF Lists
  <1>1. Cardinality(D) \in Nat  BY ProxyAssumption, FS_Subset, FS_CardinalityType
  <1> QED BY <1>1 DEF SetToSeqs

LEMMA FirstType ==
    ASSUME TypeOK, NEW u \in Users
    PROVE  \A d \in FirstOffering(u) : d \in Devices /\ model[u] \in Models
  <1> SUFFICES ASSUME NEW d \in FirstOffering(u) PROVE d \in Devices /\ model[u] \in Models
      OBVIOUS
  <1>1. allowed[u] \in Seq(Devices)  BY DEF TypeOK
  <1>2. PICK i \in 1..Len(allowed[u]) : d = allowed[u][i] /\ Offers(d, model[u])
        BY DEF FirstOffering
  <1>3. d \in Devices  BY <1>1, <1>2
  <1> QED BY <1>2, <1>3 DEF Offers, TypeOK, Info

-----------------------------------------------------------------------------
LEMMA FaultType == ASSUME TypeOK, faults' = faults \/ Fault PROVE faults' \in 0..MaxFaults
  BY ProxyAssumption DEF TypeOK, Fault

LEMMA InitIInv == Init => IInv
  <1> SUFFICES ASSUME Init PROVE IInv  OBVIOUS
  <1>1. TypeOK  BY ProxyAssumption DEF Init, TypeOK, PCs, Dials
  <1>2. \A u \in Users : Len(req[u].body) \in Nat  BY <1>1, BodyType
  <1>3. Buffered  BY <1>2, ProxyAssumption DEF Init, Buffered
  <1>4. Progress /\ Waiting /\ Expected  BY DEF Init, Progress, Waiting, Expected
  <1> QED BY <1>1, <1>3, <1>4 DEF IInv

\* Reading the request touches only the buffer and the model of one user.
LEMMA ReadKeeps ==
    ASSUME IInv, NEW u \in Users, ReadHeader(u) \/ ReadBody(u) PROVE IInv'
  <1>0. IInv /\ req[u].model \in Models /\ Len(req[u].body) \in Nat  BY BodyType DEF IInv
  <1>1. PICK c \in Seq(Nat), k \in Nat, x \in Models \cup {None, Empty}, l \in {"body", "auth"} :
           /\ buf' = [buf EXCEPT ![u] = c] /\ nread' = [nread EXCEPT ![u] = k]
           /\ model' = [model EXCEPT ![u] = x] /\ pc' = [pc EXCEPT ![u] = l]
           /\ Len(c) <= k /\ k <= Len(req[u].body)
           /\ x \in Models => c = Positions(0, k)
    <2>1. CASE ReadHeader(u)
      <3>1. PICK n \in 0..Len(req[u].body) : /\ buf' = [buf EXCEPT ![u] = Positions(0, n)]
                                            /\ nread' = [nread EXCEPT ![u] = n]
            BY <2>1 DEF ReadHeader
      <3>2. n \in Nat /\ n <= Len(req[u].body)  BY <1>0
      <3>3. Positions(0, n) \in Seq(Nat) /\ Len(Positions(0, n)) = n  BY <3>2, PositionsType
      <3>4. PICK x : x = model'[u]  OBVIOUS
      <3>5. model' = [model EXCEPT ![u] = x] /\ x \in Models \cup {None, Empty}
        <4>1. PICK y : /\ model' = [model EXCEPT ![u] = y]
                       /\ y = IF req[u].json THEN try_parse_model_from_slice(req[u], buf'[u]) ELSE None
              BY <2>1 DEF ReadHeader
        <4>2. y \in Models \cup {None, Empty}  BY <1>0, <4>1, Parsed
        <4> QED BY <1>0, <3>4, <4>1, <4>2 DEF IInv, TypeOK
      <3>6. PICK l \in {"body", "auth"} : pc' = [pc EXCEPT ![u] = l]
            BY <2>1 DEF ReadHeader, Go
      <3>7. PICK c \in Seq(Nat) : c = Positions(0, n)  BY <3>3
      <3>8. buf' = [buf EXCEPT ![u] = c] /\ Len(c) <= n  BY <3>1, <3>2, <3>3, <3>7
      <3> QED BY <3>1, <3>2, <3>5, <3>6, <3>7, <3>8, Zenon
    <2>2. CASE ReadBody(u)
      <3>1. PICK n \in 1..(Len(req[u].body) - nread[u]) :
               /\ buf' = [buf EXCEPT ![u] = SubSeq(@, 1, Min({n, Len(@)})) \o Positions(nread[u], n)]
               /\ nread' = [nread EXCEPT ![u] = @ + n]
            BY <2>2 DEF ReadBody
      <3>2. /\ n \in Nat \ {0} /\ nread[u] \in Nat /\ nread[u] + n <= Len(req[u].body)
            /\ buf[u] \in Seq(Nat) /\ Len(buf[u]) <= nread[u]
            BY <1>0, <3>1 DEF IInv, TypeOK, Buffered
      <3>3. PICK c : c = SubSeq(buf[u], 1, Min({n, Len(buf[u])})) \o Positions(nread[u], n)
            OBVIOUS
      <3>4. /\ c \in Seq(Nat) /\ Len(c) <= nread[u] + n
            /\ \A l \in Nat : c = Positions(0, l) => l = nread[u] + n
            BY <3>2, <3>3, CutAndAppend
      <3>5. buf' = [buf EXCEPT ![u] = c] /\ nread' = [nread EXCEPT ![u] = nread[u] + n] /\ buf'[u] = c
            BY <1>0, <3>1, <3>3 DEF IInv, TypeOK
      <3>6. PICK x : model' = [model EXCEPT ![u] = x] /\ x = try_parse_model_from_slice(req[u], c)
            BY <2>2, <3>5 DEF ReadBody
      <3>7. x \in Models \cup {None, Empty} /\ (x \in Models => c = Positions(0, Len(req[u].body)))
            BY <1>0, <3>6, Parsed, ProxyAssumption
      <3>8. x \in Models => c = Positions(0, nread[u] + n)  BY <1>0, <3>4, <3>7
      <3>9. PICK l \in {"body", "auth"} : pc' = [pc EXCEPT ![u] = l]
            BY <2>2 DEF ReadBody, Go
      <3>10. PICK k \in Nat : k = nread[u] + n  BY <3>2
      <3>11. /\ nread' = [nread EXCEPT ![u] = k] /\ Len(c) <= k /\ k <= Len(req[u].body)
             /\ x \in Models => c = Positions(0, k)
             BY <3>2, <3>4, <3>5, <3>8, <3>10
      <3> QED BY <3>4, <3>5, <3>6, <3>7, <3>9, <3>11, Zenon
    <2> QED BY <2>1, <2>2
  <1>2. /\ pc[u] \in {"header", "body"}
        /\ UNCHANGED <<req, open, routeVars, answer, clients, active, pending, plock, dial,
                       stalled, faults>>
        BY DEF ReadHeader, ReadBody
  <1>3. TypeOK'  BY <1>0, <1>1, <1>2 DEF IInv, TypeOK, PCs, routeVars
  <1>4. Buffered'  BY <1>0, <1>1, <1>2 DEF IInv, TypeOK, Buffered
  <1>5. Progress' /\ Waiting' /\ Expected'
        BY <1>0, <1>1, <1>2, ProxyAssumption DEF IInv, TypeOK, Progress, Waiting, Expected
  <1> QED BY <1>3, <1>4, <1>5 DEF IInv

\* The routing of one user, from the key to the map.
LEMMA RouteKeeps ==
    ASSUME IInv, NEW u \in Users,
           \/ HeaderFails(u) \/ BodyEnds(u) \/ Refuse401(u) \/ Authenticate(u) \/ Route(u)
           \/ SendFails(u)
    PROVE  IInv'
  <1> USE DEF TypeOK, Progress, Waiting, Expected
  <1>0. TypeOK /\ Progress /\ Waiting /\ Expected /\ None \notin Models  BY ProxyAssumption DEF IInv
  <1>1. Buffered'
    <2>1. UNCHANGED userVars
          BY DEF HeaderFails, BodyEnds, Refuse401, Authenticate, Route, Choose, SendCommand, Insert,
             Meter, Refuse400, SendFails
    <2> QED BY <2>1 DEF IInv, Buffered, userVars
  <1>2. CASE HeaderFails(u)
    <2> USE <1>2 DEF HeaderFails, End, Go, userVars, routeVars
    <2>1. TypeOK'  BY <1>0 DEF PCs, Answers
    <2>2. Progress' /\ Waiting' /\ Expected'  BY <1>0
    <2> QED BY <1>1, <2>1, <2>2 DEF IInv
  <1>3. CASE BodyEnds(u)
    <2> USE <1>3 DEF BodyEnds, Go, userVars, routeVars
    <2>1. TypeOK'  BY <1>0 DEF PCs
    <2>2. Progress' /\ Waiting' /\ Expected'  BY <1>0
    <2> QED BY <1>1, <2>1, <2>2 DEF IInv
  <1>4. CASE Refuse401(u)
    <2> USE <1>4 DEF Refuse401, End, Go, userVars, routeVars
    <2>1. TypeOK'  BY <1>0 DEF PCs, Answers
    <2>2. Progress' /\ Waiting' /\ Expected'  BY <1>0
    <2> QED BY <1>1, <2>1, <2>2 DEF IInv
  <1>5. CASE Authenticate(u)
    <2> USE DEF Authenticate, Go, userVars, routeVars
    <2>1. PICK l \in Lists : allowed' = [allowed EXCEPT ![u] = l]  BY <1>5
    <2>2. l \in Seq(Devices)  BY ListsAreSequences
    <2>3. TypeOK'  BY <1>0, <1>5, <2>1, <2>2 DEF PCs
    <2>4. Progress' /\ Waiting' /\ Expected'  BY <1>0, <1>5
    <2> QED BY <1>1, <2>3, <2>4 DEF IInv
  <1>6. CASE Choose(u)
    <2>1. \A d \in FirstOffering(u) : d \in Devices /\ model[u] \in Models  BY <1>0, FirstType
    <2>2. /\ \/ /\ pc' = [pc EXCEPT ![u] = "send"] /\ model[u] \in Models
                /\ \E d \in Devices : to' = [to EXCEPT ![u] = d]
             \/ pc' = [pc EXCEPT ![u] = "refuse"] /\ to' = to
          /\ active' = u /\ pc[u] = "route"
          /\ UNCHANGED <<userVars, allowed, answer, clients, pending, plock, dial, stalled, faults>>
          BY <1>6, <2>1 DEF Choose, Go
    <2> USE DEF userVars
    <2>5. to' \in [Users -> Devices \cup {None}] /\ pc' \in [Users -> PCs]
      <3>1. CASE to' = to  BY <1>0, <2>2, <3>1 DEF PCs
      <3>2. ASSUME NEW d \in Devices, to' = [to EXCEPT ![u] = d]
            PROVE  to' \in [Users -> Devices \cup {None}]
            BY <1>0, <3>2
      <3>3. pc' \in [Users -> PCs]  BY <1>0, <2>2 DEF PCs
      <3> QED BY <2>2, <3>1, <3>2, <3>3
    <2>3. TypeOK'  BY <1>0, <2>2, <2>5
    <2>4. Progress' /\ Waiting' /\ Expected'  BY <1>0, <2>2
    <2> QED BY <1>1, <2>3, <2>4 DEF IInv
  <1>7. CASE SendCommand(u)
    <2> USE <1>7 DEF SendCommand, Go, userVars, routeVars
    <2>1. TypeOK'  BY <1>0 DEF PCs, Dials
    <2>2. Progress' /\ Waiting' /\ Expected'  BY <1>0
    <2> QED BY <1>1, <2>1, <2>2 DEF IInv
  <1>8. CASE Insert(u)
    <2> USE <1>8 DEF Insert, Go, userVars, routeVars
    <2>1. TypeOK'  BY <1>0 DEF PCs
    <2>2. Progress' /\ Waiting' /\ Expected'  BY <1>0
    <2> QED BY <1>1, <2>1, <2>2 DEF IInv
  <1>9. CASE Meter(u)
    <2> USE <1>9 DEF Meter, Go, userVars, routeVars
    <2>1. TypeOK'  BY <1>0 DEF PCs
    <2>2. Progress' /\ Waiting' /\ Expected'  BY <1>0
    <2> QED BY <1>1, <2>1, <2>2 DEF IInv
  <1>10. CASE Refuse400(u)
    <2> USE <1>10 DEF Refuse400, End, Go, userVars, routeVars
    <2>1. TypeOK'  BY <1>0 DEF PCs, Answers
    <2>2. Progress' /\ Waiting' /\ Expected'  BY <1>0
    <2> QED BY <1>1, <2>1, <2>2 DEF IInv
  <1>11. CASE SendFails(u)
    <2> USE <1>11 DEF SendFails, Go, userVars, routeVars
    <2>3. clients' \in [Devices -> Info \cup {None}]  BY <1>0
    <2>4. pc' \in [Users -> PCs] /\ dial' \in [Users -> Dials]  BY <1>0 DEF PCs, Dials
    <2>5. faults' \in 0..MaxFaults  BY <1>0, FaultType
    <2>1. TypeOK'  BY <1>0, <2>3, <2>4, <2>5
    <2>2. Progress' /\ Waiting' /\ Expected'  BY <1>0
    <2> QED BY <1>1, <2>1, <2>2 DEF IInv
  <1> QED BY <1>2, <1>3, <1>4, <1>5, <1>6, <1>7, <1>8, <1>9, <1>10, <1>11 DEF Route

\* The device's connection, and everybody else.
LEMMA OthersKeep ==
    ASSUME IInv,
           \/ \E u \in Users : UserCloses(u) \/ Dial(u) \/ Proxy(u) \/ JoinEnds(u)
           \/ \E d \in Devices : Register(d) \/ Leave(d) \/ Stall(d) \/ Recover(d)
    PROVE  IInv'
  <1> USE DEF TypeOK, Progress, Waiting, Expected
  <1>0. TypeOK /\ Progress /\ Waiting /\ Expected  BY DEF IInv
  <1>1. UNCHANGED <<req, buf, nread, model, routeVars, pc>>
        BY DEF UserCloses, Dial, Proxy, Pair, Forward, JoinEnds, Register, Leave, Stall, Recover,
           userVars
  <1>2. Buffered'  BY <1>1 DEF IInv, Buffered
  <1>3. ASSUME NEW u \in Users, UserCloses(u) PROVE IInv'
    <2> USE <1>3 DEF UserCloses, routeVars
    <2>1. TypeOK'  BY <1>0
    <2>2. Progress' /\ Waiting' /\ Expected'  BY <1>0
    <2> QED BY <1>2, <2>1, <2>2 DEF IInv
  <1>4. ASSUME NEW u \in Users, Dial(u) PROVE IInv'
    <2> USE <1>4 DEF Dial, userVars, routeVars
    <2>1. TypeOK'  BY <1>0, FaultType DEF Dials
    <2>2. Progress' /\ Waiting' /\ Expected'  BY <1>0
    <2> QED BY <1>2, <2>1, <2>2 DEF IInv
  <1>5. ASSUME NEW u \in Users, Pair(u) PROVE IInv'
    <2> USE <1>5 DEF Pair, userVars, routeVars
    <2>1. TypeOK'  BY <1>0 DEF Dials
    <2>2. Progress' /\ Waiting' /\ Expected'  BY <1>0
    <2> QED BY <1>2, <2>1, <2>2 DEF IInv
  <1>6. ASSUME NEW u \in Users, Forward(u) PROVE IInv'
    <2> USE <1>6 DEF Forward, userVars, routeVars
    <2>1. TypeOK'  BY <1>0 DEF Dials
    <2>2. Progress' /\ Waiting' /\ Expected'  BY <1>0
    <2> QED BY <1>2, <2>1, <2>2 DEF IInv
  <1>7. ASSUME NEW u \in Users, JoinEnds(u) PROVE IInv'
    <2> USE <1>7 DEF JoinEnds, userVars, routeVars
    <2>1. TypeOK'  BY <1>0, FaultType DEF Dials, Answers
    <2>2. Progress' /\ Waiting' /\ Expected'  BY <1>0
    <2> QED BY <1>2, <2>1, <2>2 DEF IInv
  <1>8. ASSUME NEW d \in Devices, Register(d) \/ Leave(d) \/ Stall(d) \/ Recover(d) PROVE IInv'
    <2> USE DEF Register, Leave, Stall, Recover, userVars, routeVars
    <2>1. clients' \in [Devices -> Info \cup {None}]  BY <1>0, <1>8
    <2>2. stalled' \subseteq Devices  BY <1>0, <1>8
    <2>3. faults' \in 0..MaxFaults  BY <1>0, <1>8, FaultType
    <2>4. UNCHANGED <<userVars, routeVars, pc, answer, active, pending, plock, dial>>  BY <1>8
    <2>5. TypeOK'  BY <1>0, <2>1, <2>2, <2>3, <2>4
    <2>6. Progress' /\ Waiting' /\ Expected'  BY <1>0, <2>4
    <2> QED BY <1>2, <2>5, <2>6 DEF IInv
  <1> QED BY <1>3, <1>4, <1>5, <1>6, <1>7, <1>8 DEF Proxy

LEMMA Invariance == Spec => []IInv
  <1>1. ASSUME IInv, [Next]_vars PROVE IInv'
    <2>1. CASE UNCHANGED vars
      <3> USE <2>1 DEF vars, userVars, routeVars
      <3>1. TypeOK'  BY <1>1 DEF IInv, TypeOK
      <3>2. Buffered' /\ Progress' /\ Waiting' /\ Expected'
            BY <1>1 DEF IInv, Buffered, Progress, Waiting, Expected
      <3> QED BY <3>1, <3>2 DEF IInv
    <2> QED BY <1>1, <2>1, ReadKeeps, RouteKeeps, OthersKeep DEF Next
  <1> QED BY <1>1, InitIInv, PTL DEF Spec

(***************************************************************************)
(* Whatever reads cut the request (handle_agent.rs:550), a device is given *)
(* exactly what the user sent, and only if the user was not refused.       *)
(***************************************************************************)
THEOREM DeviceGetsWhatUserSent == Spec => []ForwardedIntact
  <1>1. IInv => ForwardedIntact
        BY DEF IInv, ForwardedIntact, Buffered, Progress, Waiting
  <1> QED BY <1>1, Invariance, PTL

(***************************************************************************)
(* handle_proxy_connections drops a device's connection only if it came    *)
(* before its user was inserted, or if its user was refused.               *)
(***************************************************************************)
THEOREM OnlyEarlyOrRefused == Spec => TurnedAwayOnlyEarly
  <1>1. ASSUME IInv, [Next]_vars, NEW u \in Users, dial[u] # "away", dial'[u] = "away"
        PROVE  pc[u] \in {"insert", "refuse"} \/ answer[u] = "400"
    <2>1. Pair(u) /\ u \notin pending
      <3>1. \E w \in Users : SendCommand(w) \/ SendFails(w) \/ Dial(w) \/ Pair(w) \/ Forward(w) \/ JoinEnds(w)
            BY <1>1 DEF Next, vars, UserCloses, ReadHeader, HeaderFails, ReadBody, BodyEnds,
               Refuse401, Authenticate, Route, Choose, Insert, Meter, Refuse400, Proxy, Register,
               Leave, Stall, Recover
      <3> QED BY <1>1, <3>1 DEF IInv, TypeOK, SendCommand, SendFails, Dial, Pair, Forward, JoinEnds
    <2> QED BY <1>1, <2>1 DEF IInv, Expected, Pair
  <1>2. IInv /\ [Next]_vars =>
           [\A u \in Users : dial[u] # "away" /\ dial'[u] = "away" =>
               pc[u] \in {"insert", "refuse"} \/ answer[u] = "400"]_vars
        BY <1>1
  <1> QED BY <1>2, Invariance, PTL DEF Spec, TurnedAwayOnlyEarly
=============================================================================
