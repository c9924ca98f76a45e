---------------------- MODULE HeartbeatPipelineProofs ----------------------
(* Theorems about HeartbeatPipeline, for any number of consumer processes,   *)
(* any instants, intervals and batch sizes.                                  *)
EXTENDS HeartbeatPipeline, FiniteSetTheorems, SequenceTheorems, TLAPS

\* No device row is ahead of the client row of its day.
DeviceBehind ==
    \A d \in Days : \A i \in Index : device_daily[d][i] # None =>
       client_daily[d] # None /\ device_daily[d][i].last <= client_daily[d].last

\* A row has counted at most the buckets up to the one it counted last.
UpTo(k) == 0..k
CountedIn(row, B) == row # None => row.total \in 1..Cardinality(B \cap UpTo(row.bucket))

Counted ==
    /\ IsFiniteSet(heartbeat)
    /\ \A d \in Days :
          /\ CountedIn(client_daily[d], {client_bucket(t) : t \in Of(d)})
          /\ \A i \in Index : CountedIn(device_daily[d][i], {device_bucket(t) : t \in Of(d)})

\* A row of points pays no more than a day.
Fair(row) == row # None /\ DaySecs % Interval = 0 => row.hours * HourSecs <= DaySecs

\* What is paid, and what a refresh that runs is about to pay, is fair.
PaidFairly ==
    /\ \A d \in Days : \A i \in Index : Fair(points[d][i])
    /\ \A p \in Procs : refresh[p] # None =>
          \A d \in DOMAIN refresh[p].rows : \A i \in Index : Fair(refresh[p].rows[d][i])

\* A refresh writes the two days up to the one it started in, and ends by the next.
RefreshIsRecent ==
    \A p \in Procs : refresh[p] # None =>
       /\ Today <= refresh[p].today + 1
       /\ \A d \in DOMAIN refresh[p].rows : d >= refresh[p].today - 1

IInv == TypeOK /\ AllOrNothing /\ DeviceBehind /\ Counted /\ PaidFairly /\ RefreshIsRecent

-----------------------------------------------------------------------------
(* The types.                                                               *)

LEMMA GpuLength ==
    ASSUME NEW g \in Gpus
    PROVE  Len(g) \in Nat /\ DOMAIN g = 1..Len(g) /\ (g # <<>> => Len(g) >= 1)
  <1>1. g \in Seq({g[i] : i \in DOMAIN g})  BY HeartbeatAssumption
  <1> QED BY <1>1

LEMMA DayType == ASSUME NEW t \in Nat PROVE day(t) \in Nat
  BY HeartbeatAssumption DEF day

LEMMA BucketType ==
    ASSUME NEW t \in Nat PROVE client_bucket(t) \in Nat /\ device_bucket(t) \in Nat
  <1>1. (t + 1) \div 2 \in Nat /\ t \div 2 \in Nat  OBVIOUS
  <1> QED BY <1>1, HeartbeatAssumption DEF client_bucket, device_bucket

LEMMA UpsertType ==
    ASSUME NEW row \in Row \cup {None}, NEW ts \in Times, NEW bucket \in Nat
    PROVE  Upsert(row, ts, bucket) \in Row
  BY HeartbeatAssumption DEF Upsert, Row

LEMMA DayOf == ASSUME NEW t \in Times PROVE t \in Nat /\ day(t) \in Days /\ day(t) \in Nat
  BY HeartbeatAssumption, DayType DEF Days

LEMMA DaysNat == Days \subseteq Nat
  BY DayOf DEF Days

LEMMA InitType == Init => TypeOK
  <1> SUFFICES ASSUME Init PROVE TypeOK  OBVIOUS
  <1>1. now \in Times /\ sent \in 0..MaxBeats /\ faults \in 0..MaxFaults  BY HeartbeatAssumption DEF Init
  <1>2. \A p \in Procs : Len(buffer[p]) <= BatchSize /\ Len(queue[p]) <= ChanCap
                         /\ (~sending[p] => Len(buffer[p]) < BatchSize)
    BY HeartbeatAssumption DEF Init
  <1> QED BY <1>1, <1>2 DEF Init, TypeOK

LEMMA FaultType == ASSUME TypeOK, Fault PROVE faults' \in 0..MaxFaults
  BY HeartbeatAssumption DEF TypeOK, Fault

LEMMA IndexType == ASSUME NEW i \in Index PROVE i \in Nat /\ i >= 1
  <1>1. PICK g \in Gpus : i \in 1..Len(g)  BY DEF Index
  <1> QED BY <1>1, GpuLength

LEMMA ReportedType ==
    ASSUME NEW g \in Gpus, NEW k \in 1..Len(g)
    PROVE  g[k] \in UNION {{h[i] : i \in 1..Len(h)} : h \in Gpus}
  <1>1. g[k] \in {g[i] : i \in 1..Len(g)}  OBVIOUS
  <1>2. {g[i] : i \in 1..Len(g)} \in {{h[i] : i \in 1..Len(h)} : h \in Gpus}  OBVIOUS
  <1> QED BY <1>1, <1>2, Zenon

LEMMA DailyPointsType ==
    ASSUME TypeOK, NEW d \in Days, NEW i \in Index
    PROVE  daily_points(d, i) \in PointRow \cup {None}
  <1>1. CASE device_daily[d][i] = None  BY <1>1 DEF daily_points
  <1>2. CASE device_daily[d][i] # None
    <2>1. device_daily[d][i] \in Row  BY <1>2 DEF TypeOK
    <2>2. device_daily[d][i].total \in Nat  BY <2>1 DEF Row
    <2>3. device_daily[d][i].total * Interval \in Nat  BY <2>2, HeartbeatAssumption
    <2>4. (device_daily[d][i].total * Interval) \div HourSecs \in Nat  BY <2>3, HeartbeatAssumption
    <2> DEFINE T == (UNION {{h[k] : k \in 1..Len(h)} : h \in Gpus}) \cup {None}
    <2>5. (IF i <= Len(device_info) THEN device_info[i] ELSE None) \in T
      <3>1. CASE i <= Len(device_info)
        <4>1. i \in Nat /\ i >= 1  BY IndexType
        <4>2. CASE device_info = <<>>  BY <4>1, <4>2, <3>1
        <4>3. CASE device_info \in Gpus
          <5>1. i \in 1..Len(device_info)  BY <4>1, <4>3, <3>1, GpuLength
          <5>2. device_info[i] \in UNION {{h[k] : k \in 1..Len(h)} : h \in Gpus}
            BY <4>3, <5>1, ReportedType
          <5>3. device_info[i] \in T  BY <5>2, Zenon
          <5> HIDE DEF T
          <5> QED BY <3>1, <5>3
        <4> QED BY <4>2, <4>3 DEF TypeOK
      <3>2. CASE ~(i <= Len(device_info))  BY <3>2
      <3> QED BY <3>1, <3>2
    <2> QED BY <2>4, <2>5, <1>2 DEF daily_points, PointRow
  <1> QED BY <1>1, <1>2

LEMMA HeadTail ==
    ASSUME NEW S, NEW s \in Seq(S), s # <<>>
    PROVE  Head(s) \in S /\ Tail(s) \in Seq(S) /\ Len(Tail(s)) = Len(s) - 1
  OBVIOUS

\* The consumer's tasks keep the types and the bounds of buffer and channel.
LEMMA ConsumerType ==
    ASSUME TypeOK, NEW p \in Procs, Receive(p) \/ FlushTimeout(p) \/ SendBatch(p) \/ TakeBatch(p)
    PROVE  TypeOK'
  <1>0. /\ buffer[p] \in Seq(Beat) /\ queue[p] \in Seq(Seq(Beat)) /\ batch[p] \in Seq(Beat)
        /\ BatchSize \in Nat /\ BatchSize >= 1 /\ ChanCap \in Nat
    BY HeartbeatAssumption DEF TypeOK
  <1>1. CASE Receive(p)
    <2>1. Head(log) \in Beat /\ Tail(log) \in Seq(Beat)  BY <1>1, HeadTail DEF Receive, TypeOK
    <2>2. buffer' \in [Procs -> Seq(Beat)] /\ log' \in Seq(Beat) /\ sending' \in [Procs -> BOOLEAN]
      BY <1>0, <1>1, <2>1 DEF Receive, TypeOK
    <2>3. \A q \in Procs :
             /\ Len(buffer'[q]) <= BatchSize /\ Len(queue'[q]) <= ChanCap
             /\ sending'[q] => buffer'[q] # <<>>
             /\ ~sending'[q] => Len(buffer'[q]) < BatchSize
      <3> SUFFICES ASSUME NEW q \in Procs
                   PROVE  /\ Len(buffer'[q]) <= BatchSize /\ Len(queue'[q]) <= ChanCap
                          /\ sending'[q] => buffer'[q] # <<>>
                          /\ ~sending'[q] => Len(buffer'[q]) < BatchSize
        OBVIOUS
      <3>1. CASE q = p
        <4>1. buffer'[q] = Append(buffer[p], Head(log)) /\ Len(buffer'[q]) = Len(buffer[p]) + 1
          BY <1>0, <1>1, <2>1, <3>1 DEF Receive, TypeOK
        <4>2. (sending'[q] <=> Len(buffer[p]) + 1 >= BatchSize) /\ queue' = queue /\ Len(buffer[p]) < BatchSize
          BY <1>0, <1>1, <3>1 DEF Receive, TypeOK
        <4>3. buffer'[q] # <<>>  BY <4>1, <1>0
        <4>4. Len(queue[q]) <= ChanCap  BY DEF TypeOK
        <4>5. Len(buffer[p]) \in Nat  BY <1>0
        <4> HIDE DEF TypeOK
        <4> QED BY <4>1, <4>2, <4>3, <4>4, <4>5, <1>0
      <3>2. CASE q # p  BY <1>1, <3>2 DEF Receive, TypeOK
      <3> QED BY <3>1, <3>2
    <2> QED BY <1>1, <2>2, <2>3 DEF Receive, TypeOK, clockVars, statVars, Today
  <1>2. CASE FlushTimeout(p)
    <2>1. sending' \in [Procs -> BOOLEAN]  BY <1>2 DEF FlushTimeout, TypeOK
    <2>2. \A q \in Procs : sending'[q] => buffer[q] # <<>>  BY <1>2 DEF FlushTimeout, TypeOK
    <2>3. \A q \in Procs : ~sending'[q] => Len(buffer[q]) < BatchSize  BY <1>2 DEF FlushTimeout, TypeOK
    <2> QED BY <1>2, <2>1, <2>2, <2>3 DEF FlushTimeout, TypeOK, clockVars, statVars
  <1>3. CASE SendBatch(p)
    <2>1. buffer' \in [Procs -> Seq(Beat)] /\ sending' \in [Procs -> BOOLEAN]  BY <1>3 DEF SendBatch, TypeOK
    <2>2. queue' \in [Procs -> Seq(Seq(Beat))]  BY <1>0, <1>3 DEF SendBatch, TypeOK
    <2>3. \A q \in Procs :
             /\ Len(buffer'[q]) <= BatchSize /\ Len(queue'[q]) <= ChanCap
             /\ sending'[q] => buffer'[q] # <<>>
             /\ ~sending'[q] => Len(buffer'[q]) < BatchSize
      <3> SUFFICES ASSUME NEW q \in Procs
                   PROVE  /\ Len(buffer'[q]) <= BatchSize /\ Len(queue'[q]) <= ChanCap
                          /\ sending'[q] => buffer'[q] # <<>>
                          /\ ~sending'[q] => Len(buffer'[q]) < BatchSize
        OBVIOUS
      <3>1. CASE q = p
        <4>1. buffer'[q] = <<>> /\ ~sending'[q]  BY <1>3, <3>1 DEF SendBatch, TypeOK
        <4>2. Len(queue'[q]) = Len(queue[p]) + 1 /\ Len(queue[p]) < ChanCap
          BY <1>0, <1>3, <3>1 DEF SendBatch, TypeOK
        <4> QED BY <4>1, <4>2, <1>0
      <3>2. CASE q # p  BY <1>3, <3>2 DEF SendBatch, TypeOK
      <3> QED BY <3>1, <3>2
    <2> QED BY <1>3, <2>1, <2>2, <2>3 DEF SendBatch, TypeOK, clockVars, statVars
  <1>4. CASE TakeBatch(p)
    <2>1. Head(queue[p]) \in Seq(Beat) /\ Tail(queue[p]) \in Seq(Seq(Beat))
          /\ Len(Tail(queue[p])) = Len(queue[p]) - 1
      BY <1>0, <1>4, HeadTail DEF TakeBatch
    <2>2. batch' \in [Procs -> Seq(Beat)] /\ queue' \in [Procs -> Seq(Seq(Beat))]
      BY <1>4, <2>1 DEF TakeBatch, TypeOK
    <2>3. \A q \in Procs : Len(queue'[q]) <= ChanCap
      <3> SUFFICES ASSUME NEW q \in Procs PROVE Len(queue'[q]) <= ChanCap  OBVIOUS
      <3>1. CASE q = p
        <4>1. Len(queue'[q]) = Len(queue[p]) - 1 /\ Len(queue[p]) \in Nat /\ Len(queue[p]) <= ChanCap
          BY <1>0, <1>4, <2>1, <3>1 DEF TakeBatch, TypeOK
        <4> QED BY <4>1, <1>0
      <3>2. CASE q # p  BY <1>4, <3>2 DEF TakeBatch, TypeOK
      <3> QED BY <3>1, <3>2
    <2> QED BY <1>4, <2>2, <2>3 DEF TakeBatch, TypeOK, clockVars, statVars
  <1> QED BY <1>1, <1>2, <1>3, <1>4

LEMMA FlightType ==
    ASSUME TypeOK, Tick \/ (\E g \in Gpus : handle_heartbeat(g)) \/ (\E b \in flight : Append_(b))
    PROVE  TypeOK'
  <1>1. CASE Tick  BY <1>1 DEF Tick, TypeOK, consVars, statVars
  <1>2. ASSUME NEW g \in Gpus, handle_heartbeat(g) PROVE TypeOK'
    <2>1. sent' \in 0..MaxBeats  BY <1>2, HeartbeatAssumption DEF handle_heartbeat, TypeOK
    <2>2. flight' \subseteq Beat  BY <1>2 DEF handle_heartbeat, TypeOK, Beat
    <2> QED BY <1>2, <2>1, <2>2 DEF handle_heartbeat, TypeOK, consVars, statVars
  <1>3. ASSUME NEW b \in flight, Append_(b) PROVE TypeOK'
    <2>1. faults' \in 0..MaxFaults  BY <1>3, FaultType DEF Append_, TypeOK
    <2>2. log' \in Seq(Beat) /\ flight' \subseteq Beat  BY <1>3 DEF Append_, TypeOK
    <2> QED BY <1>3, <2>1, <2>2 DEF Append_, TypeOK, consVars, statVars
  <1> QED BY <1>1, <1>2, <1>3

LEMMA FailureType ==
    ASSUME TypeOK, NEW p \in Procs, Rebalance(p) \/ Restart(p) PROVE TypeOK'
  <1>0. BatchSize \in Nat /\ BatchSize >= 1 /\ ChanCap \in Nat  BY HeartbeatAssumption
  <1>1. CASE Rebalance(p)
    <2>1. faults' \in 0..MaxFaults  BY <1>1, FaultType DEF Rebalance
    <2> QED BY <1>1, <2>1 DEF Rebalance, TypeOK, clockVars, statVars
  <1>2. CASE Restart(p)
    <2>1. faults' \in 0..MaxFaults  BY <1>2, FaultType DEF Restart
    <2>2. /\ buffer' \in [Procs -> Seq(Beat)] /\ sending' \in [Procs -> BOOLEAN]
          /\ queue' \in [Procs -> Seq(Seq(Beat))] /\ batch' \in [Procs -> Seq(Beat)]
          /\ log' \in Seq(Beat) /\ DOMAIN refresh' = Procs
      BY <1>2 DEF Restart, TypeOK
    <2>3. \A q \in Procs :
             /\ Len(buffer'[q]) <= BatchSize /\ Len(queue'[q]) <= ChanCap
             /\ sending'[q] => buffer'[q] # <<>>
             /\ ~sending'[q] => Len(buffer'[q]) < BatchSize
      BY <1>0, <1>2 DEF Restart, TypeOK
    <2>4. \A q \in Procs : refresh'[q] = None \/ refresh'[q] = refresh[q]  BY <1>2 DEF Restart, TypeOK
    <2> QED BY <1>2, <2>1, <2>2, <2>3, <2>4 DEF Restart, TypeOK, clockVars, statVars
  <1> QED BY <1>1, <1>2

\* What a committed heartbeat does to the tables.
Stores(b) ==
    /\ b.gpus # <<>>
    /\ insert_heartbeat(b) /\ client_upsert(b) /\ device_upsert(b)

LEMMA StoresType ==
    ASSUME TypeOK, NEW b \in Beat, Stores(b)
    PROVE  /\ heartbeat' \subseteq Times /\ device_info' \in Gpus \cup {<<>>}
           /\ client_daily' \in [Days -> Row \cup {None}]
           /\ device_daily' \in [Days -> [Index -> Row \cup {None}]]
  <1>0. b.ts \in Times /\ b.gpus \in Gpus  BY DEF Beat
  <1>1. day(b.ts) \in Days /\ client_bucket(b.ts) \in Nat /\ device_bucket(b.ts) \in Nat
    BY <1>0, DayOf, BucketType
  <1>2. heartbeat' \subseteq Times /\ device_info' \in Gpus \cup {<<>>}
    BY <1>0 DEF Stores, insert_heartbeat, TypeOK
  <1>3. client_daily' \in [Days -> Row \cup {None}]
    <2>1. Upsert(client_daily[day(b.ts)], b.ts, client_bucket(b.ts)) \in Row
      BY <1>0, <1>1, UpsertType DEF TypeOK
    <2> QED BY <1>1, <2>1 DEF Stores, client_upsert, TypeOK
  <1>4. device_daily' \in [Days -> [Index -> Row \cup {None}]]
    <2> DEFINE r == device_daily[day(b.ts)]
    <2> DEFINE n == [i \in Index |-> IF i <= Len(b.gpus) THEN Upsert(r[i], b.ts, device_bucket(b.ts)) ELSE r[i]]
    <2>1. \A i \in Index : r[i] \in Row \cup {None}  BY <1>1 DEF TypeOK
    <2>2. \A i \in Index : Upsert(r[i], b.ts, device_bucket(b.ts)) \in Row
      BY <1>0, <1>1, <2>1, UpsertType
    <2>3. n \in [Index -> Row \cup {None}]  BY <2>1, <2>2
    <2>4. device_daily' = [device_daily EXCEPT ![day(b.ts)] = n]  BY DEF Stores, device_upsert
    <2> HIDE DEF n, r
    <2> QED BY <2>3, <2>4, <1>1 DEF TypeOK
  <1> QED BY <1>2, <1>3, <1>4

LEMMA ProcessorType ==
    ASSUME TypeOK, NEW p \in Procs, Commit(p) \/ Rollback(p) PROVE TypeOK'
  <1>1. Shift(p)  BY DEF Commit, Rollback
  <1>2. batch[p] \in Seq(Beat) /\ batch[p] # <<>>  BY <1>1 DEF Shift, TypeOK
  <1>3. Head(batch[p]) \in Beat /\ Tail(batch[p]) \in Seq(Beat)  BY <1>2, HeadTail
  <1>4. batch' \in [Procs -> Seq(Beat)]  BY <1>1, <1>3 DEF Shift, TypeOK
  <1>5. faults' \in 0..MaxFaults  BY FaultType DEF Commit, Rollback, TypeOK
  <1>6. /\ heartbeat' \subseteq Times /\ device_info' \in Gpus \cup {<<>>}
        /\ client_daily' \in [Days -> Row \cup {None}]
        /\ device_daily' \in [Days -> [Index -> Row \cup {None}]]
    <2>1. CASE Commit(p)
      <3>1. Stores(Head(batch[p]))  BY <2>1 DEF Commit, Stores
      <3> QED BY <3>1, <1>3, StoresType
    <2>2. CASE Rollback(p)  BY <2>2 DEF Rollback, statVars, TypeOK
    <2> QED BY <2>1, <2>2
  <1> QED BY <1>1, <1>4, <1>5, <1>6 DEF Shift, TypeOK, clockVars

LEMMA TodayType == ASSUME TypeOK PROVE Today \in Days /\ Today \in Nat
  BY DayOf DEF TypeOK, Today

LEMMA RefreshType ==
    ASSUME TypeOK, NEW p \in Procs, RefreshReads(p) \/ RefreshEnds(p) PROVE TypeOK'
  <1>1. CASE RefreshReads(p)
    <2> DEFINE rows == [d \in Window |-> [i \in Index |-> daily_points(d, i)]]
    <2> DEFINE new == [today |-> Today, rows |-> rows]
    <2>1. Window \subseteq Days  BY DEF Window
    <2>2. \A d \in Window : rows[d] \in [Index -> PointRow \cup {None}]
      BY <2>1, DailyPointsType
    <2>3. new.today \in Days /\ new.rows = rows /\ DOMAIN rows = Window  BY TodayType
    <2>4. refresh' = [refresh EXCEPT ![p] = new]  BY <1>1 DEF RefreshReads
    <2> HIDE DEF new, rows
    <2>5. DOMAIN refresh' = Procs /\ \A q \in Procs : refresh'[q] = refresh[q] \/ refresh'[q] = new
      BY <2>4 DEF TypeOK
    <2>6. \A q \in Procs : refresh'[q] # None =>
             /\ refresh'[q].today \in Days /\ DOMAIN refresh'[q].rows \subseteq Days
             /\ \A d \in DOMAIN refresh'[q].rows :
                   refresh'[q].rows[d] \in [Index -> PointRow \cup {None}]
      BY <2>1, <2>2, <2>3, <2>5 DEF TypeOK
    <2> QED BY <1>1, <2>5, <2>6 DEF RefreshReads, TypeOK, clockVars, consVars, statVars
  <1>2. CASE RefreshEnds(p)
    <2>1. faults' \in 0..MaxFaults  BY <1>2, FaultType DEF RefreshEnds, TypeOK
    <2>2. points' \in [Days -> [Index -> PointRow \cup {None}]]
      <3>1. CASE UNCHANGED points  BY <3>1 DEF TypeOK
      <3>2. CASE points' = [d \in Days |-> [i \in Index |->
                IF d \in DOMAIN refresh[p].rows /\ refresh[p].rows[d][i] # None
                THEN refresh[p].rows[d][i] ELSE points[d][i]]]
        <4>1. \A d \in Days : \A i \in Index : points[d][i] \in PointRow \cup {None}  BY DEF TypeOK
        <4>2. \A d \in DOMAIN refresh[p].rows : \A i \in Index :
                 refresh[p].rows[d][i] \in PointRow \cup {None}
          BY <1>2 DEF RefreshEnds, TypeOK
        <4> QED BY <3>2, <4>1, <4>2
      <3> QED BY <1>2, <3>1, <3>2 DEF RefreshEnds
    <2>3. DOMAIN refresh' = Procs /\ \A q \in Procs : refresh'[q] = refresh[q] \/ refresh'[q] = None
      BY <1>2 DEF RefreshEnds, TypeOK
    <2> QED BY <1>2, <2>1, <2>2, <2>3 DEF RefreshEnds, TypeOK, clockVars, consVars, statVars
  <1> QED BY <1>1, <1>2

LEMMA TypeStep == ASSUME TypeOK, [Next]_vars PROVE TypeOK'
  <1>1. CASE UNCHANGED vars  BY <1>1 DEF vars, clockVars, consVars, statVars, TypeOK
  <1>2. CASE Next
    <2>1. CASE Tick \/ (\E g \in Gpus : handle_heartbeat(g)) \/ (\E b \in flight : Append_(b))
      BY <2>1, FlightType
    <2>2. ASSUME NEW p \in Procs, ProcStep(p) \/ Rebalance(p) \/ Restart(p) \/ RefreshReads(p) \/ RefreshEnds(p)
          PROVE  TypeOK'
      <3>1. CASE Receive(p) \/ FlushTimeout(p) \/ SendBatch(p) \/ TakeBatch(p)  BY <3>1, ConsumerType
      <3>2. CASE Commit(p) \/ Rollback(p)  BY <3>2, ProcessorType
      <3>3. CASE Rebalance(p) \/ Restart(p)  BY <3>3, FailureType
      <3>4. CASE RefreshReads(p) \/ RefreshEnds(p)  BY <3>4, RefreshType
      <3> QED BY <2>2, <3>1, <3>2, <3>3, <3>4 DEF ProcStep
    <2> QED BY <1>2, <2>1, <2>2 DEF Next
  <1> QED BY <1>1, <1>2

-----------------------------------------------------------------------------
(* The daily tables.                                                        *)

\* A step stores one heartbeat in all the tables, or leaves them as they are.
LEMMA StatStep ==
    ASSUME TypeOK, [Next]_vars
    PROVE  UNCHANGED statVars \/ \E b \in Beat : Stores(b)
  <1>1. ASSUME NEW p \in Procs, Commit(p) PROVE \E b \in Beat : Stores(b)
    <2>1. batch[p] \in Seq(Beat) /\ batch[p] # <<>>  BY <1>1 DEF Commit, Shift, TypeOK
    <2>2. Head(batch[p]) \in Beat  BY <2>1, HeadTail
    <2>3. Stores(Head(batch[p]))  BY <1>1 DEF Commit, Stores
    <2> QED BY <2>2, <2>3
  <1> QED BY <1>1 DEF Next, ProcStep, vars, Tick, handle_heartbeat, Append_, Receive, FlushTimeout,
         SendBatch, TakeBatch, Rollback, Rebalance, Restart, RefreshReads, RefreshEnds

\* A stored heartbeat, day by day.
LEMMA Stored ==
    ASSUME TypeOK, NEW b \in Beat, Stores(b), NEW d \in Days
    PROVE  /\ d # day(b.ts) => /\ Of(d)' = Of(d) /\ client_daily'[d] = client_daily[d]
                               /\ device_daily'[d] = device_daily[d]
           /\ d = day(b.ts) => /\ Of(d)' = Of(d) \cup {b.ts}
                               /\ client_daily'[d] = Upsert(client_daily[d], b.ts, client_bucket(b.ts))
                               /\ \A i \in Index : device_daily'[d][i] =
                                     IF i <= Len(b.gpus)
                                     THEN Upsert(device_daily[d][i], b.ts, device_bucket(b.ts))
                                     ELSE device_daily[d][i]
  <1>1. heartbeat' = heartbeat \cup {b.ts}  BY DEF Stores, insert_heartbeat
  <1>2. d # day(b.ts) => Of(d)' = Of(d)  BY <1>1 DEF Of
  <1>3. d = day(b.ts) => Of(d)' = Of(d) \cup {b.ts}  BY <1>1 DEF Of
  <1>4. /\ d # day(b.ts) => client_daily'[d] = client_daily[d]
        /\ d = day(b.ts) => client_daily'[d] = Upsert(client_daily[d], b.ts, client_bucket(b.ts))
    BY DEF Stores, client_upsert, TypeOK
  <1>5. /\ d # day(b.ts) => device_daily'[d] = device_daily[d]
        /\ d = day(b.ts) => \A i \in Index : device_daily'[d][i] =
                                IF i <= Len(b.gpus)
                                THEN Upsert(device_daily[d][i], b.ts, device_bucket(b.ts))
                                ELSE device_daily[d][i]
    BY DEF Stores, device_upsert, TypeOK
  <1> QED BY <1>2, <1>3, <1>4, <1>5

\* The latest of the heartbeats a row has seen.
LEMMA UpsertLast ==
    ASSUME NEW row \in Row \cup {None}, NEW ts \in Times, NEW k \in Nat
    PROVE  /\ Upsert(row, ts, k) # None
           /\ row = None => Upsert(row, ts, k).last = ts
           /\ row # None /\ ts > row.last => Upsert(row, ts, k).last = ts
           /\ row # None /\ ~(ts > row.last) => Upsert(row, ts, k).last = row.last
  <1>1. Upsert(row, ts, k) \in Row  BY UpsertType
  <1> QED BY <1>1, HeartbeatAssumption DEF Upsert

LEMMA AllOrNothingStep ==
    ASSUME TypeOK, AllOrNothing, DeviceBehind, [Next]_vars
    PROVE  AllOrNothing' /\ DeviceBehind'
  <1>1. CASE UNCHANGED statVars  BY <1>1 DEF statVars, AllOrNothing, DeviceBehind, Of
  <1>2. ASSUME NEW b \in Beat, Stores(b) PROVE AllOrNothing' /\ DeviceBehind'
    <2>0. b.ts \in Times /\ b.ts \in Nat /\ b.gpus \in Gpus /\ b.gpus # <<>>
          /\ client_bucket(b.ts) \in Nat /\ device_bucket(b.ts) \in Nat
      BY <1>2, HeartbeatAssumption, BucketType DEF Beat, Stores
    <2>1. Len(b.gpus) \in Nat /\ Len(b.gpus) >= 1 /\ 1 \in Index
      BY <2>0, GpuLength DEF Index
    <2> SUFFICES ASSUME NEW d \in Days
                 PROVE  /\ client_daily'[d] # None <=> Of(d)' # {}
                        /\ client_daily'[d] # None =>
                              /\ client_daily'[d].last \in Of(d)'
                              /\ \A t \in Of(d)' : t <= client_daily'[d].last
                              /\ \E i \in Index : device_daily'[d][i] # None /\
                                     device_daily'[d][i].last = client_daily'[d].last
                        /\ \A i \in Index : device_daily'[d][i] # None =>
                              client_daily'[d] # None /\ device_daily'[d][i].last <= client_daily'[d].last
      BY DEF AllOrNothing, DeviceBehind
    <2>2. CASE d # day(b.ts)
      <3>1. Of(d)' = Of(d) /\ client_daily'[d] = client_daily[d] /\ device_daily'[d] = device_daily[d]
        BY <1>2, <2>2, Stored
      <3> QED BY <3>1 DEF AllOrNothing, DeviceBehind
    <2>3. CASE d = day(b.ts)
      <3> DEFINE old == client_daily[d]
      <3> DEFINE new == client_daily'[d]
      <3>1. /\ Of(d)' = Of(d) \cup {b.ts}
            /\ new = Upsert(old, b.ts, client_bucket(b.ts))
            /\ \A i \in Index : device_daily'[d][i] =
                  IF i <= Len(b.gpus) THEN Upsert(device_daily[d][i], b.ts, device_bucket(b.ts))
                                      ELSE device_daily[d][i]
        BY <1>2, <2>3, Stored
      <3>2. old \in Row \cup {None} /\ \A i \in Index : device_daily[d][i] \in Row \cup {None}
        BY DEF TypeOK
      <3>3. /\ new # None
            /\ old = None => new.last = b.ts
            /\ old # None /\ b.ts > old.last => new.last = b.ts
            /\ old # None /\ ~(b.ts > old.last) => new.last = old.last
        <4> HIDE DEF old, new
        <4>1. PICK k \in Nat : k = client_bucket(b.ts)  BY <2>0
        <4>2. new = Upsert(old, b.ts, k)  BY <3>1, <4>1
        <4>3. /\ Upsert(old, b.ts, k) # None
              /\ old = None => Upsert(old, b.ts, k).last = b.ts
              /\ old # None /\ b.ts > old.last => Upsert(old, b.ts, k).last = b.ts
              /\ old # None /\ ~(b.ts > old.last) => Upsert(old, b.ts, k).last = old.last
          BY <2>0, <3>2, UpsertLast
        <4> QED BY <4>2, <4>3
      <3>4. \A i \in Index : i <= Len(b.gpus) =>
               LET r == device_daily[d][i] IN
               /\ device_daily'[d][i] # None
               /\ r = None => device_daily'[d][i].last = b.ts
               /\ r # None /\ b.ts > r.last => device_daily'[d][i].last = b.ts
               /\ r # None /\ ~(b.ts > r.last) => device_daily'[d][i].last = r.last
        BY <2>0, <3>1, <3>2, UpsertLast
      <3>5. \A i \in Index : ~(i <= Len(b.gpus)) => device_daily'[d][i] = device_daily[d][i]
        BY <3>1
      <3>6. /\ old # None <=> Of(d) # {}
            /\ old # None => /\ old.last \in Of(d) /\ \A t \in Of(d) : t <= old.last
                             /\ \E i \in Index : device_daily[d][i] # None /\ device_daily[d][i].last = old.last
            /\ \A i \in Index : device_daily[d][i] # None => old # None /\ device_daily[d][i].last <= old.last
        BY DEF AllOrNothing, DeviceBehind
      <3>7. /\ old # None => old.last \in Nat
            /\ \A i \in Index : device_daily[d][i] # None => device_daily[d][i].last \in Nat
            /\ \A t \in Of(d) : t \in Nat
        BY <3>2, HeartbeatAssumption DEF Row, Of, TypeOK
      <3>8. Of(d)' # {} /\ new.last \in Of(d)' /\ \A t \in Of(d)' : t <= new.last
        <4> HIDE DEF old, new
        <4> QED BY <2>0, <3>1, <3>3, <3>6, <3>7
      <3>9. \A i \in Index : device_daily'[d][i] # None => device_daily'[d][i].last <= new.last
        <4> HIDE DEF old, new
        <4> SUFFICES ASSUME NEW i \in Index, device_daily'[d][i] # None
                     PROVE  device_daily'[d][i].last <= new.last
          OBVIOUS
        <4>1. CASE i <= Len(b.gpus)  BY <4>1, <2>0, <3>3, <3>4, <3>6, <3>7
        <4>2. CASE ~(i <= Len(b.gpus))  BY <4>2, <2>0, <3>3, <3>5, <3>6, <3>7
        <4> QED BY <4>1, <4>2
      <3>10. \E i \in Index : device_daily'[d][i] # None /\ device_daily'[d][i].last = new.last
        <4> HIDE DEF old, new
        <4>1. CASE old = None  BY <4>1, <2>1, <3>3, <3>4, <3>6
        <4>2. CASE old # None /\ b.ts > old.last
          <5>1. device_daily[d][1] # None => b.ts > device_daily[d][1].last
            BY <4>2, <2>0, <2>1, <3>6, <3>7
          <5> QED BY <4>2, <5>1, <2>1, <3>3, <3>4
        <4>3. CASE old # None /\ ~(b.ts > old.last)
          <5>1. PICK i \in Index : device_daily[d][i] # None /\ device_daily[d][i].last = old.last
            BY <4>3, <3>6
          <5>2. device_daily'[d][i] # None /\ device_daily'[d][i].last = old.last
            BY <4>3, <5>1, <3>4, <3>5
          <5> QED BY <4>3, <5>2, <3>3
        <4> QED BY <4>1, <4>2, <4>3
      <3> QED BY <3>3, <3>8, <3>9, <3>10
    <2> QED BY <2>2, <2>3
  <1> QED BY <1>1, <1>2, StatStep


-----------------------------------------------------------------------------
(* Counting buckets.                                                        *)

LEMMA UpToFinite ==
    ASSUME NEW B, NEW k \in Nat
    PROVE  IsFiniteSet(B \cap UpTo(k)) /\ Cardinality(B \cap UpTo(k)) \in Nat
  <1>1. IsFiniteSet(UpTo(k))  BY FS_Interval DEF UpTo
  <1>2. IsFiniteSet(B \cap UpTo(k))  BY <1>1, FS_Subset
  <1> QED BY <1>2, FS_CardinalityType

LEMMA CountGrows ==
    ASSUME NEW row \in Row \cup {None}, NEW B, NEW C, B \subseteq C, CountedIn(row, B)
    PROVE  CountedIn(row, C)
  <1> SUFFICES ASSUME row # None PROVE row.total \in 1..Cardinality(C \cap UpTo(row.bucket))
    BY DEF CountedIn
  <1>1. row.bucket \in Nat /\ row.total \in Nat  BY DEF Row
  <1> DEFINE S == B \cap UpTo(row.bucket)
  <1> DEFINE U == C \cap UpTo(row.bucket)
  <1>2. S \subseteq U /\ IsFiniteSet(U)  BY <1>1, UpToFinite
  <1>3. Cardinality(S) <= Cardinality(U) /\ Cardinality(U) \in Nat /\ Cardinality(S) \in Nat
    BY <1>1, <1>2, FS_Subset, UpToFinite
  <1>4. row.total \in 1..Cardinality(S)  BY DEF CountedIn
  <1> QED BY <1>1, <1>3, <1>4

LEMMA CountUpsert ==
    ASSUME NEW row \in Row \cup {None}, NEW ts \in Times, NEW k \in Nat,
           NEW B, NEW C, B \subseteq C, k \in C, CountedIn(row, B)
    PROVE  CountedIn(Upsert(row, ts, k), C)
  <1>1. CASE row = None
    <2>1. Upsert(row, ts, k).total = 1 /\ Upsert(row, ts, k).bucket = k  BY <1>1 DEF Upsert
    <2>2. {k} \subseteq C \cap UpTo(k)  BY DEF UpTo
    <2>3. IsFiniteSet(C \cap UpTo(k)) /\ Cardinality(C \cap UpTo(k)) \in Nat  BY UpToFinite
    <2>4. Cardinality({k}) = 1  BY FS_Singleton
    <2>5. 1 <= Cardinality(C \cap UpTo(k))  BY <2>2, <2>3, <2>4, FS_Subset
    <2> QED BY <2>1, <2>3, <2>5 DEF CountedIn
  <1>2. CASE row # None /\ k > row.bucket
    <2>1. row.bucket \in Nat /\ row.total \in Nat  BY <1>2 DEF Row
    <2> DEFINE S == B \cap UpTo(row.bucket)
    <2> DEFINE U == C \cap UpTo(k)
    <2>2. Upsert(row, ts, k).total = row.total + 1 /\ Upsert(row, ts, k).bucket = k  BY <1>2 DEF Upsert
    <2>3. k \notin S /\ S \cup {k} \subseteq U  BY <1>2, <2>1 DEF UpTo
    <2>4. IsFiniteSet(S) /\ Cardinality(S) \in Nat /\ IsFiniteSet(U) /\ Cardinality(U) \in Nat
      BY <2>1, UpToFinite
    <2>5. row.total \in 1..Cardinality(S)  BY <1>2 DEF CountedIn
    <2> HIDE DEF S, U
    <2>6. Cardinality(S \cup {k}) = Cardinality(S) + 1  BY <2>3, <2>4, FS_AddElement
    <2>7. Cardinality(S \cup {k}) <= Cardinality(U)  BY <2>3, <2>4, FS_Subset
    <2>8. row.total + 1 \in 1..Cardinality(U)  BY <2>1, <2>4, <2>5, <2>6, <2>7
    <2> QED BY <2>2, <2>8 DEF CountedIn, U
  <1>3. CASE row # None /\ ~(k > row.bucket)
    <2>1. Upsert(row, ts, k).total = row.total /\ Upsert(row, ts, k).bucket = row.bucket
      BY <1>3 DEF Upsert, Row
    <2>2. CountedIn(row, C)  BY CountGrows
    <2> QED BY <1>3, <2>1, <2>2 DEF CountedIn
  <1> QED BY <1>1, <1>2, <1>3

LEMMA CountedStep ==
    ASSUME TypeOK, Counted, [Next]_vars PROVE Counted'
  <1>1. CASE UNCHANGED statVars  BY <1>1 DEF statVars, Counted, Of
  <1>2. ASSUME NEW b \in Beat, Stores(b) PROVE Counted'
    <2>0. b.ts \in Times /\ client_bucket(b.ts) \in Nat /\ device_bucket(b.ts) \in Nat
      BY HeartbeatAssumption, BucketType DEF Beat
    <2>1. IsFiniteSet(heartbeat')
      <3>1. heartbeat' = heartbeat \cup {b.ts}  BY <1>2 DEF Stores, insert_heartbeat
      <3> QED BY <3>1, FS_AddElement DEF Counted
    <2>2. ASSUME NEW d \in Days
          PROVE  /\ CountedIn(client_daily'[d], {client_bucket(t) : t \in Of(d)'})
                 /\ \A i \in Index : CountedIn(device_daily'[d][i], {device_bucket(t) : t \in Of(d)'})
      <3> DEFINE B == {client_bucket(t) : t \in Of(d)}
      <3> DEFINE C == {client_bucket(t) : t \in Of(d)'}
      <3> DEFINE D == {device_bucket(t) : t \in Of(d)}
      <3> DEFINE E == {device_bucket(t) : t \in Of(d)'}
      <3>1. CountedIn(client_daily[d], B) /\ \A i \in Index : CountedIn(device_daily[d][i], D)
        BY DEF Counted
      <3>2. client_daily[d] \in Row \cup {None} /\ \A i \in Index : device_daily[d][i] \in Row \cup {None}
        BY DEF TypeOK
      <3>3. CASE d # day(b.ts)
        <4>1. Of(d)' = Of(d) /\ client_daily'[d] = client_daily[d] /\ device_daily'[d] = device_daily[d]
          BY <1>2, <3>3, Stored
        <4> QED BY <4>1, <3>1
      <3>4. CASE d = day(b.ts)
        <4>1. /\ Of(d)' = Of(d) \cup {b.ts}
              /\ client_daily'[d] = Upsert(client_daily[d], b.ts, client_bucket(b.ts))
              /\ \A i \in Index : device_daily'[d][i] =
                    IF i <= Len(b.gpus) THEN Upsert(device_daily[d][i], b.ts, device_bucket(b.ts))
                                        ELSE device_daily[d][i]
          BY <1>2, <3>4, Stored
        <4>2. B \subseteq C /\ client_bucket(b.ts) \in C /\ D \subseteq E /\ device_bucket(b.ts) \in E
          BY <4>1
        <4> HIDE DEF B, C, D, E
        <4>3. CountedIn(Upsert(client_daily[d], b.ts, client_bucket(b.ts)), C)
          BY <2>0, <3>1, <3>2, <4>2, CountUpsert
        <4>4. \A i \in Index : CountedIn(Upsert(device_daily[d][i], b.ts, device_bucket(b.ts)), E)
          BY <2>0, <3>1, <3>2, <4>2, CountUpsert
        <4>5. \A i \in Index : CountedIn(device_daily[d][i], E)  BY <3>1, <3>2, <4>2, CountGrows
        <4>6. CountedIn(client_daily'[d], C)  BY <4>1, <4>3
        <4>7. \A i \in Index : CountedIn(device_daily'[d][i], E)  BY <4>1, <4>4, <4>5
        <4> QED BY <4>6, <4>7 DEF C, E
      <3> QED BY <3>3, <3>4
    <2> QED BY <2>1, <2>2 DEF Counted
  <1> QED BY <1>1, <1>2, StatStep

-----------------------------------------------------------------------------
(* A day has DaySecs \div Interval buckets.                                 *)

LEMMA MulMono ==
    ASSUME NEW a \in Int, NEW c \in Int, NEW k \in Nat, a <= c
    PROVE  k * a <= k * c
  OBVIOUS

LEMMA DivBounds ==
    ASSUME NEW a \in Nat, NEW k \in Nat, k # 0
    PROVE  a \div k \in Nat /\ k * (a \div k) <= a /\ a < k * ((a \div k) + 1)
  OBVIOUS

LEMMA Divides ==
    ASSUME NEW a \in Nat, NEW k \in Nat, k # 0, a % k = 0
    PROVE  k * (a \div k) = a
  OBVIOUS

LEMMA DayBuckets ==
    ASSUME DaySecs % Interval = 0, NEW t \in Nat
    PROVE  LET K == DaySecs \div Interval IN
           device_bucket(t) \in (K * day(t))..(K * day(t) + K - 1)
  <1> DEFINE K == DaySecs \div Interval
  <1> DEFINE s == t \div 2
  <1> DEFINE q == device_bucket(t)
  <1> DEFINE d == day(t)
  <1> DEFINE n == 2 * DaySecs
  <1>0. /\ DaySecs \in Nat /\ DaySecs # 0 /\ Interval \in Nat /\ Interval # 0 /\ K \in Nat /\ n \in Nat /\ n # 0
        /\ Interval * K = DaySecs
    BY HeartbeatAssumption, DivBounds, Divides
  <1>1. d \in Nat /\ n * d <= t /\ t < n * (d + 1)
    BY <1>0, DivBounds DEF day
  <1>2. s \in Nat /\ 2 * s <= t /\ t < 2 * (s + 1)  BY DivBounds
  <1>3. q \in Nat /\ Interval * q <= s /\ s < Interval * (q + 1)
    BY <1>0, <1>2, DivBounds DEF device_bucket
  <1> HIDE DEF K, s, q, d
  <1>4. DaySecs * d <= s /\ s < DaySecs * (d + 1)
    <2>1. n * d = 2 * (DaySecs * d) /\ n * (d + 1) = 2 * (DaySecs * (d + 1))  BY <1>0, <1>1
    <2>2. DaySecs * d \in Nat /\ DaySecs * (d + 1) \in Nat  BY <1>0, <1>1
    <2> HIDE DEF n
    <2> QED BY <1>1, <1>2, <2>1, <2>2
  <1>5. DaySecs * d = Interval * (K * d) /\ DaySecs * (d + 1) = Interval * (K * (d + 1))
    BY <1>0, <1>1
  <1>6. K * d \in Nat /\ K * (d + 1) \in Nat /\ K * (d + 1) = K * d + K  BY <1>0, <1>1
  <1>7. K * d <= q
    <2> SUFFICES ASSUME q + 1 <= K * d PROVE FALSE  BY <1>3, <1>6
    <2>1. Interval * (q + 1) <= Interval * (K * d)  BY <1>0, <1>3, <1>6, MulMono
    <2>2. Interval * (q + 1) \in Nat /\ Interval * (K * d) \in Nat  BY <1>0, <1>3, <1>6
    <2> QED BY <1>2, <1>3, <1>4, <1>5, <2>1, <2>2
  <1>8. q <= K * d + K - 1
    <2> SUFFICES ASSUME K * (d + 1) <= q PROVE FALSE  BY <1>0, <1>3, <1>6
    <2>1. Interval * (K * (d + 1)) <= Interval * q  BY <1>0, <1>3, <1>6, MulMono
    <2>2. Interval * q \in Nat /\ Interval * (K * (d + 1)) \in Nat  BY <1>0, <1>3, <1>6
    <2> QED BY <1>2, <1>3, <1>4, <1>5, <2>1, <2>2
  <1>9. q \in (K * d)..(K * d + K - 1)  BY <1>0, <1>3, <1>6, <1>7, <1>8
  <1> QED BY <1>9 DEF K, q, d


LEMMA DayPays ==
    ASSUME TypeOK, Counted, NEW d \in Days, NEW i \in Index
    PROVE  Fair(daily_points(d, i))
  <1> SUFFICES ASSUME daily_points(d, i) # None, DaySecs % Interval = 0
               PROVE  daily_points(d, i).hours * HourSecs <= DaySecs
    BY DEF Fair
  <1> DEFINE row == device_daily[d][i]
  <1> DEFINE B == {device_bucket(t) : t \in Of(d)}
  <1> DEFINE K == DaySecs \div Interval
  <1>1. row # None /\ daily_points(d, i).hours = (row.total * Interval) \div HourSecs
    BY DEF daily_points
  <1>2. row.total \in Nat /\ row.bucket \in Nat  BY <1>1 DEF TypeOK, Row
  <1>3. row.total \in 1..Cardinality(B \cap UpTo(row.bucket))  BY <1>1 DEF Counted, CountedIn
  <1>4. /\ DaySecs \in Nat /\ Interval \in Nat /\ Interval # 0 /\ HourSecs \in Nat /\ HourSecs # 0
        /\ K \in Nat /\ Interval * K = DaySecs /\ d \in Nat
    BY HeartbeatAssumption, DivBounds, Divides, DaysNat
  <1>5. B \subseteq (K * d)..(K * d + K - 1)
    <2> SUFFICES ASSUME NEW t \in Of(d) PROVE device_bucket(t) \in (K * d)..(K * d + K - 1)  OBVIOUS
    <2>1. t \in Nat /\ day(t) = d  BY HeartbeatAssumption DEF Of, TypeOK
    <2> QED BY <2>1, DayBuckets
  <1> HIDE DEF row, B, K
  <1>6. K * d \in Nat  BY <1>4
  <1>7. IsFiniteSet((K * d)..(K * d + K - 1)) /\ Cardinality((K * d)..(K * d + K - 1)) = K
    <2> DEFINE x == K * d
    <2>1. x \in Nat  BY <1>6
    <2> HIDE DEF x
    <2>2. IsFiniteSet(x..(x + K - 1))
          /\ Cardinality(x..(x + K - 1)) = IF x > x + K - 1 THEN 0 ELSE (x + K - 1) - x + 1
      BY <1>4, <2>1, FS_Interval
    <2>3. Cardinality(x..(x + K - 1)) = K  BY <1>4, <2>1, <2>2
    <2> QED BY <2>2, <2>3 DEF x
  <1>8. B \cap UpTo(row.bucket) \subseteq (K * d)..(K * d + K - 1)  BY <1>5
  <1>9. Cardinality(B \cap UpTo(row.bucket)) <= K  BY <1>7, <1>8, FS_Subset
  <1>10. row.total <= K
    <2> DEFINE c == Cardinality(B \cap UpTo(row.bucket))
    <2>1. c \in Nat  BY <1>2, UpToFinite
    <2>2. row.total \in 1..c /\ c <= K  BY <1>3, <1>9
    <2> HIDE DEF c
    <2> QED BY <1>2, <1>4, <2>1, <2>2
  <1>11. Interval * row.total <= Interval * K  BY <1>2, <1>4, <1>10, MulMono
  <1> DEFINE paid == row.total * Interval
  <1>12. paid \in Nat /\ paid <= DaySecs  BY <1>2, <1>4, <1>11
  <1>13. daily_points(d, i).hours = paid \div HourSecs  BY <1>1 DEF row
  <1> HIDE DEF paid
  <1>14. paid \div HourSecs \in Nat /\ HourSecs * (paid \div HourSecs) <= paid  BY <1>4, <1>12, DivBounds
  <1>15. daily_points(d, i).hours \in Nat /\ HourSecs * daily_points(d, i).hours <= DaySecs
    BY <1>4, <1>12, <1>13, <1>14
  <1> QED BY <1>4, <1>15

-----------------------------------------------------------------------------
(* The refresher.                                                           *)

\* Outside the refresher points and refresh stay, but for a process that restarts.
LEMMA RefreshSteps ==
    ASSUME TypeOK, [Next]_vars
    PROVE  \/ \E p \in Procs : RefreshReads(p) \/ RefreshEnds(p)
           \/ UNCHANGED points /\ \A p \in Procs : refresh'[p] \in {refresh[p], None}
  <1>1. CASE UNCHANGED <<points, refresh>>  BY <1>1
  <1>2. ASSUME NEW p \in Procs, Restart(p)
        PROVE  UNCHANGED points /\ \A q \in Procs : refresh'[q] \in {refresh[q], None}
    BY <1>2 DEF Restart, TypeOK
  <1>3. UNCHANGED <<points, refresh>> \/ \E p \in Procs : Restart(p) \/ RefreshReads(p) \/ RefreshEnds(p)
    BY DEF Next, ProcStep, vars, Tick, handle_heartbeat, Append_, Receive, FlushTimeout,
         SendBatch, TakeBatch, Commit, Rollback, Shift, Rebalance
  <1> QED BY <1>1, <1>2, <1>3

LEMMA PaidStep ==
    ASSUME TypeOK, Counted, PaidFairly, [Next]_vars PROVE PaidFairly'
  <1>1. CASE UNCHANGED points /\ \A p \in Procs : refresh'[p] \in {refresh[p], None}
    BY <1>1 DEF PaidFairly
  <1>2. ASSUME NEW p \in Procs, RefreshReads(p) PROVE PaidFairly'
    <2> DEFINE rows == [d \in Window |-> [i \in Index |-> daily_points(d, i)]]
    <2> DEFINE new == [today |-> Today, rows |-> rows]
    <2>1. new.rows = rows /\ DOMAIN rows = Window  OBVIOUS
    <2>2. Window \subseteq Days  BY DEF Window
    <2>3. \A d \in Window : \A i \in Index : rows[d][i] = daily_points(d, i)  OBVIOUS
    <2>4. \A d \in Window : \A i \in Index : Fair(rows[d][i])  BY <2>2, <2>3, DayPays
    <2>5. refresh' = [refresh EXCEPT ![p] = new] /\ UNCHANGED points  BY <1>2 DEF RefreshReads
    <2> HIDE DEF new, rows
    <2>6. \A q \in Procs : refresh'[q] = refresh[q] \/ refresh'[q] = new  BY <2>5 DEF TypeOK
    <2> QED BY <2>1, <2>4, <2>5, <2>6 DEF PaidFairly
  <1>3. ASSUME NEW p \in Procs, RefreshEnds(p) PROVE PaidFairly'
    <2>1. \A q \in Procs : refresh'[q] = refresh[q] \/ refresh'[q] = None  BY <1>3 DEF RefreshEnds, TypeOK
    <2>2. \A d \in Days : \A i \in Index :
             \/ points'[d][i] = points[d][i]
             \/ d \in DOMAIN refresh[p].rows /\ points'[d][i] = refresh[p].rows[d][i]
      BY <1>3 DEF RefreshEnds
    <2>3. \A d \in Days : \A i \in Index : Fair(points'[d][i])
      BY <1>3, <2>2 DEF PaidFairly, RefreshEnds
    <2> QED BY <2>1, <2>3 DEF PaidFairly
  <1> QED BY <1>1, <1>2, <1>3, RefreshSteps

LEMMA RecentStep ==
    ASSUME TypeOK, RefreshIsRecent, [Next]_vars PROVE RefreshIsRecent'
  <1>0. Today \in Nat /\ \A p \in Procs : refresh[p] # None => refresh[p].today \in Nat
    BY TodayType, DaysNat DEF TypeOK
  <1>1. CASE Tick
    <2>1. \A p \in Procs : refresh'[p] = refresh[p]  BY <1>1 DEF Tick
    <2>2. \A p \in Procs : refresh[p] # None => Today' <= refresh[p].today + 1  BY <1>1 DEF Tick, Today
    <2> QED BY <2>1, <2>2 DEF RefreshIsRecent
  <1>2. CASE UNCHANGED now
    <2>0. Today' = Today  BY <1>2 DEF Today
    <2>1. CASE \A p \in Procs : refresh'[p] \in {refresh[p], None}  BY <2>0, <2>1 DEF RefreshIsRecent
    <2>2. ASSUME NEW p \in Procs, RefreshReads(p) PROVE RefreshIsRecent'
      <3> DEFINE rows == [d \in Window |-> [i \in Index |-> daily_points(d, i)]]
      <3> DEFINE new == [today |-> Today, rows |-> rows]
      <3>1. new.rows = rows /\ DOMAIN rows = Window /\ new.today = Today  OBVIOUS
      <3>2. \A d \in Window : d >= Today - 1  BY <1>0 DEF Window
      <3>3. refresh' = [refresh EXCEPT ![p] = new]  BY <2>2 DEF RefreshReads
      <3> HIDE DEF new, rows
      <3>4. \A q \in Procs : refresh'[q] = refresh[q] \/ refresh'[q] = new  BY <3>3 DEF TypeOK
      <3>5. Today <= new.today + 1 /\ \A d \in DOMAIN new.rows : d >= new.today - 1
        BY <1>0, <3>1, <3>2
      <3> QED BY <2>0, <3>4, <3>5 DEF RefreshIsRecent
    <2>3. ASSUME NEW p \in Procs, RefreshEnds(p) PROVE \A q \in Procs : refresh'[q] \in {refresh[q], None}
      BY <2>3 DEF RefreshEnds, TypeOK
    <2> QED BY <2>1, <2>2, <2>3, RefreshSteps
  <1>3. Tick \/ UNCHANGED now
    BY DEF Next, ProcStep, vars, clockVars, handle_heartbeat, Append_, Receive, FlushTimeout,
       SendBatch, TakeBatch, Commit, Rollback, Shift, Rebalance, Restart, RefreshReads, RefreshEnds
  <1> QED BY <1>1, <1>2, <1>3

-----------------------------------------------------------------------------
LEMMA InitInv == Init => IInv
  <1> SUFFICES ASSUME Init PROVE IInv  OBVIOUS
  <1>1. TypeOK  BY InitType
  <1>2. AllOrNothing /\ DeviceBehind  BY DEF Init, AllOrNothing, DeviceBehind, Of
  <1>3. Counted
    <2>1. IsFiniteSet(heartbeat)  BY FS_EmptySet DEF Init
    <2> QED BY <2>1 DEF Init, Counted, CountedIn
  <1>4. PaidFairly /\ RefreshIsRecent  BY DEF Init, PaidFairly, RefreshIsRecent, Fair
  <1> QED BY <1>1, <1>2, <1>3, <1>4 DEF IInv

\* The tables, the consumers and the refresher keep the inductive invariant at every
\* step of the pipeline: transactions of process_batch, refreshes, restarts, rebalances.
THEOREM PipelineInvariance == Spec => []IInv
  <1>1. ASSUME IInv, [Next]_vars PROVE IInv'
    BY <1>1, TypeStep, AllOrNothingStep, CountedStep, PaidStep, RecentStep DEF IInv
  <1> QED BY InitInv, <1>1, PTL DEF Spec

\* process_batch's transaction puts a heartbeat in every table or in none: in every
\* state the rows of a day agree with its heartbeats and with each other.
THEOREM TransactionIsWhole == Spec => []AllOrNothing
  <1>1. IInv => AllOrNothing  BY DEF IInv
  <1> QED BY PipelineInvariance, <1>1, PTL

LEMMA ImageFinite ==
    ASSUME TypeOK, Counted, NEW d \in Days
    PROVE  IsFiniteSet({client_bucket(t) : t \in Of(d)}) /\ IsFiniteSet({device_bucket(t) : t \in Of(d)})
  <1>1. IsFiniteSet(Of(d))
    <2>1. Of(d) \subseteq heartbeat  BY DEF Of
    <2> QED BY <2>1, FS_Subset DEF Counted
  <1> DEFINE f == [t \in Of(d) |-> client_bucket(t)]
  <1> DEFINE g == [t \in Of(d) |-> device_bucket(t)]
  <1> DEFINE B == {client_bucket(t) : t \in Of(d)}
  <1> DEFINE D == {device_bucket(t) : t \in Of(d)}
  <1>3. f \in Surjection(Of(d), B)  BY DEF Surjection
  <1>4. g \in Surjection(Of(d), D)  BY DEF Surjection
  <1> HIDE DEF f, g, B, D
  <1>5. IsFiniteSet(B) /\ IsFiniteSet(D)  BY <1>1, <1>3, <1>4, FS_Surjection
  <1> QED BY <1>5 DEF B, D

\* However heartbeats are repeated and reordered, the upserts count one per bucket, and
\* refresh_device_points_daily pays no more hours than a day has.
THEOREM CountsOncePerBucket == Spec => []OncePerBucket
  <1>1. ASSUME IInv PROVE OncePerBucket
    <2> SUFFICES ASSUME NEW d \in Days
                 PROVE  /\ client_daily[d] # None =>
                             client_daily[d].total \in 1..Cardinality({client_bucket(t) : t \in Of(d)})
                        /\ \A i \in Index : device_daily[d][i] # None =>
                             device_daily[d][i].total \in 1..Cardinality({device_bucket(t) : t \in Of(d)})
                        /\ \A i \in Index : points[d][i] # None /\ DaySecs % Interval = 0 =>
                             points[d][i].hours * HourSecs <= DaySecs
      BY DEF OncePerBucket
    <2> DEFINE B == {client_bucket(t) : t \in Of(d)}
    <2> DEFINE D == {device_bucket(t) : t \in Of(d)}
    <2>1. TypeOK /\ Counted /\ PaidFairly  BY <1>1 DEF IInv
    <2>2. IsFiniteSet(B) /\ IsFiniteSet(D)  BY <2>1, ImageFinite
    <2>3. CountedIn(client_daily[d], B) /\ \A i \in Index : CountedIn(device_daily[d][i], D)
      BY <2>1 DEF Counted
    <2>4. client_daily[d] \in Row \cup {None} /\ \A i \in Index : device_daily[d][i] \in Row \cup {None}
      BY <2>1 DEF TypeOK
    <2> HIDE DEF B, D
    <2>5. ASSUME NEW row \in Row, NEW S, IsFiniteSet(S), CountedIn(row, S)
          PROVE  row.total \in 1..Cardinality(S)
      <3>1. row # None /\ row.bucket \in Nat  BY HeartbeatAssumption DEF Row
      <3>2. row.total \in 1..Cardinality(S \cap UpTo(row.bucket))  BY <2>5, <3>1 DEF CountedIn
      <3>3. Cardinality(S \cap UpTo(row.bucket)) <= Cardinality(S) /\ Cardinality(S) \in Nat
        BY <2>5, FS_Subset, FS_CardinalityType
      <3>4. Cardinality(S \cap UpTo(row.bucket)) \in Nat  BY <3>1, UpToFinite
      <3> QED BY <3>2, <3>3, <3>4
    <2>6. client_daily[d] # None => client_daily[d].total \in 1..Cardinality(B)
      BY <2>2, <2>3, <2>4, <2>5
    <2>7. \A i \in Index : device_daily[d][i] # None => device_daily[d][i].total \in 1..Cardinality(D)
      BY <2>2, <2>3, <2>4, <2>5
    <2>8. \A i \in Index : points[d][i] # None /\ DaySecs % Interval = 0 =>
             points[d][i].hours * HourSecs <= DaySecs
      BY <2>1 DEF PaidFairly, Fair
    <2> QED BY <2>6, <2>7, <2>8 DEF B, D
  <1>2. IInv => OncePerBucket  BY <1>1
  <1> QED BY PipelineInvariance, <1>2, PTL

\* A refresh that ran across midnight still writes no day whose points are final.
THEOREM FinalPointsStay == Spec => PointsBecomeFinal
  <1>1. ASSUME IInv, [Next]_vars PROVE \A d \in Days : d <= Today - 3 => points'[d] = points[d]
    <2>1. TypeOK /\ RefreshIsRecent  BY <1>1 DEF IInv
    <2>2. CASE UNCHANGED points  BY <2>2
    <2>3. ASSUME NEW p \in Procs, RefreshEnds(p), NEW d \in Days, d <= Today - 3
          PROVE  points'[d] = points[d]
      <3>1. Today \in Nat /\ d \in Nat /\ refresh[p] # None /\ refresh[p].today \in Nat
        BY <2>1, <2>3, TodayType, DaysNat DEF TypeOK, RefreshEnds
      <3>2. Today <= refresh[p].today + 1 /\ \A e \in DOMAIN refresh[p].rows : e >= refresh[p].today - 1
        BY <2>1, <3>1 DEF RefreshIsRecent
      <3>3. d \notin DOMAIN refresh[p].rows  BY <2>3, <3>1, <3>2
      <3>4. \A i \in Index : points'[d][i] = points[d][i]  BY <2>3, <3>3 DEF RefreshEnds
      <3>5. points[d] \in [Index -> PointRow \cup {None}] /\ points'[d] \in [Index -> PointRow \cup {None}]
        BY <1>1, <2>1, TypeStep DEF TypeOK
      <3> QED BY <3>4, <3>5
    <2>4. UNCHANGED points \/ \E p \in Procs : RefreshEnds(p)
      BY <1>1, <2>1, RefreshSteps DEF RefreshReads
    <2> QED BY <2>2, <2>3, <2>4
  <1>2. IInv /\ [Next]_vars => [\A d \in Days : d <= Today - 3 => points'[d] = points[d]]_vars
    BY <1>1
  <1> QED BY PipelineInvariance, <1>2, PTL DEF Spec, PointsBecomeFinal
=============================================================================
