-------------------------- MODULE HeartbeatPipeline --------------------------
(* The heartbeats of one client on their way from Kafka into PostgreSQL, and   *)
(* the daily points computed from them.                                        *)
(*                                                                             *)
(* Sources: gpuf-s/src/consumer/ (batching and processing), db/stats.rs (the   *)
(* statements), bin/heartbeat_consumer.rs (the refresher) and                  *)
(* scripts/device_points_daily_incremental.sql (refresh_device_points_daily).  *)
(*                                                                             *)
(* Time is counted in half seconds, because the two statements that compute a  *)
(* heartbeat's bucket round it differently.  The rows of other clients have    *)
(* other keys.  gpu_assets is the subject of ClientRegistry.                   *)
EXTENDS Integers, Sequences, FiniteSets

CONSTANTS
    Procs,        \* heartbeat_consumer processes of one consumer group
    Gpus,         \* sets of GPUs a heartbeat may report: sequences of device types
    Times,        \* instants at which something happens (half seconds)
    DaySecs,      \* seconds of a day (86400)
    Interval,     \* heartbeat_interval_secs (120)
    HourSecs,     \* seconds of an hour (3600)
    BatchSize,    \* --batch-size
    ChanCap,      \* capacity of the channel to the processor (32)
    MaxBeats,     \* bound: heartbeats sent
    MaxFaults,    \* bound: faults
    None

\* A row of either daily table, and one of device_points_daily.
Row == [total : Nat, last : Times, bucket : Nat]
PointRow == [hours : Nat, type : (UNION {{g[i] : i \in 1..Len(g)} : g \in Gpus}) \cup {None}]

ASSUME HeartbeatAssumption ==
    /\ Times \subseteq Nat /\ 0 \in Times
    /\ DaySecs \in Nat \ {0} /\ Interval \in Nat \ {0} /\ HourSecs \in Nat \ {0}
    /\ BatchSize \in Nat \ {0} /\ ChanCap \in Nat \ {0}
    /\ MaxBeats \in Nat /\ MaxFaults \in Nat
    /\ IsFiniteSet(Procs)
    /\ \A g \in Gpus : g \in Seq({g[i] : i \in DOMAIN g})
    /\ None \notin Row

VARIABLES
    now,          \* the clock
    sent,         \* heartbeats stamped and handed to Kafka so far
    flight,       \* heartbeats the broker has not appended yet
    owner,        \* the process the partition is assigned to
    log,          \* the partition after the position of its owner
    buffer,       \* per process: message_buffer
    sending,      \* per process: the consumer task is in tx.send
    queue,        \* per process: the channel of batches
    batch,        \* per process: the rest of the batch in process_batch
    heartbeat,    \* table heartbeat: its timestamps
    client_daily, \* table client_daily_stats by day
    device_daily, \* table device_daily_stats by day and device index
    device_info,  \* table device_info: the current devices
    points,       \* table device_points_daily by day and device index
    refresh,      \* per process: the refresh that has read but not committed
    faults        \* faults so far

clockVars == <<now, sent, flight>>
consVars == <<owner, buffer, sending, queue, batch>>
statVars == <<heartbeat, client_daily, device_daily, device_info>>
vars == <<clockVars, log, consVars, statVars, points, refresh, faults>>

Beat == [ts : Times, gpus : Gpus]

\* timestamp.date_naive()
day(ts) == ts \div (2 * DaySecs)
Days == {day(t) : t \in Times}
Today == day(now)
Index == UNION {1..Len(g) : g \in Gpus}

Init ==
    /\ now = 0 /\ sent = 0 /\ flight = {} /\ log = <<>>
    /\ owner \in Procs
    /\ buffer = [p \in Procs |-> <<>>]
    /\ sending = [p \in Procs |-> FALSE]
    /\ queue = [p \in Procs |-> <<>>]
    /\ batch = [p \in Procs |-> <<>>]
    /\ heartbeat = {}
    /\ client_daily = [d \in Days |-> None]
    /\ device_daily = [d \in Days |-> [i \in Index |-> None]]
    /\ device_info = <<>>
    /\ points = [d \in Days |-> [i \in Index |-> None]]
    /\ refresh = [p \in Procs |-> None]
    /\ faults = 0

Fault == faults < MaxFaults /\ faults' = faults + 1

-----------------------------------------------------------------------------
(* The server and the broker.                                               *)

\* Time passes; a refresh ends before the day after the next begins.
Tick ==
    /\ \E t \in Times : t > now /\ now' = t
    /\ \A p \in Procs : refresh[p] # None => day(now') <= refresh[p].today + 1
    /\ UNCHANGED <<sent, flight, log, consVars, statVars, points, refresh, faults>>

\* handle_heartbeat: the record gets its timestamp in producer.send.
handle_heartbeat(g) ==
    /\ sent < MaxBeats
    /\ sent' = sent + 1
    /\ flight' = flight \cup {[ts |-> now, gpus |-> g]}
    /\ UNCHANGED <<now, log, consVars, statVars, points, refresh, faults>>

\* The broker appends a record; the producer repeats it if the acknowledgement is
\* lost.  Records of two sessions of a client may overtake each other.
Append_(b) ==
    /\ b \in flight
    /\ log' = Append(log, b)
    /\ \/ flight' = flight \ {b} /\ UNCHANGED faults
       \/ Fault /\ UNCHANGED flight
    /\ UNCHANGED <<now, sent, consVars, statVars, points, refresh>>

-----------------------------------------------------------------------------
(* start_consumer, one per process.                                         *)

\* recv, and the batch is due when it is full.
Receive(p) ==
    /\ owner = p /\ ~sending[p] /\ log # <<>>
    /\ buffer' = [buffer EXCEPT ![p] = Append(@, Head(log))]
    /\ sending' = [sending EXCEPT ![p] = Len(buffer[p]) + 1 >= BatchSize]
    /\ log' = Tail(log)
    /\ UNCHANGED <<clockVars, owner, queue, batch, statVars, points, refresh, faults>>

\* Variant: only full batches are sent.
FlushTimeout_Full(p) ==
    /\ ~sending[p] /\ Len(buffer[p]) >= BatchSize
    /\ sending' = [sending EXCEPT ![p] = TRUE]
    /\ UNCHANGED <<clockVars, log, owner, buffer, queue, batch, statVars, points,
                   refresh, faults>>

\* No message arrived within flush_interval.
FlushTimeout(p) ==
    /\ ~sending[p] /\ buffer[p] # <<>>
    /\ sending' = [sending EXCEPT ![p] = TRUE]
    /\ UNCHANGED <<clockVars, log, owner, buffer, queue, batch, statVars, points,
                   refresh, faults>>

\* tx.send, which waits for room.
SendBatch(p) ==
    /\ sending[p] /\ Len(queue[p]) < ChanCap
    /\ queue' = [queue EXCEPT ![p] = Append(@, buffer[p])]
    /\ buffer' = [buffer EXCEPT ![p] = <<>>]
    /\ sending' = [sending EXCEPT ![p] = FALSE]
    /\ UNCHANGED <<clockVars, log, owner, batch, statVars, points, refresh, faults>>

\* The group gives the partition to another process.  No offset is ever committed,
\* so it starts at the end of the log.
Rebalance(p) ==
    /\ owner # p /\ Fault
    /\ owner' = p
    /\ log' = <<>>
    /\ UNCHANGED <<clockVars, buffer, sending, queue, batch, statVars, points, refresh>>

\* The process is stopped and started again: what it had read is gone, and it too
\* starts at the end of the log.
Restart(p) ==
    /\ Fault
    /\ buffer' = [buffer EXCEPT ![p] = <<>>]
    /\ sending' = [sending EXCEPT ![p] = FALSE]
    /\ queue' = [queue EXCEPT ![p] = <<>>]
    /\ batch' = [batch EXCEPT ![p] = <<>>]
    /\ refresh' = [refresh EXCEPT ![p] = None]
    /\ log' = IF owner = p THEN <<>> ELSE log
    /\ UNCHANGED <<clockVars, owner, statVars, points>>

-----------------------------------------------------------------------------
(* start_processor and process_batch: a transaction per heartbeat.          *)

TakeBatch(p) ==
    /\ batch[p] = <<>> /\ queue[p] # <<>>
    /\ batch' = [batch EXCEPT ![p] = Head(queue[p])]
    /\ queue' = [queue EXCEPT ![p] = Tail(@)]
    /\ UNCHANGED <<clockVars, log, owner, buffer, sending, statVars, points, refresh, faults>>

\* EXTRACT(EPOCH FROM ts)::BIGINT / interval: the cast rounds to the nearest second.
client_bucket(ts) == ((ts + 1) \div 2) \div Interval

\* timestamp.timestamp() / interval_secs: whole seconds, rounded down.
device_bucket(ts) == (ts \div 2) \div Interval

\* Variant: a heartbeat of the bucket counted last is counted again.
Upsert_Again(row, ts, bucket) ==
    IF row = None
    THEN [total |-> 1, last |-> ts, bucket |-> bucket]
    ELSE [total  |-> row.total + (IF bucket >= row.bucket THEN 1 ELSE 0),
          last   |-> IF ts > row.last THEN ts ELSE row.last,
          bucket |-> IF bucket > row.bucket THEN bucket ELSE row.bucket]

\* INSERT ... ON CONFLICT DO UPDATE of both daily tables.
Upsert(row, ts, bucket) ==
    IF row = None
    THEN [total |-> 1, last |-> ts, bucket |-> bucket]
    ELSE [total  |-> row.total + (IF bucket > row.bucket THEN 1 ELSE 0),
          last   |-> IF ts > row.last THEN ts ELSE row.last,
          bucket |-> IF bucket > row.bucket THEN bucket ELSE row.bucket]

\* insert_heartbeat ...
insert_heartbeat(b) ==
    /\ heartbeat' = heartbeat \cup {b.ts}
    /\ device_info' = b.gpus

\* ... ClientDailyStats::upsert ...
client_upsert(b) ==
    client_daily' = [client_daily EXCEPT ![day(b.ts)] = Upsert(@, b.ts, client_bucket(b.ts))]

\* ... DeviceDailyStats::upsert_batch.
device_upsert(b) ==
    device_daily' = [device_daily EXCEPT ![day(b.ts)] = [i \in Index |->
        IF i <= Len(b.gpus) THEN Upsert(@[i], b.ts, device_bucket(b.ts)) ELSE @[i]]]

Shift(p) ==
    /\ batch[p] # <<>>
    /\ batch' = [batch EXCEPT ![p] = Tail(@)]
    /\ UNCHANGED <<clockVars, log, owner, buffer, sending, queue, points, refresh>>

\* The transaction commits.
Commit(p) ==
    /\ Shift(p) /\ UNCHANGED faults
    /\ LET b == Head(batch[p]) IN
          /\ b.gpus # <<>>
          /\ insert_heartbeat(b) /\ client_upsert(b) /\ device_upsert(b)

\* Variant: the statements run outside a transaction, and a later one fails.
Rollback_Partial(p) ==
    /\ Shift(p) /\ Fault
    /\ insert_heartbeat(Head(batch[p])) /\ client_upsert(Head(batch[p]))
    /\ UNCHANGED device_daily

\* It fails, and the heartbeat is dropped: no devices were found (num = 0 leaves an
\* INSERT without values), the payload cannot be decoded, or the database fails.
Rollback(p) ==
    /\ Shift(p)
    /\ \/ Head(batch[p]).gpus = <<>> /\ UNCHANGED faults
       \/ Fault
    /\ UNCHANGED statVars

-----------------------------------------------------------------------------
(* The refresher.                                                           *)

\* Variant: the refresh goes back two days.
Window_Wide == {d \in Days : d \in (Today - 2)..Today}

\* start_date and end_date of refresh_device_points_daily.
Window == {d \in Days : d \in (Today - 1)..Today}

\* The SELECT: whole hours of heartbeats, valued by what the device is now.
daily_points(d, i) ==
    IF device_daily[d][i] = None THEN None
    ELSE [hours |-> (device_daily[d][i].total * Interval) \div HourSecs,
          type  |-> IF i <= Len(device_info) THEN device_info[i] ELSE None]

RefreshReads(p) ==
    /\ refresh[p] = None
    /\ refresh' = [refresh EXCEPT ![p] =
           [today |-> Today,
            rows  |-> [d \in Window |-> [i \in Index |-> daily_points(d, i)]]]]
    /\ UNCHANGED <<clockVars, log, consVars, statVars, points, faults>>

\* The INSERT ... ON CONFLICT DO UPDATE commits what was read, even if another
\* process has refreshed the rows since; or it fails.
RefreshEnds(p) ==
    /\ refresh[p] # None
    /\ refresh' = [refresh EXCEPT ![p] = None]
    /\ \/ /\ points' = [d \in Days |-> [i \in Index |->
                IF d \in DOMAIN refresh[p].rows /\ refresh[p].rows[d][i] # None
                THEN refresh[p].rows[d][i] ELSE points[d][i]]]
          /\ UNCHANGED faults
       \/ Fault /\ UNCHANGED points
    /\ UNCHANGED <<clockVars, log, consVars, statVars>>

-----------------------------------------------------------------------------
ProcStep(p) ==
    Receive(p) \/ FlushTimeout(p) \/ SendBatch(p) \/ TakeBatch(p) \/ Commit(p) \/ Rollback(p)

Next ==
    \/ Tick
    \/ \E g \in Gpus : handle_heartbeat(g)
    \/ \E b \in flight : Append_(b)
    \/ \E p \in Procs :
          ProcStep(p) \/ Rebalance(p) \/ Restart(p) \/ RefreshReads(p) \/ RefreshEnds(p)

Spec == Init /\ [][Next]_vars

\* Both tasks of every process keep running.
FairSpec ==
    /\ Spec
    /\ \A p \in Procs :
          /\ WF_vars(Receive(p) \/ FlushTimeout(p) \/ SendBatch(p))
          /\ WF_vars(TakeBatch(p) \/ Commit(p) \/ Rollback(p))

-----------------------------------------------------------------------------
(* Properties.                                                              *)

\* Every variable keeps its type; a process never holds more than a batch in its
\* buffer and ChanCap batches in its channel.
TypeOK ==
    /\ now \in Times /\ sent \in 0..MaxBeats /\ flight \subseteq Beat /\ log \in Seq(Beat)
    /\ owner \in Procs
    /\ buffer \in [Procs -> Seq(Beat)] /\ sending \in [Procs -> BOOLEAN]
    /\ queue \in [Procs -> Seq(Seq(Beat))] /\ batch \in [Procs -> Seq(Beat)]
    /\ \A p \in Procs :
          /\ Len(buffer[p]) <= BatchSize /\ Len(queue[p]) <= ChanCap
          /\ sending[p] => buffer[p] # <<>>
          /\ ~sending[p] => Len(buffer[p]) < BatchSize
    /\ heartbeat \subseteq Times
    /\ client_daily \in [Days -> Row \cup {None}]
    /\ device_daily \in [Days -> [Index -> Row \cup {None}]]
    /\ device_info \in Gpus \cup {<<>>}
    /\ points \in [Days -> [Index -> PointRow \cup {None}]]
    /\ \A p \in Procs : refresh[p] # None =>
          /\ refresh[p].today \in Days /\ DOMAIN refresh[p].rows \subseteq Days
          /\ \A d \in DOMAIN refresh[p].rows :
                refresh[p].rows[d] \in [Index -> PointRow \cup {None}]
    /\ DOMAIN refresh = Procs
    /\ faults \in 0..MaxFaults

Of(d) == {t \in heartbeat : day(t) = d}

\* However often and in whatever order heartbeats are delivered, a daily counter
\* counts at most one per bucket of time (stats.rs:112, 280); so, if the interval
\* divides the day, no device is paid for more hours than a day has.
OncePerBucket ==
    \A d \in Days :
       /\ client_daily[d] # None =>
             client_daily[d].total \in 1..Cardinality({client_bucket(t) : t \in Of(d)})
       /\ \A i \in Index : device_daily[d][i] # None =>
             device_daily[d][i].total \in 1..Cardinality({device_bucket(t) : t \in Of(d)})
       /\ \A i \in Index : points[d][i] # None /\ DaySecs % Interval = 0 =>
             points[d][i].hours * HourSecs <= DaySecs

\* A heartbeat is in all tables or in none: a day has a client row iff it has
\* heartbeats and then it has a device row, and the row knows the latest of them.
AllOrNothing ==
    \A d \in Days :
       /\ client_daily[d] # None <=> Of(d) # {}
       /\ client_daily[d] # None =>
             /\ client_daily[d].last \in Of(d)
             /\ \A t \in Of(d) : t <= client_daily[d].last
             /\ \E i \in Index : device_daily[d][i] # None /\
                                 device_daily[d][i].last = client_daily[d].last

\* The points of a day are final when the third day after it has begun, even if a
\* refresh runs across midnight.
PointsBecomeFinal ==
    [][\A d \in Days : d <= Today - 3 => points'[d] = points[d]]_vars

\* What a process has read it processes in the end, unless it is restarted: batches
\* that never fill up are flushed and a full channel is drained.
ReadIsProcessed ==
    \A p \in Procs : []<>(buffer[p] = <<>> /\ queue[p] = <<>> /\ batch[p] = <<>>)
=============================================================================
