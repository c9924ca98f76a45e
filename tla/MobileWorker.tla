----------------------------- MODULE MobileWorker -----------------------------
(***************************************************************************)
(* The life of a mobile worker: login, start, stop and re-login called by   *)
(* the application, against the heartbeat and handler threads of every      *)
(* start, which share one stop signal, one slot for the control stream and  *)
(* one mutex per stream.                                                    *)
(*                                                                          *)
(* Three builds differ: iOS (worker_sdk), Android started with a callback   *)
(* and Android started without one (android_sdk).  Connections are numbered *)
(* in the order they are made; 0 is no connection.                          *)
(***************************************************************************)
EXTENDS Naturals, FiniteSets

CONSTANTS
    MaxStarts,   \* bound: start calls that spawn threads
    MaxStreams,  \* bound: connections made
    MaxFails     \* MAX_CONSECUTIVE_FAILURES of the iOS handler

ASSUME WorkerAssumption == MaxStarts \in Nat /\ MaxStreams \in Nat /\ MaxFails \in Nat \ {0}

VARIABLES
    build,      \* "ios", "callback" or "plain"
    api,        \* the application: "idle", or the call it is in
    signal,     \* the stop signal: "unset", "run" or "stop"
    slot,       \* WORKER_TCP_STREAM or ANDROID_TCP_STREAM
    configured, \* server address and control port are stored
    madeConns,  \* connections made
    openConns,  \* connections this side has not shut
    connLock,   \* per connection, the handler that holds its mutex, or 0
    starts,     \* starts so far
    handles,    \* the start whose thread handles are stored, or 0
    hbPc,       \* per start, the heartbeat thread
    hbConn,     \* per start, the connection its heartbeats use on iOS
    hdPc,       \* per start, the handler thread
    hdConn,     \* per start, the connection the handler uses
    fails,      \* per start, consecutive_failures
    quiet       \* the last call of the application was a stop that returned

wkApp == <<build, api, starts, handles, quiet>>
wkConns == <<slot, configured, madeConns, openConns>>
wkThreads == <<hbPc, hbConn, hdPc, hdConn, fails>>
wkVars == <<wkApp, signal, wkConns, connLock, wkThreads>>

Starts == 1..MaxStarts
Conns == 1..MaxStreams

WkInit ==
    /\ build \in {"ios", "callback", "plain"}
    /\ api = "idle" /\ signal = "unset"
    /\ slot = 0 /\ configured = FALSE /\ madeConns = 0 /\ openConns = {}
    /\ connLock = [s \in Conns |-> 0]
    /\ starts = 0 /\ handles = 0
    /\ hbPc = [g \in Starts |-> "off"] /\ hdPc = [g \in Starts |-> "off"]
    /\ hdConn = [g \in Starts |-> 0] /\ hbConn = [g \in Starts |-> 0] /\ fails = [g \in Starts |-> 0]
    /\ quiet = FALSE

-------------------------------------------------------------------------------
\* connect_mobile_control_stream succeeds and the stream is stored.
NewStream ==
    /\ madeConns < MaxStreams
    /\ madeConns' = madeConns + 1 /\ slot' = madeConns'

Hb(g, to) == hbPc' = [hbPc EXCEPT ![g] = to]
Hd(g, to) == hdPc' = [hdPc EXCEPT ![g] = to]

-------------------------------------------------------------------------------
(* The application's calls, one at a time.                                   *)

\* perform_login_with_tls on iOS first raises the signal ...
IosLogin ==
    /\ build = "ios" /\ api = "idle" /\ api' = "closing"
    /\ signal' = IF signal = "unset" THEN signal ELSE "stop"
    /\ quiet' = FALSE
    /\ UNCHANGED <<build, starts, handles, wkConns, connLock, wkThreads>>

\* ... then takes the stream, and shuts it once its mutex is free ...
IosCloseOld ==
    /\ api = "closing" /\ api' = "connecting"
    /\ slot # 0 => connLock[slot] = 0
    /\ openConns' = openConns \ {slot} /\ slot' = 0
    /\ UNCHANGED <<build, starts, handles, quiet, signal, configured, madeConns, connLock,
                   wkThreads>>

\* ... and connects, sends Login and stores what it used.
IosConnect ==
    /\ api = "connecting" /\ api' = "idle"
    /\ \/ NewStream /\ openConns' = openConns \cup {slot'} /\ configured' = TRUE
       \/ UNCHANGED wkConns
    /\ UNCHANGED <<build, starts, handles, quiet, signal, connLock, wkThreads>>

\* perform_android_login_with_tls leaves an older worker alone.
AndroidLogin ==
    /\ build # "ios" /\ api = "idle"
    /\ NewStream /\ openConns' = openConns \cup {slot'} /\ configured' = TRUE
    /\ quiet' = FALSE
    /\ UNCHANGED <<build, api, starts, handles, signal, connLock, wkThreads>>

\* The threads of a new start, the handler on the stored stream.
Spawn(g, withHandler) ==
    /\ starts' = g /\ Hb(g, "check") /\ hbConn' = [hbConn EXCEPT ![g] = slot]
    /\ IF withHandler THEN Hd(g, "check") /\ hdConn' = [hdConn EXCEPT ![g] = slot]
       ELSE UNCHANGED <<hdPc, hdConn>>

\* start_worker_tasks_with_callback_ptr on iOS: the signal all starts share is
\* lowered, and without a stored address only the heartbeat thread starts.
IosStart ==
    /\ build = "ios" /\ api = "idle" /\ slot # 0 /\ starts < MaxStarts
    /\ signal' = "run" /\ quiet' = FALSE
    /\ Spawn(starts + 1, configured)
    /\ UNCHANGED <<build, api, handles, wkConns, connLock, fails>>

\* On Android: the handles of an earlier start are overwritten.
AndroidStart ==
    /\ build = "callback" /\ api = "idle" /\ starts < MaxStarts
    /\ signal' = "run" /\ quiet' = FALSE
    /\ IF slot # 0
       THEN Spawn(starts + 1, TRUE) /\ handles' = starts + 1
       ELSE UNCHANGED <<starts, handles, hbPc, hbConn, hdPc, hdConn>>
    /\ UNCHANGED <<build, api, wkConns, connLock, fails>>

\* start_worker_tasks: the signal can be set once, and no handle is kept.
AndroidStartPlain ==
    /\ build = "plain" /\ api = "idle" /\ slot # 0 /\ starts < MaxStarts
    /\ signal = "unset" /\ signal' = "run" /\ quiet' = FALSE
    /\ Spawn(starts + 1, TRUE)
    /\ UNCHANGED <<build, api, handles, wkConns, connLock, fails>>

\* stop_global_worker on iOS: raise the signal and forget the globals.
IosStop ==
    /\ build = "ios" /\ api = "idle"
    /\ signal' = IF signal = "unset" THEN signal ELSE "stop"
    /\ slot' = 0 /\ configured' = FALSE /\ quiet' = TRUE
    /\ openConns' = openConns \ {s \in Conns : s = slot /\ \A g \in Starts :
                                     hdConn[g] = s => hdPc[g] \in {"off", "end"}}
    /\ UNCHANGED <<build, api, starts, handles, madeConns, connLock, wkThreads>>

\* stop_global_worker on Android: raise the signal ...
AndroidStopCall ==
    /\ build # "ios" /\ api = "idle" /\ api' = "joining"
    /\ signal' = IF signal = "unset" THEN signal ELSE "stop"
    /\ UNCHANGED <<build, starts, handles, quiet, wkConns, connLock, wkThreads>>

\* Variant: the threads are not joined.
StopWithoutJoin ==
    /\ api = "joining" /\ api' = "idle"
    /\ slot # 0 => connLock[slot] = 0
    /\ handles' = 0 /\ openConns' = openConns \ {slot}
    /\ slot' = 0 /\ configured' = FALSE /\ quiet' = TRUE
    /\ UNCHANGED <<build, starts, signal, madeConns, connLock, wkThreads>>

\* ... join the two threads whose handles are stored, then shut the stream
\* under its mutex and forget the globals.
AndroidStopped ==
    /\ api = "joining" /\ api' = "idle"
    /\ handles # 0 => hbPc[handles] = "end" /\ hdPc[handles] = "end"
    /\ slot # 0 => connLock[slot] = 0
    /\ handles' = 0 /\ openConns' = openConns \ {slot}
    /\ slot' = 0 /\ configured' = FALSE /\ quiet' = TRUE
    /\ UNCHANGED <<build, starts, signal, madeConns, connLock, wkThreads>>

-------------------------------------------------------------------------------
(* The heartbeat thread of start g.                                          *)

HbOnly == <<wkApp, signal, wkConns, connLock, hbConn, hdPc, hdConn, fails>>

HbCheck(g) ==
    /\ hbPc[g] = "check"
    /\ Hb(g, IF signal = "stop" THEN "end" ELSE "send")
    /\ UNCHANGED HbOnly

\* iOS: on the stream of the start, under its mutex; a failed write is ignored.
\* The 120 naps of a second that follow end early at a raised signal.
IosHeartbeat(g) ==
    /\ build = "ios" /\ hbPc[g] = "send"
    /\ connLock[hbConn[g]] = 0
    /\ Hb(g, "check")
    /\ UNCHANGED HbOnly

\* Android without a callback: a connection of its own, which no other thread
\* sees.  Without an address, or if it cannot connect, nothing is sent.
PlainHeartbeat(g) ==
    /\ build = "plain" /\ hbPc[g] = "send"
    /\ Hb(g, "check")
    /\ UNCHANGED HbOnly

\* With a callback: the same, and the model's status after the heartbeat.
CallbackHeartbeat(g) ==
    /\ build = "callback" /\ hbPc[g] = "send"
    /\ Hb(g, "check")
    /\ UNCHANGED HbOnly

-------------------------------------------------------------------------------
(* The handler thread of start g.                                            *)

Lock(g, s) == connLock[s] = 0 /\ connLock' = [connLock EXCEPT ![s] = g]
Unlock(s) == connLock' = [connLock EXCEPT ![s] = 0]

HdCheck(g) ==
    /\ hdPc[g] = "check"
    /\ Hd(g, IF signal = "stop" THEN "end" ELSE IF build = "ios" THEN "get" ELSE "read")
    /\ UNCHANGED <<wkApp, signal, wkConns, connLock, hbPc, hbConn, hdConn, fails>>

\* iOS: use the stored stream.
IosGetStream(g) ==
    /\ hdPc[g] = "get" /\ slot # 0
    /\ Hd(g, "read") /\ hdConn' = [hdConn EXCEPT ![g] = slot]
    /\ fails' = [fails EXCEPT ![g] = 0]
    /\ UNCHANGED <<wkApp, signal, wkConns, connLock, hbPc, hbConn>>

\* iOS: without one, connect anew, without a login; five failures end the thread.
IosReconnect(g) ==
    /\ hdPc[g] = "get" /\ slot = 0
    /\ \/ /\ fails[g] + 1 >= MaxFails /\ Hd(g, "end")
          /\ UNCHANGED <<wkConns, hdConn, fails>>
       \/ /\ fails[g] + 1 < MaxFails /\ NewStream
          /\ openConns' = openConns \cup {slot'} /\ configured' = configured
          /\ Hd(g, "read") /\ hdConn' = [hdConn EXCEPT ![g] = slot']
          /\ fails' = [fails EXCEPT ![g] = 0]
       \/ /\ fails[g] + 1 < MaxFails /\ Hd(g, "check")
          /\ fails' = [fails EXCEPT ![g] = @ + 1]
          /\ UNCHANGED <<wkConns, hdConn>>
    /\ UNCHANGED <<wkApp, signal, connLock, hbPc, hbConn>>

\* Variant: the stop signal is not looked at between two reads.
ReadWithoutCheck(g) ==
    /\ build = "ios" /\ hdPc[g] = "read"
    /\ Lock(g, hdConn[g]) /\ Hd(g, "reading")
    /\ UNCHANGED <<wkApp, signal, wkConns, hbPc, hbConn, hdConn, fails>>

\* iOS: the loop over the commands looks at the signal, then reads with a
\* timeout under the stream's mutex.
IosRead(g) ==
    /\ build = "ios" /\ hdPc[g] = "read"
    /\ IF signal = "stop"
       THEN Hd(g, "check") /\ UNCHANGED connLock
       ELSE Lock(g, hdConn[g]) /\ Hd(g, "reading")
    /\ UNCHANGED <<wkApp, signal, wkConns, hbPc, hbConn, hdConn, fails>>

\* Android without a callback waits for the mutex.
PlainRead(g) ==
    /\ build = "plain" /\ hdPc[g] = "read"
    /\ Lock(g, hdConn[g]) /\ Hd(g, "reading")
    /\ UNCHANGED <<wkApp, signal, wkConns, hbPc, hbConn, hdConn, fails>>

\* With a callback it only tries to lock, and looks at the signal again if the
\* mutex is taken.
CallbackRead(g) ==
    /\ build = "callback" /\ hdPc[g] = "read"
    /\ IF connLock[hdConn[g]] = 0
       THEN Lock(g, hdConn[g]) /\ Hd(g, "reading")
       ELSE Hd(g, "check") /\ UNCHANGED connLock
    /\ UNCHANGED <<wkApp, signal, wkConns, hbPc, hbConn, hdConn, fails>>

\* Nothing within the timeout, or a command that is handled at once: iOS goes
\* on with the stream, Android looks at the signal.
HandledAt(g, to) ==
    /\ hdPc[g] = "reading" /\ Unlock(hdConn[g]) /\ Hd(g, to)
    /\ UNCHANGED <<wkApp, signal, wkConns, hbPc, hbConn, hdConn, fails>>

IosIdle(g) == build = "ios" /\ HandledAt(g, "read")

\* A refused login and a read error end an Android handler, and the stream
\* stays stored.
PlainCommand(g) == build = "plain" /\ (HandledAt(g, "check") \/ HandledAt(g, "end"))
CallbackCommand(g) == build = "callback" /\ (HandledAt(g, "check") \/ HandledAt(g, "end"))

\* An inference task, on iOS; on Android another thread serves it.
IosTaskRead(g) ==
    /\ build = "ios" /\ hdPc[g] = "reading" /\ hdConn[g] \in openConns
    /\ Hd(g, "task") /\ Unlock(hdConn[g])
    /\ UNCHANGED <<wkApp, signal, wkConns, hbPc, hbConn, hdConn, fails>>

\* The mutex is taken again and kept until the answer is complete.
IosServe(g) ==
    /\ hdPc[g] = "task" /\ Lock(g, hdConn[g]) /\ Hd(g, "serving")
    /\ UNCHANGED <<wkApp, signal, wkConns, hbPc, hbConn, hdConn, fails>>

IosServed(g) ==
    /\ hdPc[g] = "serving" /\ Hd(g, "read") /\ Unlock(hdConn[g])
    /\ UNCHANGED <<wkApp, signal, wkConns, hbPc, hbConn, hdConn, fails>>

\* A read error, a refused login or a failed write: iOS clears the stored
\* stream, whichever it is by now, and reconnects.
IosLost(g) ==
    /\ build = "ios" /\ hdPc[g] = "reading" /\ Unlock(hdConn[g])
    /\ Hd(g, "check") /\ slot' = 0
    /\ openConns' = openConns \ {hdConn[g]}
    /\ UNCHANGED <<wkApp, signal, configured, madeConns, hbPc, hbConn, hdConn, fails>>

HbStep(g) == HbCheck(g) \/ IosHeartbeat(g) \/ PlainHeartbeat(g) \/ CallbackHeartbeat(g)
HdStep(g) ==
    \/ HdCheck(g) \/ IosGetStream(g) \/ IosReconnect(g) \/ IosRead(g) \/ IosIdle(g)
    \/ IosTaskRead(g) \/ IosServe(g) \/ IosServed(g) \/ IosLost(g)
    \/ PlainRead(g) \/ PlainCommand(g) \/ CallbackRead(g) \/ CallbackCommand(g)

AppStep ==
    \/ IosLogin \/ IosCloseOld \/ IosConnect \/ AndroidLogin \/ IosStart \/ AndroidStart
    \/ AndroidStartPlain \/ IosStop \/ AndroidStopCall \/ AndroidStopped

WkNext == AppStep \/ (\E g \in Starts : HbStep(g) \/ HdStep(g))

\* Every thread runs, a read ends with its timeout and a generation ends.
WkFairness == \A g \in Starts : WF_wkVars(HbStep(g)) /\ WF_wkVars(HdStep(g))

WkSpec == WkInit /\ [][WkNext]_wkVars /\ WkFairness

-------------------------------------------------------------------------------
\* Once the stop signal stays raised every thread of every start ends, also one
\* that waits for a stream another thread holds, serves a task or reconnects.
StopEndsThreads ==
    <>[](signal = "stop") =>
        <>[](\A g \in Starts : hbPc[g] \in {"off", "end"} /\ hdPc[g] \in {"off", "end"})

\* When stop_global_worker has returned on Android the threads of the last start
\* with a callback have ended and the status says that there is no worker.
StoppedIsQuiet ==
    quiet /\ build = "callback" =>
        /\ slot = 0
        /\ starts # 0 => hbPc[starts] = "end" /\ hdPc[starts] = "end"
===============================================================================
