------------------------- MODULE InferenceScheduler -------------------------
(***************************************************************************)
(* The inference path of gpuf-s: HTTP handlers (inference/handlers.rs)     *)
(* call the scheduler (inference/scheduler.rs), which hands a task to a    *)
(* device over its control connection; the device's session task           *)
(* (handle/handle_connections.rs) feeds the answers back.                  *)
(*                                                                         *)
(* One step per critical section or channel operation: between any two of  *)
(* them the other requests, sessions, devices and cancellations run.       *)
(***************************************************************************)
EXTENDS Integers, Sequences, FiniteSets

CONSTANTS
    Tasks,      \* one HTTP request = one task id (Uuid::new_v4)
    Devices,    \* client ids
    Models,     \* model names
    Kind,       \* Tasks -> which endpoint the request came in by
    Allowed,    \* Tasks -> client ids the API key may use
    Model,      \* Tasks -> requested model
    Infos,      \* what a device may register with (ClientInfo)
    MaxDeltas,  \* bound: text pieces a device produces per task
    ChanCap,    \* capacity of a stream's mpsc channel (128 in the code)
    None        \* absent map entry, device or task

Kinds == {"completion", "completion_sse", "chat", "chat_sse"}

ClientInfo == [authed : BOOLEAN, cpu : 0..255, memory : 0..255, models : SUBSET Models]

VARIABLES
    clients,          \* active_clients: Devices -> ClientInfo or None
    pending_tasks,    \* tasks with a oneshot sender in the map
    pending_streams,  \* tasks with an mpsc sender in the map
    stream_usages,    \* tasks with a usage record in the map
    partial_results,  \* Tasks -> text accumulated so far, or None
    oneshot,          \* Tasks -> what was sent on the oneshot channel, or None
    chan,             \* Tasks -> events queued in the mpsc channel
    rx,               \* tasks whose receiving end is still alive
    pc,               \* Tasks -> where the HTTP handler is
    dev,              \* Tasks -> selected device, or None
    outcome,          \* Tasks -> how the request ended
    got,              \* Tasks -> events the HTTP handler consumed
    cancel,           \* Tasks -> progress of the spawned cancel_inference
    link,             \* Devices -> state of the control connection
    inbox,            \* Devices -> commands written to the connection
    work,             \* Devices -> task the device is generating for, or None
    cancelled,        \* Devices -> CancelState.cancelled
    made,             \* Tasks -> pieces of text generated
    up,               \* Devices -> chunks on their way to the server
    sess,             \* Devices -> where the session task is
    smsg,             \* Devices -> chunk the session task is handling, or None
    sent,             \* history: tasks written to a device
    lost,             \* history: tasks whose device connection died under them
    broken            \* history: tasks their device gave up on with an error

reqVars  == <<pc, dev, outcome, got, rx>>
mapVars  == <<pending_tasks, pending_streams, stream_usages, partial_results, oneshot, chan>>
devVars  == <<link, inbox, work, cancelled, made, up>>
sessVars == <<sess, smsg>>
histVars == <<sent, lost, broken>>
vars == <<clients, reqVars, mapVars, devVars, sessVars, histVars, cancel>>

-----------------------------------------------------------------------------
(* Messages, events and small helpers.                                      *)

Streaming(t) == Kind[t] # "completion"
Sse(t)  == Kind[t] \in {"completion_sse", "chat_sse"}
Chat(t) == Kind[t] \in {"chat", "chat_sse"}

\* Variant: the position is decremented before it is sent.
Chunk_Underflow(t, k, n) == [task |-> t, kind |-> k, n |-> n - 1]

\* InferenceResultChunk; n is the position of the piece of text a delta carries.
Chunk(t, k, n) == [task |-> t, kind |-> k, n |-> n]
Chunks == [task : Tasks, kind : {"delta", "done", "error"}, n : Nat]

\* StreamEvent
Event(k, n) == [kind |-> k, n |-> n]
Events == [kind : {"delta", "finish", "error", "done"}, n : Nat]

\* InferenceTask / ChatInferenceTask / CancelInference
Cmd(k, t) == [kind |-> k, task |-> t]
Cmds == [kind : {"task", "cancel"}, task : Tasks]

\* What execute_inference's oneshot channel carries.
Results == [ok : BOOLEAN, text : Seq(Nat)]

ASSUME SchedulerAssumption ==
    /\ Kind \in [Tasks -> Kinds]
    /\ Allowed \in [Tasks -> SUBSET Devices]
    /\ Model \in [Tasks -> Models]
    /\ Infos \subseteq ClientInfo
    /\ MaxDeltas \in Nat
    /\ ChanCap \in Nat \ {0}
    /\ None \notin Tasks \cup Devices \cup ClientInfo
    /\ None \notin Chunks /\ None \notin Results /\ None \notin Seq(Nat)

PieceSeq(n) == [i \in 1..n |-> i]

\* StreamCancelGuard::finished: the SSE adapter has seen StreamEvent::Done.
Finished(t) == \E i \in 1..Len(got[t]) : got[t][i].kind = "done"

Ended(t) == pc[t] = "end"

\* The session task of d owns a clone of t's mpsc sender.
HoldsSender(d, t) == sess[d] # "idle" /\ smsg[d].task = t

-----------------------------------------------------------------------------
(* Device selection.  cpu_usage and memory_usage are added as u8.           *)

total_load(c) == (c.cpu + c.memory) % 256

\* select_best_device: authed, registered, allowed.
Selectable(t) == {d \in Allowed[t] : clients[d] # None /\ clients[d].authed}

\* select_best_device_for_model: also serves the model.
SelectableForModel(t) == {d \in Selectable(t) : Model[t] \in clients[d].models}

LeastLoaded(S) ==
    {d \in S : \A e \in S : total_load(clients[d]) <= total_load(clients[e])}

\* Variant: the second look-up forgets the authentication check.
Ready_NoAuth(d) == clients[d] # None

\* send_task_to_device, send_chat_task_to_device and cancel_inference look the
\* device up again: it must still be registered and authenticated.
Ready(d) == clients[d] # None /\ clients[d].authed

-----------------------------------------------------------------------------
Init ==
    /\ clients = [d \in Devices |-> None]
    /\ pending_tasks = {} /\ pending_streams = {} /\ stream_usages = {}
    /\ partial_results = [t \in Tasks |-> None]
    /\ oneshot = [t \in Tasks |-> None]
    /\ chan = [t \in Tasks |-> <<>>]
    /\ rx = {}
    /\ pc = [t \in Tasks |-> "new"]
    /\ dev = [t \in Tasks |-> None]
    /\ outcome = [t \in Tasks |-> "none"]
    /\ got = [t \in Tasks |-> <<>>]
    /\ cancel = [t \in Tasks |-> "none"]
    /\ link = [d \in Devices |-> "down"]
    /\ inbox = [d \in Devices |-> <<>>]
    /\ work = [d \in Devices |-> None]
    /\ cancelled = [d \in Devices |-> {}]
    /\ made = [t \in Tasks |-> 0]
    /\ up = [d \in Devices |-> <<>>]
    /\ sess = [d \in Devices |-> "idle"]
    /\ smsg = [d \in Devices |-> None]
    /\ sent = {} /\ lost = {} /\ broken = {}

-----------------------------------------------------------------------------
(* The HTTP request: execute_inference, execute_inference_stream,           *)
(* execute_chat_inference_stream and the handlers that await them.          *)

\* The handler returns: its future and the receiver it owns are dropped.
End(t, how) ==
    /\ pc' = [pc EXCEPT ![t] = "end"]
    /\ outcome' = [outcome EXCEPT ![t] = how]
    /\ rx' = rx \ {t}
    /\ chan' = [chan EXCEPT ![t] = <<>>]

\* Create the channel and insert its sender into the map.
Submit(t) ==
    /\ pc[t] = "new"
    /\ IF Streaming(t)
         THEN pending_streams' = pending_streams \cup {t} /\ UNCHANGED pending_tasks
         ELSE pending_tasks' = pending_tasks \cup {t} /\ UNCHANGED pending_streams
    /\ rx' = rx \cup {t}
    /\ pc' = [pc EXCEPT ![t] = IF Chat(t) THEN "select_model" ELSE "select"]
    /\ UNCHANGED <<clients, dev, outcome, got, stream_usages, partial_results, oneshot,
                   chan, devVars, sessVars, histVars, cancel>>

\* select_best_device_for_model; no candidate falls back to the generic choice.
SelectForModel(t) ==
    /\ pc[t] = "select_model"
    /\ \/ /\ SelectableForModel(t) = {}
          /\ pc' = [pc EXCEPT ![t] = "select"]
          /\ UNCHANGED dev
       \/ \E d \in LeastLoaded(SelectableForModel(t)) :
             /\ dev' = [dev EXCEPT ![t] = d]
             /\ pc' = [pc EXCEPT ![t] = "send"]
    /\ UNCHANGED <<clients, outcome, got, rx, mapVars, devVars, sessVars, histVars, cancel>>

\* select_best_device
Select(t) ==
    /\ pc[t] = "select"
    /\ \E d \in LeastLoaded(Selectable(t)) : dev' = [dev EXCEPT ![t] = d]
    /\ pc' = [pc EXCEPT ![t] = "send"]
    /\ UNCHANGED <<clients, outcome, got, rx, mapVars, devVars, sessVars, histVars, cancel>>

\* select_best_device fails: `?` returns, the map entry stays behind.
SelectNone(t) ==
    /\ pc[t] = "select"
    /\ Selectable(t) = {}
    /\ End(t, "no_device")
    /\ UNCHANGED <<clients, dev, got, pending_tasks, pending_streams, stream_usages,
                   partial_results, oneshot, devVars, sessVars, histVars, cancel>>

\* Variant: the command is written twice (a retry of a write that succeeded).
Deliver_Twice(d, t) ==
    IF link[d] = "up"
      THEN inbox' = [inbox EXCEPT ![d] = @ \o <<Cmd("task", t), Cmd("task", t)>>]
           /\ UNCHANGED lost
      ELSE lost' = lost \cup {t} /\ UNCHANGED inbox

\* The write is accepted; on a connection that has died the command is lost.
Deliver(d, t) ==
    IF link[d] = "up"
      THEN inbox' = [inbox EXCEPT ![d] = Append(@, Cmd("task", t))] /\ UNCHANGED lost
      ELSE lost' = lost \cup {t} /\ UNCHANGED inbox

\* send_task_to_device / send_chat_task_to_device succeed.
SendTask(t) ==
    /\ pc[t] = "send"
    /\ Ready(dev[t])
    /\ Deliver(dev[t], t)
    /\ sent' = sent \cup {t}
    /\ pc' = [pc EXCEPT ![t] = IF Streaming(t) THEN "recv" ELSE "check"]
    /\ UNCHANGED <<clients, dev, outcome, got, rx, mapVars, link, work, cancelled, made, up,
                   sessVars, broken, cancel>>

\* They fail: not registered, not authenticated, writer busy, or an I/O error
\* (a failing flush may still have delivered the command).
SendTaskFails(t) ==
    /\ pc[t] = "send"
    /\ \/ UNCHANGED <<inbox, sent>>
       \/ /\ Ready(dev[t]) /\ link[dev[t]] = "up"
          /\ inbox' = [inbox EXCEPT ![dev[t]] = Append(@, Cmd("task", t))]
          /\ sent' = sent \cup {t}
    /\ pc' = [pc EXCEPT ![t] = "cleanup"]
    /\ UNCHANGED <<clients, dev, outcome, got, rx, mapVars, link, work, cancelled, made, up,
                   sessVars, lost, broken, cancel>>

\* The error branch removes the map entry and returns.
Cleanup(t) ==
    /\ pc[t] = "cleanup"
    /\ pending_tasks' = pending_tasks \ {t}
    /\ pending_streams' = pending_streams \ {t}
    /\ End(t, "send_failed")
    /\ UNCHANGED <<clients, dev, got, stream_usages, partial_results, oneshot, devVars,
                   sessVars, histVars, cancel>>

\* execute_inference looks the task up again before it waits.
CheckPending(t) ==
    /\ pc[t] = "check"
    /\ \/ /\ t \in pending_tasks
          /\ pc' = [pc EXCEPT ![t] = "wait"]
          /\ UNCHANGED <<outcome, rx, chan>>
       \/ /\ t \notin pending_tasks
          /\ End(t, "missing")
    /\ UNCHANGED <<clients, dev, got, pending_tasks, pending_streams, stream_usages,
                   partial_results, oneshot, devVars, sessVars, histVars, cancel>>

\* tokio::time::timeout: the receiver resolves first ...
ReceiveResult(t) ==
    /\ pc[t] = "wait"
    /\ oneshot[t] # None
    /\ End(t, IF oneshot[t].ok THEN "ok" ELSE "failed")
    /\ UNCHANGED <<clients, dev, got, pending_tasks, pending_streams, stream_usages,
                   partial_results, oneshot, devVars, sessVars, histVars, cancel>>

\* ... or the timer does; the receiver is dropped before the map is locked.
Timeout(t) ==
    /\ pc[t] = "wait"
    /\ oneshot[t] = None
    /\ pc' = [pc EXCEPT ![t] = "expired"]
    /\ rx' = rx \ {t}
    /\ UNCHANGED <<clients, dev, outcome, got, mapVars, devVars, sessVars, histVars, cancel>>

Expire(t) ==
    /\ pc[t] = "expired"
    /\ pending_tasks' = pending_tasks \ {t}
    /\ End(t, "timeout")
    /\ UNCHANGED <<clients, dev, got, pending_streams, stream_usages, partial_results,
                   oneshot, devVars, sessVars, histVars, cancel>>

\* rx.recv() yields an event.  The SSE adapter keeps reading; the chat handler
\* returns on Error and stops on Done.
ReceiveEvent(t) ==
    /\ pc[t] = "recv"
    /\ chan[t] # <<>>
    /\ LET ev == Head(chan[t]) IN
         /\ got' = [got EXCEPT ![t] = Append(@, ev)]
         /\ \/ /\ ~Sse(t) /\ ev.kind = "error"
               /\ End(t, "failed")
            \/ /\ ~Sse(t) /\ ev.kind = "done"
               /\ End(t, "ok")
            \/ /\ Sse(t) \/ ev.kind \in {"delta", "finish"}
               /\ chan' = [chan EXCEPT ![t] = Tail(@)]
               /\ UNCHANGED <<pc, outcome, rx>>
    /\ UNCHANGED <<clients, dev, pending_tasks, pending_streams, stream_usages,
                   partial_results, oneshot, devVars, sessVars, histVars, cancel>>

\* Only the SSE body owns a StreamCancelGuard; its Drop spawns cancel_inference
\* unless the body has seen Done.
DropGuard(t) ==
    cancel' = IF Sse(t) /\ pc[t] = "recv" /\ ~Finished(t)
                THEN [cancel EXCEPT ![t] = "remove"] ELSE cancel

\* rx.recv() yields None: the map's sender and every clone of it are dropped.
\* The response ends normally; an SSE response that carried an error event
\* has told its client so.
ChannelClosed(t) ==
    /\ pc[t] = "recv"
    /\ chan[t] = <<>>
    /\ t \notin pending_streams
    /\ \A d \in Devices : ~HoldsSender(d, t)
    /\ End(t, IF \E i \in 1..Len(got[t]) : got[t][i].kind = "error" THEN "failed" ELSE "ok")
    /\ DropGuard(t)
    /\ UNCHANGED <<clients, dev, got, pending_tasks, pending_streams, stream_usages,
                   partial_results, oneshot, devVars, sessVars, histVars>>

\* The HTTP client goes away and the server drops the handler future.
ClientGone(t) ==
    /\ pc[t] \notin {"new", "end"}
    /\ End(t, "dropped")
    /\ DropGuard(t)
    /\ UNCHANGED <<clients, dev, got, pending_tasks, pending_streams, stream_usages,
                   partial_results, oneshot, devVars, sessVars, histVars>>

\* cancel_inference: drop the sender, then tell the device if it is still
\* registered and authenticated (the write may fail, or be lost).
CancelRemove(t) ==
    /\ cancel[t] = "remove"
    /\ pending_streams' = pending_streams \ {t}
    /\ cancel' = [cancel EXCEPT ![t] = "write"]
    /\ UNCHANGED <<clients, reqVars, pending_tasks, stream_usages, partial_results, oneshot,
                   chan, devVars, sessVars, histVars>>

CancelWrite(t) ==
    /\ cancel[t] = "write"
    /\ \/ UNCHANGED inbox
       \/ /\ Ready(dev[t]) /\ link[dev[t]] = "up"
          /\ inbox' = [inbox EXCEPT ![dev[t]] = Append(@, Cmd("cancel", t))]
    /\ cancel' = [cancel EXCEPT ![t] = "end"]
    /\ UNCHANGED <<clients, reqVars, mapVars, link, work, cancelled, made, up, sessVars,
                   histVars>>

-----------------------------------------------------------------------------
(* The device.  Its read loop runs a task to the end before it reads the    *)
(* next command, so a CancelInference is read after the task it names.      *)

\* A login that the session task accepted.
Register(d) ==
    /\ clients[d] = None /\ link[d] = "down" /\ sess[d] = "idle"
    /\ \E c \in Infos : clients' = [clients EXCEPT ![d] = c]
    /\ link' = [link EXCEPT ![d] = "up"]
    /\ UNCHANGED <<reqVars, mapVars, inbox, work, cancelled, made, up, sessVars, histVars,
                   cancel>>

\* ModelStatus: handle_models_status replaces the model list.
ReportModels(d) ==
    /\ clients[d] # None /\ link[d] = "up" /\ sess[d] = "idle"
    /\ \E ms \in SUBSET Models : clients' = [clients EXCEPT ![d].models = ms]
    /\ UNCHANGED <<reqVars, mapVars, devVars, sessVars, histVars, cancel>>

ReadTask(d) ==
    /\ work[d] = None /\ inbox[d] # <<>> /\ Head(inbox[d]).kind = "task"
    /\ work' = [work EXCEPT ![d] = Head(inbox[d]).task]
    /\ inbox' = [inbox EXCEPT ![d] = Tail(@)]
    /\ UNCHANGED <<clients, reqVars, mapVars, link, cancelled, made, up, sessVars, histVars,
                   cancel>>

ReadCancel(d) ==
    /\ work[d] = None /\ inbox[d] # <<>> /\ Head(inbox[d]).kind = "cancel"
    /\ cancelled' = [cancelled EXCEPT ![d] = @ \cup {Head(inbox[d]).task}]
    /\ inbox' = [inbox EXCEPT ![d] = Tail(@)]
    /\ UNCHANGED <<clients, reqVars, mapVars, link, work, made, up, sessVars, histVars, cancel>>

EmitDelta(d) ==
    /\ work[d] # None
    /\ work[d] \notin cancelled[d]
    /\ made[work[d]] < MaxDeltas
    /\ made' = [made EXCEPT ![work[d]] = @ + 1]
    /\ up' = [up EXCEPT ![d] = Append(@, Chunk(work[d], "delta", made[work[d]] + 1))]
    /\ UNCHANGED <<clients, reqVars, mapVars, link, inbox, work, cancelled, sessVars, histVars,
                   cancel>>

EmitDone(d) ==
    /\ work[d] # None
    /\ up' = [up EXCEPT ![d] = Append(@, Chunk(work[d], "done", 0))]
    /\ cancelled' = [cancelled EXCEPT ![d] = @ \ {work[d]}]
    /\ work' = [work EXCEPT ![d] = None]
    /\ UNCHANGED <<clients, reqVars, mapVars, link, inbox, made, sessVars, histVars, cancel>>

\* Variant: the device logs the error and sends no chunk.
EmitError_Silent(d) ==
    /\ work[d] # None
    /\ broken' = broken \cup {work[d]}
    /\ work' = [work EXCEPT ![d] = None]
    /\ UNCHANGED <<clients, reqVars, mapVars, link, inbox, cancelled, made, up, sessVars, sent,
                   lost, cancel>>

EmitError(d) ==
    /\ work[d] # None
    /\ up' = [up EXCEPT ![d] = Append(@, Chunk(work[d], "error", 0))]
    /\ broken' = broken \cup {work[d]}
    /\ work' = [work EXCEPT ![d] = None]
    /\ UNCHANGED <<clients, reqVars, mapVars, link, inbox, cancelled, made, sessVars, sent,
                   lost, cancel>>

\* Tasks that device d has been given and not finished with.
Outstanding(d) ==
    {t \in Tasks : \/ work[d] = t
                   \/ \E i \in 1..Len(inbox[d]) : inbox[d][i] = Cmd("task", t)}

\* The connection dies: unread commands and a suffix of the chunks are lost.
LinkDies(d) ==
    /\ link[d] = "up"
    /\ link' = [link EXCEPT ![d] = "down"]
    /\ \E n \in 0..Len(up[d]) :
         /\ up' = [up EXCEPT ![d] = SubSeq(@, 1, n)]
         /\ lost' = lost \cup Outstanding(d)
                      \cup {up[d][i].task : i \in (n + 1)..Len(up[d])}
    /\ inbox' = [inbox EXCEPT ![d] = <<>>]
    /\ work' = [work EXCEPT ![d] = None]
    /\ cancelled' = [cancelled EXCEPT ![d] = {}]
    /\ UNCHANGED <<clients, reqVars, mapVars, made, sessVars, sent, broken, cancel>>

-----------------------------------------------------------------------------
(* The session task of a device: handle_single_client dispatching           *)
(* InferenceResultChunk to handle_inference_result_chunk.                    *)

\* Next chunk; its task has a stream sender, which is cloned under the lock.
TakeStreamChunk(d) ==
    /\ sess[d] = "idle" /\ up[d] # <<>>
    /\ LET m == Head(up[d]) IN
         /\ m.task \in pending_streams
         /\ smsg' = [smsg EXCEPT ![d] = m]
         /\ sess' = [sess EXCEPT ![d] = CASE m.kind = "error" -> "error"
                                          [] m.kind = "delta" -> "delta"
                                          [] m.kind = "done"  -> "usage"]
    /\ up' = [up EXCEPT ![d] = Tail(@)]
    /\ UNCHANGED <<clients, reqVars, mapVars, link, inbox, work, cancelled, made, histVars,
                   cancel>>

\* Variant: try_send, which drops the event when the channel is full.
SendEvent_Lossy(t, ev) ==
    IF t \in rx /\ Len(chan[t]) < ChanCap
      THEN chan' = [chan EXCEPT ![t] = Append(@, ev)] ELSE UNCHANGED chan

\* sender.send(ev).await: waits for room, fails at once if the receiver is gone.
SendEvent(t, ev) ==
    \/ t \notin rx /\ UNCHANGED chan
    \/ /\ t \in rx /\ Len(chan[t]) < ChanCap
       /\ chan' = [chan EXCEPT ![t] = Append(@, ev)]

Goto(d, l) == sess' = [sess EXCEPT ![d] = l]

SessDelta(d) ==
    /\ sess[d] = "delta"
    /\ SendEvent(smsg[d].task, Event("delta", smsg[d].n))
    /\ Goto(d, "idle") /\ smsg' = [smsg EXCEPT ![d] = None]
    /\ UNCHANGED <<clients, reqVars, pending_tasks, pending_streams, stream_usages,
                   partial_results, oneshot, devVars, histVars, cancel>>

SessError(d) ==
    /\ sess[d] = "error"
    /\ SendEvent(smsg[d].task, Event("error", 0))
    /\ Goto(d, "done")
    /\ UNCHANGED <<clients, reqVars, pending_tasks, pending_streams, stream_usages,
                   partial_results, oneshot, devVars, smsg, histVars, cancel>>

\* The usage record is stored, then read back for the Finish event.
SessUsage(d) ==
    /\ sess[d] = "usage"
    /\ stream_usages' = stream_usages \cup {smsg[d].task}
    /\ Goto(d, "finish")
    /\ UNCHANGED <<clients, reqVars, pending_tasks, pending_streams, partial_results, oneshot,
                   chan, devVars, smsg, histVars, cancel>>

SessFinish(d) ==
    /\ sess[d] = "finish"
    /\ SendEvent(smsg[d].task, Event("finish", 0))
    /\ Goto(d, "done")
    /\ UNCHANGED <<clients, reqVars, pending_tasks, pending_streams, stream_usages,
                   partial_results, oneshot, devVars, smsg, histVars, cancel>>

SessDone(d) ==
    /\ sess[d] = "done"
    /\ SendEvent(smsg[d].task, Event("done", 0))
    /\ Goto(d, "remove")
    /\ UNCHANGED <<clients, reqVars, pending_tasks, pending_streams, stream_usages,
                   partial_results, oneshot, devVars, smsg, histVars, cancel>>

\* Variants: one of the two maps is forgotten.
SessRemove_KeepStream(d) ==
    /\ sess[d] = "remove"
    /\ stream_usages' = stream_usages \ {smsg[d].task}
    /\ Goto(d, "idle") /\ smsg' = [smsg EXCEPT ![d] = None]
    /\ UNCHANGED <<clients, reqVars, pending_tasks, pending_streams, partial_results, oneshot,
                   chan, devVars, histVars, cancel>>

SessRemove_KeepUsage(d) ==
    /\ sess[d] = "remove"
    /\ pending_streams' = pending_streams \ {smsg[d].task}
    /\ Goto(d, "idle") /\ smsg' = [smsg EXCEPT ![d] = None]
    /\ UNCHANGED <<clients, reqVars, pending_tasks, stream_usages, partial_results, oneshot,
                   chan, devVars, histVars, cancel>>

\* Both maps are cleaned while the pending_streams lock is held.
SessRemove(d) ==
    /\ sess[d] = "remove"
    /\ pending_streams' = pending_streams \ {smsg[d].task}
    /\ stream_usages' = stream_usages \ {smsg[d].task}
    /\ Goto(d, "idle") /\ smsg' = [smsg EXCEPT ![d] = None]
    /\ UNCHANGED <<clients, reqVars, pending_tasks, partial_results, oneshot, chan, devVars,
                   histVars, cancel>>

\* Variant: a new piece replaces the text instead of extending it.
Partial_Restart(t) == <<>>

Partial(t) == IF partial_results[t] = None THEN <<>> ELSE partial_results[t]

\* Variant: a failure removes the task and tells nobody.
handle_inference_result_DropError(t, r, text) ==
    IF t \in pending_tasks
      THEN /\ pending_tasks' = pending_tasks \ {t}
           /\ oneshot' = IF t \in rx /\ r.ok THEN [oneshot EXCEPT ![t] = r] ELSE oneshot
           /\ partial_results' = [partial_results EXCEPT ![t] = text]
      ELSE /\ partial_results' = [partial_results EXCEPT ![t] = None]
           /\ UNCHANGED <<pending_tasks, oneshot>>

\* handle_inference_result, under the pending_tasks lock.  The oneshot send
\* fails (and is ignored) when the receiver is gone.
handle_inference_result(t, r, text) ==
    IF t \in pending_tasks
      THEN /\ pending_tasks' = pending_tasks \ {t}
           /\ oneshot' = IF t \in rx THEN [oneshot EXCEPT ![t] = r] ELSE oneshot
           /\ partial_results' = [partial_results EXCEPT ![t] = text]
      ELSE /\ partial_results' = [partial_results EXCEPT ![t] = None]
           /\ UNCHANGED <<pending_tasks, oneshot>>

\* Next chunk; its task has no stream sender.  Text is accumulated; done takes
\* it out and completes the task; an error completes it and leaves the text.
PlainChunk(d) ==
    /\ sess[d] = "idle" /\ up[d] # <<>>
    /\ Head(up[d]).task \notin pending_streams
    /\ LET m == Head(up[d]) t == m.task IN
         \/ /\ m.kind = "delta"
            /\ partial_results' = [partial_results EXCEPT ![t] = Append(Partial(t), m.n)]
            /\ UNCHANGED <<pending_tasks, oneshot>>
         \/ /\ m.kind = "done"
            /\ handle_inference_result(t, [ok |-> TRUE, text |-> Partial(t)], None)
         \/ /\ m.kind = "error"
            /\ handle_inference_result(t, [ok |-> FALSE, text |-> <<>>], partial_results[t])
    /\ up' = [up EXCEPT ![d] = Tail(@)]
    /\ UNCHANGED <<clients, reqVars, pending_streams, stream_usages, chan, link, inbox, work,
                   cancelled, made, sessVars, histVars, cancel>>

\* read_command fails: the session unregisters the device and ends.
SessionEnds(d) ==
    /\ sess[d] = "idle" /\ link[d] = "down" /\ up[d] = <<>> /\ clients[d] # None
    /\ clients' = [clients EXCEPT ![d] = None]
    /\ UNCHANGED <<reqVars, mapVars, devVars, sessVars, histVars, cancel>>

-----------------------------------------------------------------------------
RequestStep(t) ==
    \/ Submit(t) \/ SelectForModel(t) \/ Select(t) \/ SelectNone(t)
    \/ SendTask(t) \/ SendTaskFails(t) \/ Cleanup(t) \/ CheckPending(t)
    \/ ReceiveResult(t) \/ Timeout(t) \/ Expire(t)
    \/ ReceiveEvent(t) \/ ChannelClosed(t)

CancelStep(t) == CancelRemove(t) \/ CancelWrite(t)

DeviceStep(d) ==
    ReadTask(d) \/ ReadCancel(d) \/ EmitDelta(d) \/ EmitDone(d) \/ EmitError(d)

SessionStep(d) ==
    \/ TakeStreamChunk(d) \/ SessDelta(d) \/ SessError(d) \/ SessUsage(d)
    \/ SessFinish(d) \/ SessDone(d) \/ SessRemove(d) \/ PlainChunk(d) \/ SessionEnds(d)

Next ==
    \/ \E t \in Tasks : RequestStep(t) \/ CancelStep(t) \/ ClientGone(t)
    \/ \E d \in Devices : \/ DeviceStep(d) \/ SessionStep(d)
                          \/ Register(d) \/ ReportModels(d) \/ LinkDies(d)

Spec == Init /\ [][Next]_vars

\* Fairness: the runtime keeps polling ready futures, a device generates a
\* bounded number of tokens, and timers fire.  A new request, an SSE client
\* reading its response, a client going away, a connection dying and a device
\* registering are never forced.
ServerDriven(t) == pc[t] # "new" /\ ~(Sse(t) /\ pc[t] = "recv")

Fairness ==
    /\ \A t \in Tasks : WF_vars(RequestStep(t) /\ ServerDriven(t)) /\ WF_vars(CancelStep(t))
    /\ \A d \in Devices : WF_vars(DeviceStep(d)) /\ WF_vars(SessionStep(d))

FairSpec == Spec /\ Fairness

-----------------------------------------------------------------------------
(* Properties.                                                              *)

PCs == {"new", "select_model", "select", "send", "cleanup", "check", "wait", "expired",
        "recv", "end"}
Outcomes == {"none", "ok", "failed", "no_device", "send_failed", "missing", "timeout",
             "dropped"}
SessPCs == {"idle", "delta", "error", "usage", "finish", "done", "remove"}

ReqTypeOK ==
    /\ pc \in [Tasks -> PCs]
    /\ dev \in [Tasks -> Devices \cup {None}]
    /\ outcome \in [Tasks -> Outcomes]
    /\ got \in [Tasks -> Seq(Events)]
    /\ rx \subseteq Tasks
    /\ cancel \in [Tasks -> {"none", "remove", "write", "end"}]

MapTypeOK ==
    /\ pending_tasks \subseteq Tasks
    /\ pending_streams \subseteq Tasks
    /\ stream_usages \subseteq Tasks
    /\ partial_results \in [Tasks -> Seq(Nat) \cup {None}]
    /\ oneshot \in [Tasks -> Results \cup {None}]
    /\ chan \in [Tasks -> Seq(Events)]

DevTypeOK ==
    /\ clients \in [Devices -> ClientInfo \cup {None}]
    /\ link \in [Devices -> {"up", "down"}]
    /\ inbox \in [Devices -> Seq(Cmds)]
    /\ work \in [Devices -> Tasks \cup {None}]
    /\ cancelled \in [Devices -> SUBSET Tasks]
    /\ made \in [Tasks -> Nat]
    /\ up \in [Devices -> Seq(Chunks)]

SessTypeOK ==
    /\ sess \in [Devices -> SessPCs]
    /\ smsg \in [Devices -> Chunks \cup {None}]

HistTypeOK == sent \subseteq Tasks /\ lost \subseteq Tasks /\ broken \subseteq Tasks

\* Type invariant of the scheduler's maps, channels and tasks (scheduler.rs:119-125).
TypeOK == ReqTypeOK /\ MapTypeOK /\ DevTypeOK /\ SessTypeOK /\ HistTypeOK

\* Something of task t is still on its way: at the device, on the wire, or in
\* a session task's hands.
InFlight(t) ==
    \E d \in Devices :
       \/ t \in Outstanding(d)
       \/ \E i \in 1..Len(up[d]) : up[d][i].task = t
       \/ HoldsSender(d, t)

Stream(t) == got[t] \o chan[t]

\* What an SSE or chat client is sent is pieces 1, 2, 3, ... in order, then one
\* Finish or Error, then Done, and nothing after it, whatever the channel
\* capacity and however late it reads (handle_inference_result_chunk).
StreamWellFormed ==
    \A t \in Tasks : LET s == Stream(t) IN
       \A i \in 1..Len(s) :
          /\ s[i].kind = "delta" =>
               s[i].n = i /\ (i > 1 => s[i - 1].kind = "delta")
          /\ s[i].kind \in {"finish", "error"} => (i = 1 \/ s[i - 1].kind = "delta")
          /\ s[i].kind = "done" =>
               i = Len(s) /\ i > 1 /\ s[i - 1].kind \in {"finish", "error"}

\* A request answered with success carries all the text its device generated:
\* neither the accumulation in partial_results nor the channel loses, repeats
\* or truncates a piece, and no half-finished answer is reported as a success.
SuccessIsComplete ==
    \A t \in Tasks : outcome[t] = "ok" =>
       IF Streaming(t)
         THEN /\ made[t] <= Len(got[t])
              /\ \A i \in 1..Len(got[t]) : got[t][i].kind = "delta" <=> i <= made[t]
              /\ \A i \in 1..made[t] : got[t][i].n = i
         ELSE oneshot[t].text = PieceSeq(made[t])

\* While execute_inference waits, its sender is in the map or has been used:
\* "Task response channel closed" (scheduler.rs:781-784) cannot happen.
WaiterHasSender ==
    \A t \in Tasks : pc[t] = "wait" => t \in pending_tasks \/ oneshot[t] # None

\* Once a request has ended and nothing of it is in flight, the maps forget it,
\* except in the paths that return without cleaning up: no device could be
\* selected (`?` at scheduler.rs:151, 258, 713), the client left before the
\* task was sent, or the device's connection died with the task.  Accumulated
\* text is left behind only if the device failed part-way or its connection died.
NoLeak ==
    \A t \in Tasks :
       /\ /\ Ended(t) /\ ~InFlight(t) /\ cancel[t] \notin {"remove"}
          /\ t \in pending_tasks \cup pending_streams
          => \/ outcome[t] = "no_device"
             \/ outcome[t] = "dropped" /\ t \notin sent
             \/ t \in lost
       /\ partial_results[t] # None => InFlight(t) \/ t \in lost \cup broken

\* A usage record lives only while a session task is finishing that stream.
UsageOwned ==
    \A t \in stream_usages :
       \E d \in Devices : smsg[d] # None /\ smsg[d].task = t
                          /\ sess[d] \in {"finish", "done", "remove"}

\* A task is run by one device at most, one its API key allows, and is given to
\* that device at most once: neither the fallback selection nor a registration
\* change between selection and send duplicates it.
RunByOneDevice ==
    \A t \in Tasks : \A d \in Devices :
       t \in Outstanding(d) =>
          /\ d = dev[t] /\ d \in Allowed[t]
          /\ Cardinality({i \in 1..Len(inbox[d]) : inbox[d][i] = Cmd("task", t)})
               + (IF work[d] = t THEN 1 ELSE 0) = 1

\* No task is written to a device that is not authenticated at that moment, even
\* if it was when it was selected (the re-check in send_task_to_device).
SentToAuthed ==
    [][\A t \in sent' \ sent : clients[dev[t]] # None /\ clients[dev[t]].authed]_vars

\* The channel of an SSE client that does not read is full.
Stalled(t) == Sse(t) /\ pc[t] = "recv" /\ Len(chan[t]) = ChanCap

\* Every request comes to rest.  execute_inference returns whatever its device
\* does; a chat, which has no timeout and no cancel guard (handlers.rs:719), is
\* answered unless its device's connection dies or the device's session task
\* stays stuck behind an SSE client that stopped reading; an SSE client that
\* leaves before the end takes its stream entry with it.
RequestsSettle ==
    <>[](\A t \in Tasks :
            /\ Kind[t] = "completion" => pc[t] = "new" \/ Ended(t)
            /\ Kind[t] = "chat" /\ pc[t] = "recv" =>
                 t \in lost \/ \E u \in Tasks : Stalled(u)
            /\ cancel[t] = "remove" => t \notin pending_streams)

=============================================================================
