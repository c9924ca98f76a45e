---------------------- MODULE InferenceSchedulerProofs ----------------------
(* Theorems about InferenceScheduler, for every set of tasks and devices,   *)
(* every request mix and every channel capacity.                            *)
EXTENDS InferenceScheduler, FiniteSetTheorems, SequenceTheorems, TLAPS

\* A session task handles a chunk exactly while it is not reading.
SessionHasChunk == \A d \in Devices : sess[d] # "idle" => smsg[d] # None

\* A request that is under way and has not expired still owns its receiver.
ReceiverAlive ==
    \A t \in Tasks : pc[t] \notin {"new", "expired", "end"} => t \in rx

\* The inductive invariant behind the theorems.
IInv == TypeOK /\ SessionHasChunk /\ ReceiverAlive /\ WaiterHasSender /\ UsageOwned

\* Initially all maps are empty, all connections down and no request has come in.
LEMMA InitIInv == Init => IInv
  BY SchedulerAssumption
  DEF Init, IInv, TypeOK, ReqTypeOK, MapTypeOK, DevTypeOK, SessTypeOK, HistTypeOK,
      SessionHasChunk, ReceiverAlive, WaiterHasSender, UsageOwned, PCs, Outcomes, SessPCs

-----------------------------------------------------------------------------
(* Types.                                                                   *)

\* The groups of variables a step leaves alone keep their types.
LEMMA Frame ==
    ASSUME TypeOK
    PROVE  /\ UNCHANGED <<reqVars, cancel>> => ReqTypeOK'
           /\ UNCHANGED mapVars => MapTypeOK'
           /\ UNCHANGED <<clients, devVars>> => DevTypeOK'
           /\ UNCHANGED sessVars => SessTypeOK'
           /\ UNCHANGED histVars => HistTypeOK'
  BY DEF TypeOK, ReqTypeOK, MapTypeOK, DevTypeOK, SessTypeOK, HistTypeOK,
         reqVars, mapVars, devVars, sessVars, histVars

\* The steps of one HTTP request (execute_inference and its streaming variants)
\* keep the types.
LEMMA RequestTypeOK ==
    ASSUME TypeOK, NEW t \in Tasks, RequestStep(t) PROVE TypeOK'
  <1> USE Frame
  <1> USE DEF TypeOK
  <1>1. CASE Submit(t)
    <2>1. ReqTypeOK'  BY <1>1 DEF Submit, ReqTypeOK, PCs
    <2>2. MapTypeOK'  BY <1>1 DEF Submit, MapTypeOK
    <2> QED BY <1>1, <2>1, <2>2 DEF Submit
  <1>2. CASE SelectForModel(t)
    <2>1. LeastLoaded(SelectableForModel(t)) \subseteq Devices
          BY SchedulerAssumption DEF LeastLoaded, SelectableForModel, Selectable
    <2>2. ReqTypeOK'  BY <1>2, <2>1 DEF SelectForModel, ReqTypeOK, PCs
    <2> QED BY <1>2, <2>2 DEF SelectForModel
  <1>3. CASE Select(t)
    <2>1. LeastLoaded(Selectable(t)) \subseteq Devices
          BY SchedulerAssumption DEF LeastLoaded, Selectable
    <2>2. ReqTypeOK'  BY <1>3, <2>1 DEF Select, ReqTypeOK, PCs
    <2> QED BY <1>3, <2>2 DEF Select
  <1>4. CASE SelectNone(t)
    <2>1. ReqTypeOK'  BY <1>4 DEF SelectNone, End, ReqTypeOK, PCs, Outcomes
    <2>2. MapTypeOK'  BY <1>4 DEF SelectNone, End, MapTypeOK
    <2> QED BY <1>4, <2>1, <2>2 DEF SelectNone
  <1>5. CASE SendTask(t)
    <2>1. ReqTypeOK'  BY <1>5 DEF SendTask, ReqTypeOK, PCs
    <2>4. Cmd("task", t) \in Cmds  BY DEF Cmd, Cmds
    <2>5. inbox' \in [Devices -> Seq(Cmds)]
      <3>1. \/ inbox' = inbox
            \/ inbox' = [inbox EXCEPT ![dev[t]] = Append(@, Cmd("task", t))]
            BY <1>5 DEF SendTask, Deliver
      <3>2. inbox \in [Devices -> Seq(Cmds)]  BY DEF DevTypeOK
      <3>3. dev[t] \in Devices => Append(inbox[dev[t]], Cmd("task", t)) \in Seq(Cmds)
            BY <2>4, <3>2
      <3> QED BY <3>1, <3>2, <3>3
    <2>2. DevTypeOK'  BY <1>5, <2>5 DEF SendTask, DevTypeOK
    <2>3. HistTypeOK'  BY <1>5 DEF SendTask, Deliver, HistTypeOK
    <2> QED BY <1>5, <2>1, <2>2, <2>3 DEF SendTask
  <1>6. CASE SendTaskFails(t)
    <2>1. ReqTypeOK'  BY <1>6 DEF SendTaskFails, ReqTypeOK, PCs
    <2>4. Cmd("task", t) \in Cmds  BY DEF Cmd, Cmds
    <2>5. inbox' \in [Devices -> Seq(Cmds)]
      <3>1. \/ inbox' = inbox
            \/ inbox' = [inbox EXCEPT ![dev[t]] = Append(@, Cmd("task", t))]
            BY <1>6 DEF SendTaskFails
      <3>2. inbox \in [Devices -> Seq(Cmds)]  BY DEF DevTypeOK
      <3>3. dev[t] \in Devices => Append(inbox[dev[t]], Cmd("task", t)) \in Seq(Cmds)
            BY <2>4, <3>2
      <3> QED BY <3>1, <3>2, <3>3
    <2>2. DevTypeOK'  BY <1>6, <2>5 DEF SendTaskFails, DevTypeOK
    <2>3. HistTypeOK'  BY <1>6 DEF SendTaskFails, HistTypeOK
    <2> QED BY <1>6, <2>1, <2>2, <2>3 DEF SendTaskFails
  <1>7. CASE Cleanup(t)
    <2>1. ReqTypeOK'  BY <1>7 DEF Cleanup, End, ReqTypeOK, PCs, Outcomes
    <2>2. MapTypeOK'  BY <1>7 DEF Cleanup, End, MapTypeOK
    <2> QED BY <1>7, <2>1, <2>2 DEF Cleanup
  <1>8. CASE CheckPending(t)
    <2>1. ReqTypeOK'  BY <1>8 DEF CheckPending, End, ReqTypeOK, PCs, Outcomes
    <2>3. chan' \in [Tasks -> Seq(Events)]
      <3>1. chan' = chan \/ chan' = [chan EXCEPT ![t] = <<>>]
            BY <1>8 DEF CheckPending, End
      <3>2. chan \in [Tasks -> Seq(Events)]  BY DEF MapTypeOK
      <3>3. <<>> \in Seq(Events)  OBVIOUS
      <3> QED BY <3>1, <3>2, <3>3
    <2>2. MapTypeOK'  BY <1>8, <2>3 DEF CheckPending, MapTypeOK
    <2> QED BY <1>8, <2>1, <2>2 DEF CheckPending
  <1>9. CASE ReceiveResult(t)
    <2>1. ReqTypeOK'  BY <1>9 DEF ReceiveResult, End, ReqTypeOK, PCs, Outcomes
    <2>2. MapTypeOK'  BY <1>9 DEF ReceiveResult, End, MapTypeOK
    <2> QED BY <1>9, <2>1, <2>2 DEF ReceiveResult
  <1>10. CASE Timeout(t)
    <2>1. ReqTypeOK'  BY <1>10 DEF Timeout, ReqTypeOK, PCs
    <2> QED BY <1>10, <2>1 DEF Timeout
  <1>11. CASE Expire(t)
    <2>1. ReqTypeOK'  BY <1>11 DEF Expire, End, ReqTypeOK, PCs, Outcomes
    <2>2. MapTypeOK'  BY <1>11 DEF Expire, End, MapTypeOK
    <2> QED BY <1>11, <2>1, <2>2 DEF Expire
  <1>12. CASE ReceiveEvent(t)
    <2>1. Head(chan[t]) \in Events /\ Tail(chan[t]) \in Seq(Events)
          BY <1>12 DEF ReceiveEvent, MapTypeOK
    <2>4. chan' \in [Tasks -> Seq(Events)]
      <3>1. chan[t] # <<>>
            /\ (chan' = [chan EXCEPT ![t] = <<>>] \/ chan' = [chan EXCEPT ![t] = Tail(@)])
            BY <1>12 DEF ReceiveEvent, End
      <3>2. chan \in [Tasks -> Seq(Events)]  BY DEF MapTypeOK
      <3>3. Tail(chan[t]) \in Seq(Events) /\ <<>> \in Seq(Events)  BY <2>1, <3>2
      <3> QED BY <3>1, <3>2, <3>3
    <2>5. got' \in [Tasks -> Seq(Events)]
          BY <1>12, <2>1 DEF ReceiveEvent, ReqTypeOK
    <2>6. pc' \in [Tasks -> PCs] /\ outcome' \in [Tasks -> Outcomes] /\ rx' \subseteq Tasks
          BY <1>12 DEF ReceiveEvent, End, ReqTypeOK, PCs, Outcomes
    <2>2. ReqTypeOK'  BY <1>12, <2>5, <2>6 DEF ReceiveEvent, ReqTypeOK
    <2>3. MapTypeOK'  BY <1>12, <2>4 DEF ReceiveEvent, MapTypeOK
    <2> QED BY <1>12, <2>2, <2>3 DEF ReceiveEvent
  <1>13. CASE ChannelClosed(t)
    <2>1. ReqTypeOK'  BY <1>13 DEF ChannelClosed, End, DropGuard, ReqTypeOK, PCs, Outcomes
    <2>2. MapTypeOK'  BY <1>13 DEF ChannelClosed, End, MapTypeOK
    <2> QED BY <1>13, <2>1, <2>2 DEF ChannelClosed
  <1> QED BY <1>1, <1>2, <1>3, <1>4, <1>5, <1>6, <1>7, <1>8, <1>9, <1>10, <1>11, <1>12,
             <1>13 DEF RequestStep

\* So do a client going away and cancel_inference.
LEMMA CancelTypeOK ==
    ASSUME TypeOK, NEW t \in Tasks, CancelStep(t) \/ ClientGone(t) PROVE TypeOK'
  <1> USE Frame
  <1> USE DEF TypeOK
  <1>1. CASE CancelRemove(t)
    <2>1. ReqTypeOK'  BY <1>1 DEF CancelRemove, ReqTypeOK, reqVars
    <2>2. MapTypeOK'  BY <1>1 DEF CancelRemove, MapTypeOK
    <2> QED BY <1>1, <2>1, <2>2 DEF CancelRemove
  <1>2. CASE CancelWrite(t)
    <2>1. ReqTypeOK'  BY <1>2 DEF CancelWrite, ReqTypeOK, reqVars
    <2>2. inbox' \in [Devices -> Seq(Cmds)]
      <3>1. \/ inbox' = inbox
            \/ inbox' = [inbox EXCEPT ![dev[t]] = Append(@, Cmd("cancel", t))]
            BY <1>2 DEF CancelWrite
      <3>2. inbox \in [Devices -> Seq(Cmds)]  BY DEF DevTypeOK
      <3>3. Cmd("cancel", t) \in Cmds  BY DEF Cmd, Cmds
      <3>4. dev[t] \in Devices => Append(inbox[dev[t]], Cmd("cancel", t)) \in Seq(Cmds)
            BY <3>2, <3>3
      <3> QED BY <3>1, <3>2, <3>4
    <2>3. DevTypeOK'  BY <1>2, <2>2 DEF CancelWrite, DevTypeOK
    <2> QED BY <1>2, <2>1, <2>3 DEF CancelWrite
  <1>3. CASE ClientGone(t)
    <2>1. ReqTypeOK'  BY <1>3 DEF ClientGone, End, DropGuard, ReqTypeOK, PCs, Outcomes
    <2>2. MapTypeOK'  BY <1>3 DEF ClientGone, End, MapTypeOK
    <2> QED BY <1>3, <2>1, <2>2 DEF ClientGone
  <1> QED BY <1>1, <1>2, <1>3 DEF CancelStep

\* So do the device and its control connection.
LEMMA DeviceTypeOK ==
    ASSUME TypeOK, NEW d \in Devices,
           DeviceStep(d) \/ Register(d) \/ ReportModels(d) \/ LinkDies(d)
    PROVE  TypeOK'
  <1> USE Frame
  <1> USE DEF TypeOK
  <1>0. inbox[d] # <<>> => Head(inbox[d]) \in Cmds /\ Tail(inbox[d]) \in Seq(Cmds)
        BY DEF DevTypeOK
  <1>1. CASE ReadTask(d)
    <2>1. DevTypeOK'  BY <1>0, <1>1 DEF ReadTask, DevTypeOK, Cmds
    <2> QED BY <1>1, <2>1 DEF ReadTask
  <1>2. CASE ReadCancel(d)
    <2>1. DevTypeOK'  BY <1>0, <1>2 DEF ReadCancel, DevTypeOK, Cmds
    <2> QED BY <1>2, <2>1 DEF ReadCancel
  <1>3. CASE EmitDelta(d)
    <2>1. Chunk(work[d], "delta", made[work[d]] + 1) \in Chunks
          BY <1>3 DEF EmitDelta, DevTypeOK, Chunk, Chunks
    <2>2. DevTypeOK'  BY <1>3, <2>1 DEF EmitDelta, DevTypeOK
    <2> QED BY <1>3, <2>2 DEF EmitDelta
  <1>4. CASE EmitDone(d)
    <2>1. Chunk(work[d], "done", 0) \in Chunks
          BY <1>4 DEF EmitDone, DevTypeOK, Chunk, Chunks
    <2>2. DevTypeOK'  BY <1>4, <2>1 DEF EmitDone, DevTypeOK
    <2> QED BY <1>4, <2>2 DEF EmitDone
  <1>5. CASE EmitError(d)
    <2>1. Chunk(work[d], "error", 0) \in Chunks /\ work[d] \in Tasks
          BY <1>5 DEF EmitError, DevTypeOK, Chunk, Chunks
    <2>2. DevTypeOK'  BY <1>5, <2>1 DEF EmitError, DevTypeOK
    <2>3. HistTypeOK'  BY <1>5, <2>1 DEF EmitError, HistTypeOK
    <2> QED BY <1>5, <2>2, <2>3 DEF EmitError
  <1>6. CASE Register(d)
    <2>1. DevTypeOK'  BY <1>6, SchedulerAssumption DEF Register, DevTypeOK
    <2> QED BY <1>6, <2>1 DEF Register
  <1>7. CASE ReportModels(d)
    <2>0. clients[d] \in ClientInfo  BY <1>7 DEF ReportModels, DevTypeOK
    <2>1. \A ms \in SUBSET Models : [clients[d] EXCEPT !.models = ms] \in ClientInfo
          BY <2>0 DEF ClientInfo
    <2>2. clients' \in [Devices -> ClientInfo \cup {None}]
          BY <1>7, <2>1 DEF ReportModels, DevTypeOK
    <2>3. DevTypeOK'  BY <1>7, <2>2 DEF ReportModels, DevTypeOK, devVars
    <2> QED BY <1>7, <2>3 DEF ReportModels
  <1>8. CASE LinkDies(d)
    <2>1. \A n \in 0..Len(up[d]) : SubSeq(up[d], 1, n) \in Seq(Chunks)  BY DEF DevTypeOK
    <2>2. DevTypeOK'  BY <1>8, <2>1 DEF LinkDies, DevTypeOK
    <2>6. \A i \in 1..Len(up[d]) : up[d][i] \in Chunks  BY DEF DevTypeOK
    <2>3. \A i \in 1..Len(up[d]) : up[d][i].task \in Tasks  BY <2>6 DEF Chunks
    <2>4. \A n \in 0..Len(up[d]) : {up[d][i].task : i \in (n + 1)..Len(up[d])} \subseteq Tasks
          BY <2>3 DEF DevTypeOK
    <2>5. HistTypeOK'  BY <1>8, <2>4 DEF LinkDies, HistTypeOK, Outstanding
    <2> QED BY <1>8, <2>2, <2>5 DEF LinkDies
  <1> QED BY <1>1, <1>2, <1>3, <1>4, <1>5, <1>6, <1>7, <1>8 DEF DeviceStep

\* So does the session task (handle_inference_result_chunk and
\* handle_inference_result).
LEMMA SessionTypeOK ==
    ASSUME TypeOK, SessionHasChunk, NEW d \in Devices, SessionStep(d) PROVE TypeOK'
  <1> USE Frame
  <1> USE DEF TypeOK
  <1>0. up[d] # <<>> => Head(up[d]) \in Chunks /\ Tail(up[d]) \in Seq(Chunks)
        BY DEF DevTypeOK
  <1>a. sess[d] # "idle" => smsg[d] \in Chunks /\ smsg[d].task \in Tasks
        BY DEF SessTypeOK, SessionHasChunk, Chunks
  <1>b. ASSUME NEW k \in {"delta", "finish", "error", "done"}, NEW n \in Nat,
               NEW t \in Tasks, SendEvent(t, Event(k, n))
        PROVE  chan' \in [Tasks -> Seq(Events)]
    <2>1. Event(k, n) \in Events  BY DEF Event, Events
    <2>2. chan \in [Tasks -> Seq(Events)]  BY DEF MapTypeOK
    <2>3. Append(chan[t], Event(k, n)) \in Seq(Events)  BY <2>1, <2>2
    <2>4. chan' = chan \/ chan' = [chan EXCEPT ![t] = Append(@, Event(k, n))]
          BY <1>b DEF SendEvent
    <2> QED BY <2>2, <2>3, <2>4
  <1>1. CASE TakeStreamChunk(d)
    <2>1. SessTypeOK'  BY <1>0, <1>1 DEF TakeStreamChunk, SessTypeOK, SessPCs, Chunks
    <2>2. DevTypeOK'  BY <1>0, <1>1 DEF TakeStreamChunk, DevTypeOK
    <2> QED BY <1>1, <2>1, <2>2 DEF TakeStreamChunk
  <1>2. CASE SessDelta(d)
    <2>0. smsg[d].n \in Nat  BY <1>2, <1>a DEF SessDelta, Chunks
    <2>1. chan' \in [Tasks -> Seq(Events)]  BY <1>2, <1>a, <1>b, <2>0 DEF SessDelta
    <2>2. MapTypeOK'  BY <1>2, <2>1 DEF SessDelta, MapTypeOK
    <2>3. SessTypeOK'  BY <1>2 DEF SessDelta, Goto, SessTypeOK, SessPCs
    <2> QED BY <1>2, <2>2, <2>3 DEF SessDelta
  <1>3. CASE SessError(d)
    <2>1. chan' \in [Tasks -> Seq(Events)]  BY <1>3, <1>a, <1>b DEF SessError
    <2>2. MapTypeOK'  BY <1>3, <2>1 DEF SessError, MapTypeOK
    <2>3. SessTypeOK'  BY <1>3 DEF SessError, Goto, SessTypeOK, SessPCs
    <2> QED BY <1>3, <2>2, <2>3 DEF SessError
  <1>4. CASE SessUsage(d)
    <2>1. MapTypeOK'  BY <1>4, <1>a DEF SessUsage, MapTypeOK
    <2>2. SessTypeOK'  BY <1>4 DEF SessUsage, Goto, SessTypeOK, SessPCs
    <2> QED BY <1>4, <2>1, <2>2 DEF SessUsage
  <1>5. CASE SessFinish(d)
    <2>1. chan' \in [Tasks -> Seq(Events)]  BY <1>5, <1>a, <1>b DEF SessFinish
    <2>2. MapTypeOK'  BY <1>5, <2>1 DEF SessFinish, MapTypeOK
    <2>3. SessTypeOK'  BY <1>5 DEF SessFinish, Goto, SessTypeOK, SessPCs
    <2> QED BY <1>5, <2>2, <2>3 DEF SessFinish
  <1>6. CASE SessDone(d)
    <2>1. chan' \in [Tasks -> Seq(Events)]  BY <1>6, <1>a, <1>b DEF SessDone
    <2>2. MapTypeOK'  BY <1>6, <2>1 DEF SessDone, MapTypeOK
    <2>3. SessTypeOK'  BY <1>6 DEF SessDone, Goto, SessTypeOK, SessPCs
    <2> QED BY <1>6, <2>2, <2>3 DEF SessDone
  <1>7. CASE SessRemove(d)
    <2>1. MapTypeOK'  BY <1>7 DEF SessRemove, MapTypeOK
    <2>2. SessTypeOK'  BY <1>7 DEF SessRemove, Goto, SessTypeOK, SessPCs
    <2> QED BY <1>7, <2>1, <2>2 DEF SessRemove
  <1>8. CASE PlainChunk(d)
    <2> DEFINE m == Head(up[d])
    <2>1. m \in Chunks /\ m.task \in Tasks /\ m.n \in Nat
          BY <1>0, <1>8 DEF PlainChunk, Chunks
    <2>2. Partial(m.task) \in Seq(Nat)  BY <2>1 DEF Partial, MapTypeOK
    <2>3. Append(Partial(m.task), m.n) \in Seq(Nat)  BY <2>1, <2>2
    <2>4. pending_tasks' \subseteq Tasks
          BY <1>8 DEF PlainChunk, handle_inference_result, MapTypeOK
    <2>5. partial_results' \in [Tasks -> Seq(Nat) \cup {None}]
      <3>1. \E y \in Seq(Nat) \cup {None} :
               partial_results' = [partial_results EXCEPT ![m.task] = y]
            BY <1>8, <2>1, <2>3 DEF PlainChunk, handle_inference_result, MapTypeOK
      <3> QED BY <2>1, <3>1 DEF MapTypeOK
    <2>6. oneshot' \in [Tasks -> Results \cup {None}]
      <3>1. /\ [ok |-> TRUE, text |-> Partial(m.task)] \in Results
            /\ [ok |-> FALSE, text |-> <<>>] \in Results
            BY <2>2 DEF Results
      <3>2. \/ oneshot' = oneshot
            \/ \E r \in Results : oneshot' = [oneshot EXCEPT ![m.task] = r]
            BY <1>8, <3>1 DEF PlainChunk, handle_inference_result
      <3> QED BY <3>2 DEF MapTypeOK
    <2>7. MapTypeOK'  BY <1>8, <2>4, <2>5, <2>6 DEF PlainChunk, MapTypeOK
    <2>8. DevTypeOK'  BY <1>0, <1>8 DEF PlainChunk, DevTypeOK
    <2> QED BY <1>8, <2>7, <2>8 DEF PlainChunk
  <1>9. CASE SessionEnds(d)
    <2>1. DevTypeOK'  BY <1>9 DEF SessionEnds, DevTypeOK, devVars
    <2> QED BY <1>9, <2>1 DEF SessionEnds
  <1> QED BY <1>1, <1>2, <1>3, <1>4, <1>5, <1>6, <1>7, <1>8, <1>9 DEF SessionStep

\* Every step of the server and its devices keeps the types.
LEMMA StepTypeOK == IInv /\ [Next]_vars => TypeOK'
  <1> SUFFICES ASSUME IInv, [Next]_vars PROVE TypeOK'  OBVIOUS
  <1>1. CASE UNCHANGED vars  BY <1>1, Frame DEF IInv, vars, TypeOK
  <1>2. CASE Next
        BY <1>2, RequestTypeOK, CancelTypeOK, DeviceTypeOK, SessionTypeOK DEF Next, IInv
  <1> QED BY <1>1, <1>2

-----------------------------------------------------------------------------
(* The other parts of the inductive invariant.                              *)

\* Only a session task changes where it is, and it takes a chunk as it starts.
LEMMA StepSessionHasChunk == IInv /\ [Next]_vars => SessionHasChunk'
  <1> SUFFICES ASSUME IInv, [Next]_vars PROVE SessionHasChunk'  OBVIOUS
  <1>0. TypeOK /\ SessionHasChunk  BY DEF IInv
  <1>1. CASE UNCHANGED sessVars  BY <1>0, <1>1 DEF SessionHasChunk, sessVars
  <1>2. ASSUME NEW d \in Devices, SessionStep(d) PROVE SessionHasChunk'
    <2> USE DEF SessionHasChunk, TypeOK, SessTypeOK, Goto
    <2>1. CASE TakeStreamChunk(d)
      <3>1. Head(up[d]) \in Chunks
            BY <1>0, <2>1 DEF TakeStreamChunk, DevTypeOK
      <3>2. Head(up[d]) # None  BY <3>1, SchedulerAssumption
      <3> QED BY <1>0, <2>1, <3>2 DEF TakeStreamChunk
    <2>2. CASE SessDelta(d)  BY <1>0, <2>2 DEF SessDelta
    <2>3. CASE SessError(d)  BY <1>0, <2>3 DEF SessError
    <2>4. CASE SessUsage(d)  BY <1>0, <2>4 DEF SessUsage
    <2>5. CASE SessFinish(d)  BY <1>0, <2>5 DEF SessFinish
    <2>6. CASE SessDone(d)  BY <1>0, <2>6 DEF SessDone
    <2>7. CASE SessRemove(d)  BY <1>0, <2>7 DEF SessRemove
    <2>8. CASE UNCHANGED sessVars  BY <1>0, <2>8 DEF sessVars
    <2> QED BY <1>2, <2>1, <2>2, <2>3, <2>4, <2>5, <2>6, <2>7, <2>8
            DEF SessionStep, PlainChunk, SessionEnds
  <1>3. ASSUME NEW t \in Tasks, RequestStep(t) \/ CancelStep(t) \/ ClientGone(t)
        PROVE  UNCHANGED sessVars
        BY <1>3 DEF RequestStep, Submit, SelectForModel, Select, SelectNone, SendTask,
           SendTaskFails, Cleanup, CheckPending, ReceiveResult, Timeout, Expire, ReceiveEvent,
           ChannelClosed, CancelStep, CancelRemove, CancelWrite, ClientGone
  <1>4. ASSUME NEW d \in Devices,
               DeviceStep(d) \/ Register(d) \/ ReportModels(d) \/ LinkDies(d)
        PROVE  UNCHANGED sessVars
        BY <1>4 DEF DeviceStep, ReadTask, ReadCancel, EmitDelta, EmitDone, EmitError, Register,
           ReportModels, LinkDies
  <1> QED BY <1>1, <1>2, <1>3, <1>4 DEF Next, vars

\* Steps of devices and sessions leave the requests' own state alone.
LEMMA RequestFrame ==
    ASSUME NEW d \in Devices,
           DeviceStep(d) \/ SessionStep(d) \/ Register(d) \/ ReportModels(d) \/ LinkDies(d)
    PROVE  UNCHANGED reqVars
  BY DEF DeviceStep, ReadTask, ReadCancel, EmitDelta, EmitDone, EmitError, Register,
         ReportModels, LinkDies, SessionStep, TakeStreamChunk, SessDelta, SessError, SessUsage,
         SessFinish, SessDone, SessRemove, PlainChunk, SessionEnds

\* A receiver is dropped only together with its request, or when it expires.
LEMMA StepReceiverAlive == IInv /\ [Next]_vars => ReceiverAlive'
  <1> SUFFICES ASSUME IInv, [Next]_vars PROVE ReceiverAlive'  OBVIOUS
  <1>0. ReqTypeOK /\ ReceiverAlive  BY DEF IInv, TypeOK
  <1>1. CASE UNCHANGED reqVars  BY <1>0, <1>1 DEF ReceiverAlive, reqVars
  <1>2. ASSUME NEW t \in Tasks, RequestStep(t) PROVE ReceiverAlive'
    <2> USE DEF ReceiverAlive, ReqTypeOK, End
    <2>1. CASE Submit(t)  BY <1>0, <2>1 DEF Submit
    <2>2. CASE SelectForModel(t)  BY <1>0, <2>2 DEF SelectForModel
    <2>3. CASE Select(t)  BY <1>0, <2>3 DEF Select
    <2>4. CASE SelectNone(t)  BY <1>0, <2>4 DEF SelectNone
    <2>5. CASE SendTask(t)  BY <1>0, <2>5 DEF SendTask
    <2>6. CASE SendTaskFails(t)  BY <1>0, <2>6 DEF SendTaskFails
    <2>7. CASE Cleanup(t)  BY <1>0, <2>7 DEF Cleanup
    <2>8. CASE CheckPending(t)  BY <1>0, <2>8 DEF CheckPending
    <2>9. CASE ReceiveResult(t)  BY <1>0, <2>9 DEF ReceiveResult
    <2>10. CASE Timeout(t)  BY <1>0, <2>10 DEF Timeout
    <2>11. CASE Expire(t)  BY <1>0, <2>11 DEF Expire
    <2>12. CASE ReceiveEvent(t)  BY <1>0, <2>12 DEF ReceiveEvent
    <2>13. CASE ChannelClosed(t)  BY <1>0, <2>13 DEF ChannelClosed
    <2> QED BY <1>2, <2>1, <2>2, <2>3, <2>4, <2>5, <2>6, <2>7, <2>8, <2>9, <2>10, <2>11,
               <2>12, <2>13 DEF RequestStep
  <1>3. ASSUME NEW t \in Tasks, CancelStep(t) PROVE UNCHANGED reqVars
        BY <1>3 DEF CancelStep, CancelRemove, CancelWrite
  <1>4. ASSUME NEW t \in Tasks, ClientGone(t) PROVE ReceiverAlive'
        BY <1>0, <1>4 DEF ClientGone, End, ReceiverAlive, ReqTypeOK
  <1> QED BY <1>1, <1>2, <1>3, <1>4, RequestFrame DEF Next, vars

\* A waiting request loses its sender only to the answer it is waiting for: the
\* receiver is alive, so handle_inference_result's send succeeds.
LEMMA StepWaiterHasSender == IInv /\ [Next]_vars => WaiterHasSender'
  <1> SUFFICES ASSUME IInv, [Next]_vars PROVE WaiterHasSender'  OBVIOUS
  <1>0. TypeOK /\ ReqTypeOK /\ MapTypeOK /\ WaiterHasSender /\ ReceiverAlive
        BY DEF IInv, TypeOK
  <1>1. CASE UNCHANGED <<pc, pending_tasks, oneshot>>  BY <1>0, <1>1 DEF WaiterHasSender
  <1>2. ASSUME NEW t \in Tasks, RequestStep(t) PROVE WaiterHasSender'
    <2> USE DEF WaiterHasSender, ReqTypeOK, MapTypeOK, End, mapVars
    <2>1. CASE Submit(t)  BY <1>0, <2>1 DEF Submit
    <2>2. CASE SelectForModel(t)  BY <1>0, <2>2 DEF SelectForModel
    <2>3. CASE Select(t)  BY <1>0, <2>3 DEF Select
    <2>4. CASE SelectNone(t)  BY <1>0, <2>4 DEF SelectNone
    <2>5. CASE SendTask(t)  BY <1>0, <2>5 DEF SendTask
    <2>6. CASE SendTaskFails(t)  BY <1>0, <2>6 DEF SendTaskFails
    <2>7. CASE Cleanup(t)  BY <1>0, <2>7 DEF Cleanup
    <2>8. CASE CheckPending(t)  BY <1>0, <2>8 DEF CheckPending
    <2>9. CASE ReceiveResult(t)  BY <1>0, <2>9 DEF ReceiveResult
    <2>10. CASE Timeout(t)  BY <1>0, <2>10 DEF Timeout
    <2>11. CASE Expire(t)  BY <1>0, <2>11 DEF Expire
    <2>12. CASE ReceiveEvent(t)  BY <1>0, <2>12 DEF ReceiveEvent
    <2>13. CASE ChannelClosed(t)  BY <1>0, <2>13 DEF ChannelClosed
    <2> QED BY <1>2, <2>1, <2>2, <2>3, <2>4, <2>5, <2>6, <2>7, <2>8, <2>9, <2>10, <2>11,
               <2>12, <2>13 DEF RequestStep
  <1>3. ASSUME NEW t \in Tasks, CancelStep(t) PROVE UNCHANGED <<pc, pending_tasks, oneshot>>
        BY <1>3 DEF CancelStep, CancelRemove, CancelWrite, reqVars, mapVars
  <1>4. ASSUME NEW t \in Tasks, ClientGone(t) PROVE WaiterHasSender'
        BY <1>0, <1>4 DEF ClientGone, End, WaiterHasSender, ReqTypeOK
  <1>5. ASSUME NEW d \in Devices,
               DeviceStep(d) \/ Register(d) \/ ReportModels(d) \/ LinkDies(d)
        PROVE  UNCHANGED <<pc, pending_tasks, oneshot>>
        BY <1>5 DEF DeviceStep, ReadTask, ReadCancel, EmitDelta, EmitDone, EmitError, Register,
           ReportModels, LinkDies, reqVars, mapVars
  <1>6. ASSUME NEW d \in Devices, PlainChunk(d) PROVE WaiterHasSender'
    <2> DEFINE m == Head(up[d])
    <2>1. m \in Chunks /\ m.task \in Tasks
      <3>1. up[d] \in Seq(Chunks)  BY <1>0 DEF TypeOK, DevTypeOK
      <3>2. up[d] # <<>>  BY <1>6 DEF PlainChunk
      <3>3. m \in Chunks  BY <3>1, <3>2
      <3> QED BY <3>3 DEF Chunks
    <2>2. UNCHANGED pc  BY <1>6 DEF PlainChunk, reqVars
    <2>3. SUFFICES ASSUME NEW t \in Tasks, pc[t] = "wait"
                   PROVE  t \in pending_tasks' \/ oneshot'[t] # None
          BY <2>2 DEF WaiterHasSender
    <2>4. t \in rx /\ (t \in pending_tasks \/ oneshot[t] # None)
          BY <1>0, <2>3 DEF WaiterHasSender, ReceiverAlive
    <2>5. CASE t # m.task
      <3>1. pending_tasks' = pending_tasks \/ pending_tasks' = pending_tasks \ {m.task}
            BY <1>6 DEF PlainChunk, handle_inference_result
      <3>2. oneshot' = oneshot \/ \E r : oneshot' = [oneshot EXCEPT ![m.task] = r]
            BY <1>6 DEF PlainChunk, handle_inference_result
      <3>3. oneshot'[t] = oneshot[t]
            BY <1>0, <2>5, <3>2 DEF MapTypeOK
      <3> QED BY <2>4, <2>5, <3>1, <3>3
    <2>6. CASE t = m.task
      <3>1. Partial(m.task) \in Seq(Nat)  BY <1>0, <2>1 DEF Partial, MapTypeOK
      <3>2. /\ [ok |-> TRUE, text |-> Partial(m.task)] \in Results
            /\ [ok |-> FALSE, text |-> <<>>] \in Results
            BY <3>1 DEF Results
      <3>3. CASE t \in pending_tasks
        <4>1. \/ t \in pending_tasks'
              \/ \E r \in Results : oneshot' = [oneshot EXCEPT ![t] = r]
              BY <1>6, <2>4, <2>6, <3>2, <3>3 DEF PlainChunk, handle_inference_result
        <4> QED BY <1>0, <4>1, SchedulerAssumption DEF MapTypeOK
      <3>4. CASE t \notin pending_tasks
            BY <1>6, <2>4, <2>6, <3>4 DEF PlainChunk, handle_inference_result
      <3> QED BY <3>3, <3>4
    <2> QED BY <2>5, <2>6
  <1>7. ASSUME NEW d \in Devices, SessionStep(d), ~PlainChunk(d)
        PROVE  UNCHANGED <<pc, pending_tasks, oneshot>>
        BY <1>7 DEF SessionStep, TakeStreamChunk, SessDelta, SessError, SessUsage, SessFinish,
           SessDone, SessRemove, SessionEnds, reqVars, mapVars
  <1>8. CASE UNCHANGED vars  BY <1>1, <1>8 DEF vars, reqVars, mapVars
  <1> QED BY <1>1, <1>2, <1>3, <1>4, <1>5, <1>6, <1>7, <1>8 DEF Next

\* A usage record is inserted by the session that goes on to remove it.
LEMMA StepUsageOwned == IInv /\ [Next]_vars => UsageOwned'
  <1> SUFFICES ASSUME IInv, [Next]_vars PROVE UsageOwned'  OBVIOUS
  <1>0. UsageOwned /\ SessTypeOK /\ SessionHasChunk  BY DEF IInv, TypeOK
  <1>1. CASE UNCHANGED <<stream_usages, sessVars>>  BY <1>0, <1>1 DEF UsageOwned, sessVars
  <1>2. ASSUME NEW t \in Tasks, RequestStep(t) \/ CancelStep(t) \/ ClientGone(t)
        PROVE  UNCHANGED <<stream_usages, sessVars>>
        BY <1>2 DEF RequestStep, Submit, SelectForModel, Select, SelectNone, SendTask,
           SendTaskFails, Cleanup, CheckPending, ReceiveResult, Timeout, Expire, ReceiveEvent,
           ChannelClosed, CancelStep, CancelRemove, CancelWrite, ClientGone, mapVars
  <1>3. ASSUME NEW d \in Devices,
               DeviceStep(d) \/ Register(d) \/ ReportModels(d) \/ LinkDies(d)
        PROVE  UNCHANGED <<stream_usages, sessVars>>
        BY <1>3 DEF DeviceStep, ReadTask, ReadCancel, EmitDelta, EmitDone, EmitError, Register,
           ReportModels, LinkDies, mapVars
  <1>4. ASSUME NEW d \in Devices, SessionStep(d) PROVE UsageOwned'
    <2> USE DEF UsageOwned, SessTypeOK, SessionHasChunk, Goto
    <2>1. CASE TakeStreamChunk(d)  BY <1>0, <2>1 DEF TakeStreamChunk, mapVars
    <2>2. CASE SessDelta(d)  BY <1>0, <2>2 DEF SessDelta
    <2>3. CASE SessError(d)  BY <1>0, <2>3 DEF SessError
    <2>4. CASE SessUsage(d)  BY <1>0, <2>4 DEF SessUsage
    <2>5. CASE SessFinish(d)  BY <1>0, <2>5 DEF SessFinish
    <2>6. CASE SessDone(d)  BY <1>0, <2>6 DEF SessDone
    <2>7. CASE SessRemove(d)  BY <1>0, <2>7 DEF SessRemove
    <2>8. CASE PlainChunk(d) \/ SessionEnds(d)
          BY <1>1, <2>8 DEF PlainChunk, SessionEnds, mapVars
    <2> QED BY <1>4, <2>1, <2>2, <2>3, <2>4, <2>5, <2>6, <2>7, <2>8 DEF SessionStep
  <1>5. CASE UNCHANGED vars  BY <1>1, <1>5 DEF vars, mapVars
  <1> QED BY <1>1, <1>2, <1>3, <1>4, <1>5 DEF Next

-----------------------------------------------------------------------------
(* The theorems.                                                            *)

\* IInv holds in every reachable state.
THEOREM Invariance == Spec => []IInv
  <1>1. Init => IInv  BY InitIInv
  <1>2. IInv /\ [Next]_vars => IInv'
        BY StepTypeOK, StepSessionHasChunk, StepReceiverAlive, StepWaiterHasSender,
           StepUsageOwned DEF IInv
  <1> QED BY <1>1, <1>2, PTL DEF Spec

\* The scheduler's maps, channels and the messages exchanged with devices keep
\* their types.
THEOREM TypeCorrect == Spec => []TypeOK
  <1>1. IInv => TypeOK  BY DEF IInv
  <1> QED BY <1>1, Invariance, PTL

\* execute_inference never waits on a channel whose sender has been dropped
\* unused: the "Task response channel closed" branch is dead code.
THEOREM WaiterAnswerable == Spec => []WaiterHasSender
  <1>1. IInv => WaiterHasSender  BY DEF IInv
  <1> QED BY <1>1, Invariance, PTL

\* stream_usages holds no record that no session task is about to remove: the
\* map cannot grow with the number of requests served.
THEOREM UsageBounded == Spec => []UsageOwned
  <1>1. IInv => UsageOwned  BY DEF IInv
  <1> QED BY <1>1, Invariance, PTL

\* No task is ever written to a device that is not registered and
\* authenticated at that moment, although it was selected in an earlier
\* critical section.
THEOREM OnlyAuthedDevices == Spec => SentToAuthed
  <1>1. [Next]_vars =>
          [\A t \in sent' \ sent : clients[dev[t]] # None /\ clients[dev[t]].authed]_vars
    <2> SUFFICES ASSUME Next
                 PROVE \A t \in sent' \ sent : clients[dev[t]] # None /\ clients[dev[t]].authed
        OBVIOUS
    <2>1. CASE UNCHANGED sent  BY <2>1
    <2>2. ASSUME NEW t \in Tasks, SendTask(t) \/ SendTaskFails(t)
          PROVE \A u \in sent' \ sent : clients[dev[u]] # None /\ clients[dev[u]].authed
          BY <2>2 DEF SendTask, SendTaskFails, Ready
    <2>3. ASSUME NEW t \in Tasks, RequestStep(t) \/ CancelStep(t) \/ ClientGone(t),
                 ~SendTask(t), ~SendTaskFails(t)
          PROVE  UNCHANGED sent
          BY <2>3 DEF RequestStep, Submit, SelectForModel, Select, SelectNone, Cleanup,
             CheckPending, ReceiveResult, Timeout, Expire, ReceiveEvent, ChannelClosed,
             CancelStep, CancelRemove, CancelWrite, ClientGone, histVars
    <2>4. ASSUME NEW d \in Devices,
                 DeviceStep(d) \/ SessionStep(d) \/ Register(d) \/ ReportModels(d) \/ LinkDies(d)
          PROVE  UNCHANGED sent
          BY <2>4 DEF DeviceStep, ReadTask, ReadCancel, EmitDelta, EmitDone, EmitError,
             Register, ReportModels, LinkDies, SessionStep, TakeStreamChunk, SessDelta,
             SessError, SessUsage, SessFinish, SessDone, SessRemove, PlainChunk, SessionEnds,
             histVars
    <2> QED BY <2>1, <2>2, <2>3, <2>4 DEF Next
  <1> QED BY <1>1, PTL DEF Spec, SentToAuthed

-----------------------------------------------------------------------------
(* The path of a task from the server to its device and back.               *)

HasCmd(d, t) == \E i \in 1..Len(inbox[d]) : inbox[d][i] = Cmd("task", t)
OnWire(d, t) == \E i \in 1..Len(up[d]) : up[d][i].task = t

\* A task is written at the end of "send", and then names an allowed device.
Assigned ==
    \A t \in Tasks :
       /\ pc[t] \in {"new", "select_model", "select", "send"} => t \notin sent
       /\ pc[t] \in {"check", "wait", "expired", "recv"} => t \in sent
       /\ pc[t] = "send" \/ t \in sent => dev[t] \in Allowed[t]

\* Wherever a task or a chunk of its answer is, it is on the way to or from the
\* device that was selected.
Located ==
    \A d \in Devices, t \in Tasks :
       HasCmd(d, t) \/ work[d] = t \/ OnWire(d, t) \/ HoldsSender(d, t) => t \in sent /\ dev[t] = d

CmdOnce ==
    \A d \in Devices : \A i, j \in 1..Len(inbox[d]) :
       inbox[d][i].kind = "task" /\ inbox[d][j] = inbox[d][i] => i = j

\* A command that was not read has no answer yet.
Unread ==
    \A d \in Devices, t \in Tasks :
       HasCmd(d, t) => work[d] # t /\ ~OnWire(d, t) /\ ~HoldsSender(d, t)

PathInv == IInv /\ Assigned /\ Located /\ CmdOnce /\ Unread

\* Head and Tail of a queue, by position.
LEMMA QueueTail ==
    ASSUME NEW S, NEW q \in Seq(S), q # <<>>
    PROVE  /\ Len(q) \in Nat /\ Len(q) > 0
           /\ Head(q) = q[1] /\ Head(q) \in S
           /\ Tail(q) \in Seq(S) /\ Len(Tail(q)) = Len(q) - 1
           /\ \A i \in 1..Len(Tail(q)) : Tail(q)[i] = q[i + 1] /\ i + 1 \in 2..Len(q)
  <1>1. Len(q) \in Nat /\ Len(q) > 0  OBVIOUS
  <1>2. Head(q) = q[1] /\ Head(q) \in S  BY <1>1
  <1>3. Tail(q) \in Seq(S) /\ Len(Tail(q)) = Len(q) - 1  BY <1>1
  <1>4. \A i \in 1..Len(Tail(q)) : Tail(q)[i] = q[i + 1]  BY <1>1, <1>3
  <1>5. \A i \in 1..Len(Tail(q)) : i + 1 \in 2..Len(q)  BY <1>1, <1>3
  <1> QED BY <1>1, <1>2, <1>3, <1>4, <1>5

\* What a write and a read do to the commands of a connection.
LEMMA InboxAppend ==
    ASSUME DevTypeOK, NEW e \in Devices, NEW c \in Cmds,
           inbox' = [inbox EXCEPT ![e] = Append(@, c)]
    PROVE  /\ \A d \in Devices, t \in Tasks :
                 HasCmd(d, t)' <=> HasCmd(d, t) \/ (d = e /\ c = Cmd("task", t))
           /\ CmdOnce /\ (c.kind = "task" => ~HasCmd(e, c.task)) => CmdOnce'
  <1>1. \A d \in Devices : inbox[d] \in Seq(Cmds) /\ Len(inbox[d]) \in Nat  BY DEF DevTypeOK
  <1>2. \A d \in Devices : d # e => inbox'[d] = inbox[d]  BY DEF DevTypeOK
  <1>3. /\ Len(inbox'[e]) = Len(inbox[e]) + 1 /\ inbox'[e][Len(inbox[e]) + 1] = c
        /\ \A i \in 1..Len(inbox[e]) : inbox'[e][i] = inbox[e][i]
    <2>1. inbox'[e] = Append(inbox[e], c)  BY DEF DevTypeOK
    <2> QED BY <1>1, <2>1
  <1>4. ASSUME NEW t \in Tasks
        PROVE  HasCmd(e, t)' <=> HasCmd(e, t) \/ c = Cmd("task", t)
        BY <1>1, <1>3 DEF HasCmd
  <1>5. ASSUME NEW d \in Devices, d # e, NEW t \in Tasks PROVE HasCmd(d, t)' <=> HasCmd(d, t)
        BY <1>2, <1>5 DEF HasCmd
  <1>6. ASSUME CmdOnce, c.kind = "task" => ~HasCmd(e, c.task) PROVE CmdOnce'
    <2>1. c.kind = "task" => \A i \in 1..Len(inbox[e]) : inbox[e][i] # c
      <3>1. c.kind = "task" => c = Cmd("task", c.task)  BY DEF Cmd, Cmds
      <3> QED BY <1>6, <3>1 DEF HasCmd
    <2>2. ASSUME NEW i \in 1..Len(inbox'[e]), NEW j \in 1..Len(inbox'[e]),
                 inbox'[e][i].kind = "task", inbox'[e][j] = inbox'[e][i]
          PROVE  i = j
          BY <1>1, <1>3, <1>6, <2>1, <2>2 DEF CmdOnce
    <2> QED BY <1>2, <1>6, <2>2 DEF CmdOnce
  <1> QED BY <1>4, <1>5, <1>6

LEMMA InboxTail ==
    ASSUME DevTypeOK, CmdOnce, NEW e \in Devices, inbox[e] # <<>>,
           inbox' = [inbox EXCEPT ![e] = Tail(@)]
    PROVE  /\ \A d \in Devices, t \in Tasks :
                 HasCmd(d, t)' <=> HasCmd(d, t) /\ ~(d = e /\ Head(inbox[e]) = Cmd("task", t))
           /\ Head(inbox[e]).kind = "task" =>
                 Head(inbox[e]).task \in Tasks /\ HasCmd(e, Head(inbox[e]).task)
           /\ CmdOnce'
  <1>1. inbox[e] \in Seq(Cmds) /\ Len(inbox[e]) \in Nat /\ Len(inbox[e]) > 0  BY DEF DevTypeOK
  <1>2. \A d \in Devices : d # e => inbox'[d] = inbox[d]  BY DEF DevTypeOK
  <1>3. /\ Len(inbox'[e]) = Len(inbox[e]) - 1 /\ Head(inbox[e]) = inbox[e][1]
        /\ \A i \in 1..Len(inbox'[e]) : inbox'[e][i] = inbox[e][i + 1]
    <2>1. inbox'[e] = Tail(inbox[e])  BY DEF DevTypeOK
    <2> QED BY <1>1, <2>1, QueueTail
  <1>4. ASSUME NEW t \in Tasks
        PROVE  HasCmd(e, t)' <=> HasCmd(e, t) /\ Head(inbox[e]) # Cmd("task", t)
    <2>1. ASSUME HasCmd(e, t)' PROVE HasCmd(e, t) /\ Head(inbox[e]) # Cmd("task", t)
      <3>1. PICK i \in 1..Len(inbox'[e]) : inbox'[e][i] = Cmd("task", t)  BY <2>1 DEF HasCmd
      <3>2. i + 1 \in 1..Len(inbox[e]) /\ 1 \in 1..Len(inbox[e]) /\ i + 1 # 1
            BY <1>1, <1>3
      <3>3. inbox[e][i + 1] = Cmd("task", t) /\ Cmd("task", t).kind = "task"
            BY <1>3, <3>1 DEF Cmd
      <3> QED BY <1>3, <3>2, <3>3 DEF HasCmd, CmdOnce
    <2>2. ASSUME HasCmd(e, t), Head(inbox[e]) # Cmd("task", t) PROVE HasCmd(e, t)'
      <3>1. PICK i \in 1..Len(inbox[e]) : inbox[e][i] = Cmd("task", t)  BY <2>2 DEF HasCmd
      <3>2. i - 1 \in 1..Len(inbox'[e]) /\ (i - 1) + 1 = i  BY <1>1, <1>3, <2>2, <3>1
      <3>3. inbox'[e][i - 1] = Cmd("task", t)  BY <1>3, <3>1, <3>2
      <3> QED BY <3>2, <3>3 DEF HasCmd
    <2> QED BY <2>1, <2>2
  <1>5. ASSUME NEW d \in Devices, d # e, NEW t \in Tasks PROVE HasCmd(d, t)' <=> HasCmd(d, t)
        BY <1>2, <1>5 DEF HasCmd
  <1>6. ASSUME Head(inbox[e]).kind = "task"
        PROVE  Head(inbox[e]).task \in Tasks /\ HasCmd(e, Head(inbox[e]).task)
    <2>1. Head(inbox[e]) \in Cmds /\ 1 \in 1..Len(inbox[e])  BY <1>1, <1>3
    <2>2. Head(inbox[e]) = Cmd("task", Head(inbox[e]).task)  BY <1>6, <2>1 DEF Cmds, Cmd
    <2> QED BY <1>3, <2>1, <2>2 DEF HasCmd, Cmds
  <1>7. CmdOnce'
    <2>1. ASSUME NEW i \in 1..Len(inbox'[e]), NEW j \in 1..Len(inbox'[e]),
                 inbox'[e][i].kind = "task", inbox'[e][j] = inbox'[e][i]
          PROVE  i = j
      <3>1. i + 1 \in 1..Len(inbox[e]) /\ j + 1 \in 1..Len(inbox[e])  BY <1>1, <1>3
      <3>2. i + 1 = j + 1  BY <1>3, <2>1, <3>1 DEF CmdOnce
      <3> QED BY <3>2
    <2> QED BY <1>2, <2>1 DEF CmdOnce
  <1> QED BY <1>4, <1>5, <1>6, <1>7

\* What a chunk written and a chunk read do to the connection.
LEMMA UpAppend ==
    ASSUME DevTypeOK, NEW e \in Devices, NEW m \in Chunks, up' = [up EXCEPT ![e] = Append(@, m)]
    PROVE  /\ \A d \in Devices : d # e => up'[d] = up[d]
           /\ Len(up[e]) \in Nat /\ Len(up'[e]) = Len(up[e]) + 1 /\ up'[e][Len(up[e]) + 1] = m
           /\ \A i \in 1..Len(up[e]) : up'[e][i] = up[e][i]
           /\ \A d \in Devices, t \in Tasks :
                 OnWire(d, t)' <=> OnWire(d, t) \/ (d = e /\ m.task = t)
  <1>1. up[e] \in Seq(Chunks) /\ Len(up[e]) \in Nat /\ up'[e] = Append(up[e], m)  BY DEF DevTypeOK
  <1>2. \A d \in Devices : d # e => up'[d] = up[d]  BY DEF DevTypeOK
  <1>3. /\ Len(up'[e]) = Len(up[e]) + 1 /\ up'[e][Len(up[e]) + 1] = m
        /\ \A i \in 1..Len(up[e]) : up'[e][i] = up[e][i]
        BY <1>1
  <1>4. ASSUME NEW t \in Tasks PROVE OnWire(e, t)' <=> OnWire(e, t) \/ m.task = t
        BY <1>1, <1>3 DEF OnWire
  <1>5. ASSUME NEW d \in Devices, d # e, NEW t \in Tasks PROVE OnWire(d, t)' <=> OnWire(d, t)
        BY <1>2, <1>5 DEF OnWire
  <1> QED BY <1>1, <1>2, <1>3, <1>4, <1>5

LEMMA UpTail ==
    ASSUME DevTypeOK, NEW e \in Devices, up[e] # <<>>, up' = [up EXCEPT ![e] = Tail(@)]
    PROVE  /\ \A d \in Devices : d # e => up'[d] = up[d]
           /\ Len(up[e]) \in Nat \ {0} /\ Len(up'[e]) = Len(up[e]) - 1
           /\ Head(up[e]) = up[e][1] /\ Head(up[e]) \in Chunks
           /\ \A i \in 1..Len(up'[e]) : up'[e][i] = up[e][i + 1] /\ i + 1 \in 2..Len(up[e])
           /\ \A d \in Devices, t \in Tasks :
                 /\ OnWire(d, t)' => OnWire(d, t)
                 /\ OnWire(d, t) => OnWire(d, t)' \/ (d = e /\ Head(up[e]).task = t)
           /\ Head(up[e]).task \in Tasks /\ OnWire(e, Head(up[e]).task)
  <1>1. up[e] \in Seq(Chunks) /\ Len(up[e]) \in Nat \ {0} /\ up'[e] = Tail(up[e])  BY DEF DevTypeOK
  <1>2. \A d \in Devices : d # e => up'[d] = up[d]  BY DEF DevTypeOK
  <1>3. /\ Len(up'[e]) = Len(up[e]) - 1 /\ Head(up[e]) = up[e][1] /\ Head(up[e]) \in Chunks
        /\ \A i \in 1..Len(up'[e]) : up'[e][i] = up[e][i + 1] /\ i + 1 \in 2..Len(up[e])
        BY <1>1, QueueTail
  <1>4. ASSUME NEW t \in Tasks
        PROVE  /\ OnWire(e, t)' => OnWire(e, t)
               /\ OnWire(e, t) => OnWire(e, t)' \/ Head(up[e]).task = t
    <2>1. ASSUME OnWire(e, t)' PROVE OnWire(e, t)
      <3>1. PICK i \in 1..Len(up'[e]) : up'[e][i].task = t  BY <2>1 DEF OnWire
      <3>2. i + 1 \in 1..Len(up[e]) /\ up[e][i + 1].task = t  BY <1>1, <1>3, <3>1
      <3> QED BY <3>2 DEF OnWire
    <2>2. ASSUME OnWire(e, t), Head(up[e]).task # t PROVE OnWire(e, t)'
      <3>1. PICK i \in 1..Len(up[e]) : up[e][i].task = t  BY <2>2 DEF OnWire
      <3>2. i - 1 \in 1..Len(up'[e]) /\ (i - 1) + 1 = i  BY <1>1, <1>3, <2>2, <3>1
      <3>3. up'[e][i - 1].task = t  BY <1>3, <3>1, <3>2
      <3> QED BY <3>2, <3>3 DEF OnWire
    <2> QED BY <2>1, <2>2
  <1>5. ASSUME NEW d \in Devices, d # e, NEW t \in Tasks PROVE OnWire(d, t)' <=> OnWire(d, t)
        BY <1>2, <1>5 DEF OnWire
  <1>6. Head(up[e]).task \in Tasks /\ OnWire(e, Head(up[e]).task)
    <2>1. 1 \in 1..Len(up[e]) /\ Head(up[e]).task \in Tasks  BY <1>1, <1>3 DEF Chunks
    <2> QED BY <1>3, <2>1 DEF OnWire
  <1> QED BY <1>1, <1>2, <1>3, <1>4, <1>5, <1>6

\* Steps that neither write nor read a command or a chunk.
LEMMA OffPath ==
    ASSUME NEW t \in Tasks,
           \/ RequestStep(t) /\ ~SendTask(t) /\ ~SendTaskFails(t)
           \/ CancelRemove(t) \/ ClientGone(t)
    PROVE  UNCHANGED <<devVars, sessVars, histVars>>
  BY DEF RequestStep, Submit, SelectForModel, Select, SelectNone, Cleanup, CheckPending,
     ReceiveResult, Timeout, Expire, ReceiveEvent, ChannelClosed, CancelRemove, ClientGone

LEMMA StepAssigned == ASSUME PathInv, [Next]_vars PROVE Assigned'
  <1>0. ReqTypeOK /\ Assigned  BY DEF PathInv, IInv, TypeOK
  <1>1. CASE UNCHANGED <<pc, dev, sent>>  BY <1>0, <1>1 DEF Assigned
  <1>2. ASSUME NEW t \in Tasks, RequestStep(t) PROVE Assigned'
    <2> USE DEF Assigned, ReqTypeOK, End, histVars
    <2>1. CASE Submit(t)  BY <1>0, <2>1 DEF Submit
    <2>2. CASE SelectForModel(t)
          BY <1>0, <2>2 DEF SelectForModel, LeastLoaded, SelectableForModel, Selectable
    <2>3. CASE Select(t)  BY <1>0, <2>3 DEF Select, LeastLoaded, Selectable
    <2>4. CASE SelectNone(t)  BY <1>0, <2>4 DEF SelectNone
    <2>5. CASE SendTask(t)  BY <1>0, <2>5 DEF SendTask
    <2>6. CASE SendTaskFails(t)  BY <1>0, <2>6 DEF SendTaskFails
    <2>7. CASE Cleanup(t)  BY <1>0, <2>7 DEF Cleanup
    <2>8. CASE CheckPending(t)  BY <1>0, <2>8 DEF CheckPending
    <2>9. CASE ReceiveResult(t)  BY <1>0, <2>9 DEF ReceiveResult
    <2>10. CASE Timeout(t)  BY <1>0, <2>10 DEF Timeout
    <2>11. CASE Expire(t)  BY <1>0, <2>11 DEF Expire
    <2>12. CASE ReceiveEvent(t)  BY <1>0, <2>12 DEF ReceiveEvent
    <2>13. CASE ChannelClosed(t)  BY <1>0, <2>13 DEF ChannelClosed
    <2> QED BY <1>2, <2>1, <2>2, <2>3, <2>4, <2>5, <2>6, <2>7, <2>8, <2>9, <2>10, <2>11,
               <2>12, <2>13 DEF RequestStep
  <1>3. ASSUME NEW t \in Tasks, CancelStep(t) PROVE UNCHANGED <<pc, dev, sent>>
        BY <1>3 DEF CancelStep, CancelRemove, CancelWrite, reqVars, histVars
  <1>4. ASSUME NEW t \in Tasks, ClientGone(t) PROVE Assigned'
        BY <1>0, <1>4 DEF ClientGone, End, Assigned, ReqTypeOK, histVars
  <1>5. ASSUME NEW d \in Devices,
               DeviceStep(d) \/ SessionStep(d) \/ Register(d) \/ ReportModels(d) \/ LinkDies(d)
        PROVE  UNCHANGED <<pc, dev, sent>>
    <2>1. UNCHANGED reqVars  BY <1>5, RequestFrame
    <2>2. UNCHANGED sent
          BY <1>5 DEF DeviceStep, ReadTask, ReadCancel, EmitDelta, EmitDone, EmitError,
             Register, ReportModels, LinkDies, SessionStep, TakeStreamChunk, SessDelta,
             SessError, SessUsage, SessFinish, SessDone, SessRemove, PlainChunk, SessionEnds,
             histVars
    <2> QED BY <2>1, <2>2 DEF reqVars
  <1>6. CASE UNCHANGED vars  BY <1>1, <1>6 DEF vars, reqVars, histVars
  <1> QED BY <1>1, <1>2, <1>3, <1>4, <1>5, <1>6 DEF Next

\* The steps on the path: a task is written once, read once, and answered on the
\* connection it came by.
LEMMA StepPath == ASSUME PathInv, [Next]_vars PROVE Located' /\ CmdOnce' /\ Unread'
  <1> USE DEF Located, Unread
  <1>0. /\ Assigned /\ Located /\ CmdOnce /\ Unread /\ SessionHasChunk
        /\ ReqTypeOK /\ DevTypeOK /\ SessTypeOK /\ HistTypeOK
        BY DEF PathInv, IInv, TypeOK
  <1>00. None \notin Tasks /\ \A t \in Tasks : Cmd("task", t) \in Cmds /\ Cmd("cancel", t) \in Cmds
         BY SchedulerAssumption DEF Cmd, Cmds
  <1>1. ASSUME UNCHANGED <<inbox, work, up, sess, smsg, sent>>, \A t \in sent : dev'[t] = dev[t]
        PROVE  Located' /\ CmdOnce' /\ Unread'
        BY <1>0, <1>1 DEF HasCmd, OnWire, HoldsSender, CmdOnce
  <1>2. ASSUME NEW t \in Tasks,
               \/ RequestStep(t) /\ ~SendTask(t) /\ ~SendTaskFails(t)
               \/ CancelRemove(t) \/ ClientGone(t)
        PROVE  Located' /\ CmdOnce' /\ Unread'
    <2>1. \A u \in sent : dev'[u] = dev[u]
      <3>1. CASE SelectForModel(t) \/ Select(t)
        <4>1. t \notin sent /\ (dev' = dev \/ \E d : dev' = [dev EXCEPT ![t] = d])
              BY <1>0, <3>1 DEF SelectForModel, Select, Assigned
        <4> QED BY <1>0, <4>1 DEF ReqTypeOK, HistTypeOK
      <3>2. CASE ~SelectForModel(t) /\ ~Select(t)
        <4>1. UNCHANGED dev
              BY <1>2, <3>2 DEF RequestStep, Submit, SelectNone, Cleanup, CheckPending,
                 ReceiveResult, Timeout, Expire, ReceiveEvent, ChannelClosed, CancelRemove,
                 ClientGone, reqVars
        <4> QED BY <4>1
      <3> QED BY <3>1, <3>2
    <2> QED BY <1>1, <1>2, <2>1, OffPath DEF devVars, sessVars, histVars
  <1>3. ASSUME NEW t \in Tasks, SendTask(t) \/ SendTaskFails(t)
        PROVE  Located' /\ CmdOnce' /\ Unread'
    <2>1. /\ t \notin sent /\ dev[t] \in Devices
          /\ UNCHANGED <<dev, work, up, sess, smsg>> /\ sent \subseteq sent'
          BY <1>0, <1>3, SchedulerAssumption
          DEF SendTask, SendTaskFails, Assigned, sessVars
    <2>2. CASE inbox' = inbox
          BY <1>0, <2>1, <2>2 DEF HasCmd, OnWire, HoldsSender, CmdOnce
    <2>3. CASE inbox' = [inbox EXCEPT ![dev[t]] = Append(@, Cmd("task", t))] /\ t \in sent'
      <3>1. /\ \A d \in Devices, u \in Tasks :
                 HasCmd(d, u)' <=> HasCmd(d, u) \/ (d = dev[t] /\ Cmd("task", t) = Cmd("task", u))
            /\ CmdOnce'
        <4>1. ~HasCmd(dev[t], t) /\ Cmd("task", t).task = t  BY <1>0, <2>1 DEF Cmd
        <4>2. PICK c \in Cmds : c = Cmd("task", t)  BY <1>00
        <4>3. inbox' = [inbox EXCEPT ![dev[t]] = Append(@, c)]  BY <2>3, <4>2
        <4>4. DevTypeOK /\ CmdOnce /\ dev[t] \in Devices /\ ~HasCmd(dev[t], c.task)
              BY <1>0, <2>1, <4>1, <4>2
        <4> QED BY <4>2, <4>3, <4>4, InboxAppend
      <3>2. \A u \in Tasks : Cmd("task", t) = Cmd("task", u) => u = t  BY DEF Cmd
      <3>3. \A d \in Devices, u \in Tasks : /\ OnWire(d, u)' <=> OnWire(d, u)
                                            /\ HoldsSender(d, u)' <=> HoldsSender(d, u)
            BY <2>1 DEF OnWire, HoldsSender
      <3> QED BY <1>0, <2>1, <2>3, <3>1, <3>2, <3>3
    <2> QED BY <1>3, <2>2, <2>3 DEF SendTask, SendTaskFails, Deliver
  <1>4. ASSUME NEW t \in Tasks, CancelWrite(t) PROVE Located' /\ CmdOnce' /\ Unread'
    <2>1. UNCHANGED <<dev, work, up, sess, smsg, sent>>
          BY <1>4 DEF CancelWrite, sessVars, histVars, reqVars
    <2>2. CASE inbox' = inbox  BY <1>1, <2>1, <2>2
    <2>3. CASE /\ inbox' = [inbox EXCEPT ![dev[t]] = Append(@, Cmd("cancel", t))]
               /\ dev[t] \in Devices
      <3>1. \A u \in Tasks : Cmd("cancel", t) # Cmd("task", u) /\ Cmd("cancel", t).kind # "task"
            BY DEF Cmd
      <3>2. /\ \A d \in Devices, u \in Tasks : HasCmd(d, u)' <=> HasCmd(d, u)
            /\ CmdOnce'
            BY <1>0, <1>00, <2>3, <3>1, InboxAppend
      <3>3. \A d \in Devices, u \in Tasks : /\ OnWire(d, u)' <=> OnWire(d, u)
                                            /\ HoldsSender(d, u)' <=> HoldsSender(d, u)
            BY <2>1 DEF OnWire, HoldsSender
      <3> QED BY <1>0, <2>1, <3>2, <3>3
    <2>4. CASE inbox' = [inbox EXCEPT ![dev[t]] = Append(@, Cmd("cancel", t))] /\ dev[t] \notin Devices
      <3>1. inbox' = inbox  BY <1>0, <2>4 DEF DevTypeOK
      <3> QED BY <2>2, <3>1
    <2> QED BY <1>4, <2>2, <2>3, <2>4 DEF CancelWrite
  <1>5. ASSUME NEW d \in Devices, ReadTask(d) \/ ReadCancel(d) PROVE Located' /\ CmdOnce' /\ Unread'
    <2> DEFINE c == Head(inbox[d])
    <2>1. /\ inbox[d] # <<>> /\ inbox' = [inbox EXCEPT ![d] = Tail(@)]
          /\ UNCHANGED <<dev, up, sess, smsg, sent>> /\ work[d] = None
          BY <1>5 DEF ReadTask, ReadCancel, sessVars, histVars, reqVars
    <2>2. \/ c.kind = "task" /\ work' = [work EXCEPT ![d] = c.task]
          \/ c.kind = "cancel" /\ work' = work
          BY <1>5 DEF ReadTask, ReadCancel
    <2>3. /\ \A e \in Devices, t \in Tasks :
               HasCmd(e, t)' <=> HasCmd(e, t) /\ ~(e = d /\ c = Cmd("task", t))
          /\ c.kind = "task" => c.task \in Tasks /\ HasCmd(d, c.task)
          /\ CmdOnce'
          BY <1>0, <2>1, InboxTail
    <2>4. \A e \in Devices, t \in Tasks : /\ OnWire(e, t)' <=> OnWire(e, t)
                                          /\ HoldsSender(e, t)' <=> HoldsSender(e, t)
          BY <2>1 DEF OnWire, HoldsSender
    <2>5. c.kind = "task" => c = Cmd("task", c.task)
      <3>1. c \in Cmds  BY <1>0, <2>1 DEF DevTypeOK
      <3> QED BY <3>1 DEF Cmds, Cmd
    <2>6. \A e \in Devices : work'[e] = work[e] \/ (e = d /\ c.kind = "task" /\ work'[e] = c.task)
          BY <1>0, <2>2 DEF DevTypeOK
    <2>7. Located'  BY <1>0, <2>1, <2>3, <2>4, <2>6
    <2>8. Unread'  BY <1>0, <2>1, <2>3, <2>4, <2>5, <2>6
    <2> QED BY <2>3, <2>7, <2>8
  <1>6. ASSUME NEW d \in Devices, EmitDelta(d) \/ EmitDone(d) \/ EmitError(d)
        PROVE  Located' /\ CmdOnce' /\ Unread'
    <2>1. /\ work[d] \in Tasks /\ UNCHANGED <<dev, inbox, sess, smsg, sent>>
          /\ work' = work \/ work' = [work EXCEPT ![d] = None]
          BY <1>0, <1>6 DEF EmitDelta, EmitDone, EmitError, DevTypeOK, sessVars, histVars, reqVars
    <2>2. PICK m \in Chunks : m.task = work[d] /\ up' = [up EXCEPT ![d] = Append(@, m)]
      <3>1. /\ Chunk(work[d], "delta", made[work[d]] + 1) \in Chunks
            /\ Chunk(work[d], "done", 0) \in Chunks /\ Chunk(work[d], "error", 0) \in Chunks
            BY <1>0, <2>1 DEF Chunk, Chunks, DevTypeOK
      <3>2. \A k, n : Chunk(work[d], k, n).task = work[d]  BY DEF Chunk
      <3> QED BY <1>6, <3>1, <3>2 DEF EmitDelta, EmitDone, EmitError
    <2>3. \A e \in Devices, t \in Tasks :
             /\ OnWire(e, t)' <=> OnWire(e, t) \/ (e = d /\ work[d] = t)
             /\ HasCmd(e, t)' <=> HasCmd(e, t)
             /\ HoldsSender(e, t)' <=> HoldsSender(e, t)
             /\ work'[e] = t => work[e] = t
      <3>1. \A e \in Devices, t \in Tasks : OnWire(e, t)' <=> OnWire(e, t) \/ (e = d /\ work[d] = t)
        <4>1. DevTypeOK /\ up' = [up EXCEPT ![d] = Append(@, m)] /\ m.task = work[d]  BY <1>0, <2>2
        <4>2. \A e \in Devices, t \in Tasks : OnWire(e, t)' <=> OnWire(e, t) \/ (e = d /\ m.task = t)
              BY <4>1, UpAppend, Zenon
        <4> QED BY <4>1, <4>2
      <3>2. \A e \in Devices, t \in Tasks : /\ HasCmd(e, t)' <=> HasCmd(e, t)
                                            /\ HoldsSender(e, t)' <=> HoldsSender(e, t)
            BY <2>1 DEF HasCmd, HoldsSender
      <3>3. \A e \in Devices, t \in Tasks : work'[e] = t => work[e] = t
            BY <1>0, <1>00, <2>1 DEF DevTypeOK
      <3> QED BY <3>1, <3>2, <3>3
    <2>4. CmdOnce'  BY <1>0, <2>1 DEF CmdOnce
    <2> QED BY <1>0, <2>1, <2>3, <2>4
  <1>7. ASSUME NEW d \in Devices, LinkDies(d) PROVE Located' /\ CmdOnce' /\ Unread'
    <2>1. PICK n \in 0..Len(up[d]) : up' = [up EXCEPT ![d] = SubSeq(@, 1, n)]
          BY <1>7 DEF LinkDies
    <2>2. /\ UNCHANGED <<dev, sess, smsg, sent>> /\ inbox' = [inbox EXCEPT ![d] = <<>>]
          /\ work' = [work EXCEPT ![d] = None]
          BY <1>7 DEF LinkDies, sessVars, reqVars
    <2>3. \A e \in Devices, t \in Tasks : OnWire(e, t)' => OnWire(e, t)
      <3>1. up[d] \in Seq(Chunks) /\ n \in Nat /\ n <= Len(up[d])  BY <1>0 DEF DevTypeOK
      <3>2. up'[d] = SubSeq(up[d], 1, n)  BY <1>0, <2>1 DEF DevTypeOK
      <3>3. Len(up'[d]) = n /\ \A i \in 1..n : up'[d][i] = up[d][i] /\ i \in 1..Len(up[d])
            BY <3>1, <3>2
      <3>4. \A e \in Devices : e # d => up'[e] = up[e]  BY <1>0, <2>1 DEF DevTypeOK
      <3> QED BY <3>3, <3>4 DEF OnWire
    <2>4. \A e \in Devices, t \in Tasks :
             /\ HasCmd(e, t)' => HasCmd(e, t)
             /\ HoldsSender(e, t)' <=> HoldsSender(e, t)
             /\ work'[e] = t => work[e] = t
      <3>1. \A e \in Devices, t \in Tasks : HasCmd(e, t)' => HasCmd(e, t)
            BY <1>0, <2>2 DEF HasCmd, DevTypeOK
      <3>2. \A e \in Devices, t \in Tasks : HoldsSender(e, t)' <=> HoldsSender(e, t)
            BY <2>2 DEF HoldsSender
      <3>3. \A e \in Devices, t \in Tasks : work'[e] = t => work[e] = t
            BY <1>0, <1>00, <2>2 DEF DevTypeOK
      <3> QED BY <3>1, <3>2, <3>3
    <2>5. CmdOnce'  BY <1>0, <2>2 DEF CmdOnce, DevTypeOK
    <2> QED BY <1>0, <2>2, <2>3, <2>4, <2>5
  <1>8. ASSUME NEW d \in Devices, TakeStreamChunk(d) \/ PlainChunk(d)
        PROVE  Located' /\ CmdOnce' /\ Unread'
    <2>1. /\ up[d] # <<>> /\ up' = [up EXCEPT ![d] = Tail(@)]
          /\ UNCHANGED <<dev, inbox, work, sent>>
          /\ \/ UNCHANGED <<sess, smsg>>
             \/ /\ smsg' = [smsg EXCEPT ![d] = Head(up[d])]
                /\ \E l : sess' = [sess EXCEPT ![d] = l]
          BY <1>8 DEF TakeStreamChunk, PlainChunk, sessVars, histVars, reqVars
    <2>2. /\ \A e \in Devices, t \in Tasks : OnWire(e, t)' => OnWire(e, t)
          /\ Head(up[d]).task \in Tasks /\ OnWire(d, Head(up[d]).task)
          BY <1>0, <2>1, UpTail
    <2>3. \A e \in Devices, t \in Tasks :
             HoldsSender(e, t)' => HoldsSender(e, t) \/ (e = d /\ t = Head(up[d]).task)
          BY <1>0, <2>1 DEF HoldsSender, SessTypeOK
    <2>4. CmdOnce' /\ \A e \in Devices, t \in Tasks : HasCmd(e, t)' <=> HasCmd(e, t)
          BY <1>0, <2>1 DEF CmdOnce, HasCmd
    <2> QED BY <1>0, <2>1, <2>2, <2>3, <2>4
  <1>9. ASSUME NEW d \in Devices,
               \/ SessDelta(d) \/ SessError(d) \/ SessUsage(d) \/ SessFinish(d) \/ SessDone(d)
               \/ SessRemove(d)
        PROVE  Located' /\ CmdOnce' /\ Unread'
    <2>1. UNCHANGED <<dev, inbox, work, up, sent>>
          BY <1>9 DEF SessDelta, SessError, SessUsage, SessFinish, SessDone, SessRemove, devVars,
             histVars, reqVars
    <2>2. \A e \in Devices, t \in Tasks : HoldsSender(e, t)' => HoldsSender(e, t)
          BY <1>0, <1>9 DEF SessDelta, SessError, SessUsage, SessFinish, SessDone, SessRemove, Goto,
             HoldsSender, SessTypeOK
    <2>3. CmdOnce' /\ \A e \in Devices, t \in Tasks : /\ HasCmd(e, t)' <=> HasCmd(e, t)
                                                      /\ OnWire(e, t)' <=> OnWire(e, t)
          BY <1>0, <2>1 DEF CmdOnce, HasCmd, OnWire
    <2> QED BY <1>0, <2>1, <2>2, <2>3
  <1>10. ASSUME NEW d \in Devices, Register(d) \/ ReportModels(d) \/ SessionEnds(d)
         PROVE  Located' /\ CmdOnce' /\ Unread'
    <2>1. UNCHANGED <<dev, inbox, work, up, sess, smsg, sent>>
          BY <1>10 DEF Register, ReportModels, SessionEnds, devVars, sessVars, histVars, reqVars
    <2> QED BY <1>1, <2>1
  <1>11. CASE UNCHANGED vars
         BY <1>1, <1>11 DEF vars, reqVars, devVars, sessVars, histVars
  <1> QED BY <1>2, <1>3, <1>4, <1>5, <1>6, <1>7, <1>8, <1>9, <1>10, <1>11
          DEF Next, CancelStep, DeviceStep, SessionStep

LEMMA PathInvariance == Spec => []PathInv
  <1>1. Init => PathInv
    <2>1. ASSUME Init PROVE Assigned /\ Located /\ CmdOnce /\ Unread
          BY <2>1, SchedulerAssumption
          DEF Init, Assigned, Located, CmdOnce, Unread, HasCmd, OnWire, HoldsSender
    <2> QED BY <2>1, InitIInv DEF PathInv
  <1>2. PathInv /\ IInv' /\ [Next]_vars => PathInv'  BY StepAssigned, StepPath DEF PathInv
  <1> QED BY <1>1, <1>2, Invariance, PTL DEF Spec

\* scheduler.rs:138-345, 557-745: a task is given to one device, which the
\* API key allows, and once: neither the fallback selection nor a registration that
\* changes between selection and send duplicates it.
THEOREM OneDeviceRunsIt == Spec => []RunByOneDevice
  <1>1. PathInv => RunByOneDevice
    <2> SUFFICES ASSUME PathInv, NEW t \in Tasks, NEW d \in Devices, t \in Outstanding(d)
                 PROVE  /\ d = dev[t] /\ d \in Allowed[t]
                        /\ Cardinality({i \in 1..Len(inbox[d]) : inbox[d][i] = Cmd("task", t)})
                             + (IF work[d] = t THEN 1 ELSE 0) = 1
        BY DEF RunByOneDevice
    <2> DEFINE I == {i \in 1..Len(inbox[d]) : inbox[d][i] = Cmd("task", t)}
    <2>1. work[d] = t \/ HasCmd(d, t)  BY DEF Outstanding, HasCmd
    <2>2. d = dev[t] /\ d \in Allowed[t]  BY <2>1 DEF PathInv, Located, Assigned
    <2>3. CASE work[d] = t
      <3>1. ~HasCmd(d, t)  BY <2>3 DEF PathInv, Unread
      <3>2. I = {}  BY <3>1 DEF HasCmd
      <3>3. Cardinality(I) = 0  BY <3>2, FS_EmptySet
      <3> QED BY <2>2, <2>3, <3>3
    <2>4. CASE work[d] # t
      <3>1. PICK i \in 1..Len(inbox[d]) : inbox[d][i] = Cmd("task", t)  BY <2>1, <2>4 DEF HasCmd
      <3>2. inbox[d][i].kind = "task"  BY <3>1 DEF Cmd
      <3>3. I = {i}  BY <3>1, <3>2 DEF PathInv, CmdOnce
      <3>4. Cardinality(I) = 1  BY <3>3, FS_Singleton
      <3> QED BY <2>2, <2>4, <3>4
    <2> QED BY <2>3, <2>4
  <1> QED BY <1>1, PathInvariance, PTL

-----------------------------------------------------------------------------
(* The last chunk of a task, and the session task that handles it.          *)

EndOnWire(d, t) == \E i \in 1..Len(up[d]) : up[d][i].task = t /\ up[d][i].kind # "delta"

\* Nothing follows a done or an error chunk, and the device has left the task.
LastOnWire ==
    \A d \in Devices : \A i \in 1..Len(up[d]) :
       up[d][i].kind # "delta" =>
          /\ work[d] # up[d][i].task
          /\ \A j \in (i + 1)..Len(up[d]) : up[d][j].task # up[d][i].task

\* A session task past "delta" has the last chunk of a stream in its hands.
InHand ==
    \A d \in Devices : sess[d] # "idle" =>
       /\ Streaming(smsg[d].task)
       /\ sess[d] # "delta" => work[d] # smsg[d].task /\ ~OnWire(d, smsg[d].task)

\* Plain requests use the one map and the oneshot, the others the other map and the
\* channel; a dropped receiver takes its queue along.
Kinded ==
    \A t \in Tasks :
       /\ t \in pending_streams => Streaming(t)
       /\ t \in pending_tasks => ~Streaming(t)
       /\ pc[t] \in {"check", "wait", "expired"} => ~Streaming(t)
       /\ pc[t] = "recv" => Streaming(t)
       /\ ~Streaming(t) => got[t] = <<>> /\ chan[t] = <<>>
       /\ t \notin rx => chan[t] = <<>>
       /\ pc[t] \in {"new", "end"} => t \notin rx
       /\ cancel[t] # "none" => pc[t] = "end"

WireInv == PathInv /\ LastOnWire /\ InHand /\ Kinded

LEMMA StepLastOnWire == ASSUME WireInv, [Next]_vars PROVE LastOnWire'
  <1> USE DEF LastOnWire
  <1>0. /\ Located /\ Unread /\ CmdOnce /\ LastOnWire /\ DevTypeOK
        /\ \A d \in Devices : up[d] \in Seq(Chunks) /\ Len(up[d]) \in Nat
        BY DEF WireInv, PathInv, IInv, TypeOK, DevTypeOK
  <1>1. CASE UNCHANGED <<work, up>>  BY <1>0, <1>1
  <1>2. ASSUME NEW t \in Tasks, RequestStep(t) \/ CancelStep(t) \/ ClientGone(t)
        PROVE  UNCHANGED <<work, up>>
        BY <1>2, OffPath DEF CancelStep, CancelWrite, SendTask, SendTaskFails, devVars
  <1>3. ASSUME NEW d \in Devices, ReadTask(d) PROVE LastOnWire'
    <2> DEFINE t == Head(inbox[d]).task
    <2>1. up' = up /\ work' = [work EXCEPT ![d] = t]  BY <1>3 DEF ReadTask
    <2>2. t \in Tasks /\ HasCmd(d, t)
      <3>1. DevTypeOK /\ CmdOnce /\ inbox[d] # <<>> /\ Head(inbox[d]).kind = "task"
            /\ inbox' = [inbox EXCEPT ![d] = Tail(@)]
            BY <1>0, <1>3 DEF ReadTask
      <3> QED BY <3>1, InboxTail, Zenon
    <2>3. ~OnWire(d, t)  BY <1>0, <2>2 DEF Unread
    <2>4. \A i \in 1..Len(up[d]) : up[d][i].task # t  BY <2>3 DEF OnWire
    <2>5. work'[d] = t /\ \A e \in Devices : e # d => work'[e] = work[e]
          BY <1>0, <2>1 DEF DevTypeOK
    <2>6. \A i \in 1..Len(up[d]) : work'[d] # up[d][i].task  BY <2>4, <2>5
    <2> QED BY <1>0, <2>1, <2>5, <2>6
  <1>4. ASSUME NEW d \in Devices, EmitDelta(d) \/ EmitDone(d) \/ EmitError(d) PROVE LastOnWire'
    <2>1. /\ work[d] \in Tasks /\ (work' = work \/ work' = [work EXCEPT ![d] = None])
          BY <1>0, <1>4 DEF EmitDelta, EmitDone, EmitError, DevTypeOK
    <2>2. PICK m \in Chunks : /\ m.task = work[d] /\ up' = [up EXCEPT ![d] = Append(@, m)]
                              /\ m.kind # "delta" => work'[d] = None
      <3>1. /\ Chunk(work[d], "delta", made[work[d]] + 1) \in Chunks
            /\ Chunk(work[d], "done", 0) \in Chunks /\ Chunk(work[d], "error", 0) \in Chunks
            BY <1>0, <2>1 DEF Chunk, Chunks, DevTypeOK
      <3>2. \A k, n : Chunk(work[d], k, n).task = work[d] /\ Chunk(work[d], k, n).kind = k
            BY DEF Chunk
      <3> QED BY <1>0, <1>4, <3>1, <3>2 DEF EmitDelta, EmitDone, EmitError, DevTypeOK
    <2>3. /\ \A e \in Devices : e # d => up'[e] = up[e]
          /\ Len(up'[d]) = Len(up[d]) + 1 /\ up'[d][Len(up[d]) + 1] = m
          /\ \A i \in 1..Len(up[d]) : up'[d][i] = up[d][i]
          BY <1>0, <2>2, UpAppend, Zenon
    <2>4. \A e \in Devices : work'[e] = work[e] \/ work'[e] = None
          BY <1>0, <2>1 DEF DevTypeOK
    <2>5. \A e \in Devices : \A i \in 1..Len(up[e]) : up[e][i].task # None
      <3>1. \A e \in Devices : \A i \in 1..Len(up[e]) : up[e][i] \in Chunks  BY <1>0
      <3> QED BY <3>1, SchedulerAssumption DEF Chunks
    <2>6. ASSUME NEW e \in Devices, e # d, NEW i \in 1..Len(up'[e]), up'[e][i].kind # "delta"
          PROVE  /\ work'[e] # up'[e][i].task
                 /\ \A j \in (i + 1)..Len(up'[e]) : up'[e][j].task # up'[e][i].task
          BY <1>0, <2>3, <2>4, <2>5, <2>6
    <2>7. ASSUME NEW i \in 1..Len(up'[d]), up'[d][i].kind # "delta"
          PROVE  /\ work'[d] # up'[d][i].task
                 /\ \A j \in (i + 1)..Len(up'[d]) : up'[d][j].task # up'[d][i].task
      <3>1. CASE i = Len(up[d]) + 1
        <4>1. m.task \in Tasks  BY DEF Chunks
        <4> QED BY <1>0, <2>2, <2>3, <2>7, <3>1, <4>1, SchedulerAssumption
      <3>2. CASE i \in 1..Len(up[d])
        <4>1. up'[d][i] = up[d][i] /\ work[d] # up[d][i].task  BY <1>0, <2>3, <2>7, <3>2
        <4>2. work'[d] # up[d][i].task  BY <2>4, <2>5, <3>2, <4>1
        <4>3. ASSUME NEW j \in (i + 1)..Len(up'[d]) PROVE up'[d][j].task # up[d][i].task
          <5>1. j \in (i + 1)..Len(up[d]) \/ j = Len(up[d]) + 1  BY <1>0, <2>3
          <5>2. CASE j = Len(up[d]) + 1  BY <2>2, <2>3, <4>1, <5>2
          <5>3. CASE j \in (i + 1)..Len(up[d])
            <6>1. j \in 1..Len(up[d])  BY <1>0, <3>2, <5>3
            <6> QED BY <1>0, <2>3, <2>7, <3>2, <5>3, <6>1, <4>1
          <5> QED BY <5>1, <5>2, <5>3
        <4> QED BY <4>1, <4>2, <4>3
      <3> QED BY <1>0, <2>3, <3>1, <3>2
    <2> QED BY <2>6, <2>7
  <1>5. ASSUME NEW d \in Devices, LinkDies(d) PROVE LastOnWire'
    <2>1. PICK n \in 0..Len(up[d]) : up' = [up EXCEPT ![d] = SubSeq(@, 1, n)]
          BY <1>5 DEF LinkDies
    <2>2. up'[d] = SubSeq(up[d], 1, n) /\ \A e \in Devices : e # d => up'[e] = up[e]
          BY <1>0, <2>1 DEF DevTypeOK
    <2>3. /\ Len(up'[d]) = n /\ n <= Len(up[d])
          /\ \A i \in 1..n : up'[d][i] = up[d][i] /\ i \in 1..Len(up[d])
          BY <1>0, <2>2
    <2>4. work' = [work EXCEPT ![d] = None]  BY <1>5 DEF LinkDies
    <2>5. \A e \in Devices : \A i \in 1..Len(up[e]) : up[e][i].task # None
      <3>1. \A e \in Devices : \A i \in 1..Len(up[e]) : up[e][i] \in Chunks  BY <1>0
      <3> QED BY <3>1, SchedulerAssumption DEF Chunks
    <2>6. work'[d] = None /\ \A e \in Devices : e # d => work'[e] = work[e]
          BY <1>0, <2>4 DEF DevTypeOK
    <2>7. ASSUME NEW i \in 1..Len(up'[d]), up'[d][i].kind # "delta"
          PROVE  /\ work'[d] # up'[d][i].task
                 /\ \A j \in (i + 1)..Len(up'[d]) : up'[d][j].task # up'[d][i].task
      <3>1. \A j \in (i + 1)..Len(up'[d]) : j \in 1..n /\ j \in (i + 1)..Len(up[d])
            BY <1>0, <2>3
      <3> QED BY <1>0, <2>3, <2>5, <2>6, <2>7, <3>1
    <2> QED BY <1>0, <2>2, <2>6, <2>7
  <1>6. ASSUME NEW d \in Devices, TakeStreamChunk(d) \/ PlainChunk(d) PROVE LastOnWire'
    <2>1. up[d] # <<>> /\ up' = [up EXCEPT ![d] = Tail(@)] /\ work' = work
          BY <1>6 DEF TakeStreamChunk, PlainChunk
    <2>2. /\ \A e \in Devices : e # d => up'[e] = up[e]
          /\ Len(up[d]) \in Nat \ {0} /\ Len(up'[d]) = Len(up[d]) - 1
          /\ \A i \in 1..Len(up'[d]) : up'[d][i] = up[d][i + 1] /\ i + 1 \in 2..Len(up[d])
          BY <1>0, <2>1, UpTail, Zenon
    <2>3. ASSUME NEW i \in 1..Len(up'[d]), up'[d][i].kind # "delta"
          PROVE  /\ work'[d] # up'[d][i].task
                 /\ \A j \in (i + 1)..Len(up'[d]) : up'[d][j].task # up'[d][i].task
      <3>1. i + 1 \in 1..Len(up[d]) /\ up'[d][i] = up[d][i + 1]  BY <2>2
      <3>2. \A j \in (i + 1)..Len(up'[d]) : j \in 1..Len(up'[d]) /\ j + 1 \in ((i + 1) + 1)..Len(up[d])
            BY <2>2
      <3>3. \A j \in (i + 1)..Len(up'[d]) : up'[d][j] = up[d][j + 1]  BY <2>2, <3>2
      <3> QED BY <1>0, <2>1, <2>3, <3>1, <3>2, <3>3
    <2> QED BY <1>0, <2>1, <2>2, <2>3
  <1>7. ASSUME NEW d \in Devices,
               \/ ReadCancel(d) \/ SessDelta(d) \/ SessError(d) \/ SessUsage(d) \/ SessFinish(d)
               \/ SessDone(d) \/ SessRemove(d) \/ SessionEnds(d) \/ Register(d) \/ ReportModels(d)
        PROVE  UNCHANGED <<work, up>>
        BY <1>7 DEF ReadCancel, SessDelta, SessError, SessUsage, SessFinish, SessDone, SessRemove,
           SessionEnds, Register, ReportModels, devVars
  <1>8. CASE UNCHANGED vars  BY <1>1, <1>8 DEF vars, devVars
  <1> QED BY <1>1, <1>2, <1>3, <1>4, <1>5, <1>6, <1>7, <1>8 DEF Next, DeviceStep, SessionStep

\* What the device writes, and what is left of it when the connection dies.
LEMMA EmitEffect ==
    ASSUME DevTypeOK, NEW d \in Devices, EmitDelta(d) \/ EmitDone(d) \/ EmitError(d)
    PROVE  /\ work[d] \in Tasks
           /\ \A e \in Devices : e # d => work'[e] = work[e]
           /\ \E m \in Chunks :
                 /\ m.task = work[d] /\ up' = [up EXCEPT ![d] = Append(@, m)]
                 /\ \/ /\ m.kind = "delta" /\ m.n = made[work[d]] + 1
                       /\ work'[d] = work[d] /\ made' = [made EXCEPT ![work[d]] = @ + 1]
                       /\ broken' = broken
                    \/ /\ m.kind = "done" /\ work'[d] = None /\ made' = made /\ broken' = broken
                    \/ /\ m.kind = "error" /\ work'[d] = None /\ made' = made
                       /\ broken' = broken \cup {work[d]}
           /\ UNCHANGED <<inbox, reqVars, mapVars, sessVars, sent, lost, cancel>>
  <1>1. work[d] \in Tasks  BY DEF EmitDelta, EmitDone, EmitError, DevTypeOK
  <1>2. \A e \in Devices : e # d => work'[e] = work[e]
        BY DEF EmitDelta, EmitDone, EmitError, DevTypeOK
  <1>3. /\ Chunk(work[d], "delta", made[work[d]] + 1) \in Chunks
        /\ Chunk(work[d], "done", 0) \in Chunks /\ Chunk(work[d], "error", 0) \in Chunks
        BY <1>1 DEF Chunk, Chunks, DevTypeOK
  <1>4. \A k, n : /\ Chunk(work[d], k, n).task = work[d] /\ Chunk(work[d], k, n).kind = k
                  /\ Chunk(work[d], k, n).n = n
        BY DEF Chunk
  <1>5. UNCHANGED <<inbox, reqVars, mapVars, sessVars, sent, lost, cancel>>
        BY DEF EmitDelta, EmitDone, EmitError, histVars
  <1>6. CASE EmitDelta(d)
    <2>1. /\ up' = [up EXCEPT ![d] = Append(@, Chunk(work[d], "delta", made[work[d]] + 1))]
          /\ work' = work /\ made' = [made EXCEPT ![work[d]] = @ + 1] /\ broken' = broken
          BY <1>6 DEF EmitDelta, histVars
    <2> DEFINE m == Chunk(work[d], "delta", made[work[d]] + 1)
    <2>2. m \in Chunks /\ m.task = work[d] /\ m.kind = "delta" /\ m.n = made[work[d]] + 1  BY <1>3, <1>4
    <2>3. up' = [up EXCEPT ![d] = Append(@, m)]  BY <2>1
    <2> HIDE DEF m
    <2> QED BY <1>1, <1>2, <1>5, <2>1, <2>2, <2>3
  <1>7. CASE EmitDone(d)
    <2>1. /\ up' = [up EXCEPT ![d] = Append(@, Chunk(work[d], "done", 0))]
          /\ work'[d] = None /\ made' = made /\ broken' = broken
          BY <1>7 DEF EmitDone, histVars, DevTypeOK
    <2> DEFINE m == Chunk(work[d], "done", 0)
    <2>2. m \in Chunks /\ m.task = work[d] /\ m.kind = "done" /\ m.n = 0  BY <1>3, <1>4
    <2>3. up' = [up EXCEPT ![d] = Append(@, m)]  BY <2>1
    <2> HIDE DEF m
    <2> QED BY <1>1, <1>2, <1>5, <2>1, <2>2, <2>3
  <1>8. CASE EmitError(d)
    <2>1. /\ up' = [up EXCEPT ![d] = Append(@, Chunk(work[d], "error", 0))]
          /\ work'[d] = None /\ made' = made /\ broken' = broken \cup {work[d]}
          BY <1>8 DEF EmitError, DevTypeOK
    <2> DEFINE m == Chunk(work[d], "error", 0)
    <2>2. m \in Chunks /\ m.task = work[d] /\ m.kind = "error" /\ m.n = 0  BY <1>3, <1>4
    <2>3. up' = [up EXCEPT ![d] = Append(@, m)]  BY <2>1
    <2> HIDE DEF m
    <2> QED BY <1>1, <1>2, <1>5, <2>1, <2>2, <2>3
  <1> QED BY <1>6, <1>7, <1>8

LEMMA LinkEffect ==
    ASSUME DevTypeOK, NEW d \in Devices, LinkDies(d)
    PROVE  /\ \E n \in 0..Len(up[d]) :
                 /\ Len(up[d]) \in Nat /\ Len(up'[d]) = n
                 /\ \A i \in 1..n : up'[d][i] = up[d][i] /\ i \in 1..Len(up[d])
                 /\ lost' = lost \cup Outstanding(d) \cup {up[d][i].task : i \in (n + 1)..Len(up[d])}
           /\ \A e \in Devices : e # d => up'[e] = up[e] /\ inbox'[e] = inbox[e] /\ work'[e] = work[e]
           /\ inbox'[d] = <<>> /\ work'[d] = None
           /\ UNCHANGED <<reqVars, mapVars, sessVars, made, sent, broken, cancel>>
  <1>1. PICK n \in 0..Len(up[d]) :
           /\ up' = [up EXCEPT ![d] = SubSeq(@, 1, n)]
           /\ lost' = lost \cup Outstanding(d) \cup {up[d][i].task : i \in (n + 1)..Len(up[d])}
        BY DEF LinkDies
  <1>2. up[d] \in Seq(Chunks) /\ Len(up[d]) \in Nat /\ up'[d] = SubSeq(up[d], 1, n)
        BY <1>1 DEF DevTypeOK
  <1>3. Len(up'[d]) = n /\ \A i \in 1..n : up'[d][i] = up[d][i] /\ i \in 1..Len(up[d])
        BY <1>2
  <1>4. /\ \A e \in Devices : e # d => up'[e] = up[e] /\ inbox'[e] = inbox[e] /\ work'[e] = work[e]
        /\ inbox'[d] = <<>> /\ work'[d] = None
        BY <1>1 DEF LinkDies, DevTypeOK
  <1>5. UNCHANGED <<reqVars, mapVars, sessVars, made, sent, broken, cancel>>  BY DEF LinkDies
  <1> QED BY <1>1, <1>2, <1>3, <1>4, <1>5

LEMMA StepInHand == ASSUME WireInv, [Next]_vars PROVE InHand'
  <1> USE DEF InHand
  <1>0. /\ Located /\ Unread /\ CmdOnce /\ LastOnWire /\ InHand /\ Kinded
        /\ DevTypeOK /\ SessTypeOK /\ SessionHasChunk /\ None \notin Tasks
        /\ \A d \in Devices : sess[d] # "idle" => smsg[d].task \in Tasks
    <2>1. DevTypeOK /\ SessTypeOK /\ SessionHasChunk  BY DEF WireInv, PathInv, IInv, TypeOK
    <2>2. \A d \in Devices : sess[d] # "idle" => smsg[d].task \in Tasks
          BY <2>1 DEF SessTypeOK, SessionHasChunk, Chunks
    <2> QED BY <2>1, <2>2, SchedulerAssumption DEF WireInv, PathInv
  <1>1. CASE UNCHANGED <<work, up, sess, smsg>>  BY <1>0, <1>1 DEF OnWire
  <1>2. ASSUME NEW t \in Tasks, RequestStep(t) \/ CancelStep(t) \/ ClientGone(t)
        PROVE  UNCHANGED <<work, up, sess, smsg>>
        BY <1>2, OffPath DEF CancelStep, CancelWrite, SendTask, SendTaskFails, devVars, sessVars
  <1>3. ASSUME NEW d \in Devices, ReadTask(d) PROVE InHand'
    <2> DEFINE t == Head(inbox[d]).task
    <2>1. UNCHANGED <<up, sess, smsg>> /\ work' = [work EXCEPT ![d] = t]
          BY <1>3 DEF ReadTask, sessVars
    <2>2. t \in Tasks /\ HasCmd(d, t)
      <3>1. DevTypeOK /\ CmdOnce /\ inbox[d] # <<>> /\ Head(inbox[d]).kind = "task"
            /\ inbox' = [inbox EXCEPT ![d] = Tail(@)]
            BY <1>0, <1>3 DEF ReadTask
      <3> QED BY <3>1, InboxTail, Zenon
    <2>3. ~HoldsSender(d, t)  BY <1>0, <2>2 DEF Unread
    <2>4. work'[d] = t /\ \A e \in Devices : e # d => work'[e] = work[e]
          BY <1>0, <2>1 DEF DevTypeOK
    <2> QED BY <1>0, <2>1, <2>3, <2>4 DEF HoldsSender, OnWire
  <1>4. ASSUME NEW d \in Devices, EmitDelta(d) \/ EmitDone(d) \/ EmitError(d) PROVE InHand'
    <2>1. PICK m \in Chunks : m.task = work[d] /\ up' = [up EXCEPT ![d] = Append(@, m)]
          BY <1>0, <1>4, EmitEffect
    <2>2. \A e \in Devices, t \in Tasks : OnWire(e, t)' <=> OnWire(e, t) \/ (e = d /\ m.task = t)
          BY <1>0, <2>1, UpAppend, Zenon
    <2>3. /\ UNCHANGED <<sess, smsg>> /\ \A e \in Devices : work'[e] = work[e] \/ work'[e] = None
          BY <1>0, <1>4, EmitEffect DEF sessVars
    <2> QED BY <1>0, <2>1, <2>2, <2>3
  <1>5. ASSUME NEW d \in Devices, LinkDies(d) PROVE InHand'
    <2>1. /\ UNCHANGED <<sess, smsg>>
          /\ \A e \in Devices : work'[e] = work[e] \/ work'[e] = None
          /\ \A e \in Devices, t \in Tasks : OnWire(e, t)' => OnWire(e, t)
          BY <1>0, <1>5, LinkEffect DEF sessVars, OnWire
    <2> QED BY <1>0, <2>1
  <1>6. ASSUME NEW d \in Devices, TakeStreamChunk(d) PROVE InHand'
    <2> DEFINE m == Head(up[d])
    <2>1. /\ up[d] # <<>> /\ up' = [up EXCEPT ![d] = Tail(@)] /\ work' = work
          /\ m.task \in pending_streams
          /\ smsg' = [smsg EXCEPT ![d] = m]
          /\ sess' = [sess EXCEPT ![d] = CASE m.kind = "error" -> "error"
                                           [] m.kind = "delta" -> "delta"
                                           [] m.kind = "done"  -> "usage"]
          BY <1>6 DEF TakeStreamChunk
    <2>2. /\ \A e \in Devices : e # d => up'[e] = up[e]
          /\ Len(up[d]) \in Nat \ {0} /\ Len(up'[d]) = Len(up[d]) - 1 /\ m = up[d][1]
          /\ \A i \in 1..Len(up'[d]) : up'[d][i] = up[d][i + 1] /\ i + 1 \in 2..Len(up[d])
          /\ m \in Chunks /\ m.task \in Tasks
          BY <1>0, <2>1, UpTail, Zenon
    <2>3. /\ smsg'[d] = m /\ (sess'[d] # "delta" => m.kind # "delta")
          /\ \A e \in Devices : e # d => smsg'[e] = smsg[e] /\ sess'[e] = sess[e]
          BY <1>0, <2>1 DEF SessTypeOK
    <2>4. Streaming(m.task)  BY <1>0, <2>1, <2>2 DEF Kinded
    <2>5. ASSUME m.kind # "delta"
          PROVE  work[d] # m.task /\ \A i \in 1..Len(up'[d]) : up'[d][i].task # m.task
      <3>1. 1 \in 1..Len(up[d]) /\ \A i \in 2..Len(up[d]) : i \in (1 + 1)..Len(up[d])  BY <2>2
      <3>2. work[d] # m.task /\ \A i \in 2..Len(up[d]) : up[d][i].task # m.task
            BY <1>0, <2>2, <2>5, <3>1 DEF LastOnWire
      <3> QED BY <2>2, <3>2
    <2>6. ASSUME NEW e \in Devices, sess'[e] # "idle"
          PROVE  /\ Streaming(smsg'[e].task)
                 /\ sess'[e] # "delta" =>
                       /\ work'[e] # smsg'[e].task
                       /\ \A i \in 1..Len(up'[e]) : up'[e][i].task # smsg'[e].task
      <3>1. CASE e = d  BY <2>1, <2>3, <2>4, <2>5, <3>1
      <3>2. CASE e # d  BY <1>0, <2>1, <2>2, <2>3, <2>6, <3>2 DEF OnWire
      <3> QED BY <3>1, <3>2
    <2> QED BY <2>6 DEF OnWire, Streaming
  <1>7. ASSUME NEW d \in Devices, PlainChunk(d) PROVE InHand'
    <2>1. /\ up[d] # <<>> /\ up' = [up EXCEPT ![d] = Tail(@)] /\ UNCHANGED <<work, sess, smsg>>
          BY <1>7 DEF PlainChunk, sessVars
    <2>2. \A e \in Devices, t \in Tasks : OnWire(e, t)' => OnWire(e, t)
          BY <1>0, <2>1, UpTail, Zenon
    <2> QED BY <1>0, <2>1, <2>2
  <1>8. ASSUME NEW d \in Devices,
               \/ SessDelta(d) \/ SessError(d) \/ SessUsage(d) \/ SessFinish(d) \/ SessDone(d)
               \/ SessRemove(d)
        PROVE  InHand'
    <2>1. UNCHANGED <<work, up>>
          BY <1>8 DEF SessDelta, SessError, SessUsage, SessFinish, SessDone, SessRemove, devVars
    <2>2. \A e \in Devices :
             \/ sess'[e] = "idle" \/ (sess'[e] = sess[e] /\ smsg'[e] = smsg[e])
             \/ sess[e] \notin {"idle", "delta"} /\ smsg'[e] = smsg[e]
          BY <1>0, <1>8 DEF SessDelta, SessError, SessUsage, SessFinish, SessDone, SessRemove, Goto,
             SessTypeOK
    <2> QED BY <1>0, <2>1, <2>2 DEF OnWire
  <1>9. ASSUME NEW d \in Devices,
               ReadCancel(d) \/ SessionEnds(d) \/ Register(d) \/ ReportModels(d)
        PROVE  UNCHANGED <<work, up, sess, smsg>>
        BY <1>9 DEF ReadCancel, SessionEnds, Register, ReportModels, devVars, sessVars
  <1>10. CASE UNCHANGED vars  BY <1>1, <1>10 DEF vars, devVars, sessVars
  <1> QED BY <1>1, <1>2, <1>3, <1>4, <1>5, <1>6, <1>7, <1>8, <1>9, <1>10
          DEF Next, DeviceStep, SessionStep

LEMMA StepKinded == ASSUME WireInv, [Next]_vars PROVE Kinded'
  <1> USE DEF Kinded
  <1>0. /\ Kinded /\ InHand /\ ReqTypeOK /\ MapTypeOK /\ SessTypeOK /\ SessionHasChunk
        /\ DevTypeOK
        BY DEF WireInv, PathInv, IInv, TypeOK
  <1>1. CASE UNCHANGED <<pc, rx, got, chan, cancel>> /\ pending_tasks' \subseteq pending_tasks
             /\ pending_streams' \subseteq pending_streams
        BY <1>0, <1>1
  <1>2. ASSUME NEW t \in Tasks, RequestStep(t) PROVE Kinded'
    <2> USE DEF ReqTypeOK, MapTypeOK, End, mapVars
    <2>1. CASE Submit(t)  BY <1>0, <2>1 DEF Submit
    <2>2. CASE SelectForModel(t)  BY <1>0, <2>2 DEF SelectForModel
    <2>3. CASE Select(t)  BY <1>0, <2>3 DEF Select
    <2>4. CASE SelectNone(t)  BY <1>0, <2>4 DEF SelectNone
    <2>5. CASE SendTask(t)  BY <1>0, <2>5 DEF SendTask
    <2>6. CASE SendTaskFails(t)  BY <1>0, <2>6 DEF SendTaskFails
    <2>7. CASE Cleanup(t)  BY <1>0, <2>7 DEF Cleanup
    <2>8. CASE CheckPending(t)  BY <1>0, <2>8 DEF CheckPending
    <2>9. CASE ReceiveResult(t)  BY <1>0, <2>9 DEF ReceiveResult
    <2>10. CASE Timeout(t)  BY <1>0, <2>10 DEF Timeout
    <2>11. CASE Expire(t)  BY <1>0, <2>11 DEF Expire
    <2>12. CASE ReceiveEvent(t)
      <3>1. /\ Streaming(t) /\ pc[t] = "recv" /\ UNCHANGED <<pending_tasks, pending_streams, cancel>>
            /\ \E ev : got' = [got EXCEPT ![t] = Append(@, ev)]
            /\ \/ /\ pc' = [pc EXCEPT ![t] = "end"] /\ rx' = rx \ {t}
                  /\ chan' = [chan EXCEPT ![t] = <<>>]
               \/ UNCHANGED <<pc, rx>> /\ chan' = [chan EXCEPT ![t] = Tail(@)]
            BY <1>0, <2>12 DEF ReceiveEvent
      <3>2. t \in rx  BY <3>1 DEF WireInv, PathInv, IInv, ReceiverAlive
      <3> QED BY <1>0, <3>1, <3>2
    <2>13. CASE ChannelClosed(t)  BY <1>0, <2>13 DEF ChannelClosed, DropGuard
    <2> QED BY <1>2, <2>1, <2>2, <2>3, <2>4, <2>5, <2>6, <2>7, <2>8, <2>9, <2>10, <2>11,
               <2>12, <2>13 DEF RequestStep
  <1>3. ASSUME NEW t \in Tasks, CancelStep(t) PROVE Kinded'
        BY <1>0, <1>3 DEF CancelStep, CancelRemove, CancelWrite, ReqTypeOK, mapVars, reqVars
  <1>4. ASSUME NEW t \in Tasks, ClientGone(t) PROVE Kinded'
        BY <1>0, <1>4 DEF ClientGone, End, DropGuard, ReqTypeOK, MapTypeOK
  <1>5. ASSUME NEW d \in Devices,
               DeviceStep(d) \/ Register(d) \/ ReportModels(d) \/ LinkDies(d)
        PROVE  UNCHANGED <<reqVars, mapVars, cancel>>
        BY <1>5 DEF DeviceStep, ReadTask, ReadCancel, EmitDelta, EmitDone, EmitError, Register,
           ReportModels, LinkDies
  <1>6. ASSUME NEW d \in Devices, SessDelta(d) \/ SessError(d) \/ SessFinish(d) \/ SessDone(d)
        PROVE  Kinded'
    <2> DEFINE t == smsg[d].task
    <2>1. Streaming(t)  BY <1>0, <1>6 DEF SessDelta, SessError, SessFinish, SessDone, InHand
    <2>2. UNCHANGED <<pc, rx, got, cancel, pending_tasks, pending_streams>>
          BY <1>6 DEF SessDelta, SessError, SessFinish, SessDone, reqVars
    <2>3. \/ chan' = chan
          \/ t \in rx /\ \E ev : chan' = [chan EXCEPT ![t] = Append(@, ev)]
          BY <1>6 DEF SessDelta, SessError, SessFinish, SessDone, SendEvent
    <2> QED BY <1>0, <2>1, <2>2, <2>3 DEF MapTypeOK
  <1>7. ASSUME NEW d \in Devices,
               \/ TakeStreamChunk(d) \/ SessUsage(d) \/ SessRemove(d) \/ PlainChunk(d)
               \/ SessionEnds(d)
        PROVE  /\ UNCHANGED <<pc, rx, got, chan, cancel>> /\ pending_tasks' \subseteq pending_tasks
               /\ pending_streams' \subseteq pending_streams
        BY <1>7 DEF TakeStreamChunk, SessUsage, SessRemove, PlainChunk, SessionEnds,
           handle_inference_result, reqVars, mapVars
  <1>8. CASE UNCHANGED <<reqVars, mapVars, cancel>>  BY <1>1, <1>8 DEF reqVars, mapVars
  <1> QED BY <1>1, <1>2, <1>3, <1>4, <1>5, <1>6, <1>7, <1>8 DEF Next, SessionStep, vars

LEMMA WireInvariance == Spec => []WireInv
  <1>1. Init /\ PathInv => WireInv
        BY SchedulerAssumption DEF Init, WireInv, LastOnWire, InHand, Kinded
  <1>2. WireInv /\ PathInv' /\ [Next]_vars => WireInv'
        BY StepLastOnWire, StepInHand, StepKinded DEF WireInv
  <1> QED BY <1>1, <1>2, PathInvariance, PTL DEF Spec

-----------------------------------------------------------------------------
(* What is left in the maps.                                                *)

\* The end of the answer to t is still to come over the connection of d.
EndComes(d, t) ==
    HasCmd(d, t) \/ work[d] = t \/ EndOnWire(d, t) \/ (HoldsSender(d, t) /\ sess[d] # "delta")

\* A task that is in a map and was sent waits for its end, which will remove it.
PendingEnds ==
    \A t \in Tasks : t \in pending_tasks \cup pending_streams /\ t \in sent =>
       t \in lost \/ \E d \in Devices : EndComes(d, t)

\* So does accumulated text; no stream of the task is open then.
PartialEnds ==
    \A t \in Tasks : partial_results[t] # None =>
       /\ t \in sent /\ t \notin pending_streams
       /\ t \in lost \cup broken \/ \E d \in Devices : work[d] = t \/ EndOnWire(d, t)

\* A device does not stop in the middle of an answer while its connection lasts.
AnswerEnds ==
    \A d \in Devices, t \in Tasks :
       OnWire(d, t) => t \in lost \/ work[d] = t \/ EndOnWire(d, t)

ErrorIsBroken ==
    \A d \in Devices : \A i \in 1..Len(up[d]) :
       up[d][i].kind = "error" => up[d][i].task \in broken

\* A request that ended without having been sent and left its map entry.
UnsentLeft ==
    \A t \in Tasks :
       Ended(t) /\ t \notin sent /\ t \in pending_tasks \cup pending_streams =>
          outcome[t] \in {"no_device", "dropped"}

LeakInv == WireInv /\ PendingEnds /\ PartialEnds /\ AnswerEnds /\ ErrorIsBroken /\ UnsentLeft

LEMMA EndAppend ==
    ASSUME DevTypeOK, NEW d \in Devices, NEW m \in Chunks, up' = [up EXCEPT ![d] = Append(@, m)]
    PROVE  \A e \in Devices, t \in Tasks :
              EndOnWire(e, t)' <=> EndOnWire(e, t) \/ (e = d /\ m.task = t /\ m.kind # "delta")
  <1>1. /\ \A e \in Devices : e # d => up'[e] = up[e]
        /\ Len(up[d]) \in Nat /\ Len(up'[d]) = Len(up[d]) + 1 /\ up'[d][Len(up[d]) + 1] = m
        /\ \A i \in 1..Len(up[d]) : up'[d][i] = up[d][i]
        BY UpAppend, Zenon
  <1>2. ASSUME NEW t \in Tasks
        PROVE  EndOnWire(d, t)' <=> EndOnWire(d, t) \/ (m.task = t /\ m.kind # "delta")
        BY <1>1 DEF EndOnWire
  <1>3. ASSUME NEW e \in Devices, e # d, NEW t \in Tasks PROVE EndOnWire(e, t)' <=> EndOnWire(e, t)
        BY <1>1, <1>3 DEF EndOnWire
  <1> QED BY <1>2, <1>3

LEMMA EndTail ==
    ASSUME DevTypeOK, NEW d \in Devices, up[d] # <<>>, up' = [up EXCEPT ![d] = Tail(@)]
    PROVE  \A e \in Devices, t \in Tasks :
              /\ EndOnWire(e, t)' => EndOnWire(e, t)
              /\ EndOnWire(e, t) => \/ EndOnWire(e, t)'
                                    \/ e = d /\ up[d][1].task = t /\ up[d][1].kind # "delta"
  <1>1. /\ \A e \in Devices : e # d => up'[e] = up[e]
        /\ Len(up[d]) \in Nat \ {0} /\ Len(up'[d]) = Len(up[d]) - 1
        /\ \A i \in 1..Len(up'[d]) : up'[d][i] = up[d][i + 1] /\ i + 1 \in 2..Len(up[d])
        BY UpTail, Zenon
  <1>2. ASSUME NEW t \in Tasks, EndOnWire(d, t)' PROVE EndOnWire(d, t)
    <2>1. PICK i \in 1..Len(up'[d]) : up'[d][i].task = t /\ up'[d][i].kind # "delta"
          BY <1>2 DEF EndOnWire
    <2>2. i + 1 \in 1..Len(up[d]) /\ up[d][i + 1] = up'[d][i]  BY <1>1
    <2> QED BY <2>1, <2>2 DEF EndOnWire
  <1>3. ASSUME NEW t \in Tasks, EndOnWire(d, t), ~(up[d][1].task = t /\ up[d][1].kind # "delta")
        PROVE  EndOnWire(d, t)'
    <2>1. PICK i \in 1..Len(up[d]) : up[d][i].task = t /\ up[d][i].kind # "delta"
          BY <1>3 DEF EndOnWire
    <2>2. i - 1 \in 1..Len(up'[d]) /\ (i - 1) + 1 = i  BY <1>1, <1>3, <2>1
    <2>3. up'[d][i - 1] = up[d][i]  BY <1>1, <2>2
    <2> QED BY <2>1, <2>2, <2>3 DEF EndOnWire
  <1>4. ASSUME NEW e \in Devices, e # d, NEW t \in Tasks PROVE EndOnWire(e, t)' <=> EndOnWire(e, t)
        BY <1>1, <1>4 DEF EndOnWire
  <1> QED BY <1>2, <1>3, <1>4

LEMMA StepErrorIsBroken == ASSUME LeakInv, [Next]_vars PROVE ErrorIsBroken'
  <1> USE DEF ErrorIsBroken
  <1>0. ErrorIsBroken /\ DevTypeOK /\ \A d \in Devices : Len(up[d]) \in Nat
        BY DEF LeakInv, WireInv, PathInv, IInv, TypeOK, DevTypeOK
  <1>1. CASE up' = up /\ broken' = broken  BY <1>0, <1>1
  <1>2. ASSUME NEW t \in Tasks, RequestStep(t) \/ CancelStep(t) \/ ClientGone(t)
        PROVE  up' = up /\ broken' = broken
        BY <1>2, OffPath DEF CancelStep, CancelWrite, SendTask, SendTaskFails, devVars, histVars
  <1>3. ASSUME NEW d \in Devices, EmitDelta(d) \/ EmitDone(d) \/ EmitError(d) PROVE ErrorIsBroken'
    <2>1. PICK m \in Chunks : /\ m.task = work[d] /\ up' = [up EXCEPT ![d] = Append(@, m)]
                              /\ m.kind = "error" => work[d] \in broken'
          BY <1>0, <1>3, EmitEffect
    <2>2. broken \subseteq broken'
          BY <1>3 DEF EmitDelta, EmitDone, EmitError, histVars
    <2>3. /\ \A e \in Devices : e # d => up'[e] = up[e]
          /\ Len(up'[d]) = Len(up[d]) + 1 /\ up'[d][Len(up[d]) + 1] = m
          /\ \A i \in 1..Len(up[d]) : up'[d][i] = up[d][i]
          BY <1>0, <2>1, UpAppend, Zenon
    <2> QED BY <1>0, <2>1, <2>2, <2>3
  <1>4. ASSUME NEW d \in Devices, LinkDies(d) PROVE ErrorIsBroken'
        BY <1>0, <1>4, LinkEffect
  <1>5. ASSUME NEW d \in Devices, TakeStreamChunk(d) \/ PlainChunk(d) PROVE ErrorIsBroken'
    <2>1. up[d] # <<>> /\ up' = [up EXCEPT ![d] = Tail(@)] /\ broken' = broken
          BY <1>5 DEF TakeStreamChunk, PlainChunk, histVars
    <2>2. /\ \A e \in Devices : e # d => up'[e] = up[e]
          /\ Len(up[d]) \in Nat \ {0}
          /\ \A i \in 1..Len(up'[d]) : up'[d][i] = up[d][i + 1] /\ i + 1 \in 2..Len(up[d])
          BY <1>0, <2>1, UpTail, Zenon
    <2>3. \A i \in 1..Len(up'[d]) : i + 1 \in 1..Len(up[d])  BY <2>2
    <2> QED BY <1>0, <2>1, <2>2, <2>3
  <1>6. ASSUME NEW d \in Devices,
               \/ ReadTask(d) \/ ReadCancel(d) \/ SessDelta(d) \/ SessError(d) \/ SessUsage(d)
               \/ SessFinish(d) \/ SessDone(d) \/ SessRemove(d) \/ SessionEnds(d) \/ Register(d)
               \/ ReportModels(d)
        PROVE  up' = up /\ broken' = broken
        BY <1>6 DEF ReadTask, ReadCancel, SessDelta, SessError, SessUsage, SessFinish, SessDone,
           SessRemove, SessionEnds, Register, ReportModels, devVars, histVars
  <1>7. CASE UNCHANGED vars  BY <1>1, <1>7 DEF vars, devVars, histVars
  <1> QED BY <1>1, <1>2, <1>3, <1>4, <1>5, <1>6, <1>7 DEF Next, DeviceStep, SessionStep

\* Every early return but those of NoLeak cleans the map up, or comes after the send.
LEMMA StepUnsentLeft == ASSUME LeakInv, [Next]_vars PROVE UnsentLeft'
  <1> USE DEF UnsentLeft, Ended
  <1>0. UnsentLeft /\ Assigned /\ Kinded /\ ReqTypeOK /\ MapTypeOK
        BY DEF LeakInv, WireInv, PathInv, IInv, TypeOK
  <1>1. CASE /\ UNCHANGED <<pc, outcome>> /\ sent \subseteq sent'
             /\ pending_tasks' \cup pending_streams' \subseteq pending_tasks \cup pending_streams
        BY <1>0, <1>1
  <1>2. ASSUME NEW t \in Tasks, RequestStep(t) PROVE UnsentLeft'
    <2> USE DEF ReqTypeOK, MapTypeOK, End, mapVars, histVars
    <2>1. CASE Submit(t)  BY <1>0, <2>1 DEF Submit
    <2>2. CASE SelectForModel(t)  BY <1>0, <2>2 DEF SelectForModel
    <2>3. CASE Select(t)  BY <1>0, <2>3 DEF Select
    <2>4. CASE SelectNone(t)  BY <1>0, <2>4 DEF SelectNone
    <2>5. CASE SendTask(t)  BY <1>0, <2>5 DEF SendTask
    <2>6. CASE SendTaskFails(t)  BY <1>0, <2>6 DEF SendTaskFails
    <2>7. CASE Cleanup(t)  BY <1>0, <2>7 DEF Cleanup
    <2>8. CASE CheckPending(t)  BY <1>0, <2>8 DEF CheckPending, Assigned
    <2>9. CASE ReceiveResult(t)  BY <1>0, <2>9 DEF ReceiveResult, Assigned
    <2>10. CASE Timeout(t)  BY <1>0, <2>10 DEF Timeout
    <2>11. CASE Expire(t)  BY <1>0, <2>11 DEF Expire, Assigned
    <2>12. CASE ReceiveEvent(t)  BY <1>0, <2>12 DEF ReceiveEvent, Assigned
    <2>13. CASE ChannelClosed(t)  BY <1>0, <2>13 DEF ChannelClosed, Assigned
    <2> QED BY <1>2, <2>1, <2>2, <2>3, <2>4, <2>5, <2>6, <2>7, <2>8, <2>9, <2>10, <2>11,
               <2>12, <2>13 DEF RequestStep
  <1>3. ASSUME NEW t \in Tasks, CancelStep(t) PROVE UnsentLeft'
        BY <1>1, <1>3 DEF CancelStep, CancelRemove, CancelWrite, reqVars, mapVars, histVars
  <1>4. ASSUME NEW t \in Tasks, ClientGone(t) PROVE UnsentLeft'
        BY <1>0, <1>4 DEF ClientGone, End, ReqTypeOK, histVars
  <1>5. ASSUME NEW d \in Devices,
               DeviceStep(d) \/ Register(d) \/ ReportModels(d) \/ LinkDies(d)
        PROVE  UNCHANGED <<reqVars, mapVars, sent>>
        BY <1>5 DEF DeviceStep, ReadTask, ReadCancel, EmitDelta, EmitDone, EmitError, Register,
           ReportModels, LinkDies, histVars
  <1>6. ASSUME NEW d \in Devices, SessionStep(d)
        PROVE  /\ UNCHANGED <<pc, outcome, sent>>
               /\ pending_tasks' \cup pending_streams' \subseteq pending_tasks \cup pending_streams
        BY <1>6 DEF SessionStep, TakeStreamChunk, SessDelta, SessError, SessUsage, SessFinish,
           SessDone, SessRemove, PlainChunk, SessionEnds, handle_inference_result, reqVars, mapVars,
           histVars
  <1>7. CASE UNCHANGED <<reqVars, mapVars, sent>>  BY <1>1, <1>7 DEF reqVars, mapVars
  <1>8. CASE UNCHANGED vars  BY <1>7, <1>8 DEF vars, histVars
  <1> QED BY <1>1, <1>2, <1>3, <1>4, <1>5, <1>6, <1>7, <1>8 DEF Next

\* The end of an answer moves from the command to the device, to the wire and to
\* the session task; only a dying connection makes it disappear.
LEMMA StepEnds == ASSUME LeakInv, [Next]_vars PROVE PendingEnds' /\ PartialEnds' /\ AnswerEnds'
  <1> USE DEF PendingEnds, PartialEnds, AnswerEnds
  <1>0. /\ PendingEnds /\ PartialEnds /\ AnswerEnds /\ ErrorIsBroken
        /\ Located /\ Unread /\ CmdOnce /\ Assigned /\ LastOnWire /\ InHand /\ Kinded
        /\ ReqTypeOK /\ MapTypeOK /\ DevTypeOK /\ SessTypeOK /\ SessionHasChunk
        /\ None \notin Tasks
        BY SchedulerAssumption DEF LeakInv, WireInv, PathInv, IInv, TypeOK
  <1>1. ASSUME UNCHANGED <<inbox, work, up, sess, smsg, partial_results>>,
               lost \subseteq lost', broken' = broken, sent' = sent,
               pending_streams' \ sent \subseteq Tasks,
               \A t \in sent : /\ t \in pending_streams' => t \in pending_streams
                               /\ t \in pending_tasks' => t \in pending_tasks
        PROVE  PendingEnds' /\ PartialEnds' /\ AnswerEnds'
        BY <1>0, <1>1 DEF EndComes, HasCmd, EndOnWire, OnWire, HoldsSender
  <1>2. ASSUME NEW t \in Tasks,
               \/ RequestStep(t) /\ ~SendTask(t) /\ ~SendTaskFails(t)
               \/ CancelRemove(t) \/ ClientGone(t)
        PROVE  PendingEnds' /\ PartialEnds' /\ AnswerEnds'
    <2>1. UNCHANGED <<devVars, sessVars, histVars>>  BY <1>2, OffPath
    <2>2. UNCHANGED partial_results
          BY <1>2 DEF RequestStep, Submit, SelectForModel, Select, SelectNone, Cleanup,
             CheckPending, ReceiveResult, Timeout, Expire, ReceiveEvent, ChannelClosed,
             CancelRemove, ClientGone, mapVars
    <2>3. CASE Submit(t)
      <3>1. t \notin sent  BY <1>0, <2>3 DEF Submit, Assigned
      <3>2. \A u \in sent : /\ u \in pending_streams' => u \in pending_streams
                            /\ u \in pending_tasks' => u \in pending_tasks
            BY <2>3, <3>1 DEF Submit
      <3>3. pending_streams' \subseteq Tasks  BY <1>0, <2>3 DEF Submit, MapTypeOK
      <3> QED BY <1>1, <2>1, <2>2, <3>2, <3>3 DEF devVars, sessVars, histVars
    <2>4. CASE ~Submit(t)
      <3>1. pending_streams' \subseteq pending_streams /\ pending_tasks' \subseteq pending_tasks
            BY <1>2, <2>4 DEF RequestStep, SelectForModel, Select, SelectNone, Cleanup,
               CheckPending, ReceiveResult, Timeout, Expire, ReceiveEvent, ChannelClosed,
               CancelRemove, ClientGone, mapVars
      <3> QED BY <1>0, <1>1, <2>1, <2>2, <3>1 DEF devVars, sessVars, histVars, MapTypeOK
    <2> QED BY <2>3, <2>4
  <1>3. ASSUME NEW t \in Tasks, SendTask(t) \/ SendTaskFails(t)
        PROVE  PendingEnds' /\ PartialEnds' /\ AnswerEnds'
    <2>1. /\ t \notin sent /\ dev[t] \in Devices
          /\ UNCHANGED <<work, up, sess, smsg, partial_results, pending_tasks, pending_streams, broken>>
          /\ lost \subseteq lost'
          BY <1>0, <1>3, SchedulerAssumption
          DEF SendTask, SendTaskFails, Deliver, Assigned, sessVars, mapVars
    <2>2. \/ inbox' = inbox /\ (t \in lost' \/ sent' = sent) /\ sent' \subseteq sent \cup {t}
          \/ /\ inbox' = [inbox EXCEPT ![dev[t]] = Append(@, Cmd("task", t))]
             /\ sent' = sent \cup {t}
          BY <1>3 DEF SendTask, SendTaskFails, Deliver
    <2>3. /\ \A d \in Devices, u \in Tasks : HasCmd(d, u) => HasCmd(d, u)'
          /\ t \in sent' => t \in lost' \/ \E d \in Devices : HasCmd(d, t)'
          /\ sent \subseteq sent' /\ sent' \subseteq sent \cup {t}
      <3>1. CASE inbox' = inbox /\ (t \in lost' \/ sent' = sent) /\ sent' \subseteq sent \cup {t}
        <4>1. \A d \in Devices, u \in Tasks : HasCmd(d, u)' <=> HasCmd(d, u)  BY <3>1 DEF HasCmd
        <4>2. sent \subseteq sent'  BY <1>3 DEF SendTask, SendTaskFails
        <4> QED BY <2>1, <3>1, <4>1, <4>2
      <3>2. CASE /\ inbox' = [inbox EXCEPT ![dev[t]] = Append(@, Cmd("task", t))]
                 /\ sent' = sent \cup {t}
        <4>1. PICK c \in Cmds : c = Cmd("task", t)  BY DEF Cmd, Cmds
        <4>2. PICK e \in Devices : e = dev[t]  BY <2>1
        <4>3. inbox' = [inbox EXCEPT ![e] = Append(@, c)]  BY <3>2, <4>1, <4>2
        <4>4. \A d \in Devices, u \in Tasks :
                 HasCmd(d, u)' <=> HasCmd(d, u) \/ (d = e /\ c = Cmd("task", u))
              BY <1>0, <4>3, InboxAppend, Zenon
        <4>5. HasCmd(e, t)'  BY <4>1, <4>4
        <4> QED BY <3>2, <4>4, <4>5
      <3> QED BY <2>2, <3>1, <3>2
    <2>4. \A d \in Devices, u \in Tasks :
             /\ OnWire(d, u)' <=> OnWire(d, u)
             /\ EndOnWire(d, u)' <=> EndOnWire(d, u)
             /\ HoldsSender(d, u)' <=> HoldsSender(d, u)
          BY <2>1 DEF OnWire, EndOnWire, HoldsSender
    <2>5. PendingEnds'
      <3>1. \A d \in Devices, u \in Tasks : EndComes(d, u) => EndComes(d, u)'
            BY <2>1, <2>3, <2>4 DEF EndComes
      <3>2. \A d \in Devices : HasCmd(d, t)' => EndComes(d, t)'  BY DEF EndComes
      <3> QED BY <1>0, <2>1, <2>3, <3>1, <3>2
    <2>6. PartialEnds'  BY <1>0, <2>1, <2>3, <2>4
    <2>7. AnswerEnds'  BY <1>0, <2>1, <2>4
    <2> QED BY <2>5, <2>6, <2>7
  <1>4. ASSUME NEW t \in Tasks, CancelWrite(t)
        PROVE  PendingEnds' /\ PartialEnds' /\ AnswerEnds'
    <2>1. UNCHANGED <<work, up, sess, smsg, partial_results, pending_tasks, pending_streams, sent,
                      lost, broken>>
          BY <1>4 DEF CancelWrite, sessVars, histVars, mapVars
    <2>2. \A d \in Devices, u \in Tasks : HasCmd(d, u) => HasCmd(d, u)'
      <3>1. CASE inbox' = inbox  BY <3>1 DEF HasCmd
      <3>2. CASE inbox' = [inbox EXCEPT ![dev[t]] = Append(@, Cmd("cancel", t))]
        <4>1. CASE dev[t] \in Devices
          <5>1. PICK c \in Cmds : c = Cmd("cancel", t)  BY DEF Cmd, Cmds
          <5>2. inbox' = [inbox EXCEPT ![dev[t]] = Append(@, c)]  BY <3>2, <5>1
          <5>3. PICK e \in Devices : e = dev[t]  BY <4>1
          <5>4. inbox' = [inbox EXCEPT ![e] = Append(@, c)]  BY <5>2, <5>3
          <5> QED BY <1>0, <5>4, InboxAppend, Zenon
        <4>2. CASE dev[t] \notin Devices
          <5>1. inbox' = inbox  BY <1>0, <3>2, <4>2 DEF DevTypeOK
          <5> QED BY <5>1 DEF HasCmd
        <4> QED BY <4>1, <4>2
      <3> QED BY <1>4, <3>1, <3>2 DEF CancelWrite
    <2>3. \A d \in Devices, u \in Tasks :
             /\ OnWire(d, u)' <=> OnWire(d, u)
             /\ EndOnWire(d, u)' <=> EndOnWire(d, u)
             /\ HoldsSender(d, u)' <=> HoldsSender(d, u)
          BY <2>1 DEF OnWire, EndOnWire, HoldsSender
    <2>4. \A d \in Devices, u \in Tasks : EndComes(d, u) => EndComes(d, u)'
          BY <2>1, <2>2, <2>3 DEF EndComes
    <2> QED BY <1>0, <2>1, <2>3, <2>4
  <1>5. ASSUME NEW d \in Devices, ReadTask(d) \/ ReadCancel(d)
        PROVE  PendingEnds' /\ PartialEnds' /\ AnswerEnds'
    <2>1. /\ inbox[d] # <<>> /\ inbox' = [inbox EXCEPT ![d] = Tail(@)] /\ work[d] = None
          /\ UNCHANGED <<up, sess, smsg, partial_results, pending_tasks, pending_streams, sent,
                         lost, broken>>
          BY <1>5 DEF ReadTask, ReadCancel, sessVars, histVars, mapVars
    <2>2. PICK c : c = Head(inbox[d])  OBVIOUS
    <2>3. \A e \in Devices, t \in Tasks :
             HasCmd(e, t) => HasCmd(e, t)' \/ (e = d /\ c = Cmd("task", t))
      <3>1. \A e \in Devices, t \in Tasks :
               HasCmd(e, t)' <=> HasCmd(e, t) /\ ~(e = d /\ Head(inbox[d]) = Cmd("task", t))
            BY <1>0, <2>1, InboxTail, Zenon
      <3> QED BY <2>2, <3>1
    <2>4. /\ \A e \in Devices : e # d => work'[e] = work[e]
          /\ \A t \in Tasks : c = Cmd("task", t) => work'[d] = t
          BY <1>0, <1>5, <2>2 DEF ReadTask, ReadCancel, Cmd, DevTypeOK
    <2>5. \A e \in Devices, t \in Tasks :
             /\ OnWire(e, t)' <=> OnWire(e, t)
             /\ EndOnWire(e, t)' <=> EndOnWire(e, t)
             /\ HoldsSender(e, t)' <=> HoldsSender(e, t)
             /\ work[e] = t => work'[e] = t
          BY <1>0, <2>1, <2>4 DEF OnWire, EndOnWire, HoldsSender
    <2>6. \A e \in Devices, t \in Tasks : EndComes(e, t) => EndComes(e, t)'
          BY <2>1, <2>3, <2>4, <2>5 DEF EndComes
    <2>7. PendingEnds'  BY <1>0, <2>1, <2>6
    <2>8. PartialEnds' /\ AnswerEnds'  BY <1>0, <2>1, <2>5
    <2> QED BY <2>7, <2>8
  <1>6. ASSUME NEW d \in Devices, EmitDelta(d) \/ EmitDone(d) \/ EmitError(d)
        PROVE  PendingEnds' /\ PartialEnds' /\ AnswerEnds'
    <2>1. /\ UNCHANGED <<inbox, sess, smsg, partial_results, pending_tasks, pending_streams, sent,
                         lost>>
          /\ broken \subseteq broken' /\ \A e \in Devices : e # d => work'[e] = work[e]
      <3>1. UNCHANGED <<inbox, mapVars, sessVars, sent, lost>>  BY <1>0, <1>6, EmitEffect
      <3>2. broken \subseteq broken'  BY <1>6 DEF EmitDelta, EmitDone, EmitError, histVars
      <3>3. \A e \in Devices : e # d => work'[e] = work[e]  BY <1>0, <1>6, EmitEffect
      <3> QED BY <3>1, <3>2, <3>3 DEF mapVars, sessVars
    <2>2. PICK m \in Chunks : /\ m.task = work[d] /\ up' = [up EXCEPT ![d] = Append(@, m)]
                              /\ m.kind = "delta" => work'[d] = work[d]
          BY <1>0, <1>6, EmitEffect
    <2>3. \A e \in Devices, t \in Tasks :
             /\ OnWire(e, t)' <=> OnWire(e, t) \/ (e = d /\ m.task = t)
             /\ EndOnWire(e, t)' <=> EndOnWire(e, t) \/ (e = d /\ m.task = t /\ m.kind # "delta")
      <3>1. \A e \in Devices, t \in Tasks : OnWire(e, t)' <=> OnWire(e, t) \/ (e = d /\ m.task = t)
            BY <1>0, <2>2, UpAppend, Zenon
      <3>2. \A e \in Devices, t \in Tasks :
               EndOnWire(e, t)' <=> EndOnWire(e, t) \/ (e = d /\ m.task = t /\ m.kind # "delta")
            BY <1>0, <2>2, EndAppend, Zenon
      <3> QED BY <3>1, <3>2
    <2>4. \A e \in Devices, t \in Tasks : work[e] = t => work'[e] = t \/ EndOnWire(e, t)'
          BY <2>1, <2>2, <2>3
    <2>5. \A e \in Devices, t \in Tasks : /\ HasCmd(e, t)' <=> HasCmd(e, t)
                                          /\ HoldsSender(e, t)' <=> HoldsSender(e, t)
          BY <2>1 DEF HasCmd, HoldsSender
    <2>6. \A e \in Devices, t \in Tasks : EndComes(e, t) => EndComes(e, t)'
          BY <2>1, <2>3, <2>4, <2>5 DEF EndComes
    <2>7. PendingEnds'  BY <1>0, <2>1, <2>6
    <2>8. PartialEnds'  BY <1>0, <2>1, <2>3, <2>4
    <2>9. AnswerEnds'  BY <1>0, <2>1, <2>2, <2>3, <2>4
    <2> QED BY <2>7, <2>8, <2>9
  <1>7. ASSUME NEW d \in Devices, LinkDies(d) PROVE PendingEnds' /\ PartialEnds' /\ AnswerEnds'
    <2>1. UNCHANGED <<sess, smsg, partial_results, pending_tasks, pending_streams, sent, broken>>
          BY <1>0, <1>7, LinkEffect DEF mapVars, sessVars
    <2>2. PICK n \in 0..Len(up[d]) :
             /\ Len(up[d]) \in Nat /\ Len(up'[d]) = n
             /\ \A i \in 1..n : up'[d][i] = up[d][i] /\ i \in 1..Len(up[d])
             /\ lost' = lost \cup Outstanding(d) \cup {up[d][i].task : i \in (n + 1)..Len(up[d])}
          BY <1>0, <1>7, LinkEffect
    <2>3. \A e \in Devices : e # d => up'[e] = up[e] /\ inbox'[e] = inbox[e] /\ work'[e] = work[e]
          BY <1>0, <1>7, LinkEffect
    <2>4. \A t \in Tasks : EndOnWire(d, t) => EndOnWire(d, t)' \/ t \in lost'
      <3> SUFFICES ASSUME NEW t \in Tasks, EndOnWire(d, t), t \notin lost' PROVE EndOnWire(d, t)'
          OBVIOUS
      <3>1. PICK i \in 1..Len(up[d]) : up[d][i].task = t /\ up[d][i].kind # "delta"
            BY DEF EndOnWire
      <3>2. i \notin (n + 1)..Len(up[d])  BY <2>2, <3>1
      <3>3. i \in 1..n  BY <2>2, <3>2
      <3> QED BY <2>2, <3>1, <3>3 DEF EndOnWire
    <2>5. \A t \in Tasks : HasCmd(d, t) \/ work[d] = t => t \in lost'
          BY <2>2 DEF HasCmd, Outstanding
    <2>6. \A e \in Devices, t \in Tasks : OnWire(e, t)' => OnWire(e, t)
          BY <2>2, <2>3 DEF OnWire
    <2>7. \A e \in Devices, t \in Tasks : e # d =>
             /\ EndOnWire(e, t)' <=> EndOnWire(e, t)
             /\ HasCmd(e, t)' <=> HasCmd(e, t)
          BY <2>3 DEF EndOnWire, HasCmd
    <2>8. \A e \in Devices, t \in Tasks : HoldsSender(e, t)' <=> HoldsSender(e, t)
          BY <2>1 DEF HoldsSender
    <2>9. \A e \in Devices, t \in Tasks : EndComes(e, t) => EndComes(e, t)' \/ t \in lost'
      <3> SUFFICES ASSUME NEW e \in Devices, NEW t \in Tasks, EndComes(e, t), t \notin lost'
                   PROVE  EndComes(e, t)'
          OBVIOUS
      <3>1. CASE e = d  BY <2>1, <2>4, <2>5, <2>8, <3>1 DEF EndComes
      <3>2. CASE e # d  BY <2>1, <2>3, <2>7, <2>8, <3>2 DEF EndComes
      <3> QED BY <3>1, <3>2
    <2>10. lost \subseteq lost'  BY <2>2
    <2>11. PendingEnds'  BY <1>0, <2>1, <2>9, <2>10
    <2>12. \A e \in Devices, t \in Tasks :
              work[e] = t \/ EndOnWire(e, t) => work'[e] = t \/ EndOnWire(e, t)' \/ t \in lost'
           BY <2>3, <2>4, <2>5, <2>7
    <2>13. PartialEnds'  BY <1>0, <2>1, <2>10, <2>12
    <2>14. AnswerEnds'  BY <1>0, <2>6, <2>10, <2>12
    <2> QED BY <2>11, <2>13, <2>14
  <1>8. ASSUME NEW d \in Devices, TakeStreamChunk(d) PROVE PendingEnds' /\ PartialEnds' /\ AnswerEnds'
    <2>1. PICK m : /\ m = Head(up[d]) /\ up[d] # <<>> /\ up' = [up EXCEPT ![d] = Tail(@)]
                   /\ m.task \in pending_streams /\ sess[d] = "idle"
                   /\ smsg' = [smsg EXCEPT ![d] = m]
                   /\ sess' = [sess EXCEPT ![d] = CASE m.kind = "error" -> "error"
                                                    [] m.kind = "delta" -> "delta"
                                                    [] m.kind = "done"  -> "usage"]
                   /\ UNCHANGED <<inbox, work, partial_results, pending_tasks, pending_streams, sent,
                                  lost, broken>>
          BY <1>8 DEF TakeStreamChunk, mapVars, histVars
    <2>2. /\ m = up[d][1] /\ m \in Chunks /\ m.task \in Tasks
          /\ \A e \in Devices, t \in Tasks : OnWire(e, t)' => OnWire(e, t)
      <3>1. /\ Head(up[d]) = up[d][1] /\ Head(up[d]) \in Chunks /\ Head(up[d]).task \in Tasks
            /\ \A e \in Devices, t \in Tasks : OnWire(e, t)' => OnWire(e, t)
            BY <1>0, <2>1, UpTail, Zenon
      <3> QED BY <2>1, <3>1
    <2>3. \A e \in Devices, t \in Tasks :
             /\ EndOnWire(e, t)' => EndOnWire(e, t)
             /\ EndOnWire(e, t) => \/ EndOnWire(e, t)'
                                   \/ e = d /\ up[d][1].task = t /\ up[d][1].kind # "delta"
          BY <1>0, <2>1, EndTail, Zenon
    <2>4. /\ smsg'[d] = m /\ sess'[d] # "idle" /\ (m.kind # "delta" => sess'[d] # "delta")
          /\ \A e \in Devices : e # d => smsg'[e] = smsg[e] /\ sess'[e] = sess[e]
          BY <1>0, <2>1, <2>2 DEF SessTypeOK, Chunks
    <2>5. \A e \in Devices, t \in Tasks :
             /\ HasCmd(e, t)' <=> HasCmd(e, t)
             /\ HoldsSender(e, t) => HoldsSender(e, t)' /\ sess'[e] = sess[e]
             /\ e = d /\ m.task = t => HoldsSender(e, t)'
          BY <2>1, <2>4 DEF HasCmd, HoldsSender
    <2>6. \A e \in Devices, t \in Tasks : EndComes(e, t) => EndComes(e, t)'
          BY <2>1, <2>2, <2>3, <2>4, <2>5 DEF EndComes
    <2>7. PendingEnds'  BY <1>0, <2>1, <2>6
    <2>8. PartialEnds'  BY <1>0, <2>1, <2>2, <2>3
    <2>9. AnswerEnds'
      <3> SUFFICES ASSUME NEW e \in Devices, NEW t \in Tasks, OnWire(e, t)', t \notin lost,
                          work[e] # t
                   PROVE  EndOnWire(e, t)'
          BY <2>1
      <3>1. OnWire(e, t) /\ EndOnWire(e, t)  BY <1>0, <2>2
      <3>2. CASE e = d /\ up[d][1].task = t /\ up[d][1].kind # "delta"
        <4>1. HoldsSender(d, t)' /\ sess'[d] # "delta" /\ InHand'
              BY <2>2, <2>4, <2>5, <3>2, StepInHand DEF LeakInv
        <4>2. ~OnWire(d, t)'  BY <4>1 DEF InHand, HoldsSender, OnWire
        <4> QED BY <3>2, <4>2
      <3> QED BY <2>3, <3>1, <3>2
    <2> QED BY <2>7, <2>8, <2>9
  <1>9. ASSUME NEW d \in Devices, PlainChunk(d) PROVE PendingEnds' /\ PartialEnds' /\ AnswerEnds'
    <2>1. PICK m : /\ m = Head(up[d]) /\ up[d] # <<>> /\ up' = [up EXCEPT ![d] = Tail(@)]
                   /\ m.task \notin pending_streams
                   /\ UNCHANGED <<inbox, work, pending_streams, sess, smsg, sent, lost, broken>>
          BY <1>9 DEF PlainChunk, sessVars, histVars
    <2>2. /\ m = up[d][1] /\ m \in Chunks /\ m.task \in Tasks /\ OnWire(d, m.task)
          /\ \A e \in Devices, t \in Tasks : OnWire(e, t)' => OnWire(e, t)
          /\ Len(up[d]) \in Nat \ {0} /\ \A i \in 1..Len(up'[d]) : up'[d][i] = up[d][i + 1] /\ i + 1 \in 2..Len(up[d])
      <3>1. /\ Head(up[d]) = up[d][1] /\ Head(up[d]) \in Chunks /\ Head(up[d]).task \in Tasks
            /\ OnWire(d, Head(up[d]).task)
            /\ \A e \in Devices, t \in Tasks : OnWire(e, t)' => OnWire(e, t)
            /\ Len(up[d]) \in Nat \ {0} /\ \A i \in 1..Len(up'[d]) : up'[d][i] = up[d][i + 1] /\ i + 1 \in 2..Len(up[d])
            BY <1>0, <2>1, UpTail, Zenon
      <3> QED BY <2>1, <3>1
    <2>3. \A e \in Devices, t \in Tasks :
             /\ EndOnWire(e, t)' => EndOnWire(e, t)
             /\ EndOnWire(e, t) => \/ EndOnWire(e, t)'
                                   \/ e = d /\ up[d][1].task = t /\ up[d][1].kind # "delta"
          BY <1>0, <2>1, EndTail, Zenon
    <2>4. \A e \in Devices, t \in Tasks :
             /\ HasCmd(e, t)' <=> HasCmd(e, t)
             /\ HoldsSender(e, t)' <=> HoldsSender(e, t)
          BY <2>1 DEF HasCmd, HoldsSender
    <2>5. /\ pending_tasks' \subseteq pending_tasks
          /\ m.kind # "delta" => m.task \notin pending_tasks'
          /\ \A t \in Tasks : t # m.task => partial_results'[t] = partial_results[t]
          /\ m.kind = "done" => partial_results'[m.task] = None
          /\ m.kind = "error" => partial_results'[m.task] \in {None, partial_results[m.task]}
      <3>1. \/ m.kind = "delta" /\ pending_tasks' = pending_tasks
               /\ \E y : partial_results' = [partial_results EXCEPT ![m.task] = y]
            \/ m.kind = "done" /\ m.task \notin pending_tasks' /\ pending_tasks' \subseteq pending_tasks
               /\ partial_results' = [partial_results EXCEPT ![m.task] = None]
            \/ m.kind = "error" /\ m.task \notin pending_tasks' /\ pending_tasks' \subseteq pending_tasks
               /\ \E y \in {None, partial_results[m.task]} :
                     partial_results' = [partial_results EXCEPT ![m.task] = y]
            BY <1>9, <2>1 DEF PlainChunk, handle_inference_result
      <3> QED BY <1>0, <2>2, <3>1 DEF MapTypeOK
    <2>6. m.task \in sent /\ (m.kind = "error" => m.task \in broken)
      <3>1. 1 \in 1..Len(up[d])  BY <2>2
      <3> QED BY <1>0, <2>2, <3>1 DEF Located, ErrorIsBroken
    <2>7. m.kind \in {"delta", "done", "error"}  BY <2>2 DEF Chunks
    <2>8. PendingEnds'
      <3>1. \A e \in Devices, t \in Tasks :
               EndComes(e, t) => EndComes(e, t)' \/ (t = m.task /\ m.kind # "delta")
            BY <2>1, <2>2, <2>3, <2>4 DEF EndComes
      <3> QED BY <1>0, <2>1, <2>5, <3>1
    <2>9. PartialEnds'
      <3> SUFFICES ASSUME NEW t \in Tasks, partial_results'[t] # None
                   PROVE  /\ t \in sent /\ t \notin pending_streams
                          /\ t \in lost \cup broken \/ \E e \in Devices : work[e] = t \/ EndOnWire(e, t)'
          BY <2>1
      <3>1. CASE t # m.task
        <4>1. partial_results[t] # None  BY <2>5, <3>1
        <4> QED BY <1>0, <2>2, <2>3, <3>1, <4>1
      <3>2. CASE t = m.task /\ m.kind = "delta"
        <4>1. t \in lost \/ work[d] = t \/ EndOnWire(d, t)  BY <1>0, <2>2, <3>2
        <4> QED BY <2>1, <2>2, <2>3, <2>6, <3>2, <4>1
      <3>3. CASE t = m.task /\ m.kind # "delta"  BY <2>1, <2>5, <2>6, <2>7, <3>3
      <3> QED BY <3>1, <3>2, <3>3
    <2>10. AnswerEnds'
      <3> SUFFICES ASSUME NEW e \in Devices, NEW t \in Tasks, OnWire(e, t)', t \notin lost,
                          work[e] # t
                   PROVE  EndOnWire(e, t)'
          BY <2>1
      <3>1. OnWire(e, t) /\ EndOnWire(e, t)  BY <1>0, <2>2
      <3>2. CASE e = d /\ up[d][1].task = t /\ up[d][1].kind # "delta"
        <4>1. PICK k \in 1..Len(up[d]) : k = 1  BY <2>2
        <4>2. up[d][k].task = t /\ up[d][k].kind # "delta"  BY <3>2, <4>1
        <4>3. \A j \in (k + 1)..Len(up[d]) : up[d][j].task # up[d][k].task
              BY <1>0, <4>2, Zenon DEF LastOnWire
        <4>4. \A i \in 1..Len(up'[d]) : i + 1 \in (k + 1)..Len(up[d])
          <5> SUFFICES ASSUME NEW i \in 1..Len(up'[d]) PROVE i + 1 \in (k + 1)..Len(up[d])
              OBVIOUS
          <5>1. i + 1 \in 2..Len(up[d])  BY <2>2
          <5> QED BY <4>1, <5>1
        <4>5. \A i \in 1..Len(up'[d]) : up'[d][i].task # t  BY <2>2, <4>2, <4>3, <4>4
        <4>6. ~OnWire(d, t)'  BY <4>5 DEF OnWire
        <4> QED BY <3>2, <4>6
      <3> QED BY <2>3, <3>1, <3>2
    <2> QED BY <2>8, <2>9, <2>10
  <1>10. ASSUME NEW d \in Devices,
                SessDelta(d) \/ SessError(d) \/ SessUsage(d) \/ SessFinish(d) \/ SessDone(d)
         PROVE  PendingEnds' /\ PartialEnds' /\ AnswerEnds'
    <2>1. /\ UNCHANGED <<inbox, work, up, partial_results, pending_tasks, pending_streams, sent,
                         lost, broken>>
          BY <1>10 DEF SessDelta, SessError, SessUsage, SessFinish, SessDone, devVars, histVars
    <2>2. \A e \in Devices, t \in Tasks :
             HoldsSender(e, t) /\ sess[e] # "delta" => HoldsSender(e, t)' /\ sess'[e] # "delta"
          BY <1>0, <1>10 DEF SessDelta, SessError, SessUsage, SessFinish, SessDone, Goto, HoldsSender,
             SessTypeOK
    <2>3. \A e \in Devices, t \in Tasks :
             /\ HasCmd(e, t)' <=> HasCmd(e, t)
             /\ OnWire(e, t)' <=> OnWire(e, t)
             /\ EndOnWire(e, t)' <=> EndOnWire(e, t)
          BY <2>1 DEF HasCmd, OnWire, EndOnWire
    <2>4. \A e \in Devices, t \in Tasks : EndComes(e, t) => EndComes(e, t)'
          BY <2>1, <2>2, <2>3 DEF EndComes
    <2> QED BY <1>0, <2>1, <2>3, <2>4
  <1>11. ASSUME NEW d \in Devices, SessRemove(d) PROVE PendingEnds' /\ PartialEnds' /\ AnswerEnds'
    <2>1. PICK t : t = smsg[d].task  OBVIOUS
    <2>2. /\ UNCHANGED <<inbox, work, up, partial_results, pending_tasks, sent, lost, broken>>
          /\ pending_streams' = pending_streams \ {t} /\ sess[d] = "remove"
          BY <1>11, <2>1 DEF SessRemove, devVars, histVars
    <2>3. t \in Tasks /\ t \notin pending_tasks
      <3>1. t \in Tasks /\ Streaming(t)
            BY <1>0, <2>1, <2>2 DEF SessTypeOK, SessionHasChunk, InHand, Chunks
      <3> QED BY <1>0, <3>1 DEF Kinded
    <2>4. \A e \in Devices, u \in Tasks : u # t /\ HoldsSender(e, u) /\ sess[e] # "delta" =>
                                             HoldsSender(e, u)' /\ sess'[e] # "delta"
          BY <1>0, <1>11, <2>1 DEF SessRemove, Goto, HoldsSender, SessTypeOK
    <2>5. \A e \in Devices, u \in Tasks :
             /\ HasCmd(e, u)' <=> HasCmd(e, u)
             /\ OnWire(e, u)' <=> OnWire(e, u)
             /\ EndOnWire(e, u)' <=> EndOnWire(e, u)
          BY <2>2 DEF HasCmd, OnWire, EndOnWire
    <2>6. \A e \in Devices, u \in Tasks : u # t /\ EndComes(e, u) => EndComes(e, u)'
          BY <2>2, <2>4, <2>5 DEF EndComes
    <2> QED BY <1>0, <2>2, <2>3, <2>5, <2>6
  <1>12. ASSUME NEW d \in Devices, Register(d) \/ ReportModels(d) \/ SessionEnds(d)
         PROVE  UNCHANGED <<mapVars, sessVars, histVars, inbox, work, up>>
         BY <1>12 DEF Register, ReportModels, SessionEnds, devVars
  <1>13. CASE UNCHANGED <<mapVars, sessVars, histVars, inbox, work, up>>
         BY <1>0, <1>1, <1>13 DEF mapVars, sessVars, histVars, MapTypeOK
  <1>14. CASE UNCHANGED vars  BY <1>13, <1>14 DEF vars, devVars
  <1> QED BY <1>2, <1>3, <1>4, <1>5, <1>6, <1>7, <1>8, <1>9, <1>10, <1>11, <1>12, <1>13, <1>14
          DEF Next, CancelStep, DeviceStep, SessionStep

LEMMA LeakInvariance == Spec => []LeakInv
  <1>1. Init /\ WireInv => LeakInv
        BY SchedulerAssumption
        DEF Init, LeakInv, PendingEnds, PartialEnds, AnswerEnds, ErrorIsBroken, UnsentLeft, Ended,
            OnWire
  <1>2. LeakInv /\ WireInv' /\ [Next]_vars => LeakInv'
        BY StepErrorIsBroken, StepUnsentLeft, StepEnds DEF LeakInv
  <1> QED BY <1>1, <1>2, WireInvariance, PTL DEF Spec

(***************************************************************************)
(* NoLeak for every set of devices and requests.  The inductive invariant  *)
(* follows the end of an answer: a task in a map that was sent, or that has*)
(* accumulated text, is held by exactly the thing that will clear it.      *)
(***************************************************************************)
THEOREM MapsForget == Spec => []NoLeak
  <1>1. ASSUME LeakInv PROVE NoLeak
    <2> SUFFICES ASSUME NEW t \in Tasks
                 PROVE  /\ /\ Ended(t) /\ ~InFlight(t) /\ cancel[t] \notin {"remove"}
                           /\ t \in pending_tasks \cup pending_streams
                           => \/ outcome[t] = "no_device"
                              \/ outcome[t] = "dropped" /\ t \notin sent
                              \/ t \in lost
                        /\ partial_results[t] # None => InFlight(t) \/ t \in lost \cup broken
        BY DEF NoLeak
    <2>1. \A d \in Devices : EndComes(d, t) => InFlight(t)
          BY DEF EndComes, InFlight, HasCmd, EndOnWire, Outstanding
    <2>2. \A d \in Devices : work[d] = t \/ EndOnWire(d, t) => InFlight(t)
          BY DEF InFlight, EndOnWire, Outstanding
    <2>3. ASSUME Ended(t), ~InFlight(t), t \in pending_tasks \cup pending_streams, t \notin lost
          PROVE  outcome[t] = "no_device" \/ (outcome[t] = "dropped" /\ t \notin sent)
      <3>1. t \notin sent  BY <1>1, <2>1, <2>3 DEF LeakInv, PendingEnds
      <3> QED BY <1>1, <2>3, <3>1 DEF LeakInv, UnsentLeft
    <2>4. ASSUME partial_results[t] # None, t \notin lost \cup broken PROVE InFlight(t)
          BY <1>1, <2>2, <2>4 DEF LeakInv, PartialEnds
    <2> QED BY <2>3, <2>4
  <1> QED BY <1>1, LeakInvariance, PTL

-----------------------------------------------------------------------------
(* What a streaming client receives.                                        *)

\* Pieces b + 1 to n of task t are on the wire before position i.
Covered(q, t, b, i, n) ==
    \A m \in (b + 1)..n : \E j \in 1..(i - 1) : q[j] = Chunk(t, "delta", m)

\* The chunks of t on the wire q continue a text of b pieces: each piece comes after all the
\* ones before it, a done chunk after all n that were made, and if the device still works on
\* t, these n are there.
Follows(q, t, b, n, working) ==
    /\ \A i \in 1..Len(q) : q[i].task = t =>
          /\ q[i].kind = "delta" => /\ q[i].n \in (b + 1)..n /\ Covered(q, t, b, i, q[i].n - 1)
                                    /\ \A j \in 1..(i - 1) : q[j].task = t => q[j].n < q[i].n
          /\ q[i].kind = "done" => b <= n /\ Covered(q, t, b, i, n)
    /\ working => b <= n /\ Covered(q, t, b, Len(q) + 1, n)

ChunkFree(q, t) == \A i \in 1..Len(q) : q[i].task # t
EndFree(q, t) == \A i \in 1..Len(q) : q[i].task = t => q[i].kind = "delta"

\* A wire without chunks of t continues any text.
LEMMA FollowsNothing ==
    ASSUME NEW t \in Tasks, NEW q \in Seq(Chunks), NEW b \in Nat, NEW n \in Nat, NEW working \in BOOLEAN,
           ChunkFree(q, t), working => b = 0 /\ n = 0
    PROVE  Follows(q, t, b, n, working)
  BY DEF Follows, ChunkFree, Covered

\* The first chunk of the wire is the next piece, or ends a text that is complete.
LEMMA FollowsHead ==
    ASSUME NEW t \in Tasks, NEW q \in Seq(Chunks), NEW b \in Nat, NEW n \in Nat, NEW working \in BOOLEAN,
           q # <<>>, q[1].task = t, Follows(q, t, b, n, working)
    PROVE  /\ q[1].kind = "delta" => q[1].n = b + 1 /\ b + 1 <= n
           /\ q[1].kind = "done" => b = n
  <1>1. 1 \in 1..Len(q) /\ q[1] \in Chunks  OBVIOUS
  <1>2. q[1].n \in Nat  BY <1>1 DEF Chunks
  <1>3. ASSUME NEW k \in Nat, Covered(q, t, b, 1, k) PROVE k <= b
    <2>1. \A m \in (b + 1)..k : FALSE  BY <1>3 DEF Covered
    <2> QED BY <2>1
  <1>4. CASE q[1].kind = "delta"
    <2>1. q[1].n \in (b + 1)..n /\ Covered(q, t, b, 1, q[1].n - 1)  BY <1>1, <1>4 DEF Follows
    <2>2. q[1].n - 1 \in Nat  BY <2>1
    <2>3. q[1].n - 1 <= b  BY <1>3, <2>1, <2>2
    <2> QED BY <1>4, <2>1, <2>3
  <1>5. CASE q[1].kind = "done"
    <2>1. b <= n /\ Covered(q, t, b, 1, n)  BY <1>1, <1>5 DEF Follows
    <2> QED BY <1>3, <1>5, <2>1
  <1> QED BY <1>4, <1>5

\* Reading a chunk: of another task, or the next piece.
LEMMA FollowsTail ==
    ASSUME NEW t \in Tasks, NEW q \in Seq(Chunks), NEW b \in Nat, NEW n \in Nat, NEW working \in BOOLEAN,
           q # <<>>, Follows(q, t, b, n, working),
           NEW c \in Nat, \/ q[1].task # t /\ c = b
                          \/ q[1].task = t /\ q[1].kind = "delta" /\ c = b + 1
    PROVE  Follows(Tail(q), t, c, n, working)
  <1> DEFINE r == Tail(q)
  <1>1. /\ Len(q) \in Nat \ {0} /\ r \in Seq(Chunks) /\ Len(r) = Len(q) - 1
        /\ \A i \in 1..Len(r) : r[i] = q[i + 1] /\ i + 1 \in 2..Len(q)
        BY QueueTail
  <1> HIDE DEF r
  <1>2. ASSUME NEW i \in 1..(Len(r) + 1), NEW k \in Int, Covered(q, t, b, i + 1, k)
        PROVE  Covered(r, t, c, i, k)
    <2> SUFFICES ASSUME NEW m \in (c + 1)..k PROVE \E j \in 1..(i - 1) : r[j] = Chunk(t, "delta", m)
        BY DEF Covered
    <2>1. m \in (b + 1)..k  OBVIOUS
    <2>2. PICK j \in 1..((i + 1) - 1) : q[j] = Chunk(t, "delta", m)  BY <1>2, <2>1 DEF Covered
    <2>3. j # 1
      <3>1. q[j].task = t /\ q[j].n = m  BY <2>2 DEF Chunk
      <3>2. q[1].task = t /\ q[1].kind = "delta" => q[1].n = b + 1  BY FollowsHead
      <3> QED BY <3>1, <3>2
    <2>4. j - 1 \in 1..(i - 1) /\ j - 1 \in 1..Len(r) /\ (j - 1) + 1 = j  BY <1>1, <2>3
    <2>5. r[j - 1] = q[j]  BY <1>1, <2>4
    <2> QED BY <2>2, <2>4, <2>5
  <1>3. ASSUME NEW i \in 1..Len(r), r[i].task = t
        PROVE  /\ r[i].kind = "delta" => /\ r[i].n \in (c + 1)..n /\ Covered(r, t, c, i, r[i].n - 1)
                                         /\ \A j \in 1..(i - 1) : r[j].task = t => r[j].n < r[i].n
               /\ r[i].kind = "done" => c <= n /\ Covered(r, t, c, i, n)
    <2>1. i + 1 \in 1..Len(q) /\ i \in 1..(Len(r) + 1) /\ r[i] = q[i + 1] /\ 1 \in 1..((i + 1) - 1)
          BY <1>1
    <2>2. q[1].n \in Nat /\ q[i + 1].n \in Nat
      <3>1. q[1] \in Chunks /\ q[i + 1] \in Chunks  BY <1>1, <2>1
      <3> QED BY <3>1 DEF Chunks
    <2>3. CASE r[i].kind = "delta"
      <3>1. /\ q[i + 1].n \in (b + 1)..n /\ Covered(q, t, b, i + 1, q[i + 1].n - 1)
            /\ \A j \in 1..((i + 1) - 1) : q[j].task = t => q[j].n < q[i + 1].n
            BY <1>3, <2>1, <2>3 DEF Follows
      <3>2. Covered(r, t, c, i, r[i].n - 1)
        <4>1. r[i].n - 1 \in Int /\ Covered(q, t, b, i + 1, r[i].n - 1)  BY <2>1, <2>2, <3>1
        <4> QED BY <1>2, <2>1, <4>1
      <3>3. r[i].n \in (c + 1)..n
        <4>1. q[1].task = t /\ q[1].kind = "delta" => q[1].n = b + 1  BY FollowsHead
        <4>2. q[1].task = t => q[1].n < q[i + 1].n  BY <2>1, <3>1
        <4> QED BY <2>1, <2>2, <3>1, <4>1, <4>2
      <3>4. ASSUME NEW j \in 1..(i - 1), r[j].task = t PROVE r[j].n < r[i].n
        <4>1. j \in 1..Len(r) /\ j + 1 \in 1..((i + 1) - 1)  BY <1>1
        <4> QED BY <1>1, <2>1, <3>1, <3>4, <4>1
      <3> QED BY <2>3, <3>2, <3>3, <3>4
    <2>4. CASE r[i].kind = "done"
      <3>1. b <= n /\ Covered(q, t, b, i + 1, n)  BY <1>3, <2>1, <2>4 DEF Follows
      <3>2. c <= n  BY <3>1, FollowsHead
      <3> QED BY <1>2, <2>1, <2>4, <3>1, <3>2
    <2> QED BY <2>3, <2>4
  <1>4. ASSUME working PROVE c <= n /\ Covered(r, t, c, Len(r) + 1, n)
    <2>1. b <= n /\ Covered(q, t, b, Len(q) + 1, n)  BY <1>4 DEF Follows
    <2>2. c <= n  BY <2>1, FollowsHead
    <2>3. Len(r) + 1 \in 1..(Len(r) + 1) /\ (Len(r) + 1) + 1 = Len(q) + 1  BY <1>1
    <2> QED BY <1>2, <2>1, <2>2, <2>3
  <1> QED BY <1>3, <1>4 DEF Follows, r

\* Writing a chunk: of another task, the next piece, or an end.
LEMMA FollowsAppend ==
    ASSUME NEW t \in Tasks, NEW q \in Seq(Chunks), NEW b \in Nat, NEW n \in Nat, NEW working \in BOOLEAN,
           Follows(q, t, b, n, working),
           NEW m \in Chunks, NEW k \in Nat, NEW still \in BOOLEAN,
           \/ m.task # t /\ k = n /\ still = working
           \/ m.task = t /\ working /\ EndFree(q, t) /\ m.kind = "delta" /\ m.n = n + 1 /\ k = n + 1 /\ still = TRUE
           \/ m.task = t /\ working /\ m.kind # "delta" /\ k = n /\ still = FALSE
    PROVE  Follows(Append(q, m), t, b, k, still)
  <1> DEFINE r == Append(q, m)
  <1>1. /\ Len(q) \in Nat /\ r \in Seq(Chunks) /\ Len(r) = Len(q) + 1 /\ r[Len(q) + 1] = m
        /\ \A i \in 1..Len(q) : r[i] = q[i] /\ q[i] \in Chunks
        OBVIOUS
  <1> HIDE DEF r
  <1>2. ASSUME NEW i \in 1..(Len(q) + 1), NEW x \in Int, Covered(q, t, b, i, x)
        PROVE  Covered(r, t, b, i, x)
        BY <1>1, <1>2 DEF Covered
  <1>3. ASSUME NEW i \in 1..Len(q), r[i].task = t
        PROVE  /\ r[i].kind = "delta" => /\ r[i].n \in (b + 1)..k /\ Covered(r, t, b, i, r[i].n - 1)
                                         /\ \A j \in 1..(i - 1) : r[j].task = t => r[j].n < r[i].n
               /\ r[i].kind = "done" => b <= k /\ Covered(r, t, b, i, k)
    <2>1. r[i] = q[i] /\ i \in 1..(Len(q) + 1) /\ q[i].n \in Nat /\ n <= k  BY <1>1 DEF Chunks
    <2>2. CASE r[i].kind = "delta"
      <3>1. /\ q[i].n \in (b + 1)..n /\ Covered(q, t, b, i, q[i].n - 1)
            /\ \A j \in 1..(i - 1) : q[j].task = t => q[j].n < q[i].n
            BY <1>3, <2>1, <2>2 DEF Follows
      <3>2. Covered(r, t, b, i, r[i].n - 1)  BY <1>2, <2>1, <3>1
      <3>3. \A j \in 1..(i - 1) : r[j].task = t => r[j].n < r[i].n  BY <1>1, <2>1, <3>1
      <3> QED BY <2>1, <2>2, <3>1, <3>2, <3>3
    <2>3. CASE r[i].kind = "done"
      <3>1. b <= n /\ Covered(q, t, b, i, n) /\ k = n
            BY <1>3, <2>1, <2>3 DEF Follows, EndFree
      <3> QED BY <1>2, <2>1, <2>3, <3>1
    <2> QED BY <2>2, <2>3
  <1>4. ASSUME m.task = t
        PROVE  LET i == Len(q) + 1 IN
               /\ r[i].kind = "delta" => /\ r[i].n \in (b + 1)..k /\ Covered(r, t, b, i, r[i].n - 1)
                                         /\ \A j \in 1..(i - 1) : r[j].task = t => r[j].n < r[i].n
               /\ r[i].kind = "done" => b <= k /\ Covered(r, t, b, i, k)
    <2>1. b <= n /\ Covered(q, t, b, Len(q) + 1, n) /\ Len(q) + 1 \in 1..(Len(q) + 1)
          BY <1>1, <1>4 DEF Follows
    <2>2. Covered(r, t, b, Len(q) + 1, n)  BY <1>2, <2>1
    <2>3. ASSUME m.kind = "delta", NEW j \in 1..Len(q), r[j].task = t PROVE r[j].n < m.n
      <3>1. q[j].kind = "delta" /\ r[j] = q[j] /\ m.n = n + 1  BY <1>1, <1>4, <2>3 DEF EndFree
      <3>2. q[j].n \in (b + 1)..n  BY <2>3, <3>1 DEF Follows
      <3> QED BY <3>1, <3>2
    <2>4. m.kind = "delta" => m.n = n + 1 /\ m.n - 1 = n /\ k = n + 1  BY <1>4
    <2>5. m.kind = "done" => k = n  BY <1>4
    <2> QED BY <1>1, <2>1, <2>2, <2>3, <2>4, <2>5
  <1>5. ASSUME still PROVE b <= k /\ Covered(r, t, b, Len(r) + 1, k)
    <2>1. working /\ b <= n /\ Covered(q, t, b, Len(q) + 1, n)  BY <1>5 DEF Follows
    <2> SUFFICES ASSUME NEW x \in (b + 1)..k PROVE \E j \in 1..Len(r) : r[j] = Chunk(t, "delta", x)
        BY <1>1, <1>5, <2>1 DEF Covered
    <2>2. CASE x \in (b + 1)..n
      <3>1. PICK j \in 1..((Len(q) + 1) - 1) : q[j] = Chunk(t, "delta", x)  BY <2>1, <2>2 DEF Covered
      <3>2. j \in 1..Len(q) /\ j \in 1..Len(r)  BY <1>1
      <3> QED BY <1>1, <3>1, <3>2
    <2>3. CASE x \notin (b + 1)..n
      <3>0. k # n  BY <2>3
      <3>1. x = n + 1 /\ m.task = t /\ m.kind = "delta" /\ m.n = x
        <4>1. m.task = t /\ m.kind = "delta" /\ m.n = n + 1 /\ k = n + 1  BY <3>0
        <4>2. x = n + 1  BY <2>3, <4>1
        <4> QED BY <4>1, <4>2
      <3>2. m = Chunk(t, "delta", x)  BY <3>1 DEF Chunk, Chunks
      <3>3. Len(q) + 1 \in 1..Len(r)  BY <1>1
      <3> QED BY <1>1, <3>2, <3>3
    <2> QED BY <2>2, <2>3
  <1>6. \A i \in 1..Len(r) : i \in 1..Len(q) \/ (i = Len(q) + 1 /\ r[i] = m)  BY <1>1
  <1> QED BY <1>3, <1>4, <1>5, <1>6 DEF Follows, r

\* A broken connection keeps the first chunks.
LEMMA FollowsPrefix ==
    ASSUME NEW t \in Tasks, NEW q \in Seq(Chunks), NEW b \in Nat, NEW n \in Nat, NEW working \in BOOLEAN,
           Follows(q, t, b, n, working),
           NEW r, Len(r) \in 0..Len(q), \A i \in 1..Len(r) : r[i] = q[i]
    PROVE  Follows(r, t, b, n, FALSE)
  <1>1. Len(q) \in Nat  OBVIOUS
  <1>2. ASSUME NEW i \in 1..Len(r), NEW x, Covered(q, t, b, i, x) PROVE Covered(r, t, b, i, x)
        BY <1>1, <1>2 DEF Covered
  <1>3. \A i \in 1..Len(r) : i \in 1..Len(q) /\ r[i] = q[i] /\ \A j \in 1..(i - 1) : r[j] = q[j]
        BY <1>1
  <1> QED BY <1>2, <1>3 DEF Follows

\* Events of a stream: nothing but pieces; ends with finish or error; ends with done.
OnlyPieces(s) == \A i \in 1..Len(s) : s[i].kind = "delta"
Closing(s) == Len(s) > 0 /\ s[Len(s)].kind \in {"finish", "error"}
Closed(s) == Len(s) > 0 /\ s[Len(s)].kind = "done"

\* StreamWellFormed of one stream, with all that precedes an event.
Shaped(s) ==
    /\ \A i \in 1..Len(s) : s[i].kind = "delta" => s[i].n = i
    /\ \A i \in 1..(Len(s) - 1) : s[i].kind # "delta" =>
          i = Len(s) - 1 /\ s[i].kind # "done" /\ s[i + 1].kind = "done"
    /\ Closed(s) => Len(s) > 1 /\ s[Len(s) - 1].kind # "delta"

\* Pieces of t that the client, or the accumulated text, has or is about to have.
InHandDelta(t) == \E d \in Devices : sess[d] = "delta" /\ smsg[d].task = t
Base(t) == IF Streaming(t) THEN Len(Stream(t)) + (IF InHandDelta(t) THEN 1 ELSE 0)
                           ELSE Len(Partial(t))

\* Somebody may still read what is sent.
Live(t) == Streaming(t) => t \in rx

\* Nothing of an answer exists before its device has read the task.
Untouched(t) ==
    /\ made[t] = 0 /\ got[t] = <<>> /\ chan[t] = <<>>
    /\ partial_results[t] = None /\ oneshot[t] = None
Unstarted(t) == t \notin sent \/ (\E d \in Devices : HasCmd(d, t)) => Untouched(t)

\* The wire continues what the client or the accumulated text has.
Continued(t) == Live(t) => \A d \in Devices : Follows(up[d], t, Base(t), made[t], work[d] = t)

\* After the last piece the device and the wire are done with t, and finish comes after
\* all pieces that were made.
Closes(t) ==
    /\ ~OnlyPieces(Stream(t)) =>
          \A d \in Devices : /\ ~HasCmd(d, t) /\ work[d] # t /\ ~OnWire(d, t)
                             /\ HoldsSender(d, t) => sess[d] \in {"done", "remove"}
    /\ \A i \in 1..Len(Stream(t)) : Stream(t)[i].kind = "finish" => made[t] = i - 1

\* What the session task has in its hands is what the stream needs next.
Fed(t) ==
    Streaming(t) /\ t \in rx =>
       /\ \A d \in Devices : HoldsSender(d, t) =>
             /\ sess[d] = "delta" => smsg[d].n = Len(Stream(t)) + 1
             /\ sess[d] \in {"usage", "finish"} => made[t] = Len(Stream(t))
             /\ sess[d] = "done" => Closing(Stream(t))
             /\ sess[d] = "remove" => Closed(Stream(t))
       /\ t \notin pending_streams => Closed(Stream(t))

\* The same for a plain completion: accumulated text, then the result.
Accumulated(t) ==
    /\ ~Streaming(t) => Partial(t) = PieceSeq(Len(Partial(t)))
    /\ oneshot[t] # None =>
          /\ \A d \in Devices : ~HasCmd(d, t) /\ work[d] # t /\ ~OnWire(d, t)
          /\ oneshot[t].ok => oneshot[t].text = PieceSeq(made[t])

\* A success has seen the finish event or the result.
Succeeded(t) ==
    /\ outcome[t] = "ok" =>
          IF Streaming(t) THEN \E i \in 1..Len(got[t]) : got[t][i].kind = "finish"
                          ELSE oneshot[t] # None /\ oneshot[t].ok
    /\ ~Sse(t) /\ pc[t] = "recv" => \A i \in 1..Len(got[t]) : got[t][i].kind \in {"delta", "finish"}

TaskInv(t) ==
    /\ Unstarted(t) /\ Shaped(Stream(t)) /\ Continued(t) /\ Closes(t) /\ Fed(t)
    /\ Accumulated(t) /\ Succeeded(t)

StreamInv == WireInv /\ \A t \in Tasks : TaskInv(t)

\* Concatenation by position.
LEMMA ConcatParts ==
    ASSUME NEW S, NEW g \in Seq(S), NEW c \in Seq(S)
    PROVE  /\ g \o c \in Seq(S) /\ Len(g) \in Nat /\ Len(c) \in Nat /\ Len(g \o c) \in Nat
           /\ Len(g \o c) = Len(g) + Len(c)
           /\ \A i \in 1..Len(g) : (g \o c)[i] = g[i]
           /\ \A i \in 1..Len(c) : (g \o c)[Len(g) + i] = c[i]
  <1>1. PICK x \in Nat, y \in Nat : x = Len(g) /\ y = Len(c)  OBVIOUS
  <1>2. /\ g \o c \in Seq(S) /\ Len(g \o c) = x + y
        /\ \A i \in 1..(x + y) : (g \o c)[i] = IF i <= x THEN g[i] ELSE c[i - x]
        BY <1>1, ConcatProperties
  <1>3. \A i \in 1..x : (g \o c)[i] = g[i]  BY <1>2
  <1>4. ASSUME NEW i \in 1..y PROVE (g \o c)[x + i] = c[i]
    <2>1. x + i \in 1..(x + y) /\ ~(x + i <= x) /\ (x + i) - x = i  OBVIOUS
    <2> QED BY <1>2, <2>1
  <1> QED BY <1>1, <1>2, <1>3, <1>4

\* Concatenation with one more element.
LEMMA ConcatAppend ==
    ASSUME NEW S, NEW g \in Seq(S), NEW c \in Seq(S), NEW e \in S
    PROVE  LET s == g \o c  r == g \o Append(c, e) IN
           /\ Len(r) = Len(s) + 1 /\ r[Len(s) + 1] = e
           /\ \A i \in 1..Len(s) : r[i] = s[i]
  <1>1. PICK x \in Nat, y \in Nat : x = Len(g) /\ y = Len(c)  OBVIOUS
  <1>2. PICK a \in Seq(S) : /\ a = Append(c, e) /\ Len(a) = y + 1 /\ a[y + 1] = e
                            /\ \A i \in 1..y : a[i] = c[i]
    <2>1. /\ Append(c, e) \in Seq(S) /\ Len(Append(c, e)) = Len(c) + 1
          /\ \A i \in 1..Len(c) : Append(c, e)[i] = c[i] /\ Append(c, e)[Len(c) + 1] = e
          BY AppendProperties
    <2>2. Append(c, e)[Len(c) + 1] = e  BY AppendProperties
    <2> QED BY <1>1, <2>1, <2>2
  <1>3. /\ Len(g \o c) = x + y /\ Len(g \o a) = x + (y + 1)
        /\ \A i \in 1..(x + y) : (g \o c)[i] = IF i <= x THEN g[i] ELSE c[i - x]
        /\ \A i \in 1..(x + (y + 1)) : (g \o a)[i] = IF i <= x THEN g[i] ELSE a[i - x]
    <2>1. /\ Len(g \o c) = Len(g) + Len(c)
          /\ \A i \in 1..(Len(g) + Len(c)) :
                (g \o c)[i] = IF i <= Len(g) THEN g[i] ELSE c[i - Len(g)]
          BY ConcatProperties
    <2>2. /\ Len(g \o a) = Len(g) + Len(a)
          /\ \A i \in 1..(Len(g) + Len(a)) :
                (g \o a)[i] = IF i <= Len(g) THEN g[i] ELSE a[i - Len(g)]
          BY ConcatProperties
    <2> QED BY <1>1, <1>2, <2>1, <2>2
  <1>4. (g \o a)[(x + y) + 1] = e
    <2>1. (x + y) + 1 \in 1..(x + (y + 1)) /\ ~((x + y) + 1 <= x) /\ ((x + y) + 1) - x = y + 1  OBVIOUS
    <2> QED BY <1>2, <1>3, <2>1
  <1>5. ASSUME NEW i \in 1..(x + y) PROVE (g \o a)[i] = (g \o c)[i]
    <2>1. i \in 1..(x + (y + 1))  OBVIOUS
    <2>2. ~(i <= x) => i - x \in 1..y  OBVIOUS
    <2>3. ~(i <= x) => a[i - x] = c[i - x]  BY <1>2, <2>2
    <2> QED BY <1>3, <2>1, <2>3
  <1> QED BY <1>2, <1>3, <1>4, <1>5

\* Moving the head of the second part to the end of the first.
LEMMA ConcatMove ==
    ASSUME NEW S, NEW g \in Seq(S), NEW c \in Seq(S), c # <<>>
    PROVE  LET h == Append(g, Head(c)) IN
           /\ h \in Seq(S) /\ h \o Tail(c) = g \o c
           /\ Len(h) = Len(g) + 1 /\ Len(h) \in 1..Len(g \o c)
           /\ \A i \in 1..Len(h) : h[i] = (g \o c)[i]
           /\ \A i \in 1..Len(g) : h[i] = g[i]
           /\ h[Len(h)] = Head(c)
  <1>1. PICK x \in Nat, y \in Nat \ {0} : x = Len(g) /\ y = Len(c)  OBVIOUS
  <1>2. PICK e \in S : e = Head(c) /\ e = c[1]  OBVIOUS
  <1>3. PICK h \in Seq(S) : /\ h = Append(g, e) /\ Len(h) = x + 1 /\ h[x + 1] = e
                            /\ \A i \in 1..x : h[i] = g[i]
    <2>1. Append(g, e) \in Seq(S) /\ Len(Append(g, e)) = Len(g) + 1  BY AppendProperties
    <2>2. Append(g, e)[Len(g) + 1] = e  BY AppendProperties
    <2>3. \A i \in 1..Len(g) : Append(g, e)[i] = g[i]  BY AppendProperties
    <2> QED BY <1>1, <2>1, <2>2, <2>3
  <1>4. PICK r \in Seq(S) : /\ r = Tail(c) /\ Len(r) = y - 1
                            /\ \A i \in 1..(y - 1) : r[i] = c[i + 1]
    <2>1. Tail(c) \in Seq(S) /\ Len(Tail(c)) = y - 1 /\ \A i \in 1..Len(Tail(c)) : Tail(c)[i] = c[i + 1]
          BY <1>1, HeadTailProperties
    <2> QED BY <2>1
  <1>5. /\ g \o c \in Seq(S) /\ Len(g \o c) = x + y
        /\ \A i \in 1..(x + y) : (g \o c)[i] = IF i <= x THEN g[i] ELSE c[i - x]
        BY <1>1, ConcatProperties
  <1>6. /\ h \o r \in Seq(S) /\ Len(h \o r) = (x + 1) + (y - 1)
        /\ \A i \in 1..((x + 1) + (y - 1)) : (h \o r)[i] = IF i <= x + 1 THEN h[i] ELSE r[i - (x + 1)]
    <2>1. /\ h \o r \in Seq(S) /\ Len(h \o r) = Len(h) + Len(r)
          /\ \A i \in 1..(Len(h) + Len(r)) :
                (h \o r)[i] = IF i <= Len(h) THEN h[i] ELSE r[i - Len(h)]
          BY ConcatProperties
    <2> QED BY <1>3, <1>4, <2>1
  <1>7. ASSUME NEW i \in 1..(x + 1) PROVE h[i] = (g \o c)[i]
    <2>1. i \in 1..(x + y) /\ (~(i <= x) => i = x + 1 /\ i - x = 1)  OBVIOUS
    <2> QED BY <1>2, <1>3, <1>5, <2>1
  <1>8. ASSUME NEW i \in 1..(x + y) PROVE (h \o r)[i] = (g \o c)[i]
    <2>1. i \in 1..((x + 1) + (y - 1))  OBVIOUS
    <2>2. CASE i <= x + 1
      <3>1. (h \o r)[i] = h[i] /\ i \in 1..(x + 1)  BY <1>6, <2>1, <2>2
      <3> QED BY <1>7, <3>1
    <2>3. CASE ~(i <= x + 1)
      <3>1. i - (x + 1) \in 1..(y - 1) /\ (i - (x + 1)) + 1 = i - x /\ ~(i <= x)  BY <2>3
      <3>2. r[i - (x + 1)] = c[(i - (x + 1)) + 1]  BY <1>4, <3>1
      <3>3. (h \o r)[i] = r[i - (x + 1)]  BY <1>6, <2>1, <2>3
      <3>4. (g \o c)[i] = c[i - x]  BY <1>5, <3>1
      <3> QED BY <3>1, <3>2, <3>3, <3>4
    <2> QED BY <2>2, <2>3
  <1>9. h \o r = g \o c
    <2>1. Len(h \o r) = x + y  BY <1>6
    <2> QED BY <1>5, <1>6, <1>8, <2>1, SeqEqual
  <1>10. Len(h) \in 1..(x + y)  BY <1>3
  <1> QED BY <1>1, <1>2, <1>3, <1>4, <1>5, <1>7, <1>9, <1>10

\* A stream by position.
LEMMA StreamParts ==
    ASSUME ReqTypeOK, MapTypeOK, NEW t \in Tasks
    PROVE  /\ Stream(t) \in Seq(Events) /\ Len(Stream(t)) \in Nat
           /\ got[t] \in Seq(Events) /\ chan[t] \in Seq(Events)
           /\ Len(got[t]) \in Nat /\ Len(chan[t]) \in Nat
           /\ Len(Stream(t)) = Len(got[t]) + Len(chan[t])
           /\ \A i \in 1..Len(got[t]) : Stream(t)[i] = got[t][i]
           /\ \A i \in 1..Len(chan[t]) : Stream(t)[Len(got[t]) + i] = chan[t][i]
  <1>1. PICK g \in Seq(Events), c \in Seq(Events) : g = got[t] /\ c = chan[t]  BY DEF ReqTypeOK, MapTypeOK
  <1>2. Stream(t) = g \o c  BY <1>1 DEF Stream
  <1>3. /\ g \o c \in Seq(Events) /\ Len(g) \in Nat /\ Len(c) \in Nat /\ Len(g \o c) \in Nat
        /\ Len(g \o c) = Len(g) + Len(c)
        /\ \A i \in 1..Len(g) : (g \o c)[i] = g[i]
        /\ \A i \in 1..Len(c) : (g \o c)[Len(g) + i] = c[i]
        BY ConcatParts
  <1> QED BY <1>1, <1>2, <1>3

\* A sender appends to the stream.
LEMMA StreamSend ==
    ASSUME ReqTypeOK, MapTypeOK, NEW t \in Tasks, NEW ev \in Events,
           got'[t] = got[t], chan'[t] = Append(chan[t], ev)
    PROVE  /\ Len(Stream(t)') = Len(Stream(t)) + 1 /\ Stream(t)'[Len(Stream(t)) + 1] = ev
           /\ \A i \in 1..Len(Stream(t)) : Stream(t)'[i] = Stream(t)[i]
  <1>1. PICK g \in Seq(Events), c \in Seq(Events) : g = got[t] /\ c = chan[t]  BY DEF ReqTypeOK, MapTypeOK
  <1>2. Stream(t) = g \o c /\ Stream(t)' = g \o Append(c, ev)  BY <1>1 DEF Stream
  <1> QED BY <1>2, ConcatAppend

\* A reader moves an event and leaves the stream as it is; or it goes, and drops what it
\* has not read.
LEMMA StreamRead ==
    ASSUME ReqTypeOK, MapTypeOK, NEW t \in Tasks, chan[t] # <<>>,
           got'[t] = Append(got[t], Head(chan[t]))
    PROVE  /\ chan'[t] = Tail(chan[t]) => Stream(t)' = Stream(t)
           /\ chan'[t] = <<>> =>
                 /\ Len(Stream(t)') \in 0..Len(Stream(t))
                 /\ \A i \in 1..Len(Stream(t)') : Stream(t)'[i] = Stream(t)[i]
           /\ Len(got'[t]) = Len(got[t]) + 1 /\ Len(got'[t]) \in 1..Len(Stream(t))
           /\ \A i \in 1..Len(got'[t]) : got'[t][i] = Stream(t)[i]
           /\ \A i \in 1..Len(got[t]) : got'[t][i] = got[t][i]
           /\ got'[t][Len(got'[t])] = Head(chan[t])
  <1>1. PICK g \in Seq(Events), c \in Seq(Events) : g = got[t] /\ c = chan[t]  BY DEF ReqTypeOK, MapTypeOK
  <1>2. PICK h : h = Append(g, Head(c))  OBVIOUS
  <1>3. PICK s : s = g \o c  OBVIOUS
  <1>4. /\ h \in Seq(Events) /\ h \o Tail(c) = s
        /\ Len(h) = Len(g) + 1 /\ Len(h) \in 1..Len(s)
        /\ \A i \in 1..Len(h) : h[i] = s[i]
        /\ \A i \in 1..Len(g) : h[i] = g[i]
        /\ h[Len(h)] = Head(c)
    <2>1. c # <<>>  BY <1>1
    <2>2. LET k == Append(g, Head(c)) IN
          /\ k \in Seq(Events) /\ k \o Tail(c) = g \o c
          /\ Len(k) = Len(g) + 1 /\ Len(k) \in 1..Len(g \o c)
          /\ \A i \in 1..Len(k) : k[i] = (g \o c)[i]
          /\ \A i \in 1..Len(g) : k[i] = g[i]
          /\ k[Len(k)] = Head(c)
          BY <2>1, ConcatMove
    <2> QED BY <1>2, <1>3, <2>2
  <1>5. Stream(t) = s /\ got'[t] = h  BY <1>1, <1>2, <1>3 DEF Stream
  <1>6. chan'[t] = Tail(c) => Stream(t)' = s  BY <1>4, <1>5 DEF Stream
  <1>7. ASSUME chan'[t] = <<>>
        PROVE  Len(Stream(t)') \in 0..Len(s) /\ \A i \in 1..Len(Stream(t)') : Stream(t)'[i] = s[i]
    <2>1. Stream(t)' = h  BY <1>4, <1>5, <1>7, ConcatEmptySeq DEF Stream
    <2> QED BY <1>4, <2>1
  <1> QED BY <1>1, <1>4, <1>5, <1>6, <1>7

\* Dropping the unread events cuts the stream.
LEMMA StreamDropped ==
    ASSUME ReqTypeOK, MapTypeOK, NEW t \in Tasks, got'[t] = got[t], chan'[t] = <<>>
    PROVE  /\ Len(Stream(t)') \in 0..Len(Stream(t)) /\ Stream(t)' = got[t]
           /\ \A i \in 1..Len(Stream(t)') : Stream(t)'[i] = Stream(t)[i]
  <1>1. PICK g \in Seq(Events), c \in Seq(Events) : g = got[t] /\ c = chan[t]  BY DEF ReqTypeOK, MapTypeOK
  <1>2. Stream(t)' = g  BY <1>1, ConcatEmptySeq DEF Stream
  <1>3. Stream(t) = g \o c  BY <1>1 DEF Stream
  <1>4. /\ Len(g) \in Nat /\ Len(c) \in Nat /\ Len(g \o c) = Len(g) + Len(c)
        /\ \A i \in 1..Len(g) : (g \o c)[i] = g[i]
        BY ConcatParts
  <1>5. Len(g) \in 0..Len(g \o c)  BY <1>4
  <1> QED BY <1>1, <1>2, <1>3, <1>4, <1>5

\* The shape of a stream that grows in order, or is cut.
LEMMA ShapedPrefix ==
    ASSUME NEW s, Len(s) \in Nat, Shaped(s), NEW r, Len(r) \in 0..Len(s), \A i \in 1..Len(r) : r[i] = s[i]
    PROVE  Shaped(r) /\ (OnlyPieces(s) => OnlyPieces(r))
  <1>1. \A i \in 1..Len(r) : i \in 1..Len(s) /\ r[i] = s[i]  OBVIOUS
  <1>2. \A i \in 1..Len(r) : r[i].kind = "delta" => r[i].n = i  BY <1>1 DEF Shaped
  <1>3. ASSUME NEW i \in 1..(Len(r) - 1), r[i].kind # "delta"
        PROVE  i = Len(r) - 1 /\ r[i].kind # "done" /\ r[i + 1].kind = "done"
    <2>1. i \in 1..(Len(s) - 1) /\ r[i] = s[i] /\ i + 1 \in 1..Len(r)  OBVIOUS
    <2>2. i = Len(s) - 1 /\ s[i].kind # "done" /\ s[i + 1].kind = "done"  BY <1>3, <2>1 DEF Shaped
    <2> QED BY <2>1, <2>2
  <1>4. ASSUME Closed(r) PROVE Len(r) > 1 /\ r[Len(r) - 1].kind # "delta"
    <2>1. Len(r) \in 1..Len(s) /\ s[Len(r)].kind = "done"  BY <1>1, <1>4 DEF Closed
    <2>2. Len(r) = Len(s)
      <3>1. Len(r) \in 1..(Len(s) - 1) => s[Len(r)].kind # "done"  BY <2>1 DEF Shaped
      <3> QED BY <2>1, <3>1
    <2>3. Closed(s)  BY <2>1, <2>2 DEF Closed
    <2>4. Len(s) > 1 /\ s[Len(s) - 1].kind # "delta"  BY <2>3 DEF Shaped
    <2> QED BY <1>1, <2>2, <2>4
  <1> QED BY <1>1, <1>2, <1>3, <1>4 DEF Shaped, OnlyPieces

\* Appending the event that comes next keeps the shape.
LEMMA ShapedAppend ==
    ASSUME NEW s, Len(s) \in Nat, Shaped(s), NEW ev \in Events,
           NEW r, Len(r) = Len(s) + 1, r[Len(s) + 1] = ev, \A i \in 1..Len(s) : r[i] = s[i],
           \/ OnlyPieces(s) /\ ev.kind = "delta" /\ ev.n = Len(s) + 1
           \/ OnlyPieces(s) /\ ev.kind \in {"finish", "error"}
           \/ Closing(s) /\ ev.kind = "done"
    PROVE  Shaped(r)
  <1>1. \A i \in 1..Len(r) : i \in 1..Len(s) \/ i = Len(s) + 1  OBVIOUS
  <1>2. \A i \in 1..Len(r) : r[i].kind = "delta" => r[i].n = i
        BY <1>1 DEF Shaped
  <1>3. ASSUME NEW i \in 1..(Len(r) - 1), r[i].kind # "delta"
        PROVE  i = Len(r) - 1 /\ r[i].kind # "done" /\ r[i + 1].kind = "done"
    <2>1. i \in 1..Len(s) /\ r[i] = s[i]  OBVIOUS
    <2>2. Closing(s) /\ ev.kind = "done"  BY <1>3, <2>1 DEF OnlyPieces
    <2>3. i = Len(s)
      <3>1. s[Len(s)].kind # "done"  BY <2>2 DEF Closing
      <3>2. i \in 1..(Len(s) - 1) => i = Len(s) - 1 /\ s[i + 1].kind = "done"  BY <1>3, <2>1 DEF Shaped
      <3>3. i = Len(s) - 1 => i + 1 = Len(s)  OBVIOUS
      <3> QED BY <2>1, <3>1, <3>2, <3>3
    <2> QED BY <2>1, <2>2, <2>3 DEF Closing
  <1>4. ASSUME Closed(r) PROVE Len(r) > 1 /\ r[Len(r) - 1].kind # "delta"
    <2>1. Closing(s)  BY <1>4 DEF Closed
    <2>2. Len(s) > 0 /\ s[Len(s)].kind # "delta" /\ Len(r) - 1 = Len(s) /\ Len(s) \in 1..Len(s)
          BY <2>1 DEF Closing
    <2> QED BY <2>2
  <1> QED BY <1>2, <1>3, <1>4 DEF Shaped

\* The device, or the wire, has something of t.
Busy(d, t) == HasCmd(d, t) \/ work[d] = t \/ OnWire(d, t)

\* Steps that leave a stream as it is.
LEMMA KeptStream ==
    ASSUME StreamInv, NEW t \in Tasks, Stream(t)' = Stream(t),
           t \in rx' => t \in rx,
           made'[t] = made[t] \/ \E d \in Devices : work[d] = t,
           \A d \in Devices : Busy(d, t)' => Busy(d, t) \/ Untouched(t),
           \A d \in Devices : HoldsSender(d, t)' =>
              /\ HoldsSender(d, t) /\ smsg'[d] = smsg[d]
              /\ \/ sess'[d] = sess[d]
                 \/ sess[d] = "usage" /\ sess'[d] = "finish"
                 \/ t \notin rx /\ sess'[d] \in {"done", "remove"},
           t \in rx' /\ t \notin pending_streams' => t \notin pending_streams \/ Closed(Stream(t))
    PROVE  Shaped(Stream(t))' /\ Closes(t)' /\ Fed(t)'
  <1>1. /\ Shaped(Stream(t)) /\ Closes(t) /\ Fed(t) /\ InHand /\ Located
        /\ ReqTypeOK /\ MapTypeOK /\ SessionHasChunk /\ SessTypeOK
        BY DEF StreamInv, TaskInv, WireInv, PathInv, IInv, TypeOK
  <1>2. Shaped(Stream(t))'  BY <1>1 DEF Shaped, Closed
  <1>3. Untouched(t) => OnlyPieces(Stream(t)) /\ Len(Stream(t)) = 0
    <2>1. Untouched(t) => Stream(t) = <<>>  BY DEF Untouched, Stream
    <2> QED BY <2>1 DEF OnlyPieces
  <1>4. (\E d \in Devices : work[d] = t) => OnlyPieces(Stream(t))  BY <1>1 DEF Closes
  <1>5. ASSUME ~OnlyPieces(Stream(t)), NEW d \in Devices
        PROVE  /\ ~HasCmd(d, t)' /\ work'[d] # t /\ ~OnWire(d, t)'
               /\ HoldsSender(d, t)' => sess'[d] \in {"done", "remove"}
    <2>1. ~Busy(d, t) /\ (HoldsSender(d, t) => sess[d] \in {"done", "remove"})
          BY <1>1, <1>5 DEF Closes, Busy
    <2>2. ~Busy(d, t)'  BY <1>3, <1>5, <2>1
    <2> QED BY <2>1, <2>2 DEF Busy
  <1>6. ASSUME NEW i \in 1..Len(Stream(t)), Stream(t)[i].kind = "finish" PROVE made'[t] = i - 1
    <2>1. ~OnlyPieces(Stream(t))  BY <1>6 DEF OnlyPieces
    <2>2. made'[t] = made[t]  BY <1>4, <2>1
    <2> QED BY <1>1, <1>6, <2>2 DEF Closes
  <1>7. Closes(t)'
    <2>1. OnlyPieces(Stream(t))' <=> OnlyPieces(Stream(t))  BY DEF OnlyPieces
    <2> QED BY <1>5, <1>6, <2>1 DEF Closes
  <1>8. Fed(t)'
    <2> SUFFICES ASSUME Streaming(t), t \in rx'
                 PROVE  /\ \A d \in Devices : HoldsSender(d, t)' =>
                             /\ sess'[d] = "delta" => smsg'[d].n = Len(Stream(t)) + 1
                             /\ sess'[d] \in {"usage", "finish"} => made'[t] = Len(Stream(t))
                             /\ sess'[d] = "done" => Closing(Stream(t))
                             /\ sess'[d] = "remove" => Closed(Stream(t))
                        /\ t \notin pending_streams' => Closed(Stream(t))
        BY DEF Fed, Streaming, Closing, Closed
    <2>1. t \notin pending_streams' => Closed(Stream(t))  BY <1>1 DEF Fed
    <2>2. ASSUME NEW d \in Devices, HoldsSender(d, t)'
          PROVE  /\ sess'[d] = "delta" => smsg'[d].n = Len(Stream(t)) + 1
                 /\ sess'[d] \in {"usage", "finish"} => made'[t] = Len(Stream(t))
                 /\ sess'[d] = "done" => Closing(Stream(t))
                 /\ sess'[d] = "remove" => Closed(Stream(t))
      <3>1. HoldsSender(d, t) /\ smsg'[d] = smsg[d]
            /\ (sess'[d] = sess[d] \/ (sess[d] = "usage" /\ sess'[d] = "finish"))
            BY <2>2
      <3>2. sess[d] \in {"usage", "finish"} => made'[t] = made[t]
        <4>1. ASSUME sess[d] \in {"usage", "finish"} PROVE ~\E e \in Devices : work[e] = t
          <5>1. work[d] # t  BY <1>1, <3>1, <4>1 DEF InHand, HoldsSender
          <5> QED BY <1>1, <3>1, <5>1 DEF Located
        <4> QED BY <4>1
      <3> QED BY <1>1, <3>1, <3>2 DEF Fed
    <2> QED BY <2>1, <2>2
  <1> QED BY <1>2, <1>7, <1>8

\* Steps that leave the accumulated text and the result as they are.
LEMMA KeptText ==
    ASSUME StreamInv, NEW t \in Tasks,
           ~Streaming(t) => partial_results'[t] = partial_results[t], oneshot'[t] = oneshot[t],
           made'[t] = made[t] \/ \E d \in Devices : work[d] = t,
           \A d \in Devices : Busy(d, t)' => Busy(d, t) \/ Untouched(t)
    PROVE  Accumulated(t)'
  <1>1. Accumulated(t)  BY DEF StreamInv, TaskInv
  <1>2. ~Streaming(t) => (Partial(t) = PieceSeq(Len(Partial(t))))'
        BY <1>1 DEF Accumulated, Partial, PieceSeq
  <1>3. ASSUME oneshot[t] # None
        PROVE  /\ \A d \in Devices : ~HasCmd(d, t)' /\ work'[d] # t /\ ~OnWire(d, t)'
               /\ oneshot[t].ok => oneshot[t].text = PieceSeq(made'[t])
    <2>1. \A d \in Devices : ~Busy(d, t)  BY <1>1, <1>3 DEF Accumulated, Busy
    <2>2. \A d \in Devices : ~Busy(d, t)'  BY <1>3, <2>1 DEF Untouched
    <2>3. made'[t] = made[t]  BY <2>1 DEF Busy
    <2> QED BY <1>1, <1>3, <2>2, <2>3 DEF Accumulated, Busy
  <1> QED BY <1>2, <1>3 DEF Accumulated, Streaming, PieceSeq

\* A task of which a step touches neither the stream nor the text.
LEMMA Aside ==
    ASSUME StreamInv, NEW t \in Tasks,
           got'[t] = got[t], chan'[t] = chan[t], t \in rx' <=> t \in rx, made'[t] = made[t],
           partial_results'[t] = partial_results[t], oneshot'[t] = oneshot[t],
           outcome'[t] = outcome[t],
           t \in sent => t \in sent',
           \A d \in Devices : HasCmd(d, t)' => HasCmd(d, t) \/ Untouched(t),
           \A d \in Devices : Busy(d, t)' => Busy(d, t) \/ Untouched(t),
           \A d \in Devices : HoldsSender(d, t)' =>
              /\ HoldsSender(d, t) /\ smsg'[d] = smsg[d]
              /\ \/ sess'[d] = sess[d]
                 \/ sess[d] = "usage" /\ sess'[d] = "finish"
                 \/ t \notin rx /\ sess'[d] \in {"done", "remove"},
           Live(t) => (InHandDelta(t)' <=> InHandDelta(t)),
           t \in rx' /\ t \notin pending_streams' => t \notin pending_streams \/ Closed(Stream(t)),
           ~Sse(t) /\ pc'[t] = "recv" => pc[t] = "recv" \/ Untouched(t),
           Live(t) => \A d \in Devices : Follows(up'[d], t, Base(t), made[t], work'[d] = t)
    PROVE  TaskInv(t)'
  <1>1. Stream(t)' = Stream(t)  BY DEF Stream
  <1>2. Shaped(Stream(t))' /\ Closes(t)' /\ Fed(t)'  BY <1>1, KeptStream
  <1>3. Accumulated(t)'  BY KeptText
  <1>4. Unstarted(t)'  BY DEF StreamInv, TaskInv, Unstarted, Untouched
  <1>5. Continued(t)'
    <2>1. Live(t) => Base(t)' = Base(t)  BY <1>1 DEF Base, Partial, Streaming
    <2>2. Live(t)' <=> Live(t)  BY DEF Live, Streaming
    <2> QED BY <2>1, <2>2 DEF Continued
  <1>6. Succeeded(t)'
    <2>1. Succeeded(t)  BY DEF StreamInv, TaskInv
    <2>2. Untouched(t) => \A i \in 1..Len(got[t]) : FALSE  BY DEF Untouched
    <2> QED BY <2>1, <2>2 DEF Succeeded, Streaming, Sse
  <1> QED BY <1>2, <1>3, <1>4, <1>5, <1>6 DEF TaskInv

\* A request that is over, or has given up its receiver.
LEMMA Cut ==
    ASSUME StreamInv, NEW t \in Tasks,
           t \notin rx', chan'[t] = <<>>,
           \/ got'[t] = got[t]
           \/ chan[t] # <<>> /\ got'[t] = Append(got[t], Head(chan[t])),
           UNCHANGED <<made, partial_results, oneshot, sent, inbox, work, up, sess, smsg>>,
           pc'[t] # "recv",
           outcome'[t] = "ok" => (IF Streaming(t) THEN \E i \in 1..Len(got[t]) : got[t][i].kind = "finish"
                                                  ELSE oneshot[t] # None /\ oneshot[t].ok)'
    PROVE  TaskInv(t)'
  <1>0. /\ TaskInv(t) /\ ReqTypeOK /\ MapTypeOK
        BY DEF StreamInv, WireInv, PathInv, IInv, TypeOK
  <1>1. /\ Len(Stream(t)') \in 0..Len(Stream(t)) /\ Len(Stream(t)) \in Nat
        /\ \A i \in 1..Len(Stream(t)') : Stream(t)'[i] = Stream(t)[i]
    <2>1. Len(Stream(t)) \in Nat  BY <1>0, StreamParts
    <2>2. CASE got'[t] = got[t]  BY <1>0, <2>1, <2>2, StreamDropped
    <2>3. CASE chan[t] # <<>> /\ got'[t] = Append(got[t], Head(chan[t]))
          BY <1>0, <2>1, <2>3, StreamRead
    <2> QED BY <2>2, <2>3
  <1>2. Shaped(Stream(t)') /\ (OnlyPieces(Stream(t)) => OnlyPieces(Stream(t)'))
    <2>1. PICK s : s = Stream(t)  OBVIOUS
    <2>2. PICK r : r = Stream(t)'  OBVIOUS
    <2>3. Len(s) \in Nat /\ Shaped(s) /\ Len(r) \in 0..Len(s) /\ \A i \in 1..Len(r) : r[i] = s[i]
          BY <1>0, <1>1, <2>1, <2>2 DEF TaskInv
    <2>4. Shaped(r) /\ (OnlyPieces(s) => OnlyPieces(r))  BY <2>3, ShapedPrefix
    <2> QED BY <2>1, <2>2, <2>4
  <1>3. \A d \in Devices : /\ HasCmd(d, t)' <=> HasCmd(d, t)
                           /\ OnWire(d, t)' <=> OnWire(d, t)
                           /\ HoldsSender(d, t)' <=> HoldsSender(d, t)
        BY DEF HasCmd, OnWire, HoldsSender
  <1>4. Shaped(Stream(t))'  BY <1>2 DEF Shaped, Closed
  <1>5. Closes(t)'
    <2>1. OnlyPieces(Stream(t))' <=> OnlyPieces(Stream(t)')  BY DEF OnlyPieces
    <2>2. Closes(t)  BY <1>0 DEF TaskInv
    <2>3. \A i \in 1..Len(Stream(t)') : Stream(t)'[i].kind = "finish" => made[t] = i - 1
          BY <1>1, <2>2 DEF Closes
    <2>4. ~OnlyPieces(Stream(t))' =>
             \A d \in Devices : /\ ~HasCmd(d, t)' /\ work'[d] # t /\ ~OnWire(d, t)'
                                /\ HoldsSender(d, t)' => sess'[d] \in {"done", "remove"}
          BY <1>2, <1>3, <2>1, <2>2 DEF Closes
    <2> QED BY <2>3, <2>4 DEF Closes
  <1>6. Fed(t)'  BY DEF Fed
  <1>7. Accumulated(t)'
    <2>1. Accumulated(t)  BY <1>0 DEF TaskInv
    <2> QED BY <1>3, <2>1 DEF Accumulated, Streaming, Partial, PieceSeq
  <1>8. Unstarted(t)'
    <2>1. Unstarted(t)  BY <1>0 DEF TaskInv
    <2>2. Untouched(t) => Untouched(t)'  BY DEF Untouched
    <2> QED BY <1>3, <2>1, <2>2 DEF Unstarted
  <1>9. Continued(t)'
    <2>1. CASE Streaming(t)  BY <2>1 DEF Continued, Live, Streaming
    <2>2. CASE ~Streaming(t)
      <3>1. Base(t)' = Base(t) /\ Live(t)  BY <2>2 DEF Base, Partial, Streaming, Live
      <3> QED BY <1>0, <3>1 DEF TaskInv, Continued
    <2> QED BY <2>1, <2>2
  <1>10. Succeeded(t)'  BY DEF Succeeded
  <1> QED BY <1>4, <1>5, <1>6, <1>7, <1>8, <1>9, <1>10 DEF TaskInv

\* A request that has just come in.
LEMMA Fresh ==
    ASSUME StreamInv, NEW t \in Tasks, Untouched(t), Untouched(t)', outcome'[t] = outcome[t],
           \A d \in Devices : ~OnWire(d, t)' /\ ~HoldsSender(d, t)' /\ work'[d] # t,
           ReqTypeOK', MapTypeOK', DevTypeOK',
           Streaming(t) => t \in pending_streams'
    PROVE  TaskInv(t)'
  <1>1. Stream(t)' = <<>> /\ Len(Stream(t)') = 0
    <2>1. Stream(t)' = <<>>  BY DEF Untouched, Stream
    <2> QED BY <2>1
  <1>2. Shaped(Stream(t))' /\ OnlyPieces(Stream(t))'  BY <1>1 DEF Shaped, Closed, OnlyPieces
  <1>3. Closes(t)'  BY <1>1, <1>2 DEF Closes
  <1>4. Fed(t)'  BY DEF Fed, Streaming
  <1>5. Accumulated(t)'
    <2>1. Partial(t)' = <<>>  BY DEF Untouched, Partial
    <2>2. Partial(t)' = PieceSeq(Len(Partial(t)'))  BY <2>1 DEF PieceSeq
    <2> QED BY <2>2 DEF Accumulated, Untouched, PieceSeq
  <1>6. Unstarted(t)'  BY DEF Unstarted
  <1>7. Continued(t)'
    <2>1. Partial(t)' = <<>> /\ Len(Partial(t)') = 0  BY DEF Untouched, Partial
    <2>2. ~InHandDelta(t)'  BY DEF InHandDelta, HoldsSender
    <2>3. Base(t)' = 0  BY <1>1, <2>1, <2>2 DEF Base
    <2>4. made'[t] = 0  BY DEF Untouched
    <2>5. ASSUME NEW d \in Devices PROVE Follows(up'[d], t, 0, 0, work'[d] = t)
      <3>1. up'[d] \in Seq(Chunks)  BY DEF DevTypeOK
      <3>2. ChunkFree(up'[d], t)  BY DEF ChunkFree, OnWire
      <3>3. PICK q \in Seq(Chunks) : q = up'[d]  BY <3>1
      <3>4. Follows(q, t, 0, 0, FALSE)  BY <3>2, <3>3, FollowsNothing
      <3> QED BY <3>3, <3>4
    <2> QED BY <2>3, <2>4, <2>5 DEF Continued
  <1>8. Succeeded(t)'
    <2>1. Succeeded(t)  BY DEF StreamInv, TaskInv
    <2>2. outcome[t] # "ok"  BY <2>1 DEF Succeeded, Untouched
    <2>3. \A i \in 1..Len(got'[t]) : FALSE  BY DEF Untouched
    <2> QED BY <2>2, <2>3 DEF Succeeded
  <1> QED BY <1>2, <1>3, <1>4, <1>5, <1>6, <1>7, <1>8 DEF TaskInv

\* A step of the server that leaves the wire, the session tasks and the texts alone.
LEMMA AsideStill ==
    ASSUME StreamInv, NEW t \in Tasks,
           got'[t] = got[t], chan'[t] = chan[t], t \in rx' <=> t \in rx, outcome'[t] = outcome[t],
           UNCHANGED <<partial_results, oneshot, made, up, work, sess, smsg>>,
           t \in sent => t \in sent',
           \A d \in Devices : HasCmd(d, t)' => HasCmd(d, t) \/ Untouched(t),
           t \in rx' /\ t \notin pending_streams' => t \notin pending_streams,
           ~Sse(t) /\ pc'[t] = "recv" => pc[t] = "recv" \/ Untouched(t)
    PROVE  TaskInv(t)'
  <1>1. \A d \in Devices : OnWire(d, t)' <=> OnWire(d, t)  BY DEF OnWire
  <1>2. \A d \in Devices : Busy(d, t)' => Busy(d, t) \/ Untouched(t)  BY <1>1 DEF Busy
  <1>3. \A d \in Devices : HoldsSender(d, t)' =>
           HoldsSender(d, t) /\ smsg'[d] = smsg[d] /\ sess'[d] = sess[d]
        BY DEF HoldsSender
  <1>4. InHandDelta(t)' <=> InHandDelta(t)  BY DEF InHandDelta
  <1>5. Live(t) => \A d \in Devices : Follows(up'[d], t, Base(t), made[t], work'[d] = t)
        BY DEF StreamInv, TaskInv, Continued
  <1>6. /\ got'[t] = got[t] /\ chan'[t] = chan[t] /\ made'[t] = made[t]
        /\ partial_results'[t] = partial_results[t] /\ oneshot'[t] = oneshot[t]
        /\ outcome'[t] = outcome[t]
        OBVIOUS
  <1> QED BY <1>2, <1>3, <1>4, <1>5, <1>6, Aside

\* What the steps of a request write.
LEMMA RequestEffect ==
    ASSUME StreamInv, NEW t \in Tasks, RequestStep(t) \/ CancelStep(t) \/ ClientGone(t)
    PROVE  /\ UNCHANGED <<partial_results, oneshot, made, up, work, sess, smsg>>
           /\ sent \subseteq sent'
           /\ \A d \in Devices, u \in Tasks : HasCmd(d, u)' => HasCmd(d, u) \/ (u = t /\ t \notin sent)
           /\ \A u \in Tasks : u # t =>
                 /\ got'[u] = got[u] /\ chan'[u] = chan[u] /\ (u \in rx' <=> u \in rx)
                 /\ outcome'[u] = outcome[u] /\ pc'[u] = pc[u]
                 /\ u \notin pending_streams' => u \notin pending_streams
  <1>0. /\ ReqTypeOK /\ MapTypeOK /\ DevTypeOK /\ Assigned
        BY DEF StreamInv, WireInv, PathInv, IInv, TypeOK
  <1>1. UNCHANGED <<partial_results, oneshot, made, up, work, sess, smsg>>
    <2>1. ASSUME SendTask(t) \/ SendTaskFails(t) \/ CancelWrite(t)
          PROVE  UNCHANGED <<partial_results, oneshot, made, up, work, sess, smsg>>
          BY <2>1 DEF SendTask, SendTaskFails, CancelWrite, mapVars, sessVars
    <2>2. ASSUME \/ RequestStep(t) /\ ~SendTask(t) /\ ~SendTaskFails(t)
                 \/ CancelRemove(t) \/ ClientGone(t)
          PROVE  UNCHANGED <<made, up, work, sess, smsg>>
          BY <2>2, OffPath DEF devVars, sessVars
    <2>3. ASSUME \/ RequestStep(t) /\ ~SendTask(t) /\ ~SendTaskFails(t)
                 \/ CancelRemove(t) \/ ClientGone(t)
          PROVE  UNCHANGED <<partial_results, oneshot>>
          BY <2>3 DEF RequestStep, Submit, SelectForModel, Select, SelectNone, Cleanup, CheckPending,
             ReceiveResult, Timeout, Expire, ReceiveEvent, ChannelClosed, CancelRemove, ClientGone,
             mapVars
    <2> QED BY <2>1, <2>2, <2>3 DEF CancelStep
  <1>2. sent \subseteq sent'
    <2>1. ASSUME SendTask(t) \/ SendTaskFails(t) \/ CancelWrite(t) PROVE sent \subseteq sent'
          BY <2>1 DEF SendTask, SendTaskFails, CancelWrite, histVars
    <2> QED BY <2>1, OffPath DEF CancelStep, histVars
  <1>3. ASSUME NEW d \in Devices, NEW u \in Tasks, HasCmd(d, u)', ~HasCmd(d, u)
        PROVE  u = t /\ t \notin sent
    <2>1. inbox' # inbox  BY <1>3 DEF HasCmd
    <2>2. SendTask(t) \/ SendTaskFails(t) \/ CancelWrite(t)
          BY <2>1, OffPath DEF CancelStep, devVars
    <2>3. PICK c \in {Cmd("task", t), Cmd("cancel", t)} :
             /\ inbox' = [inbox EXCEPT ![dev[t]] = Append(@, c)]
             /\ c = Cmd("task", t) => pc[t] = "send"
      <3>1. Cmd("cancel", t) # Cmd("task", t)  BY DEF Cmd
      <3>2. SendTask(t) \/ SendTaskFails(t) =>
               pc[t] = "send" /\ inbox' = [inbox EXCEPT ![dev[t]] = Append(@, Cmd("task", t))]
            BY <2>1 DEF SendTask, SendTaskFails, Deliver
      <3>3. CancelWrite(t) => inbox' = [inbox EXCEPT ![dev[t]] = Append(@, Cmd("cancel", t))]
            BY <2>1 DEF CancelWrite
      <3> QED BY <2>2, <3>1, <3>2, <3>3
    <2>4. dev[t] \in Devices
      <3>1. inbox \in [Devices -> Seq(Cmds)]  BY <1>0 DEF DevTypeOK
      <3>2. dev[t] \notin Devices => [inbox EXCEPT ![dev[t]] = Append(@, c)] = inbox  BY <3>1
      <3> QED BY <2>1, <2>3, <3>2
    <2>5. c \in Cmds  BY DEF Cmd, Cmds
    <2>6. \A e \in Devices, v \in Tasks :
             HasCmd(e, v)' <=> HasCmd(e, v) \/ (e = dev[t] /\ c = Cmd("task", v))
          BY <1>0, <2>3, <2>4, <2>5, InboxAppend, Zenon
    <2>7. c = Cmd("task", u)  BY <1>3, <2>6
    <2>8. u = t /\ c = Cmd("task", t)  BY <2>7 DEF Cmd
    <2> QED BY <1>0, <2>3, <2>8 DEF Assigned
  <1>4. ASSUME NEW u \in Tasks, u # t
        PROVE  /\ got'[u] = got[u] /\ chan'[u] = chan[u] /\ (u \in rx' <=> u \in rx)
               /\ outcome'[u] = outcome[u] /\ pc'[u] = pc[u]
               /\ u \notin pending_streams' => u \notin pending_streams
    <2> USE DEF End, reqVars, mapVars
    <2>1. /\ pc \in [Tasks -> PCs] /\ outcome \in [Tasks -> Outcomes]
          /\ got \in [Tasks -> Seq(Events)] /\ chan \in [Tasks -> Seq(Events)]
          BY <1>0 DEF ReqTypeOK, MapTypeOK
    <2>2. CASE Submit(t)  BY <1>4, <2>1, <2>2 DEF Submit
    <2>3. CASE SelectForModel(t)  BY <1>4, <2>1, <2>3 DEF SelectForModel
    <2>4. CASE Select(t)  BY <1>4, <2>1, <2>4 DEF Select
    <2>5. CASE SelectNone(t)  BY <1>4, <2>1, <2>5 DEF SelectNone
    <2>6. CASE SendTask(t)  BY <1>4, <2>1, <2>6 DEF SendTask
    <2>7. CASE SendTaskFails(t)  BY <1>4, <2>1, <2>7 DEF SendTaskFails
    <2>8. CASE Cleanup(t)  BY <1>4, <2>1, <2>8 DEF Cleanup
    <2>9. CASE CheckPending(t)  BY <1>4, <2>1, <2>9 DEF CheckPending
    <2>10. CASE ReceiveResult(t)  BY <1>4, <2>1, <2>10 DEF ReceiveResult
    <2>11. CASE Timeout(t)  BY <1>4, <2>1, <2>11 DEF Timeout
    <2>12. CASE Expire(t)  BY <1>4, <2>1, <2>12 DEF Expire
    <2>13. CASE ReceiveEvent(t)
      <3>1. /\ got' = [got EXCEPT ![t] = Append(@, Head(chan[t]))] /\ UNCHANGED pending_streams
            /\ \/ /\ pc' = [pc EXCEPT ![t] = "end"] /\ rx' = rx \ {t}
                  /\ chan' = [chan EXCEPT ![t] = <<>>] /\ \E how : outcome' = [outcome EXCEPT ![t] = how]
               \/ UNCHANGED <<pc, rx, outcome>> /\ chan' = [chan EXCEPT ![t] = Tail(@)]
            BY <2>13 DEF ReceiveEvent
      <3> QED BY <1>4, <2>1, <3>1
    <2>14. CASE ChannelClosed(t)  BY <1>4, <2>1, <2>14 DEF ChannelClosed
    <2>15. CASE ClientGone(t)  BY <1>4, <2>1, <2>15 DEF ClientGone
    <2>16. CASE CancelRemove(t)  BY <1>4, <2>1, <2>16 DEF CancelRemove
    <2>17. CASE CancelWrite(t)  BY <1>4, <2>1, <2>17 DEF CancelWrite
    <2> QED BY <2>2, <2>3, <2>4, <2>5, <2>6, <2>7, <2>8, <2>9, <2>10, <2>11, <2>12, <2>13, <2>14,
               <2>15, <2>16, <2>17 DEF RequestStep, CancelStep
  <1> QED BY <1>1, <1>2, <1>3, <1>4

\* The steps of a request, for the request itself: before the task is sent there is nothing
\* of an answer; after that events are read in order until the receiver is dropped.
LEMMA OwnRequestStep ==
    ASSUME StreamInv, WireInv', NEW t \in Tasks, RequestStep(t) \/ CancelStep(t) \/ ClientGone(t)
    PROVE  TaskInv(t)'
  <1>0. /\ ReqTypeOK /\ MapTypeOK /\ DevTypeOK /\ Assigned /\ Kinded /\ ReceiverAlive /\ Located
        /\ TaskInv(t)
        BY DEF StreamInv, WireInv, PathInv, IInv, TypeOK
  <1>1. /\ UNCHANGED <<partial_results, oneshot, made, up, work, sess, smsg>>
        /\ t \in sent => t \in sent'
        /\ \A d \in Devices : HasCmd(d, t)' => HasCmd(d, t) \/ Untouched(t)
    <2>1. t \notin sent => Untouched(t)  BY <1>0 DEF TaskInv, Unstarted
    <2> QED BY <2>1, RequestEffect
  <1>2. /\ pc \in [Tasks -> PCs] /\ outcome \in [Tasks -> Outcomes]
        /\ got \in [Tasks -> Seq(Events)] /\ chan \in [Tasks -> Seq(Events)]
        BY <1>0 DEF ReqTypeOK, MapTypeOK
  <1>3. CASE Submit(t)
    <2>1. t \notin sent  BY <1>0, <1>3 DEF Submit, Assigned
    <2>2. Untouched(t)  BY <1>0, <2>1 DEF TaskInv, Unstarted
    <2>3. Untouched(t)' /\ outcome'[t] = outcome[t]  BY <1>1, <1>3, <2>2 DEF Submit, Untouched
    <2>4. \A d \in Devices : ~OnWire(d, t)' /\ ~HoldsSender(d, t)' /\ work'[d] # t
      <3>1. \A d \in Devices : ~OnWire(d, t) /\ ~HoldsSender(d, t) /\ work[d] # t
            BY <1>0, <2>1 DEF Located
      <3> QED BY <1>1, <3>1 DEF OnWire, HoldsSender
    <2>5. Streaming(t) => t \in pending_streams'  BY <1>3 DEF Submit
    <2>6. ReqTypeOK' /\ MapTypeOK' /\ DevTypeOK'  BY DEF WireInv, PathInv, IInv, TypeOK
    <2> QED BY <2>2, <2>3, <2>4, <2>5, <2>6, Fresh
  <1>4. CASE SelectForModel(t) \/ Select(t) \/ SendTask(t) \/ SendTaskFails(t)
    <2>1. /\ UNCHANGED <<outcome, got, rx, chan, pending_streams>>
          /\ pc[t] \in {"select_model", "select", "send"}
          BY <1>4 DEF SelectForModel, Select, SendTask, SendTaskFails, mapVars
    <2>2. Untouched(t)  BY <1>0, <2>1 DEF Assigned, TaskInv, Unstarted
    <2> QED BY <1>1, <2>1, <2>2, AsideStill
  <1>5. CASE CancelRemove(t) \/ CancelWrite(t)
    <2>1. t \notin rx  BY <1>0, <1>5 DEF CancelRemove, CancelWrite, Kinded
    <2>2. UNCHANGED <<outcome, got, rx, chan, pc>>
          BY <1>5 DEF CancelRemove, CancelWrite, reqVars, mapVars
    <2> QED BY <1>1, <2>1, <2>2, AsideStill
  <1>6. CASE CheckPending(t) /\ t \in pending_tasks
    <2>1. UNCHANGED <<outcome, got, rx, chan, pending_streams>> /\ pc'[t] = "wait"
          BY <1>2, <1>6 DEF CheckPending
    <2> QED BY <1>1, <2>1, AsideStill
  <1>7. CASE \/ SelectNone(t) \/ Cleanup(t) \/ (CheckPending(t) /\ t \notin pending_tasks)
             \/ ReceiveResult(t) \/ Timeout(t) \/ Expire(t) \/ ClientGone(t) \/ ChannelClosed(t)
    <2>1. UNCHANGED <<made, partial_results, oneshot, sent, inbox, work, up, sess, smsg>>
      <3>1. UNCHANGED <<sent, inbox>>
            BY <1>7 DEF SelectNone, Cleanup, CheckPending, ReceiveResult, Timeout, Expire, ClientGone,
               ChannelClosed, devVars, histVars
      <3> QED BY <1>1, <3>1
    <2>2. got'[t] = got[t]
          BY <1>7 DEF SelectNone, Cleanup, CheckPending, ReceiveResult, Timeout, Expire, ClientGone,
             ChannelClosed
    <2>3. t \notin rx' /\ pc'[t] # "recv"
          BY <1>2, <1>7 DEF SelectNone, Cleanup, CheckPending, ReceiveResult, Timeout, Expire,
             ClientGone, ChannelClosed, End
    <2>4. chan'[t] = <<>>
      <3>1. CASE Timeout(t)  BY <1>0, <3>1 DEF Timeout, Kinded, mapVars
      <3>2. CASE ~Timeout(t)
            BY <1>2, <1>7, <3>2 DEF SelectNone, Cleanup, CheckPending, ReceiveResult, Expire,
               ClientGone, ChannelClosed, End
      <3> QED BY <3>1, <3>2
    <2>5. ASSUME outcome'[t] = "ok"
          PROVE  IF Streaming(t) THEN \E i \in 1..Len(got[t]) : got[t][i].kind = "finish"
                                 ELSE oneshot[t] # None /\ oneshot[t].ok
      <3>1. ReceiveResult(t) \/ Timeout(t) \/ ChannelClosed(t)
            BY <1>2, <1>7, <2>5 DEF SelectNone, Cleanup, CheckPending, Expire, ClientGone, End
      <3>2. CASE ReceiveResult(t)
        <4>1. pc[t] = "wait" /\ oneshot[t] # None
              /\ outcome'[t] = IF oneshot[t].ok THEN "ok" ELSE "failed"
              BY <1>2, <3>2 DEF ReceiveResult, End
        <4> QED BY <1>0, <2>5, <4>1 DEF Kinded
      <3>3. CASE Timeout(t)
        <4>1. pc[t] = "wait" /\ outcome'[t] = outcome[t]  BY <3>3 DEF Timeout
        <4> QED BY <1>0, <2>5, <4>1 DEF Kinded, TaskInv, Succeeded
      <3>4. CASE ChannelClosed(t)
        <4>1. /\ pc[t] = "recv" /\ chan[t] = <<>> /\ t \notin pending_streams
              /\ ~\E i \in 1..Len(got[t]) : got[t][i].kind = "error"
          <5>1. /\ pc[t] = "recv" /\ chan[t] = <<>> /\ t \notin pending_streams
                /\ outcome'[t] = IF \E i \in 1..Len(got[t]) : got[t][i].kind = "error"
                                   THEN "failed" ELSE "ok"
                BY <1>2, <3>4 DEF ChannelClosed, End
          <5> QED BY <2>5, <5>1
        <4>2. Streaming(t) /\ t \in rx  BY <1>0, <4>1 DEF Kinded, ReceiverAlive
        <4>3. Closed(Stream(t)) /\ Shaped(Stream(t))  BY <1>0, <4>1, <4>2 DEF TaskInv, Fed
        <4>4. /\ Len(Stream(t)) = Len(got[t]) + Len(chan[t]) /\ Len(got[t]) \in Nat
              /\ \A i \in 1..Len(got[t]) : Stream(t)[i] = got[t][i]
              /\ got[t] \in Seq(Events)
              BY <1>0, StreamParts
        <4>5. PICK n \in Nat : n = Len(got[t]) /\ Len(Stream(t)) = n
          <5>1. Len(chan[t]) = 0  BY <4>1
          <5> QED BY <4>4, <5>1
        <4>6. n > 1 /\ Stream(t)[n - 1].kind # "delta"  BY <4>3, <4>5 DEF Shaped
        <4>7. n - 1 \in 1..(n - 1) /\ n - 1 \in 1..n  BY <4>6
        <4>8. Stream(t)[n - 1].kind # "done"
          <5>1. \A i \in 1..(n - 1) : Stream(t)[i].kind # "delta" => Stream(t)[i].kind # "done"
                BY <4>3, <4>5 DEF Shaped
          <5> QED BY <4>6, <4>7, <5>1
        <4>9. got[t][n - 1] = Stream(t)[n - 1] /\ got[t][n - 1] \in Events
          <5>1. PICK g \in Seq(Events) : g = got[t]  BY <4>4
          <5>2. \A i \in 1..Len(g) : g[i] \in Events  OBVIOUS
          <5>3. n - 1 \in 1..Len(g)  BY <4>5, <4>7, <5>1
          <5> QED BY <4>4, <5>1, <5>2, <5>3
        <4>10. got[t][n - 1].kind = "finish"  BY <4>1, <4>5, <4>6, <4>7, <4>8, <4>9 DEF Events
        <4> QED BY <4>2, <4>5, <4>7, <4>10
      <3> QED BY <3>1, <3>2, <3>3, <3>4
    <2>6. outcome'[t] = "ok" => (IF Streaming(t) THEN \E i \in 1..Len(got[t]) : got[t][i].kind = "finish"
                                                 ELSE oneshot[t] # None /\ oneshot[t].ok)'
          BY <2>1, <2>2, <2>5 DEF Streaming
    <2> QED BY <2>1, <2>2, <2>3, <2>4, <2>6, Cut
  <1>8. CASE ReceiveEvent(t)
    <2>0. /\ pc[t] = "recv" /\ chan[t] # <<>> /\ got'[t] = Append(got[t], Head(chan[t]))
          /\ UNCHANGED <<sent, inbox, pending_streams>>
          BY <1>2, <1>8 DEF ReceiveEvent, devVars, histVars
    <2>1. /\ chan'[t] = Tail(chan[t]) => Stream(t)' = Stream(t)
          /\ Len(got'[t]) = Len(got[t]) + 1 /\ Len(got'[t]) \in 1..Len(Stream(t))
          /\ \A i \in 1..Len(got'[t]) : got'[t][i] = Stream(t)[i]
          /\ \A i \in 1..Len(got[t]) : got'[t][i] = got[t][i]
          /\ got'[t][Len(got'[t])] = Head(chan[t])
          BY <1>0, <2>0, StreamRead
    <2>2. Streaming(t) /\ t \in rx /\ t \in sent  BY <1>0, <2>0 DEF Kinded, ReceiverAlive, Assigned
    <2>3. Len(got[t]) \in Nat /\ Len(Stream(t)) \in Nat  BY <1>0, StreamParts
    <2>4. CASE pc' # pc
      <3>1. /\ ~Sse(t) /\ t \notin rx' /\ chan'[t] = <<>> /\ pc'[t] # "recv"
            /\ outcome'[t] = "ok" => Head(chan[t]).kind = "done"
            BY <1>2, <1>8, <2>4 DEF ReceiveEvent, End
      <3>2. ASSUME Head(chan[t]).kind = "done"
            PROVE  \E i \in 1..Len(got'[t]) : got'[t][i].kind = "finish"
        <4>1. PICK n \in Nat : n = Len(Stream(t))  BY <2>3
        <4>2. PICK k \in 1..n : k = Len(got'[t]) /\ k = Len(got[t]) + 1  BY <2>1, <4>1
        <4>3. Stream(t)[k].kind = "done" /\ Shaped(Stream(t))
              BY <1>0, <2>1, <3>2, <4>2 DEF TaskInv
        <4>4. k \in 1..(n - 1) => Stream(t)[k].kind # "done"
              BY <4>1, <4>3 DEF Shaped
        <4>5. k = n  BY <4>3, <4>4
        <4>6. Closed(Stream(t))  BY <4>1, <4>3, <4>5 DEF Closed
        <4>7. n > 1 /\ Stream(t)[n - 1].kind # "delta"  BY <4>1, <4>3, <4>6 DEF Shaped
        <4>8. n - 1 \in 1..Len(got[t]) /\ n - 1 \in 1..Len(got'[t])  BY <2>3, <4>2, <4>5, <4>7
        <4>9. got[t][n - 1].kind \in {"delta", "finish"}
              BY <1>0, <2>0, <3>1, <4>8 DEF TaskInv, Succeeded
        <4>10. got'[t][n - 1] = Stream(t)[n - 1] /\ got'[t][n - 1] = got[t][n - 1]  BY <2>1, <4>8
        <4> QED BY <4>7, <4>8, <4>9, <4>10
      <3>3. outcome'[t] = "ok" => (IF Streaming(t) THEN \E i \in 1..Len(got[t]) : got[t][i].kind = "finish"
                                                   ELSE oneshot[t] # None /\ oneshot[t].ok)'
            BY <2>2, <3>1, <3>2 DEF Streaming
      <3> QED BY <1>1, <2>0, <3>1, <3>3, Cut
    <2>5. CASE pc' = pc
      <3>1. /\ chan'[t] = Tail(chan[t]) /\ UNCHANGED <<outcome, rx>>
            /\ ~Sse(t) => Head(chan[t]).kind \in {"delta", "finish"}
        <4>1. pc' # [pc EXCEPT ![t] = "end"]  BY <1>2, <2>0, <2>5
        <4> QED BY <1>2, <1>8, <4>1 DEF ReceiveEvent, End
      <3>2. Stream(t)' = Stream(t)  BY <2>1, <3>1
      <3>3. \A d \in Devices : /\ HasCmd(d, t)' <=> HasCmd(d, t)
                               /\ OnWire(d, t)' <=> OnWire(d, t)
                               /\ HoldsSender(d, t)' <=> HoldsSender(d, t)
            BY <1>1, <2>0 DEF HasCmd, OnWire, HoldsSender
      <3>4. \A d \in Devices : Busy(d, t)' => Busy(d, t) \/ Untouched(t)  BY <1>1, <3>3 DEF Busy
      <3>5. Shaped(Stream(t))' /\ Closes(t)' /\ Fed(t)'
            BY <1>1, <2>0, <3>1, <3>2, <3>3, <3>4, KeptStream
      <3>6. Accumulated(t)'  BY <1>1, <3>4, KeptText
      <3>7. Unstarted(t)'
        <4>1. ~Untouched(t)  BY <2>0 DEF Untouched
        <4> QED BY <1>0, <2>0, <2>2, <3>3, <4>1 DEF TaskInv, Unstarted
      <3>8. Continued(t)'
        <4>1. Base(t)' = Base(t)
              BY <1>1, <3>2 DEF Base, Partial, Streaming, InHandDelta
        <4>2. Live(t)' <=> Live(t)  BY <3>1 DEF Live, Streaming
        <4> QED BY <1>0, <1>1, <4>1, <4>2 DEF TaskInv, Continued
      <3>9. Succeeded(t)'
        <4>0. PICK k \in Nat : k = Len(got[t])  BY <2>3
        <4>1. Len(got'[t]) = k + 1 /\ \A i \in 1..(k + 1) : i \in 1..k \/ i = k + 1  BY <2>1, <4>0
        <4>2. ASSUME outcome[t] = "ok" PROVE \E i \in 1..Len(got'[t]) : got'[t][i].kind = "finish"
          <5>1. PICK i \in 1..k : got[t][i].kind = "finish"
                BY <1>0, <2>2, <4>0, <4>2 DEF TaskInv, Succeeded
          <5>2. i \in 1..(k + 1)  OBVIOUS
          <5> QED BY <2>1, <4>0, <4>1, <5>1, <5>2
        <4>3. ASSUME ~Sse(t), NEW i \in 1..Len(got'[t]) PROVE got'[t][i].kind \in {"delta", "finish"}
          <5>1. CASE i \in 1..k
                BY <1>0, <2>0, <2>1, <4>0, <4>3, <5>1 DEF TaskInv, Succeeded
          <5>2. CASE i = k + 1  BY <2>1, <3>1, <4>1, <4>3, <5>2
          <5> QED BY <4>1, <5>1, <5>2
        <4> QED BY <2>2, <3>1, <4>2, <4>3 DEF Succeeded, Streaming, Sse
      <3> QED BY <3>5, <3>6, <3>7, <3>8, <3>9 DEF TaskInv
    <2> QED BY <2>4, <2>5
  <1> QED BY <1>3, <1>4, <1>5, <1>6, <1>7, <1>8 DEF RequestStep, CancelStep

\* The steps of a request, for every task.
LEMMA RequestStream ==
    ASSUME StreamInv, WireInv', NEW t \in Tasks, RequestStep(t) \/ CancelStep(t) \/ ClientGone(t),
           NEW u \in Tasks
    PROVE  TaskInv(u)'
  <1>1. CASE u = t  BY <1>1, OwnRequestStep
  <1>2. CASE u # t
    <2>1. /\ UNCHANGED <<partial_results, oneshot, made, up, work, sess, smsg>>
          /\ u \in sent => u \in sent'
          /\ \A d \in Devices : HasCmd(d, u)' => HasCmd(d, u)
          /\ got'[u] = got[u] /\ chan'[u] = chan[u] /\ (u \in rx' <=> u \in rx)
          /\ outcome'[u] = outcome[u] /\ pc'[u] = pc[u]
          /\ u \notin pending_streams' => u \notin pending_streams
          BY <1>2, RequestEffect
    <2> QED BY <2>1, AsideStill
  <1> QED BY <1>1, <1>2

\* The number of pieces in hand is a number.
LEMMA BaseNat ==
    ASSUME ReqTypeOK, MapTypeOK, NEW t \in Tasks PROVE Base(t) \in Nat
  <1>1. Len(Stream(t)) \in Nat  BY StreamParts
  <1>2. Partial(t) \in Seq(Nat)  BY DEF Partial, MapTypeOK
  <1>3. Len(Partial(t)) \in Nat  BY <1>2
  <1> QED BY <1>1, <1>3 DEF Base

\* A device reads a task of which there is nothing yet.
LEMMA ReadTaskStream ==
    ASSUME StreamInv, NEW d \in Devices, ReadTask(d), NEW u \in Tasks PROVE TaskInv(u)'
  <1>0. /\ ReqTypeOK /\ MapTypeOK /\ DevTypeOK /\ CmdOnce /\ Located /\ Unread /\ TaskInv(u)
        /\ None \notin Tasks
        BY SchedulerAssumption DEF StreamInv, WireInv, PathInv, IInv, TypeOK
  <1> DEFINE t == Head(inbox[d]).task
  <1>1. /\ inbox[d] # <<>> /\ inbox' = [inbox EXCEPT ![d] = Tail(@)] /\ Head(inbox[d]).kind = "task"
        /\ work[d] = None /\ work' = [work EXCEPT ![d] = t]
        /\ UNCHANGED <<reqVars, mapVars, made, up, sess, smsg, sent>>
        BY DEF ReadTask, sessVars, histVars
  <1>2. /\ \A e \in Devices, v \in Tasks :
              HasCmd(e, v)' <=> HasCmd(e, v) /\ ~(e = d /\ Head(inbox[d]) = Cmd("task", v))
        /\ Head(inbox[d]).kind = "task" => t \in Tasks /\ HasCmd(d, t)
        BY <1>0, <1>1, InboxTail, Zenon
  <1>3. t \in Tasks /\ HasCmd(d, t) /\ \A e \in Devices : HasCmd(e, u)' => HasCmd(e, u)
        BY <1>1, <1>2
  <1>4. work'[d] = t /\ \A e \in Devices : e # d => work'[e] = work[e]
        BY <1>0, <1>1 DEF DevTypeOK
  <1> HIDE DEF t
  <1>5. \A e \in Devices : /\ OnWire(e, u)' <=> OnWire(e, u)
                           /\ HoldsSender(e, u)' <=> HoldsSender(e, u)
        BY <1>1 DEF OnWire, HoldsSender
  <1>6. \A e \in Devices : Busy(e, u)' => Busy(e, u)
        BY <1>3, <1>4, <1>5 DEF Busy
  <1>7. InHandDelta(u)' <=> InHandDelta(u)  BY <1>1 DEF InHandDelta
  <1>8. ASSUME Live(u), NEW e \in Devices PROVE Follows(up'[e], u, Base(u), made[u], work'[e] = u)
    <2>1. CASE e = d /\ u = t
      <3>1. Untouched(u)  BY <1>0, <1>3, <2>1 DEF TaskInv, Unstarted
      <3>2. \A f \in Devices : ~HoldsSender(f, u)  BY <1>0, <1>3, <2>1 DEF Located, Unread
      <3>3. ~InHandDelta(u)  BY <3>2 DEF InHandDelta, HoldsSender
      <3>4. Base(u) = 0 /\ made[u] = 0
        <4>1. Stream(u) = <<>> /\ Partial(u) = <<>>  BY <3>1 DEF Untouched, Stream, Partial
        <4>2. Len(Stream(u)) = 0 /\ Len(Partial(u)) = 0  BY <4>1
        <4> QED BY <3>1, <3>3, <4>2 DEF Base, Untouched
      <3>5. PICK q \in Seq(Chunks) : q = up[e]  BY <1>0 DEF DevTypeOK
      <3>6. ~OnWire(e, u)  BY <1>0, <1>3, <2>1 DEF Unread
      <3>7. ChunkFree(q, u)  BY <3>5, <3>6 DEF ChunkFree, OnWire
      <3>8. Follows(q, u, 0, 0, TRUE)  BY <3>7, FollowsNothing
      <3>9. (work'[e] = u) = TRUE  BY <1>4, <2>1
      <3> QED BY <1>1, <3>4, <3>5, <3>8, <3>9
    <2>2. CASE ~(e = d /\ u = t)
      <3>1. (work'[e] = u) <=> (work[e] = u)  BY <1>0, <1>1, <1>4, <2>2
      <3>2. Follows(up[e], u, Base(u), made[u], work[e] = u)  BY <1>0, <1>8 DEF TaskInv, Continued
      <3> QED BY <1>1, <3>1, <3>2
    <2> QED BY <2>1, <2>2
  <1>9. /\ got' = got /\ chan' = chan /\ rx' = rx /\ made' = made /\ partial_results' = partial_results
        /\ oneshot' = oneshot /\ outcome' = outcome /\ sent' = sent /\ pc' = pc
        /\ pending_streams' = pending_streams /\ sess' = sess /\ smsg' = smsg
        BY <1>1 DEF reqVars, mapVars
  <1> QED BY <1>3, <1>5, <1>6, <1>7, <1>8, <1>9, Aside

\* A device writes a chunk: the next piece, or an end after all of them.
LEMMA EmitStream ==
    ASSUME StreamInv, NEW d \in Devices, EmitDelta(d) \/ EmitDone(d) \/ EmitError(d), NEW u \in Tasks
    PROVE  TaskInv(u)'
  <1>0. /\ ReqTypeOK /\ MapTypeOK /\ DevTypeOK /\ Located /\ Unread /\ LastOnWire /\ TaskInv(u)
        /\ None \notin Tasks
        BY SchedulerAssumption DEF StreamInv, WireInv, PathInv, IInv, TypeOK
  <1>1. /\ work[d] \in Tasks
        /\ \A e \in Devices : e # d => work'[e] = work[e]
        /\ UNCHANGED <<inbox, reqVars, mapVars, sessVars, sent, lost, cancel>>
        BY <1>0, EmitEffect
  <1>2. PICK m \in Chunks :
           /\ m.task = work[d] /\ up' = [up EXCEPT ![d] = Append(@, m)]
           /\ \/ /\ m.kind = "delta" /\ m.n = made[work[d]] + 1
                 /\ work'[d] = work[d] /\ made' = [made EXCEPT ![work[d]] = @ + 1]
              \/ m.kind # "delta" /\ work'[d] = None /\ made' = made
        BY <1>0, EmitEffect
  <1>3. \A e \in Devices, v \in Tasks : OnWire(e, v)' <=> OnWire(e, v) \/ (e = d /\ m.task = v)
    <2>1. up' = [up EXCEPT ![d] = Append(@, m)]  BY <1>2
    <2> QED BY <1>0, <2>1, UpAppend, Zenon
  <1>4. /\ got' = got /\ chan' = chan /\ rx' = rx /\ partial_results' = partial_results
        /\ oneshot' = oneshot /\ outcome' = outcome /\ sent' = sent /\ pc' = pc
        /\ pending_streams' = pending_streams /\ sess' = sess /\ smsg' = smsg /\ inbox' = inbox
        BY <1>1 DEF reqVars, mapVars, sessVars
  <1>5. \A e \in Devices : /\ HasCmd(e, u)' <=> HasCmd(e, u)
                           /\ HoldsSender(e, u)' <=> HoldsSender(e, u)
        BY <1>4 DEF HasCmd, HoldsSender
  <1>6. \A e \in Devices : Busy(e, u)' => Busy(e, u)
    <2>1. \A e \in Devices : work'[e] = u => work[e] = u  BY <1>0, <1>1, <1>2
    <2>2. \A e \in Devices : OnWire(e, u)' => OnWire(e, u) \/ work[e] = u  BY <1>2, <1>3
    <2> QED BY <1>5, <2>1, <2>2 DEF Busy
  <1>7. InHandDelta(u)' <=> InHandDelta(u)  BY <1>4 DEF InHandDelta
  <1>8. made[u] \in Nat /\ Base(u) \in Nat  BY <1>0, BaseNat DEF DevTypeOK
  <1>9. up[d] \in Seq(Chunks) /\ up'[d] = Append(up[d], m) /\ \A e \in Devices : e # d => up'[e] = up[e]
        BY <1>0, <1>2 DEF DevTypeOK
  <1>10. CASE u # work[d]
    <2>1. made'[u] = made[u]  BY <1>0, <1>2, <1>10 DEF DevTypeOK
    <2>2. \A e \in Devices : (work'[e] = u) <=> (work[e] = u)  BY <1>0, <1>1, <1>2, <1>10
    <2>3. ASSUME Live(u), NEW e \in Devices PROVE Follows(up'[e], u, Base(u), made[u], work'[e] = u)
      <3>1. Follows(up[e], u, Base(u), made[u], work[e] = u)  BY <1>0, <2>3 DEF TaskInv, Continued
      <3>2. CASE e = d
        <4>1. Follows(up[d], u, Base(u), made[u], FALSE)  BY <1>10, <3>1, <3>2
        <4>2. m.task # u  BY <1>2, <1>10
        <4>3. Follows(Append(up[d], m), u, Base(u), made[u], FALSE)
              BY <1>8, <1>9, <4>1, <4>2, FollowsAppend
        <4> QED BY <1>9, <1>10, <2>2, <3>2, <4>3
      <3>3. CASE e # d  BY <1>9, <2>2, <3>1, <3>3
      <3> QED BY <3>2, <3>3
    <2> QED BY <1>4, <1>5, <1>6, <1>7, <2>1, <2>3, Aside
  <1>11. CASE u = work[d]
    <2>1. Stream(u)' = Stream(u)  BY <1>4 DEF Stream
    <2>2. Shaped(Stream(u))' /\ Closes(u)' /\ Fed(u)'
          BY <1>4, <1>5, <1>6, <1>11, <2>1, KeptStream
    <2>3. Accumulated(u)'  BY <1>4, <1>6, <1>11, KeptText
    <2>4. Unstarted(u)'
      <3>1. u \in sent /\ \A e \in Devices : ~HasCmd(e, u)  BY <1>0, <1>11 DEF Located, Unread
      <3> QED BY <1>4, <1>5, <3>1 DEF Unstarted
    <2>5. Succeeded(u)'
      <3>1. Succeeded(u)  BY <1>0 DEF TaskInv
      <3> QED BY <1>4, <3>1 DEF Succeeded, Streaming, Sse
    <2>6. Continued(u)'
      <3>1. Base(u)' = Base(u)  BY <1>4, <1>7, <2>1 DEF Base, Partial, Streaming
      <3>2. Live(u)' <=> Live(u)  BY <1>4 DEF Live, Streaming
      <3>3. made'[u] \in Nat  BY <1>0, <1>2, <1>8, <1>11 DEF DevTypeOK
      <3>4. ASSUME Live(u), NEW e \in Devices PROVE Follows(up'[e], u, Base(u), made'[u], work'[e] = u)
        <4>1. CASE e # d
          <5>1. ~OnWire(e, u) /\ work[e] # u  BY <1>0, <1>11, <4>1 DEF Located
          <5>2. up[e] \in Seq(Chunks) /\ ChunkFree(up[e], u)  BY <1>0, <5>1 DEF DevTypeOK, ChunkFree, OnWire
          <5>3. Follows(up[e], u, Base(u), made'[u], FALSE)  BY <1>8, <3>3, <5>2, FollowsNothing
          <5>4. (work'[e] = u) = FALSE  BY <1>1, <4>1, <5>1
          <5> QED BY <1>9, <4>1, <5>3, <5>4
        <4>2. CASE e = d
          <5>1. Follows(up[d], u, Base(u), made[u], work[d] = u)  BY <1>0, <3>4 DEF TaskInv, Continued
          <5>2. Follows(up[d], u, Base(u), made[u], TRUE)  BY <1>11, <5>1
          <5>3. EndFree(up[d], u)  BY <1>0, <1>11 DEF LastOnWire, EndFree
          <5>4. CASE m.kind = "delta"
            <6>1. m.n = made[u] + 1 /\ made'[u] = made[u] + 1 /\ work'[d] = u /\ m.task = u
                  BY <1>0, <1>2, <1>11, <5>4 DEF DevTypeOK
            <6>2. Follows(Append(up[d], m), u, Base(u), made[u] + 1, TRUE)
              <7>1. PICK q \in Seq(Chunks), b \in Nat, n \in Nat : q = up[d] /\ b = Base(u) /\ n = made[u]
                    BY <1>8, <1>9
              <7>2. Follows(q, u, b, n, TRUE) /\ EndFree(q, u) /\ m.n = n + 1  BY <5>2, <5>3, <6>1, <7>1
              <7>3. PICK k \in Nat : k = n + 1  OBVIOUS
              <7>4. Follows(Append(q, m), u, b, k, TRUE)  BY <5>4, <6>1, <7>2, <7>3, FollowsAppend
              <7> QED BY <7>1, <7>3, <7>4
            <6> QED BY <1>9, <4>2, <6>1, <6>2
          <5>5. CASE m.kind # "delta"
            <6>1. made'[u] = made[u] /\ work'[d] = None /\ m.task = u  BY <1>2, <1>11, <5>5
            <6>2. Follows(Append(up[d], m), u, Base(u), made[u], FALSE)
                  BY <1>8, <1>9, <5>2, <5>5, <6>1, FollowsAppend
            <6>3. (work'[d] = u) = FALSE  BY <1>0, <6>1
            <6> QED BY <1>9, <4>2, <6>1, <6>2, <6>3
          <5> QED BY <5>4, <5>5
        <4> QED BY <4>1, <4>2
      <3> QED BY <3>1, <3>2, <3>4 DEF Continued
    <2> QED BY <2>2, <2>3, <2>4, <2>5, <2>6 DEF TaskInv
  <1> QED BY <1>10, <1>11

\* A connection that dies keeps a prefix of what was written.
LEMMA LinkStream ==
    ASSUME StreamInv, NEW d \in Devices, LinkDies(d), NEW u \in Tasks PROVE TaskInv(u)'
  <1>0. /\ ReqTypeOK /\ MapTypeOK /\ DevTypeOK /\ TaskInv(u) /\ None \notin Tasks
        BY SchedulerAssumption DEF StreamInv, WireInv, PathInv, IInv, TypeOK
  <1>1. /\ \E n \in 0..Len(up[d]) :
              /\ Len(up[d]) \in Nat /\ Len(up'[d]) = n
              /\ \A i \in 1..n : up'[d][i] = up[d][i] /\ i \in 1..Len(up[d])
        /\ \A e \in Devices : e # d => up'[e] = up[e] /\ inbox'[e] = inbox[e] /\ work'[e] = work[e]
        /\ inbox'[d] = <<>> /\ work'[d] = None
        /\ UNCHANGED <<reqVars, mapVars, sessVars, made, sent, broken, cancel>>
        BY <1>0, LinkEffect
  <1>2. /\ got' = got /\ chan' = chan /\ rx' = rx /\ made' = made /\ partial_results' = partial_results
        /\ oneshot' = oneshot /\ outcome' = outcome /\ sent' = sent /\ pc' = pc
        /\ pending_streams' = pending_streams /\ sess' = sess /\ smsg' = smsg
        BY <1>1 DEF reqVars, mapVars, sessVars
  <1>3. \A e \in Devices : HoldsSender(e, u)' <=> HoldsSender(e, u)  BY <1>2 DEF HoldsSender
  <1>4. \A e \in Devices : HasCmd(e, u)' => HasCmd(e, u)  BY <1>1 DEF HasCmd
  <1>5. \A e \in Devices : OnWire(e, u)' => OnWire(e, u)  BY <1>1 DEF OnWire
  <1>6. \A e \in Devices : Busy(e, u)' => Busy(e, u)  BY <1>0, <1>1, <1>4, <1>5 DEF Busy
  <1>7. InHandDelta(u)' <=> InHandDelta(u)  BY <1>2 DEF InHandDelta
  <1>8. made[u] \in Nat /\ Base(u) \in Nat  BY <1>0, BaseNat DEF DevTypeOK
  <1>9. ASSUME Live(u), NEW e \in Devices PROVE Follows(up'[e], u, Base(u), made[u], work'[e] = u)
    <2>1. Follows(up[e], u, Base(u), made[u], work[e] = u)  BY <1>0, <1>9 DEF TaskInv, Continued
    <2>2. CASE e # d  BY <1>1, <2>1, <2>2
    <2>3. CASE e = d
      <3>1. PICK q \in Seq(Chunks) : q = up[d]  BY <1>0 DEF DevTypeOK
      <3>2. PICK r : r = up'[d]  OBVIOUS
      <3>3. Len(r) \in 0..Len(q) /\ \A i \in 1..Len(r) : r[i] = q[i]  BY <1>1, <3>1, <3>2
      <3>4. PICK w \in BOOLEAN : w = (work[d] = u)  OBVIOUS
      <3>5. Follows(q, u, Base(u), made[u], w)  BY <2>1, <2>3, <3>1, <3>4
      <3>6. Follows(r, u, Base(u), made[u], FALSE)  BY <1>8, <3>3, <3>5, FollowsPrefix
      <3>7. (work'[d] = u) = FALSE  BY <1>0, <1>1
      <3> QED BY <2>3, <3>2, <3>6, <3>7
    <2> QED BY <2>2, <2>3
  <1> QED BY <1>2, <1>3, <1>4, <1>6, <1>7, <1>9, Aside

\* The steps of a device and its connection, for every task.
LEMMA DeviceStream ==
    ASSUME StreamInv, NEW d \in Devices, NEW u \in Tasks,
           DeviceStep(d) \/ Register(d) \/ ReportModels(d) \/ LinkDies(d) \/ SessionEnds(d)
    PROVE  TaskInv(u)'
  <1>0. DevTypeOK /\ CmdOnce  BY DEF StreamInv, WireInv, PathInv, IInv, TypeOK
  <1>1. CASE ReadCancel(d) \/ Register(d) \/ ReportModels(d) \/ SessionEnds(d)
    <2>1. /\ UNCHANGED <<got, chan, rx, outcome, partial_results, oneshot, made, up, work, sess, smsg>>
          /\ UNCHANGED <<sent, pending_streams, pc>>
          BY <1>1 DEF ReadCancel, Register, ReportModels, SessionEnds, reqVars, mapVars, devVars,
             sessVars, histVars
    <2>2. \A e \in Devices : HasCmd(e, u)' => HasCmd(e, u)
      <3>1. CASE ReadCancel(d)
        <4>1. inbox[d] # <<>> /\ inbox' = [inbox EXCEPT ![d] = Tail(@)]  BY <3>1 DEF ReadCancel
        <4>2. \A e \in Devices, v \in Tasks :
                 HasCmd(e, v)' <=> HasCmd(e, v) /\ ~(e = d /\ Head(inbox[d]) = Cmd("task", v))
              BY <1>0, <4>1, InboxTail, Zenon
        <4> QED BY <4>2
      <3>2. CASE ~ReadCancel(d)
        <4>1. inbox' = inbox  BY <1>1, <3>2 DEF Register, ReportModels, SessionEnds, devVars
        <4> QED BY <4>1 DEF HasCmd
      <3> QED BY <3>1, <3>2
    <2> QED BY <2>1, <2>2, AsideStill
  <1>2. CASE ReadTask(d)  BY <1>2, ReadTaskStream
  <1>3. CASE EmitDelta(d) \/ EmitDone(d) \/ EmitError(d)  BY <1>3, EmitStream
  <1>4. CASE LinkDies(d)  BY <1>4, LinkStream
  <1> QED BY <1>1, <1>2, <1>3, <1>4 DEF DeviceStep

\* While a chunk of t is on a wire or in a session task's hands, the other devices have
\* nothing of t, and nobody has its command any more.
LEMMA OnlyHere ==
    ASSUME WireInv, NEW d \in Devices, NEW t \in Tasks, OnWire(d, t) \/ HoldsSender(d, t)
    PROVE  /\ t \in sent /\ \A e \in Devices : ~HasCmd(e, t)
           /\ \A e \in Devices : e # d => work[e] # t /\ ~OnWire(e, t) /\ ~HoldsSender(e, t)
  BY DEF WireInv, PathInv, Located, Unread

\* The last chunk of a task leaves nothing behind it.
LEMMA LastRead ==
    ASSUME WireInv, NEW d \in Devices, up[d] # <<>>, up' = [up EXCEPT ![d] = Tail(@)],
           Head(up[d]).kind # "delta", NEW t \in Tasks, Head(up[d]).task = t
    PROVE  work[d] # t /\ ~OnWire(d, t)'
  <1>0. DevTypeOK /\ LastOnWire  BY DEF WireInv, PathInv, IInv, TypeOK
  <1>1. /\ Len(up[d]) \in Nat \ {0} /\ Head(up[d]) = up[d][1]
        /\ \A i \in 1..Len(up'[d]) : up'[d][i] = up[d][i + 1] /\ i + 1 \in 2..Len(up[d])
        BY <1>0, UpTail, Zenon
  <1>2. 1 \in 1..Len(up[d]) /\ \A i \in 2..Len(up[d]) : i \in (1 + 1)..Len(up[d])  BY <1>1
  <1>3. work[d] # up[d][1].task /\ \A i \in 2..Len(up[d]) : up[d][i].task # up[d][1].task
        BY <1>0, <1>1, <1>2 DEF LastOnWire
  <1> QED BY <1>1, <1>3 DEF OnWire

\* What reading a chunk does to the tasks it is not about.
LEMMA OtherChunk ==
    ASSUME StreamInv, NEW d \in Devices, up[d] # <<>>, up' = [up EXCEPT ![d] = Tail(@)], work' = work,
           NEW u \in Tasks, Head(up[d]).task # u, Live(u), NEW e \in Devices
    PROVE  Follows(up'[e], u, Base(u), made[u], work'[e] = u)
  <1>0. ReqTypeOK /\ MapTypeOK /\ DevTypeOK /\ TaskInv(u)
        BY DEF StreamInv, WireInv, PathInv, IInv, TypeOK
  <1>1. Follows(up[e], u, Base(u), made[u], work[e] = u)  BY <1>0 DEF TaskInv, Continued
  <1>2. CASE e # d  BY <1>0, <1>1, <1>2 DEF DevTypeOK
  <1>3. CASE e = d
    <2>1. PICK q \in Seq(Chunks), b \in Nat, n \in Nat : q = up[d] /\ b = Base(u) /\ n = made[u]
          BY <1>0, BaseNat DEF DevTypeOK
    <2>2. q # <<>> /\ q[1].task # u  BY <2>1
    <2>3. PICK w \in BOOLEAN : w = (work[d] = u)  OBVIOUS
    <2>4. Follows(q, u, b, n, w)  BY <1>1, <1>3, <2>1, <2>3
    <2>5. Follows(Tail(q), u, b, n, w)  BY <2>2, <2>4, FollowsTail
    <2>6. up'[d] = Tail(q)  BY <1>0, <2>1 DEF DevTypeOK
    <2> QED BY <1>3, <2>1, <2>3, <2>5, <2>6
  <1> QED BY <1>2, <1>3

\* The session task takes the next piece of a stream, or its end, in hand.
LEMMA TakeStream ==
    ASSUME StreamInv, TypeOK', NEW d \in Devices, TakeStreamChunk(d), NEW u \in Tasks
    PROVE  TaskInv(u)'
  <1>0. /\ ReqTypeOK /\ MapTypeOK /\ DevTypeOK /\ SessTypeOK /\ Kinded /\ WireInv /\ TaskInv(u)
        /\ DevTypeOK'
        BY DEF StreamInv, WireInv, PathInv, IInv, TypeOK
  <1> DEFINE m == Head(up[d])
             t == m.task
  <1>1. /\ up[d] # <<>> /\ up' = [up EXCEPT ![d] = Tail(@)] /\ sess[d] = "idle"
        /\ t \in pending_streams /\ smsg' = [smsg EXCEPT ![d] = m]
        /\ sess' = [sess EXCEPT ![d] = CASE m.kind = "error" -> "error"
                                         [] m.kind = "delta" -> "delta"
                                         [] m.kind = "done"  -> "usage"]
        BY DEF TakeStreamChunk
  <1>2. /\ got' = got /\ chan' = chan /\ rx' = rx /\ made' = made /\ partial_results' = partial_results
        /\ oneshot' = oneshot /\ outcome' = outcome /\ sent' = sent /\ pc' = pc
        /\ pending_streams' = pending_streams /\ inbox' = inbox /\ work' = work
        BY DEF TakeStreamChunk, reqVars, mapVars, histVars
  <1>3. /\ m = up[d][1] /\ m \in Chunks /\ t \in Tasks /\ OnWire(d, t)
        /\ \A e \in Devices, v \in Tasks : OnWire(e, v)' => OnWire(e, v)
        BY <1>0, <1>1, UpTail, Zenon
  <1>4. /\ smsg'[d] = m /\ m.kind \in {"delta", "done", "error"}
        /\ m.kind = "error" => sess'[d] = "error"
        /\ m.kind = "delta" => sess'[d] = "delta"
        /\ m.kind = "done" => sess'[d] = "usage"
        /\ \A e \in Devices : e # d => smsg'[e] = smsg[e] /\ sess'[e] = sess[e]
    <2>1. m.kind \in {"delta", "done", "error"}  BY <1>3 DEF Chunks
    <2> QED BY <1>0, <1>1, <2>1 DEF SessTypeOK
  <1> HIDE DEF m
  <1>5. \A e \in Devices : HasCmd(e, u)' <=> HasCmd(e, u)  BY <1>2 DEF HasCmd
  <1>6. \A e \in Devices : Busy(e, u)' => Busy(e, u)  BY <1>2, <1>3, <1>5 DEF Busy
  <1>7. CASE u # t
    <2>1. \A e \in Devices : HoldsSender(e, u)' =>
             HoldsSender(e, u) /\ smsg'[e] = smsg[e] /\ sess'[e] = sess[e]
          BY <1>4, <1>7 DEF HoldsSender
    <2>2. InHandDelta(u)' <=> InHandDelta(u)  BY <1>1, <1>4, <1>7 DEF InHandDelta
    <2>3. Live(u) => \A e \in Devices : Follows(up'[e], u, Base(u), made[u], work'[e] = u)
      <3>1. Head(up[d]).task # u  BY <1>7 DEF m
      <3> QED BY <1>1, <1>2, <3>1, OtherChunk
    <2> QED BY <1>2, <1>5, <1>6, <2>1, <2>2, <2>3, Aside
  <1>8. CASE u = t
    <2>1. /\ u \in sent /\ \A e \in Devices : ~HasCmd(e, u)
          /\ \A e \in Devices : e # d => work[e] # u /\ ~OnWire(e, u) /\ ~HoldsSender(e, u)
          BY <1>0, <1>3, <1>8, OnlyHere
    <2>2. Streaming(u)  BY <1>0, <1>1, <1>8 DEF Kinded
    <2>3. Stream(u)' = Stream(u)  BY <1>2 DEF Stream
    <2>4. OnlyPieces(Stream(u))  BY <1>0, <1>3, <1>8 DEF TaskInv, Closes
    <2>5. Len(Stream(u)) \in Nat /\ made[u] \in Nat /\ Base(u) \in Nat
          BY <1>0, StreamParts, BaseNat DEF DevTypeOK
    <2>6. Base(u) = Len(Stream(u))
      <3>1. ~InHandDelta(u)  BY <1>1, <2>1 DEF InHandDelta, HoldsSender
      <3> QED BY <2>2, <2>5, <3>1 DEF Base
    <2>7. InHandDelta(u)' <=> m.kind = "delta"
      <3>1. \A e \in Devices : e # d => ~(sess'[e] = "delta" /\ smsg'[e].task = u)
            BY <1>4, <2>1 DEF HoldsSender
      <3>2. sess'[d] = "delta" <=> m.kind = "delta"  BY <1>4
      <3>3. smsg'[d].task = u  BY <1>4, <1>8
      <3> QED BY <3>1, <3>2, <3>3 DEF InHandDelta
    <2>8. ASSUME u \in rx
          PROVE  /\ m.kind = "delta" => m.n = Len(Stream(u)) + 1
                 /\ m.kind = "done" => made[u] = Len(Stream(u))
                 /\ m.kind = "delta" => Follows(up'[d], u, Len(Stream(u)) + 1, made[u], work[d] = u)
      <3>1. Follows(up[d], u, Base(u), made[u], work[d] = u)
            BY <1>0, <2>8 DEF TaskInv, Continued, Live
      <3>2. PICK q \in Seq(Chunks), b \in Nat, n \in Nat :
               q = up[d] /\ b = Base(u) /\ n = made[u] /\ b = Len(Stream(u))
            BY <1>0, <2>5, <2>6 DEF DevTypeOK
      <3>3. PICK w \in BOOLEAN : w = (work[d] = u)  OBVIOUS
      <3>4. q # <<>> /\ q[1] = m /\ q[1].task = u /\ Follows(q, u, b, n, w)
            BY <1>1, <1>3, <1>8, <3>1, <3>2, <3>3
      <3>5. /\ q[1].kind = "delta" => q[1].n = b + 1 /\ b + 1 <= n
            /\ q[1].kind = "done" => b = n
        <4>1. q # <<>> /\ q[1].task = u /\ Follows(q, u, b, n, w)  BY <3>4
        <4> QED BY <4>1, FollowsHead, SMTT(30)
      <3>6. ASSUME m.kind = "delta" PROVE Follows(Tail(q), u, b + 1, n, w)
        <4>1. PICK c \in Nat : c = b + 1  OBVIOUS
        <4>2. Follows(Tail(q), u, c, n, w)  BY <3>4, <3>6, <4>1, FollowsTail
        <4> QED BY <4>1, <4>2
      <3>7. up'[d] = Tail(q)  BY <1>0, <1>1, <3>2 DEF DevTypeOK
      <3> QED BY <3>2, <3>3, <3>4, <3>5, <3>6, <3>7
    <2>9. Shaped(Stream(u))'
      <3>1. Shaped(Stream(u))  BY <1>0 DEF TaskInv
      <3> QED BY <2>3, <3>1 DEF Shaped, Closed
    <2>10. Closes(u)'
      <3>1. OnlyPieces(Stream(u))'  BY <2>3, <2>4 DEF OnlyPieces
      <3>2. \A i \in 1..Len(Stream(u)') : Stream(u)'[i].kind # "finish"  BY <2>3, <2>4 DEF OnlyPieces
      <3> QED BY <3>1, <3>2 DEF Closes
    <2>11. Fed(u)'
      <3>1. ASSUME u \in rx, NEW e \in Devices, HoldsSender(e, u)'
            PROVE  /\ sess'[e] = "delta" => smsg'[e].n = Len(Stream(u)) + 1
                   /\ sess'[e] \in {"usage", "finish"} => made[u] = Len(Stream(u))
                   /\ sess'[e] \notin {"done", "remove"}
        <4>1. e = d  BY <1>4, <2>1, <3>1 DEF HoldsSender
        <4> QED BY <1>4, <2>8, <3>1, <4>1
      <3>2. u \in pending_streams'  BY <1>1, <1>2, <1>8
      <3> QED BY <1>2, <2>3, <3>1, <3>2 DEF Fed
    <2>12. Continued(u)'
      <3>1. ASSUME u \in rx, NEW e \in Devices
            PROVE  Follows(up'[e], u, Base(u)', made[u], work[e] = u)
        <4>0. Base(u)' = IF m.kind = "delta" THEN Len(Stream(u)) + 1 ELSE Len(Stream(u))
              BY <2>2, <2>3, <2>5, <2>7 DEF Base, Streaming
        <4>1. CASE e = d /\ m.kind = "delta"  BY <2>8, <3>1, <4>0, <4>1
        <4>2. CASE e # d \/ m.kind # "delta"
          <5>1. work[e] # u /\ ~OnWire(e, u)'
            <6>1. CASE e # d  BY <1>3, <2>1, <6>1
            <6>2. CASE e = d
              <7>1. Head(up[d]).kind # "delta" /\ Head(up[d]).task = u  BY <1>8, <4>2, <6>2 DEF m
              <7>2. work[d] # u /\ ~OnWire(d, u)'  BY <1>0, <1>1, <7>1, LastRead
              <7> QED BY <6>2, <7>2
            <6> QED BY <6>1, <6>2
          <5>2. PICK q \in Seq(Chunks) : q = up'[e]  BY <1>0 DEF DevTypeOK
          <5>3. ChunkFree(q, u)  BY <5>1, <5>2 DEF ChunkFree, OnWire
          <5>4. PICK b \in Nat, n \in Nat : b = Base(u)' /\ n = made[u]  BY <2>5, <4>0
          <5>5. Follows(q, u, b, n, FALSE)  BY <5>3, FollowsNothing
          <5>6. (work[e] = u) = FALSE  BY <5>1
          <5> QED BY <5>2, <5>4, <5>5, <5>6
        <4> QED BY <4>1, <4>2
      <3>2. Live(u)' => u \in rx  BY <1>2, <2>2 DEF Live, Streaming
      <3> QED BY <1>2, <3>1, <3>2 DEF Continued
    <2>13. Accumulated(u)'  BY <1>2, <1>6, KeptText
    <2>14. Unstarted(u)'  BY <1>2, <1>5, <2>1 DEF Unstarted
    <2>15. Succeeded(u)'
      <3>1. Succeeded(u)  BY <1>0 DEF TaskInv
      <3> QED BY <1>2, <3>1 DEF Succeeded, Streaming, Sse
    <2> QED BY <2>9, <2>10, <2>11, <2>12, <2>13, <2>14, <2>15 DEF TaskInv
  <1> QED BY <1>7, <1>8

\* What the session task sends, by where it is.
LEMMA SendEffect ==
    ASSUME StreamInv, NEW d \in Devices,
           SessDelta(d) \/ SessError(d) \/ SessFinish(d) \/ SessDone(d)
    PROVE  /\ smsg[d].task \in Tasks /\ HoldsSender(d, smsg[d].task) /\ Streaming(smsg[d].task)
           /\ sess[d] \in {"delta", "error", "finish", "done"}
           /\ \E ev \in Events :
                 /\ ev.kind = sess[d] /\ (sess[d] = "delta" => ev.n = smsg[d].n)
                 /\ \/ smsg[d].task \notin rx /\ chan' = chan
                    \/ /\ smsg[d].task \in rx
                       /\ chan' = [chan EXCEPT ![smsg[d].task] = Append(@, ev)]
           /\ sess'[d] = CASE sess[d] = "delta" -> "idle"
                           [] sess[d] \in {"error", "finish"} -> "done"
                           [] sess[d] = "done" -> "remove"
           /\ sess[d] # "delta" => smsg'[d] = smsg[d]
           /\ \A e \in Devices : e # d => sess'[e] = sess[e] /\ smsg'[e] = smsg[e]
           /\ UNCHANGED <<reqVars, devVars, pending_streams, partial_results, oneshot, sent>>
  <1>0. /\ SessTypeOK /\ SessionHasChunk /\ InHand
        BY DEF StreamInv, WireInv, PathInv, IInv, TypeOK
  <1>1. sess[d] \in {"delta", "error", "finish", "done"}
        BY DEF SessDelta, SessError, SessFinish, SessDone
  <1>2. smsg[d] \in Chunks  BY <1>0, <1>1 DEF SessTypeOK, SessionHasChunk
  <1>3. smsg[d].task \in Tasks /\ smsg[d].n \in Nat  BY <1>2 DEF Chunks
  <1>4. HoldsSender(d, smsg[d].task) /\ Streaming(smsg[d].task)  BY <1>0, <1>1 DEF HoldsSender, InHand
  <1> DEFINE ev == Event(sess[d], IF sess[d] = "delta" THEN smsg[d].n ELSE 0)
  <1>5. ev \in Events /\ ev.kind = sess[d] /\ (sess[d] = "delta" => ev.n = smsg[d].n)
        BY <1>1, <1>3 DEF Event, Events
  <1>6. SendEvent(smsg[d].task, ev)
        BY DEF SessDelta, SessError, SessFinish, SessDone
  <1> HIDE DEF ev
  <1>7. \/ smsg[d].task \notin rx /\ chan' = chan
        \/ smsg[d].task \in rx /\ chan' = [chan EXCEPT ![smsg[d].task] = Append(@, ev)]
        BY <1>6 DEF SendEvent
  <1>8. /\ sess'[d] = CASE sess[d] = "delta" -> "idle"
                        [] sess[d] \in {"error", "finish"} -> "done"
                        [] sess[d] = "done" -> "remove"
        /\ sess[d] # "delta" => smsg'[d] = smsg[d]
        /\ \A e \in Devices : e # d => sess'[e] = sess[e] /\ smsg'[e] = smsg[e]
        BY <1>0 DEF SessDelta, SessError, SessFinish, SessDone, Goto, SessTypeOK
  <1>9. UNCHANGED <<reqVars, devVars, pending_streams, partial_results, oneshot, sent>>
        BY DEF SessDelta, SessError, SessFinish, SessDone, histVars
  <1> QED BY <1>1, <1>3, <1>4, <1>5, <1>7, <1>8, <1>9

\* The session task sends an event: the piece that comes next, or the end of the stream.
LEMMA SendStream ==
    ASSUME StreamInv, TypeOK', NEW d \in Devices,
           SessDelta(d) \/ SessError(d) \/ SessFinish(d) \/ SessDone(d), NEW u \in Tasks
    PROVE  TaskInv(u)'
  <1>0. /\ ReqTypeOK /\ MapTypeOK /\ DevTypeOK /\ WireInv /\ InHand /\ TaskInv(u) /\ DevTypeOK'
        BY DEF StreamInv, WireInv, PathInv, IInv, TypeOK
  <1>1. /\ smsg[d].task \in Tasks /\ HoldsSender(d, smsg[d].task) /\ Streaming(smsg[d].task)
        /\ sess[d] \in {"delta", "error", "finish", "done"}
        /\ sess'[d] = CASE sess[d] = "delta" -> "idle"
                        [] sess[d] \in {"error", "finish"} -> "done"
                        [] sess[d] = "done" -> "remove"
        /\ sess[d] # "delta" => smsg'[d] = smsg[d]
        /\ \A e \in Devices : e # d => sess'[e] = sess[e] /\ smsg'[e] = smsg[e]
        /\ UNCHANGED <<reqVars, devVars, pending_streams, partial_results, oneshot, sent>>
        BY SendEffect
  <1>2. PICK t \in Tasks : t = smsg[d].task  BY <1>1
  <1>3. PICK ev \in Events :
           /\ ev.kind = sess[d] /\ (sess[d] = "delta" => ev.n = smsg[d].n)
           /\ \/ t \notin rx /\ chan' = chan
              \/ t \in rx /\ chan' = [chan EXCEPT ![t] = Append(@, ev)]
        BY <1>2, SendEffect
  <1>4. /\ got' = got /\ rx' = rx /\ made' = made /\ partial_results' = partial_results
        /\ oneshot' = oneshot /\ outcome' = outcome /\ sent' = sent /\ pc' = pc
        /\ pending_streams' = pending_streams /\ inbox' = inbox /\ work' = work /\ up' = up
        BY <1>1 DEF reqVars, devVars
  <1>5. \A e \in Devices : /\ HasCmd(e, u)' <=> HasCmd(e, u)
                           /\ OnWire(e, u)' <=> OnWire(e, u)
        BY <1>4 DEF HasCmd, OnWire
  <1>6. \A e \in Devices : Busy(e, u)' => Busy(e, u)  BY <1>4, <1>5 DEF Busy
  <1>7. CASE u # t \/ t \notin rx
    <2>1. chan'[u] = chan[u]  BY <1>0, <1>3, <1>7 DEF MapTypeOK
    <2>2. \A e \in Devices : HoldsSender(e, u)' =>
             /\ HoldsSender(e, u) /\ smsg'[e] = smsg[e]
             /\ sess'[e] = sess[e] \/ (u \notin rx /\ sess'[e] \in {"done", "remove"})
          BY <1>1, <1>2, <1>7 DEF HoldsSender
    <2>3. Live(u) => (InHandDelta(u)' <=> InHandDelta(u))
      <3>1. Live(u) => u # t  BY <1>1, <1>2, <1>7 DEF Live
      <3>2. u # t => /\ smsg[d].task # u
                     /\ sess'[d] # "idle" => smsg'[d].task # u
            BY <1>1, <1>2
      <3>3. sess'[d] # "delta"  BY <1>1
      <3> QED BY <1>1, <3>1, <3>2, <3>3 DEF InHandDelta
    <2>4. Live(u) => \A e \in Devices : Follows(up'[e], u, Base(u), made[u], work'[e] = u)
          BY <1>0, <1>4 DEF TaskInv, Continued
    <2> QED BY <1>4, <1>5, <1>6, <2>1, <2>2, <2>3, <2>4, Aside
  <1>8. CASE u = t /\ t \in rx
    <2>1. /\ u \in sent /\ (\A e \in Devices : ~HasCmd(e, u))
          /\ \A e \in Devices : e # d => work[e] # u /\ ~OnWire(e, u) /\ ~HoldsSender(e, u)
          BY <1>0, <1>1, <1>2, <1>8, OnlyHere
    <2>2. Streaming(u) /\ HoldsSender(d, u)  BY <1>1, <1>2, <1>8
    <2>3. got'[u] = got[u] /\ chan'[u] = Append(chan[u], ev)
          BY <1>0, <1>3, <1>4, <1>8 DEF MapTypeOK
    <2>a. PICK s, r : s = Stream(u) /\ r = Stream(u)'  OBVIOUS
    <2>b. PICK n \in Nat : n = Len(Stream(u))  BY <1>0, StreamParts
    <2>4. n = Len(Stream(u)) /\ s = Stream(u) /\ r = Stream(u)'  BY <2>a, <2>b
    <2>5. Len(s) = n /\ Len(r) = n + 1 /\ r[n + 1] = ev /\ \A i \in 1..n : r[i] = s[i]
      <3>1. /\ Len(Stream(u)') = Len(Stream(u)) + 1 /\ Stream(u)'[Len(Stream(u)) + 1] = ev
            /\ \A i \in 1..Len(Stream(u)) : Stream(u)'[i] = Stream(u)[i]
            BY <1>0, <2>3, StreamSend
      <3> QED BY <2>4, <3>1
    <2>6. /\ sess[d] # "done" => OnlyPieces(s)
          /\ sess[d] = "delta" => smsg[d].n = n + 1
          /\ sess[d] = "finish" => made[u] = n
          /\ sess[d] = "done" => Closing(s)
          /\ u \notin pending_streams => Closed(s)
          /\ Shaped(s)
      <3>1. /\ ~OnlyPieces(Stream(u)) => sess[d] \in {"done", "remove"}
            /\ sess[d] = "delta" => smsg[d].n = Len(Stream(u)) + 1
            /\ sess[d] \in {"usage", "finish"} => made[u] = Len(Stream(u))
            /\ sess[d] = "done" => Closing(Stream(u))
            /\ u \notin pending_streams => Closed(Stream(u))
            /\ Shaped(Stream(u))
            BY <1>0, <1>8, <2>2 DEF TaskInv, Closes, Fed
      <3> QED BY <1>1, <2>4, <3>1
    <2>7. Shaped(r)
      <3>1. \/ OnlyPieces(s) /\ ev.kind = "delta" /\ ev.n = Len(s) + 1
            \/ OnlyPieces(s) /\ ev.kind \in {"finish", "error"}
            \/ Closing(s) /\ ev.kind = "done"
            BY <1>1, <1>3, <2>5, <2>6
      <3> QED BY <2>5, <2>6, <3>1, ShapedAppend
    <2>8. Shaped(Stream(u))'  BY <2>4, <2>7 DEF Shaped, Closed
    <2>9. sess[d] # "delta" => \A e \in Devices : work[e] # u /\ ~OnWire(e, u)
          BY <1>0, <1>1, <1>2, <1>8, <2>1 DEF InHand
    <2>10. \A i \in 1..(n + 1) : i \in 1..n \/ i = n + 1  OBVIOUS
    <2>11. \A e \in Devices : HoldsSender(e, u)' => e = d /\ sess[d] # "delta"
          BY <1>1, <2>1 DEF HoldsSender
    <2>12. Closes(u)'
      <3>1. ASSUME sess[d] = "delta" PROVE OnlyPieces(r)
            BY <1>3, <2>5, <2>6, <2>10, <3>1 DEF OnlyPieces
      <3>2. ASSUME ~OnlyPieces(r), NEW e \in Devices
            PROVE  /\ ~HasCmd(e, u)' /\ work'[e] # u /\ ~OnWire(e, u)'
                   /\ HoldsSender(e, u)' => sess'[e] \in {"done", "remove"}
        <4>1. sess[d] # "delta"  BY <3>1, <3>2
        <4> QED BY <1>1, <1>4, <1>5, <2>1, <2>9, <2>11, <4>1
      <3>3. ASSUME NEW i \in 1..Len(r), r[i].kind = "finish" PROVE made'[u] = i - 1
        <4>1. CASE i \in 1..n
          <5>1. s[i].kind = "finish"  BY <2>5, <3>3, <4>1
          <5> QED BY <1>0, <1>4, <2>4, <4>1, <5>1 DEF TaskInv, Closes
        <4>2. CASE i = n + 1
          <5>1. sess[d] = "finish"  BY <1>3, <2>5, <3>3, <4>2
          <5> QED BY <1>4, <2>6, <4>2, <5>1
        <4> QED BY <2>5, <2>10, <4>1, <4>2
      <3>4. OnlyPieces(Stream(u))' <=> OnlyPieces(r)  BY <2>4 DEF OnlyPieces
      <3> QED BY <2>4, <3>2, <3>3, <3>4 DEF Closes
    <2>13. Fed(u)'
      <3>1. sess[d] \in {"error", "finish"} => Closing(r)
            BY <1>3, <2>5 DEF Closing
      <3>2. sess[d] = "done" => Closed(r)  BY <1>3, <2>5 DEF Closed
      <3>3. u \notin pending_streams => Closed(r)
        <4>1. ASSUME Closed(s), OnlyPieces(s) PROVE FALSE
          <5>1. n > 0 /\ s[n].kind = "done"  BY <2>5, <4>1 DEF Closed
          <5>2. n \in 1..n  BY <5>1
          <5> QED BY <2>5, <4>1, <5>1, <5>2 DEF OnlyPieces
        <4> QED BY <2>6, <3>2, <4>1
      <3>4. ASSUME NEW e \in Devices, HoldsSender(e, u)'
            PROVE  /\ sess'[e] \notin {"delta", "usage", "finish"}
                   /\ sess'[e] = "done" => Closing(r)
                   /\ sess'[e] = "remove" => Closed(r)
            BY <1>1, <2>11, <3>1, <3>2, <3>4
      <3>5. (Closing(Stream(u))' <=> Closing(r)) /\ (Closed(Stream(u))' <=> Closed(r))
            BY <2>4 DEF Closing, Closed
      <3> QED BY <1>4, <3>3, <3>4, <3>5 DEF Fed
    <2>14. Continued(u)'
      <3>1. ~InHandDelta(u)'  BY <1>1, <2>1 DEF InHandDelta, HoldsSender
      <3>2. Base(u)' = n + 1  BY <2>2, <2>4, <2>5, <3>1 DEF Base, Streaming
      <3>3. ASSUME NEW e \in Devices PROVE Follows(up[e], u, n + 1, made[u], work[e] = u)
        <4>1. CASE sess[d] = "delta"
          <5>1. InHandDelta(u)  BY <1>2, <1>8, <4>1 DEF InHandDelta
          <5>2. Base(u) = n + 1  BY <2>2, <2>4, <5>1 DEF Base
          <5> QED BY <1>0, <1>8, <5>2 DEF TaskInv, Continued, Live
        <4>2. CASE sess[d] # "delta"
          <5>1. work[e] # u /\ ~OnWire(e, u)  BY <2>9, <4>2
          <5>2. PICK q \in Seq(Chunks) : q = up[e]  BY <1>0 DEF DevTypeOK
          <5>3. ChunkFree(q, u)  BY <5>1, <5>2 DEF ChunkFree, OnWire
          <5>a. made[u] \in Nat  BY <1>0 DEF DevTypeOK
          <5>b. n + 1 \in Nat  OBVIOUS
          <5>4. PICK b \in Nat, k \in Nat : b = n + 1 /\ k = made[u]  BY <5>a, <5>b
          <5>5. Follows(q, u, b, k, FALSE)  BY <5>3, FollowsNothing
          <5>6. (work[e] = u) = FALSE  BY <5>1
          <5> QED BY <5>2, <5>4, <5>5, <5>6
        <4> QED BY <4>1, <4>2
      <3> QED BY <1>4, <3>2, <3>3 DEF Continued
    <2>15. Accumulated(u)'  BY <1>4, <1>6, KeptText
    <2>16. Unstarted(u)'  BY <1>4, <1>5, <2>1 DEF Unstarted
    <2>17. Succeeded(u)'
      <3>1. Succeeded(u)  BY <1>0 DEF TaskInv
      <3> QED BY <1>4, <3>1 DEF Succeeded, Streaming, Sse
    <2> QED BY <2>8, <2>12, <2>13, <2>14, <2>15, <2>16, <2>17 DEF TaskInv
  <1> QED BY <1>7, <1>8

\* It stores the usage record; at the end it removes the sender from the map.
LEMMA FinishStream ==
    ASSUME StreamInv, NEW d \in Devices, SessUsage(d) \/ SessRemove(d), NEW u \in Tasks
    PROVE  TaskInv(u)'
  <1>0. /\ SessTypeOK /\ SessionHasChunk /\ InHand /\ TaskInv(u)
        BY DEF StreamInv, WireInv, PathInv, IInv, TypeOK
  <1>1. /\ got' = got /\ chan' = chan /\ rx' = rx /\ made' = made /\ partial_results' = partial_results
        /\ oneshot' = oneshot /\ outcome' = outcome /\ sent' = sent /\ pc' = pc
        /\ inbox' = inbox /\ work' = work /\ up' = up
        /\ \A e \in Devices : e # d => sess'[e] = sess[e] /\ smsg'[e] = smsg[e]
        BY <1>0 DEF SessUsage, SessRemove, Goto, SessTypeOK, reqVars, devVars, histVars
  <1>2. \/ /\ sess[d] = "usage" /\ sess'[d] = "finish" /\ smsg'[d] = smsg[d]
           /\ pending_streams' = pending_streams
        \/ /\ sess[d] = "remove" /\ sess'[d] = "idle"
           /\ pending_streams' = pending_streams \ {smsg[d].task}
        BY <1>0 DEF SessUsage, SessRemove, Goto, SessTypeOK
  <1>3. \A e \in Devices : /\ HasCmd(e, u)' <=> HasCmd(e, u)
                           /\ OnWire(e, u)' <=> OnWire(e, u)
        BY <1>1 DEF HasCmd, OnWire
  <1>4. \A e \in Devices : Busy(e, u)' => Busy(e, u)  BY <1>1, <1>3 DEF Busy
  <1>5. \A e \in Devices : HoldsSender(e, u)' =>
           /\ HoldsSender(e, u) /\ smsg'[e] = smsg[e]
           /\ sess'[e] = sess[e] \/ (sess[e] = "usage" /\ sess'[e] = "finish")
        BY <1>1, <1>2 DEF HoldsSender
  <1>6. InHandDelta(u)' <=> InHandDelta(u)
    <2>1. sess[d] # "delta" /\ sess'[d] # "delta"  BY <1>2
    <2> QED BY <1>1, <2>1 DEF InHandDelta
  <1>7. u \in rx' /\ u \notin pending_streams' => u \notin pending_streams \/ Closed(Stream(u))
    <2>1. ASSUME u \in rx, u \in pending_streams, u \notin pending_streams' PROVE Closed(Stream(u))
      <3>1. sess[d] = "remove" /\ smsg[d].task = u  BY <1>2, <2>1
      <3>2. HoldsSender(d, u) /\ Streaming(u)  BY <1>0, <3>1 DEF HoldsSender, InHand
      <3> QED BY <1>0, <2>1, <3>1, <3>2 DEF TaskInv, Fed
    <2> QED BY <1>1, <2>1
  <1>8. Live(u) => \A e \in Devices : Follows(up'[e], u, Base(u), made[u], work'[e] = u)
        BY <1>0, <1>1 DEF TaskInv, Continued
  <1> QED BY <1>1, <1>3, <1>4, <1>5, <1>6, <1>7, <1>8, Aside

\* Pieces 1 to k and piece k + 1 are pieces 1 to k + 1.
LEMMA PieceAppend ==
    ASSUME NEW k \in Nat, NEW p \in Seq(Nat), Len(p) = k, p = PieceSeq(k)
    PROVE  Append(p, k + 1) = PieceSeq(k + 1) /\ Len(Append(p, k + 1)) = k + 1
  <1>1. PICK a \in Seq(Nat) : /\ a = Append(p, k + 1) /\ Len(a) = k + 1 /\ a[k + 1] = k + 1
                              /\ \A i \in 1..k : a[i] = p[i]
    <2>1. PICK x \in Nat : x = k + 1  OBVIOUS
    <2>2. Append(p, x) \in Seq(Nat) /\ Len(Append(p, x)) = Len(p) + 1  BY AppendProperties
    <2>3. Append(p, x)[Len(p) + 1] = x  BY AppendProperties
    <2>4. \A i \in 1..Len(p) : Append(p, x)[i] = p[i]  BY AppendProperties
    <2> QED BY <2>1, <2>2, <2>3, <2>4
  <1>2. PICK b \in Seq(Nat) : b = PieceSeq(k + 1) /\ Len(b) = k + 1 /\ \A i \in 1..(k + 1) : b[i] = i
    <2>1. PieceSeq(k + 1) \in Seq(Nat) /\ Len(PieceSeq(k + 1)) = k + 1  BY DEF PieceSeq
    <2>2. \A i \in 1..(k + 1) : PieceSeq(k + 1)[i] = i  BY DEF PieceSeq
    <2> QED BY <2>1, <2>2
  <1>3. \A i \in 1..k : a[i] = i  BY <1>1 DEF PieceSeq
  <1>4. \A i \in 1..(k + 1) : a[i] = b[i]
    <2>1. \A i \in 1..(k + 1) : i \in 1..k \/ i = k + 1  OBVIOUS
    <2> QED BY <1>1, <1>2, <1>3, <2>1
  <1>5. a = b  BY <1>1, <1>2, <1>4, SeqEqual
  <1> QED BY <1>1, <1>2, <1>5

\* A chunk without a stream sender: text is accumulated, and a done chunk turns it into the
\* result; for a stream whose sender has gone, nobody reads any more.
LEMMA PlainStream ==
    ASSUME StreamInv, TypeOK', NEW d \in Devices, PlainChunk(d), NEW u \in Tasks PROVE TaskInv(u)'
  <1>0. /\ ReqTypeOK /\ MapTypeOK /\ DevTypeOK /\ WireInv /\ Kinded /\ TaskInv(u) /\ DevTypeOK'
        /\ None \notin Seq(Nat)
        BY SchedulerAssumption DEF StreamInv, WireInv, PathInv, IInv, TypeOK
  <1> DEFINE m == Head(up[d])
             t == m.task
  <1>1. /\ up[d] # <<>> /\ up' = [up EXCEPT ![d] = Tail(@)] /\ t \notin pending_streams
        BY DEF PlainChunk
  <1>2. /\ got' = got /\ chan' = chan /\ rx' = rx /\ made' = made /\ sess' = sess /\ smsg' = smsg
        /\ outcome' = outcome /\ sent' = sent /\ pc' = pc
        /\ pending_streams' = pending_streams /\ inbox' = inbox /\ work' = work
        BY DEF PlainChunk, reqVars, histVars, sessVars
  <1>3. /\ m = up[d][1] /\ m \in Chunks /\ t \in Tasks /\ OnWire(d, t)
        /\ \A e \in Devices, v \in Tasks : OnWire(e, v)' => OnWire(e, v)
        BY <1>0, <1>1, UpTail, Zenon
  <1>4. /\ m.kind \in {"delta", "done", "error"}
        /\ m.kind = "delta" =>
              /\ partial_results' = [partial_results EXCEPT ![t] = Append(Partial(t), m.n)]
              /\ oneshot' = oneshot
        /\ m.kind = "done" =>
              /\ partial_results' = [partial_results EXCEPT ![t] = None]
              /\ \/ oneshot' = oneshot
                 \/ t \in pending_tasks /\ oneshot' = [oneshot EXCEPT ![t] = [ok |-> TRUE, text |-> Partial(t)]]
        /\ m.kind = "error" =>
              /\ \/ partial_results' = [partial_results EXCEPT ![t] = None]
                 \/ partial_results' = [partial_results EXCEPT ![t] = partial_results[t]]
              /\ \/ oneshot' = oneshot
                 \/ t \in pending_tasks /\ oneshot' = [oneshot EXCEPT ![t] = [ok |-> FALSE, text |-> <<>>]]
    <2>1. m.kind \in {"delta", "done", "error"}  BY <1>3 DEF Chunks
    <2> QED BY <2>1 DEF PlainChunk, handle_inference_result
  <1> HIDE DEF m
  <1>5. \A e \in Devices : /\ HasCmd(e, u)' <=> HasCmd(e, u)
                           /\ HoldsSender(e, u)' <=> HoldsSender(e, u)
        BY <1>2 DEF HasCmd, HoldsSender
  <1>6. \A e \in Devices : Busy(e, u)' => Busy(e, u)  BY <1>2, <1>3, <1>5 DEF Busy
  <1>7. InHandDelta(u)' <=> InHandDelta(u)  BY <1>2 DEF InHandDelta
  <1>8. Stream(u)' = Stream(u)  BY <1>2 DEF Stream
  <1>9. CASE u # t
    <2>1. partial_results'[u] = partial_results[u] /\ oneshot'[u] = oneshot[u]
      <3>1. \E y : partial_results' = [partial_results EXCEPT ![t] = y]  BY <1>4
      <3>2. oneshot' = oneshot \/ \E y : oneshot' = [oneshot EXCEPT ![t] = y]  BY <1>4
      <3> QED BY <1>0, <1>9, <3>1, <3>2 DEF MapTypeOK
    <2>2. Live(u) => \A e \in Devices : Follows(up'[e], u, Base(u), made[u], work'[e] = u)
      <3>1. Head(up[d]).task # u  BY <1>9 DEF m
      <3> QED BY <1>1, <1>2, <3>1, OtherChunk
    <2> QED BY <1>2, <1>5, <1>6, <1>7, <2>1, <2>2, Aside
  <1>10. CASE u = t
    <2>1. /\ u \in sent /\ (\A e \in Devices : ~HasCmd(e, u))
          /\ \A e \in Devices : e # d => work[e] # u /\ ~OnWire(e, u) /\ ~HoldsSender(e, u)
          BY <1>0, <1>3, <1>10, OnlyHere
    <2>2. Shaped(Stream(u))' /\ Closes(u)' /\ Fed(u)'
          BY <1>2, <1>5, <1>6, <1>8, KeptStream
    <2>3. Unstarted(u)'  BY <1>2, <1>5, <2>1 DEF Unstarted
    <2>4. oneshot[u] = None  BY <1>0, <1>3, <1>10 DEF TaskInv, Accumulated
    <2>5. CASE Streaming(u)
      <3>1. u \notin rx
        <4>1. ASSUME u \in rx PROVE FALSE
          <5>1. Closed(Stream(u)) /\ Len(Stream(u)) \in Nat
                BY <1>0, <1>1, <1>10, <2>5, <4>1, StreamParts DEF TaskInv, Fed
          <5>2. Len(Stream(u)) \in 1..Len(Stream(u))  BY <5>1 DEF Closed
          <5>3. ~OnlyPieces(Stream(u))  BY <5>1, <5>2 DEF OnlyPieces, Closed
          <5> QED BY <1>0, <1>3, <1>10, <5>3 DEF TaskInv, Closes
        <4> QED BY <4>1
      <3>2. oneshot'[u] = oneshot[u]
        <4>1. u \notin pending_tasks  BY <1>0, <2>5 DEF Kinded
        <4> QED BY <1>4, <1>10, <4>1
      <3>3. Accumulated(u)'  BY <1>2, <1>6, <2>5, <3>2, KeptText
      <3>4. Continued(u)'  BY <1>2, <2>5, <3>1 DEF Continued, Live, Streaming
      <3>5. Succeeded(u)'
        <4>1. Succeeded(u)  BY <1>0 DEF TaskInv
        <4> QED BY <1>2, <2>5, <4>1 DEF Succeeded, Streaming, Sse
      <3> QED BY <2>2, <2>3, <3>3, <3>4, <3>5 DEF TaskInv
    <2>6. CASE ~Streaming(u)
      <3>1. Partial(u) \in Seq(Nat)  BY <1>0 DEF Partial, MapTypeOK
      <3>2. PICK p \in Seq(Nat), b \in Nat, n \in Nat, q \in Seq(Chunks) :
               p = Partial(u) /\ b = Len(p) /\ n = made[u] /\ q = up[d]
        <4>1. made[u] \in Nat /\ up[d] \in Seq(Chunks)  BY <1>0 DEF DevTypeOK
        <4>2. Len(Partial(u)) \in Nat  BY <3>1
        <4> QED BY <3>1, <4>1, <4>2
      <3>3. p = PieceSeq(b) /\ Base(u) = b  BY <1>0, <2>6, <3>2 DEF TaskInv, Accumulated, Base
      <3>4. PICK w \in BOOLEAN : w = (work[d] = u)  OBVIOUS
      <3>5. q # <<>> /\ q[1] = m /\ q[1].task = u /\ Follows(q, u, b, n, w)
        <4>1. Follows(up[d], u, Base(u), made[u], work[d] = u)  BY <1>0, <2>6 DEF TaskInv, Continued, Live
        <4> QED BY <1>1, <1>3, <1>10, <3>2, <3>3, <3>4, <4>1
      <3>6. /\ q[1].kind = "delta" => q[1].n = b + 1 /\ b + 1 <= n
            /\ q[1].kind = "done" => b = n
        <4>1. q # <<>> /\ q[1].task = u /\ Follows(q, u, b, n, w)  BY <3>5
        <4> QED BY <4>1, FollowsHead, SMTT(30)
      <3>7. up'[d] = Tail(q)  BY <1>0, <1>1, <3>2 DEF DevTypeOK
      <3>8. m.kind # "delta" => work[d] # u /\ ~OnWire(d, u)'
        <4>1. m.kind # "delta" => Head(up[d]).kind # "delta" /\ Head(up[d]).task = u  BY <1>10 DEF m
        <4> QED BY <1>0, <1>1, <4>1, LastRead
      <3>9. Succeeded(u)'
        <4>1. outcome[u] # "ok"  BY <1>0, <2>4, <2>6 DEF TaskInv, Succeeded
        <4>2. Succeeded(u)  BY <1>0 DEF TaskInv
        <4> QED BY <1>2, <4>1, <4>2 DEF Succeeded, Sse
      <3>10. Accumulated(u)' /\ Base(u)' = (IF m.kind = "delta" THEN b + 1 ELSE Len(Partial(u)'))
             /\ Len(Partial(u)') \in Nat
        <4>1. CASE m.kind = "delta"
          <5>1. partial_results'[u] = Append(p, b + 1) /\ oneshot'[u] = None
            <6>1. m.n = b + 1  BY <3>5, <3>6, <4>1
            <6> QED BY <1>0, <1>4, <1>10, <2>4, <3>2, <4>1, <6>1 DEF MapTypeOK
          <5>2. Append(p, b + 1) = PieceSeq(b + 1) /\ Len(Append(p, b + 1)) = b + 1
                BY <3>2, <3>3, PieceAppend
          <5>3. Append(p, b + 1) \in Seq(Nat)  OBVIOUS
          <5>4. Partial(u)' = Append(p, b + 1)  BY <1>0, <5>1, <5>3 DEF Partial
          <5>5. Accumulated(u)'  BY <5>1, <5>2, <5>4 DEF Accumulated, PieceSeq, Streaming
          <5> QED BY <2>6, <4>1, <5>2, <5>4, <5>5 DEF Base, Streaming
        <4>2. CASE m.kind # "delta"
          <5>1. Partial(u)' = PieceSeq(Len(Partial(u)')) /\ Len(Partial(u)') \in Nat
            <6>1. partial_results'[u] = None \/ partial_results'[u] = partial_results[u]
                  BY <1>0, <1>4, <1>10, <4>2 DEF MapTypeOK
            <6>2. CASE partial_results'[u] = None
              <7>1. Partial(u)' = <<>>  BY <6>2 DEF Partial
              <7>2. Len(Partial(u)') = 0  BY <7>1
              <7> QED BY <7>1, <7>2 DEF PieceSeq
            <6>3. CASE partial_results'[u] = partial_results[u]
              <7>1. Partial(u)' = p  BY <3>2, <6>3 DEF Partial
              <7> QED BY <3>2, <3>3, <7>1
            <6> QED BY <6>1, <6>2, <6>3
          <5>2. oneshot'[u] # None /\ oneshot'[u].ok => oneshot'[u].text = PieceSeq(made[u])
            <6>1. \/ oneshot'[u] = None \/ oneshot'[u] = [ok |-> FALSE, text |-> <<>>]
                  \/ m.kind = "done" /\ oneshot'[u] = [ok |-> TRUE, text |-> p]
                  BY <1>0, <1>4, <1>10, <2>4, <3>2, <4>2 DEF MapTypeOK
            <6>2. m.kind = "done" => p = PieceSeq(made[u])  BY <3>2, <3>3, <3>5, <3>6
            <6> QED BY <6>1, <6>2
          <5>3. \A e \in Devices : ~HasCmd(e, u)' /\ work'[e] # u /\ ~OnWire(e, u)'
                BY <1>2, <1>3, <1>5, <2>1, <3>8, <4>2
          <5>4. Accumulated(u)'
            <6>1. (Partial(u) = PieceSeq(Len(Partial(u))))'  BY <5>1 DEF PieceSeq
            <6>2. oneshot'[u] # None => (oneshot'[u].ok => oneshot'[u].text = PieceSeq(made'[u]))
                  BY <1>2, <5>2
            <6> QED BY <5>3, <6>1, <6>2 DEF Accumulated, PieceSeq
          <5> QED BY <2>6, <4>2, <5>1, <5>4 DEF Base, Streaming
        <4> QED BY <4>1, <4>2
      <3>11. Continued(u)'
        <4>1. ASSUME NEW e \in Devices PROVE Follows(up'[e], u, Base(u)', made[u], work[e] = u)
          <5>1. CASE e = d /\ m.kind = "delta"
            <6>1. PICK c \in Nat : c = b + 1  OBVIOUS
            <6>2. Follows(Tail(q), u, c, n, w)  BY <3>5, <5>1, <6>1, FollowsTail
            <6>3. Base(u)' = c  BY <3>10, <5>1, <6>1
            <6> QED BY <3>2, <3>4, <3>7, <5>1, <6>2, <6>3
          <5>2. CASE e # d \/ m.kind # "delta"
            <6>1. work[e] # u /\ ~OnWire(e, u)'  BY <1>3, <2>1, <3>8, <5>2
            <6>2. PICK r \in Seq(Chunks) : r = up'[e]  BY <1>0 DEF DevTypeOK
            <6>3. ChunkFree(r, u)  BY <6>1, <6>2 DEF ChunkFree, OnWire
            <6>4. PICK c \in Nat : c = Base(u)'  BY <3>10
            <6>5. Follows(r, u, c, n, FALSE)  BY <6>3, FollowsNothing
            <6>6. (work[e] = u) = FALSE  BY <6>1
            <6> QED BY <3>2, <6>2, <6>4, <6>5, <6>6
          <5> QED BY <5>1, <5>2
        <4> QED BY <1>2, <4>1 DEF Continued
      <3> QED BY <2>2, <2>3, <3>9, <3>10, <3>11 DEF TaskInv
    <2> QED BY <2>5, <2>6
  <1> QED BY <1>9, <1>10

\* All steps keep what is known of each task's answer.
LEMMA StreamInvariance == Spec => []StreamInv
  <1>1. Init /\ WireInv => StreamInv
    <2> SUFFICES ASSUME Init, WireInv, NEW t \in Tasks PROVE TaskInv(t)
        BY DEF StreamInv
    <2>1. /\ Untouched(t) /\ outcome[t] # "ok" /\ pc[t] # "recv" /\ rx = {}
          /\ \A d \in Devices : up[d] = <<>> /\ work[d] = None /\ sess[d] = "idle" /\ inbox[d] = <<>>
          BY DEF Init, Untouched
    <2>2. Stream(t) = <<>> /\ Partial(t) = <<>>  BY <2>1 DEF Untouched, Stream, Partial
    <2>3. Len(Stream(t)) = 0 /\ Len(Partial(t)) = 0  BY <2>2
    <2>4. Shaped(Stream(t)) /\ OnlyPieces(Stream(t))  BY <2>3 DEF Shaped, Closed, OnlyPieces
    <2>5. Closes(t)  BY <2>3, <2>4 DEF Closes
    <2>6. Fed(t)  BY <2>1 DEF Fed
    <2>7. Accumulated(t)  BY <2>1, <2>2, <2>3 DEF Accumulated, Untouched, PieceSeq
    <2>8. Unstarted(t)  BY <2>1 DEF Unstarted
    <2>9. Succeeded(t)  BY <2>1 DEF Succeeded
    <2>10. Continued(t)
      <3>1. ~InHandDelta(t)  BY <2>1 DEF InHandDelta
      <3>2. Base(t) = 0 /\ made[t] = 0  BY <2>1, <2>3, <3>1 DEF Base, Untouched
      <3>3. ASSUME NEW d \in Devices PROVE Follows(up[d], t, 0, 0, work[d] = t)
            BY <2>1, SchedulerAssumption DEF Follows, Covered
      <3> QED BY <3>2, <3>3 DEF Continued
    <2> QED BY <2>4, <2>5, <2>6, <2>7, <2>8, <2>9, <2>10 DEF TaskInv
  <1>2. StreamInv /\ WireInv' /\ [Next]_vars => StreamInv'
    <2> SUFFICES ASSUME StreamInv, WireInv', [Next]_vars, NEW u \in Tasks PROVE TaskInv(u)'
        BY DEF StreamInv
    <2>0. TypeOK'  BY DEF WireInv, PathInv, IInv
    <2>1. CASE UNCHANGED vars
      <3>1. /\ UNCHANGED <<got, chan, rx, outcome, pc, partial_results, oneshot, made, up, work>>
            /\ UNCHANGED <<sess, smsg, sent, pending_streams, inbox>>
            BY <2>1 DEF vars, reqVars, mapVars, devVars, sessVars, histVars
      <3>2. \A d \in Devices : HasCmd(d, u)' => HasCmd(d, u)  BY <3>1 DEF HasCmd
      <3> QED BY <3>1, <3>2, AsideStill
    <2>2. ASSUME NEW t \in Tasks, RequestStep(t) \/ CancelStep(t) \/ ClientGone(t) PROVE TaskInv(u)'
          BY <2>2, RequestStream
    <2>3. ASSUME NEW d \in Devices, DeviceStep(d) \/ Register(d) \/ ReportModels(d) \/ LinkDies(d)
          PROVE  TaskInv(u)'
          BY <2>3, DeviceStream
    <2>4. ASSUME NEW d \in Devices, SessionStep(d) PROVE TaskInv(u)'
      <3>1. CASE TakeStreamChunk(d)  BY <2>0, <3>1, TakeStream
      <3>2. CASE SessDelta(d) \/ SessError(d) \/ SessFinish(d) \/ SessDone(d)  BY <2>0, <3>2, SendStream
      <3>3. CASE SessUsage(d) \/ SessRemove(d)  BY <3>3, FinishStream
      <3>4. CASE PlainChunk(d)  BY <2>0, <3>4, PlainStream
      <3>5. CASE SessionEnds(d)  BY <3>5, DeviceStream
      <3> QED BY <2>4, <3>1, <3>2, <3>3, <3>4, <3>5 DEF SessionStep
    <2> QED BY <2>1, <2>2, <2>3, <2>4 DEF Next
  <1> QED BY <1>1, <1>2, WireInvariance, PTL DEF Spec

\* handle_connections.rs (handle_inference_result_chunk): whatever the interleaving of devices,
\* session tasks and slow readers, a client is sent pieces 1, 2, 3, ... in order, then one
\* Finish or Error, then Done, and nothing after it.
THEOREM StreamsInOrder == Spec => []StreamWellFormed
  <1>1. StreamInv => StreamWellFormed
    <2> SUFFICES ASSUME StreamInv, NEW t \in Tasks, NEW i \in 1..Len(Stream(t))
                 PROVE  LET s == Stream(t) IN
                        /\ s[i].kind = "delta" => s[i].n = i /\ (i > 1 => s[i - 1].kind = "delta")
                        /\ s[i].kind \in {"finish", "error"} => (i = 1 \/ s[i - 1].kind = "delta")
                        /\ s[i].kind = "done" =>
                             i = Len(s) /\ i > 1 /\ s[i - 1].kind \in {"finish", "error"}
        BY DEF StreamWellFormed
    <2>1. PICK s \in Seq(Events) : s = Stream(t) /\ Shaped(s)
          BY StreamParts DEF StreamInv, TaskInv, WireInv, PathInv, IInv, TypeOK
    <2>2. PICK n \in Nat : n = Len(s)  BY <2>1
    <2>3. i \in 1..n /\ (i > 1 => i - 1 \in 1..(n - 1) /\ i - 1 \in 1..n /\ (i - 1) + 1 = i)
          BY <2>1, <2>2
    <2>4. \A j \in 1..n : s[j] \in Events  BY <2>1, <2>2
    <2>5. \A j \in 1..n : s[j].kind \in {"delta", "finish", "error", "done"}  BY <2>4 DEF Events
    <2>6. /\ s[i].kind = "delta" => s[i].n = i
          /\ i > 1 /\ s[i - 1].kind # "delta" => s[i - 1].kind # "done" /\ s[i].kind = "done"
      <3>1. \A j \in 1..(n - 1) : s[j].kind # "delta" => s[j].kind # "done" /\ s[j + 1].kind = "done"
            BY <2>1, <2>2 DEF Shaped
      <3>2. s[i].kind = "delta" => s[i].n = i  BY <2>1, <2>2, <2>3 DEF Shaped
      <3> QED BY <2>3, <3>1, <3>2
    <2>7. ASSUME s[i].kind = "done" PROVE i = n /\ i > 1 /\ s[i - 1].kind \in {"finish", "error"}
      <3>1. \A j \in 1..(n - 1) : s[j].kind # "done"  BY <2>1, <2>2 DEF Shaped
      <3>2. i = n  BY <2>3, <2>7, <3>1
      <3>3. Closed(s)  BY <2>2, <2>3, <2>7, <3>2 DEF Closed
      <3>4. n > 1 /\ s[n - 1].kind # "delta"  BY <2>1, <2>2, <3>3 DEF Shaped
      <3> QED BY <2>3, <2>5, <3>1, <3>2, <3>4
    <2> QED BY <2>1, <2>2, <2>3, <2>6, <2>7
  <1> QED BY <1>1, StreamInvariance, PTL

\* scheduler.rs, handlers.rs: a request that ends in success carries all the text its device
\* made, every piece once and in order, whether it was streamed or accumulated; a connection
\* that breaks, a client that reads slowly and a device that fails never make a success of
\* part of an answer.
THEOREM SuccessCarriesAll == Spec => []SuccessIsComplete
  <1>1. StreamInv => SuccessIsComplete
    <2> SUFFICES ASSUME StreamInv, NEW t \in Tasks, outcome[t] = "ok"
                 PROVE  IF Streaming(t)
                          THEN /\ made[t] <= Len(got[t])
                               /\ \A i \in 1..Len(got[t]) : got[t][i].kind = "delta" <=> i <= made[t]
                               /\ \A i \in 1..made[t] : got[t][i].n = i
                          ELSE oneshot[t].text = PieceSeq(made[t])
        BY DEF SuccessIsComplete
    <2>0. ReqTypeOK /\ MapTypeOK /\ TaskInv(t)  BY DEF StreamInv, WireInv, PathInv, IInv, TypeOK
    <2>1. CASE ~Streaming(t)  BY <2>0, <2>1 DEF TaskInv, Succeeded, Accumulated
    <2>2. CASE Streaming(t)
      <3>a. PICK g \in Seq(Events) : g = got[t]  BY <2>0, StreamParts
      <3>b. PICK s : s = Stream(t)  OBVIOUS
      <3>1. g = got[t] /\ s = Stream(t)  BY <3>a, <3>b
      <3>2. /\ Len(s) = Len(g) + Len(chan[t]) /\ Len(g) \in Nat /\ Len(chan[t]) \in Nat
            /\ \A j \in 1..Len(g) : s[j] = g[j]
            BY <2>0, <3>1, StreamParts
      <3>3. PICK x \in Nat, n \in Nat : x = Len(g) /\ n = Len(s) /\ x <= n  BY <3>2
      <3>4. PICK i \in 1..x : g[i].kind = "finish"  BY <2>0, <2>2, <3>1, <3>3 DEF TaskInv, Succeeded
      <3>5. i \in 1..n /\ s[i].kind = "finish"  BY <3>2, <3>3, <3>4
      <3>6. made[t] = i - 1  BY <2>0, <3>1, <3>3, <3>5 DEF TaskInv, Closes
      <3>7. \A j \in 1..(n - 1) : s[j].kind # "delta" => j = n - 1 /\ s[j + 1].kind = "done"
            BY <2>0, <3>1, <3>3 DEF TaskInv, Shaped
      <3>8. \A j \in 1..n : s[j].kind = "delta" => s[j].n = j
            BY <2>0, <3>1, <3>3 DEF TaskInv, Shaped
      <3>9. ASSUME NEW j \in 1..(i - 1) PROVE s[j].kind = "delta"
        <4>1. j \in 1..(n - 1)  BY <3>3
        <4>2. j = n - 1 => j + 1 = i  BY <3>3
        <4> QED BY <3>5, <3>7, <4>1, <4>2
      <3>10. ASSUME NEW j \in i..x PROVE s[j].kind # "delta"
        <4>1. CASE j = i  BY <3>5, <4>1
        <4>2. CASE j # i
          <5>1. i \in 1..(n - 1)  BY <3>3, <4>2
          <5>2. i = n - 1 /\ s[i + 1].kind = "done"  BY <3>5, <3>7, <5>1
          <5>3. j = i + 1  BY <3>3, <4>2, <5>2
          <5> QED BY <5>2, <5>3
        <4> QED BY <4>1, <4>2
      <3>11. ASSUME NEW j \in 1..x
             PROVE  /\ g[j].kind = "delta" <=> j <= made[t]
                    /\ j <= made[t] => g[j].n = j
        <4>1. s[j] = g[j] /\ j \in 1..n  BY <3>2, <3>3
        <4>2. CASE j \in 1..(i - 1)  BY <3>6, <3>8, <3>9, <4>1, <4>2
        <4>3. CASE j \in i..x  BY <3>6, <3>10, <4>1, <4>3
        <4> QED BY <4>2, <4>3
      <3>12. made[t] <= x /\ made[t] \in Nat /\ \A j \in 1..made[t] : j \in 1..x /\ j <= made[t]
             BY <3>6
      <3> QED BY <2>2, <3>1, <3>3, <3>11, <3>12
    <2> QED BY <2>1, <2>2
  <1> QED BY <1>1, StreamInvariance, PTL

=============================================================================
