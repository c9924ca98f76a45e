----------------------------- MODULE LocalServer -----------------------------
(***************************************************************************)
(* The desktop worker's local HTTP server: its OpenAI and Anthropic         *)
(* handlers with their permits, the blocking generation job behind each     *)
(* request, and the mutex of the model, which the jobs of the worker's own  *)
(* tasks take too.  A job outlives a request whose client goes away.        *)
(***************************************************************************)
EXTENDS Naturals, FiniteSets

CONSTANTS
    LocalRequests,   \* requests to the server and tasks of the worker
    MaxGenerations,  \* max_concurrent_generations
    MaxSse,          \* max_sse_connections
    PieceChannel,    \* capacity of the channel of a stream (64)
    MaxPieces        \* bound: pieces of one generation

ASSUME ServerAssumption == /\ MaxGenerations \in Nat \ {0} /\ MaxSse \in Nat \ {0}
                           /\ PieceChannel \in Nat \ {0} /\ MaxPieces \in Nat

NoJob == "no_job"

VARIABLES
    reqPc,       \* "new", "waiting" (for the whole text), "streaming", "answered",
                 \* "refused", "failed" or "left"
    permits,     \* permits a request holds
    streams,     \* its job sends the pieces to a channel
    job,         \* its blocking job: "none", "queued", "running", "sending" or "ended"
    pieces,      \* pieces the job has produced
    channel,     \* pieces in its channel
    modelHolder  \* the job that holds the model's mutex

srvVars == <<reqPc, permits, streams, job, pieces, channel, modelHolder>>

SrvInit ==
    /\ reqPc = [r \in LocalRequests |-> "new"]
    /\ permits = [r \in LocalRequests |-> {}]
    /\ streams = [r \in LocalRequests |-> FALSE]
    /\ job = [r \in LocalRequests |-> "none"]
    /\ pieces = [r \in LocalRequests |-> 0]
    /\ channel = [r \in LocalRequests |-> 0]
    /\ modelHolder = NoJob

Holding(p) == {r \in LocalRequests : p \in permits[r]}
TryGenerationPermit == Cardinality(Holding("generation")) < MaxGenerations
TrySsePermit == Cardinality(Holding("sse")) < MaxSse

\* The request is accepted and its job given to the blocking threads.
Begin(r, how, with) ==
    /\ reqPc[r] = "new"
    /\ reqPc' = [reqPc EXCEPT ![r] = how]
    /\ permits' = [permits EXCEPT ![r] = with]
    /\ streams' = [streams EXCEPT ![r] = (how = "streaming")]
    /\ job' = [job EXCEPT ![r] = "queued"]
    /\ UNCHANGED <<pieces, channel, modelHolder>>

\* A wrong API key, too long or unsafe a prompt, no permit, or no model: the
\* answer is an error, and a permit it already had is dropped with it.
Refuse(r) ==
    /\ reqPc[r] = "new"
    /\ reqPc' = [reqPc EXCEPT ![r] = "refused"]
    /\ UNCHANGED <<permits, streams, job, pieces, channel, modelHolder>>

ChatCompletions(r) == TryGenerationPermit /\ Begin(r, "waiting", {"generation"})
ChatStream(r) == /\ TryGenerationPermit /\ TrySsePermit
                 /\ Begin(r, "streaming", {"generation", "sse"})
Completions(r) == TryGenerationPermit /\ Begin(r, "waiting", {"generation"})
MessagesNonStream(r) == TryGenerationPermit /\ Begin(r, "waiting", {"generation"})
MessagesStream(r) == /\ TryGenerationPermit /\ TrySsePermit
                     /\ Begin(r, "streaming", {"generation", "sse"})

\* stream_inference_task_to_server: a task from the control connection.
WorkerTask(r) == Begin(r, "streaming", {})

-------------------------------------------------------------------------------
(* The blocking job.                                                         *)

LockModel(r) ==
    /\ job[r] = "queued" /\ modelHolder = NoJob
    /\ modelHolder' = r
    /\ job' = [job EXCEPT ![r] = "running"]
    /\ UNCHANGED <<reqPc, permits, streams, pieces, channel>>

EndJob(r) == job' = [job EXCEPT ![r] = "ended"] /\ modelHolder' = NoJob

\* generate_with_cached_model_sampling and stream_with_cached_model_sampling
\* sample a token: one adds it to the text, the other has to send it.
NextToken(r) ==
    /\ job[r] = "running" /\ pieces[r] < MaxPieces
    /\ pieces' = [pieces EXCEPT ![r] = @ + 1]
    /\ job' = [job EXCEPT ![r] = IF streams[r] THEN "sending" ELSE "running"]
    /\ UNCHANGED <<reqPc, permits, streams, channel, modelHolder>>

\* Variant: a full channel is waited for even when its reader has left.
WaitForReader(r) ==
    /\ job[r] = "sending" /\ reqPc[r] = "streaming" /\ channel[r] < PieceChannel
    /\ channel' = [channel EXCEPT ![r] = @ + 1]
    /\ job' = [job EXCEPT ![r] = "running"]
    /\ UNCHANGED <<reqPc, permits, streams, pieces, modelHolder>>

\* blocking_send waits for room, and fails once the receiver is gone, which
\* ends the job.
SendPiece(r) ==
    /\ job[r] = "sending"
    /\ \/ /\ reqPc[r] = "streaming" /\ channel[r] < PieceChannel
          /\ channel' = [channel EXCEPT ![r] = @ + 1]
          /\ job' = [job EXCEPT ![r] = "running"]
          /\ UNCHANGED modelHolder
       \/ reqPc[r] = "left" /\ EndJob(r) /\ UNCHANGED channel
    /\ UNCHANGED <<reqPc, permits, streams, pieces>>

\* The end of the text, the limit, or an error of the library.
JobEnds(r) ==
    /\ job[r] = "running" /\ EndJob(r)
    /\ UNCHANGED <<reqPc, permits, streams, pieces, channel>>

-------------------------------------------------------------------------------
(* The client, and the end of the request.                                   *)

ReadPiece(r) ==
    /\ reqPc[r] = "streaming" /\ channel[r] > 0
    /\ channel' = [channel EXCEPT ![r] = @ - 1]
    /\ UNCHANGED <<reqPc, permits, streams, job, pieces, modelHolder>>

Ends(r, how) ==
    /\ reqPc' = [reqPc EXCEPT ![r] = how]
    /\ permits' = [permits EXCEPT ![r] = {}]

\* A stream whose job has failed ends with [DONE] as well.
StreamDone(r) ==
    /\ reqPc[r] = "streaming" /\ channel[r] = 0 /\ job[r] = "ended"
    /\ Ends(r, "answered")
    /\ UNCHANGED <<streams, job, pieces, channel, modelHolder>>

TextDone(r) ==
    /\ reqPc[r] = "waiting" /\ job[r] = "ended"
    /\ \/ Ends(r, "answered") \/ Ends(r, "failed")
    /\ UNCHANGED <<streams, job, pieces, channel, modelHolder>>

\* The connection closes: the handler and its permits are dropped at once.
ClientLeaves(r) ==
    /\ reqPc[r] \in {"waiting", "streaming"}
    /\ Ends(r, "left")
    /\ channel' = [channel EXCEPT ![r] = 0]
    /\ UNCHANGED <<streams, job, pieces, modelHolder>>

JobStep(r) == LockModel(r) \/ NextToken(r) \/ SendPiece(r) \/ JobEnds(r)
AnswerStep(r) == ReadPiece(r) \/ StreamDone(r) \/ TextDone(r)

SrvNext ==
    \E r \in LocalRequests :
        \/ Refuse(r) \/ ChatCompletions(r) \/ ChatStream(r) \/ Completions(r)
        \/ MessagesNonStream(r) \/ MessagesStream(r) \/ WorkerTask(r)
        \/ JobStep(r) \/ AnswerStep(r) \/ ClientLeaves(r)

\* The blocking threads run; a client with something to read reads it or goes away.
SrvFairness ==
    \A r \in LocalRequests :
        /\ WF_srvVars(JobStep(r))
        /\ WF_srvVars(AnswerStep(r) \/ (channel[r] > 0 /\ ClientLeaves(r)))

SrvSpec == SrvInit /\ [][SrvNext]_srvVars /\ SrvFairness

-------------------------------------------------------------------------------
\* Every request the server has accepted ends, whichever client stops reading
\* or leaves with the model's mutex held by its job: a job gives the mutex back
\* when its receiver is gone.
AcceptedEnds == <>[](\A r \in LocalRequests : reqPc[r] \notin {"waiting", "streaming"})
===============================================================================
