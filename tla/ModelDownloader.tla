--------------------------- MODULE ModelDownloader ---------------------------
(***************************************************************************)
(* The download of a model file by the desktop worker: ranged parts fetched *)
(* in parallel, the resume of what an earlier attempt or process has left   *)
(* on disk, the assembly, the checksum and the rename, and the ten attempts *)
(* the worker makes.                                                        *)
(*                                                                          *)
(* A file is the sequence of its blocks.  Block i of the file the checksum  *)
(* describes is the number i, any other content is 0, so the checksum       *)
(* passes exactly when the sequence is Right.  A missing file and an empty  *)
(* one are treated alike by the code and are both <<>>.                     *)
(***************************************************************************)
EXTENDS Naturals, Sequences

CONSTANTS
    FileBlocks,      \* blocks of the file on the server
    ChunkBlocks,     \* DownloadConfig.chunk_size
    ParallelChunks,  \* DownloadConfig.parallel_chunks
    MaxAttempts,     \* MAX_RETRIES
    MaxFaults        \* bound: broken or corrupted transfers and crashes

ASSUME DownloadAssumption == /\ FileBlocks \in Nat \ {0}
                             /\ ChunkBlocks \in Nat \ {0}
                             /\ ParallelChunks \in Nat \ {0}
                             /\ MaxAttempts \in Nat \ {0} /\ MaxFaults \in Nat

VARIABLES
    serves,     \* "ranges", "length" (no ranges) or "stream" (nor a length)
    outFile,    \* output_path
    tmpFile,    \* temp_output_path: its name holds the process id
    parts,      \* the files of parts_dir, by chunk index
    dlPc,       \* where download() is
    chunkPc,    \* the task of each chunk
    copied,     \* assemble_parts: parts copied into the temporary file
    resumeAt,   \* simple_download: blocks of the file before the next one
    attempt,    \* attempt of deal_with_pod_model
    faults,     \* faults so far
    clean       \* the attempt found sound files and met no fault

dlVars == <<serves, outFile, tmpFile, parts, dlPc, chunkPc, copied, resumeAt,
            attempt, faults, clean>>
dlFiles == <<outFile, tmpFile, parts>>

Indices == 0..(ParallelChunks - 1)
Right == [i \in 1..FileBlocks |-> i]

\* One block more than the right file stands for all that are longer.
AddBlock(f, b) == IF Len(f) > FileBlocks THEN f ELSE Append(f, b)

NoParts == [i \in Indices |-> <<>>]

-------------------------------------------------------------------------------
(* calculate_chunks: the ranges, with inclusive ends, of `remaining` bytes   *)
(* from `from` on, as a function of the chunk index.                         *)

MinOf(a, b) == IF a < b THEN a ELSE b

\* Variant: the last chunk does not take the rest.
ShortLastChunk(from, remaining, size, parallel) ==
    LET count == MinOf(remaining \div size, parallel)
        each == remaining \div count
    IN  IF remaining <= size \/ parallel = 1
        THEN [i \in {0} |-> <<from, from + remaining - 1>>]
        ELSE [i \in 0..(count - 1) |-> <<from + i * each, from + (i + 1) * each - 1>>]

CalculateChunks(from, remaining, size, parallel) ==
    LET count == MinOf(remaining \div size, parallel)
        each == remaining \div count
    IN  IF remaining <= size \/ parallel = 1
        THEN [i \in {0} |-> <<from, from + remaining - 1>>]
        ELSE [i \in 0..(count - 1) |->
                 <<from + i * each,
                   IF i = count - 1 THEN from + remaining - 1
                                    ELSE from + (i + 1) * each - 1>>]

Chunks == CalculateChunks(0, FileBlocks, ChunkBlocks, ParallelChunks)
ChunkLen(i) == Chunks[i][2] - Chunks[i][1] + 1

\* What part i holds when nothing went wrong with it.
SoundPart(i, p) ==
    /\ i \in DOMAIN Chunks /\ Len(p) <= ChunkLen(i)
    /\ \A k \in DOMAIN p : p[k] = Chunks[i][1] + k

SoundFiles ==
    /\ serves = "ranges"
    /\ Len(outFile) \notin 1..(FileBlocks - 1)
    /\ \A i \in DOMAIN Chunks : SoundPart(i, parts[i])

-------------------------------------------------------------------------------
\* What an earlier release, a copy by hand or another file of that name has
\* left at the output path.
DlInit ==
    /\ serves \in {"ranges", "length", "stream"}
    /\ outFile \in {<<>>, <<1>>, Right, [i \in 1..FileBlocks |-> 0],
                    [i \in 1..(FileBlocks + 1) |-> 0]}
    /\ tmpFile = <<>> /\ parts = NoParts
    /\ dlPc = "idle" /\ chunkPc = [i \in Indices |-> "idle"]
    /\ copied = 0 /\ resumeAt = 0 /\ attempt = 0 /\ faults = 0 /\ clean = FALSE

\* LoginResult or PullModelResult names the model: the attempts start.
StartDownload ==
    /\ dlPc \in {"idle", "failed"}
    /\ dlPc' = "size" /\ attempt' = 1 /\ clean' = SoundFiles
    /\ UNCHANGED <<serves, copied, dlFiles, chunkPc, resumeAt, faults>>

Fault == faults < MaxFaults /\ faults' = faults + 1 /\ clean' = FALSE
NoFault == UNCHANGED <<faults, clean>>

\* An attempt returns Err; the tasks of the other chunks are aborted.
AttemptFails == dlPc' = "err" /\ chunkPc' = [i \in Indices |-> "idle"]

\* The loop of deal_with_pod_model: another attempt, or give up.
RetryDownload ==
    /\ dlPc = "err"
    /\ IF attempt < MaxAttempts
       THEN dlPc' = "size" /\ attempt' = attempt + 1 /\ clean' = SoundFiles
       ELSE dlPc' = "failed" /\ attempt' = 0 /\ clean' = FALSE
    /\ UNCHANGED <<serves, copied, dlFiles, chunkPc, resumeAt, faults>>

\* get_file_size: HEAD, then a GET of one byte.  Without a usable answer the
\* size is 0, and a failed request is an error.
SizeRequestFails ==
    /\ dlPc = "size" /\ Fault
    /\ \/ AttemptFails
       \/ dlPc' = "simple" /\ chunkPc' = chunkPc
    /\ UNCHANGED <<serves, copied, dlFiles, resumeAt, attempt>>

\* safe_remove_output_file, and the parts with it.
DiscardAll == outFile' = <<>> /\ parts' = NoParts

\* download(): what to do with the file that is there.
PlanDownload ==
    /\ dlPc = "size" /\ NoFault
    /\ \/ /\ serves = "stream" \/ Len(outFile) \in 1..(FileBlocks - 1)
          /\ dlPc' = "simple" /\ UNCHANGED <<outFile, parts>>
       \/ /\ serves # "stream" /\ outFile = Right
          /\ dlPc' = "ok" /\ UNCHANGED <<outFile, parts>>
       \/ /\ serves # "stream" /\ outFile # Right /\ Len(outFile) >= FileBlocks
          /\ dlPc' = "chunks" /\ DiscardAll
       \/ /\ serves # "stream" /\ outFile = <<>>
          /\ dlPc' = "chunks" /\ UNCHANGED <<outFile, parts>>
    /\ UNCHANGED <<serves, copied, tmpFile, chunkPc, resumeAt, attempt>>

-------------------------------------------------------------------------------
(* download_chunks.                                                          *)

\* Parts longer than their chunk are removed, and a task starts per chunk.
StartChunks ==
    /\ dlPc = "chunks" /\ dlPc' = "fetch"
    /\ parts' = [i \in Indices |-> IF i \in DOMAIN Chunks /\ Len(parts[i]) > ChunkLen(i)
                                   THEN <<>> ELSE parts[i]]
    /\ chunkPc' = [i \in Indices |-> IF i \in DOMAIN Chunks THEN "ask" ELSE "done"]
    /\ UNCHANGED <<serves, copied, outFile, tmpFile, resumeAt, attempt, faults, clean>>

\* download_chunk_to_part: a full part needs no request; the answer must be 206.
AskChunk(i) ==
    /\ dlPc = "fetch" /\ chunkPc[i] = "ask"
    /\ IF Len(parts[i]) < ChunkLen(i) /\ serves # "ranges"
       THEN AttemptFails
       ELSE /\ chunkPc' = [chunkPc EXCEPT ![i] =
                             IF Len(parts[i]) < ChunkLen(i) THEN "body" ELSE "done"]
            /\ dlPc' = dlPc
    /\ UNCHANGED <<serves, copied, dlFiles, resumeAt, attempt, faults, clean>>

\* The next block of the requested range is appended to the part.
ChunkData(i) ==
    /\ dlPc = "fetch" /\ chunkPc[i] = "body" /\ Len(parts[i]) < ChunkLen(i)
    /\ \/ NoFault /\ parts' = [parts EXCEPT ![i] = Append(@, Chunks[i][1] + Len(@) + 1)]
       \/ Fault /\ parts' = [parts EXCEPT ![i] = Append(@, 0)]
    /\ UNCHANGED <<serves, copied, outFile, tmpFile, dlPc, chunkPc, resumeAt, attempt>>

\* The body ends; one that ends early is taken for complete.
ChunkEnds(i) ==
    /\ dlPc = "fetch" /\ chunkPc[i] = "body"
    /\ IF Len(parts[i]) < ChunkLen(i) THEN Fault ELSE NoFault
    /\ chunkPc' = [chunkPc EXCEPT ![i] = "done"]
    /\ UNCHANGED <<serves, copied, dlFiles, dlPc, resumeAt, attempt>>

\* A refused request, a broken connection, or 30 s without data.
ChunkFails(i) ==
    /\ dlPc = "fetch" /\ chunkPc[i] \in {"ask", "body"}
    /\ Fault /\ AttemptFails
    /\ UNCHANGED <<serves, copied, dlFiles, resumeAt, attempt>>

\* assemble_parts: the temporary file is created anew ...
AssembleParts ==
    /\ dlPc = "fetch" /\ \A i \in Indices : chunkPc[i] = "done"
    /\ tmpFile' = <<>> /\ copied' = 0 /\ dlPc' = "assemble"
    /\ UNCHANGED <<serves, outFile, parts, chunkPc, resumeAt, attempt, faults, clean>>

\* ... and the parts are copied into it in index order ...
CopyPart ==
    /\ dlPc = "assemble" /\ copied \in DOMAIN Chunks
    /\ tmpFile' = tmpFile \o parts[copied] /\ copied' = copied + 1
    /\ UNCHANGED <<serves, outFile, parts, dlPc, chunkPc, resumeAt, attempt, faults, clean>>

\* ... unless a file cannot be opened, read or written.
AssembleFails ==
    /\ dlPc = "assemble" /\ Fault /\ AttemptFails
    /\ UNCHANGED <<serves, dlFiles, copied, resumeAt, attempt>>

Assembled ==
    /\ dlPc = "assemble" /\ copied \notin DOMAIN Chunks
    /\ dlPc' = "verify"
    /\ UNCHANGED <<serves, dlFiles, chunkPc, copied, resumeAt, attempt, faults, clean>>

\* Variant: the assembled file is renamed without its checksum.
InstallUnverified ==
    /\ dlPc = "verify"
    /\ outFile' = tmpFile /\ tmpFile' = <<>> /\ dlPc' = "installed" /\ chunkPc' = chunkPc
    /\ UNCHANGED <<serves, copied, parts, resumeAt, attempt, faults, clean>>

\* verify_checksum_at_path, then the rename; parts outlive a failure.
Install ==
    /\ dlPc = "verify"
    /\ IF tmpFile = Right
       THEN outFile' = tmpFile /\ tmpFile' = <<>> /\ dlPc' = "installed" /\ chunkPc' = chunkPc
       ELSE UNCHANGED <<outFile, tmpFile>> /\ AttemptFails
    /\ UNCHANGED <<serves, copied, parts, resumeAt, attempt, faults, clean>>

\* The parts are removed, and download() verifies the installed file again.
FinishDownload ==
    /\ dlPc = "installed"
    /\ parts' = NoParts
    /\ IF outFile = Right THEN dlPc' = "ok" /\ chunkPc' = chunkPc ELSE AttemptFails
    /\ UNCHANGED <<serves, copied, outFile, tmpFile, resumeAt, attempt, faults, clean>>

-------------------------------------------------------------------------------
(* simple_download.                                                          *)

\* The request asks for what follows the output file.  Nothing follows it:
\* 416, and the file must be right.  A partial answer is appended to what the
\* temporary file holds; any other answer starts that file anew.
AskSimple ==
    /\ dlPc = "simple"
    /\ LET have == Len(outFile) IN
       \/ /\ serves = "ranges" /\ have >= FileBlocks
          /\ IF outFile = Right THEN dlPc' = "ok" /\ chunkPc' = chunkPc ELSE AttemptFails
          /\ UNCHANGED <<tmpFile, resumeAt>>
       \/ /\ serves = "ranges" /\ have \in 1..(FileBlocks - 1)
          /\ dlPc' = "stream" /\ resumeAt' = have
          /\ UNCHANGED <<tmpFile, chunkPc>>
       \/ /\ serves # "ranges" \/ have = 0
          /\ dlPc' = "stream" /\ resumeAt' = 0 /\ tmpFile' = <<>>
          /\ UNCHANGED chunkPc
    /\ UNCHANGED <<serves, copied, outFile, parts, attempt, faults, clean>>

SimpleData ==
    /\ dlPc = "stream" /\ resumeAt < FileBlocks
    /\ resumeAt' = resumeAt + 1
    /\ \/ NoFault /\ tmpFile' = AddBlock(tmpFile, resumeAt + 1)
       \/ Fault /\ tmpFile' = AddBlock(tmpFile, 0)
    /\ UNCHANGED <<serves, copied, outFile, parts, dlPc, chunkPc, attempt>>

\* The body ends; what the temporary file holds is verified and installed.
SimpleEnds ==
    /\ dlPc = "stream"
    /\ IF resumeAt < FileBlocks THEN Fault ELSE NoFault
    /\ IF tmpFile = Right
       THEN outFile' = tmpFile /\ tmpFile' = <<>> /\ dlPc' = "ok" /\ chunkPc' = chunkPc
       ELSE UNCHANGED <<outFile, tmpFile>> /\ AttemptFails
    /\ UNCHANGED <<serves, copied, parts, resumeAt, attempt>>

SimpleFails ==
    /\ dlPc \in {"simple", "stream"}
    /\ Fault /\ AttemptFails
    /\ UNCHANGED <<serves, copied, dlFiles, resumeAt, attempt>>

\* The process dies and is started again: what it had on disk stays, under
\* names the next process finds, but for the temporary file.
DlCrash ==
    /\ dlPc \notin {"idle", "ok"} /\ Fault
    /\ dlPc' = "idle" /\ chunkPc' = [i \in Indices |-> "idle"] /\ attempt' = 0
    /\ tmpFile' = <<>>
    /\ UNCHANGED <<serves, copied, outFile, parts, resumeAt>>

DlNext ==
    \/ StartDownload \/ RetryDownload \/ SizeRequestFails \/ PlanDownload
    \/ StartChunks \/ AssembleParts \/ CopyPart \/ AssembleFails \/ Assembled
    \/ Install \/ FinishDownload
    \/ AskSimple \/ SimpleData \/ SimpleEnds \/ SimpleFails \/ DlCrash
    \/ \E i \in Indices : AskChunk(i) \/ ChunkData(i) \/ ChunkEnds(i) \/ ChunkFails(i)

DlSpec == DlInit /\ [][DlNext]_dlVars

-------------------------------------------------------------------------------
\* download() and its resume paths never put anything at the output path but
\* the file the checksum describes, at no point of an attempt, retry or crash:
\* the worker loads a file of the right length without a checksum.
OnlyVerifiedInstalled ==
    [][outFile' = outFile \/ outFile' \in {<<>>, Right}]_dlVars

\* Resuming is sound: an attempt on a server with ranges that finds only what
\* earlier attempts of any process have left intact, and that meets no fault,
\* succeeds.
ResumeSucceeds == dlPc \in {"err", "failed"} => ~clean
===============================================================================
