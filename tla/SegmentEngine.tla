---------------------------- MODULE SegmentEngine ----------------------------
(***************************************************************************)
(* What the two parallel modes of core.downloadParallel share: loading the *)
(* resume manifest or creating a fresh one, the workers that download one  *)
(* segment at a time with retries, the goroutine that saves the manifest   *)
(* every few seconds, cancellation, the verdict when all workers are gone, *)
(* and the death of the process at any moment.  How a worker comes by its  *)
(* next segment is what WorkStealing and SegmentQueue add.                 *)
(*                                                                         *)
(* Byte ranges of the manifest are represented by the set of their bytes   *)
(* (ManifestLedger shows that the range algebra is exact).                 *)
(***************************************************************************)
EXTENDS Layout

CONSTANTS
  Size, Connections,    \* bytes of the file; number of workers
  QueueMode, SegmentSize,
  BufferSize,           \* most bytes one read returns
  MaxRetries,           \* budget for permanent failures of a segment
  TransientFloor,       \* least budget for transient ones (12 in the code)
  ShortBodies,          \* may a 206 body end cleanly before the range does?
  SaveMayFail,          \* may writing or removing the manifest fail?
  Interruptions,        \* how the context may end: "canceled", "deadline"
  MaxRuns               \* bound: how often the program is started

\* Download takes the parallel path only for a known size and two or more workers.
ASSUME EngineAssumption ==
  /\ Size \in Nat \ {0} /\ Connections \in Nat \ {0, 1}
  /\ QueueMode \in BOOLEAN /\ SegmentSize \in Nat \ {0}
  /\ BufferSize \in Nat \ {0}
  /\ MaxRetries \in Nat /\ TransientFloor \in Nat /\ MaxRuns \in Nat
  /\ ShortBodies \in BOOLEAN /\ SaveMayFail \in BOOLEAN
  /\ Interruptions \subseteq {"canceled", "deadline"}

Byte == 0 .. Size - 1
Worker == 1 .. Connections

PieceCount == IF QueueMode THEN SegmentCount(Size, SegmentSize)
                           ELSE ChunkCount(Size, Connections)
Chunk == 0 .. PieceCount - 1
Chunks == IF QueueMode THEN splitIntoSegments(Size, SegmentSize)
                       ELSE splitIntoChunks(Size, Connections)

SegmentTask == [chunk : Int, start : Int, end : Int]
NoTask == [chunk |-> -1, start |-> 0, end |-> -1]
Bytes(t) == t.start .. t.end

\* Ranges of the file, and those a worker can be given: not empty and inside their chunk.
Ranges == [chunk : Chunk, start : Byte, end : Byte]
InsideChunk(t) == t \in Ranges /\ t.start <= t.end /\ Bytes(t) \subseteq PieceBytes(Chunks[t.chunk])

\* Bug variant: what an earlier run completed is not looked at.
StillOpen_All(i, done) == PieceBytes(Chunks[i])

StillOpen(i, done) == PieceBytes(Chunks[i]) \ done

\* MissingRanges of a chunk: the maximal runs of its bytes that are not done.
Missing(i, done) ==
  LET open == StillOpen(i, done)
  IN  {t \in [chunk : {i}, start : open, end : open] :
         /\ t.start <= t.end
         /\ Bytes(t) \subseteq open
         /\ t.start - 1 \notin open
         /\ t.end + 1 \notin open}

VARIABLES
  written,     \* bytes of the output file that hold the right content
  disk,        \* the manifest file: absent, partial (being rewritten) or saved
  phase,       \* how far the run has come
  verdict,     \* what it will return, or has returned
  runs,        \* how often the program was started
  completed,   \* bytes the in-memory manifest lists as complete
  ctx,         \* "live", or how the context ended
  firstErr,    \* the first error in errChan; only that one is looked at
  saver,       \* the periodic saver: "waiting", or "writing" under manifestMu
  pc, task,    \* where each worker is, and its segment
  offset,      \* next byte position it will write
  trans, perm  \* its failed attempts on this segment

durable == <<written, disk>>
control == <<phase, verdict, runs>>
workers == <<pc, task, offset, trans, perm>>
engineVars == <<durable, control, completed, ctx, firstErr, saver, workers>>

Absent    == [state |-> "absent",  done |-> {}]
Partial   == [state |-> "partial", done |-> {}]
Saved(s)  == [state |-> "saved",   done |-> s]

EngineInit ==
  /\ written = {} /\ disk = Absent
  /\ phase = "idle" /\ verdict = "none" /\ runs = 0
  /\ completed = {} /\ ctx = "live" /\ firstErr = "none" /\ saver = "waiting"
  /\ pc = [w \in Worker |-> "pick"]
  /\ task = [w \in Worker |-> NoTask]
  /\ offset = [w \in Worker |-> 0]
  /\ trans = [w \in Worker |-> 0]
  /\ perm = [w \in Worker |-> 0]
-----------------------------------------------------------------------------
(***************************************************************************)
(* Starting.  manifest.Load succeeds only on a whole file; then its ranges *)
(* are trusted.  Otherwise the output is preallocated (its bytes are kept) *)
(* and an empty manifest is written: truncated first, whole only later.    *)
(***************************************************************************)
MayStart == phase \in {"idle", "ended"} /\ verdict # "success" /\ runs < MaxRuns

FreshWorkers ==
  /\ ctx' = "live" /\ firstErr' = "none" /\ saver' = "waiting"
  /\ pc' = [w \in Worker |-> "pick"]
  /\ task' = [w \in Worker |-> NoTask]
  /\ offset' = [w \in Worker |-> 0]
  /\ trans' = [w \in Worker |-> 0]
  /\ perm' = [w \in Worker |-> 0]

Resume ==
  /\ MayStart
  /\ disk.state = "saved"
  /\ completed' = disk.done
  /\ phase' = "running" /\ verdict' = "none" /\ runs' = runs + 1
  /\ FreshWorkers
  /\ UNCHANGED durable

StartFresh ==
  /\ MayStart
  /\ disk.state # "saved"
  /\ completed' = {}
  /\ disk' = Partial
  /\ phase' = "creating" /\ verdict' = "none" /\ runs' = runs + 1
  /\ FreshWorkers
  /\ UNCHANGED written

CreateManifest ==
  /\ phase = "creating"
  /\ disk' = Saved({})
  /\ phase' = "running"
  /\ UNCHANGED <<written, verdict, runs, completed, ctx, firstErr, saver, workers>>

\* The first Save failed: downloadParallel returns its error at once.
CreateFails ==
  /\ SaveMayFail
  /\ phase = "creating"
  /\ phase' = "ended" /\ verdict' = "failed"
  /\ UNCHANGED <<durable, runs, completed, ctx, firstErr, saver, workers>>

\* Ctrl+C, SIGTERM, the caller's cancel or its deadline.  Nothing reads it after Decide.
Interrupt ==
  /\ phase \in {"creating", "running", "stopping"}
  /\ ctx = "live"
  /\ ctx' \in Interruptions
  /\ UNCHANGED <<durable, control, completed, firstErr, saver, workers>>
-----------------------------------------------------------------------------
(***************************************************************************)
(* downloadSegmentWithRetry and downloadSegment, one step per decision.    *)
(***************************************************************************)
MaxTransient == IF MaxRetries < TransientFloor THEN TransientFloor ELSE MaxRetries

MutexFree == saver # "writing"

\* Bug variant: one attempt more than the budget.
OutOfBudget_OffByOne(attempts, budget) == attempts > budget

OutOfBudget(attempts, budget) == attempts >= budget

Goto(w, where) == pc' = [pc EXCEPT ![w] = where]

\* The worker takes t and enters the retry loop.
Assign(w, t) ==
  /\ Goto(w, "try")
  /\ task' = [task EXCEPT ![w] = t]
  /\ UNCHANGED <<offset, trans, perm>>

\* The worker leaves without an error: no work left, or the context ended.
Leave(w) ==
  /\ Goto(w, "exited")
  /\ UNCHANGED <<task, offset, trans, perm, firstErr>>

\* The worker gives its segment up, reports why and leaves.
GiveUp(w, err) ==
  /\ Goto(w, "exited")
  /\ firstErr' = IF firstErr = "none" THEN err ELSE firstErr
  /\ task' = [task EXCEPT ![w] = NoTask]
  /\ offset' = [offset EXCEPT ![w] = 0]
  /\ trans' = [trans EXCEPT ![w] = 0]
  /\ perm' = [perm EXCEPT ![w] = 0]

Backoff(w) ==
  /\ Goto(w, "backoff")
  /\ offset' = [offset EXCEPT ![w] = 0]
  /\ UNCHANGED <<task, firstErr>>

\* Dropped connection, failed read, 429 or 5xx.
TransientFailure(w) ==
  /\ pc[w] \in {"try", "stream"}
  /\ IF OutOfBudget(trans[w], MaxTransient)
     THEN GiveUp(w, "failed")
     ELSE Backoff(w) /\ trans' = [trans EXCEPT ![w] = @ + 1] /\ UNCHANGED perm
  /\ UNCHANGED <<durable, control, completed, ctx, saver>>

\* 403, 404, 416, no 206, the file cannot be opened or written.
PermanentFailure(w) ==
  /\ pc[w] \in {"try", "stream"}
  /\ IF OutOfBudget(perm[w], MaxRetries)
     THEN GiveUp(w, "failed")
     ELSE Backoff(w) /\ perm' = [perm EXCEPT ![w] = @ + 1] /\ UNCHANGED trans
  /\ UNCHANGED <<durable, control, completed, ctx, saver>>

\* The ended context aborts the check before a request, the request, a read or a sleep.
Interrupted(w) ==
  /\ pc[w] \in {"try", "stream", "backoff"}
  /\ ctx # "live"
  /\ GiveUp(w, ctx)
  /\ UNCHANGED <<durable, control, completed, ctx, saver>>

\* The sleep is over and the loop starts again, with a new request.
Retry(w) ==
  /\ pc[w] = "backoff"
  /\ ctx = "live"
  /\ Goto(w, "try")
  /\ UNCHANGED <<durable, control, completed, ctx, firstErr, saver, task, offset, trans, perm>>

\* 206 Partial Content: the body is written from the start of the range on.
Respond(w) ==
  /\ pc[w] = "try"
  /\ Goto(w, "stream")
  /\ offset' = [offset EXCEPT ![w] = task[w].start]
  /\ UNCHANGED <<durable, control, completed, ctx, firstErr, saver, task, trans, perm>>

\* One Read and one WriteAt.
WriteBytes(w) ==
  /\ pc[w] = "stream"
  /\ \E n \in 1 .. BufferSize :
       /\ offset[w] + n - 1 <= task[w].end
       /\ written' = written \union (offset[w] .. offset[w] + n - 1)
       /\ offset' = [offset EXCEPT ![w] = @ + n]
  /\ UNCHANGED <<disk, control, completed, ctx, firstErr, saver, pc, task, trans, perm>>

\* Bug variant: the last byte is not waited for.
BodyIsOver_OffByOne(w) == offset[w] >= task[w].end

\* A server that answers as asked ends the body with the range.
BodyIsOver(w) == offset[w] > task[w].end \/ ShortBodies

\* io.EOF: the segment counts as downloaded, however far the offset has come.
EndOfBody(w) ==
  /\ pc[w] = "stream"
  /\ BodyIsOver(w)
  /\ Goto(w, "record")
  /\ UNCHANGED <<durable, control, completed, ctx, firstErr, saver, task, offset, trans, perm>>

\* Under manifestMu: the range is appended and NormalizeChunk clamps it to its chunk.
RecordSegment(w) ==
  /\ pc[w] = "record"
  /\ MutexFree
  /\ completed' = completed \union (Bytes(task[w]) \intersect PieceBytes(Chunks[task[w].chunk]))
  /\ Goto(w, "pick")
  /\ task' = [task EXCEPT ![w] = NoTask]
  /\ offset' = [offset EXCEPT ![w] = 0]
  /\ trans' = [trans EXCEPT ![w] = 0]
  /\ perm' = [perm EXCEPT ![w] = 0]
  /\ UNCHANGED <<durable, control, ctx, firstErr, saver>>

SegmentStep(w) ==
  /\ phase = "running"
  /\ \/ TransientFailure(w) \/ PermanentFailure(w) \/ Interrupted(w) \/ Retry(w)
     \/ Respond(w) \/ WriteBytes(w) \/ EndOfBody(w) \/ RecordSegment(w)

\* The steps that wait for the server: no timeout of the client bounds them.
ServerStep(w) ==
  /\ phase = "running"
  /\ \/ TransientFailure(w) \/ PermanentFailure(w)
     \/ Respond(w) \/ WriteBytes(w) \/ EndOfBody(w)

\* The others are the program's own.
LocalStep(w) == phase = "running" /\ (Interrupted(w) \/ Retry(w) \/ RecordSegment(w))
-----------------------------------------------------------------------------
(***************************************************************************)
(* The saver goroutine: a tick takes manifestMu, truncates the file, and   *)
(* releases the lock when the new content is written (or the write fails). *)
(***************************************************************************)
SaverTick ==
  /\ phase \in {"running", "stopping"}
  /\ saver = "waiting"
  /\ saver' = "writing"
  /\ disk' = Partial
  /\ UNCHANGED <<written, control, completed, ctx, firstErr, workers>>

\* Bug variant: the lock is kept.
Unlock_Forgotten == UNCHANGED saver

Unlock == saver' = "waiting"

SaverDone ==
  /\ saver = "writing"
  /\ Unlock
  /\ disk' = Saved(completed)
  /\ UNCHANGED <<written, control, completed, ctx, firstErr, workers>>

SaverFails ==
  /\ SaveMayFail
  /\ saver = "writing"
  /\ Unlock
  /\ UNCHANGED <<durable, control, completed, ctx, firstErr, workers>>
-----------------------------------------------------------------------------
(***************************************************************************)
(* The end of a run.  wg.Wait returns when all workers are gone, the saver *)
(* is stopped, and the first error decides.  A cancelled run saves what it *)
(* has; a failed one returns; a complete one saves, then removes the file. *)
(***************************************************************************)
AllExited == \A w \in Worker : pc[w] = "exited"

Join ==
  /\ phase = "running"
  /\ AllExited
  /\ phase' = "stopping"
  /\ UNCHANGED <<durable, verdict, runs, completed, ctx, firstErr, saver, workers>>

\* Bug variant: only cancellation is looked for among the errors.
Outcome_FailureOverlooked ==
  IF firstErr = "canceled" \/ ctx # "live" THEN "cancelled" ELSE "success"

\* Bug variant: the context is not looked at again when no worker reported an error.
Outcome_ContextOverlooked ==
  IF firstErr \in {"failed", "deadline"} THEN "failed"
  ELSE IF firstErr = "canceled" THEN "cancelled"
  ELSE "success"

Outcome ==
  IF firstErr \in {"failed", "deadline"} THEN "failed"
  ELSE IF firstErr = "canceled" \/ ctx # "live" THEN "cancelled"
  ELSE "success"

\* Bug variant: only a complete run writes the manifest once more.
SavesAtEnd_OnlySuccess(outcome) == outcome = "success"

SavesAtEnd(outcome) == outcome # "failed"

Decide ==
  /\ phase = "stopping"
  /\ saver = "waiting"
  /\ verdict' = Outcome
  /\ IF SavesAtEnd(Outcome)
     THEN phase' = "final" /\ disk' = Partial
     ELSE phase' = "ended" /\ UNCHANGED disk
  /\ UNCHANGED <<written, runs, completed, ctx, firstErr, saver, workers>>

FinalSave ==
  /\ phase = "final"
  /\ disk' = Saved(completed)
  /\ phase' = IF verdict = "success" THEN "removing" ELSE "ended"
  /\ UNCHANGED <<written, verdict, runs, completed, ctx, firstErr, saver, workers>>

\* The error of the final Save is discarded.
FinalSaveFails ==
  /\ SaveMayFail
  /\ phase = "final"
  /\ phase' = IF verdict = "success" THEN "removing" ELSE "ended"
  /\ UNCHANGED <<durable, verdict, runs, completed, ctx, firstErr, saver, workers>>

RemoveManifest ==
  /\ phase = "removing"
  /\ disk' = Absent
  /\ phase' = "ended"
  /\ UNCHANGED <<written, verdict, runs, completed, ctx, firstErr, saver, workers>>

RemoveFails ==
  /\ SaveMayFail
  /\ phase = "removing"
  /\ phase' = "ended" /\ verdict' = "failed"
  /\ UNCHANGED <<durable, runs, completed, ctx, firstErr, saver, workers>>

\* The process dies: files stay as they are, memory is gone.
Crash ==
  /\ phase \notin {"idle", "ended"}
  /\ runs < MaxRuns
  /\ phase' = "idle" /\ verdict' = "none"
  /\ completed' = {}
  /\ FreshWorkers
  /\ UNCHANGED <<durable, runs>>

Lifecycle ==
  \/ CreateFails \/ Interrupt
  \/ SaverTick \/ SaverDone \/ SaverFails
  \/ Decide \/ FinalSave \/ FinalSaveFails
  \/ RemoveManifest \/ RemoveFails
-----------------------------------------------------------------------------
Task == [chunk : Chunk \union {-1}, start : 0 .. Size, end : -1 .. Size - 1]

EngineTypeOK ==
  /\ written \subseteq Byte /\ completed \subseteq Byte
  /\ disk \in [state : {"absent", "partial", "saved"}, done : SUBSET Byte]
  /\ phase \in {"idle", "creating", "running", "stopping", "final", "removing", "ended"}
  /\ verdict \in {"none", "success", "cancelled", "failed"}
  /\ runs \in Nat
  /\ ctx \in {"live", "canceled", "deadline"}
  /\ firstErr \in {"none", "failed", "canceled", "deadline"}
  /\ saver \in {"waiting", "writing"}
  /\ pc \in [Worker -> {"pick", "try", "stream", "backoff", "record", "exited"}]
  /\ task \in [Worker -> Task]
  /\ offset \in [Worker -> 0 .. Size]
  /\ trans \in [Worker -> 0 .. MaxTransient]
  /\ perm \in [Worker -> 0 .. MaxRetries]

(***************************************************************************)
(* What the manifest lists as complete is in the file, in memory and on    *)
(* disk, at every moment of every run: a later run skips those bytes for   *)
(* good.  The order of the engine (write, record, save) is what it rests   *)
(* on.                                                                     *)
(***************************************************************************)
ClaimedIsWritten == completed \subseteq written /\ disk.done \subseteq written

(***************************************************************************)
(* Success is returned only for a whole file, also when the run resumed    *)
(* an earlier one, lost races with the saver, or was interrupted late.     *)
(***************************************************************************)
SuccessMeansWhole == verdict = "success" => written = Byte

(***************************************************************************)
(* A run that reports cancellation has put every segment its workers       *)
(* recorded into the manifest, unless writing the manifest failed.         *)
(***************************************************************************)
CancelSavesEverything ==
  phase = "ended" /\ verdict = "cancelled" =>
    disk = Saved(completed) \/ (SaveMayFail /\ disk = Partial)

(***************************************************************************)
(* What these rest on.  Where a worker stands determines what it holds,    *)
(* and how much of that is in the file; each phase says how far workers,   *)
(* saver and verdict have come; success is reached only with every byte    *)
(* recorded, and the last save begins with a truncated manifest.           *)
(***************************************************************************)
Holding(w) == pc[w] \in {"try", "stream", "backoff", "record"}

HoldInv ==
  \A w \in Worker :
    /\ ~Holding(w) => task[w] = NoTask
    /\ Holding(w) => InsideChunk(task[w])

StreamInv ==
  \A w \in Worker :
    /\ pc[w] = "stream" => /\ offset[w] \in task[w].start .. task[w].end + 1
                           /\ task[w].start .. offset[w] - 1 \subseteq written
    /\ pc[w] = "record" => Bytes(task[w]) \subseteq written

PhaseInv ==
  /\ phase \in {"idle", "creating"} =>
       completed = {} /\ firstErr = "none" /\ \A w \in Worker : pc[w] = "pick"
  /\ phase \in {"stopping", "final", "removing", "ended"} =>
       \A w \in Worker : ~Holding(w)
  /\ phase = "stopping" => AllExited
  /\ saver = "writing" => phase \in {"running", "stopping"}
  /\ disk.state # "saved" => disk.done = {}
  /\ verdict = "success" => completed = Byte

VerdictInv ==
  /\ phase = "ended" => verdict # "none"
  /\ phase = "final" => verdict \in {"success", "cancelled"} /\ disk = Partial
  /\ phase = "removing" => verdict = "success"

EngineInv == HoldInv /\ PhaseInv /\ VerdictInv /\ CancelSavesEverything

\* The state of a run as its caller sees it.
RunOutcome ==
  IF phase = "idle" THEN "down"
  ELSE IF phase \in {"removing", "ended"} THEN verdict
  ELSE "running"

\* The detailed engine does what module Transfer promises.
Promise == INSTANCE Transfer WITH
  file    <- written,
  claimed <- completed,
  ledger  <- disk.done,
  outcome <- RunOutcome
TransferSpec == Promise!Spec
=============================================================================
