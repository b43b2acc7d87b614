------------------------- MODULE SegmentEngineProofs -------------------------
(***************************************************************************)
(* What the two parallel modes have in common, proved once: for every file *)
(* size, number of workers, retry budget and number of restarts.  How a    *)
(* worker comes by a segment is abstracted to Takes and Departs, of which  *)
(* the steps of both modes are instances.                                  *)
(***************************************************************************)
EXTENDS SegmentEngine, LayoutProofs

(***************************************************************************)
(* The chunks, or the segments of queue mode, partition the file.          *)
(***************************************************************************)
LEMMA ChunksPartition ==
  /\ PieceCount \in Nat \ {0}
  /\ Chunks \in [Chunk -> [start : Int, end : Int]]
  /\ \A i \in Chunk : PieceBytes(Chunks[i]) \subseteq Byte
  /\ \A i, j \in Chunk : i # j => PieceBytes(Chunks[i]) \intersect PieceBytes(Chunks[j]) = {}
  /\ \A b \in Byte : \E i \in Chunk : b \in PieceBytes(Chunks[i])
<1>1. /\ Size \in Nat \ {0} /\ Connections \in Nat \ {0}
      /\ SegmentSize \in Nat \ {0} /\ QueueMode \in BOOLEAN
  BY EngineAssumption
<1>2. /\ PieceCount \in Nat \ {0}
      /\ Chunks \in [0 .. PieceCount - 1 -> [start : Int, end : Int]]
      /\ Consecutive(Chunks, PieceCount, Size)
  <2>1. CASE QueueMode
    BY <1>1, <2>1, SegmentsConsecutive DEF Chunks, PieceCount
  <2>2. CASE ~QueueMode
    BY <1>1, <2>2, ChunksConsecutive DEF Chunks, PieceCount
  <2>3. QED
    BY <2>1, <2>2
<1>3. /\ \A i \in 0 .. PieceCount - 1 : PieceBytes(Chunks[i]) \subseteq 0 .. Size - 1
      /\ \A i, j \in 0 .. PieceCount - 1 :
           i # j => PieceBytes(Chunks[i]) \intersect PieceBytes(Chunks[j]) = {}
      /\ \A b \in 0 .. Size - 1 : \E i \in 0 .. PieceCount - 1 : b \in PieceBytes(Chunks[i])
  BY <1>1, <1>2, ConsecutivePartition, ZenonT(40)
<1>4. QED
  BY <1>2, <1>3 DEF Byte, Chunk

(***************************************************************************)
(* The missing ranges of a chunk: inside the chunk, none of their bytes is *)
(* done, no two share a byte, and together they are all that is not done.  *)
(***************************************************************************)
LEMMA MissingRangesExact ==
  ASSUME NEW i \in Chunk, NEW done
  PROVE  /\ \A t \in Missing(i, done) :
              /\ InsideChunk(t) /\ t.chunk = i
              /\ Bytes(t) \intersect done = {}
         /\ \A t, u \in Missing(i, done) : t # u => Bytes(t) \intersect Bytes(u) = {}
         /\ \A b \in PieceBytes(Chunks[i]) \ done :
              \E t \in Missing(i, done) : b \in Bytes(t)
<1> DEFINE open == PieceBytes(Chunks[i]) \ done
<1>1. open \subseteq Byte /\ Byte \subseteq Nat /\ Size \in Nat
  BY ChunksPartition, EngineAssumption DEF Byte
<1>2. Missing(i, done) =
        {t \in [chunk : {i}, start : open, end : open] :
           /\ t.start <= t.end
           /\ Bytes(t) \subseteq open
           /\ t.start - 1 \notin open
           /\ t.end + 1 \notin open}
  BY DEF Missing, StillOpen
<1>3. open \subseteq PieceBytes(Chunks[i]) /\ open \intersect done = {}
  OBVIOUS
<1>4. PieceBytes(Chunks[i]) \ done = open
  OBVIOUS
<1> HIDE DEF open
<1>5. ASSUME NEW t \in Missing(i, done)
      PROVE  InsideChunk(t) /\ t.chunk = i /\ Bytes(t) \intersect done = {}
  <2>1. /\ t \in [chunk : {i}, start : open, end : open]
        /\ t.start <= t.end /\ Bytes(t) \subseteq open
    BY <1>2
  <2>2. t \in Ranges
    BY <1>1, <2>1 DEF Ranges
  <2>3. QED
    BY <1>3, <2>1, <2>2 DEF InsideChunk
<1>6. ASSUME NEW t \in Missing(i, done), NEW u \in Missing(i, done),
             NEW x, x \in Bytes(t), x \in Bytes(u)
      PROVE  t = u
  <2>1. /\ t \in [chunk : {i}, start : open, end : open]
        /\ u \in [chunk : {i}, start : open, end : open]
        /\ Bytes(t) \subseteq open /\ Bytes(u) \subseteq open
        /\ t.start - 1 \notin open /\ t.end + 1 \notin open
        /\ u.start - 1 \notin open /\ u.end + 1 \notin open
    BY <1>2
  <2>2. /\ t.start \in Nat /\ t.end \in Nat /\ u.start \in Nat /\ u.end \in Nat
        /\ x \in Int /\ t.start <= x /\ x <= t.end /\ u.start <= x /\ x <= u.end
    <3>1. /\ t.start \in open /\ t.end \in open /\ u.start \in open /\ u.end \in open
      BY <2>1
    <3>2. t.start \in Nat /\ t.end \in Nat /\ u.start \in Nat /\ u.end \in Nat
      BY <1>1, <3>1
    <3>3. QED
      BY <1>6, <3>2 DEF Bytes
  <2>3. ~(t.start < u.start)
    BY <2>1, <2>2 DEF Bytes
  <2>4. ~(u.start < t.start)
    BY <2>1, <2>2 DEF Bytes
  <2>5. ~(t.end < u.end)
    BY <2>1, <2>2 DEF Bytes
  <2>6. ~(u.end < t.end)
    BY <2>1, <2>2 DEF Bytes
  <2>7. QED
    BY <2>1, <2>2, <2>3, <2>4, <2>5, <2>6
<1>7. ASSUME NEW b \in open
      PROVE  \E t \in Missing(i, done) : b \in Bytes(t)
  <2> DEFINE Left == {s \in open : s <= b /\ s .. b \subseteq open}
             Right == {k \in Nat : \E e \in open : k = Size - e /\ b <= e /\ b .. e \subseteq open}
  <2>1. b \in Nat /\ b < Size /\ b .. b = {b}
    BY <1>1 DEF Byte
  <2>2. b \in Left /\ Left \subseteq Nat
    <3>1. b <= b /\ b .. b \subseteq open
      BY <2>1
    <3>2. QED
      BY <1>1, <3>1
  <2>3. PICK s \in Left : \A k \in Left : s <= k
    BY <2>2, LeastNat
  <2>4. Size - b \in Right /\ Right \subseteq Nat
    BY <1>1, <2>1
  <2>5. PICK k \in Right : \A m \in Right : k <= m
    BY <2>4, LeastNat
  <2>6. PICK e \in open : k = Size - e /\ b <= e /\ b .. e \subseteq open
    BY <2>5
  <2>7. s \in Nat /\ e \in Nat /\ s <= b /\ b <= e /\ s .. e \subseteq open
    BY <1>1, <2>1, <2>3, <2>6
  <2>8. s - 1 \notin open
    <3>1. SUFFICES ASSUME s - 1 \in open PROVE FALSE
      OBVIOUS
    <3>2. (s - 1) .. b \subseteq open
      BY <2>1, <2>7, <3>1
    <3>3. s - 1 \in Left
      BY <2>1, <2>7, <3>1, <3>2
    <3>4. QED
      BY <2>3, <2>7, <3>3
  <2>9. e + 1 \notin open
    <3>1. SUFFICES ASSUME e + 1 \in open PROVE FALSE
      OBVIOUS
    <3>2. b .. (e + 1) \subseteq open
      BY <2>1, <2>7, <3>1
    <3>3. Size - (e + 1) \in Nat
      BY <1>1, <2>7, <3>1 DEF Byte
    <3>4. Size - (e + 1) \in Right
      BY <2>1, <2>7, <3>1, <3>2, <3>3
    <3>5. k <= Size - (e + 1)
      BY <2>5, <3>4
    <3>6. k = Size - e
      BY <2>6
    <3>7. QED
      BY <1>1, <2>7, <3>5, <3>6
  <2> DEFINE t == [chunk |-> i, start |-> s, end |-> e]
  <2>10. t \in Missing(i, done)
    BY <1>2, <2>3, <2>6, <2>7, <2>8, <2>9 DEF Bytes
  <2>11. b \in Bytes(t)
    BY <2>1, <2>7 DEF Bytes
  <2>12. QED
    BY <2>10, <2>11
<1>8. \A t, u \in Missing(i, done) : t # u => Bytes(t) \intersect Bytes(u) = {}
  BY <1>6
<1>9. QED
  BY <1>4, <1>5, <1>7, <1>8

LEMMA Arithmetic ==
  /\ Size \in Nat \ {0} /\ Worker \subseteq Nat /\ Worker # {}
  /\ MaxRetries \in Nat /\ MaxTransient \in Nat /\ BufferSize \in Nat
  BY EngineAssumption DEF Worker, MaxTransient

LEMMA NoBytes == Bytes(NoTask) = {}
  BY DEF Bytes, NoTask

LEMMA NoTaskTyped == NoTask \in Task /\ 0 \in 0 .. Size /\ Ranges \subseteq Task
  BY Arithmetic DEF NoTask, Task, Ranges, Byte

LEMMA TypeGiveUp ==
  ASSUME EngineTypeOK, NEW w \in Worker, NEW err \in {"failed", "canceled", "deadline"}, GiveUp(w, err)
  PROVE  /\ firstErr' \in {"none", "failed", "canceled", "deadline"}
         /\ pc' \in [Worker -> {"pick", "try", "stream", "backoff", "record", "exited"}]
         /\ task' \in [Worker -> Task]
         /\ offset' \in [Worker -> 0 .. Size]
         /\ trans' \in [Worker -> 0 .. MaxTransient]
         /\ perm' \in [Worker -> 0 .. MaxRetries]
  BY Arithmetic, NoTaskTyped DEF EngineTypeOK, GiveUp, Goto

LEMMA TypeSegmentStep ==
  ASSUME EngineTypeOK, NEW w \in Worker, SegmentStep(w)
  PROVE  EngineTypeOK'
<1>1. CASE TransientFailure(w)
  <2>1. CASE trans[w] >= MaxTransient
    BY <1>1, <2>1, TypeGiveUp
    DEF TransientFailure, OutOfBudget, EngineTypeOK, durable, control
  <2>2. CASE ~(trans[w] >= MaxTransient)
    BY <1>1, <2>2, Arithmetic
    DEF TransientFailure, OutOfBudget, EngineTypeOK, durable, control, Backoff, Goto
  <2>3. QED
    BY <2>1, <2>2
<1>2. CASE PermanentFailure(w)
  <2>1. CASE perm[w] >= MaxRetries
    BY <1>2, <2>1, TypeGiveUp
    DEF PermanentFailure, OutOfBudget, EngineTypeOK, durable, control
  <2>2. CASE ~(perm[w] >= MaxRetries)
    BY <1>2, <2>2, Arithmetic
    DEF PermanentFailure, OutOfBudget, EngineTypeOK, durable, control, Backoff, Goto
  <2>3. QED
    BY <2>1, <2>2
<1>3. CASE Interrupted(w)
  BY <1>3, TypeGiveUp DEF Interrupted, EngineTypeOK, durable, control
<1>4. CASE Retry(w)
  BY <1>4 DEF Retry, Goto, EngineTypeOK, durable, control
<1>5. CASE Respond(w)
  <2>1. task[w].start \in 0 .. Size
    BY DEF EngineTypeOK, Task
  <2>2. QED
    BY <1>5, <2>1 DEF Respond, Goto, EngineTypeOK, durable, control
<1>6. CASE WriteBytes(w)
  <2>1. PICK n \in 1 .. BufferSize :
          /\ offset[w] + n - 1 <= task[w].end
          /\ written' = written \union (offset[w] .. offset[w] + n - 1)
          /\ offset' = [offset EXCEPT ![w] = @ + n]
    BY <1>6 DEF WriteBytes
  <2>2. offset[w] \in 0 .. Size /\ task[w].end \in -1 .. Size - 1 /\ n \in Nat
    BY Arithmetic DEF EngineTypeOK, Task
  <2>3. offset[w] + n \in 0 .. Size
    BY <2>1, <2>2, Arithmetic
  <2>4. (offset[w] .. offset[w] + n - 1) \subseteq Byte
    BY <2>2, <2>3, Arithmetic DEF Byte
  <2>5. written' \subseteq Byte /\ offset' \in [Worker -> 0 .. Size]
    BY <2>1, <2>3, <2>4 DEF EngineTypeOK
  <2>6. QED
    BY <1>6, <2>5 DEF WriteBytes, EngineTypeOK, control
<1>7. CASE EndOfBody(w)
  BY <1>7 DEF EndOfBody, Goto, EngineTypeOK, durable, control
<1>8. CASE RecordSegment(w)
  <2>1. Bytes(task[w]) \subseteq Byte
    BY Arithmetic DEF EngineTypeOK, Task, Bytes, Byte
  <2>2. completed' \subseteq Byte
    BY <1>8, <2>1 DEF RecordSegment, EngineTypeOK
  <2>3. QED
    BY <1>8, <2>2, Arithmetic, NoTaskTyped DEF RecordSegment, Goto, EngineTypeOK, durable, control
<1>9. QED
  BY <1>1, <1>2, <1>3, <1>4, <1>5, <1>6, <1>7, <1>8 DEF SegmentStep

LEMMA TypeLifecycle ==
  ASSUME EngineTypeOK, Lifecycle
  PROVE  EngineTypeOK'
<1>1. CASE CreateFails
  BY <1>1 DEF CreateFails, EngineTypeOK, durable, workers
<1>2. CASE Interrupt
  BY <1>2, EngineAssumption DEF Interrupt, EngineTypeOK, durable, control, workers
<1>3. CASE SaverTick
  BY <1>3 DEF SaverTick, Partial, EngineTypeOK, control, workers
<1>4. CASE SaverDone
  BY <1>4 DEF SaverDone, Unlock, Saved, EngineTypeOK, control, workers
<1>5. CASE SaverFails
  BY <1>5 DEF SaverFails, Unlock, EngineTypeOK, durable, control, workers
<1>6. CASE Decide
  BY <1>6 DEF Decide, SavesAtEnd, Outcome, Partial, EngineTypeOK, workers
<1>7. CASE FinalSave
  BY <1>7 DEF FinalSave, Saved, EngineTypeOK, workers
<1>8. CASE FinalSaveFails
  BY <1>8 DEF FinalSaveFails, EngineTypeOK, durable, workers
<1>9. CASE RemoveManifest
  BY <1>9 DEF RemoveManifest, Absent, EngineTypeOK, workers
<1>10. CASE RemoveFails
  BY <1>10 DEF RemoveFails, EngineTypeOK, durable, workers
<1>11. QED
  BY <1>1, <1>2, <1>3, <1>4, <1>5, <1>6, <1>7, <1>8, <1>9, <1>10 DEF Lifecycle

LEMMA TypeFreshWorkers ==
  ASSUME FreshWorkers
  PROVE  /\ ctx' \in {"live", "canceled", "deadline"}
         /\ firstErr' \in {"none", "failed", "canceled", "deadline"}
         /\ saver' \in {"waiting", "writing"}
         /\ pc' \in [Worker -> {"pick", "try", "stream", "backoff", "record", "exited"}]
         /\ task' \in [Worker -> Task]
         /\ offset' \in [Worker -> 0 .. Size]
         /\ trans' \in [Worker -> 0 .. MaxTransient]
         /\ perm' \in [Worker -> 0 .. MaxRetries]
  BY NoTaskTyped, Arithmetic DEF FreshWorkers

-----------------------------------------------------------------------------
(***************************************************************************)
(* The steps of the engine, with all that is left open of how the pool or  *)
(* the channel hands out work: a worker that picks may be given any proper *)
(* range of a chunk, or leave.                                             *)
(***************************************************************************)
Takes(w) ==
  /\ phase = "running" /\ pc[w] = "pick"
  /\ \E t \in Ranges : InsideChunk(t) /\ Assign(w, t)
  /\ UNCHANGED <<durable, control, completed, ctx, firstErr, saver>>

Departs(w) ==
  /\ phase = "running" /\ pc[w] = "pick"
  /\ Leave(w)
  /\ UNCHANGED <<durable, control, completed, ctx, saver>>

EngineNext ==
  \/ Resume \/ StartFresh \/ CreateManifest
  \/ \E w \in Worker : Takes(w) \/ Departs(w) \/ SegmentStep(w)
  \/ Join \/ Lifecycle \/ Crash

\* What the modes have to show: success is decided only when every byte is recorded.
DecidedWhole == phase = "stopping" /\ Outcome = "success" => completed = Byte

(***************************************************************************)
(* A step of a worker on its segment, as the others see it: it keeps the   *)
(* segment, gives it up and reports why, or records all of it.             *)
(***************************************************************************)
LEMMA SegmentEffect ==
  ASSUME EngineTypeOK, HoldInv, NEW w \in Worker, SegmentStep(w)
  PROVE  /\ phase = "running" /\ Holding(w)
         /\ UNCHANGED <<disk, phase, verdict, runs, ctx, saver>>
         /\ \/ /\ \E where \in {"try", "stream", "backoff", "record"} : pc' = [pc EXCEPT ![w] = where]
               /\ UNCHANGED <<task, completed, firstErr>>
            \/ /\ pc' = [pc EXCEPT ![w] = "exited"] /\ task' = [task EXCEPT ![w] = NoTask]
               /\ firstErr' # "none" /\ UNCHANGED completed
            \/ /\ pc' = [pc EXCEPT ![w] = "pick"] /\ task' = [task EXCEPT ![w] = NoTask]
               /\ completed' = completed \union Bytes(task[w]) /\ UNCHANGED firstErr
<1>0. phase = "running" /\ ctx \in {"live", "canceled", "deadline"} /\ DOMAIN pc = Worker
      /\ pc \in [Worker -> {"pick", "try", "stream", "backoff", "record", "exited"}]
  BY DEF SegmentStep, EngineTypeOK
<1>1. CASE TransientFailure(w)
  BY <1>0, <1>1 DEF TransientFailure, GiveUp, Backoff, Goto, Holding, durable, control
<1>2. CASE PermanentFailure(w)
  BY <1>0, <1>2 DEF PermanentFailure, GiveUp, Backoff, Goto, Holding, durable, control
<1>3. CASE Interrupted(w)
  BY <1>0, <1>3 DEF Interrupted, GiveUp, Goto, Holding, durable, control
<1>4. CASE Retry(w)
  BY <1>0, <1>4 DEF Retry, Goto, Holding, durable, control
<1>5. CASE Respond(w)
  BY <1>0, <1>5 DEF Respond, Goto, Holding, durable, control
<1>6. CASE WriteBytes(w)
  <2>1. pc[w] = "stream" /\ pc' = pc /\ pc = [pc EXCEPT ![w] = "stream"]
    BY <1>0, <1>6 DEF WriteBytes
  <2>2. UNCHANGED <<disk, phase, verdict, runs, ctx, saver, task, completed, firstErr>>
    BY <1>6 DEF WriteBytes, control
  <2>3. QED
    BY <1>0, <2>1, <2>2 DEF Holding
<1>7. CASE EndOfBody(w)
  BY <1>0, <1>7 DEF EndOfBody, Goto, Holding, durable, control
<1>8. CASE RecordSegment(w)
  <2>1. Bytes(task[w]) \subseteq PieceBytes(Chunks[task[w].chunk])
    BY <1>8 DEF RecordSegment, HoldInv, Holding, InsideChunk
  <2>2. completed' = completed \union Bytes(task[w])
    BY <1>8, <2>1 DEF RecordSegment
  <2>3. QED
    BY <1>0, <1>8, <2>2 DEF RecordSegment, Goto, Holding, durable, control
<1>9. QED
  BY <1>1, <1>2, <1>3, <1>4, <1>5, <1>6, <1>7, <1>8 DEF SegmentStep

(***************************************************************************)
(* Types.                                                                  *)
(***************************************************************************)
LEMMA EngineTypeInit == EngineInit => EngineTypeOK
  BY Arithmetic DEF EngineInit, EngineTypeOK, Absent, NoTask, Task

LEMMA EngineTypeStep == EngineTypeOK /\ [EngineNext]_engineVars => EngineTypeOK'
<1> SUFFICES ASSUME EngineTypeOK, [EngineNext]_engineVars PROVE EngineTypeOK'
  OBVIOUS
<1>1. CASE Resume
  BY <1>1, TypeFreshWorkers DEF Resume, EngineTypeOK, durable
<1>2. CASE StartFresh
  BY <1>2, TypeFreshWorkers DEF StartFresh, Partial, EngineTypeOK
<1>3. CASE CreateManifest
  BY <1>3 DEF CreateManifest, Saved, EngineTypeOK, workers
<1>4. ASSUME NEW w \in Worker, Takes(w)
      PROVE  EngineTypeOK'
  <2>1. PICK t \in Ranges : Assign(w, t)
    BY <1>4 DEF Takes
  <2>2. t \in Task
    BY NoTaskTyped
  <2>3. QED
    BY <1>4, <2>1, <2>2 DEF Takes, Assign, Goto, EngineTypeOK, durable, control
<1>5. ASSUME NEW w \in Worker, Departs(w)
      PROVE  EngineTypeOK'
  BY <1>5 DEF Departs, Leave, Goto, EngineTypeOK, durable, control
<1>6. CASE Join
  BY <1>6 DEF Join, EngineTypeOK, durable, workers
<1>7. CASE Crash
  BY <1>7, TypeFreshWorkers DEF Crash, EngineTypeOK, durable
<1>8. CASE UNCHANGED engineVars
  BY <1>8 DEF engineVars, durable, control, workers, EngineTypeOK
<1>9. QED
  BY <1>1, <1>2, <1>3, <1>4, <1>5, <1>6, <1>7, <1>8, TypeSegmentStep, TypeLifecycle DEF EngineNext

-----------------------------------------------------------------------------
(***************************************************************************)
(* What workers, phase, verdict and manifest have to do with each other.   *)
(***************************************************************************)
LEMMA EngineInvInit == EngineInit => EngineInv
  BY DEF EngineInit, EngineInv, HoldInv, Holding, PhaseInv, VerdictInv, CancelSavesEverything, Absent

\* A run begins or the process dies: all workers are fresh.
LEMMA EngineInvFresh ==
  ASSUME FreshWorkers, phase' \in {"idle", "creating", "running"}, verdict' = "none",
         completed' = {} \/ phase' = "running",
         disk'.state # "saved" => disk'.done = {}
  PROVE  EngineInv'
<1>1. \A w \in Worker : pc'[w] = "pick" /\ task'[w] = NoTask
  BY DEF FreshWorkers
<1>2. firstErr' = "none" /\ saver' = "waiting"
  BY DEF FreshWorkers
<1>3. HoldInv' /\ PhaseInv'
  BY <1>1, <1>2 DEF HoldInv, Holding, PhaseInv
<1>4. VerdictInv' /\ CancelSavesEverything'
  BY DEF VerdictInv, CancelSavesEverything
<1>5. QED
  BY <1>3, <1>4 DEF EngineInv

\* A step of one worker in a running engine: the rest stays as it is.
LEMMA EngineInvWorker ==
  ASSUME EngineInv, phase = "running", NEW w \in Worker,
         DOMAIN pc = Worker, DOMAIN task = Worker,
         UNCHANGED <<disk, phase, verdict, saver>>, completed \subseteq completed', completed' \subseteq Byte,
         NEW where \in {"pick", "try", "stream", "backoff", "record", "exited"},
         pc' = [pc EXCEPT ![w] = where],
         NEW t, task' = [task EXCEPT ![w] = t],
         IF where \in {"pick", "exited"} THEN t = NoTask ELSE InsideChunk(t)
  PROVE  EngineInv'
<1>1. HoldInv'
  BY DEF EngineInv, HoldInv, Holding
<1>2. PhaseInv'
  BY DEF EngineInv, PhaseInv
<1>3. VerdictInv' /\ CancelSavesEverything'
  BY DEF EngineInv, VerdictInv, CancelSavesEverything
<1>4. QED
  BY <1>1, <1>2, <1>3 DEF EngineInv

\* The saver, the main goroutine and the context leave the workers alone.
LEMMA EngineInvLifecycle ==
  ASSUME EngineTypeOK, EngineInv, DecidedWhole, Lifecycle
  PROVE  EngineInv'
<1> USE DEF EngineInv, workers
<1>0. UNCHANGED <<pc, task, completed>>
  BY DEF Lifecycle, CreateFails, Interrupt, SaverTick, SaverDone, SaverFails, Decide, FinalSave,
         FinalSaveFails, RemoveManifest, RemoveFails
<1>1. HoldInv'
  BY <1>0 DEF HoldInv, Holding
<1>2. CASE CreateFails
  BY <1>1, <1>2 DEF CreateFails, durable, PhaseInv, Holding, VerdictInv, CancelSavesEverything
<1>3. CASE Interrupt
  BY <1>1, <1>3 DEF Interrupt, control, durable, PhaseInv, Holding, AllExited, VerdictInv,
                    CancelSavesEverything
<1>4. CASE SaverTick \/ SaverDone \/ SaverFails
  <2>1. /\ phase \in {"running", "stopping"} /\ UNCHANGED <<phase, verdict, firstErr>>
        /\ disk'.state # "saved" => disk'.done = {}
    BY <1>4 DEF SaverTick, SaverDone, SaverFails, Unlock, Partial, Saved, control, durable, PhaseInv
  <2>2. PhaseInv'
    BY <1>0, <2>1 DEF PhaseInv, Holding, AllExited
  <2>3. VerdictInv' /\ CancelSavesEverything'
    BY <2>1 DEF VerdictInv, CancelSavesEverything
  <2>4. QED
    BY <1>1, <2>2, <2>3
<1>5. CASE Decide
  <2>1. /\ phase = "stopping" /\ saver' = "waiting" /\ verdict' = Outcome
        /\ \/ phase' = "final" /\ disk' = Partial /\ Outcome # "failed"
           \/ phase' = "ended" /\ disk' = disk /\ Outcome = "failed"
        /\ Outcome \in {"failed", "cancelled", "success"}
    BY <1>5 DEF Decide, SavesAtEnd, Outcome
  <2>2. PhaseInv'
    BY <1>0, <2>1 DEF PhaseInv, Holding, Partial, DecidedWhole
  <2>3. VerdictInv' /\ CancelSavesEverything'
    BY <2>1 DEF VerdictInv, CancelSavesEverything, Partial
  <2>4. QED
    BY <1>1, <2>2, <2>3
<1>6. CASE FinalSave \/ FinalSaveFails
  <2>1. /\ phase = "final" /\ UNCHANGED <<verdict, saver>>
        /\ phase' = IF verdict = "success" THEN "removing" ELSE "ended"
        /\ disk' = Saved(completed) \/ (SaveMayFail /\ disk' = disk)
    BY <1>6 DEF FinalSave, FinalSaveFails, durable
  <2>2. PhaseInv'
    BY <1>0, <2>1 DEF PhaseInv, Holding, Saved
  <2>3. VerdictInv' /\ CancelSavesEverything'
    BY <1>0, <2>1 DEF VerdictInv, CancelSavesEverything, Partial, Saved
  <2>4. QED
    BY <1>1, <2>2, <2>3
<1>7. CASE RemoveManifest \/ RemoveFails
  <2>1. /\ phase = "removing" /\ phase' = "ended" /\ UNCHANGED saver
        /\ verdict' = "success" \/ verdict' = "failed"
        /\ verdict' = verdict \/ verdict' = "failed"
        /\ disk' = Absent \/ disk' = disk
    BY <1>7 DEF RemoveManifest, RemoveFails, durable, VerdictInv
  <2>2. PhaseInv'
    BY <1>0, <2>1 DEF PhaseInv, Holding, Absent
  <2>3. VerdictInv' /\ CancelSavesEverything'
    BY <2>1 DEF VerdictInv, CancelSavesEverything
  <2>4. QED
    BY <1>1, <2>2, <2>3
<1>8. QED
  BY <1>2, <1>3, <1>4, <1>5, <1>6, <1>7 DEF Lifecycle

LEMMA EngineInvStep ==
  EngineTypeOK /\ EngineTypeOK' /\ EngineInv /\ DecidedWhole /\ [EngineNext]_engineVars => EngineInv'
<1> SUFFICES ASSUME EngineTypeOK, EngineTypeOK', EngineInv, DecidedWhole, [EngineNext]_engineVars
             PROVE  EngineInv'
  OBVIOUS
<1>0. /\ DOMAIN pc = Worker /\ DOMAIN task = Worker /\ task \in [Worker -> Task]
      /\ completed \subseteq Byte /\ completed' \subseteq Byte
  BY DEF EngineTypeOK
<1>1. CASE Resume \/ StartFresh \/ Crash
  BY <1>1, EngineInvFresh DEF Resume, StartFresh, Crash, Partial, durable, EngineInv, PhaseInv
<1>2. CASE CreateManifest
  <2>1. HoldInv' /\ PhaseInv'
    BY <1>2 DEF CreateManifest, Saved, workers, EngineInv, HoldInv, Holding, PhaseInv
  <2>2. VerdictInv' /\ CancelSavesEverything'
    BY <1>2 DEF CreateManifest, VerdictInv, CancelSavesEverything
  <2>3. QED
    BY <2>1, <2>2 DEF EngineInv
<1>3. ASSUME NEW w \in Worker, Takes(w)
      PROVE  EngineInv'
  <2>1. PICK t \in Ranges : InsideChunk(t) /\ Assign(w, t)
    BY <1>3 DEF Takes
  <2>2. /\ pc' = [pc EXCEPT ![w] = "try"] /\ task' = [task EXCEPT ![w] = t] /\ phase = "running"
        /\ UNCHANGED <<disk, phase, verdict, saver, completed>>
    BY <1>3, <2>1 DEF Takes, Assign, Goto, durable, control
  <2>3. QED
    BY <1>0, <2>1, <2>2, EngineInvWorker
<1>4. ASSUME NEW w \in Worker, Departs(w)
      PROVE  EngineInv'
  <2>1. /\ pc' = [pc EXCEPT ![w] = "exited"] /\ task' = task /\ task[w] = NoTask /\ phase = "running"
        /\ UNCHANGED <<disk, phase, verdict, saver, completed>>
    BY <1>4 DEF Departs, Leave, Goto, durable, control, EngineInv, HoldInv, Holding
  <2>2. task' = [task EXCEPT ![w] = NoTask]
    BY <1>0, <2>1
  <2>3. QED
    BY <1>0, <2>1, <2>2, EngineInvWorker
<1>5. ASSUME NEW w \in Worker, SegmentStep(w)
      PROVE  EngineInv'
  <2>1. /\ phase = "running" /\ Holding(w) /\ UNCHANGED <<disk, phase, verdict, saver>>
        /\ completed \subseteq completed' /\ InsideChunk(task[w])
    BY <1>5, SegmentEffect DEF EngineInv, HoldInv
  <2>2. CASE /\ \E where \in {"try", "stream", "backoff", "record"} : pc' = [pc EXCEPT ![w] = where]
             /\ task' = task
    <3>1. task' = [task EXCEPT ![w] = task[w]]
      BY <1>0, <2>2
    <3>2. QED
      BY <1>0, <2>1, <2>2, <3>1, EngineInvWorker
  <2>3. CASE \E where \in {"pick", "exited"} :
               pc' = [pc EXCEPT ![w] = where] /\ task' = [task EXCEPT ![w] = NoTask]
    BY <1>0, <2>1, <2>3, EngineInvWorker
  <2>4. QED
    BY <1>5, <2>2, <2>3, SegmentEffect DEF EngineInv
<1>6. CASE Join
  <2>1. HoldInv' /\ PhaseInv'
    BY <1>6 DEF Join, workers, durable, EngineInv, HoldInv, Holding, PhaseInv, AllExited
  <2>2. VerdictInv' /\ CancelSavesEverything'
    BY <1>6 DEF Join, VerdictInv, CancelSavesEverything
  <2>3. QED
    BY <2>1, <2>2 DEF EngineInv
<1>7. CASE UNCHANGED engineVars
  BY <1>7 DEF engineVars, durable, control, workers, EngineInv, HoldInv, Holding, PhaseInv, AllExited,
              VerdictInv, CancelSavesEverything
<1>8. QED
  BY <1>1, <1>2, <1>3, <1>4, <1>5, <1>6, <1>7, EngineInvLifecycle DEF EngineNext

-----------------------------------------------------------------------------
(***************************************************************************)
(* Content.  Every claim rests on bytes that were written first.  This is  *)
(* where a body that ends early would break the argument: a worker that    *)
(* saw the end of the body has written the whole range only if bodies are  *)
(* as long as the range that was asked for.                                *)
(***************************************************************************)
ContentInv == StreamInv /\ ClaimedIsWritten

\* Steps that neither write, claim nor save, and bring no worker to stream or record.
LEMMA ContentQuiet ==
  ASSUME EngineTypeOK, ContentInv,
         UNCHANGED written,
         completed' \subseteq written,
         disk'.done \subseteq written,
         \A w \in Worker : pc'[w] \in {"stream", "record"} =>
           pc'[w] = pc[w] /\ task'[w] = task[w] /\ offset'[w] = offset[w]
  PROVE  ContentInv'
<1>1. StreamInv'
  BY DEF ContentInv, StreamInv
<1>2. ClaimedIsWritten'
  BY DEF ClaimedIsWritten
<1>3. QED
  BY <1>1, <1>2 DEF ContentInv

LEMMA ContentSegmentStep ==
  ASSUME ~ShortBodies, EngineTypeOK, HoldInv, ContentInv, NEW w \in Worker, SegmentStep(w)
  PROVE  ContentInv'
<1>1. /\ completed \subseteq written /\ disk.done \subseteq written
      /\ task \in [Worker -> Task] /\ DOMAIN pc = Worker /\ offset \in [Worker -> 0 .. Size]
  BY DEF ContentInv, ClaimedIsWritten, EngineTypeOK
<1>2. CASE TransientFailure(w)
  BY <1>1, <1>2, ContentQuiet DEF TransientFailure, OutOfBudget, GiveUp, Backoff, Goto, durable
<1>3. CASE PermanentFailure(w)
  BY <1>1, <1>3, ContentQuiet DEF PermanentFailure, OutOfBudget, GiveUp, Backoff, Goto, durable
<1>4. CASE Interrupted(w)
  BY <1>1, <1>4, ContentQuiet DEF Interrupted, GiveUp, Goto, durable
<1>5. CASE Retry(w)
  BY <1>1, <1>5, ContentQuiet DEF Retry, Goto, durable
<1> DEFINE t == task[w]
<1>6. Holding(w) => t.start \in Nat /\ t.end \in Nat /\ t.start <= t.end
  BY Arithmetic DEF HoldInv, InsideChunk, Ranges, Byte
<1>7. CASE Respond(w)
  <2>1. /\ pc' = [pc EXCEPT ![w] = "stream"] /\ offset' = [offset EXCEPT ![w] = t.start]
        /\ UNCHANGED <<written, disk, completed, task>>
    BY <1>7 DEF Respond, Goto, durable
  <2>2. t.start \in Nat /\ t.end \in Nat /\ t.start <= t.end
    BY <1>6, <1>7 DEF Respond, Holding
  <2>3. t.start \in t.start .. t.end + 1 /\ t.start .. t.start - 1 \subseteq written
    BY <2>2
  <2>4. StreamInv'
    BY <1>1, <2>1, <2>3 DEF ContentInv, StreamInv
  <2>5. QED
    BY <2>1, <2>4 DEF ContentInv, ClaimedIsWritten
<1>8. CASE WriteBytes(w)
  <2>1. PICK n \in 1 .. BufferSize :
          /\ offset[w] + n - 1 <= t.end
          /\ written' = written \union (offset[w] .. offset[w] + n - 1)
          /\ offset' = [offset EXCEPT ![w] = @ + n]
    BY <1>8 DEF WriteBytes
  <2>2. /\ pc[w] = "stream" /\ UNCHANGED <<pc, task, disk, completed>>
    BY <1>8 DEF WriteBytes
  <2>3. /\ t.start \in Nat /\ t.end \in Nat /\ n \in Nat /\ n >= 1
        /\ offset[w] \in Nat /\ t.start <= offset[w]
        /\ t.start .. offset[w] - 1 \subseteq written
    BY <1>1, <1>6, <2>2, Arithmetic DEF Holding, ContentInv, StreamInv
  <2>4. /\ offset[w] + n \in t.start .. t.end + 1
        /\ \A b \in t.start .. offset[w] + n - 1 :
             b \in t.start .. offset[w] - 1 \/ b \in offset[w] .. offset[w] + n - 1
    BY <2>1, <2>3
  <2>5. t.start .. (offset[w] + n) - 1 \subseteq written'
    BY <2>1, <2>3, <2>4
  <2>6. written \subseteq written'
    BY <2>1
  <2>7. \A v \in Worker \ {w} : offset'[v] = offset[v]
    BY <1>1, <2>1
  <2>8. offset'[w] = offset[w] + n
    BY <1>1, <2>1
  <2>9. StreamInv'
    BY <2>2, <2>4, <2>5, <2>6, <2>7, <2>8 DEF ContentInv, StreamInv
  <2>10. QED
    BY <1>1, <2>2, <2>6, <2>9 DEF ContentInv, ClaimedIsWritten
<1>9. CASE EndOfBody(w)
  <2>1. /\ pc[w] = "stream" /\ offset[w] > t.end
        /\ pc' = [pc EXCEPT ![w] = "record"]
        /\ UNCHANGED <<written, disk, completed, task, offset>>
    BY <1>9 DEF EndOfBody, BodyIsOver, Goto, durable
  <2>2. /\ t.start \in Nat /\ t.end \in Nat /\ offset[w] \in Nat
        /\ offset[w] \in t.start .. t.end + 1
        /\ t.start .. offset[w] - 1 \subseteq written
    BY <1>1, <1>6, <2>1, Arithmetic DEF Holding, ContentInv, StreamInv
  <2>3. offset[w] - 1 = t.end
    BY <2>1, <2>2
  <2>4. Bytes(t) \subseteq written
    BY <2>2, <2>3 DEF Bytes
  <2>5. StreamInv'
    BY <1>1, <2>1, <2>4 DEF ContentInv, StreamInv
  <2>6. QED
    BY <2>1, <2>5 DEF ContentInv, ClaimedIsWritten
<1>10. CASE RecordSegment(w)
  <2>1. completed' \subseteq written
    BY <1>1, <1>10 DEF RecordSegment, ContentInv, StreamInv
  <2>2. QED
    BY <1>1, <1>10, <2>1, ContentQuiet DEF RecordSegment, Goto, durable
<1>11. QED
  BY <1>2, <1>3, <1>4, <1>5, <1>7, <1>8, <1>9, <1>10 DEF SegmentStep

LEMMA ContentInit == EngineInit => ContentInv
  BY DEF EngineInit, ContentInv, StreamInv, ClaimedIsWritten, Absent

LEMMA ContentStep ==
  ASSUME ~ShortBodies, EngineTypeOK, HoldInv, ContentInv, [EngineNext]_engineVars
  PROVE  ContentInv'
<1>1. completed \subseteq written /\ disk.done \subseteq written /\ DOMAIN pc = Worker
  BY DEF ContentInv, ClaimedIsWritten, EngineTypeOK
<1>2. CASE Resume \/ Crash
  BY <1>1, <1>2, ContentQuiet DEF Resume, Crash, FreshWorkers, durable
<1>3. CASE StartFresh
  BY <1>1, <1>3, ContentQuiet DEF StartFresh, FreshWorkers, Partial
<1>4. CASE CreateManifest
  BY <1>1, <1>4, ContentQuiet DEF CreateManifest, Saved, workers
<1>5. ASSUME NEW w \in Worker, Takes(w) \/ Departs(w)
      PROVE  ContentInv'
  <2>1. \A v \in Worker : pc'[v] \in {"stream", "record"} =>
          pc'[v] = pc[v] /\ task'[v] = task[v] /\ offset'[v] = offset[v]
    BY <1>1, <1>5 DEF Takes, Assign, Departs, Leave, Goto, EngineTypeOK
  <2>2. UNCHANGED <<written, completed, disk>>
    BY <1>5 DEF Takes, Departs, durable
  <2>3. QED
    BY <1>1, <2>1, <2>2, ContentQuiet
<1>6. CASE Join
  BY <1>1, <1>6, ContentQuiet DEF Join, durable, workers
<1>7. CASE Lifecycle
  <2>1. /\ UNCHANGED <<written, completed, pc, task, offset>>
        /\ disk' = disk \/ disk' = Partial \/ disk' = Absent \/ disk' = Saved(completed)
    BY <1>7 DEF Lifecycle, CreateFails, Interrupt, SaverTick, SaverDone, SaverFails, Unlock,
                Decide, SavesAtEnd, FinalSave, FinalSaveFails, RemoveManifest, RemoveFails, durable, workers
  <2>2. disk'.done \subseteq written
    BY <1>1, <2>1 DEF Partial, Absent, Saved
  <2>3. QED
    BY <1>1, <2>1, <2>2, ContentQuiet
<1>8. CASE UNCHANGED engineVars
  BY <1>1, <1>8, ContentQuiet DEF engineVars, durable, workers
<1>9. QED
  BY <1>2, <1>3, <1>4, <1>5, <1>6, <1>7, <1>8, ContentSegmentStep DEF EngineNext

LEMMA WholeWhenRecorded ==
  ASSUME EngineTypeOK, EngineInv, ContentInv
  PROVE  SuccessMeansWhole
<1> SUFFICES ASSUME verdict = "success" PROVE written = Byte
  BY DEF SuccessMeansWhole
<1>1. completed = Byte /\ completed \subseteq written /\ written \subseteq Byte
  BY DEF EngineInv, PhaseInv, ContentInv, ClaimedIsWritten, EngineTypeOK
<1>2. QED
  BY <1>1

-----------------------------------------------------------------------------
(***************************************************************************)
(* The engine implements module Transfer: every step of it is a step of    *)
(* the abstract download or leaves that as it is.                          *)
(***************************************************************************)
LEMMA PromiseInit == EngineInit => Promise!Init
  BY DEF EngineInit, Absent, RunOutcome, Promise!Init

\* A worker writes (Fetch), records (Claim), or does nothing its caller could see.
LEMMA PromiseWorker ==
  ASSUME EngineTypeOK', ClaimedIsWritten', NEW w \in Worker, Takes(w) \/ Departs(w) \/ SegmentStep(w)
  PROVE  [Promise!Next]_(Promise!vars)
<1>1. /\ phase = "running" /\ UNCHANGED <<phase, verdict, disk>>
      /\ UNCHANGED written \/ UNCHANGED completed
      /\ written \subseteq written' /\ completed \subseteq completed'
  BY DEF Takes, Departs, SegmentStep, TransientFailure, PermanentFailure,
         Interrupted, Retry, Respond, WriteBytes, EndOfBody, RecordSegment, control, durable
<1>2. RunOutcome = "running" /\ RunOutcome' = "running"
  BY <1>1 DEF RunOutcome
<1>3. CASE UNCHANGED completed
  <2>1. written' \in SUBSET Promise!Byte
    BY DEF EngineTypeOK, Byte, Promise!Byte
  <2>2. Promise!Fetch
    BY <1>1, <1>2, <1>3, <2>1 DEF Promise!Fetch, Promise!Running
  <2>3. QED
    BY <2>2 DEF Promise!Next
<1>4. CASE UNCHANGED written
  <2>1. Promise!Claim
    BY <1>1, <1>2, <1>4 DEF Promise!Claim, Promise!Running, ClaimedIsWritten
  <2>2. QED
    BY <2>1 DEF Promise!Next
<1>5. QED
  BY <1>1, <1>3, <1>4

LEMMA PromiseLifecycle ==
  ASSUME EngineInv, Lifecycle
  PROVE  [Promise!Next]_(Promise!vars)
<1> USE DEF Promise!Running, RunOutcome
<1>1. CASE CreateFails
  <2>1. Promise!Report
    BY <1>1 DEF CreateFails, durable, Promise!Report
  <2>2. QED
    BY <2>1 DEF Promise!Next
<1>2. CASE Interrupt \/ SaverFails
  <2>1. UNCHANGED Promise!vars
    BY <1>2 DEF Interrupt, SaverFails, durable, control, Promise!vars
  <2>2. QED
    BY <2>1
<1>3. CASE SaverTick
  <2>1. Promise!Lose
    BY <1>3 DEF SaverTick, Partial, control, Promise!Lose
  <2>2. QED
    BY <2>1 DEF Promise!Next
<1>4. CASE SaverDone
  <2>1. phase \in {"running", "stopping"}
    BY <1>4 DEF SaverDone, EngineInv, PhaseInv
  <2>2. Promise!Save
    BY <1>4, <2>1 DEF SaverDone, Saved, control, Promise!Save
  <2>3. QED
    BY <2>2 DEF Promise!Next
<1>5. CASE Decide
  <2>1. CASE Outcome = "failed"
    <3>1. Promise!Report
      BY <1>5, <2>1 DEF Decide, SavesAtEnd, Promise!Report
    <3>2. QED
      BY <3>1 DEF Promise!Next
  <2>2. CASE Outcome # "failed"
    <3>1. Promise!Lose
      BY <1>5, <2>2 DEF Decide, SavesAtEnd, Partial, Promise!Lose
    <3>2. QED
      BY <3>1 DEF Promise!Next
  <2>3. QED
    BY <2>1, <2>2
<1>6. CASE FinalSave \/ FinalSaveFails
  <2>1. /\ phase = "final" /\ verdict \in {"success", "cancelled"} /\ UNCHANGED verdict
        /\ phase' = IF verdict = "success" THEN "removing" ELSE "ended"
        /\ disk'.done \in {disk.done, completed}
        /\ UNCHANGED <<written, completed>>
    BY <1>6 DEF FinalSave, FinalSaveFails, Saved, durable, EngineInv, VerdictInv
  <2>2. verdict = "success" => completed = Promise!Byte
    BY DEF EngineInv, PhaseInv, Byte, Promise!Byte
  <2>3. Promise!Report
    BY <2>1, <2>2 DEF Promise!Report
  <2>4. QED
    BY <2>3 DEF Promise!Next
<1>7. CASE RemoveManifest
  <2>1. Promise!Lose
    BY <1>7 DEF RemoveManifest, Absent, EngineInv, VerdictInv, Promise!Lose
  <2>2. QED
    BY <2>1 DEF Promise!Next
<1>8. CASE RemoveFails
  <2>1. Promise!Disappoint
    BY <1>8 DEF RemoveFails, durable, EngineInv, VerdictInv, Promise!Disappoint
  <2>2. QED
    BY <2>1 DEF Promise!Next
<1>9. QED
  BY <1>1, <1>2, <1>3, <1>4, <1>5, <1>6, <1>7, <1>8 DEF Lifecycle

LEMMA PromiseStep ==
  ASSUME EngineTypeOK, EngineInv, EngineTypeOK', ClaimedIsWritten', [EngineNext]_engineVars
  PROVE  [Promise!Next]_(Promise!vars)
<1> USE DEF Promise!Running, RunOutcome
<1>1. CASE Resume
  <2>1. Promise!Begin
    BY <1>1 DEF Resume, MayStart, durable, EngineInv, VerdictInv, EngineTypeOK, Promise!Begin
  <2>2. QED
    BY <2>1 DEF Promise!Next
<1>2. CASE StartFresh
  <2>1. disk.done = {}
    BY <1>2 DEF StartFresh, EngineInv, PhaseInv
  <2>2. Promise!Begin
    BY <1>2, <2>1
    DEF StartFresh, MayStart, Partial, EngineInv, VerdictInv, EngineTypeOK, Promise!Begin
  <2>3. QED
    BY <2>2 DEF Promise!Next
<1>3. CASE CreateManifest
  <2>1. Promise!Lose
    BY <1>3 DEF CreateManifest, Saved, Promise!Lose
  <2>2. QED
    BY <2>1 DEF Promise!Next
<1>4. ASSUME NEW w \in Worker, Takes(w) \/ Departs(w) \/ SegmentStep(w)
      PROVE  [Promise!Next]_(Promise!vars)
  BY <1>4, PromiseWorker
<1>5. CASE Join
  <2>1. UNCHANGED Promise!vars
    BY <1>5 DEF Join, durable, Promise!vars
  <2>2. QED
    BY <2>1
<1>6. CASE Lifecycle
  BY <1>6, PromiseLifecycle
<1>7. CASE Crash
  <2>1. Promise!Die
    BY <1>7 DEF Crash, durable, EngineInv, VerdictInv, Promise!Die
  <2>2. QED
    BY <2>1 DEF Promise!Next
<1>8. CASE UNCHANGED engineVars
  <2>1. UNCHANGED Promise!vars
    BY <1>8 DEF engineVars, durable, control, Promise!vars
  <2>2. QED
    BY <2>1
<1>9. QED
  BY <1>1, <1>2, <1>3, <1>4, <1>5, <1>6, <1>7, <1>8 DEF EngineNext

-----------------------------------------------------------------------------
(***************************************************************************)
(* And what the abstract download promises it keeps.                       *)
(***************************************************************************)
LEMMA HonestStep ==
  ASSUME Promise!TypeOK, Promise!Honest, [Promise!Next]_(Promise!vars)
  PROVE  Promise!TypeOK' /\ Promise!Honest'
<1> USE DEF Promise!TypeOK, Promise!Honest, Promise!Running
<1>1. CASE Promise!Begin
  BY <1>1 DEF Promise!Begin
<1>2. CASE Promise!Fetch
  BY <1>2 DEF Promise!Fetch
<1>3. CASE Promise!Claim
  BY <1>3 DEF Promise!Claim
<1>4. CASE Promise!Lose
  BY <1>4 DEF Promise!Lose
<1>5. CASE Promise!Save
  BY <1>5 DEF Promise!Save
<1>6. CASE Promise!Report
  BY <1>6 DEF Promise!Report
<1>7. CASE Promise!Disappoint \/ Promise!Die
  BY <1>7 DEF Promise!Disappoint, Promise!Die
<1>8. CASE UNCHANGED Promise!vars
  BY <1>8 DEF Promise!vars
<1>9. QED
  BY <1>1, <1>2, <1>3, <1>4, <1>5, <1>6, <1>7, <1>8 DEF Promise!Next

(***************************************************************************)
(* A download that follows Transfer never skips a byte it does not have    *)
(* and never calls a partial file a success.                               *)
(***************************************************************************)
THEOREM TransferIsHonest == TransferSpec => []Promise!Honest
<1>1. Promise!Init => Promise!TypeOK /\ Promise!Honest
  BY DEF Promise!Init, Promise!TypeOK, Promise!Honest
<1>2. Promise!TypeOK /\ Promise!Honest /\ [Promise!Next]_(Promise!vars) => Promise!TypeOK' /\ Promise!Honest'
  BY HonestStep
<1>3. QED
  BY <1>1, <1>2, PTL DEF TransferSpec, Promise!Spec
=============================================================================
