---------------------------- MODULE SegmentQueue ----------------------------
(***************************************************************************)
(* core.runQueueMode: the main goroutine walks the segments in order and   *)
(* sends the missing ranges into a bounded channel from which the workers  *)
(* receive; it joins the workers only after it has closed the channel.     *)
(***************************************************************************)
EXTENDS SegmentEngine, Sequences

ASSUME QueueAssumption == QueueMode

VARIABLES
  taskCh,     \* the channel, capacity twice the connections
  producer,   \* "scan": next loop turn; "send": blocked in or before the send; "closed"
  cursor,     \* the segment the outer loop will look at next
  batch       \* ranges of the current segment still to be sent

queueVars == <<taskCh, producer, cursor, batch>>
vars == <<engineVars, queueVars>>

\* Bug variant: half the room.
Capacity_OnePerConnection == Connections

Capacity == Connections * 2

Init ==
  /\ EngineInit
  /\ taskCh = <<>> /\ producer = "closed" /\ cursor = 0 /\ batch = {}

\* Bug variant: the first segment is left out.
StartProducer_SkipsFirst == taskCh' = <<>> /\ producer' = "scan" /\ cursor' = 1 /\ batch' = {}

StartProducer == taskCh' = <<>> /\ producer' = "scan" /\ cursor' = 0 /\ batch' = {}

ResumeRun  == Resume /\ StartProducer
BeginFresh == StartFresh /\ UNCHANGED queueVars
FreshRun   == CreateManifest /\ StartProducer
-----------------------------------------------------------------------------
(***************************************************************************)
(* The producer.  Both loops check the context at the top of a turn; the   *)
(* send itself waits for room in the channel and for nothing else.         *)
(***************************************************************************)
StopProducing ==
  /\ phase = "running" /\ producer = "scan"
  /\ ctx # "live" \/ (batch = {} /\ cursor = PieceCount)
  /\ producer' = "closed"
  /\ batch' = {}
  /\ UNCHANGED <<engineVars, taskCh, cursor>>

\* Bug variant: the loop does not move on.
NextSegment_Repeats ==
  /\ phase = "running" /\ producer = "scan"
  /\ ctx = "live" /\ batch = {} /\ cursor < PieceCount
  /\ batch' = Missing(cursor, completed)
  /\ UNCHANGED <<engineVars, taskCh, producer, cursor>>

\* The ranges of the next segment; a segment that is done has none.
NextSegment ==
  /\ phase = "running" /\ producer = "scan"
  /\ ctx = "live" /\ batch = {} /\ cursor < PieceCount
  /\ batch' = Missing(cursor, completed)
  /\ cursor' = cursor + 1
  /\ UNCHANGED <<engineVars, taskCh, producer>>

NextRange ==
  /\ phase = "running" /\ producer = "scan"
  /\ ctx = "live" /\ batch # {}
  /\ producer' = "send"
  /\ UNCHANGED <<engineVars, taskCh, cursor, batch>>

Send ==
  /\ phase = "running" /\ producer = "send"
  /\ Len(taskCh) < Capacity
  /\ \E t \in batch :
       /\ \A u \in batch : t.start <= u.start
       /\ taskCh' = Append(taskCh, t)
       /\ batch' = batch \ {t}
  /\ producer' = "scan"
  /\ UNCHANGED <<engineVars, cursor>>

Produce == StopProducing \/ NextSegment \/ NextRange \/ Send
-----------------------------------------------------------------------------
\* range taskCh; a task received after the context ended is dropped.
Receive(w) ==
  /\ phase = "running" /\ pc[w] = "pick"
  /\ taskCh # <<>>
  /\ taskCh' = Tail(taskCh)
  /\ IF ctx = "live" THEN Assign(w, Head(taskCh)) /\ UNCHANGED firstErr
                     ELSE Leave(w)
  /\ UNCHANGED <<durable, control, completed, ctx, saver, producer, cursor, batch>>

ChannelDrained(w) ==
  /\ phase = "running" /\ pc[w] = "pick"
  /\ taskCh = <<>> /\ producer = "closed"
  /\ Leave(w)
  /\ UNCHANGED <<durable, control, completed, ctx, saver, queueVars>>

WorkerStep(w) ==
  Receive(w) \/ ChannelDrained(w) \/ (SegmentStep(w) /\ UNCHANGED queueVars)

\* workerWG.Wait comes after the loops: the main goroutine is the producer.
JoinWorkers == producer = "closed" /\ Join /\ UNCHANGED queueVars

Background == Lifecycle /\ UNCHANGED queueVars

CrashRun ==
  /\ Crash
  /\ taskCh' = <<>> /\ producer' = "closed" /\ cursor' = 0 /\ batch' = {}

Next ==
  \/ ResumeRun \/ BeginFresh \/ FreshRun
  \/ Produce
  \/ \E w \in Worker : WorkerStep(w)
  \/ JoinWorkers \/ Background \/ CrashRun

Spec == Init /\ [][Next]_vars

(***************************************************************************)
(* As for WorkStealing: every goroutine runs, the mutex starves nobody,    *)
(* and a goroutine that waits at the channel is served (Go queues them).   *)
(***************************************************************************)
Fairness ==
  /\ WF_vars(Produce)
  /\ \A w \in Worker :
       SF_vars(Receive(w) \/ ChannelDrained(w) \/ (LocalStep(w) /\ UNCHANGED queueVars))
  /\ WF_vars(FreshRun)
  /\ WF_vars((SaverDone \/ SaverFails) /\ UNCHANGED queueVars)
  /\ WF_vars(JoinWorkers)
  /\ SF_vars(Decide /\ UNCHANGED queueVars)
  /\ WF_vars((FinalSave \/ FinalSaveFails) /\ UNCHANGED queueVars)
  /\ WF_vars((RemoveManifest \/ RemoveFails) /\ UNCHANGED queueVars)

FairSpec == Spec /\ Fairness

\* Every request is answered, breaks or goes on: the server never just falls silent.
ServerAnswers == \A w \in Worker : WF_vars(ServerStep(w) /\ UNCHANGED queueVars)
-----------------------------------------------------------------------------
TypeOK ==
  /\ EngineTypeOK
  /\ taskCh \in Seq(Ranges) /\ Len(taskCh) <= Capacity
  /\ producer \in {"scan", "send", "closed"}
  /\ cursor \in 0 .. PieceCount
  /\ batch \subseteq Ranges

Queued == UNION {Bytes(taskCh[i]) : i \in DOMAIN taskCh}
InFlight == UNION {Bytes(task[w]) : w \in Worker}
InBatch == UNION {Bytes(t) : t \in batch}

\* Segments the producer has not looked at yet.
Ahead == UNION {PieceBytes(Chunks[i]) : i \in {j \in Chunk : j >= cursor}}

(***************************************************************************)
(* Every byte has at most one owner: the ranges still to be sent, the      *)
(* channel, one worker, or the list of completed ranges.                   *)
(***************************************************************************)
OneOwner ==
  /\ \A i, j \in DOMAIN taskCh : i # j => Bytes(taskCh[i]) \intersect Bytes(taskCh[j]) = {}
  /\ \A v, w \in Worker : v # w => Bytes(task[v]) \intersect Bytes(task[w]) = {}
  /\ Queued \intersect InFlight = {}
  /\ InBatch \intersect (Queued \union InFlight) = {}
  /\ completed \intersect (InBatch \union Queued \union InFlight) = {}

(***************************************************************************)
(* While nobody gave up and the context is live, every byte is still ahead *)
(* of the producer or has an owner.                                        *)
(***************************************************************************)
NothingLost ==
  phase \in {"running", "stopping"} /\ firstErr = "none" /\ ctx = "live" =>
    Byte = Ahead \union InBatch \union Queued \union InFlight \union completed

(***************************************************************************)
(* The producer reads the ranges of a segment without taking manifestMu.   *)
(* That is no race: no worker holds a range of a segment it has not read.  *)
(***************************************************************************)
ProducerReadsAlone ==
  producer # "closed" =>
    \A w \in Worker : pc[w] # "pick" /\ pc[w] # "exited" => task[w].chunk < cursor

(***************************************************************************)
(* The inductive invariant behind these: what is sent, queued or held are  *)
(* proper ranges of segments the producer has read; it is done only with   *)
(* all of them, unless the context ended, and workers are joined only      *)
(* then; a worker that left cleanly found the channel closed and drained.  *)
(***************************************************************************)
ChannelInv == \A i \in DOMAIN taskCh : InsideChunk(taskCh[i])

BatchInv ==
  /\ \A t \in batch : InsideChunk(t) /\ t.chunk < cursor
  /\ \A t, u \in batch : t # u => Bytes(t) \intersect Bytes(u) = {}

ReadInv ==
  producer # "closed" =>
    /\ \A i \in DOMAIN taskCh : taskCh[i].chunk < cursor
    /\ \A w \in Worker : Holding(w) => task[w].chunk < cursor

ProducerInv ==
  /\ producer # "closed" => phase = "running"
  /\ phase \in {"running", "stopping"} /\ producer = "closed" /\ ctx = "live" =>
       batch = {} /\ cursor = PieceCount

DrainedInv ==
  phase \in {"running", "stopping"} /\ firstErr = "none" /\ ctx = "live"
    /\ (\E w \in Worker : pc[w] = "exited")
  => taskCh = <<>> /\ producer = "closed"

Delivery ==
  /\ ChannelInv /\ BatchInv /\ ReadInv /\ ProducerInv /\ DrainedInv
  /\ OneOwner /\ NothingLost

QueueInv == TypeOK /\ EngineInv /\ Delivery

(***************************************************************************)
(* A run whose workers do not give up and which nobody interrupts ends     *)
(* with the whole file, although the channel is smaller than the queue.    *)
(***************************************************************************)
Disturbed == firstErr # "none" \/ ctx # "live" \/ phase = "idle"
UndisturbedRunSucceeds ==
  ServerAnswers =>
    (phase = "running" ~> (Disturbed \/ (phase = "removing" /\ verdict = "success")))

(***************************************************************************)
(* With at most three segments per connection every run ends, whatever     *)
(* fails: each worker takes at least one before it leaves, and the channel *)
(* holds the rest.  One segment more and the run can hang: see below.      *)
(***************************************************************************)
ShortQueueEnds ==
  PieceCount <= 3 * Connections /\ ServerAnswers =>
    (phase = "running" ~> phase \in {"idle", "ended"})

(***************************************************************************)
(* docs/deep-dive/architecture.md: on Ctrl+C or SIGTERM the state is saved *)
(* before the process exits.  So a cancelled run must come to its end.     *)
(***************************************************************************)
CancelEndsTheRun ==
  phase = "running" /\ ctx = "canceled" ~> phase \in {"idle", "ended"}
=============================================================================
