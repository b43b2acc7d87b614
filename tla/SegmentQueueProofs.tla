-------------------------- MODULE SegmentQueueProofs --------------------------
(***************************************************************************)
(* Proofs about queue mode, for every file size, segment size, number of   *)
(* workers, retry budget and number of restarts.                           *)
(***************************************************************************)
EXTENDS SegmentQueue, SegmentEngineProofs, SequenceTheorems

LEMMA QueueArithmetic ==
  /\ Capacity \in Nat \ {0} /\ PieceCount \in Nat \ {0}
  /\ Chunk = 0 .. PieceCount - 1
  BY ChunksPartition, EngineAssumption DEF Capacity, Chunk

(***************************************************************************)
(* What the channel, the workers and the batch hold.                       *)
(***************************************************************************)
LEMMA HeldBytes ==
  /\ \A b : b \in Queued <=> \E i \in DOMAIN taskCh : b \in Bytes(taskCh[i])
  /\ \A b : b \in Queued' <=> \E i \in DOMAIN taskCh' : b \in Bytes(taskCh'[i])
  /\ \A b : b \in InFlight <=> \E w \in Worker : b \in Bytes(task[w])
  /\ \A b : b \in InFlight' <=> \E w \in Worker : b \in Bytes(task'[w])
  /\ \A b : b \in InBatch <=> \E t \in batch : b \in Bytes(t)
  /\ \A b : b \in InBatch' <=> \E t \in batch' : b \in Bytes(t)
  BY DEF Queued, InFlight, InBatch

LEMMA ChannelAppend ==
  ASSUME taskCh \in Seq(Ranges), NEW t \in Ranges, taskCh' = Append(taskCh, t)
  PROVE  /\ taskCh' \in Seq(Ranges) /\ Len(taskCh') = Len(taskCh) + 1
         /\ \A i \in DOMAIN taskCh' : \/ i \in DOMAIN taskCh /\ taskCh'[i] = taskCh[i]
                                      \/ i = Len(taskCh) + 1 /\ taskCh'[i] = t
         /\ Queued' = Queued \union Bytes(t)
<1>1. /\ taskCh' \in Seq(Ranges) /\ Len(taskCh') = Len(taskCh) + 1
      /\ \A i \in 1 .. Len(taskCh) : taskCh'[i] = taskCh[i]
      /\ taskCh'[Len(taskCh) + 1] = t
  BY AppendProperties
<1>2. /\ Len(taskCh) \in Nat /\ DOMAIN taskCh = 1 .. Len(taskCh)
      /\ DOMAIN taskCh' = 1 .. Len(taskCh) + 1
  BY <1>1
<1>3. \A i \in DOMAIN taskCh' : \/ i \in DOMAIN taskCh /\ taskCh'[i] = taskCh[i]
                                \/ i = Len(taskCh) + 1 /\ taskCh'[i] = t
  BY <1>1, <1>2
<1>4. \A b : b \in Queued' <=> b \in Queued \/ b \in Bytes(t)
  BY <1>1, <1>2, <1>3, HeldBytes
<1>5. QED
  BY <1>1, <1>3, <1>4

LEMMA ChannelTail ==
  ASSUME taskCh \in Seq(Ranges), taskCh # <<>>, taskCh' = Tail(taskCh)
  PROVE  /\ taskCh' \in Seq(Ranges) /\ Len(taskCh') = Len(taskCh) - 1
         /\ 1 \in DOMAIN taskCh /\ Head(taskCh) = taskCh[1]
         /\ \A i \in DOMAIN taskCh' : i + 1 \in DOMAIN taskCh /\ i + 1 # 1 /\ i \in Nat
                                      /\ taskCh'[i] = taskCh[i + 1]
         /\ Queued = Bytes(Head(taskCh)) \union Queued'
<1>1. /\ taskCh' \in Seq(Ranges) /\ Len(taskCh') = Len(taskCh) - 1
      /\ \A i \in 1 .. Len(taskCh') : taskCh'[i] = taskCh[i + 1]
  BY HeadTailProperties
<1>2. /\ Len(taskCh) \in Nat \ {0} /\ DOMAIN taskCh = 1 .. Len(taskCh)
      /\ DOMAIN taskCh' = 1 .. Len(taskCh) - 1
  BY <1>1, EmptySeq
<1>3. Head(taskCh) = taskCh[1] /\ 1 \in DOMAIN taskCh
  BY <1>2
<1>4. \A i \in DOMAIN taskCh' : i + 1 \in DOMAIN taskCh /\ i + 1 # 1 /\ i \in Nat
                                /\ taskCh'[i] = taskCh[i + 1]
  BY <1>1, <1>2
<1>5. \A i \in DOMAIN taskCh : i = 1 \/ (i - 1 \in DOMAIN taskCh' /\ taskCh'[i - 1] = taskCh[i])
  <2>1. \A i \in DOMAIN taskCh : i = 1 \/ (i - 1 \in 1 .. Len(taskCh') /\ (i - 1) + 1 = i)
    BY <1>1, <1>2
  <2>2. QED
    BY <1>1, <1>2, <2>1
<1>6. ASSUME NEW b \in Queued PROVE b \in Bytes(Head(taskCh)) \/ b \in Queued'
  <2>1. PICK i \in DOMAIN taskCh : b \in Bytes(taskCh[i])
    BY HeldBytes
  <2>2. CASE i = 1
    BY <1>3, <2>1, <2>2
  <2>3. CASE i - 1 \in DOMAIN taskCh' /\ taskCh'[i - 1] = taskCh[i]
    BY <2>1, <2>3, HeldBytes
  <2>4. QED
    BY <1>5, <2>2, <2>3
<1>7. ASSUME NEW b \in Queued' PROVE b \in Queued
  <2>1. PICK i \in DOMAIN taskCh' : b \in Bytes(taskCh'[i])
    BY HeldBytes
  <2>2. i + 1 \in DOMAIN taskCh /\ b \in Bytes(taskCh[i + 1])
    BY <1>4, <2>1
  <2>3. QED
    BY <2>2, HeldBytes
<1>8. Bytes(Head(taskCh)) \subseteq Queued
  BY <1>3, HeldBytes
<1>9. QED
  BY <1>1, <1>3, <1>4, <1>6, <1>7, <1>8

\* Ranges of a segment share no byte with those of others.
LEMMA OtherSegment ==
  ASSUME NEW t, InsideChunk(t), NEW i \in Chunk, t.chunk # i
  PROVE  Bytes(t) \intersect PieceBytes(Chunks[i]) = {}
<1>1. t.chunk \in Chunk /\ Bytes(t) \subseteq PieceBytes(Chunks[t.chunk])
  BY DEF InsideChunk, Ranges
<1>2. PieceBytes(Chunks[t.chunk]) \intersect PieceBytes(Chunks[i]) = {}
  BY <1>1, ChunksPartition
<1>3. QED
  BY <1>1, <1>2

(***************************************************************************)
(* The bytes ahead of a producer at segment c.                             *)
(***************************************************************************)
AheadOf(c) == UNION {PieceBytes(Chunks[i]) : i \in {j \in Chunk : j >= c}}

LEMMA AheadIs == Ahead = AheadOf(cursor) /\ Ahead' = AheadOf(cursor')
  BY DEF Ahead, AheadOf

LEMMA AheadMoves ==
  ASSUME NEW c \in Chunk
  PROVE  AheadOf(c) = PieceBytes(Chunks[c]) \union AheadOf(c + 1)
<1>1. {j \in Chunk : j >= c} = {c} \union {j \in Chunk : j >= c + 1}
  BY QueueArithmetic
<1>2. QED
  BY <1>1 DEF AheadOf

LEMMA AheadEnds == AheadOf(0) = Byte /\ AheadOf(PieceCount) = {}
<1>1. {j \in Chunk : j >= 0} = Chunk /\ {j \in Chunk : j >= PieceCount} = {}
  BY QueueArithmetic
<1>2. QED
  BY <1>1, ChunksPartition DEF AheadOf

-----------------------------------------------------------------------------
(***************************************************************************)
(* What the steps do to the delivery of the segments.                      *)
(***************************************************************************)
QueueTypeOK ==
  /\ taskCh \in Seq(Ranges) /\ Len(taskCh) <= Capacity
  /\ producer \in {"scan", "send", "closed"}
  /\ cursor \in 0 .. PieceCount
  /\ batch \subseteq Ranges

Fits == QueueTypeOK /\ Delivery

\* Nobody takes, gives up or records anything, and the run does not move back.
LEMMA FitsQuiet ==
  ASSUME Fits, UNCHANGED <<pc, task, completed, firstErr, queueVars>>,
         ctx' = "live" => ctx = "live",
         producer # "closed" => phase' = "running",
         phase' \in {"running", "stopping"} => phase \in {"running", "stopping"}
  PROVE  Fits'
<1> USE DEF Fits, Delivery, queueVars
<1>1. QueueTypeOK'
  BY DEF QueueTypeOK
<1>2. ChannelInv' /\ BatchInv' /\ ReadInv' /\ ProducerInv' /\ DrainedInv'
  BY DEF ChannelInv, BatchInv, ReadInv, ProducerInv, DrainedInv, Holding
<1>3. Queued' = Queued /\ InFlight' = InFlight /\ InBatch' = InBatch /\ Ahead' = Ahead
  BY DEF Queued, InFlight, InBatch, Ahead
<1>4. OneOwner' /\ NothingLost'
  BY <1>3 DEF OneOwner, NothingLost
<1>5. QED
  BY <1>1, <1>2, <1>4

\* The producer and all workers are fresh.
LEMMA FitsStart ==
  ASSUME StartProducer, phase' = "running", completed' \subseteq Byte,
         \A w \in Worker : pc'[w] = "pick" /\ task'[w] = NoTask
  PROVE  Fits'
<1>1. /\ taskCh' = <<>> /\ producer' = "scan" /\ cursor' = 0 /\ batch' = {}
      /\ taskCh' \in Seq(Ranges) /\ Len(taskCh') = 0 /\ DOMAIN taskCh' = {}
  BY EmptySeq DEF StartProducer
<1>2. QueueTypeOK'
  BY <1>1, QueueArithmetic DEF QueueTypeOK
<1>3. ChannelInv' /\ BatchInv' /\ ReadInv' /\ ProducerInv' /\ DrainedInv'
  BY <1>1 DEF ChannelInv, BatchInv, ReadInv, ProducerInv, DrainedInv, Holding
<1>4. Queued' = {} /\ InFlight' = {} /\ InBatch' = {}
  BY <1>1, HeldBytes, NoBytes
<1>5. Ahead' = Byte
  BY <1>1, AheadIs, AheadEnds
<1>6. OneOwner'
  BY <1>1, <1>4, NoBytes DEF OneOwner
<1>7. NothingLost'
  BY <1>4, <1>5 DEF NothingLost
<1>8. QED
  BY <1>2, <1>3, <1>6, <1>7 DEF Fits, Delivery

\* The producer is through, or sees that the context ended.
LEMMA FitsStop ==
  ASSUME Fits, StopProducing
  PROVE  Fits'
<1>1. /\ phase = "running" /\ producer = "scan" /\ producer' = "closed" /\ batch' = {}
      /\ ctx = "live" => batch = {} /\ cursor = PieceCount
      /\ UNCHANGED <<phase, ctx, firstErr, pc, task, completed, taskCh, cursor>>
  BY DEF StopProducing, engineVars, control, workers
<1>2. QueueTypeOK'
  BY <1>1 DEF Fits, QueueTypeOK
<1>3. ChannelInv' /\ BatchInv' /\ ReadInv' /\ ProducerInv' /\ DrainedInv'
  BY <1>1 DEF Fits, Delivery, ChannelInv, BatchInv, ReadInv, ProducerInv, DrainedInv
<1>4. Queued' = Queued /\ InFlight' = InFlight /\ InBatch' = {} /\ Ahead' = Ahead
  BY <1>1 DEF Queued, InFlight, InBatch, Ahead
<1>5. ctx = "live" => InBatch = {}
  BY <1>1, HeldBytes
<1>6. OneOwner' /\ NothingLost'
  BY <1>1, <1>4, <1>5 DEF Fits, Delivery, OneOwner, NothingLost
<1>7. QED
  BY <1>2, <1>3, <1>6 DEF Fits, Delivery

(***************************************************************************)
(* The producer reads the missing ranges of its next segment.  What is     *)
(* under way belongs to earlier segments, so nobody else has these.        *)
(***************************************************************************)
LEMMA FitsSegment ==
  ASSUME TypeOK, HoldInv, Fits, NextSegment
  PROVE  Fits'
<1> DEFINE c == cursor
           new == Missing(c, completed)
<1>1. /\ phase = "running" /\ producer = "scan" /\ batch = {} /\ c \in Chunk
      /\ batch' = new /\ cursor' = c + 1
      /\ UNCHANGED <<phase, ctx, firstErr, pc, task, completed, taskCh, producer>>
  BY QueueArithmetic DEF NextSegment, engineVars, control, workers, Fits, QueueTypeOK
<1>2. /\ \A t \in new : InsideChunk(t) /\ t.chunk = c /\ Bytes(t) \intersect completed = {}
      /\ \A t, u \in new : t # u => Bytes(t) \intersect Bytes(u) = {}
      /\ \A b \in PieceBytes(Chunks[c]) \ completed : \E t \in new : b \in Bytes(t)
  BY <1>1, MissingRangesExact
<1> HIDE DEF new
<1>3. QueueTypeOK'
  <2>1. new \subseteq Ranges
    BY <1>2 DEF InsideChunk
  <2>2. QED
    BY <1>1, <2>1, QueueArithmetic DEF Fits, QueueTypeOK
<1>4. c \in Nat /\ \A k \in Int : k < c => k < c + 1
  BY <1>1, QueueArithmetic
<1>5. BatchInv'
  BY <1>1, <1>2, <1>4 DEF BatchInv
<1>6. ReadInv'
  <2>1. \A i \in DOMAIN taskCh : taskCh[i].chunk \in Int
    BY QueueArithmetic DEF Fits, Delivery, ChannelInv, InsideChunk, Ranges
  <2>2. \A w \in Worker : task[w].chunk \in Int
    BY QueueArithmetic DEF TypeOK, EngineTypeOK, Task
  <2>3. QED
    BY <1>1, <1>4, <2>1, <2>2 DEF Fits, Delivery, ReadInv, Holding
<1>7. ChannelInv' /\ ProducerInv' /\ DrainedInv'
  BY <1>1 DEF Fits, Delivery, ChannelInv, ProducerInv, DrainedInv
<1>8. Queued' = Queued /\ InFlight' = InFlight
  BY <1>1 DEF Queued, InFlight
<1>9. InBatch' \subseteq PieceBytes(Chunks[c]) /\ InBatch' \intersect completed = {}
      /\ PieceBytes(Chunks[c]) \subseteq InBatch' \union completed
      /\ InBatch = {}
  BY <1>1, <1>2, HeldBytes DEF InsideChunk
<1>10. Queued \intersect PieceBytes(Chunks[c]) = {}
  <2>1. \A i \in DOMAIN taskCh : InsideChunk(taskCh[i]) /\ taskCh[i].chunk # c
    BY <1>1, <1>4 DEF Fits, Delivery, ChannelInv, ReadInv
  <2>2. \A i \in DOMAIN taskCh : Bytes(taskCh[i]) \intersect PieceBytes(Chunks[c]) = {}
    BY <1>1, <2>1, OtherSegment
  <2>3. QED
    BY <2>2, HeldBytes
<1>11. InFlight \intersect PieceBytes(Chunks[c]) = {}
  <2>1. \A w \in Worker : task[w] = NoTask \/ (InsideChunk(task[w]) /\ task[w].chunk # c)
    BY <1>1, <1>4 DEF HoldInv, Fits, Delivery, ReadInv
  <2>2. \A w \in Worker : Bytes(task[w]) \intersect PieceBytes(Chunks[c]) = {}
    BY <1>1, <2>1, OtherSegment, NoBytes
  <2>3. QED
    BY <2>2, HeldBytes
<1>12. OneOwner'
  BY <1>1, <1>8, <1>9, <1>10, <1>11 DEF Fits, Delivery, OneOwner
<1>13. Ahead = PieceBytes(Chunks[c]) \union Ahead'
  BY <1>1, AheadIs, AheadMoves
<1>14. PieceBytes(Chunks[c]) \subseteq Byte /\ Byte = Byte'
  BY <1>1, ChunksPartition DEF Byte
<1>15. NothingLost'
  BY <1>1, <1>8, <1>9, <1>13, <1>14 DEF Fits, Delivery, NothingLost
<1>16. QED
  BY <1>3, <1>5, <1>6, <1>7, <1>12, <1>15 DEF Fits, Delivery

LEMMA FitsSend ==
  ASSUME Fits, Send
  PROVE  Fits'
<1>1. PICK t \in batch : taskCh' = Append(taskCh, t) /\ batch' = batch \ {t}
  BY DEF Send
<1>2. /\ phase = "running" /\ producer = "send" /\ producer' = "scan" /\ Len(taskCh) < Capacity
      /\ UNCHANGED <<phase, ctx, firstErr, pc, task, completed, cursor>>
  BY DEF Send, engineVars, control, workers
<1>3. t \in Ranges /\ InsideChunk(t) /\ t.chunk < cursor
  BY <1>1 DEF Fits, Delivery, QueueTypeOK, BatchInv
<1>4. /\ taskCh' \in Seq(Ranges) /\ Len(taskCh') = Len(taskCh) + 1
      /\ \A i \in DOMAIN taskCh' : \/ i \in DOMAIN taskCh /\ taskCh'[i] = taskCh[i]
                                   \/ i = Len(taskCh) + 1 /\ taskCh'[i] = t
      /\ Queued' = Queued \union Bytes(t)
  BY <1>1, <1>3, ChannelAppend DEF Fits, QueueTypeOK
<1>5. QueueTypeOK'
  <2>1. Len(taskCh) + 1 <= Capacity
    BY <1>2, QueueArithmetic DEF Fits, QueueTypeOK
  <2>2. QED
    BY <1>1, <1>2, <1>4, <2>1, QueueArithmetic DEF Fits, QueueTypeOK
<1>6. ChannelInv' /\ BatchInv' /\ ReadInv'
  BY <1>1, <1>2, <1>3, <1>4 DEF Fits, Delivery, ChannelInv, BatchInv, ReadInv, Holding
<1>7. ProducerInv' /\ DrainedInv'
  BY <1>2 DEF Fits, Delivery, ProducerInv, DrainedInv
<1>8. InFlight' = InFlight /\ Ahead' = Ahead
  BY <1>2 DEF InFlight, Ahead
<1>9. InBatch = InBatch' \union Bytes(t)
  BY <1>1, HeldBytes
<1>10. InBatch' \intersect Bytes(t) = {}
  BY <1>1, HeldBytes DEF Fits, Delivery, BatchInv
<1>11. \A i \in DOMAIN taskCh : Bytes(taskCh[i]) \intersect Bytes(t) = {}
  <2>1. InBatch \intersect Queued = {}
    BY DEF Fits, Delivery, OneOwner
  <2>2. QED
    BY <1>9, <2>1, HeldBytes
<1>12. \A i, j \in DOMAIN taskCh' : i # j => Bytes(taskCh'[i]) \intersect Bytes(taskCh'[j]) = {}
  BY <1>4, <1>11 DEF Fits, Delivery, OneOwner
<1>13. OneOwner'
  BY <1>2, <1>4, <1>8, <1>9, <1>10, <1>12 DEF Fits, Delivery, OneOwner
<1>14. NothingLost'
  BY <1>2, <1>4, <1>8, <1>9 DEF Fits, Delivery, NothingLost
<1>15. QED
  BY <1>5, <1>6, <1>7, <1>13, <1>14 DEF Fits, Delivery

(***************************************************************************)
(* A worker receives.  The range leaves the channel and is its own, or,    *)
(* after the context ended, nobody's.                                      *)
(***************************************************************************)
LEMMA FitsReceive ==
  ASSUME TypeOK, HoldInv, Fits, NEW w \in Worker, Receive(w)
  PROVE  (Takes(w) \/ Departs(w)) /\ Fits'
<1> DEFINE t == taskCh[1]
<1>1. /\ phase = "running" /\ pc[w] = "pick" /\ taskCh # <<>> /\ taskCh' = Tail(taskCh)
      /\ UNCHANGED <<phase, ctx, completed, producer, cursor, batch>>
  BY DEF Receive, control
<1>2. /\ taskCh' \in Seq(Ranges) /\ Len(taskCh') = Len(taskCh) - 1
      /\ 1 \in DOMAIN taskCh /\ Head(taskCh) = t
      /\ \A i \in DOMAIN taskCh' : i + 1 \in DOMAIN taskCh /\ i + 1 # 1 /\ i \in Nat
                                   /\ taskCh'[i] = taskCh[i + 1]
      /\ Queued = Bytes(t) \union Queued'
  BY <1>1, ChannelTail DEF Fits, QueueTypeOK
<1>3. InsideChunk(t) /\ t \in Ranges
  BY <1>2 DEF Fits, Delivery, ChannelInv, InsideChunk
<1>4. /\ task[w] = NoTask /\ DOMAIN pc = Worker /\ DOMAIN task = Worker
  BY <1>1 DEF HoldInv, Holding, TypeOK, EngineTypeOK
<1> HIDE DEF t
<1>5. QueueTypeOK'
  <2>1. Len(taskCh) \in Nat /\ Len(taskCh) - 1 <= Capacity
    BY QueueArithmetic DEF Fits, QueueTypeOK
  <2>2. QED
    BY <1>1, <1>2, <2>1 DEF Fits, QueueTypeOK
<1>6. ChannelInv' /\ BatchInv' /\ ProducerInv'
  BY <1>1, <1>2 DEF Fits, Delivery, ChannelInv, BatchInv, ProducerInv
<1>7. \A i, j \in DOMAIN taskCh' : i # j => Bytes(taskCh'[i]) \intersect Bytes(taskCh'[j]) = {}
  <2>1. \A i, j \in DOMAIN taskCh' : i # j => i + 1 # j + 1
    BY <1>2
  <2>2. QED
    BY <1>2, <2>1 DEF Fits, Delivery, OneOwner
<1>8. Queued' \intersect Bytes(t) = {}
  <2>1. \A i \in DOMAIN taskCh' : Bytes(taskCh'[i]) \intersect Bytes(t) = {}
    BY <1>2 DEF t, Fits, Delivery, OneOwner
  <2>2. QED
    BY <2>1, HeldBytes
<1>9. InBatch' = InBatch /\ Ahead' = Ahead
  BY <1>1 DEF InBatch, Ahead
<1>10. CASE ctx = "live"
  <2>1. /\ pc' = [pc EXCEPT ![w] = "try"] /\ task' = [task EXCEPT ![w] = t]
        /\ UNCHANGED firstErr /\ Assign(w, t)
    BY <1>2, <1>10 DEF Receive, Assign, Goto
  <2>2. Takes(w)
    BY <1>1, <1>3, <1>10, <2>1 DEF Receive, Takes
  <2>3. ReadInv'
    <3>1. producer # "closed" => t.chunk < cursor
      BY <1>2 DEF t, Fits, Delivery, ReadInv
    <3>2. \A i \in DOMAIN taskCh' : producer # "closed" => taskCh'[i].chunk < cursor
      BY <1>2 DEF Fits, Delivery, ReadInv
    <3>3. \A v \in Worker : producer # "closed" /\ Holding(v)' => task'[v].chunk < cursor
      BY <1>4, <2>1, <3>1 DEF Fits, Delivery, ReadInv, Holding
    <3>4. QED
      BY <1>1, <3>2, <3>3 DEF ReadInv
  <2>4. DrainedInv'
    BY <1>1, <1>4, <2>1 DEF Fits, Delivery, DrainedInv
  <2>5. InFlight' = InFlight \union Bytes(t)
    BY <1>4, <2>1, NoBytes, HeldBytes
  <2>6. \A v \in Worker : Bytes(task[v]) \intersect Bytes(t) = {}
    <3>1. Queued \intersect InFlight = {}
      BY DEF Fits, Delivery, OneOwner
    <3>2. QED
      BY <1>2, <3>1, HeldBytes
  <2>7. \A u, v \in Worker : u # v => Bytes(task'[u]) \intersect Bytes(task'[v]) = {}
    BY <1>4, <2>1, <2>6 DEF Fits, Delivery, OneOwner
  <2>8. OneOwner'
    BY <1>1, <1>2, <1>7, <1>8, <1>9, <2>5, <2>7 DEF Fits, Delivery, OneOwner
  <2>9. NothingLost'
    BY <1>1, <1>2, <1>9, <2>1, <2>5 DEF Fits, Delivery, NothingLost
  <2>10. QED
    BY <1>5, <1>6, <2>2, <2>3, <2>4, <2>8, <2>9 DEF Fits, Delivery
<1>11. CASE ctx # "live"
  <2>1. /\ pc' = [pc EXCEPT ![w] = "exited"] /\ UNCHANGED <<task, firstErr>> /\ Leave(w)
    BY <1>11 DEF Receive, Leave, Goto
  <2>2. Departs(w)
    BY <1>1, <2>1 DEF Receive, Departs
  <2>3. ReadInv'
    BY <1>1, <1>2, <1>4, <2>1 DEF Fits, Delivery, ReadInv, Holding
  <2>4. InFlight' = InFlight
    BY <2>1 DEF InFlight
  <2>5. OneOwner'
    BY <1>1, <1>2, <1>7, <1>9, <2>1, <2>4 DEF Fits, Delivery, OneOwner
  <2>6. NothingLost' /\ DrainedInv'
    BY <1>1, <1>11 DEF NothingLost, DrainedInv
  <2>7. QED
    BY <1>5, <1>6, <2>2, <2>3, <2>5, <2>6 DEF Fits, Delivery
<1>12. QED
  BY <1>10, <1>11

LEMMA FitsDrained ==
  ASSUME TypeOK, Fits, NEW w \in Worker, ChannelDrained(w)
  PROVE  Departs(w) /\ Fits'
<1>1. /\ phase = "running" /\ pc[w] = "pick" /\ taskCh = <<>> /\ producer = "closed"
      /\ pc' = [pc EXCEPT ![w] = "exited"] /\ DOMAIN pc = Worker
      /\ UNCHANGED <<phase, ctx, firstErr, task, completed, queueVars>>
  BY DEF ChannelDrained, Leave, Goto, control, TypeOK, EngineTypeOK
<1>2. QueueTypeOK' /\ ChannelInv' /\ BatchInv' /\ ReadInv' /\ ProducerInv' /\ DrainedInv'
  BY <1>1 DEF queueVars, Fits, Delivery, QueueTypeOK, ChannelInv, BatchInv, ReadInv, ProducerInv,
              DrainedInv
<1>3. Queued' = Queued /\ InFlight' = InFlight /\ InBatch' = InBatch /\ Ahead' = Ahead
  BY <1>1 DEF queueVars, Queued, InFlight, InBatch, Ahead
<1>4. OneOwner' /\ NothingLost'
  BY <1>1, <1>3 DEF queueVars, Fits, Delivery, OneOwner, NothingLost
<1>5. QED
  BY <1>2, <1>4 DEF ChannelDrained, Departs, Fits, Delivery

\* A worker and its segment: the bytes stay its own, are dropped with an error, or recorded.
LEMMA FitsWorker ==
  ASSUME TypeOK, HoldInv, Fits, NEW w \in Worker, SegmentStep(w), UNCHANGED queueVars
  PROVE  Fits'
<1>1. /\ phase = "running" /\ Holding(w) /\ pc[w] # "exited"
      /\ UNCHANGED <<phase, ctx, taskCh, producer, cursor, batch>>
      /\ DOMAIN pc = Worker /\ DOMAIN task = Worker
  BY SegmentEffect DEF TypeOK, EngineTypeOK, Holding, queueVars
<1>2. QueueTypeOK' /\ ChannelInv' /\ BatchInv' /\ ProducerInv'
  BY <1>1 DEF Fits, Delivery, QueueTypeOK, ChannelInv, BatchInv, ProducerInv
<1>3. Queued' = Queued /\ InBatch' = InBatch /\ Ahead' = Ahead
  BY <1>1 DEF Queued, InBatch, Ahead
<1>4. CASE /\ \E where \in {"try", "stream", "backoff", "record"} : pc' = [pc EXCEPT ![w] = where]
           /\ UNCHANGED <<task, completed, firstErr>>
  <2>1. ReadInv' /\ DrainedInv'
    BY <1>1, <1>4 DEF Fits, Delivery, ReadInv, Holding, DrainedInv
  <2>2. InFlight' = InFlight
    BY <1>4 DEF InFlight
  <2>3. OneOwner' /\ NothingLost'
    BY <1>1, <1>3, <1>4, <2>2 DEF Fits, Delivery, OneOwner, NothingLost
  <2>4. QED
    BY <1>2, <2>1, <2>3 DEF Fits, Delivery
<1>5. ASSUME task' = [task EXCEPT ![w] = NoTask],
             \E where \in {"pick", "exited"} : pc' = [pc EXCEPT ![w] = where]
      PROVE  /\ ReadInv' /\ InFlight = InFlight' \union Bytes(task[w])
             /\ InFlight' \intersect Bytes(task[w]) = {}
             /\ \A u, v \in Worker : u # v => Bytes(task'[u]) \intersect Bytes(task'[v]) = {}
  <2>1. ReadInv'
    BY <1>1, <1>5 DEF Fits, Delivery, ReadInv, Holding
  <2>2. InFlight = InFlight' \union Bytes(task[w])
    BY <1>1, <1>5, NoBytes, HeldBytes
  <2>3. \A u, v \in Worker : u # v => Bytes(task[u]) \intersect Bytes(task[v]) = {}
    BY DEF Fits, Delivery, OneOwner
  <2>4. \A v \in Worker : Bytes(task'[v]) \intersect Bytes(task[w]) = {}
    BY <1>1, <1>5, <2>3, NoBytes
  <2>5. InFlight' \intersect Bytes(task[w]) = {}
    BY <2>4, HeldBytes
  <2>6. \A u, v \in Worker : u # v => Bytes(task'[u]) \intersect Bytes(task'[v]) = {}
    BY <1>1, <1>5, <2>3, NoBytes
  <2>7. QED
    BY <2>1, <2>2, <2>5, <2>6
<1>6. CASE /\ pc' = [pc EXCEPT ![w] = "exited"] /\ task' = [task EXCEPT ![w] = NoTask]
           /\ firstErr' # "none" /\ UNCHANGED completed
  <2>1. OneOwner'
    BY <1>1, <1>3, <1>5, <1>6 DEF Fits, Delivery, OneOwner
  <2>2. NothingLost' /\ DrainedInv'
    BY <1>6 DEF NothingLost, DrainedInv
  <2>3. QED
    BY <1>2, <1>5, <1>6, <2>1, <2>2 DEF Fits, Delivery
<1>7. CASE /\ pc' = [pc EXCEPT ![w] = "pick"] /\ task' = [task EXCEPT ![w] = NoTask]
           /\ completed' = completed \union Bytes(task[w]) /\ UNCHANGED firstErr
  <2>1. OneOwner'
    BY <1>1, <1>3, <1>5, <1>7 DEF Fits, Delivery, OneOwner
  <2>2. NothingLost'
    BY <1>1, <1>3, <1>5, <1>7 DEF Fits, Delivery, NothingLost
  <2>3. DrainedInv'
    BY <1>1, <1>7 DEF Fits, Delivery, DrainedInv
  <2>4. QED
    BY <1>2, <1>5, <1>7, <2>1, <2>2, <2>3 DEF Fits, Delivery
<1>8. QED
  BY <1>4, <1>6, <1>7, SegmentEffect DEF TypeOK

\* No run, or one that has yet to write its manifest: what is left in the channel is nobody's.
LEMMA FitsIdle ==
  ASSUME Fits, phase' \in {"idle", "creating"}, completed' = {},
         \A w \in Worker : pc'[w] = "pick" /\ task'[w] = NoTask,
         \/ UNCHANGED queueVars /\ producer = "closed"
         \/ taskCh' = <<>> /\ producer' = "closed" /\ cursor' = 0 /\ batch' = {}
  PROVE  Fits'
<1>1. /\ \/ taskCh' = taskCh /\ cursor' = cursor /\ batch' = batch
         \/ taskCh' = <<>> /\ cursor' = 0 /\ batch' = {}
      /\ producer' = "closed"
  BY DEF queueVars
<1>2. <<>> \in Seq(Ranges) /\ Len(<<>>) = 0 /\ DOMAIN <<>> = {}
  BY EmptySeq
<1>3. QueueTypeOK'
  <2>1. taskCh' \in Seq(Ranges) /\ Len(taskCh') <= Capacity
    <3>1. CASE taskCh' = taskCh
      BY <3>1 DEF Fits, QueueTypeOK
    <3>2. CASE taskCh' = <<>>
      <4>1. 0 <= Capacity
        BY QueueArithmetic
      <4>2. QED
        BY <1>2, <3>2, <4>1
    <3>3. QED
      BY <1>1, <3>1, <3>2
  <2>2. cursor' \in 0 .. PieceCount /\ batch' \subseteq Ranges
    BY <1>1, QueueArithmetic DEF Fits, QueueTypeOK
  <2>3. QED
    BY <1>1, <2>1, <2>2 DEF QueueTypeOK
<1>4. ChannelInv' /\ BatchInv' /\ ReadInv' /\ ProducerInv' /\ DrainedInv' /\ NothingLost'
  BY <1>1, <1>2 DEF Fits, Delivery, ChannelInv, BatchInv, ReadInv, ProducerInv, DrainedInv, NothingLost
<1>5. InFlight' = {} /\ InBatch' \subseteq InBatch /\ Queued' \subseteq Queued
  <2>1. InFlight' = {}
    BY NoBytes, HeldBytes
  <2>2. InBatch' \subseteq InBatch
    BY <1>1, HeldBytes
  <2>3. Queued' \subseteq Queued
    BY <1>1, <1>2, HeldBytes
  <2>4. QED
    BY <2>1, <2>2, <2>3
<1>6. \A i, j \in DOMAIN taskCh' : i # j => Bytes(taskCh'[i]) \intersect Bytes(taskCh'[j]) = {}
  BY <1>1, <1>2 DEF Fits, Delivery, OneOwner
<1>7. OneOwner'
  BY <1>5, <1>6, NoBytes DEF Fits, Delivery, OneOwner
<1>8. QED
  BY <1>3, <1>4, <1>7 DEF Fits, Delivery

\* A verdict of success: everything was sent, received and recorded.
LEMMA SuccessIsComplete == QueueInv => DecidedWhole
<1> SUFFICES ASSUME QueueInv, phase = "stopping", Outcome = "success" PROVE completed = Byte
  BY DEF DecidedWhole
<1> USE DEF QueueInv, EngineInv, Delivery
<1>1. firstErr = "none" /\ ctx = "live"
  BY DEF Outcome, TypeOK, EngineTypeOK
<1>2. AllExited /\ \A w \in Worker : task[w] = NoTask
  BY DEF PhaseInv, HoldInv, Holding, AllExited
<1>3. taskCh = <<>> /\ batch = {} /\ cursor = PieceCount
  BY <1>1, <1>2, Arithmetic DEF DrainedInv, ProducerInv, AllExited
<1>4. Queued = {} /\ InFlight = {} /\ InBatch = {} /\ Ahead = {}
  <2>1. DOMAIN taskCh = {}
    BY <1>3, EmptySeq
  <2>2. QED
    BY <1>2, <1>3, <2>1, NoBytes, HeldBytes, AheadIs, AheadEnds
<1>5. QED
  BY <1>1, <1>4 DEF NothingLost

(***************************************************************************)
(* Every step is one of the engine, and keeps the delivery.                *)
(***************************************************************************)
LEMMA QueueStep ==
  ASSUME QueueInv, [Next]_vars
  PROVE  [EngineNext]_engineVars /\ Fits'
<1>0. TypeOK /\ HoldInv /\ PhaseInv /\ Fits
  BY DEF QueueInv, EngineInv, Fits, TypeOK, QueueTypeOK
<1>1. CASE ResumeRun
  <2>1. completed' \subseteq Byte
    BY <1>0, <1>1 DEF ResumeRun, Resume, TypeOK, EngineTypeOK
  <2>2. QED
    BY <1>1, <2>1, FitsStart DEF ResumeRun, Resume, FreshWorkers, EngineNext
<1>2. CASE FreshRun
  <2>1. completed' = {} /\ \A w \in Worker : pc'[w] = "pick" /\ task'[w] = NoTask
    BY <1>0, <1>2 DEF FreshRun, CreateManifest, workers, PhaseInv, HoldInv, Holding
  <2>2. QED
    BY <1>2, <2>1, FitsStart DEF FreshRun, CreateManifest, EngineNext
<1>3. CASE BeginFresh
  <2>1. producer = "closed"
    BY <1>0, <1>3 DEF BeginFresh, StartFresh, MayStart, Fits, Delivery, ProducerInv
  <2>2. Fits'
    BY <1>0, <1>3, <2>1, FitsIdle DEF BeginFresh, StartFresh, FreshWorkers
  <2>3. QED
    BY <1>3, <2>2 DEF BeginFresh, EngineNext
<1>4. CASE CrashRun
  <2>1. Fits'
    BY <1>0, <1>4, FitsIdle DEF CrashRun, Crash, FreshWorkers
  <2>2. QED
    BY <1>4, <2>1 DEF CrashRun, EngineNext
<1>5. CASE Produce
  <2>1. UNCHANGED engineVars
    BY <1>5 DEF Produce, StopProducing, NextSegment, NextRange, Send
  <2>2. CASE NextRange
    <3>1. /\ producer = "scan" /\ producer' = "send" /\ phase = "running"
          /\ UNCHANGED <<phase, ctx, firstErr, pc, task, completed, taskCh, cursor, batch>>
      BY <2>2 DEF NextRange, engineVars, control, workers
    <3>2. QueueTypeOK' /\ ChannelInv' /\ BatchInv' /\ ReadInv' /\ ProducerInv' /\ DrainedInv'
      BY <1>0, <3>1 DEF Fits, Delivery, QueueTypeOK, ChannelInv, BatchInv, ReadInv, ProducerInv,
                        DrainedInv, Holding
    <3>3. Queued' = Queued /\ InFlight' = InFlight /\ InBatch' = InBatch /\ Ahead' = Ahead
      BY <3>1 DEF Queued, InFlight, InBatch, Ahead
    <3>4. OneOwner' /\ NothingLost'
      BY <1>0, <3>1, <3>3 DEF Fits, Delivery, OneOwner, NothingLost
    <3>5. QED
      BY <2>1, <3>2, <3>4 DEF Fits, Delivery
  <2>3. QED
    BY <1>0, <1>5, <2>1, <2>2, FitsStop, FitsSegment, FitsSend DEF Produce
<1>6. ASSUME NEW w \in Worker, WorkerStep(w)
      PROVE  EngineNext /\ Fits'
  BY <1>0, <1>6, FitsReceive, FitsDrained, FitsWorker DEF WorkerStep, EngineNext
<1>7. CASE JoinWorkers \/ Background \/ UNCHANGED vars
  <2>1. [EngineNext]_engineVars
    BY <1>7 DEF JoinWorkers, Background, EngineNext, vars
  <2>2. /\ UNCHANGED <<pc, task, completed, firstErr, queueVars>>
        /\ ctx' = "live" => ctx = "live"
        /\ phase' \in {"running", "stopping"} => phase \in {"running", "stopping"}
        /\ phase = "running" => phase' = "running" \/ producer = "closed"
    BY <1>7 DEF JoinWorkers, Join, Background, Lifecycle, CreateFails, Interrupt, SaverTick, SaverDone,
                SaverFails, Decide, FinalSave, FinalSaveFails, RemoveManifest, RemoveFails, durable,
                control, workers, vars, engineVars
  <2>3. producer # "closed" => phase = "running"
    BY <1>0 DEF Fits, Delivery, ProducerInv
  <2>4. QED
    BY <1>0, <2>1, <2>2, <2>3, FitsQuiet
<1>8. QED
  BY <1>1, <1>2, <1>3, <1>4, <1>5, <1>6, <1>7 DEF Next

LEMMA InvInit == Init => QueueInv
<1> SUFFICES ASSUME Init PROVE QueueInv
  OBVIOUS
<1>1. /\ taskCh = <<>> /\ producer = "closed" /\ cursor = 0 /\ batch = {} /\ completed = {}
      /\ phase = "idle" /\ \A w \in Worker : pc[w] = "pick" /\ task[w] = NoTask
  BY DEF Init, EngineInit
<1>2. taskCh \in Seq(Ranges) /\ Len(taskCh) = 0 /\ DOMAIN taskCh = {}
  BY <1>1, EmptySeq
<1>3. TypeOK
  BY <1>1, <1>2, EngineTypeInit, QueueArithmetic DEF Init, TypeOK
<1>4. ChannelInv /\ BatchInv /\ ReadInv /\ ProducerInv /\ DrainedInv /\ NothingLost
  BY <1>1, <1>2 DEF ChannelInv, BatchInv, ReadInv, ProducerInv, DrainedInv, NothingLost, Holding
<1>5. Queued = {} /\ InFlight = {} /\ InBatch = {}
  BY <1>1, <1>2, NoBytes, HeldBytes
<1>6. OneOwner
  BY <1>1, <1>2, <1>5, NoBytes DEF OneOwner
<1>7. QED
  BY <1>3, <1>4, <1>6, EngineInvInit DEF Init, QueueInv, Delivery

LEMMA InvStep == QueueInv /\ [Next]_vars => QueueInv' /\ [EngineNext]_engineVars
<1> SUFFICES ASSUME QueueInv, [Next]_vars PROVE QueueInv' /\ [EngineNext]_engineVars
  OBVIOUS
<1>1. [EngineNext]_engineVars /\ Fits'
  BY QueueStep
<1>2. EngineTypeOK'
  BY <1>1, EngineTypeStep DEF QueueInv, TypeOK
<1>3. EngineInv'
  BY <1>1, <1>2, EngineInvStep, SuccessIsComplete DEF QueueInv, TypeOK
<1>4. QED
  BY <1>1, <1>2, <1>3 DEF QueueInv, TypeOK, Fits, QueueTypeOK

-----------------------------------------------------------------------------
(***************************************************************************)
(* Every variable keeps its type: no more than Capacity ranges are ever in *)
(* the channel, and the producer never looks past the last segment.        *)
(***************************************************************************)
THEOREM TypeCorrect == Spec => []TypeOK
<1>1. QueueInv => TypeOK
  BY DEF QueueInv
<1>2. QED
  BY <1>1, InvInit, InvStep, PTL DEF Spec

(***************************************************************************)
(* Every byte has at most one owner, from the producer's batch through the *)
(* channel and a worker to the completed ranges, in this run and the next. *)
(***************************************************************************)
THEOREM OwnershipIsExclusive == Spec => []OneOwner
<1>1. QueueInv => OneOwner
  BY DEF QueueInv, Delivery
<1>2. QED
  BY <1>1, InvInit, InvStep, PTL DEF Spec

(***************************************************************************)
(* And at least one, while nobody gave up and the context is live: the     *)
(* bounded channel drops nothing.                                          *)
(***************************************************************************)
THEOREM NoByteIsLost == Spec => []NothingLost
<1>1. QueueInv => NothingLost
  BY DEF QueueInv, Delivery
<1>2. QED
  BY <1>1, InvInit, InvStep, PTL DEF Spec

(***************************************************************************)
(* The producer reads the completed ranges of a segment without the lock,  *)
(* and no worker is at work on a segment it has yet to read.               *)
(***************************************************************************)
THEOREM UnlockedReadsAreSafe == Spec => []ProducerReadsAlone
<1>1. QueueInv => ProducerReadsAlone
  BY DEF QueueInv, Delivery, ReadInv, ProducerReadsAlone, Holding, TypeOK, EngineTypeOK
<1>2. QED
  BY <1>1, InvInit, InvStep, PTL DEF Spec

(***************************************************************************)
(* A run that reports cancellation leaves a manifest with everything its   *)
(* workers recorded, unless writing it failed.  (That it comes to report   *)
(* at all is another matter: CancelEndsTheRun fails.)                      *)
(***************************************************************************)
THEOREM CancellationIsSaved == Spec => []CancelSavesEverything
<1>1. QueueInv => CancelSavesEverything
  BY DEF QueueInv, EngineInv
<1>2. QED
  BY <1>1, InvInit, InvStep, PTL DEF Spec

LEMMA ContentHolds == ~ShortBodies => (Spec => [](QueueInv /\ ContentInv))
<1> SUFFICES ASSUME ~ShortBodies PROVE Spec => [](QueueInv /\ ContentInv)
  OBVIOUS
<1>1. Init => ContentInv
  BY ContentInit DEF Init
<1>2. QueueInv /\ ContentInv /\ [Next]_vars => ContentInv'
  BY InvStep, ContentStep DEF QueueInv, TypeOK, EngineInv
<1>3. QED
  BY <1>1, <1>2, InvInit, InvStep, PTL DEF Spec

(***************************************************************************)
(* With whole bodies the manifest is never ahead of the file, and a run    *)
(* that returns success leaves the whole file.                             *)
(***************************************************************************)
THEOREM SuccessIsWhole ==
  ASSUME ~ShortBodies
  PROVE  Spec => [](ClaimedIsWritten /\ SuccessMeansWhole)
<1>1. QueueInv /\ ContentInv => ClaimedIsWritten /\ SuccessMeansWhole
  BY WholeWhenRecorded DEF QueueInv, TypeOK, ContentInv
<1>2. QED
  BY <1>1, ContentHolds, PTL

(***************************************************************************)
(* Queue mode keeps the promise of module Transfer as well: it claims only *)
(* what it has and succeeds only with the whole file.                      *)
(***************************************************************************)
THEOREM QueueKeepsThePromise == ASSUME ~ShortBodies PROVE Spec => TransferSpec
<1>1. Init => Promise!Init
  BY PromiseInit DEF Init
<1>2. QueueInv /\ (QueueInv /\ ContentInv)' /\ [Next]_vars => [Promise!Next]_(Promise!vars)
  BY InvStep, PromiseStep DEF QueueInv, TypeOK, ContentInv
<1>3. QED
  BY <1>1, <1>2, ContentHolds, PTL DEF Spec, TransferSpec, Promise!Spec
=============================================================================
