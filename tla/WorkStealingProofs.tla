-------------------------- MODULE WorkStealingProofs --------------------------
(***************************************************************************)
(* Proofs about the work-stealing engine, for every file size, number of   *)
(* workers, retry budget, splitting threshold and number of restarts.      *)
(***************************************************************************)
EXTENDS WorkStealing, SegmentEngineProofs

(***************************************************************************)
(* The pool planned from a manifest that lists done.                       *)
(***************************************************************************)
LEMMA PlanExact ==
  ASSUME NEW done
  PROVE  /\ \A t \in Plan(done) : InsideChunk(t) /\ Bytes(t) \intersect done = {}
         /\ \A t, u \in Plan(done) : t # u => Disjoint(t, u)
         /\ \A b \in Byte : b \in done \/ \E t \in Plan(done) : b \in Bytes(t)
<1> DEFINE plan == Plan(done)
<1>0. plan = UNION {Missing(i, done) : i \in Chunk}
  BY DEF Plan
<1> HIDE DEF plan
<1>1. \A t \in plan : \E i \in Chunk : t \in Missing(i, done)
  BY <1>0
<1>2. \A i \in Chunk : \A t \in Missing(i, done) :
        InsideChunk(t) /\ t.chunk = i /\ Bytes(t) \intersect done = {}
  BY MissingRangesExact
<1>3. ASSUME NEW t \in plan, NEW u \in plan, t # u
      PROVE  Disjoint(t, u)
  <2>1. PICK i \in Chunk : t \in Missing(i, done)
    BY <1>1
  <2>2. PICK j \in Chunk : u \in Missing(j, done)
    BY <1>1
  <2>3. CASE i = j
    BY <1>3, <2>1, <2>2, <2>3, MissingRangesExact DEF Disjoint
  <2>4. CASE i # j
    <3>1. /\ Bytes(t) \subseteq PieceBytes(Chunks[i])
          /\ Bytes(u) \subseteq PieceBytes(Chunks[j])
      BY <1>2, <2>1, <2>2 DEF InsideChunk
    <3>2. PieceBytes(Chunks[i]) \intersect PieceBytes(Chunks[j]) = {}
      BY <2>4, ChunksPartition
    <3>3. QED
      BY <3>1, <3>2 DEF Disjoint
  <2>5. QED
    BY <2>3, <2>4
<1>4. ASSUME NEW b \in Byte, b \notin done
      PROVE  \E t \in plan : b \in Bytes(t)
  <2>1. PICK i \in Chunk : b \in PieceBytes(Chunks[i])
    BY ChunksPartition
  <2>2. PICK t \in Missing(i, done) : b \in Bytes(t)
    BY <1>4, <2>1, MissingRangesExact
  <2>3. QED
    BY <1>0, <2>2
<1>5. /\ \A t \in plan : InsideChunk(t) /\ Bytes(t) \intersect done = {}
      /\ \A t, u \in plan : t # u => Disjoint(t, u)
      /\ \A b \in Byte : b \in done \/ \E t \in plan : b \in Bytes(t)
  BY <1>1, <1>2, <1>3, <1>4
<1>6. QED
  BY <1>5 DEF plan

(***************************************************************************)
(* A split of a range that is long enough: both halves are proper ranges   *)
(* of the same chunk, they share no byte and lose none.                    *)
(***************************************************************************)
LEMMA SplitExact ==
  ASSUME NEW t, InsideChunk(t), Length(t) >= MinSplitSize * 2,
         NEW mid, mid = t.start + (Length(t) \div 2)
  PROVE  /\ mid \in Int /\ t.start < mid /\ mid <= t.end
         /\ InsideChunk([t EXCEPT !.end = mid - 1])
         /\ InsideChunk([t EXCEPT !.start = mid])
         /\ Bytes([t EXCEPT !.end = mid - 1]) = t.start .. mid - 1
         /\ Bytes([t EXCEPT !.start = mid]) = mid .. t.end
<1>1. /\ t \in [chunk : Chunk, start : Byte, end : Byte]
      /\ t.start \in Byte /\ t.end \in Byte /\ t.chunk \in Chunk
      /\ t.start .. t.end \subseteq PieceBytes(Chunks[t.chunk])
  BY DEF InsideChunk, Ranges, Bytes
<1>2. t.start \in Nat /\ t.end \in Nat /\ Byte \subseteq Nat
  BY <1>1, Arithmetic DEF Byte
<1>3. mid \in Nat /\ t.start < mid /\ mid <= t.end
  BY <1>2, StealingAssumption DEF Length
<1>4. mid \in Byte /\ mid - 1 \in Byte
  BY <1>1, <1>2, <1>3, Arithmetic DEF Byte
<1> DEFINE low == [t EXCEPT !.end = mid - 1]
           high == [t EXCEPT !.start = mid]
<1>5. /\ low \in Ranges /\ high \in Ranges
      /\ low.chunk = t.chunk /\ low.start = t.start /\ low.end = mid - 1
      /\ high.chunk = t.chunk /\ high.start = mid /\ high.end = t.end
  BY <1>1, <1>4 DEF Ranges
<1> HIDE DEF low, high
<1>6. Bytes(low) = t.start .. mid - 1 /\ Bytes(high) = mid .. t.end
  BY <1>5 DEF Bytes
<1>7. InsideChunk(low) /\ InsideChunk(high)
  BY <1>1, <1>2, <1>3, <1>5, <1>6 DEF InsideChunk
<1>8. QED
  BY <1>3, <1>6, <1>7 DEF low, high

LEMMA PlanTyped == ASSUME NEW done PROVE Plan(done) \subseteq Ranges
  BY PlanExact DEF InsideChunk

-----------------------------------------------------------------------------
(***************************************************************************)
(* Ownership.  First the changes of owner, one lemma each.                 *)
(***************************************************************************)
\* A plan from the manifest: the pool and the manifest own everything.
LEMMA OwnPlan ==
  ASSUME NEW done,
         completed' = done, remaining' = Plan(done),
         \A w \in Worker : task'[w] = NoTask
  PROVE  PoolInv' /\ OneOwner' /\ \A b \in Byte : Owned(b)'
<1>1. PoolInv'
  BY PlanExact DEF PoolInv
<1>2. OneOwner'
  BY PlanExact, NoBytes DEF OneOwner, Disjoint
<1>3. \A b \in Byte : Owned(b)'
  BY PlanExact DEF Owned
<1>4. QED
  BY <1>1, <1>2, <1>3

\* A worker takes a range out of the pool.
LEMMA OwnWhole ==
  ASSUME TypeOK, PoolInv, OneOwner,
         NEW w \in Worker, task[w] = NoTask, NEW t \in remaining,
         TakeWhole(w, t), completed' = completed
  PROVE  PoolInv' /\ OneOwner' /\ \A b \in Byte : Owned(b) => Owned(b)'
<1>1. /\ remaining' = remaining \ {t}
      /\ task' = [task EXCEPT ![w] = t] /\ task \in [Worker -> Task]
  BY DEF TakeWhole, Assign, TypeOK, EngineTypeOK
<1>2. PoolInv'
  BY <1>1 DEF PoolInv
<1>3. OneOwner'
  BY <1>1 DEF OneOwner, Disjoint
<1>4. \A b \in Byte : Owned(b) => Owned(b)'
  BY <1>1, NoBytes DEF Owned
<1>5. QED
  BY <1>2, <1>3, <1>4

\* A worker takes the first half of a range and leaves the second in the pool.
LEMMA OwnHalf ==
  ASSUME TypeOK, PoolInv, OneOwner,
         NEW w \in Worker, task[w] = NoTask, NEW t \in remaining,
         Length(t) >= MinSplitSize * 2,
         TakeHalf(w, t), completed' = completed
  PROVE  /\ PoolInv' /\ OneOwner'
         /\ \A b \in Byte : Owned(b) => Owned(b)'
<1> DEFINE mid == t.start + (Length(t) \div 2)
           low == [t EXCEPT !.end = mid - 1]
           high == [t EXCEPT !.start = mid]
<1>1. /\ remaining' = (remaining \ {t}) \union {high}
      /\ task' = [task EXCEPT ![w] = low] /\ task \in [Worker -> Task]
  BY DEF TakeHalf, Assign, TypeOK, EngineTypeOK
<1>2. /\ mid \in Int /\ t.start < mid /\ mid <= t.end
      /\ InsideChunk(low) /\ InsideChunk(high)
      /\ Bytes(low) = t.start .. mid - 1 /\ Bytes(high) = mid .. t.end
  BY SplitExact DEF PoolInv
<1>3. t.start \in Int /\ t.end \in Int
  BY Arithmetic DEF TypeOK, Ranges, Byte
<1>4. /\ Bytes(low) \intersect Bytes(high) = {}
      /\ Bytes(low) \union Bytes(high) = Bytes(t)
  BY <1>2, <1>3 DEF Bytes
<1> HIDE DEF mid, low, high
<1>5. PoolInv'
  BY <1>1, <1>2 DEF PoolInv
<1>6. OneOwner'
  <2>1. \A u \in remaining \ {t} : Disjoint(u, low) /\ Disjoint(u, high) /\ Disjoint(low, u) /\ Disjoint(high, u)
    BY <1>4 DEF OneOwner, Disjoint
  <2>2. \A v \in Worker : Disjoint(task[v], low) /\ Disjoint(low, task[v])
                          /\ Disjoint(high, task[v])
    BY <1>4 DEF OneOwner, Disjoint
  <2>3. Bytes(low) \intersect completed = {} /\ Bytes(high) \intersect completed = {}
    BY <1>4 DEF OneOwner
  <2>4. Disjoint(high, low)
    BY <1>4 DEF Disjoint
  <2>5. \A u, v \in remaining' : u # v => Disjoint(u, v)
    BY <1>1, <2>1 DEF OneOwner
  <2>6. \A u, v \in Worker : u # v => Disjoint(task'[u], task'[v])
    BY <1>1, <2>2 DEF OneOwner
  <2>7. \A u \in remaining', v \in Worker : Disjoint(u, task'[v])
    BY <1>1, <2>1, <2>2, <2>4 DEF OneOwner
  <2>8. QED
    BY <1>1, <2>3, <2>5, <2>6, <2>7 DEF OneOwner
<1>7. \A b \in Byte : Owned(b) => Owned(b)'
  <2> SUFFICES ASSUME NEW b \in Byte, Owned(b) PROVE Owned(b)'
    OBVIOUS
  <2>1. CASE b \in completed
    BY <2>1 DEF Owned
  <2>2. CASE \E u \in remaining : b \in Bytes(u)
    <3>1. PICK u \in remaining : b \in Bytes(u)
      BY <2>2
    <3>2. CASE u = t /\ b \in Bytes(low)
      <4>1. b \in Bytes(task'[w])
        BY <1>1, <3>2
      <4>2. QED
        BY <4>1 DEF Owned
    <3>3. CASE u = t /\ b \in Bytes(high)
      BY <1>1, <3>3 DEF Owned
    <3>4. CASE u # t
      BY <1>1, <3>1, <3>4 DEF Owned
    <3>5. QED
      BY <1>4, <3>1, <3>2, <3>3, <3>4
  <2>3. CASE \E v \in Worker : b \in Bytes(task[v])
    BY <1>1, <2>3, NoBytes DEF Owned
  <2>4. QED
    BY <2>1, <2>2, <2>3 DEF Owned
<1>8. QED
  BY <1>5, <1>6, <1>7

\* A worker drops its segment.
LEMMA OwnDrop ==
  ASSUME TypeOK, OneOwner, NEW w \in Worker,
         task' = [task EXCEPT ![w] = NoTask],
         remaining' = remaining, completed' = completed
  PROVE  OneOwner'
<1>1. task \in [Worker -> Task]
  BY DEF TypeOK, EngineTypeOK
<1>2. QED
  BY <1>1, NoBytes DEF OneOwner, Disjoint

\* A worker records its segment.
LEMMA OwnRecord ==
  ASSUME TypeOK, OneOwner, NEW w \in Worker,
         task' = [task EXCEPT ![w] = NoTask],
         remaining' = remaining,
         completed' = completed \union Bytes(task[w])
  PROVE  OneOwner' /\ \A b \in Byte : Owned(b) => Owned(b)'
<1>1. task \in [Worker -> Task]
  BY DEF TypeOK, EngineTypeOK
<1>2. OneOwner'
  BY <1>1, NoBytes DEF OneOwner, Disjoint
<1>3. \A b \in Byte : Owned(b) => Owned(b)'
  BY <1>1 DEF Owned
<1>4. QED
  BY <1>2, <1>3

(***************************************************************************)
(* Then what each action does to ownership.  The actions that hand out no  *)
(* work are those of the engine; the pool does not change in them.         *)
(***************************************************************************)
LEMMA OwnQuiet ==
  ASSUME Ownership, UNCHANGED <<pc, task, completed, firstErr, remaining>>,
         ctx' = "live" => ctx = "live",
         phase' \in {"running", "stopping"} => phase \in {"running", "stopping"}
  PROVE  Ownership'
  BY DEF Ownership, PoolInv, OneOwner, NothingLost, Owned, DrainedInv

LEMMA OwnSegmentStep ==
  ASSUME TypeOK, HoldInv, Ownership, NEW w \in Worker, SegmentStep(w), UNCHANGED remaining
  PROVE  Ownership'
<1>0. /\ phase = "running" /\ UNCHANGED <<phase, ctx, remaining>> /\ pc[w] # "exited"
      /\ DOMAIN pc = Worker /\ EngineTypeOK
  BY SegmentEffect DEF TypeOK, EngineTypeOK, Holding
<1>1. PoolInv'
  BY DEF Ownership, PoolInv
<1>2. CASE /\ \E where \in {"try", "stream", "backoff", "record"} : pc' = [pc EXCEPT ![w] = where]
           /\ UNCHANGED <<task, completed, firstErr>>
  <2>1. OneOwner' /\ NothingLost'
    BY <1>0, <1>2 DEF Ownership, OneOwner, NothingLost, Owned
  <2>2. DrainedInv'
    BY <1>0, <1>2 DEF Ownership, DrainedInv
  <2>3. QED
    BY <1>1, <2>1, <2>2 DEF Ownership
<1>3. CASE /\ task' = [task EXCEPT ![w] = NoTask]
           /\ firstErr' # "none" /\ UNCHANGED completed
  <2>1. OneOwner'
    BY <1>0, <1>3, OwnDrop DEF Ownership
  <2>2. NothingLost' /\ DrainedInv'
    BY <1>3 DEF NothingLost, DrainedInv
  <2>3. QED
    BY <1>1, <2>1, <2>2 DEF Ownership
<1>4. CASE /\ pc' = [pc EXCEPT ![w] = "pick"] /\ task' = [task EXCEPT ![w] = NoTask]
           /\ completed' = completed \union Bytes(task[w]) /\ UNCHANGED firstErr
  <2>1. OneOwner' /\ \A b \in Byte : Owned(b) => Owned(b)'
    BY <1>0, <1>4, OwnRecord DEF Ownership
  <2>2. NothingLost'
    BY <1>0, <1>4, <2>1 DEF Ownership, NothingLost
  <2>3. DrainedInv'
    BY <1>0, <1>4 DEF Ownership, DrainedInv
  <2>4. QED
    BY <1>1, <2>1, <2>2, <2>3 DEF Ownership
<1>5. QED
  BY <1>0, <1>2, <1>3, <1>4, SegmentEffect

LEMMA OwnPickTask ==
  ASSUME TypeOK, HoldInv, Ownership, NEW w \in Worker, PickTask(w)
  PROVE  Takes(w) /\ Ownership'
<1>1. PICK t \in remaining :
        /\ Longest(t)
        /\ IF Splitting /\ Length(t) >= MinSplitSize * 2 THEN TakeHalf(w, t) ELSE TakeWhole(w, t)
  BY DEF PickTask
<1>2. /\ phase = "running" /\ pc[w] = "pick" /\ ctx = "live" /\ task[w] = NoTask
      /\ UNCHANGED <<phase, completed, ctx, firstErr>>
  BY DEF PickTask, control, HoldInv, Holding
<1>3. DOMAIN pc = Worker /\ InsideChunk(t)
  BY DEF TypeOK, EngineTypeOK, Ownership, PoolInv
<1>4. /\ PoolInv' /\ OneOwner' /\ \A b \in Byte : Owned(b) => Owned(b)'
      /\ \E part \in Ranges : InsideChunk(part) /\ Assign(w, part)
  <2>1. CASE TakeWhole(w, t)
    <3>1. InsideChunk(t) /\ t \in Ranges /\ Assign(w, t)
      BY <1>3, <2>1 DEF TakeWhole, InsideChunk
    <3>2. QED
      BY <1>2, <2>1, <3>1, OwnWhole DEF Ownership
  <2>2. CASE Length(t) >= MinSplitSize * 2 /\ TakeHalf(w, t)
    <3> DEFINE mid == t.start + (Length(t) \div 2)
               low == [t EXCEPT !.end = mid - 1]
    <3>1. InsideChunk(low) /\ Assign(w, low)
      BY <1>3, <2>2, SplitExact DEF TakeHalf
    <3>2. low \in Ranges
      BY <3>1 DEF InsideChunk
    <3>3. QED
      BY <1>2, <2>2, <3>1, <3>2, OwnHalf DEF Ownership
  <2>3. QED
    BY <1>1, <2>1, <2>2
<1>5. Takes(w)
  BY <1>4 DEF PickTask, Takes
<1>6. pc' = [pc EXCEPT ![w] = "try"]
  BY <1>4 DEF Assign, Goto
<1>7. NothingLost'
  BY <1>2, <1>4 DEF Ownership, NothingLost
<1>8. DrainedInv'
  <2>1. firstErr = "none" => \A v \in Worker : pc[v] # "exited"
    BY <1>1, <1>2 DEF Ownership, DrainedInv
  <2>2. QED
    BY <1>2, <1>3, <1>6, <2>1 DEF DrainedInv
<1>9. QED
  BY <1>4, <1>5, <1>7, <1>8 DEF Ownership

LEMMA OwnLeave ==
  ASSUME TypeOK, Ownership, NEW w \in Worker, WorkerLeaves(w)
  PROVE  Departs(w) /\ Ownership'
<1>1. /\ (ctx # "live" \/ remaining = {})
      /\ pc' = [pc EXCEPT ![w] = "exited"] /\ DOMAIN pc = Worker
      /\ UNCHANGED <<phase, completed, ctx, firstErr, task, remaining>>
  BY DEF WorkerLeaves, Leave, Goto, control, TypeOK, EngineTypeOK
<1>2. PoolInv' /\ OneOwner' /\ NothingLost' /\ DrainedInv'
  BY <1>1 DEF Ownership, PoolInv, OneOwner, NothingLost, Owned, DrainedInv
<1>3. QED
  BY <1>2 DEF WorkerLeaves, Departs, Ownership

\* A verdict of success: the pool is drained, so all bytes are recorded.
LEMMA SuccessIsComplete == StealingInv => DecidedWhole
<1> SUFFICES ASSUME StealingInv, phase = "stopping", Outcome = "success" PROVE completed = Byte
  BY DEF DecidedWhole
<1> USE DEF StealingInv, EngineInv, Ownership
<1>1. firstErr = "none" /\ ctx = "live"
  BY DEF Outcome, TypeOK, EngineTypeOK
<1>2. AllExited /\ \A w \in Worker : task[w] = NoTask
  BY DEF PhaseInv, HoldInv, Holding, AllExited
<1>3. remaining = {}
  BY <1>1, <1>2, Arithmetic DEF DrainedInv, AllExited
<1>4. \A b \in Byte : b \in completed
  BY <1>1, <1>2, <1>3, NoBytes DEF NothingLost, Owned
<1>5. QED
  BY <1>4 DEF TypeOK, EngineTypeOK

(***************************************************************************)
(* Every step is one of the engine, and keeps ownership.                   *)
(***************************************************************************)
LEMMA OwnInit == Init => Ownership
<1> SUFFICES ASSUME Init PROVE Ownership
  OBVIOUS
<1>1. /\ remaining = {} /\ completed = {} /\ phase = "idle"
      /\ \A w \in Worker : task[w] = NoTask
  BY DEF Init, EngineInit
<1>2. QED
  BY <1>1, NoBytes DEF Ownership, PoolInv, OneOwner, Disjoint, NothingLost, DrainedInv

LEMMA StealingStep ==
  ASSUME StealingInv, [Next]_vars
  PROVE  [EngineNext]_engineVars /\ remaining' \subseteq Ranges /\ Ownership'
<1>0. TypeOK /\ HoldInv /\ PhaseInv /\ Ownership
  BY DEF StealingInv, EngineInv
<1>1. CASE ResumeRun
  <2>1. /\ completed' = disk.done /\ remaining' = Plan(disk.done)
        /\ \A w \in Worker : task'[w] = NoTask /\ pc'[w] = "pick"
    BY <1>1 DEF ResumeRun, Resume, FreshWorkers
  <2>2. PoolInv' /\ OneOwner' /\ NothingLost' /\ DrainedInv'
    BY <2>1, OwnPlan DEF NothingLost, DrainedInv
  <2>3. QED
    BY <1>1, <2>1, <2>2, PlanTyped DEF ResumeRun, EngineNext, Ownership
<1>2. CASE BeginFresh
  <2>1. /\ completed' = {} /\ remaining' = remaining /\ phase' = "creating"
        /\ \A w \in Worker : task'[w] = NoTask
    BY <1>2 DEF BeginFresh, StartFresh, FreshWorkers
  <2>2. PoolInv' /\ OneOwner' /\ NothingLost' /\ DrainedInv'
    BY <1>0, <2>1, NoBytes DEF PoolInv, OneOwner, Disjoint, NothingLost, DrainedInv, Ownership
  <2>3. QED
    BY <1>0, <1>2, <2>1, <2>2 DEF BeginFresh, EngineNext, Ownership, TypeOK
<1>3. CASE FreshRun
  <2>1. /\ completed' = {} /\ remaining' = Plan({})
        /\ \A w \in Worker : task'[w] = NoTask /\ pc'[w] = "pick"
    BY <1>0, <1>3 DEF FreshRun, CreateManifest, workers, PhaseInv, HoldInv, Holding
  <2>2. PoolInv' /\ OneOwner' /\ NothingLost' /\ DrainedInv'
    BY <2>1, OwnPlan DEF NothingLost, DrainedInv
  <2>3. QED
    BY <1>3, <2>1, <2>2, PlanTyped DEF FreshRun, EngineNext, Ownership
<1>4. ASSUME NEW w \in Worker, WorkerStep(w)
      PROVE  EngineNext /\ Ownership'
  BY <1>0, <1>4, OwnPickTask, OwnLeave, OwnSegmentStep DEF WorkerStep, EngineNext
<1>5. CASE JoinWorkers \/ Background \/ UNCHANGED vars
  <2>1. [EngineNext]_engineVars
    BY <1>5 DEF JoinWorkers, Background, EngineNext, vars
  <2>2. /\ UNCHANGED <<pc, task, completed, firstErr, remaining>>
        /\ ctx' = "live" => ctx = "live"
        /\ phase' \in {"running", "stopping"} => phase \in {"running", "stopping"}
    BY <1>5 DEF JoinWorkers, Join, Background, Lifecycle, CreateFails, Interrupt, SaverTick, SaverDone,
                SaverFails, Decide, FinalSave, FinalSaveFails, RemoveManifest, RemoveFails, durable,
                control, workers, vars, engineVars
  <2>3. QED
    BY <1>0, <2>1, <2>2, OwnQuiet DEF TypeOK
<1>6. CASE CrashRun
  <2>1. /\ completed' = {} /\ remaining' = {} /\ phase' = "idle"
        /\ \A w \in Worker : task'[w] = NoTask
    BY <1>6 DEF CrashRun, Crash, FreshWorkers
  <2>2. PoolInv' /\ OneOwner' /\ NothingLost' /\ DrainedInv'
    BY <2>1, NoBytes DEF PoolInv, OneOwner, Disjoint, NothingLost, DrainedInv
  <2>3. QED
    BY <1>6, <2>1, <2>2 DEF CrashRun, EngineNext, Ownership
<1>7. ASSUME Ownership' PROVE remaining' \subseteq Ranges
  BY <1>7 DEF Ownership, PoolInv, InsideChunk
<1>8. QED
  BY <1>1, <1>2, <1>3, <1>4, <1>5, <1>6, <1>7 DEF Next

LEMMA InvInit == Init => StealingInv
  BY EngineTypeInit, EngineInvInit, OwnInit DEF Init, StealingInv, TypeOK

LEMMA InvStep == StealingInv /\ [Next]_vars => StealingInv' /\ [EngineNext]_engineVars
<1> SUFFICES ASSUME StealingInv, [Next]_vars PROVE StealingInv' /\ [EngineNext]_engineVars
  OBVIOUS
<1>1. [EngineNext]_engineVars /\ remaining' \subseteq Ranges /\ Ownership'
  BY StealingStep
<1>2. EngineTypeOK'
  BY <1>1, EngineTypeStep DEF StealingInv, TypeOK
<1>3. EngineInv'
  BY <1>1, <1>2, EngineInvStep, SuccessIsComplete DEF StealingInv, TypeOK
<1>4. QED
  BY <1>1, <1>2, <1>3 DEF StealingInv, TypeOK

-----------------------------------------------------------------------------
(***************************************************************************)
(* Every variable of the engine keeps its type: in particular no range     *)
(* handed to a worker leaves the file, no worker writes past the last      *)
(* byte, and no retry counter passes its budget.                           *)
(***************************************************************************)
THEOREM TypeCorrect == Spec => []TypeOK
<1>1. StealingInv => TypeOK
  BY DEF StealingInv
<1>2. QED
  BY <1>1, InvInit, InvStep, PTL DEF Spec

(***************************************************************************)
(* No two owners: whatever splits, steals, failures, cancellations,        *)
(* crashes and restarts happen, each byte belongs to one range of the      *)
(* pool, to one worker's segment, or to the completed ranges.  Nothing is  *)
(* assumed of the server.                                                  *)
(***************************************************************************)
THEOREM OwnershipIsExclusive == Spec => []OneOwner
<1>1. StealingInv => OneOwner
  BY DEF StealingInv, Ownership
<1>2. QED
  BY <1>1, InvInit, InvStep, PTL DEF Spec

(***************************************************************************)
(* No byte is forgotten while no worker has given up.                      *)
(***************************************************************************)
THEOREM NoByteIsLost == Spec => []NothingLost
<1>1. StealingInv => NothingLost
  BY DEF StealingInv, Ownership
<1>2. QED
  BY <1>1, InvInit, InvStep, PTL DEF Spec

(***************************************************************************)
(* A run that reports cancellation leaves a manifest with everything its   *)
(* workers recorded, unless writing it failed: the periodic saver cannot   *)
(* come in between, and no worker records after the verdict.               *)
(***************************************************************************)
THEOREM CancellationIsSaved == Spec => []CancelSavesEverything
<1>1. StealingInv => CancelSavesEverything
  BY DEF StealingInv, EngineInv
<1>2. QED
  BY <1>1, InvInit, InvStep, PTL DEF Spec

LEMMA ContentHolds == ~ShortBodies => (Spec => [](StealingInv /\ ContentInv))
<1> SUFFICES ASSUME ~ShortBodies PROVE Spec => [](StealingInv /\ ContentInv)
  OBVIOUS
<1>1. Init => ContentInv
  BY ContentInit DEF Init
<1>2. StealingInv /\ ContentInv /\ [Next]_vars => ContentInv'
  BY InvStep, ContentStep DEF StealingInv, TypeOK, EngineInv
<1>3. QED
  BY <1>1, <1>2, InvInit, InvStep, PTL DEF Spec

(***************************************************************************)
(* The manifest is never ahead of the file, in memory or on disk, provided *)
(* that a 206 body is as long as the range it answers.                     *)
(***************************************************************************)
THEOREM ManifestIsNeverAhead == ASSUME ~ShortBodies PROVE Spec => []ClaimedIsWritten
<1>1. ContentInv => ClaimedIsWritten
  BY DEF ContentInv
<1>2. QED
  BY <1>1, ContentHolds, PTL

(***************************************************************************)
(* A run that returns success leaves the whole file, on the same           *)
(* condition: all workers left the drained pool, so every byte is in the   *)
(* completed ranges, and those are in the file.                            *)
(***************************************************************************)
THEOREM SuccessIsWhole == ASSUME ~ShortBodies PROVE Spec => []SuccessMeansWhole
<1>1. StealingInv /\ ContentInv => SuccessMeansWhole
  BY WholeWhenRecorded DEF StealingInv, TypeOK
<1>2. QED
  BY <1>1, ContentHolds, PTL

(***************************************************************************)
(* The engine keeps the promise of module Transfer: with chunks, stealing, *)
(* retries, a saver that rewrites the manifest in place, cancellation and  *)
(* crashes, it is still a download that claims only what it has and        *)
(* succeeds only with the whole file.                                      *)
(***************************************************************************)
THEOREM EngineKeepsThePromise == ASSUME ~ShortBodies PROVE Spec => TransferSpec
<1>1. Init => Promise!Init
  BY PromiseInit DEF Init
<1>2. StealingInv /\ (StealingInv /\ ContentInv)' /\ [Next]_vars => [Promise!Next]_(Promise!vars)
  BY InvStep, PromiseStep DEF StealingInv, TypeOK, ContentInv
<1>3. QED
  BY <1>1, <1>2, ContentHolds, PTL DEF Spec, TransferSpec, Promise!Spec
=============================================================================
