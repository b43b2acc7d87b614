-------------------------- MODULE JobManagerProofs --------------------------
(***************************************************************************)
(* Proofs about the job manager, for every number of jobs, handlers, calls *)
(* and restarts, and for a state file that can and one that cannot fail.   *)
(***************************************************************************)
EXTENDS JobManager, SequenceTheorems, TLAPS

(***************************************************************************)
(* What a step that is left to do was given.                               *)
(***************************************************************************)
LEMMA StepParts ==
  ASSUME NEW s \in Steps
  PROVE  /\ s[1] = "publish" => s[2] \in Job /\ s[3] \in Status
         /\ s[1] \in {"announce", "start", "remove"} => s[2] \in Job
         /\ s[1] \in {"stop", "spawn"} => s[2] \in Run
         /\ s[1] = "write" => s[2] \in [Job -> Status]
BY DEF Steps

(***************************************************************************)
(* The first and the remaining steps of a list of steps.                   *)
(***************************************************************************)
LEMMA FirstAndRest ==
  ASSUME todo \in [Actor -> Seq(Steps)], NEW a \in Actor, ~Idle(a)
  PROVE  /\ Step(a) \in Steps
         /\ Tail(todo[a]) \in Seq(Steps)
         /\ Len(todo[a]) \in Nat \ {0}
         /\ Len(Tail(todo[a])) = Len(todo[a]) - 1
         /\ \A i \in 1 .. Len(Tail(todo[a])) : Tail(todo[a])[i] = todo[a][i + 1]
         /\ todo[a][1] = Step(a)
<1>1. todo[a] \in Seq(Steps) /\ todo[a] # <<>>
  BY DEF Idle
<1>2. QED
  BY <1>1, HeadTailProperties, EmptySeq DEF Step

(***************************************************************************)
(* The single steps, and the lists of them that critical sections leave.   *)
(***************************************************************************)
LEMMA StepsToDo ==
  /\ Save \in Steps
  /\ \A j \in Job, status \in Status : Event(j, status) \in Steps
  /\ \A kind \in {"announce", "start", "remove"}, j \in Job : <<kind, j>> \in Steps
  /\ \A kind \in {"stop", "spawn"}, r \in Run : <<kind, r>> \in Steps
  /\ \A status \in [Job -> Status] : <<"write", status>> \in Steps
  /\ \A kind \in {"copy", "list", "close", "wait", "exit"} : <<kind>> \in Steps
BY DEF Save, Event, Steps

LEMMA ListsOfSteps ==
  /\ <<>> \in Seq(Steps)
  /\ \A s \in Steps : <<s>> \in Seq(Steps)
  /\ \A s, t \in Steps : <<s, t>> \in Seq(Steps)
  /\ \A s, t, u \in Steps : <<s, t, u>> \in Seq(Steps)
OBVIOUS

(***************************************************************************)
(* A plan is a list of steps, and so is what is left when a step is done.  *)
(***************************************************************************)
LEMMA PlanTyped ==
  ASSUME todo \in [Actor -> Seq(Steps)], NEW a \in Actor, NEW steps \in Seq(Steps),
         Plan(a, steps)
  PROVE  todo' \in [Actor -> Seq(Steps)]
BY DEF Plan

LEMMA DoneTyped ==
  ASSUME todo \in [Actor -> Seq(Steps)], NEW a \in Actor, NEW kind, Does(a, kind)
  PROVE  /\ todo' \in [Actor -> Seq(Steps)]
         /\ Step(a) \in Steps /\ Step(a)[1] = kind
BY FirstAndRest DEF Does, Due

LEMMA Actors ==
  /\ \A c \in Client : c \in Actor
  /\ \A r \in Run : r \in Actor /\ r # NoRun
  /\ Main \in Actor
  /\ NewRun.job \in Job
BY ManagerAssumption DEF Actor, Run, NoRun, Main, NewRun

(***************************************************************************)
(* The records of the runs keep their type whatever is written to them.    *)
(***************************************************************************)
LEMMA RecordTyped ==
  /\ NewRun \in Record /\ OverRun \in Record
  /\ \A x \in Record, p \in Place : [x EXCEPT !.at = p] \in Record
  /\ \A x \in Record : [x EXCEPT !.pause = TRUE] \in Record
  /\ \A x \in Record : [x EXCEPT !.cancel = TRUE] \in Record
  /\ \A x \in Record : [x EXCEPT !.stop = TRUE] \in Record
  /\ \A x \in Record : [x EXCEPT !.cancel = TRUE, !.stop = TRUE] \in Record
  /\ \A x \in Record : [x EXCEPT !.at = "draining", !.ok = TRUE] \in Record
  /\ \A j \in Job : [NewRun EXCEPT !.job = j, !.at = "started"] \in Record
<1>1. NewRun \in Record
  BY Actors DEF NewRun, Record, Place
<1>2. OverRun \in Record
  BY <1>1 DEF OverRun, Record, Place
<1>3. QED
  BY <1>1, <1>2 DEF Record, Place

(***************************************************************************)
(* The critical sections of Pause and Cancel, whoever runs them.           *)
(***************************************************************************)
LEMMA MarkPausedTyped ==
  ASSUME TypeOK, NEW a \in Actor, NEW j \in Job, MarkPaused(a, j)
  PROVE  /\ jobs' \in [Job -> Status] /\ runs' \in [Run -> Record]
         /\ todo' \in [Actor -> Seq(Steps)] /\ running' = running
<1> USE DEF TypeOK, MarkPaused
<1>1. running[j] \in Run /\ "paused" \in Status
  BY DEF Status
<1>2. <<<<"stop", running[j]>>, Event(j, "paused"), Save>> \in Seq(Steps)
  BY <1>1, StepsToDo, ListsOfSteps
<1>3. todo' \in [Actor -> Seq(Steps)]
  BY <1>2, PlanTyped
<1>4. runs' \in [Run -> Record]
  BY <1>1, RecordTyped
<1>5. QED
  BY <1>1, <1>3, <1>4

LEMMA MarkCancelledTyped ==
  ASSUME TypeOK, NEW a \in Actor, NEW j \in Job, MarkCancelled(a, j)
  PROVE  /\ jobs' \in [Job -> Status] /\ runs' \in [Run -> Record]
         /\ todo' \in [Actor -> Seq(Steps)] /\ running' = running
<1> USE DEF TypeOK, MarkCancelled
<1>1. "cancelled" \in Status
  BY DEF Status
<1>2. Report(j, "cancelled") \in Seq(Steps)
  BY <1>1, StepsToDo, ListsOfSteps DEF Report
<1>3. running[j] # NoRun => <<<<"stop", running[j]>>, Event(j, "cancelled"), Save>> \in Seq(Steps)
  <2>1. running[j] # NoRun => running[j] \in Run
    OBVIOUS
  <2>2. QED
    BY <1>1, <2>1, StepsToDo, ListsOfSteps
<1>4. todo' \in [Actor -> Seq(Steps)]
  BY <1>2, <1>3, PlanTyped
<1>5. runs' \in [Run -> Record]
  <2>1. CASE running[j] = NoRun
    BY <2>1
  <2>2. CASE running[j] # NoRun
    <3>1. running[j] \in Run
      BY <2>2
    <3>2. [runs[running[j]] EXCEPT !.cancel = TRUE] \in Record
      BY <3>1, RecordTyped
    <3>3. runs' = [runs EXCEPT ![running[j]] = [runs[running[j]] EXCEPT !.cancel = TRUE]]
      BY <2>2, <3>1
    <3>4. QED
      BY <3>1, <3>2, <3>3
  <2>3. QED
    BY <2>1, <2>2
<1>6. QED
  BY <1>1, <1>4, <1>5

-----------------------------------------------------------------------------
(***************************************************************************)
(* Every variable keeps its type: the API calls ...                        *)
(***************************************************************************)
LEMMA TypeApi ==
  ASSUME TypeOK, NEW c \in Client, Api(c)
  PROVE  TypeOK'
<1> USE DEF TypeOK
<1>1. PICK j \in Job : Create(c, j) \/ Resume(c, j) \/ Pause(c, j) \/ Cancel(c, j) \/ Delete(c, j)
  BY DEF Api
<1>2. /\ c \in Actor
      /\ calls' \in 0 .. MaxCalls
      /\ UNCHANGED <<agent, list, disk, seen, files, restarts>>
  BY <1>1, Actors, ManagerAssumption DEF Create, Resume, Pause, Cancel, Delete, Call, process
<1>3. {"queued", "paused", "cancelled", "deleted"} \subseteq Status
  BY DEF Status
<1>4. CASE Create(c, j)
  <2>1. <<<<"announce", j>>, Save, <<"start", j>>>> \in Seq(Steps)
    BY StepsToDo, ListsOfSteps
  <2>2. todo' \in [Actor -> Seq(Steps)]
    BY <1>2, <1>4, <2>1, PlanTyped DEF Create
  <2>3. QED
    BY <1>2, <1>3, <1>4, <2>2 DEF Create
<1>5. CASE Resume(c, j)
  <2>1. << <<"start", j>> >> \in Seq(Steps)
    BY StepsToDo, ListsOfSteps
  <2>2. todo' \in [Actor -> Seq(Steps)]
    BY <1>2, <1>5, <2>1, PlanTyped DEF Resume
  <2>3. QED
    BY <1>2, <1>5, <2>2 DEF Resume, memory
<1>6. CASE Pause(c, j)
  BY <1>2, <1>6, MarkPausedTyped DEF Pause
<1>7. CASE Cancel(c, j)
  BY <1>2, <1>7, MarkCancelledTyped DEF Cancel
<1>8. CASE Delete(c, j)
  <2>1. /\ Report(j, "deleted") \in Seq(Steps)
        /\ <<<<"remove", j>>, Event(j, "deleted"), Save>> \in Seq(Steps)
    BY <1>3, StepsToDo, ListsOfSteps DEF Report
  <2>2. todo' \in [Actor -> Seq(Steps)]
    BY <1>2, <1>8, <2>1, PlanTyped DEF Delete
  <2>3. runs' \in [Run -> Record]
    <3>1. CASE running[j] = NoRun
      BY <1>8, <3>1 DEF Delete
    <3>2. CASE running[j] # NoRun
      <4>1. running[j] \in Run
        BY <3>2
      <4>2. [runs[running[j]] EXCEPT !.cancel = TRUE, !.stop = TRUE] \in Record
        BY <4>1, RecordTyped
      <4>3. runs' = [runs EXCEPT ![running[j]] =
                       [runs[running[j]] EXCEPT !.cancel = TRUE, !.stop = TRUE]]
        BY <1>8, <3>2, <4>1 DEF Delete, Record
      <4>4. QED
        BY <4>1, <4>2, <4>3
    <3>3. QED
      BY <3>1, <3>2
  <2>4. jobs' \in [Job -> Status] /\ running' \in [Job -> Run \union {NoRun}]
    BY <1>3, <1>8 DEF Delete
  <2>5. QED
    BY <1>2, <2>2, <2>3, <2>4
<1>9. QED
  BY <1>1, <1>4, <1>5, <1>6, <1>7, <1>8

(***************************************************************************)
(* ... what a handler does after its critical section ...                  *)
(***************************************************************************)
LEMMA TypeHandler ==
  ASSUME TypeOK, NEW c \in Client, Handler(c)
  PROVE  TypeOK'
<1> USE DEF TypeOK
<1>1. c \in Actor
  BY Actors
<1>2. CASE Announce(c)
  <2>1. todo' \in [Actor -> Seq(Steps)] /\ Step(c)[2] \in Job
    BY <1>1, <1>2, DoneTyped, StepParts DEF Announce
  <2>2. seen' \in [Job -> Status]
    BY <1>2, <2>1 DEF Announce, Status
  <2>3. QED
    BY <1>2, <2>1, <2>2 DEF Announce, process, memory, bounds
<1>3. CASE Start(c)
  <2>1. Step(c)[2] \in Job
    BY <1>1, <1>3, FirstAndRest, StepParts DEF Start, Due
  <2>2. UNCHANGED <<agent, list, disk, seen, files, calls, restarts>>
    BY <1>3 DEF Start, process, bounds
  <2>3. CASE ~Startable(Step(c)[2])
    <3>1. todo' \in [Actor -> Seq(Steps)]
      BY <1>1, <1>3, <2>3, PlanTyped, ListsOfSteps DEF Start
    <3>2. QED
      BY <1>3, <2>2, <2>3, <3>1 DEF Start, memory
  <2>4. CASE Startable(Step(c)[2])
    <3> DEFINE j == Step(c)[2]
    <3>1. PICK r \in Run :
            /\ running' = [running EXCEPT ![j] = r]
            /\ runs' = [runs EXCEPT ![r] = [NewRun EXCEPT !.job = j, !.at = "started"]]
            /\ Plan(c, <<Event(j, "running"), Save, <<"spawn", r>> >>)
      BY <1>3, <2>4 DEF Start
    <3>2. "running" \in Status /\ jobs' = [jobs EXCEPT ![j] = "running"]
      BY <1>3, <2>4 DEF Start, Status
    <3>3. <<Event(j, "running"), Save, <<"spawn", r>> >> \in Seq(Steps)
      BY <2>1, <3>2, StepsToDo, ListsOfSteps
    <3>4. todo' \in [Actor -> Seq(Steps)]
      BY <1>1, <3>1, <3>3, PlanTyped
    <3>5. runs' \in [Run -> Record] /\ running' \in [Job -> Run \union {NoRun}]
      BY <2>1, <3>1, RecordTyped
    <3>6. QED
      BY <2>1, <2>2, <3>2, <3>4, <3>5
  <2>5. QED
    BY <2>3, <2>4
<1>4. CASE Spawn(c)
  <2>1. todo' \in [Actor -> Seq(Steps)] /\ Step(c)[2] \in Run
    BY <1>1, <1>4, DoneTyped, StepParts DEF Spawn
  <2>2. [runs[Step(c)[2]] EXCEPT !.at = "spawned"] \in Record
    BY <2>1, RecordTyped DEF Place
  <2>3. runs' \in [Run -> Record]
    BY <1>4, <2>1, <2>2 DEF Spawn
  <2>4. QED
    BY <1>4, <2>1, <2>3 DEF Spawn, process, bounds
<1>5. CASE RemoveFiles(c)
  <2>1. todo' \in [Actor -> Seq(Steps)] /\ Step(c)[2] \in Job
    BY <1>1, <1>5, DoneTyped, StepParts DEF RemoveFiles
  <2>2. QED
    BY <1>5, <2>1 DEF RemoveFiles, process, memory, bounds
<1>6. QED
  BY <1>2, <1>3, <1>4, <1>5 DEF Handler

(***************************************************************************)
(* ... or does not, because it panics ...                                  *)
(***************************************************************************)
LEMMA TypePanic ==
  ASSUME TypeOK, NEW c \in Client, HandlerPanics(c)
  PROVE  TypeOK'
<1> USE DEF TypeOK
<1>1. c \in Actor /\ ~Idle(c)
  BY Actors DEF HandlerPanics, Due
<1>2. todo' \in [Actor -> Seq(Steps)]
  BY <1>1, PlanTyped, ListsOfSteps DEF HandlerPanics
<1>3. seen' \in [Job -> Status]
  <2>1. CASE Due(c, "publish")
    <3>1. Step(c)[2] \in Job /\ Step(c)[3] \in Status
      BY <1>1, <2>1, FirstAndRest, StepParts DEF Due
    <3>2. QED
      BY <2>1, <3>1 DEF HandlerPanics
  <2>2. QED
    BY <2>1 DEF HandlerPanics
<1>4. runs' \in [Run -> Record]
  <2>1. \A r \in Run : [runs[r] EXCEPT !.at = "lost"] \in Record
    BY RecordTyped DEF Place
  <2>2. QED
    BY <2>1 DEF HandlerPanics
<1>5. QED
  BY <1>2, <1>3, <1>4 DEF HandlerPanics, process, bounds

(***************************************************************************)
(* ... what any actor does after its critical section ...                  *)
(***************************************************************************)
LEMMA TypeEffects ==
  ASSUME TypeOK, NEW a \in Actor, Effects(a)
  PROVE  TypeOK'
<1> USE DEF TypeOK
<1>1. CASE StopRun(a)
  <2>1. todo' \in [Actor -> Seq(Steps)] /\ Step(a)[2] \in Run
    BY <1>1, DoneTyped, StepParts DEF StopRun
  <2>2. [runs[Step(a)[2]] EXCEPT !.stop = TRUE] \in Record
    BY <2>1, RecordTyped
  <2>3. runs' \in [Run -> Record]
    BY <1>1, <2>1, <2>2 DEF StopRun, Stopped
  <2>4. QED
    BY <1>1, <2>1, <2>3 DEF StopRun, process, bounds
<1>2. CASE Publish(a)
  <2>1. todo' \in [Actor -> Seq(Steps)] /\ Step(a)[2] \in Job /\ Step(a)[3] \in Status
    BY <1>2, DoneTyped, StepParts DEF Publish
  <2>2. QED
    BY <1>2, <2>1 DEF Publish, process, memory, bounds
<1>3. CASE CopyState(a)
  <2>1. todo[a] \in Seq(Steps) /\ todo[a] # <<>> /\ <<"write", jobs>> \in Steps
    BY <1>3, StepsToDo DEF CopyState, Due, Idle
  <2>2. [todo[a] EXCEPT ![1] = <<"write", jobs>>] \in Seq(Steps)
    <3>1. 1 \in 1 .. Len(todo[a])
      BY <2>1, EmptySeq
    <3>2. QED
      BY <2>1, <3>1, ExceptSeq
  <2>3. todo' \in [Actor -> Seq(Steps)]
    BY <1>3, <2>2 DEF CopyState
  <2>4. QED
    BY <1>3, <2>3 DEF CopyState, process, memory, bounds
<1>4. CASE WriteState(a)
  <2>1. todo' \in [Actor -> Seq(Steps)] /\ Step(a)[2] \in [Job -> Status]
    BY <1>4, DoneTyped, StepParts DEF WriteState
  <2>2. QED
    BY <1>4, <2>1 DEF WriteState, process, memory, bounds
<1>5. CASE WriteFails(a)
  <2>1. todo' \in [Actor -> Seq(Steps)]
    BY <1>5, DoneTyped DEF WriteFails
  <2>2. QED
    BY <1>5, <2>1 DEF WriteFails, process, memory, bounds
<1>6. QED
  BY <1>1, <1>2, <1>3, <1>4, <1>5 DEF Effects

(***************************************************************************)
(* ... a run and its engine ...                                            *)
(***************************************************************************)
LEMMA ReportsTyped ==
  ASSUME TypeOK, NEW r \in Run, Reports(r)
  PROVE  todo' \in [Actor -> Seq(Steps)]
<1> DEFINE j == runs[r].job
<1>1. r \in Actor /\ j \in Job /\ jobs[j] \in Status
  BY Actors DEF TypeOK, Record
<1>2. <<Event(j, jobs[j])>> \in Seq(Steps) /\ Report(j, jobs[j]) \in Seq(Steps)
  BY <1>1, StepsToDo, ListsOfSteps DEF Report
<1>3. QED
  BY <1>1, <1>2, PlanTyped DEF Reports, TypeOK

LEMMA TypeRun ==
  ASSUME TypeOK, NEW r \in Run, Engine(r) \/ RunStep(r)
  PROVE  TypeOK'
<1> USE DEF TypeOK
<1>1. r \in Actor /\ runs[r] \in Record /\ runs[r].job \in Job
  BY Actors DEF Record
<1>2. CASE BeginRun(r)
  <2>1. [runs[r] EXCEPT !.at = "engine"] \in Record /\ OverRun \in Record
    BY <1>1, RecordTyped DEF Place
  <2>2. runs' \in [Run -> Record]
    BY <1>2, <2>1 DEF BeginRun
  <2>3. QED
    BY <1>2, <2>2 DEF BeginRun, process, bounds
<1>3. CASE EngineWrites(r)
  BY <1>1, <1>3 DEF EngineWrites, process, memory, bounds
<1>4. CASE Progress(r)
  BY <1>4, ReportsTyped DEF Progress, process, memory, bounds
<1>5. CASE EngineFinishes(r)
  <2>1. /\ [runs[r] EXCEPT !.at = "draining", !.ok = TRUE] \in Record
        /\ [runs[r] EXCEPT !.at = "draining"] \in Record
    BY <1>1, RecordTyped DEF Place
  <2>2. runs' \in [Run -> Record]
    <3>1. \/ runs' = [runs EXCEPT ![r] = [runs[r] EXCEPT !.at = "draining", !.ok = TRUE]]
          \/ runs' = [runs EXCEPT ![r] = [runs[r] EXCEPT !.at = "draining"]]
      BY <1>1, <1>5 DEF EngineFinishes, Record
    <3>2. QED
      BY <2>1, <3>1
  <2>3. files' \in [Job -> {"none", "partial", "whole"}]
    BY <1>1, <1>5 DEF EngineFinishes
  <2>4. QED
    BY <1>5, <2>2, <2>3 DEF EngineFinishes, process, bounds
<1>6. CASE EngineReturns(r)
  <2>1. [runs[r] EXCEPT !.at = "returned"] \in Record
    BY <1>1, RecordTyped DEF Place
  <2>2. runs' \in [Run -> Record]
    BY <1>6, <2>1 DEF EngineReturns
  <2>3. todo' \in [Actor -> Seq(Steps)]
    BY <1>6, ReportsTyped DEF EngineReturns
  <2>4. QED
    BY <1>6, <2>2, <2>3 DEF EngineReturns, process, bounds
<1>7. CASE Settle(r)
  <2>1. Verdict(r) \in Status
    BY DEF Verdict, Status
  <2>2. Report(runs[r].job, Verdict(r)) \in Seq(Steps)
    BY <1>1, <2>1, StepsToDo, ListsOfSteps DEF Report
  <2>3. runs' \in [Run -> Record]
    BY <1>7, RecordTyped DEF Settle
  <2>4. running' \in [Job -> Run \union {NoRun}]
    BY <1>7, <1>1 DEF Settle, FreedBySettle
  <2>5. CASE Exists(jobs, runs[r].job)
    <3>1. todo' \in [Actor -> Seq(Steps)]
      BY <1>1, <1>7, <2>2, <2>5, PlanTyped DEF Settle
    <3>2. QED
      BY <1>1, <1>7, <2>1, <2>3, <2>4, <2>5, <3>1 DEF Settle, process, bounds
  <2>6. CASE ~Exists(jobs, runs[r].job)
    BY <1>7, <2>3, <2>4, <2>6 DEF Settle, process, bounds
  <2>7. QED
    BY <2>5, <2>6
<1>8. CASE EngineHangs(r)
  <2>1. [runs[r] EXCEPT !.at = "stuck"] \in Record
    BY <1>1, RecordTyped DEF Place
  <2>2. runs' \in [Run -> Record]
    BY <1>8, <2>1 DEF EngineHangs
  <2>3. QED
    BY <1>8, <2>2 DEF EngineHangs, process, bounds
<1>9. QED
  BY <1>2, <1>3, <1>4, <1>5, <1>6, <1>7, <1>8 DEF Engine, RunStep

(***************************************************************************)
(* ... the main goroutine, the end of the process and its restart.         *)
(***************************************************************************)
LEMMA DownTyped ==
  ASSUME TypeOK, Down
  PROVE  TypeOK'
<1>1. runs' \in [Run -> Record]
  BY RecordTyped DEF TypeOK, Down
<1>2. running' \in [Job -> Run \union {NoRun}] /\ todo' \in [Actor -> Seq(Steps)]
  BY ListsOfSteps DEF Down
<1>3. QED
  BY <1>1, <1>2 DEF TypeOK, Down, bounds

LEMMA TypeMain ==
  ASSUME TypeOK, MainStep
  PROVE  TypeOK'
<1> USE DEF TypeOK
<1>1. Main \in Actor
  BY Actors
<1>2. CASE ListRunning
  BY <1>1, <1>2, DoneTyped DEF ListRunning, memory, bounds
<1>3. CASE PauseNext
  <2>1. UNCHANGED <<agent, disk, seen, files, calls, restarts>>
    BY <1>3 DEF PauseNext, bounds
  <2>2. PICK j \in list : /\ list' = list \ {j}
                         /\ \/ MarkPaused(Main, j)
                            \/ MarkCancelled(Main, j)
                            \/ UNCHANGED <<memory, todo>>
    BY <1>3 DEF PauseNext
  <2>3. j \in Job /\ list' \subseteq Job
    BY <2>2
  <2>4. /\ jobs' \in [Job -> Status] /\ runs' \in [Run -> Record]
        /\ todo' \in [Actor -> Seq(Steps)] /\ running' = running
    BY <1>1, <2>2, <2>3, MarkPausedTyped, MarkCancelledTyped DEF memory
  <2>5. QED
    BY <2>1, <2>3, <2>4
<1>4. CASE AllPaused
  <2>1. <<Save, <<"close">>, <<"wait">> >> \in Seq(Steps)
    BY StepsToDo, ListsOfSteps
  <2>2. todo' \in [Actor -> Seq(Steps)]
    BY <1>1, <1>4, <2>1, PlanTyped DEF AllPaused
  <2>3. QED
    BY <1>4, <2>2 DEF AllPaused, process, memory, bounds
<1>5. CASE Close
  BY <1>1, <1>5, DoneTyped DEF Close, memory, bounds
<1>6. CASE Waited
  <2>1. <<Save, <<"exit">> >> \in Seq(Steps) /\ << <<"exit">> >> \in Seq(Steps)
    BY StepsToDo, ListsOfSteps
  <2>2. todo' \in [Actor -> Seq(Steps)]
    BY <1>1, <1>6, <2>1, PlanTyped DEF Waited
  <2>3. QED
    BY <1>6, <2>2 DEF Waited, process, memory, bounds
<1>7. CASE Exit
  BY <1>7, DownTyped DEF Exit
<1>8. CASE LoadFails
  BY <1>8, DownTyped DEF LoadFails
<1>9. CASE Serve
  BY <1>9 DEF Serve, memory, bounds
<1>10. QED
  BY <1>2, <1>3, <1>4, <1>5, <1>6, <1>7, <1>8, <1>9 DEF MainStep

LEMMA TypeProcess ==
  ASSUME TypeOK, Terminate \/ Kill \/ Restart
  PROVE  TypeOK'
<1> USE DEF TypeOK
<1>1. CASE Terminate
  <2>1. << <<"list">> >> \in Seq(Steps)
    BY StepsToDo, ListsOfSteps
  <2>2. todo' \in [Actor -> Seq(Steps)]
    BY <1>1, <2>1, Actors, PlanTyped DEF Terminate
  <2>3. calls' \in 0 .. MaxCalls
    BY <1>1, ManagerAssumption DEF Terminate
  <2>4. runs' \in [Run -> Record]
    BY <1>1, RecordTyped DEF Terminate
  <2>5. QED
    BY <1>1, <2>2, <2>3, <2>4 DEF Terminate
<1>2. CASE Kill
  BY <1>2, DownTyped DEF Kill
<1>3. CASE Restart
  <2>1. <<Save>> \in Seq(Steps) /\ <<>> \in Seq(Steps)
    BY StepsToDo, ListsOfSteps
  <2>2. todo' \in [Actor -> Seq(Steps)]
    BY <1>3, <2>1, Actors, PlanTyped DEF Restart
  <2>3. jobs' \in [Job -> Status]
    BY <1>3 DEF Restart, Loaded, Status
  <2>4. restarts' \in 0 .. MaxRestarts
    BY <1>3, ManagerAssumption DEF Restart
  <2>5. QED
    BY <1>3, <2>2, <2>3, <2>4 DEF Restart
<1>4. QED
  BY <1>1, <1>2, <1>3

LEMMA TypeInit == Init => TypeOK
<1> SUFFICES ASSUME Init PROVE TypeOK
  OBVIOUS
<1>1. runs \in [Run -> Record] /\ todo \in [Actor -> Seq(Steps)]
  BY RecordTyped, ListsOfSteps DEF Init
<1>2. Nothing \in [Job -> Status] /\ 0 \in 0 .. MaxCalls /\ 0 \in 0 .. MaxRestarts
  BY ManagerAssumption DEF Nothing, Status
<1>3. QED
  BY <1>1, <1>2 DEF Init, TypeOK

(***************************************************************************)
(* Type correctness of the job manager.                                    *)
(***************************************************************************)
THEOREM TypeCorrect == Spec => []TypeOK
<1>1. TypeOK /\ [Next]_vars => TypeOK'
  <2>1. ASSUME TypeOK, Next PROVE TypeOK'
    BY <2>1, TypeApi, TypeHandler, TypePanic, TypeRun, TypeEffects, TypeMain, TypeProcess DEF Next
  <2>2. ASSUME TypeOK, UNCHANGED vars PROVE TypeOK'
    BY <2>2 DEF TypeOK, vars, process, memory, bounds
  <2>3. QED
    BY <2>1, <2>2
<1>2. QED
  BY TypeInit, <1>1, PTL DEF Spec
-----------------------------------------------------------------------------
(***************************************************************************)
(* The inductive invariant behind the safety properties.  Beyond them it   *)
(* says that a goroutine still to be started belongs to one handler, as    *)
(* the last thing it does, and to a run that waits for it, that a run      *)
(* which is on its way belongs to a job that was created, and that nothing *)
(* is left of a process that ended.                                        *)
(***************************************************************************)
StartComesLast(steps) ==
  \A i \in 1 .. Len(steps) : steps[i][1] \in {"start", "spawn"} => i = Len(steps)

SpawnsAreOwed ==
  /\ \A a \in Actor : StartComesLast(todo[a])
  /\ \A a \in Actor, r \in Run : Spawns(a, r) => runs[r].at = "started"
  /\ \A a, b \in Actor, r \in Run : Spawns(a, r) /\ Spawns(b, r) => a = b

RunningHasRun ==
  agent # "down" => \A j \in Job : jobs[j] = "running" => running[j] # NoRun

RunsHaveJobs == \A r \in Run : Live(r) => jobs[runs[r].job] # "unborn"

NothingOutlives ==
  agent = "down" =>
    /\ \A r \in Run : ~Live(r)
    /\ \A a \in Actor : Idle(a)
    /\ \A j \in Job : running[j] = NoRun

Inductive ==
  /\ SlotsMatchRuns /\ OneEngine /\ RunningHasRun
  /\ SpawnsAreOwed /\ RunsHaveJobs /\ NothingOutlives

(***************************************************************************)
(* Doing a step, or planning steps that start no goroutine, owes no new    *)
(* one, and one that is owed stays the last step of its handler.           *)
(***************************************************************************)
OwesNoMore ==
  /\ \A a \in Actor : StartComesLast(todo[a]) => StartComesLast(todo'[a])
  /\ \A a \in Actor, r \in Run : Spawns(a, r)' => Spawns(a, r)

StartsNothing(steps) ==
  \A i \in 1 .. Len(steps) : steps[i][1] # "spawn" /\ (steps[i][1] = "start" => i = Len(steps))

LEMMA PlanOwes ==
  ASSUME todo \in [Actor -> Seq(Steps)], NEW a \in Actor, NEW steps \in Seq(Steps),
         Plan(a, steps), StartsNothing(steps)
  PROVE  OwesNoMore
<1>1. /\ todo'[a] = steps
      /\ \A b \in Actor : b # a => todo'[b] = todo[b]
  BY DEF Plan
<1>2. ASSUME NEW b \in Actor PROVE StartComesLast(todo[b]) => StartComesLast(todo'[b])
  BY <1>1 DEF StartComesLast, StartsNothing
<1>3. ASSUME NEW b \in Actor, NEW r \in Run, Spawns(b, r)' PROVE Spawns(b, r)
  <2>1. b # a
    BY <1>1, <1>3 DEF Spawns, StartsNothing
  <2>2. QED
    BY <1>1, <1>3, <2>1 DEF Spawns
<1>4. QED
  BY <1>2, <1>3 DEF OwesNoMore

LEMMA DoneOwes ==
  ASSUME todo \in [Actor -> Seq(Steps)], NEW a \in Actor, NEW kind, Does(a, kind)
  PROVE  OwesNoMore
<1>1. /\ todo'[a] = Tail(todo[a])
      /\ \A b \in Actor : b # a => todo'[b] = todo[b]
  BY DEF Does
<1>2. /\ Len(todo[a]) \in Nat \ {0}
      /\ Len(todo'[a]) = Len(todo[a]) - 1
      /\ \A i \in 1 .. Len(todo'[a]) : todo'[a][i] = todo[a][i + 1]
  BY <1>1, FirstAndRest DEF Does, Due
<1>3. ASSUME NEW b \in Actor PROVE StartComesLast(todo[b]) => StartComesLast(todo'[b])
  <2>1. CASE b = a
    <3>1. SUFFICES ASSUME StartComesLast(todo[a]), NEW i \in 1 .. Len(todo'[a]),
                          todo'[a][i][1] \in {"start", "spawn"}
                   PROVE  i = Len(todo'[a])
      BY <2>1 DEF StartComesLast
    <3>2. i + 1 \in 1 .. Len(todo[a]) /\ todo[a][i + 1][1] \in {"start", "spawn"}
      BY <1>2, <3>1
    <3>3. QED
      BY <1>2, <3>1, <3>2 DEF StartComesLast
  <2>2. CASE b # a
    BY <1>1, <2>2
  <2>3. QED
    BY <2>1, <2>2
<1>4. ASSUME NEW b \in Actor, NEW r \in Run, Spawns(b, r)' PROVE Spawns(b, r)
  <2>1. CASE b = a
    <3>1. PICK i \in 1 .. Len(todo'[a]) : todo'[a][i] = <<"spawn", r>>
      BY <1>4, <2>1 DEF Spawns
    <3>2. i + 1 \in 1 .. Len(todo[a]) /\ todo[a][i + 1] = <<"spawn", r>>
      BY <1>2, <3>1
    <3>3. QED
      BY <2>1, <3>2 DEF Spawns
  <2>2. CASE b # a
    BY <1>1, <1>4, <2>2 DEF Spawns
  <2>3. QED
    BY <2>1, <2>2
<1>5. QED
  BY <1>3, <1>4 DEF OwesNoMore

LEMMA CopyOwes ==
  ASSUME todo \in [Actor -> Seq(Steps)], NEW a \in Actor, CopyState(a)
  PROVE  OwesNoMore
<1>1. todo[a] \in Seq(Steps) /\ 1 \in 1 .. Len(todo[a]) /\ <<"write", jobs>>[1] = "write"
  BY EmptySeq DEF CopyState, Due, Idle
<1>2. /\ Len(todo'[a]) = Len(todo[a])
      /\ todo'[a][1] = <<"write", jobs>>
      /\ \A i \in 1 .. Len(todo[a]) : i # 1 => todo'[a][i] = todo[a][i]
      /\ \A b \in Actor : b # a => todo'[b] = todo[b]
  BY <1>1 DEF CopyState
<1>3. ASSUME NEW b \in Actor PROVE StartComesLast(todo[b]) => StartComesLast(todo'[b])
  BY <1>1, <1>2 DEF StartComesLast
<1>4. ASSUME NEW b \in Actor, NEW r \in Run, Spawns(b, r)' PROVE Spawns(b, r)
  <2>1. CASE b = a
    <3>1. PICK i \in 1 .. Len(todo'[a]) : todo'[a][i] = <<"spawn", r>>
      BY <1>4, <2>1 DEF Spawns
    <3>2. i # 1
      BY <1>1, <1>2, <3>1
    <3>3. QED
      BY <1>2, <2>1, <3>1, <3>2 DEF Spawns
  <2>2. CASE b # a
    BY <1>2, <1>4, <2>2 DEF Spawns
  <2>3. QED
    BY <2>1, <2>2
<1>5. QED
  BY <1>3, <1>4 DEF OwesNoMore

LEMMA IdleOwes ==
  ASSUME UNCHANGED todo \/ \A a \in Actor : todo'[a] = <<>>
  PROVE  OwesNoMore
BY DEF OwesNoMore, Spawns, StartComesLast

(***************************************************************************)
(* A step that creates no job or run, frees none, and ends at most runs    *)
(* of deleted jobs, keeps the invariant.                                   *)
(***************************************************************************)
LEMMA CalmStep ==
  ASSUME TypeOK, TypeOK', Inductive, OwesNoMore,
         agent # "down", agent' # "down",
         running' = running,
         \A j \in Job : /\ Exists(jobs', j) <=> Exists(jobs, j)
                        /\ jobs'[j] = "unborn" => jobs[j] = "unborn"
                        /\ jobs'[j] = "running" => jobs[j] = "running",
         \A r \in Run : /\ Live(r)' => Live(r) /\ runs'[r].job = runs[r].job
                        /\ Live(r) /\ ~Live(r)' => ~Exists(jobs, runs[r].job),
         \A a \in Actor, r \in Run : Spawns(a, r)' => runs'[r].at = runs[r].at
  PROVE  Inductive'
<1> USE DEF Inductive
<1>1. SlotsMatchRuns'
  <2>1. ASSUME NEW j \in Job, running'[j] # NoRun
        PROVE  Exists(jobs', j) /\ Live(running[j])' /\ runs'[running'[j]].job = j
    <3>1. running[j] \in Run
      BY <2>1 DEF TypeOK
    <3>2. Exists(jobs, j) /\ Live(running[j]) /\ runs[running[j]].job = j
      BY <2>1 DEF SlotsMatchRuns
    <3>3. \A r \in Run : r = running[j] => Live(r)' /\ runs'[r].job = j
      BY <3>2
    <3>4. Live(running[j])' /\ runs'[running'[j]].job = j
      BY <3>1, <3>3 DEF Live
    <3>5. QED
      BY <3>2, <3>4
  <2>2. ASSUME NEW r \in Run, Live(r)', Exists(jobs', runs'[r].job)
        PROVE  running'[runs'[r].job] = r
    <3>1. runs[r].job \in Job /\ Live(r) /\ runs'[r].job = runs[r].job
      BY <2>2 DEF TypeOK, Record
    <3>2. QED
      BY <2>2, <3>1 DEF SlotsMatchRuns
  <2>3. QED
    BY <2>1, <2>2 DEF SlotsMatchRuns, Exists, Live
<1>2. OneEngine'
  BY DEF OneEngine
<1>3. RunningHasRun'
  BY DEF RunningHasRun
<1>4. SpawnsAreOwed'
  BY DEF SpawnsAreOwed, OwesNoMore
<1>5. RunsHaveJobs'
  <2>1. ASSUME NEW r \in Run, Live(r)' PROVE jobs'[runs'[r].job] # "unborn"
    <3>1. runs[r].job \in Job /\ Live(r) /\ runs'[r].job = runs[r].job
      BY <2>1 DEF TypeOK, Record
    <3>2. QED
      BY <3>1 DEF RunsHaveJobs
  <2>2. QED
    BY <2>1 DEF RunsHaveJobs
<1>6. NothingOutlives'
  BY DEF NothingOutlives
<1>7. QED
  BY <1>1, <1>2, <1>3, <1>4, <1>5, <1>6

(***************************************************************************)
(* Only a restart is possible when the process is down.                    *)
(***************************************************************************)
LEMMA OnlyRestartWhenDown ==
  ASSUME TypeOK, Inductive, Next, ~Restart
  PROVE  agent # "down"
<1> SUFFICES ASSUME agent = "down" PROVE FALSE
  OBVIOUS
<1>1. /\ \A r \in Run : ~Live(r)
      /\ \A a \in Actor : Idle(a)
  BY DEF Inductive, NothingOutlives
<1>2. ASSUME NEW c \in Client PROVE ~Api(c) /\ ~Handler(c) /\ ~HandlerPanics(c)
  <2>1. Idle(c)
    BY <1>1, Actors
  <2>2. ~Api(c)
    BY DEF Api, Create, Resume, Pause, Cancel, Delete, Call
  <2>3. ~Handler(c)
    BY <2>1 DEF Handler, Announce, Start, Spawn, RemoveFiles, Does, Due
  <2>4. ~HandlerPanics(c)
    BY <2>1 DEF HandlerPanics, Due
  <2>5. QED
    BY <2>2, <2>3, <2>4
<1>3. ASSUME NEW r \in Run PROVE ~Engine(r) /\ ~RunStep(r)
  <2>1. runs[r].at \in {"unused", "over"}
    BY <1>1 DEF Live
  <2>2. QED
    BY <2>1 DEF Engine, RunStep, BeginRun, EngineWrites, Progress, EngineFinishes, EngineHangs,
                InEngine, EngineReturns, Settle
<1>4. ASSUME NEW a \in Actor PROVE ~Effects(a)
  BY <1>1 DEF Effects, StopRun, Publish, CopyState, WriteState, WriteFails, Does, Due
<1>5. ~MainStep
  <2>1. Idle(Main)
    BY <1>1, Actors
  <2>2. QED
    BY <2>1 DEF MainStep, ListRunning, PauseNext, AllPaused, Close, Waited, Exit, LoadFails,
                Serve, Does, Due
<1>6. ~Terminate /\ ~Kill
  BY DEF Terminate, Kill
<1>7. QED
  BY <1>2, <1>3, <1>4, <1>5, <1>6 DEF Next

(***************************************************************************)
(* Setting a flag of a run leaves it where it is.                          *)
(***************************************************************************)
LEMMA FlagsMoveNothing ==
  ASSUME runs \in [Run -> Record], NEW q \in Run,
         \/ runs' = [runs EXCEPT ![q].pause = TRUE]
         \/ runs' = [runs EXCEPT ![q].cancel = TRUE]
         \/ runs' = [runs EXCEPT ![q].stop = TRUE]
         \/ runs' = [runs EXCEPT ![q].cancel = TRUE, ![q].stop = TRUE]
  PROVE  \A r \in Run : runs'[r].at = runs[r].at /\ runs'[r].job = runs[r].job
<1>1. \A x \in Record : /\ [x EXCEPT !.pause = TRUE].at = x.at
                       /\ [x EXCEPT !.pause = TRUE].job = x.job
                       /\ [x EXCEPT !.cancel = TRUE].at = x.at
                       /\ [x EXCEPT !.cancel = TRUE].job = x.job
                       /\ [x EXCEPT !.stop = TRUE].at = x.at
                       /\ [x EXCEPT !.stop = TRUE].job = x.job
                       /\ [x EXCEPT !.cancel = TRUE, !.stop = TRUE].at = x.at
                       /\ [x EXCEPT !.cancel = TRUE, !.stop = TRUE].job = x.job
  BY DEF Record
<1>2. \/ runs' = [runs EXCEPT ![q] = [runs[q] EXCEPT !.pause = TRUE]]
      \/ runs' = [runs EXCEPT ![q] = [runs[q] EXCEPT !.cancel = TRUE]]
      \/ runs' = [runs EXCEPT ![q] = [runs[q] EXCEPT !.stop = TRUE]]
      \/ runs' = [runs EXCEPT ![q] = [runs[q] EXCEPT !.cancel = TRUE, !.stop = TRUE]]
  BY DEF Record
<1>3. runs[q] \in Record
  OBVIOUS
<1>4. QED
  BY <1>1, <1>2, <1>3, ZenonT(120)

(***************************************************************************)
(* The end of a context, an event and a save start nothing.                *)
(***************************************************************************)
LEMMA StopsStartNothing ==
  ASSUME NEW q, NEW j, NEW status
  PROVE  StartsNothing(<< <<"stop", q>>, Event(j, status), Save>>)
<1> DEFINE steps == << <<"stop", q>>, Event(j, status), Save>>
<1>1. Len(steps) = 3 /\ steps[1][1] = "stop" /\ steps[2][1] = "publish" /\ steps[3][1] = "copy"
  BY DEF Event, Save
<1>2. \A i \in 1 .. Len(steps) : i = 1 \/ i = 2 \/ i = 3
  BY <1>1
<1> HIDE DEF steps
<1>3. StartsNothing(steps)
  BY <1>1, <1>2 DEF StartsNothing
<1>4. QED
  BY <1>3 DEF steps

(***************************************************************************)
(* The invariant holds after the critical sections of Pause and Cancel.    *)
(***************************************************************************)
LEMMA MarkedCalmly ==
  ASSUME TypeOK, TypeOK', Inductive, NEW a \in Actor, NEW j \in Job,
         MarkPaused(a, j) \/ MarkCancelled(a, j),
         agent # "down", agent' # "down"
  PROVE  Inductive'
<1> USE DEF TypeOK
<1>1. OwesNoMore
  <2>1. \A status \in Status : StartsNothing(Report(j, status))
    BY DEF StartsNothing, Report, Event, Save
  <2>2. \A status \in Status :
          StartsNothing(<< <<"stop", running[j]>>, Event(j, status), Save>>)
    BY StopsStartNothing
  <2>3. "paused" \in Status /\ "cancelled" \in Status
    BY DEF Status
  <2>4. /\ Report(j, "cancelled") \in Seq(Steps)
        /\ running[j] # NoRun =>
             /\ << <<"stop", running[j]>>, Event(j, "cancelled"), Save>> \in Seq(Steps)
             /\ << <<"stop", running[j]>>, Event(j, "paused"), Save>> \in Seq(Steps)
    <3>1. running[j] # NoRun => running[j] \in Run
      OBVIOUS
    <3>2. QED
      BY <2>3, <3>1, StepsToDo, ListsOfSteps DEF Report
  <2>5. QED
    BY <2>1, <2>2, <2>3, <2>4, PlanOwes DEF MarkPaused, MarkCancelled
<1>2. running' = running
  BY DEF MarkPaused, MarkCancelled
<1>3. /\ Exists(jobs, j)
      /\ jobs' = [jobs EXCEPT ![j] = "paused"] \/ jobs' = [jobs EXCEPT ![j] = "cancelled"]
  BY DEF MarkPaused, MarkCancelled
<1>4. \A r \in Run : runs'[r].at = runs[r].at /\ runs'[r].job = runs[r].job
  <2>1. CASE UNCHANGED runs
    BY <2>1
  <2>2. CASE running[j] # NoRun
    <3>1. running[j] \in Run
      BY <2>2
    <3>2. \/ runs' = [runs EXCEPT ![running[j]].pause = TRUE]
          \/ runs' = [runs EXCEPT ![running[j]].cancel = TRUE]
      BY <2>2 DEF MarkPaused, MarkCancelled
    <3>3. QED
      BY <3>1, <3>2, FlagsMoveNothing
  <2>3. QED
    BY <2>1, <2>2 DEF MarkPaused, MarkCancelled
<1>5. \A k \in Job : /\ Exists(jobs', k) <=> Exists(jobs, k)
                     /\ jobs'[k] = "unborn" => jobs[k] = "unborn"
                     /\ jobs'[k] = "running" => jobs[k] = "running"
  BY <1>3 DEF Exists
<1>6. \A r \in Run : Live(r)' <=> Live(r)
  BY <1>4 DEF Live
<1>7. QED
  BY <1>1, <1>2, <1>4, <1>5, <1>6, CalmStep

(***************************************************************************)
(* The API calls: a created job has no run, a deleted one gives up its run.*)
(***************************************************************************)
LEMMA InvariantApi ==
  ASSUME TypeOK, TypeOK', Inductive, agent # "down", NEW c \in Client, Api(c)
  PROVE  Inductive'
<1> USE DEF TypeOK
<1>1. PICK j \in Job : Create(c, j) \/ Resume(c, j) \/ Pause(c, j) \/ Cancel(c, j) \/ Delete(c, j)
  BY DEF Api
<1>2. c \in Actor /\ agent' = agent
  BY <1>1, Actors DEF Create, Resume, Pause, Cancel, Delete, Call, process
<1>3. CASE Create(c, j)
  <2>1. /\ jobs[j] = "unborn" /\ jobs' = [jobs EXCEPT ![j] = "queued"]
        /\ UNCHANGED <<running, runs>>
        /\ Plan(c, << <<"announce", j>>, Save, <<"start", j>> >>)
    BY <1>3 DEF Create
  <2>2. running[j] = NoRun /\ \A r \in Run : Live(r) => runs[r].job # j
    BY <2>1 DEF Inductive, SlotsMatchRuns, RunsHaveJobs, Exists
  <2>3. OwesNoMore
    <3>1. StartsNothing(<< <<"announce", j>>, Save, <<"start", j>> >>)
      BY DEF StartsNothing, Save
    <3>2. << <<"announce", j>>, Save, <<"start", j>> >> \in Seq(Steps)
      BY StepsToDo, ListsOfSteps
    <3>3. QED
      BY <1>2, <2>1, <3>1, <3>2, PlanOwes
  <2>4. SlotsMatchRuns'
    BY <2>1, <2>2 DEF Inductive, SlotsMatchRuns, Exists, Live
  <2>5. OneEngine' /\ RunningHasRun' /\ RunsHaveJobs' /\ NothingOutlives'
    BY <1>2, <2>1, <2>2 DEF Inductive, OneEngine, RunningHasRun, RunsHaveJobs, NothingOutlives, Live
  <2>6. SpawnsAreOwed'
    BY <2>1, <2>3 DEF Inductive, SpawnsAreOwed, OwesNoMore
  <2>7. QED
    BY <2>4, <2>5, <2>6 DEF Inductive
<1>4. CASE Resume(c, j)
  <2>1. UNCHANGED <<jobs, running, runs>> /\ Plan(c, << <<"start", j>> >>)
    BY <1>4 DEF Resume, memory
  <2>2. OwesNoMore
    <3>1. StartsNothing(<< <<"start", j>> >>)
      BY DEF StartsNothing
    <3>2. << <<"start", j>> >> \in Seq(Steps)
      BY StepsToDo, ListsOfSteps
    <3>3. QED
      BY <1>2, <2>1, <3>1, <3>2, PlanOwes
  <2>3. QED
    BY <1>2, <2>1, <2>2, CalmStep DEF Live, Exists
<1>5. CASE Pause(c, j)
  BY <1>2, <1>5, MarkedCalmly DEF Pause
<1>6. CASE Cancel(c, j)
  BY <1>2, <1>6, MarkedCalmly DEF Cancel
<1>7. CASE Delete(c, j)
  <2>1. /\ Exists(jobs, j) /\ jobs' = [jobs EXCEPT ![j] = "deleted"]
        /\ running' = [running EXCEPT ![j] = NoRun]
        /\ \/ Plan(c, Report(j, "deleted"))
           \/ Plan(c, << <<"remove", j>>, Event(j, "deleted"), Save>>)
    BY <1>7 DEF Delete
  <2>2. \A r \in Run : runs'[r].at = runs[r].at /\ runs'[r].job = runs[r].job
    <3>1. CASE running[j] = NoRun
      BY <1>7, <3>1 DEF Delete
    <3>2. CASE running[j] # NoRun
      <4>1. running[j] \in Run
        BY <3>2
      <4>2. runs' = [runs EXCEPT ![running[j]].cancel = TRUE, ![running[j]].stop = TRUE]
        BY <1>7, <3>2 DEF Delete
      <4>3. QED
        BY <4>1, <4>2, FlagsMoveNothing
    <3>3. QED
      BY <3>1, <3>2
  <2>3. OwesNoMore
    <3>1. /\ StartsNothing(Report(j, "deleted"))
          /\ StartsNothing(<< <<"remove", j>>, Event(j, "deleted"), Save>>)
      BY DEF StartsNothing, Report, Event, Save
    <3>2. /\ Report(j, "deleted") \in Seq(Steps)
          /\ << <<"remove", j>>, Event(j, "deleted"), Save>> \in Seq(Steps)
      BY StepsToDo, ListsOfSteps DEF Report, Status
    <3>3. QED
      BY <1>2, <2>1, <3>1, <3>2, PlanOwes
  <2>4. \A r \in Run : Live(r)' <=> Live(r)
    BY <2>2 DEF Live
  <2>5. SlotsMatchRuns'
    <3>1. ASSUME NEW k \in Job, running'[k] # NoRun
          PROVE  Exists(jobs', k) /\ Live(running[k])' /\ runs'[running'[k]].job = k
      <4>1. k # j /\ running'[k] = running[k] /\ jobs'[k] = jobs[k] /\ running[k] \in Run
        BY <2>1, <3>1
      <4>2. Exists(jobs, k) /\ Live(running[k]) /\ runs[running[k]].job = k
        BY <3>1, <4>1 DEF Inductive, SlotsMatchRuns
      <4>3. QED
        BY <2>2, <4>1, <4>2 DEF Exists, Live
    <3>2. ASSUME NEW r \in Run, Live(r)', Exists(jobs', runs'[r].job)
          PROVE  running'[runs'[r].job] = r
      <4>1. runs[r].job \in Job /\ runs'[r].job = runs[r].job
        BY <2>2 DEF Record
      <4>2. runs[r].job # j /\ Exists(jobs, runs[r].job) /\ Live(r)
        BY <2>1, <2>4, <3>2, <4>1 DEF Exists
      <4>3. QED
        BY <2>1, <4>1, <4>2 DEF Inductive, SlotsMatchRuns
    <3>3. QED
      BY <3>1, <3>2 DEF SlotsMatchRuns, Exists, Live
  <2>6. OneEngine' /\ RunningHasRun' /\ NothingOutlives'
    BY <1>2, <2>1, <2>2, <2>4 DEF Inductive, OneEngine, RunningHasRun, NothingOutlives
  <2>7. RunsHaveJobs'
    <3>1. ASSUME NEW r \in Run, Live(r)' PROVE jobs'[runs'[r].job] # "unborn"
      <4>1. runs[r].job \in Job /\ runs'[r].job = runs[r].job /\ Live(r)
        BY <2>2, <2>4, <3>1 DEF Record
      <4>2. QED
        BY <2>1, <4>1 DEF Inductive, RunsHaveJobs
    <3>2. QED
      BY <3>1 DEF RunsHaveJobs
  <2>8. SpawnsAreOwed'
    BY <2>2, <2>3 DEF Inductive, SpawnsAreOwed, OwesNoMore
  <2>9. QED
    BY <2>5, <2>6, <2>7, <2>8 DEF Inductive
<1>8. QED
  BY <1>1, <1>3, <1>4, <1>5, <1>6, <1>7

(***************************************************************************)
(* What a handler does after its critical section.  A start gives a job    *)
(* without a run a fresh one; the goroutine it owes is started once.       *)
(***************************************************************************)
LEMMA SpawnStep ==
  ASSUME NEW s \in Steps, s[1] = "spawn"
  PROVE  s = <<"spawn", s[2]>> /\ s[2] \in Run
BY DEF Steps

LEMMA InvariantStart ==
  ASSUME TypeOK, TypeOK', Inductive, agent # "down", NEW c \in Client, Start(c)
  PROVE  Inductive'
<1> USE DEF TypeOK
<1> DEFINE j == Step(c)[2]
<1>1. c \in Actor /\ j \in Job /\ agent' = agent
  BY Actors, FirstAndRest, StepParts DEF Start, Due, process
<1>2. CASE ~Startable(j)
  <2>1. UNCHANGED <<jobs, running, runs>> /\ Plan(c, <<>>)
    BY <1>2 DEF Start, memory
  <2>2. <<>> \in Seq(Steps) /\ StartsNothing(<<>>)
    BY ListsOfSteps DEF StartsNothing
  <2>3. OwesNoMore
    BY <1>1, <2>1, <2>2, PlanOwes
  <2>4. QED
    BY <1>1, <2>1, <2>3, CalmStep DEF Live, Exists
<1>3. CASE Startable(j)
  <2>1. PICK r \in Run :
          /\ Fresh(r)
          /\ running' = [running EXCEPT ![j] = r]
          /\ runs' = [runs EXCEPT ![r] = [NewRun EXCEPT !.job = j, !.at = "started"]]
          /\ Plan(c, <<Event(j, "running"), Save, <<"spawn", r>> >>)
    BY <1>3 DEF Start
  <2>2. jobs' = [jobs EXCEPT ![j] = "running"] /\ Exists(jobs, j) /\ running[j] = NoRun
    BY <1>3 DEF Start, Startable
  <2>3. runs[r].at = "unused" /\ r # NoRun /\ ~Live(r)
    BY <2>1, Actors DEF Fresh, Live
  <2>4. runs'[r].job = j /\ runs'[r].at = "started" /\ \A q \in Run : q # r => runs'[q] = runs[q]
    <3>1. NewRun.job \in Job /\ NewRun \in Record
      BY Actors, RecordTyped
    <3>2. /\ [NewRun EXCEPT !.job = j, !.at = "started"].job = j
          /\ [NewRun EXCEPT !.job = j, !.at = "started"].at = "started"
      BY DEF NewRun
    <3>3. QED
      BY <2>1, <3>2
  <2>5. \A q \in Run : Live(q)' <=> Live(q) \/ q = r
    BY <2>3, <2>4 DEF Live
  <2>6. \A q \in Run : Live(q) => runs[q].job # j
    BY <2>2, Actors DEF Inductive, SlotsMatchRuns
  <2>7. SlotsMatchRuns'
    <3>1. ASSUME NEW k \in Job, running'[k] # NoRun
          PROVE  Exists(jobs', k) /\ Live(running[k])' /\ runs'[running'[k]].job = k
      <4>1. CASE k = j
        BY <1>1, <2>1, <2>2, <2>4, <4>1 DEF Exists, Live
      <4>2. CASE k # j
        <5>1. running'[k] = running[k] /\ jobs'[k] = jobs[k] /\ running[k] \in Run
          BY <2>1, <2>2, <3>1, <4>2
        <5>2. Exists(jobs, k) /\ Live(running[k]) /\ runs[running[k]].job = k
          BY <3>1, <5>1 DEF Inductive, SlotsMatchRuns
        <5>3. running[k] # r
          BY <2>3, <5>2
        <5>4. QED
          BY <2>4, <5>1, <5>2, <5>3 DEF Exists, Live
      <4>3. QED
        BY <4>1, <4>2
    <3>2. ASSUME NEW q \in Run, Live(q)', Exists(jobs', runs'[q].job)
          PROVE  running'[runs'[q].job] = q
      <4>1. CASE q = r
        BY <1>1, <2>1, <2>4, <4>1
      <4>2. CASE q # r
        <5>1. Live(q) /\ runs'[q] = runs[q] /\ runs[q].job \in Job
          BY <2>4, <2>5, <3>2, <4>2 DEF Record
        <5>2. runs[q].job # j
          BY <2>6, <5>1
        <5>3. jobs'[runs[q].job] = jobs[runs[q].job] /\ running'[runs[q].job] = running[runs[q].job]
          BY <2>1, <2>2, <5>1, <5>2
        <5>4. Exists(jobs, runs[q].job)
          BY <3>2, <5>1, <5>3 DEF Exists
        <5>5. QED
          BY <5>1, <5>3, <5>4 DEF Inductive, SlotsMatchRuns
      <4>3. QED
        BY <4>1, <4>2
    <3>3. QED
      BY <3>1, <3>2 DEF SlotsMatchRuns, Exists, Live
  <2>8. OneEngine'
    <3>1. ASSUME NEW p \in Run, NEW q \in Run, Live(p)', Live(q)', runs'[p].job = runs'[q].job
          PROVE  p = q
      BY <2>4, <2>5, <2>6, <3>1 DEF Inductive, OneEngine
    <3>2. QED
      BY <3>1 DEF OneEngine, Live
  <2>9. RunningHasRun'
    BY <1>1, <2>1, <2>2, <2>3 DEF Inductive, RunningHasRun
  <2>10. RunsHaveJobs'
    <3>1. ASSUME NEW q \in Run, Live(q)' PROVE jobs'[runs'[q].job] # "unborn"
      <4>1. CASE q = r
        BY <1>1, <2>2, <2>4, <4>1
      <4>2. CASE q # r
        <5>1. Live(q) /\ runs'[q] = runs[q] /\ runs[q].job \in Job
          BY <2>4, <2>5, <3>1, <4>2 DEF Record
        <5>2. QED
          BY <2>2, <5>1 DEF Inductive, RunsHaveJobs
      <4>3. QED
        BY <4>1, <4>2
    <3>2. QED
      BY <3>1 DEF RunsHaveJobs
  <2>11. SpawnsAreOwed'
    <3>1. /\ todo'[c] = <<Event(j, "running"), Save, <<"spawn", r>> >>
          /\ \A b \in Actor : b # c => todo'[b] = todo[b]
      BY <1>1, <2>1 DEF Plan
    <3>2. /\ Len(todo'[c]) = 3
          /\ todo'[c][1][1] = "publish" /\ todo'[c][2][1] = "copy"
          /\ todo'[c][3] = <<"spawn", r>>
      BY <3>1 DEF Event, Save
    <3>3. \A i \in 1 .. Len(todo'[c]) : i = 1 \/ i = 2 \/ i = 3
      BY <3>2
    <3>4. StartComesLast(todo'[c])
      BY <3>2, <3>3 DEF StartComesLast
    <3>5. \A q \in Run : Spawns(c, q)' => q = r
      <4>1. ASSUME NEW q \in Run, Spawns(c, q)' PROVE q = r
        <5>1. PICK i \in 1 .. Len(todo'[c]) : todo'[c][i] = <<"spawn", q>>
          BY <4>1 DEF Spawns
        <5>2. <<"spawn", q>>[1] = "spawn"
          OBVIOUS
        <5>3. i = 3
          BY <3>2, <3>3, <5>1, <5>2
        <5>4. QED
          BY <3>2, <5>1, <5>3
      <4>2. QED
        BY <4>1
    <3>6. \A b \in Actor, q \in Run : b # c /\ Spawns(b, q)' => Spawns(b, q) /\ q # r
      <4>1. \A b \in Actor, q \in Run : b # c /\ Spawns(b, q)' => Spawns(b, q)
        BY <3>1 DEF Spawns
      <4>2. QED
        BY <2>3, <4>1 DEF Inductive, SpawnsAreOwed
    <3>7. \A b \in Actor : StartComesLast(todo'[b])
      BY <3>1, <3>4 DEF Inductive, SpawnsAreOwed
    <3>8. \A b \in Actor, q \in Run : Spawns(b, q)' => runs'[q].at = "started"
      BY <2>4, <3>5, <3>6 DEF Inductive, SpawnsAreOwed
    <3>9. ASSUME NEW a \in Actor, NEW b \in Actor, NEW q \in Run, Spawns(a, q)', Spawns(b, q)'
          PROVE  a = b
      <4>1. CASE a = c \/ b = c
        BY <3>5, <3>6, <3>9, <4>1
      <4>2. CASE a # c /\ b # c
        <5>1. Spawns(a, q) /\ Spawns(b, q)
          BY <3>6, <3>9, <4>2
        <5>2. QED
          BY <5>1 DEF Inductive, SpawnsAreOwed
      <4>3. QED
        BY <4>1, <4>2
    <3>10. QED
      BY <3>7, <3>8, <3>9 DEF SpawnsAreOwed
  <2>12. NothingOutlives'
    BY <1>1 DEF NothingOutlives
  <2>13. QED
    BY <2>7, <2>8, <2>9, <2>10, <2>11, <2>12 DEF Inductive
<1>4. QED
  BY <1>2, <1>3

LEMMA InvariantHandler ==
  ASSUME TypeOK, TypeOK', Inductive, agent # "down", NEW c \in Client, Handler(c)
  PROVE  Inductive'
<1> USE DEF TypeOK
<1>1. c \in Actor
  BY Actors
<1>2. CASE Announce(c)
  <2>1. OwesNoMore
    BY <1>1, <1>2, DoneOwes DEF Announce
  <2>2. agent' = agent /\ UNCHANGED <<jobs, running, runs>>
    BY <1>2 DEF Announce, process, memory
  <2>3. QED
    BY <2>1, <2>2, CalmStep DEF Live, Exists
<1>3. CASE Start(c)
  BY <1>3, InvariantStart
<1>4. CASE Spawn(c)
  <2>1. OwesNoMore
    BY <1>1, <1>4, DoneOwes DEF Spawn
  <2> PICK r \in Run : Step(c) = <<"spawn", r>> /\ Step(c)[2] = r
    <3>1. Step(c) \in Steps /\ Step(c)[1] = "spawn"
      BY <1>1, <1>4, FirstAndRest DEF Spawn, Does, Due
    <3>2. QED
      BY <3>1, SpawnStep
  <2>2. /\ todo[c][1] = <<"spawn", r>>
        /\ Len(todo[c]) \in Nat \ {0}
        /\ Len(todo'[c]) = Len(todo[c]) - 1
    <3>1. ~Idle(c) /\ todo'[c] = Tail(todo[c])
      BY <1>1, <1>4 DEF Spawn, Does, Due
    <3>2. QED
      BY <1>1, <3>1, FirstAndRest
  <2>3. Spawns(c, r) /\ Len(todo'[c]) = 0 /\ runs[r].at = "started"
    <3>0. 1 \in 1 .. Len(todo[c])
      BY <2>2
    <3>1. Spawns(c, r)
      BY <2>2, <3>0 DEF Spawns
    <3>2. <<"spawn", r>>[1] = "spawn"
      OBVIOUS
    <3>3. Len(todo[c]) = 1
      <4>1. StartComesLast(todo[c])
        BY <1>1 DEF Inductive, SpawnsAreOwed
      <4>2. todo[c][1][1] = "spawn"
        BY <2>2, <3>2
      <4>3. QED
        BY <3>0, <4>1, <4>2 DEF StartComesLast
    <3>4. QED
      BY <1>1, <2>2, <3>1, <3>3 DEF Inductive, SpawnsAreOwed
  <2>4. \A b \in Actor : ~Spawns(b, r)'
    <3>1. ~Spawns(c, r)'
      BY <2>3 DEF Spawns
    <3>2. ASSUME NEW b \in Actor, Spawns(b, r)' PROVE b = c
      <4>1. Spawns(b, r)
        BY <2>1, <2>2, <3>2 DEF OwesNoMore
      <4>2. QED
        BY <1>1, <2>2, <2>3, <4>1 DEF Inductive, SpawnsAreOwed
    <3>3. ASSUME NEW b \in Actor, Spawns(b, r)' PROVE FALSE
      BY <3>1, <3>2, <3>3
    <3>4. QED
      BY <3>3
  <2>5. /\ agent' = agent /\ UNCHANGED <<jobs, running>>
        /\ runs' = [runs EXCEPT ![r] = [runs[r] EXCEPT !.at = "spawned"]]
    BY <1>4 DEF Spawn, process
  <2>6. /\ runs'[r].at = "spawned" /\ runs'[r].job = runs[r].job
        /\ \A q \in Run : q # r => runs'[q] = runs[q]
    BY <2>2, <2>5 DEF Record
  <2>7. \A q \in Run : (Live(q)' <=> Live(q)) /\ runs'[q].job = runs[q].job
    BY <2>3, <2>6 DEF Live
  <2>8. ASSUME NEW b \in Actor, NEW q \in Run, Spawns(b, q)' PROVE runs'[q].at = runs[q].at
    <3>1. q # r
      BY <2>4, <2>8
    <3>2. QED
      BY <2>6, <3>1
  <2>9. QED
    BY <2>1, <2>5, <2>7, <2>8, CalmStep DEF Exists
<1>5. CASE RemoveFiles(c)
  <2>1. OwesNoMore
    BY <1>1, <1>5, DoneOwes DEF RemoveFiles
  <2>2. agent' = agent /\ UNCHANGED <<jobs, running, runs>>
    BY <1>5 DEF RemoveFiles, process, memory
  <2>3. QED
    BY <2>1, <2>2, CalmStep DEF Live, Exists
<1>6. QED
  BY <1>2, <1>3, <1>4, <1>5 DEF Handler

(***************************************************************************)
(* A handler that panics owes nothing any more; the run it would have      *)
(* started stays on its way, and nobody else starts it.                    *)
(***************************************************************************)
LEMMA LostOnes ==
  ASSUME runs \in [Run -> Record], NEW c \in Client, HandlerPanics(c), NEW r \in Run
  PROVE  /\ runs'[r].job = runs[r].job /\ runs'[r].ok = runs[r].ok
         /\ Spawns(c, r) => runs'[r].at = "lost"
         /\ ~Spawns(c, r) => runs'[r] = runs[r]
<1>1. runs'[r] = IF Spawns(c, r) THEN [runs[r] EXCEPT !.at = "lost"] ELSE runs[r]
  BY DEF HandlerPanics
<1>2. \A x \in Record : /\ [x EXCEPT !.at = "lost"].at = "lost"
                       /\ [x EXCEPT !.at = "lost"].job = x.job
                       /\ [x EXCEPT !.at = "lost"].ok = x.ok
  BY DEF Record
<1>3. QED
  BY <1>1, <1>2

LEMMA InvariantPanic ==
  ASSUME TypeOK, TypeOK', Inductive, agent # "down", NEW c \in Client, HandlerPanics(c)
  PROVE  Inductive'
<1> USE DEF TypeOK
<1>1. c \in Actor /\ agent' = agent /\ UNCHANGED <<jobs, running>> /\ Plan(c, <<>>)
  BY Actors DEF HandlerPanics, process
<1>2. OwesNoMore
  <2>1. <<>> \in Seq(Steps) /\ StartsNothing(<<>>)
    BY ListsOfSteps DEF StartsNothing
  <2>2. QED
    BY <1>1, <2>1, PlanOwes
<1>3. \A r \in Run : Spawns(c, r) => runs[r].at = "started"
  BY <1>1 DEF Inductive, SpawnsAreOwed
<1>4. \A r \in Run : (Live(r)' <=> Live(r)) /\ runs'[r].job = runs[r].job
  BY <1>3, LostOnes DEF Live
<1>5. ASSUME NEW a \in Actor, NEW r \in Run, Spawns(a, r)' PROVE runs'[r].at = runs[r].at
  <2>1. Spawns(a, r)
    BY <1>2, <1>5 DEF OwesNoMore
  <2>2. a # c
    <3>1. todo'[c] = <<>> /\ Len(todo'[c]) = 0
      BY <1>1 DEF Plan
    <3>2. QED
      BY <1>5, <3>1 DEF Spawns
  <2>3. ~Spawns(c, r)
    BY <1>1, <2>1, <2>2 DEF Inductive, SpawnsAreOwed
  <2>4. QED
    BY <2>3, LostOnes
<1>6. QED
  BY <1>1, <1>2, <1>4, <1>5, CalmStep DEF Exists

(***************************************************************************)
(* What any actor does after its critical section.                         *)
(***************************************************************************)
LEMMA InvariantEffects ==
  ASSUME TypeOK, TypeOK', Inductive, agent # "down", NEW a \in Actor, Effects(a)
  PROVE  Inductive'
<1> USE DEF TypeOK
<1>1. OwesNoMore
  BY DoneOwes, CopyOwes DEF Effects, StopRun, Publish, WriteState, WriteFails
<1>2. UNCHANGED <<agent, jobs, running>>
  BY DEF Effects, StopRun, Publish, CopyState, WriteState, WriteFails, process, memory
<1>3. \A r \in Run : runs'[r].at = runs[r].at /\ runs'[r].job = runs[r].job
  <2>1. CASE StopRun(a)
    <3>1. Step(a)[2] \in Run
      BY <2>1, DoneTyped, StepParts DEF StopRun
    <3>2. runs' = [runs EXCEPT ![Step(a)[2]].stop = TRUE]
      BY <2>1 DEF StopRun, Stopped
    <3>3. QED
      BY <3>1, <3>2, FlagsMoveNothing
  <2>2. CASE UNCHANGED runs
    BY <2>2
  <2>3. QED
    BY <2>1, <2>2 DEF Effects, Publish, CopyState, WriteState, WriteFails, memory
<1>4. \A r \in Run : Live(r)' <=> Live(r)
  BY <1>3 DEF Live
<1>5. QED
  BY <1>1, <1>2, <1>3, <1>4, CalmStep DEF Exists

(***************************************************************************)
(* A run and its engine: only the end of a run, and the lookup that finds  *)
(* the job deleted, take a run away; the first frees its job with it.      *)
(***************************************************************************)
LEMMA ReportsOwe ==
  ASSUME TypeOK, NEW r \in Run, Reports(r)
  PROVE  OwesNoMore
<1> USE DEF TypeOK
<1> DEFINE j == runs[r].job
<1>1. r \in Actor /\ j \in Job /\ jobs[j] \in Status
  BY Actors DEF Record
<1>2. <<Event(j, jobs[j])>> \in Seq(Steps) /\ Report(j, jobs[j]) \in Seq(Steps)
  BY <1>1, StepsToDo, ListsOfSteps DEF Report
<1>3. StartsNothing(<<Event(j, jobs[j])>>) /\ StartsNothing(Report(j, jobs[j]))
  BY DEF StartsNothing, Report, Event, Save
<1>4. CASE UNCHANGED todo
  BY <1>4, IdleOwes
<1>5. CASE Plan(r, <<Event(j, jobs[j])>>)
  BY <1>1, <1>2, <1>3, <1>5, PlanOwes
<1>6. CASE Plan(r, Report(j, jobs[j]))
  BY <1>1, <1>2, <1>3, <1>6, PlanOwes
<1>7. QED
  BY <1>4, <1>5, <1>6 DEF Reports

LEMMA PlaceChanges ==
  ASSUME NEW x \in Record, NEW p \in Place
  PROVE  /\ [x EXCEPT !.at = p] \in Record
         /\ [x EXCEPT !.at = p].at = p
         /\ [x EXCEPT !.at = p].job = x.job
         /\ [x EXCEPT !.at = p, !.ok = TRUE] \in Record
         /\ [x EXCEPT !.at = p, !.ok = TRUE].at = p
         /\ [x EXCEPT !.at = p, !.ok = TRUE].job = x.job
BY DEF Record

LEMMA RunMoves ==
  ASSUME TypeOK, TypeOK', Inductive, agent # "down", agent' = agent,
         UNCHANGED <<jobs, running>>, OwesNoMore,
         NEW r \in Run, Live(r), runs[r].at # "started",
         NEW x \in Record, runs' = [runs EXCEPT ![r] = x],
         x.at \notin {"unused", "over"} => x.job = runs[r].job,
         x.at \in {"unused", "over"} => ~Exists(jobs, runs[r].job)
  PROVE  Inductive'
<1> USE DEF TypeOK
<1>1. runs'[r] = x /\ \A q \in Run : q # r => runs'[q] = runs[q]
  OBVIOUS
<1>2. \A q \in Run : /\ Live(q)' => Live(q) /\ runs'[q].job = runs[q].job
                     /\ Live(q) /\ ~Live(q)' => ~Exists(jobs, runs[q].job)
  BY <1>1 DEF Live
<1>3. ASSUME NEW a \in Actor, NEW q \in Run, Spawns(a, q)' PROVE runs'[q].at = runs[q].at
  <2>1. Spawns(a, q)
    BY <1>3 DEF OwesNoMore
  <2>2. q # r
    BY <2>1 DEF Inductive, SpawnsAreOwed
  <2>3. QED
    BY <1>1, <2>2
<1>4. QED
  BY <1>2, <1>3, CalmStep DEF Exists

LEMMA InvariantSettle ==
  ASSUME TypeOK, TypeOK', Inductive, agent # "down", NEW r \in Run, Settle(r)
  PROVE  Inductive'
<1> USE DEF TypeOK
<1> DEFINE j == runs[r].job
<1>1. r \in Actor /\ j \in Job /\ r # NoRun /\ Live(r) /\ runs[r].at = "returned"
  BY Actors DEF Settle, Record, Live
<1>2. /\ agent' = agent
      /\ running' = [running EXCEPT ![j] = NoRun]
      /\ runs' = [runs EXCEPT ![r] = OverRun]
  BY DEF Settle, FreedBySettle, process
<1>3. ~Live(r)' /\ \A q \in Run : q # r => runs'[q] = runs[q]
  BY <1>2 DEF OverRun, NewRun, Live
<1>4. Verdict(r) \in Status \ {"unborn", "deleted", "running"}
  BY DEF Verdict, Status
<1>5. \/ UNCHANGED <<jobs, todo>>
      \/ /\ Exists(jobs, j) /\ jobs' = [jobs EXCEPT ![j] = Verdict(r)]
         /\ Plan(r, Report(j, Verdict(r)))
  BY DEF Settle
<1>6. OwesNoMore
  <2>1. Report(j, Verdict(r)) \in Seq(Steps)
    BY <1>1, <1>4, StepsToDo, ListsOfSteps DEF Report
  <2>2. StartsNothing(Report(j, Verdict(r)))
    BY DEF StartsNothing, Report, Event, Save
  <2>3. QED
    BY <1>1, <1>5, <2>1, <2>2, PlanOwes, IdleOwes
<1>7. \A k \in Job : k # j => jobs'[k] = jobs[k] /\ running'[k] = running[k]
  BY <1>2, <1>5
<1>8. \A q \in Run : Live(q)' => Live(q) /\ runs'[q] = runs[q] /\ q # r
  BY <1>3 DEF Live
<1>9. \A k \in Job : /\ Exists(jobs', k) <=> Exists(jobs, k)
                     /\ jobs'[k] = "unborn" => jobs[k] = "unborn"
                     /\ jobs'[k] = "running" => jobs[k] = "running"
  BY <1>4, <1>5 DEF Exists
<1>10. SlotsMatchRuns'
  <2>1. ASSUME NEW k \in Job, running'[k] # NoRun
        PROVE  Exists(jobs', k) /\ Live(running[k])' /\ runs'[running'[k]].job = k
    <3>1. k # j /\ running'[k] = running[k] /\ running[k] \in Run
      BY <1>2, <1>7, <2>1
    <3>2. Exists(jobs, k) /\ Live(running[k]) /\ runs[running[k]].job = k
      BY <2>1, <3>1 DEF Inductive, SlotsMatchRuns
    <3>3. running[k] # r
      BY <3>1, <3>2
    <3>4. runs'[running[k]] = runs[running[k]]
      BY <1>3, <3>1, <3>3
    <3>5. QED
      BY <1>9, <3>1, <3>2, <3>4 DEF Live
  <2>2. ASSUME NEW q \in Run, Live(q)', Exists(jobs', runs'[q].job)
        PROVE  running'[runs'[q].job] = q
    <3>1. Live(q) /\ runs'[q] = runs[q] /\ q # r /\ runs[q].job \in Job
      BY <1>8, <2>2 DEF Record
    <3>2. Exists(jobs, runs[q].job) /\ running[runs[q].job] = q
      BY <1>9, <2>2, <3>1 DEF Inductive, SlotsMatchRuns
    <3>3. runs[q].job # j
      BY <1>1, <3>1, <3>2 DEF Inductive, OneEngine
    <3>4. QED
      BY <1>7, <3>1, <3>2, <3>3
  <2>3. QED
    BY <2>1, <2>2 DEF SlotsMatchRuns, Exists, Live
<1>11. OneEngine'
  BY <1>8 DEF Inductive, OneEngine
<1>12. RunningHasRun'
  <2>1. ASSUME NEW k \in Job, jobs'[k] = "running" PROVE running'[k] # NoRun
    <3>1. jobs[k] = "running" /\ running[k] # NoRun
      BY <1>9, <2>1 DEF Inductive, RunningHasRun
    <3>2. CASE k = j
      <4>1. Exists(jobs, j)
        BY <3>1, <3>2 DEF Exists
      <4>2. jobs'[j] = Verdict(r)
        BY <1>1, <4>1 DEF Settle
      <4>3. QED
        BY <1>4, <2>1, <3>2, <4>2
    <3>3. QED
      BY <1>7, <3>1, <3>2
  <2>2. QED
    BY <2>1 DEF RunningHasRun
<1>13. RunsHaveJobs'
  <2>1. ASSUME NEW q \in Run, Live(q)' PROVE jobs'[runs'[q].job] # "unborn"
    <3>1. Live(q) /\ runs'[q] = runs[q] /\ runs[q].job \in Job
      BY <1>8, <2>1 DEF Record
    <3>2. QED
      BY <1>9, <3>1 DEF Inductive, RunsHaveJobs
  <2>2. QED
    BY <2>1 DEF RunsHaveJobs
<1>14. SpawnsAreOwed'
  <2>1. ASSUME NEW a \in Actor, NEW q \in Run, Spawns(a, q)'
        PROVE  Spawns(a, q) /\ runs'[q].at = "started"
    <3>1. Spawns(a, q)
      BY <1>6, <2>1 DEF OwesNoMore
    <3>2. runs[q].at = "started"
      BY <3>1 DEF Inductive, SpawnsAreOwed
    <3>3. QED
      BY <1>1, <1>3, <3>1, <3>2
  <2>2. \A a \in Actor : StartComesLast(todo'[a])
    BY <1>6 DEF Inductive, SpawnsAreOwed, OwesNoMore
  <2>3. ASSUME NEW a \in Actor, NEW b \in Actor, NEW q \in Run, Spawns(a, q)', Spawns(b, q)'
        PROVE  a = b
    <3>1. Spawns(a, q) /\ Spawns(b, q)
      BY <2>1, <2>3
    <3>2. QED
      BY <3>1 DEF Inductive, SpawnsAreOwed
  <2>4. QED
    BY <2>1, <2>2, <2>3 DEF SpawnsAreOwed
<1>15. NothingOutlives'
  BY <1>2 DEF NothingOutlives
<1>16. QED
  BY <1>10, <1>11, <1>12, <1>13, <1>14, <1>15 DEF Inductive

LEMMA InvariantRun ==
  ASSUME TypeOK, TypeOK', Inductive, agent # "down", NEW r \in Run, Engine(r) \/ RunStep(r)
  PROVE  Inductive'
<1> USE DEF TypeOK
<1>1. runs[r] \in Record
  OBVIOUS
<1>2. CASE BeginRun(r)
  <2>1. /\ runs[r].at = "spawned" /\ UNCHANGED <<agent, jobs, running, todo>>
        /\ IF Exists(jobs, runs[r].job)
           THEN runs' = [runs EXCEPT ![r] = [runs[r] EXCEPT !.at = "engine"]]
           ELSE runs' = [runs EXCEPT ![r] = OverRun]
    BY <1>2 DEF BeginRun, process
  <2>2. /\ [runs[r] EXCEPT !.at = "engine"] \in Record /\ OverRun \in Record
        /\ [runs[r] EXCEPT !.at = "engine"].at = "engine"
        /\ [runs[r] EXCEPT !.at = "engine"].job = runs[r].job
        /\ OverRun.at = "over"
    <3>1. "engine" \in Place
      BY DEF Place
    <3>2. OverRun.at = "over"
      BY DEF OverRun, NewRun
    <3>3. /\ [runs[r] EXCEPT !.at = "engine"] \in Record
          /\ [runs[r] EXCEPT !.at = "engine"].at = "engine"
          /\ [runs[r] EXCEPT !.at = "engine"].job = runs[r].job
      BY <1>1, <3>1, PlaceChanges, ZenonT(40)
    <3>4. OverRun \in Record
      BY RecordTyped
    <3>5. QED
      BY <3>2, <3>3, <3>4
  <2>3. OwesNoMore /\ Live(r)
    BY <2>1, IdleOwes DEF Live
  <2>4. CASE Exists(jobs, runs[r].job)
    BY <2>1, <2>2, <2>3, <2>4, RunMoves
  <2>5. CASE ~Exists(jobs, runs[r].job)
    BY <2>1, <2>2, <2>3, <2>5, RunMoves
  <2>6. QED
    BY <2>4, <2>5
<1>3. CASE EngineWrites(r)
  <2>1. UNCHANGED <<agent, jobs, running, runs, todo>>
    BY <1>3 DEF EngineWrites, process, memory
  <2>2. OwesNoMore
    BY <2>1, IdleOwes
  <2>3. QED
    BY <2>1, <2>2, CalmStep DEF Live, Exists
<1>4. CASE Progress(r)
  <2>1. UNCHANGED <<agent, jobs, running, runs>>
    BY <1>4 DEF Progress, process, memory
  <2>2. OwesNoMore
    BY <1>4, ReportsOwe DEF Progress
  <2>3. QED
    BY <2>1, <2>2, CalmStep DEF Live, Exists
<1>5. CASE EngineFinishes(r)
  <2>1. /\ runs[r].at = "engine" /\ UNCHANGED <<agent, jobs, running, todo>>
        /\ \/ runs' = [runs EXCEPT ![r] = [runs[r] EXCEPT !.at = "draining", !.ok = TRUE]]
           \/ runs' = [runs EXCEPT ![r] = [runs[r] EXCEPT !.at = "draining"]]
    BY <1>1, <1>5 DEF EngineFinishes, process, Record
  <2>2. /\ [runs[r] EXCEPT !.at = "draining", !.ok = TRUE] \in Record
        /\ [runs[r] EXCEPT !.at = "draining", !.ok = TRUE].at = "draining"
        /\ [runs[r] EXCEPT !.at = "draining", !.ok = TRUE].job = runs[r].job
        /\ [runs[r] EXCEPT !.at = "draining"] \in Record
        /\ [runs[r] EXCEPT !.at = "draining"].at = "draining"
        /\ [runs[r] EXCEPT !.at = "draining"].job = runs[r].job
    <3>1. "draining" \in Place
      BY DEF Place
    <3>2. QED
      BY <1>1, <3>1, PlaceChanges, ZenonT(40)
  <2>3. OwesNoMore /\ Live(r)
    BY <2>1, IdleOwes DEF Live
  <2>4. QED
    BY <2>1, <2>2, <2>3, RunMoves
<1>6. CASE EngineReturns(r)
  <2>1. /\ runs[r].at = "draining" /\ UNCHANGED <<agent, jobs, running>>
        /\ runs' = [runs EXCEPT ![r] = [runs[r] EXCEPT !.at = "returned"]]
    BY <1>6 DEF EngineReturns, process
  <2>2. /\ [runs[r] EXCEPT !.at = "returned"] \in Record
        /\ [runs[r] EXCEPT !.at = "returned"].at = "returned"
        /\ [runs[r] EXCEPT !.at = "returned"].job = runs[r].job
    <3>1. "returned" \in Place
      BY DEF Place
    <3>2. QED
      BY <1>1, <3>1, PlaceChanges, ZenonT(40)
  <2>3. OwesNoMore /\ Live(r)
    BY <1>6, <2>1, ReportsOwe, IdleOwes DEF EngineReturns, Live
  <2>4. QED
    BY <2>1, <2>2, <2>3, RunMoves
<1>7. CASE Settle(r)
  BY <1>7, InvariantSettle
<1>8. CASE EngineHangs(r)
  <2>1. /\ runs[r].at = "engine" /\ UNCHANGED <<agent, jobs, running, todo>>
        /\ runs' = [runs EXCEPT ![r] = [runs[r] EXCEPT !.at = "stuck"]]
    BY <1>8 DEF EngineHangs, process
  <2>2. /\ [runs[r] EXCEPT !.at = "stuck"] \in Record
        /\ [runs[r] EXCEPT !.at = "stuck"].at = "stuck"
        /\ [runs[r] EXCEPT !.at = "stuck"].job = runs[r].job
    <3>1. "stuck" \in Place
      BY DEF Place
    <3>2. QED
      BY <1>1, <3>1, PlaceChanges, ZenonT(40)
  <2>3. OwesNoMore /\ Live(r)
    BY <2>1, IdleOwes DEF Live
  <2>4. QED
    BY <2>1, <2>2, <2>3, RunMoves
<1>9. QED
  BY <1>2, <1>3, <1>4, <1>5, <1>6, <1>7, <1>8 DEF Engine, RunStep

(***************************************************************************)
(* The end of the process takes every run away, every slot and every step  *)
(* that was left to do.                                                    *)
(***************************************************************************)
LEMMA InvariantDown ==
  ASSUME TypeOK, Inductive, Down
  PROVE  Inductive'
<1> USE DEF TypeOK
<1>1. /\ agent' = "down" /\ jobs' = jobs
      /\ running' = [j \in Job |-> NoRun]
      /\ todo' = [a \in Actor |-> <<>>]
  BY DEF Down
<1>2. \A r \in Run : ~Live(r)'
  <2>1. OverRun.at = "over"
    BY DEF OverRun, NewRun
  <2>2. \A r \in Run : runs'[r].at \in {"unused", "over"}
    BY <2>1 DEF Down
  <2>3. QED
    BY <2>2 DEF Live
<1>3. \A a \in Actor : todo'[a] = <<>> /\ Len(todo'[a]) = 0
  BY <1>1
<1>4. SlotsMatchRuns' /\ OneEngine' /\ RunningHasRun' /\ RunsHaveJobs'
  BY <1>1, <1>2 DEF SlotsMatchRuns, OneEngine, RunningHasRun, RunsHaveJobs
<1>5. SpawnsAreOwed'
  BY <1>3 DEF SpawnsAreOwed, StartComesLast, Spawns
<1>6. NothingOutlives'
  BY <1>1, <1>2, <1>3 DEF NothingOutlives, Idle
<1>7. QED
  BY <1>4, <1>5, <1>6 DEF Inductive

(***************************************************************************)
(* The main goroutine: it pauses the jobs, and its plans start nothing.    *)
(***************************************************************************)
LEMMA MainOwes ==
  ASSUME TypeOK,
         \/ Plan(Main, << <<"list">> >>)
         \/ Plan(Main, <<Save, <<"close">>, <<"wait">> >>)
         \/ Plan(Main, <<Save, <<"exit">> >>)
         \/ Plan(Main, << <<"exit">> >>)
         \/ Plan(Main, <<Save>>)
         \/ Plan(Main, <<>>)
  PROVE  OwesNoMore
<1>1. /\ << <<"list">> >> \in Seq(Steps)
      /\ <<Save, <<"close">>, <<"wait">> >> \in Seq(Steps)
      /\ <<Save, <<"exit">> >> \in Seq(Steps)
      /\ << <<"exit">> >> \in Seq(Steps)
      /\ <<Save>> \in Seq(Steps)
      /\ <<>> \in Seq(Steps)
  BY StepsToDo, ListsOfSteps
<1>2. /\ StartsNothing(<< <<"list">> >>)
      /\ StartsNothing(<<Save, <<"close">>, <<"wait">> >>)
      /\ StartsNothing(<<Save, <<"exit">> >>)
      /\ StartsNothing(<< <<"exit">> >>)
      /\ StartsNothing(<<Save>>)
      /\ StartsNothing(<<>>)
  BY DEF StartsNothing, Save
<1>3. Main \in Actor /\ todo \in [Actor -> Seq(Steps)]
  BY Actors DEF TypeOK
<1>4. QED
  BY <1>1, <1>2, <1>3, PlanOwes

LEMMA InvariantMain ==
  ASSUME TypeOK, TypeOK', Inductive, agent # "down", MainStep
  PROVE  Inductive'
<1> USE DEF TypeOK
<1>1. Main \in Actor
  BY Actors
<1>2. CASE ListRunning \/ Close
  <2>1. OwesNoMore
    BY <1>1, <1>2, DoneOwes DEF ListRunning, Close
  <2>2. agent' # "down" /\ UNCHANGED <<jobs, running, runs>>
    BY <1>2 DEF ListRunning, Close, memory
  <2>3. QED
    BY <2>1, <2>2, CalmStep DEF Live, Exists
<1>3. CASE PauseNext
  <2>1. agent' # "down"
    BY <1>3 DEF PauseNext
  <2>2. PICK j \in Job : \/ MarkPaused(Main, j) \/ MarkCancelled(Main, j)
                         \/ UNCHANGED <<memory, todo>>
    BY <1>3 DEF PauseNext
  <2>3. CASE MarkPaused(Main, j) \/ MarkCancelled(Main, j)
    BY <1>1, <2>1, <2>3, MarkedCalmly
  <2>4. CASE UNCHANGED <<memory, todo>>
    <3>1. OwesNoMore /\ UNCHANGED <<jobs, running, runs>>
      BY <2>4, IdleOwes DEF memory
    <3>2. QED
      BY <2>1, <3>1, CalmStep DEF Live, Exists
  <2>5. QED
    BY <2>2, <2>3, <2>4
<1>4. CASE AllPaused \/ Waited \/ Serve
  <2>1. OwesNoMore
    BY <1>4, MainOwes, IdleOwes DEF AllPaused, Waited, Serve
  <2>2. agent' # "down" /\ UNCHANGED <<jobs, running, runs>>
    BY <1>4 DEF AllPaused, Waited, Serve, memory, process
  <2>3. QED
    BY <2>1, <2>2, CalmStep DEF Live, Exists
<1>5. CASE Exit \/ LoadFails
  BY <1>5, InvariantDown DEF Exit, LoadFails
<1>6. QED
  BY <1>2, <1>3, <1>4, <1>5 DEF MainStep

(***************************************************************************)
(* The process: a signal stops engines but no run, and a restart finds     *)
(* nothing running.                                                        *)
(***************************************************************************)
LEMMA InvariantTerminate ==
  ASSUME TypeOK, TypeOK', Inductive, Terminate
  PROVE  Inductive'
<1> USE DEF TypeOK
<1>1. PICK signalled \in SUBSET {r \in Run : InEngine(r)} :
        runs' = [r \in Run |-> IF r \in signalled THEN [runs[r] EXCEPT !.stop = TRUE] ELSE runs[r]]
  BY DEF Terminate
<1>2. \A x \in Record : [x EXCEPT !.stop = TRUE].at = x.at /\ [x EXCEPT !.stop = TRUE].job = x.job
  BY DEF Record
<1>3. \A r \in Run : runs'[r].at = runs[r].at /\ runs'[r].job = runs[r].job
  BY <1>1, <1>2
<1>4. OwesNoMore /\ agent # "down" /\ agent' # "down" /\ UNCHANGED <<jobs, running>>
  BY MainOwes DEF Terminate
<1>5. \A r \in Run : Live(r)' <=> Live(r)
  BY <1>3 DEF Live
<1>6. QED
  BY <1>3, <1>4, <1>5, CalmStep DEF Exists

LEMMA InvariantRestart ==
  ASSUME TypeOK, TypeOK', Inductive, Restart
  PROVE  Inductive'
<1> USE DEF TypeOK
<1>1. /\ agent = "down" /\ agent' = "loading" /\ UNCHANGED <<running, runs>>
      /\ jobs' = [j \in Job |-> IF Exists(disk, j) THEN Loaded(disk[j])
                                ELSE IF jobs[j] = "unborn" THEN "unborn" ELSE "deleted"]
  BY DEF Restart
<1>2. /\ \A r \in Run : ~Live(r) /\ ~Live(r)'
      /\ \A j \in Job : running[j] = NoRun
  BY <1>1 DEF Inductive, NothingOutlives, Live
<1>3. \A j \in Job : jobs'[j] # "running"
  BY <1>1 DEF Loaded
<1>4. OwesNoMore
  BY MainOwes DEF Restart
<1>5. SlotsMatchRuns' /\ OneEngine' /\ RunningHasRun' /\ RunsHaveJobs' /\ NothingOutlives'
  BY <1>1, <1>2, <1>3 DEF SlotsMatchRuns, OneEngine, RunningHasRun, RunsHaveJobs, NothingOutlives
<1>6. SpawnsAreOwed'
  BY <1>1, <1>4 DEF Inductive, SpawnsAreOwed, OwesNoMore
<1>7. QED
  BY <1>5, <1>6 DEF Inductive

LEMMA InvariantInit == Init => Inductive
<1> SUFFICES ASSUME Init PROVE Inductive
  OBVIOUS
<1>1. \A r \in Run : ~Live(r)
  BY DEF Init, Live, NewRun
<1>2. /\ \A a \in Actor : todo[a] = <<>> /\ Len(todo[a]) = 0
      /\ \A j \in Job : running[j] = NoRun /\ jobs[j] = "unborn"
      /\ agent = "serving"
  BY DEF Init, Nothing
<1>3. SlotsMatchRuns /\ OneEngine /\ RunningHasRun /\ RunsHaveJobs /\ NothingOutlives
  BY <1>1, <1>2 DEF SlotsMatchRuns, OneEngine, RunningHasRun, RunsHaveJobs, NothingOutlives
<1>4. SpawnsAreOwed
  BY <1>2 DEF SpawnsAreOwed, StartComesLast, Spawns
<1>5. QED
  BY <1>3, <1>4 DEF Inductive

LEMMA Invariance == TypeOK /\ TypeOK' /\ Inductive /\ [Next]_vars => Inductive'
<1> SUFFICES ASSUME TypeOK, TypeOK', Inductive, [Next]_vars PROVE Inductive'
  OBVIOUS
<1>1. CASE Restart
  BY <1>1, InvariantRestart
<1>2. CASE Next /\ ~Restart
  <2>1. agent # "down"
    BY <1>2, OnlyRestartWhenDown
  <2>2. QED
    BY <1>2, <2>1, InvariantApi, InvariantHandler, InvariantPanic, InvariantRun, InvariantEffects,
       InvariantMain, InvariantTerminate, InvariantDown DEF Next, Kill
<1>3. CASE UNCHANGED vars
  BY <1>3 DEF vars, process, memory, bounds, Inductive, SlotsMatchRuns, OneEngine, RunningHasRun,
              RunsHaveJobs, NothingOutlives, SpawnsAreOwed, StartComesLast, Spawns, Live, Exists, Idle
<1>4. QED
  BY <1>1, <1>2, <1>3

(***************************************************************************)
(* The inductive invariant: slots, runs and owed goroutines match in every *)
(* reachable state.                                                        *)
(***************************************************************************)
THEOREM InductiveHolds == Spec => []Inductive
BY InvariantInit, TypeCorrect, Invariance, PTL DEF Spec

(***************************************************************************)
(* The slots of m.running are exactly the runs of the jobs that exist, for *)
(* every interleaving of handlers, runs, shutdown and restart.             *)
(***************************************************************************)
THEOREM SlotsExact == Spec => []SlotsMatchRuns
<1>1. Inductive => SlotsMatchRuns
  BY DEF Inductive
<1>2. QED
  BY InductiveHolds, <1>1, PTL

(***************************************************************************)
(* No job ever has two engines.                                            *)
(***************************************************************************)
THEOREM NeverTwoEngines == Spec => []OneEngine
<1>1. Inductive => OneEngine
  BY DEF Inductive
<1>2. QED
  BY InductiveHolds, <1>1, PTL

-----------------------------------------------------------------------------
(***************************************************************************)
(* A run that has no goroutine yet is about to get one: some handler still *)
(* has its start in its list, and only does it or panics.                  *)
(***************************************************************************)
StartedIsOwed == \A r \in Run : runs[r].at = "started" => \E c \in Client : Spawns(c, r)

OwesNoLess == \A c \in Client, r \in Run : Spawns(c, r) => Spawns(c, r)'

NoneStarts == \A r \in Run : runs'[r].at = "started" => runs[r].at = "started"

LEMMA StillOwed == StartedIsOwed /\ OwesNoLess /\ NoneStarts => StartedIsOwed'
BY DEF StartedIsOwed, OwesNoLess, NoneStarts

(***************************************************************************)
(* Plans are made by actors that owe no goroutine, and what is done from a *)
(* list, or rewritten in it, is something else.                            *)
(***************************************************************************)
LEMMA PlanOwesNoLess ==
  ASSUME todo \in [Actor -> Seq(Steps)], NEW a \in Actor, NEW steps, Plan(a, steps),
         \A r \in Run : a \in Client => ~Spawns(a, r)
  PROVE  OwesNoLess
<1>1. \A b \in Actor : b # a => todo'[b] = todo[b]
  BY DEF Plan
<1>2. QED
  BY <1>1, Actors DEF OwesNoLess, Spawns

LEMMA IdleOwesNothing ==
  ASSUME NEW a \in Actor, Idle(a)
  PROVE  \A r \in Run : ~Spawns(a, r)
BY DEF Idle, Spawns

LEMMA DoneOwesNoLess ==
  ASSUME todo \in [Actor -> Seq(Steps)], NEW a \in Actor, NEW kind, Does(a, kind), kind # "spawn"
  PROVE  OwesNoLess
<1>1. /\ todo'[a] = Tail(todo[a]) /\ ~Idle(a) /\ Step(a)[1] = kind
      /\ \A b \in Actor : b # a => todo'[b] = todo[b]
  BY DEF Does, Due
<1>2. /\ Len(todo[a]) \in Nat \ {0} /\ todo[a][1] = Step(a)
      /\ Len(todo'[a]) = Len(todo[a]) - 1
      /\ \A i \in 1 .. Len(todo'[a]) : todo'[a][i] = todo[a][i + 1]
  BY <1>1, FirstAndRest
<1>3. ASSUME NEW c \in Client, NEW r \in Run, Spawns(c, r) PROVE Spawns(c, r)'
  <2>1. CASE c = a
    <3>1. PICK i \in 1 .. Len(todo[a]) : todo[a][i] = <<"spawn", r>>
      BY <1>3, <2>1 DEF Spawns
    <3>2. <<"spawn", r>>[1] = "spawn"
      OBVIOUS
    <3>3. i # 1
      BY <1>1, <1>2, <3>1, <3>2
    <3>4. i - 1 \in 1 .. Len(todo'[a]) /\ (i - 1) + 1 = i
      BY <1>2, <3>1, <3>3
    <3>5. todo'[a][i - 1] = <<"spawn", r>>
      BY <1>2, <3>1, <3>4
    <3>6. QED
      BY <2>1, <3>4, <3>5 DEF Spawns
  <2>2. CASE c # a
    BY <1>1, <1>3, <2>2, Actors DEF Spawns
  <2>3. QED
    BY <2>1, <2>2
<1>4. QED
  BY <1>3 DEF OwesNoLess

LEMMA CopyOwesNoLess ==
  ASSUME todo \in [Actor -> Seq(Steps)], NEW a \in Actor, CopyState(a)
  PROVE  OwesNoLess
<1>1. ~Idle(a) /\ Step(a)[1] = "copy" /\ todo[a] \in Seq(Steps)
  BY DEF CopyState, Due
<1>2. todo[a][1] = Step(a)
  BY <1>1, FirstAndRest
<1>3. /\ Len(todo'[a]) = Len(todo[a])
      /\ \A i \in 1 .. Len(todo[a]) : i # 1 => todo'[a][i] = todo[a][i]
      /\ \A b \in Actor : b # a => todo'[b] = todo[b]
  BY <1>1 DEF CopyState
<1>4. ASSUME NEW c \in Client, NEW r \in Run, Spawns(c, r) PROVE Spawns(c, r)'
  <2>1. CASE c = a
    <3>1. PICK i \in 1 .. Len(todo[a]) : todo[a][i] = <<"spawn", r>>
      BY <1>4, <2>1 DEF Spawns
    <3>2. <<"spawn", r>>[1] = "spawn"
      OBVIOUS
    <3>3. i # 1
      BY <1>1, <1>2, <3>1, <3>2
    <3>4. QED
      BY <1>3, <2>1, <3>1, <3>3 DEF Spawns
  <2>2. CASE c # a
    BY <1>3, <1>4, <2>2, Actors DEF Spawns
  <2>3. QED
    BY <2>1, <2>2
<1>5. QED
  BY <1>4 DEF OwesNoLess

(***************************************************************************)
(* A start is the last thing in its list, so nothing is owed behind it.    *)
(***************************************************************************)
LEMMA StartOwesNothing ==
  ASSUME TypeOK, Inductive, NEW c \in Client, Due(c, "start")
  PROVE  \A r \in Run : ~Spawns(c, r)
<1>1. /\ c \in Actor /\ ~Idle(c) /\ Step(c)[1] = "start"
      /\ todo[c][1] = Step(c) /\ Len(todo[c]) \in Nat \ {0}
  BY Actors, FirstAndRest DEF Due, TypeOK
<1>2. 1 \in 1 .. Len(todo[c]) /\ todo[c][1][1] = "start"
  BY <1>1
<1>3. Len(todo[c]) = 1
  BY <1>1, <1>2 DEF Inductive, SpawnsAreOwed, StartComesLast
<1>4. ASSUME NEW r \in Run, Spawns(c, r) PROVE FALSE
  <2>1. todo[c][1] = <<"spawn", r>>
    BY <1>3, <1>4 DEF Spawns
  <2>2. <<"spawn", r>>[1] = "spawn"
    OBVIOUS
  <2>3. QED
    BY <1>2, <2>1, <2>2
<1>5. QED
  BY <1>4

(***************************************************************************)
(* Runs and the main goroutine have lists of their own.                    *)
(***************************************************************************)
LEMMA OthersOweNoLess ==
  ASSUME NEW a \in Run \union {Main}, \A b \in Actor : b # a => todo'[b] = todo[b]
  PROVE  OwesNoLess
<1>1. a \notin Client
  BY ManagerAssumption DEF Run, Main
<1>2. QED
  BY <1>1, Actors DEF OwesNoLess, Spawns

(***************************************************************************)
(* The critical sections of Pause and Cancel leave every run in its place. *)
(***************************************************************************)
LEMMA MarkedInPlace ==
  ASSUME TypeOK, NEW a \in Actor, NEW j \in Job, MarkPaused(a, j) \/ MarkCancelled(a, j)
  PROVE  NoneStarts /\ \E steps : Plan(a, steps)
<1>1. \E steps : Plan(a, steps)
  BY DEF MarkPaused, MarkCancelled
<1>2. CASE UNCHANGED runs
  BY <1>1, <1>2 DEF NoneStarts
<1>3. CASE running[j] # NoRun
  <2>1. running[j] \in Run /\ runs \in [Run -> Record]
    BY <1>3 DEF TypeOK
  <2>2. \/ runs' = [runs EXCEPT ![running[j]].pause = TRUE]
        \/ runs' = [runs EXCEPT ![running[j]].cancel = TRUE]
    BY <1>3 DEF MarkPaused, MarkCancelled
  <2>3. QED
    BY <1>1, <2>1, <2>2, FlagsMoveNothing DEF NoneStarts
<1>4. QED
  BY <1>2, <1>3 DEF MarkPaused, MarkCancelled

LEMMA OwedApi ==
  ASSUME TypeOK, StartedIsOwed, NEW c \in Client, Api(c)
  PROVE  StartedIsOwed'
<1>1. PICK j \in Job : Create(c, j) \/ Resume(c, j) \/ Pause(c, j) \/ Cancel(c, j) \/ Delete(c, j)
  BY DEF Api
<1>2. c \in Actor /\ Idle(c)
  BY <1>1, Actors DEF Create, Resume, Pause, Cancel, Delete, Call
<1>3. NoneStarts /\ \E steps : Plan(c, steps)
  <2>1. CASE Create(c, j) \/ Resume(c, j)
    BY <2>1 DEF Create, Resume, memory, NoneStarts
  <2>2. CASE Pause(c, j) \/ Cancel(c, j)
    BY <1>2, <2>2, MarkedInPlace DEF Pause, Cancel
  <2>3. CASE Delete(c, j)
    <3>1. \E steps : Plan(c, steps)
      BY <2>3 DEF Delete
    <3>2. CASE running[j] = NoRun
      BY <2>3, <3>1, <3>2 DEF Delete, NoneStarts
    <3>3. CASE running[j] # NoRun
      <4>1. running[j] \in Run /\ runs \in [Run -> Record]
        BY <3>3 DEF TypeOK
      <4>2. runs' = [runs EXCEPT ![running[j]].cancel = TRUE, ![running[j]].stop = TRUE]
        BY <2>3, <3>3 DEF Delete
      <4>3. QED
        BY <3>1, <4>1, <4>2, FlagsMoveNothing DEF NoneStarts
    <3>4. QED
      BY <3>2, <3>3
  <2>4. QED
    BY <1>1, <2>1, <2>2, <2>3
<1>4. OwesNoLess
  BY <1>2, <1>3, IdleOwesNothing, PlanOwesNoLess DEF TypeOK
<1>5. QED
  BY <1>3, <1>4, StillOwed

LEMMA OwedStart ==
  ASSUME TypeOK, Inductive, StartedIsOwed, NEW c \in Client, Start(c)
  PROVE  StartedIsOwed'
<1> DEFINE j == Step(c)[2]
<1>1. c \in Actor /\ todo \in [Actor -> Seq(Steps)] /\ runs \in [Run -> Record]
  BY Actors DEF TypeOK
<1>2. \A r \in Run : ~Spawns(c, r)
  BY StartOwesNothing DEF Start
<1>3. CASE ~Startable(j)
  <2>1. UNCHANGED runs /\ Plan(c, <<>>)
    BY <1>3 DEF Start, memory
  <2>2. QED
    BY <1>1, <1>2, <2>1, PlanOwesNoLess, StillOwed DEF NoneStarts
<1>4. CASE Startable(j)
  <2>1. PICK r \in Run :
          /\ runs' = [runs EXCEPT ![r] = [NewRun EXCEPT !.job = j, !.at = "started"]]
          /\ Plan(c, <<Event(j, "running"), Save, <<"spawn", r>> >>)
    BY <1>4 DEF Start
  <2>2. OwesNoLess
    BY <1>1, <1>2, <2>1, PlanOwesNoLess
  <2>3. ASSUME NEW q \in Run, runs'[q].at = "started" PROVE \E d \in Client : Spawns(d, q)'
    <3>1. CASE q = r
      <4>1. todo'[c] = <<Event(j, "running"), Save, <<"spawn", r>> >>
        BY <1>1, <2>1 DEF Plan
      <4>2. 3 \in 1 .. Len(todo'[c]) /\ todo'[c][3] = <<"spawn", r>>
        BY <4>1
      <4>3. Spawns(c, q)'
        BY <3>1, <4>2 DEF Spawns
      <4>4. QED
        BY <4>3
    <3>2. CASE q # r
      <4>1. runs[q].at = "started"
        BY <2>1, <2>3, <3>2
      <4>2. PICK d \in Client : Spawns(d, q)
        BY <4>1 DEF StartedIsOwed
      <4>3. QED
        BY <2>2, <4>2 DEF OwesNoLess
    <3>3. QED
      BY <3>1, <3>2
  <2>4. QED
    BY <2>3 DEF StartedIsOwed
<1>5. QED
  BY <1>3, <1>4

(***************************************************************************)
(* The handler that starts the goroutine owes no other one, and one that   *)
(* panics takes with it only the run it has lost.                          *)
(***************************************************************************)
LEMMA OwedSpawn ==
  ASSUME TypeOK, Inductive, StartedIsOwed, NEW c \in Client, Spawn(c)
  PROVE  StartedIsOwed'
<1>1. c \in Actor /\ runs \in [Run -> Record] /\ todo \in [Actor -> Seq(Steps)]
  BY Actors DEF TypeOK
<1>2. PICK r \in Run : Step(c) = <<"spawn", r>> /\ runs' = [runs EXCEPT ![r].at = "spawned"]
  <2>1. Step(c) \in Steps /\ Step(c)[1] = "spawn"
    BY <1>1, DoneTyped DEF Spawn
  <2>2. QED
    BY <2>1, SpawnStep DEF Spawn
<1>3. runs'[r].at = "spawned" /\ \A q \in Run : q # r => runs'[q] = runs[q]
  BY <1>1, <1>2 DEF Record
<1>4. todo[c][1] = <<"spawn", r>> /\ Len(todo[c]) \in Nat \ {0}
  BY <1>1, <1>2, FirstAndRest DEF Spawn, Does, Due
<1>5. Len(todo[c]) = 1
  <2>1. 1 \in 1 .. Len(todo[c]) /\ todo[c][1][1] = "spawn"
    BY <1>4
  <2>2. QED
    BY <1>1, <2>1 DEF Inductive, SpawnsAreOwed, StartComesLast
<1>6. ASSUME NEW q \in Run, runs'[q].at = "started" PROVE \E d \in Client : Spawns(d, q)'
  <2>1. q # r /\ runs[q].at = "started"
    BY <1>3, <1>6
  <2>2. PICK d \in Client : Spawns(d, q)
    BY <2>1 DEF StartedIsOwed
  <2>3. d # c
    <3>1. ASSUME Spawns(c, q) PROVE FALSE
      <4>1. todo[c][1] = <<"spawn", q>>
        BY <1>5, <3>1 DEF Spawns
      <4>2. <<"spawn", q>>[2] = q /\ <<"spawn", r>>[2] = r
        OBVIOUS
      <4>3. QED
        BY <1>4, <2>1, <4>1, <4>2
    <3>2. QED
      BY <2>2, <3>1
  <2>4. todo'[d] = todo[d]
    BY <1>1, <2>3, Actors DEF Spawn, Does
  <2>5. Spawns(d, q)'
    BY <2>2, <2>4 DEF Spawns
  <2>6. QED
    BY <2>5
<1>7. QED
  BY <1>6 DEF StartedIsOwed

LEMMA OwedPanic ==
  ASSUME TypeOK, StartedIsOwed, NEW c \in Client, HandlerPanics(c)
  PROVE  StartedIsOwed'
<1>1. runs \in [Run -> Record]
  BY DEF TypeOK
<1>2. ASSUME NEW q \in Run, runs'[q].at = "started" PROVE \E d \in Client : Spawns(d, q)'
  <2>1. ~Spawns(c, q) /\ runs[q].at = "started"
    BY <1>1, <1>2, LostOnes
  <2>2. PICK d \in Client : Spawns(d, q)
    BY <2>1 DEF StartedIsOwed
  <2>3. todo'[d] = todo[d]
    BY <2>1, <2>2, Actors DEF HandlerPanics, Plan, TypeOK
  <2>4. Spawns(d, q)'
    BY <2>2, <2>3 DEF Spawns
  <2>5. QED
    BY <2>4
<1>3. QED
  BY <1>2 DEF StartedIsOwed

LEMMA OwedHandler ==
  ASSUME TypeOK, Inductive, StartedIsOwed, NEW c \in Client, Handler(c)
  PROVE  StartedIsOwed'
<1>1. CASE Announce(c) \/ RemoveFiles(c)
  <2>1. OwesNoLess
    BY <1>1, Actors, DoneOwesNoLess DEF Announce, RemoveFiles, TypeOK
  <2>2. NoneStarts
    BY <1>1 DEF Announce, RemoveFiles, memory, NoneStarts
  <2>3. QED
    BY <2>1, <2>2, StillOwed
<1>2. QED
  BY <1>1, OwedStart, OwedSpawn DEF Handler

(***************************************************************************)
(* What any actor does after its critical section.                         *)
(***************************************************************************)
LEMMA OwedEffects ==
  ASSUME TypeOK, StartedIsOwed, NEW a \in Actor, Effects(a)
  PROVE  StartedIsOwed'
<1> USE DEF TypeOK
<1>1. OwesNoLess
  BY DoneOwesNoLess, CopyOwesNoLess DEF Effects, StopRun, Publish, WriteState, WriteFails
<1>2. NoneStarts
  <2>1. CASE StopRun(a)
    <3>1. Step(a)[2] \in Run
      BY <2>1, DoneTyped, StepParts DEF StopRun
    <3>2. runs' = [runs EXCEPT ![Step(a)[2]].stop = TRUE]
      BY <2>1 DEF StopRun, Stopped
    <3>3. QED
      BY <3>1, <3>2, FlagsMoveNothing DEF NoneStarts
  <2>2. CASE UNCHANGED runs
    BY <2>2 DEF NoneStarts
  <2>3. QED
    BY <2>1, <2>2 DEF Effects, Publish, CopyState, WriteState, WriteFails, memory
<1>3. QED
  BY <1>1, <1>2, StillOwed

(***************************************************************************)
(* A run and its engine; main, the end of the process and its restart.     *)
(***************************************************************************)
LEMMA OwedRun ==
  ASSUME TypeOK, StartedIsOwed, NEW r \in Run, Engine(r) \/ RunStep(r)
  PROVE  StartedIsOwed'
<1> USE DEF TypeOK
<1>1. \A b \in Actor : b # r => todo'[b] = todo[b]
  BY DEF Engine, RunStep, EngineWrites, Progress, EngineFinishes, EngineHangs, BeginRun,
         EngineReturns, Settle, Reports, Plan
<1>2. NoneStarts
  <2>1. \A q \in Run : q # r => runs'[q] = runs[q]
    BY DEF Engine, RunStep, EngineWrites, Progress, EngineFinishes, EngineHangs, BeginRun,
           EngineReturns, Settle, memory
  <2>2. runs'[r].at = "started" => runs[r].at = "started"
    <3> DEFINE Others == {[runs[r] EXCEPT !.at = "engine"], [runs[r] EXCEPT !.at = "stuck"],
                          [runs[r] EXCEPT !.at = "draining"],
                          [runs[r] EXCEPT !.at = "draining", !.ok = TRUE],
                          [runs[r] EXCEPT !.at = "returned"], OverRun}
    <3>1. \A x \in Record : /\ [x EXCEPT !.at = "engine"].at = "engine"
                            /\ [x EXCEPT !.at = "stuck"].at = "stuck"
                            /\ [x EXCEPT !.at = "draining"].at = "draining"
                            /\ [x EXCEPT !.at = "draining", !.ok = TRUE].at = "draining"
                            /\ [x EXCEPT !.at = "returned"].at = "returned"
      BY DEF Record
    <3>2. OverRun.at = "over"
      BY DEF OverRun, NewRun
    <3>3. \/ UNCHANGED runs
          \/ \E x \in Others : runs' = [runs EXCEPT ![r] = x]
      BY DEF Engine, RunStep, EngineWrites, Progress, EngineFinishes, EngineHangs, BeginRun,
             EngineReturns, Settle, memory
    <3>4. ASSUME NEW x \in Others PROVE x.at # "started"
      <4>1. runs[r] \in Record
        OBVIOUS
      <4>2. QED
        BY <3>1, <3>2, <4>1
    <3> HIDE DEF Others
    <3>5. CASE UNCHANGED runs
      BY <3>5
    <3>6. ASSUME NEW x \in Others, runs' = [runs EXCEPT ![r] = x] PROVE runs'[r].at # "started"
      <4>1. runs'[r] = x
        BY <3>6
      <4>2. QED
        BY <3>4, <4>1
    <3>7. QED
      BY <3>3, <3>5, <3>6
  <2>3. QED
    BY <2>1, <2>2 DEF NoneStarts
<1>3. QED
  BY <1>1, <1>2, OthersOweNoLess, StillOwed

LEMMA OwedDown ==
  ASSUME Down
  PROVE  StartedIsOwed'
<1>1. OverRun.at = "over"
  BY DEF OverRun, NewRun
<1>2. \A r \in Run : runs'[r].at \in {"unused", "over"}
  BY <1>1 DEF Down
<1>3. QED
  BY <1>2 DEF StartedIsOwed

LEMMA OwedMain ==
  ASSUME TypeOK, StartedIsOwed, MainStep \/ Terminate \/ Restart
  PROVE  StartedIsOwed'
<1> USE DEF TypeOK
<1>1. CASE Exit \/ LoadFails
  BY <1>1, OwedDown DEF Exit, LoadFails
<1>2. CASE PauseNext
  <2>1. PICK j \in Job : \/ MarkPaused(Main, j) \/ MarkCancelled(Main, j)
                         \/ UNCHANGED <<memory, todo>>
    BY <1>2 DEF PauseNext
  <2>2. NoneStarts /\ \A b \in Actor : b # Main => todo'[b] = todo[b]
    BY <2>1, Actors, MarkedInPlace DEF memory, NoneStarts, Plan
  <2>3. QED
    BY <2>2, OthersOweNoLess, StillOwed
<1>3. CASE ListRunning \/ AllPaused \/ Close \/ Waited \/ Serve \/ Restart
  <2>1. UNCHANGED runs /\ \A b \in Actor : b # Main => todo'[b] = todo[b]
    BY <1>3 DEF ListRunning, AllPaused, Close, Waited, Serve, Restart, Does, Plan, memory
  <2>2. QED
    BY <2>1, OthersOweNoLess, StillOwed DEF NoneStarts
<1>4. CASE Terminate
  <2>1. PICK signalled \in SUBSET {r \in Run : InEngine(r)} :
          runs' = [r \in Run |-> IF r \in signalled THEN [runs[r] EXCEPT !.stop = TRUE] ELSE runs[r]]
    BY <1>4 DEF Terminate
  <2>2. \A x \in Record : [x EXCEPT !.stop = TRUE].at = x.at
    BY DEF Record
  <2>3. NoneStarts
    BY <2>1, <2>2 DEF NoneStarts
  <2>4. \A b \in Actor : b # Main => todo'[b] = todo[b]
    BY <1>4 DEF Terminate, Plan
  <2>5. QED
    BY <2>3, <2>4, OthersOweNoLess, StillOwed
<1>5. QED
  BY <1>1, <1>2, <1>3, <1>4 DEF MainStep

(***************************************************************************)
(* In every reachable state, a run without a goroutine is about to get one *)
(* from a handler, was lost with one that panicked, or is over.            *)
(***************************************************************************)
THEOREM StartsAreOwed == Spec => []StartedIsOwed
<1>1. Init => StartedIsOwed
  BY DEF Init, NewRun, StartedIsOwed
<1>2. ASSUME TypeOK, Inductive, StartedIsOwed, [Next]_vars PROVE StartedIsOwed'
  <2>1. CASE Next
    BY <1>2, <2>1, OwedApi, OwedHandler, OwedPanic, OwedEffects, OwedRun, OwedMain, OwedDown
       DEF Next, Kill
  <2>2. CASE UNCHANGED vars
    BY <1>2, <2>2 DEF vars, memory, StartedIsOwed, Spawns
  <2>3. QED
    BY <1>2, <2>1, <2>2
<1>3. QED
  BY TypeCorrect, InductiveHolds, <1>1, <1>2, PTL DEF Spec

(***************************************************************************)
(* A job that shows as running has a run with a goroutine, or one that a   *)
(* handler is about to start, or one that was lost when the event of its   *)
(* start panicked.                                                         *)
(***************************************************************************)
THEOREM RunningJobsAreReal == Spec => []RunningIsReal
<1>1. TypeOK /\ Inductive /\ StartedIsOwed => RunningIsReal
  <2>1. SUFFICES ASSUME TypeOK, Inductive, StartedIsOwed, agent # "down",
                        NEW j \in Job, jobs[j] = "running"
                 PROVE  \E r \in Run : /\ running[j] = r
                                       /\ HasGoroutine(r) \/ AboutToStart(r) \/ Lost(r)
    BY DEF RunningIsReal
  <2>2. running[j] \in Run /\ Live(running[j])
    BY <2>1 DEF TypeOK, Inductive, RunningHasRun, SlotsMatchRuns
  <2>3. ASSUME NEW r \in Run, Live(r) PROVE HasGoroutine(r) \/ AboutToStart(r) \/ Lost(r)
    <3>1. runs[r].at \in Place
      BY <2>1 DEF TypeOK, Record
    <3>2. QED
      BY <2>1, <2>3, <3>1 DEF Place, Live, HasGoroutine, AboutToStart, Lost, StartedIsOwed
  <2>4. QED
    BY <2>2, <2>3
<1>2. QED
  BY TypeCorrect, InductiveHolds, StartsAreOwed, <1>1, PTL
-----------------------------------------------------------------------------
(***************************************************************************)
(* A job that shows as completed keeps its file: the proof, for every      *)
(* number of jobs, handlers, calls and restarts, that no step but a        *)
(* restart makes a completed job one without its whole file.               *)
(***************************************************************************)

(***************************************************************************)
(* What it rests on.  A run that ended well has left the whole file, and   *)
(* nobody has written to it since; a completed job has no run; and files   *)
(* are removed of deleted jobs only.                                       *)
(***************************************************************************)
WholeWhenOk ==
  \A r \in Run : runs[r].ok =>
    /\ runs[r].at \in {"draining", "returned"}
    /\ Exists(jobs, runs[r].job) => files[runs[r].job] = "whole"

CompletedRests == \A j \in Job : jobs[j] = "completed" => running[j] = NoRun

Removes(a, j) == \E i \in 1 .. Len(todo[a]) : todo[a][i] = <<"remove", j>>

RemovesDeleted == \A a \in Actor, j \in Job : Removes(a, j) => jobs[j] = "deleted"

Honest == WholeWhenOk /\ CompletedRests /\ RemovesDeleted

\* What every step but a restart does.
Kept == Honest' /\ (CompletedIsWhole => CompletedIsWhole')
-----------------------------------------------------------------------------
(***************************************************************************)
(* Doing a step, or planning steps that remove no files, leaves no files   *)
(* to remove that were not to be removed before.                           *)
(***************************************************************************)
RemovesNoMore == \A a \in Actor, j \in Job : Removes(a, j)' => Removes(a, j)

RemovesNothing(steps) == \A i \in 1 .. Len(steps) : steps[i][1] # "remove"

LEMMA PlanKeeps ==
  ASSUME todo \in [Actor -> Seq(Steps)], NEW a \in Actor, NEW steps \in Seq(Steps),
         Plan(a, steps), RemovesNothing(steps)
  PROVE  RemovesNoMore
<1>1. /\ todo'[a] = steps
      /\ \A b \in Actor : b # a => todo'[b] = todo[b]
  BY DEF Plan
<1>2. ASSUME NEW b \in Actor, NEW j \in Job, Removes(b, j)' PROVE Removes(b, j)
  <2>1. b # a
    BY <1>1, <1>2 DEF Removes, RemovesNothing
  <2>2. QED
    BY <1>1, <1>2, <2>1 DEF Removes
<1>3. QED
  BY <1>2 DEF RemovesNoMore

LEMMA DoneKeeps ==
  ASSUME todo \in [Actor -> Seq(Steps)], NEW a \in Actor, NEW kind, Does(a, kind)
  PROVE  RemovesNoMore
<1>1. /\ todo'[a] = Tail(todo[a])
      /\ \A b \in Actor : b # a => todo'[b] = todo[b]
  BY DEF Does
<1>2. /\ Len(todo[a]) \in Nat \ {0}
      /\ Len(todo'[a]) = Len(todo[a]) - 1
      /\ \A i \in 1 .. Len(todo'[a]) : todo'[a][i] = todo[a][i + 1]
  BY <1>1, FirstAndRest DEF Does, Due
<1>3. ASSUME NEW b \in Actor, NEW j \in Job, Removes(b, j)' PROVE Removes(b, j)
  <2>1. CASE b = a
    <3>1. PICK i \in 1 .. Len(todo'[a]) : todo'[a][i] = <<"remove", j>>
      BY <1>3, <2>1 DEF Removes
    <3>2. i + 1 \in 1 .. Len(todo[a]) /\ todo[a][i + 1] = <<"remove", j>>
      BY <1>2, <3>1
    <3>3. QED
      BY <2>1, <3>2 DEF Removes
  <2>2. CASE b # a
    BY <1>1, <1>3, <2>2 DEF Removes
  <2>3. QED
    BY <2>1, <2>2
<1>4. QED
  BY <1>3 DEF RemovesNoMore

LEMMA CopyKeeps ==
  ASSUME todo \in [Actor -> Seq(Steps)], NEW a \in Actor, CopyState(a)
  PROVE  RemovesNoMore
<1>1. todo[a] \in Seq(Steps) /\ 1 \in 1 .. Len(todo[a]) /\ <<"write", jobs>>[1] = "write"
  BY EmptySeq DEF CopyState, Due, Idle
<1>2. /\ Len(todo'[a]) = Len(todo[a])
      /\ todo'[a][1] = <<"write", jobs>>
      /\ \A i \in 1 .. Len(todo[a]) : i # 1 => todo'[a][i] = todo[a][i]
      /\ \A b \in Actor : b # a => todo'[b] = todo[b]
  BY <1>1 DEF CopyState
<1>3. ASSUME NEW b \in Actor, NEW j \in Job, Removes(b, j)' PROVE Removes(b, j)
  <2>1. CASE b = a
    <3>1. PICK i \in 1 .. Len(todo'[a]) : todo'[a][i] = <<"remove", j>>
      BY <1>3, <2>1 DEF Removes
    <3>2. i # 1
      BY <1>1, <1>2, <3>1
    <3>3. QED
      BY <1>2, <2>1, <3>1, <3>2 DEF Removes
  <2>2. CASE b # a
    BY <1>2, <1>3, <2>2 DEF Removes
  <2>3. QED
    BY <2>1, <2>2
<1>4. QED
  BY <1>3 DEF RemovesNoMore

LEMMA IdleKeeps ==
  ASSUME UNCHANGED todo \/ \A a \in Actor : todo'[a] = <<>>
  PROVE  RemovesNoMore
BY DEF RemovesNoMore, Removes

(***************************************************************************)
(* A step that writes no file, lets no run end well and completes no job   *)
(* keeps everything.                                                       *)
(***************************************************************************)
LEMMA QuietStep ==
  ASSUME TypeOK, TypeOK', Honest, files' = files, RemovesNoMore,
         \A r \in Run : runs'[r].ok => /\ runs[r].ok /\ runs'[r].job = runs[r].job
                                       /\ runs'[r].at \in {"draining", "returned"},
         \A j \in Job : /\ Exists(jobs', j) => Exists(jobs, j)
                        /\ jobs[j] = "deleted" => jobs'[j] = "deleted"
                        /\ jobs'[j] = "completed" => jobs[j] = "completed",
         \A j \in Job : jobs'[j] = "completed" => running'[j] = running[j] \/ running'[j] = NoRun
  PROVE  Kept
<1>1. WholeWhenOk'
  <2>1. ASSUME NEW r \in Run, runs'[r].ok, Exists(jobs', runs'[r].job)
        PROVE  files'[runs'[r].job] = "whole"
    <3>1. runs[r].ok /\ runs'[r].job = runs[r].job /\ runs[r].job \in Job
      BY <2>1 DEF TypeOK, Record
    <3>2. QED
      BY <2>1, <3>1 DEF Honest, WholeWhenOk
  <2>2. QED
    BY <2>1 DEF WholeWhenOk, Exists
<1>2. CompletedRests'
  BY DEF Honest, CompletedRests
<1>3. RemovesDeleted'
  BY DEF Honest, RemovesDeleted, RemovesNoMore
<1>4. CompletedIsWhole => CompletedIsWhole'
  BY DEF CompletedIsWhole
<1>5. QED
  BY <1>1, <1>2, <1>3, <1>4 DEF Kept, Honest

(***************************************************************************)
(* The same of a step that changes neither jobs nor runs.                  *)
(***************************************************************************)
LEMMA IdleStep ==
  ASSUME TypeOK, TypeOK', Honest, UNCHANGED <<jobs, running, runs, files>>, RemovesNoMore
  PROVE  Kept
<1>1. \A r \in Run : runs'[r].ok => /\ runs[r].ok /\ runs'[r].job = runs[r].job
                                    /\ runs'[r].at \in {"draining", "returned"}
  BY DEF Honest, WholeWhenOk
<1>2. QED
  BY <1>1, QuietStep DEF Exists

-----------------------------------------------------------------------------
(***************************************************************************)
(* Setting a flag of a run does not make it end well.                      *)
(***************************************************************************)
LEMMA FlagsKeepOk ==
  ASSUME runs \in [Run -> Record], NEW q \in Run,
         \/ runs' = [runs EXCEPT ![q].pause = TRUE]
         \/ runs' = [runs EXCEPT ![q].cancel = TRUE]
         \/ runs' = [runs EXCEPT ![q].stop = TRUE]
         \/ runs' = [runs EXCEPT ![q].cancel = TRUE, ![q].stop = TRUE]
  PROVE  \A r \in Run : runs'[r].ok = runs[r].ok
<1>1. \A x \in Record : /\ [x EXCEPT !.pause = TRUE].ok = x.ok
                       /\ [x EXCEPT !.cancel = TRUE].ok = x.ok
                       /\ [x EXCEPT !.stop = TRUE].ok = x.ok
                       /\ [x EXCEPT !.cancel = TRUE, !.stop = TRUE].ok = x.ok
  BY DEF Record
<1>2. \/ runs' = [runs EXCEPT ![q] = [runs[q] EXCEPT !.pause = TRUE]]
      \/ runs' = [runs EXCEPT ![q] = [runs[q] EXCEPT !.cancel = TRUE]]
      \/ runs' = [runs EXCEPT ![q] = [runs[q] EXCEPT !.stop = TRUE]]
      \/ runs' = [runs EXCEPT ![q] = [runs[q] EXCEPT !.cancel = TRUE, !.stop = TRUE]]
  BY DEF Record
<1>3. runs[q] \in Record
  OBVIOUS
<1>4. QED
  BY <1>1, <1>2, <1>3

(***************************************************************************)
(* What QuietStep asks of the runs, when flags are all that changes.       *)
(***************************************************************************)
LEMMA FlaggedQuietly ==
  ASSUME Honest,
         \A r \in Run : runs'[r].at = runs[r].at /\ runs'[r].job = runs[r].job,
         \A r \in Run : runs'[r].ok = runs[r].ok
  PROVE  \A r \in Run : runs'[r].ok => /\ runs[r].ok /\ runs'[r].job = runs[r].job
                                       /\ runs'[r].at \in {"draining", "returned"}
BY DEF Honest, WholeWhenOk

(***************************************************************************)
(* The critical sections of Pause and Cancel.                              *)
(***************************************************************************)
LEMMA MarkedQuietly ==
  ASSUME TypeOK, TypeOK', Honest, NEW a \in Actor, NEW j \in Job,
         MarkPaused(a, j) \/ MarkCancelled(a, j), files' = files
  PROVE  Kept
<1> USE DEF TypeOK
<1>1. RemovesNoMore
  <2>1. /\ RemovesNothing(Report(j, "cancelled"))
        /\ RemovesNothing(<< <<"stop", running[j]>>, Event(j, "cancelled"), Save>>)
        /\ RemovesNothing(<< <<"stop", running[j]>>, Event(j, "paused"), Save>>)
    BY DEF RemovesNothing, Report, Event, Save
  <2>2. "paused" \in Status /\ "cancelled" \in Status
    BY DEF Status
  <2>3. running[j] # NoRun => running[j] \in Run
    OBVIOUS
  <2>4. /\ Report(j, "cancelled") \in Seq(Steps)
        /\ running[j] # NoRun =>
             /\ << <<"stop", running[j]>>, Event(j, "cancelled"), Save>> \in Seq(Steps)
             /\ << <<"stop", running[j]>>, Event(j, "paused"), Save>> \in Seq(Steps)
    BY <2>2, <2>3, StepsToDo, ListsOfSteps DEF Report
  <2>5. QED
    BY <2>1, <2>4, PlanKeeps DEF MarkPaused, MarkCancelled
<1>2. /\ running' = running /\ Exists(jobs, j)
      /\ jobs' = [jobs EXCEPT ![j] = "paused"] \/ jobs' = [jobs EXCEPT ![j] = "cancelled"]
  BY DEF MarkPaused, MarkCancelled
<1>3. \A r \in Run : runs'[r].at = runs[r].at /\ runs'[r].job = runs[r].job /\ runs'[r].ok = runs[r].ok
  <2>1. CASE UNCHANGED runs
    BY <2>1
  <2>2. CASE running[j] # NoRun
    <3>1. running[j] \in Run
      BY <2>2
    <3>2. \/ runs' = [runs EXCEPT ![running[j]].pause = TRUE]
          \/ runs' = [runs EXCEPT ![running[j]].cancel = TRUE]
      BY <2>2 DEF MarkPaused, MarkCancelled
    <3>3. QED
      BY <3>1, <3>2, FlagsMoveNothing, FlagsKeepOk
  <2>3. QED
    BY <2>1, <2>2 DEF MarkPaused, MarkCancelled
<1>4. \A r \in Run : runs'[r].ok => /\ runs[r].ok /\ runs'[r].job = runs[r].job
                                    /\ runs'[r].at \in {"draining", "returned"}
  BY <1>3, FlaggedQuietly
<1>5. \A k \in Job : /\ Exists(jobs', k) => Exists(jobs, k)
                     /\ jobs[k] = "deleted" => jobs'[k] = "deleted"
                     /\ jobs'[k] = "completed" => jobs[k] = "completed"
  BY <1>2 DEF Exists
<1>6. QED
  BY <1>1, <1>2, <1>4, <1>5, QuietStep

(***************************************************************************)
(* The API calls.  A job that is created has no run yet, and one that is   *)
(* deleted is the only one whose files will be removed.                    *)
(***************************************************************************)
LEMMA KeptByCreate ==
  ASSUME TypeOK, TypeOK', Inductive, Honest, NEW c \in Client, NEW j \in Job, Create(c, j)
  PROVE  Kept
<1> USE DEF TypeOK
<1>1. /\ jobs[j] = "unborn" /\ jobs' = [jobs EXCEPT ![j] = "queued"] /\ c \in Actor
      /\ UNCHANGED <<running, runs, files>>
      /\ Plan(c, << <<"announce", j>>, Save, <<"start", j>> >>)
  BY Actors DEF Create, Call
<1>2. RemovesNoMore
  <2>1. RemovesNothing(<< <<"announce", j>>, Save, <<"start", j>> >>)
    BY DEF RemovesNothing, Save
  <2>2. << <<"announce", j>>, Save, <<"start", j>> >> \in Seq(Steps)
    BY StepsToDo, ListsOfSteps
  <2>3. QED
    BY <1>1, <2>1, <2>2, PlanKeeps
<1>3. WholeWhenOk'
  <2>1. ASSUME NEW r \in Run, runs[r].ok
        PROVE  /\ runs[r].at \in {"draining", "returned"}
               /\ Exists(jobs', runs[r].job) => files[runs[r].job] = "whole"
    <3>1. runs[r].at \in {"draining", "returned"} /\ runs[r].job \in Job
      BY <2>1 DEF Honest, WholeWhenOk, Record
    <3>2. runs[r].job # j
      BY <1>1, <3>1 DEF Inductive, RunsHaveJobs, Live
    <3>3. QED
      BY <1>1, <2>1, <3>1, <3>2 DEF Honest, WholeWhenOk, Exists
  <2>2. QED
    BY <1>1, <2>1 DEF WholeWhenOk, Exists
<1>4. CompletedRests' /\ RemovesDeleted'
  BY <1>1, <1>2 DEF Honest, CompletedRests, RemovesDeleted, RemovesNoMore
<1>5. CompletedIsWhole => CompletedIsWhole'
  BY <1>1 DEF CompletedIsWhole
<1>6. QED
  BY <1>3, <1>4, <1>5 DEF Kept, Honest

LEMMA KeptByDelete ==
  ASSUME TypeOK, TypeOK', Honest, NEW c \in Client, NEW j \in Job, Delete(c, j)
  PROVE  Kept
<1> USE DEF TypeOK
<1>1. /\ Exists(jobs, j) /\ jobs' = [jobs EXCEPT ![j] = "deleted"] /\ c \in Actor
      /\ running' = [running EXCEPT ![j] = NoRun] /\ files' = files
      /\ \/ Plan(c, Report(j, "deleted"))
         \/ Plan(c, << <<"remove", j>>, Event(j, "deleted"), Save>>)
  BY Actors DEF Delete, Call
<1>2. \A r \in Run : runs'[r].at = runs[r].at /\ runs'[r].job = runs[r].job /\ runs'[r].ok = runs[r].ok
  <2>1. CASE running[j] = NoRun
    BY <2>1 DEF Delete
  <2>2. CASE running[j] # NoRun
    <3>1. running[j] \in Run
      BY <2>2
    <3>2. runs' = [runs EXCEPT ![running[j]].cancel = TRUE, ![running[j]].stop = TRUE]
      BY <2>2 DEF Delete
    <3>3. QED
      BY <3>1, <3>2, FlagsMoveNothing, FlagsKeepOk
  <2>3. QED
    BY <2>1, <2>2
<1>3. WholeWhenOk'
  <2>1. ASSUME NEW r \in Run, runs[r].ok
        PROVE  /\ runs[r].at \in {"draining", "returned"}
               /\ Exists(jobs', runs[r].job) => files[runs[r].job] = "whole"
    <3>1. runs[r].job \in Job
      BY DEF Record
    <3>2. Exists(jobs', runs[r].job) => Exists(jobs, runs[r].job)
      BY <1>1, <3>1 DEF Exists
    <3>3. QED
      BY <2>1, <3>2 DEF Honest, WholeWhenOk
  <2>2. QED
    BY <1>1, <1>2, <2>1 DEF WholeWhenOk, Exists
<1>4. CompletedRests'
  BY <1>1 DEF Honest, CompletedRests
<1>5. RemovesDeleted'
  <2>1. ASSUME NEW b \in Actor, NEW k \in Job, Removes(b, k)' PROVE jobs'[k] = "deleted"
    <3>1. CASE k = j
      BY <1>1, <3>1
    <3>2. CASE k # j
      <4>1. b # c
        <5>1. SUFFICES ASSUME b = c PROVE FALSE
          OBVIOUS
        <5>2. PICK i \in 1 .. Len(todo'[c]) : todo'[c][i] = <<"remove", k>>
          BY <2>1, <5>1 DEF Removes
        <5>3. \/ todo'[c] = << <<"remove", j>>, Event(j, "deleted"), Save>>
              \/ todo'[c] = <<Event(j, "deleted"), Save>>
          BY <1>1 DEF Plan, Report
        <5>4. todo'[c][i][1] = "remove" /\ todo'[c][i][2] = k
          BY <5>2
        <5>5. \A n \in 1 .. 2 : <<Event(j, "deleted"), Save>>[n][1] # "remove"
          BY DEF Event, Save
        <5>6. /\ << <<"remove", j>>, Event(j, "deleted"), Save>>[1][2] = j
              /\ \A n \in 2 .. 3 : << <<"remove", j>>, Event(j, "deleted"), Save>>[n][1] # "remove"
          BY DEF Event, Save
        <5>7. CASE todo'[c] = <<Event(j, "deleted"), Save>>
          <6>1. Len(todo'[c]) = 2
            BY <5>7
          <6>2. QED
            BY <5>4, <5>5, <5>7, <6>1
        <5>8. CASE todo'[c] = << <<"remove", j>>, Event(j, "deleted"), Save>>
          <6>1. Len(todo'[c]) = 3
            BY <5>8
          <6>2. QED
            BY <3>2, <5>4, <5>6, <5>8, <6>1, SMTT(30)
        <5>9. QED
          BY <5>3, <5>7, <5>8
      <4>2. Removes(b, k)
        BY <1>1, <2>1, <4>1 DEF Plan, Removes
      <4>3. QED
        BY <1>1, <4>2 DEF Honest, RemovesDeleted
    <3>3. QED
      BY <3>1, <3>2
  <2>2. QED
    BY <2>1 DEF RemovesDeleted
<1>6. CompletedIsWhole => CompletedIsWhole'
  BY <1>1 DEF CompletedIsWhole
<1>7. QED
  BY <1>3, <1>4, <1>5, <1>6 DEF Kept, Honest

LEMMA KeptByApi ==
  ASSUME TypeOK, TypeOK', Inductive, Honest, NEW c \in Client, Api(c)
  PROVE  Kept
<1>1. PICK j \in Job : Create(c, j) \/ Resume(c, j) \/ Pause(c, j) \/ Cancel(c, j) \/ Delete(c, j)
  BY DEF Api
<1>2. c \in Actor
  BY Actors
<1>3. CASE Resume(c, j)
  <2>1. UNCHANGED <<jobs, running, runs, files>> /\ Plan(c, << <<"start", j>> >>)
    BY <1>3 DEF Resume, Call, memory
  <2>2. RemovesNothing(<< <<"start", j>> >>) /\ << <<"start", j>> >> \in Seq(Steps)
    BY StepsToDo, ListsOfSteps DEF RemovesNothing
  <2>3. QED
    BY <1>2, <2>1, <2>2, PlanKeeps, IdleStep DEF TypeOK
<1>4. CASE Pause(c, j) \/ Cancel(c, j)
  BY <1>2, <1>4, MarkedQuietly DEF Pause, Cancel, Call
<1>5. QED
  BY <1>1, <1>3, <1>4, KeptByCreate, KeptByDelete

(***************************************************************************)
(* What a handler does after its critical section.                         *)
(***************************************************************************)
LEMMA KeptByStart ==
  ASSUME TypeOK, TypeOK', Honest, NEW c \in Client, Start(c)
  PROVE  Kept
<1> USE DEF TypeOK
<1> DEFINE j == Step(c)[2]
<1>1. c \in Actor /\ j \in Job /\ files' = files
  BY Actors, FirstAndRest, StepParts DEF Start, Due
<1>2. CASE ~Startable(j)
  <2>1. UNCHANGED <<jobs, running, runs>> /\ Plan(c, <<>>)
    BY <1>2 DEF Start, memory
  <2>2. <<>> \in Seq(Steps) /\ RemovesNothing(<<>>)
    BY ListsOfSteps DEF RemovesNothing
  <2>3. QED
    BY <1>1, <2>1, <2>2, PlanKeeps, IdleStep
<1>3. CASE Startable(j)
  <2>1. PICK r \in Run :
          /\ running' = [running EXCEPT ![j] = r]
          /\ runs' = [runs EXCEPT ![r] = [NewRun EXCEPT !.job = j, !.at = "started"]]
          /\ Plan(c, <<Event(j, "running"), Save, <<"spawn", r>> >>)
    BY <1>3 DEF Start
  <2>2. jobs' = [jobs EXCEPT ![j] = "running"] /\ Exists(jobs, j)
    BY <1>3 DEF Start, Startable
  <2>3. RemovesNoMore
    <3>1. RemovesNothing(<<Event(j, "running"), Save, <<"spawn", r>> >>)
      BY DEF RemovesNothing, Event, Save
    <3>2. "running" \in Status
      BY DEF Status
    <3>3. <<Event(j, "running"), Save, <<"spawn", r>> >> \in Seq(Steps)
      BY <1>1, <3>2, StepsToDo, ListsOfSteps
    <3>4. QED
      BY <1>1, <2>1, <3>1, <3>3, PlanKeeps
  <2>4. \A q \in Run : runs'[q].ok => runs'[q] = runs[q]
    <3>1. ~[NewRun EXCEPT !.job = j, !.at = "started"].ok
      BY DEF NewRun
    <3>2. QED
      BY <2>1, <3>1
  <2>5. \A q \in Run : runs'[q].ok => /\ runs[q].ok /\ runs'[q].job = runs[q].job
                                      /\ runs'[q].at \in {"draining", "returned"}
    BY <2>4 DEF Honest, WholeWhenOk
  <2>6. \A k \in Job : /\ Exists(jobs', k) => Exists(jobs, k)
                       /\ jobs[k] = "deleted" => jobs'[k] = "deleted"
                       /\ jobs'[k] = "completed" => jobs[k] = "completed" /\ running'[k] = running[k]
    BY <1>1, <2>1, <2>2 DEF Exists
  <2>7. QED
    BY <1>1, <2>3, <2>5, <2>6, QuietStep
<1>4. QED
  BY <1>2, <1>3

LEMMA KeptByRemoveFiles ==
  ASSUME TypeOK, TypeOK', Honest, NEW c \in Client, RemoveFiles(c)
  PROVE  Kept
<1> USE DEF TypeOK
<1>1. c \in Actor /\ RemovesNoMore
  BY Actors, DoneKeeps DEF RemoveFiles
<1>2. PICK j \in Job : Step(c) = <<"remove", j>> /\ files' = [files EXCEPT ![j] = "none"]
  <2>1. Step(c) \in Steps /\ Step(c)[1] = "remove"
    BY <1>1, DoneTyped DEF RemoveFiles
  <2>2. Step(c) = <<"remove", Step(c)[2]>> /\ Step(c)[2] \in Job
    BY <2>1 DEF Steps
  <2>3. QED
    BY <2>2 DEF RemoveFiles
<1>3. jobs[j] = "deleted"
  <2>1. 1 \in 1 .. Len(todo[c]) /\ todo[c][1] = <<"remove", j>>
    BY <1>1, <1>2, FirstAndRest DEF RemoveFiles, Does, Due
  <2>2. Removes(c, j)
    BY <2>1 DEF Removes
  <2>3. QED
    BY <1>1, <2>2 DEF Honest, RemovesDeleted
<1>4. UNCHANGED <<jobs, running, runs>>
  BY DEF RemoveFiles, memory
<1>5. \A k \in Job : k # j => files'[k] = files[k]
  BY <1>2
<1>6. WholeWhenOk'
  <2>1. ASSUME NEW r \in Run, runs[r].ok
        PROVE  /\ runs[r].at \in {"draining", "returned"}
               /\ Exists(jobs, runs[r].job) => files'[runs[r].job] = "whole"
    <3>1. runs[r].job \in Job
      BY DEF Record
    <3>2. QED
      BY <1>3, <1>5, <2>1, <3>1 DEF Honest, WholeWhenOk, Exists
  <2>2. QED
    BY <1>4, <2>1 DEF WholeWhenOk, Exists
<1>7. CompletedRests' /\ RemovesDeleted'
  BY <1>1, <1>4 DEF Honest, CompletedRests, RemovesDeleted, RemovesNoMore
<1>8. CompletedIsWhole => CompletedIsWhole'
  BY <1>3, <1>4, <1>5 DEF CompletedIsWhole
<1>9. QED
  BY <1>6, <1>7, <1>8 DEF Kept, Honest

LEMMA KeptBySpawn ==
  ASSUME TypeOK, TypeOK', Inductive, Honest, NEW c \in Client, Spawn(c)
  PROVE  Kept
<1> USE DEF TypeOK
<1>1. c \in Actor /\ RemovesNoMore /\ UNCHANGED <<jobs, running, files>>
  BY Actors, DoneKeeps DEF Spawn
<1>2. PICK r \in Run : Step(c) = <<"spawn", r>> /\ runs' = [runs EXCEPT ![r].at = "spawned"]
  <2>1. Step(c) \in Steps /\ Step(c)[1] = "spawn"
    BY <1>1, DoneTyped DEF Spawn
  <2>2. QED
    BY <2>1, SpawnStep DEF Spawn
<1>3. ~runs[r].ok
  <2>1. 1 \in 1 .. Len(todo[c]) /\ todo[c][1] = <<"spawn", r>>
    BY <1>1, <1>2, FirstAndRest DEF Spawn, Does, Due
  <2>2. runs[r].at = "started"
    BY <1>1, <2>1 DEF Inductive, SpawnsAreOwed, Spawns
  <2>3. QED
    BY <2>2 DEF Honest, WholeWhenOk
<1>4. runs'[r].ok = runs[r].ok
  BY <1>2 DEF Record
<1>5. \A q \in Run : q # r => runs'[q] = runs[q]
  BY <1>2
<1>6. \A q \in Run : runs'[q].ok => /\ runs[q].ok /\ runs'[q].job = runs[q].job
                                    /\ runs'[q].at \in {"draining", "returned"}
  BY <1>3, <1>4, <1>5 DEF Honest, WholeWhenOk
<1>7. QED
  BY <1>1, <1>6, QuietStep DEF Exists

LEMMA KeptByHandler ==
  ASSUME TypeOK, TypeOK', Inductive, Honest, NEW c \in Client, Handler(c)
  PROVE  Kept
<1>1. CASE Announce(c)
  <2>1. c \in Actor /\ UNCHANGED <<jobs, running, runs, files>>
    BY <1>1, Actors DEF Announce, memory
  <2>2. RemovesNoMore
    BY <1>1, <2>1, DoneKeeps DEF Announce, TypeOK
  <2>3. QED
    BY <2>1, <2>2, IdleStep
<1>2. QED
  BY <1>1, KeptByStart, KeptBySpawn, KeptByRemoveFiles DEF Handler

LEMMA KeptByPanic ==
  ASSUME TypeOK, TypeOK', Inductive, Honest, NEW c \in Client, HandlerPanics(c)
  PROVE  Kept
<1> USE DEF TypeOK
<1>1. c \in Actor /\ UNCHANGED <<jobs, running, files>> /\ Plan(c, <<>>)
  BY Actors DEF HandlerPanics
<1>2. RemovesNoMore
  <2>1. <<>> \in Seq(Steps) /\ RemovesNothing(<<>>)
    BY ListsOfSteps DEF RemovesNothing
  <2>2. QED
    BY <1>1, <2>1, PlanKeeps
<1>3. ASSUME NEW r \in Run, runs'[r].ok
      PROVE  /\ runs[r].ok /\ runs'[r].job = runs[r].job
             /\ runs'[r].at \in {"draining", "returned"}
  <2>1. runs[r].ok /\ runs[r].at \in {"draining", "returned"}
    BY <1>3, LostOnes DEF Honest, WholeWhenOk
  <2>2. ~Spawns(c, r)
    BY <1>1, <2>1 DEF Inductive, SpawnsAreOwed
  <2>3. QED
    BY <2>1, <2>2, LostOnes
<1>4. QED
  BY <1>1, <1>2, <1>3, QuietStep DEF Exists

(***************************************************************************)
(* What any actor does after its critical section.                         *)
(***************************************************************************)
LEMMA KeptByEffects ==
  ASSUME TypeOK, TypeOK', Honest, NEW a \in Actor, Effects(a)
  PROVE  Kept
<1> USE DEF TypeOK
<1>1. RemovesNoMore
  BY DoneKeeps, CopyKeeps DEF Effects, StopRun, Publish, WriteState, WriteFails
<1>2. UNCHANGED <<jobs, running, files>>
  BY DEF Effects, StopRun, Publish, CopyState, WriteState, WriteFails, memory
<1>3. CASE StopRun(a)
  <2>1. Step(a)[2] \in Run
    BY <1>3, DoneTyped, StepParts DEF StopRun
  <2>2. runs' = [runs EXCEPT ![Step(a)[2]].stop = TRUE]
    BY <1>3 DEF StopRun, Stopped
  <2>3. \A r \in Run : runs'[r].ok => /\ runs[r].ok /\ runs'[r].job = runs[r].job
                                      /\ runs'[r].at \in {"draining", "returned"}
    BY <2>1, <2>2, FlagsMoveNothing, FlagsKeepOk, FlaggedQuietly
  <2>4. QED
    BY <1>1, <1>2, <2>3, QuietStep DEF Exists
<1>4. CASE UNCHANGED runs
  BY <1>1, <1>2, <1>4, IdleStep
<1>5. QED
  BY <1>3, <1>4 DEF Effects, Publish, CopyState, WriteState, WriteFails, memory

-----------------------------------------------------------------------------
(***************************************************************************)
(* A run and its engine: it writes the files of a job in its charge only,  *)
(* and the job completes when the whole file is there.                     *)
(***************************************************************************)
LEMMA ReportsKeep ==
  ASSUME TypeOK, NEW r \in Run, Reports(r)
  PROVE  RemovesNoMore
<1> USE DEF TypeOK
<1> DEFINE j == runs[r].job
<1>1. r \in Actor /\ j \in Job /\ jobs[j] \in Status
  BY Actors DEF Record
<1>2. <<Event(j, jobs[j])>> \in Seq(Steps) /\ Report(j, jobs[j]) \in Seq(Steps)
  BY <1>1, StepsToDo, ListsOfSteps DEF Report
<1>3. RemovesNothing(<<Event(j, jobs[j])>>) /\ RemovesNothing(Report(j, jobs[j]))
  BY DEF RemovesNothing, Report, Event, Save
<1>4. CASE UNCHANGED todo
  BY <1>4, IdleKeeps
<1>5. CASE Plan(r, <<Event(j, jobs[j])>>)
  BY <1>1, <1>2, <1>3, <1>5, PlanKeeps
<1>6. CASE Plan(r, Report(j, jobs[j]))
  BY <1>1, <1>2, <1>3, <1>6, PlanKeeps
<1>7. QED
  BY <1>4, <1>5, <1>6 DEF Reports

(***************************************************************************)
(* No other run has ended well for the job of a run at work, and the job   *)
(* is not completed.                                                       *)
(***************************************************************************)
LEMMA AloneAtWork ==
  ASSUME TypeOK, Inductive, Honest, NEW r \in Run, InEngine(r)
  PROVE  /\ \A q \in Run : runs[q].ok => runs[q].job # runs[r].job
         /\ jobs[runs[r].job] # "completed"
<1> USE DEF TypeOK
<1>1. Live(r) /\ runs[r].job \in Job /\ r # NoRun
  BY Actors DEF Live, InEngine, Record
<1>2. ASSUME NEW q \in Run, runs[q].ok PROVE runs[q].job # runs[r].job
  <2>1. runs[q].at \in {"draining", "returned"}
    BY <1>2 DEF Honest, WholeWhenOk
  <2>2. Live(q) /\ q # r
    BY <2>1 DEF Live, InEngine
  <2>3. QED
    BY <1>1, <2>2 DEF Inductive, OneEngine
<1>3. ASSUME jobs[runs[r].job] = "completed" PROVE FALSE
  <2>1. running[runs[r].job] = r
    BY <1>1, <1>3 DEF Inductive, SlotsMatchRuns, Exists
  <2>2. QED
    BY <1>1, <1>3, <2>1 DEF Honest, CompletedRests
<1>4. QED
  BY <1>2, <1>3

LEMMA KeptByWriting ==
  ASSUME TypeOK, TypeOK', Inductive, Honest, NEW r \in Run, EngineWrites(r) \/ EngineFinishes(r)
  PROVE  Kept
<1> USE DEF TypeOK
<1> DEFINE j == runs[r].job
<1>1. InEngine(r) /\ j \in Job /\ UNCHANGED <<jobs, running, todo>>
  BY DEF EngineWrites, EngineFinishes, InEngine, memory, Record
<1>2. PICK text \in {"partial", "whole"} : files' \in {files, [files EXCEPT ![j] = text]}
  BY DEF EngineWrites, EngineFinishes
<1>3. \A k \in Job : k # j => files'[k] = files[k]
  BY <1>2
<1>4. \A q \in Run : q # r => runs'[q] = runs[q]
  BY DEF EngineWrites, EngineFinishes, memory
<1>5. /\ \A q \in Run : runs[q].ok => runs[q].job # j
      /\ jobs[j] # "completed"
  BY <1>1, AloneAtWork
<1>6. runs'[r].ok => /\ runs'[r].at \in {"draining", "returned"}
                     /\ runs'[r].job = j /\ files'[j] = "whole"
  <2>1. ~runs[r].ok
    BY <1>5
  <2>2. CASE EngineWrites(r)
    BY <2>1, <2>2 DEF EngineWrites, memory
  <2>3. CASE runs' = [runs EXCEPT ![r].at = "draining", ![r].ok = TRUE]
             /\ files' = [files EXCEPT ![j] = "whole"]
    <3>1. /\ runs[r] \in Record /\ "draining" \in Place
          /\ runs' = [runs EXCEPT ![r] = [runs[r] EXCEPT !.at = "draining", !.ok = TRUE]]
      BY <2>3, ZenonT(40) DEF Place, Record
    <3>2. /\ [runs[r] EXCEPT !.at = "draining", !.ok = TRUE].at = "draining"
          /\ [runs[r] EXCEPT !.at = "draining", !.ok = TRUE].job = runs[r].job
      BY <3>1, PlaceChanges, ZenonT(120)
    <3>3. runs'[r] = [runs[r] EXCEPT !.at = "draining", !.ok = TRUE]
      BY <3>1
    <3>4. QED
      BY <1>1, <2>3, <3>2, <3>3
  <2>4. CASE runs' = [runs EXCEPT ![r].at = "draining"]
    BY <2>1, <2>4 DEF Record
  <2>5. QED
    BY <2>2, <2>3, <2>4 DEF EngineFinishes
<1>7. WholeWhenOk'
  <2>1. ASSUME NEW q \in Run, runs'[q].ok
        PROVE  /\ runs'[q].at \in {"draining", "returned"}
               /\ Exists(jobs', runs'[q].job) => files'[runs'[q].job] = "whole"
    <3>1. CASE q = r
      BY <1>6, <2>1, <3>1
    <3>2. CASE q # r
      <4>1. runs'[q] = runs[q] /\ runs[q].ok /\ runs[q].job \in Job /\ runs[q].job # j
        BY <1>4, <1>5, <2>1, <3>2 DEF Record
      <4>2. QED
        BY <1>1, <1>3, <4>1 DEF Honest, WholeWhenOk, Exists
    <3>3. QED
      BY <3>1, <3>2
  <2>2. QED
    BY <2>1 DEF WholeWhenOk, Exists
<1>8. CompletedRests' /\ RemovesDeleted'
  BY <1>1 DEF Honest, CompletedRests, RemovesDeleted, Removes
<1>9. CompletedIsWhole => CompletedIsWhole'
  BY <1>1, <1>3, <1>5 DEF CompletedIsWhole
<1>10. QED
  BY <1>7, <1>8, <1>9 DEF Kept, Honest

LEMMA KeptBySettle ==
  ASSUME TypeOK, TypeOK', Inductive, Honest, NEW r \in Run, Settle(r)
  PROVE  Kept
<1> USE DEF TypeOK
<1> DEFINE j == runs[r].job
<1>1. r \in Actor /\ j \in Job /\ files' = files
  BY Actors DEF Settle, Record
<1>2. /\ running' = [running EXCEPT ![j] = NoRun]
      /\ runs' = [runs EXCEPT ![r] = OverRun]
  BY DEF Settle, FreedBySettle
<1>3. Verdict(r) \in Status \ {"unborn", "deleted"} /\ (Verdict(r) = "completed" => runs[r].ok)
  BY DEF Verdict, Status
<1>4. \/ UNCHANGED <<jobs, todo>>
      \/ /\ Exists(jobs, j) /\ jobs' = [jobs EXCEPT ![j] = Verdict(r)]
         /\ Plan(r, Report(j, Verdict(r)))
  BY DEF Settle
<1>5. RemovesNoMore
  <2>1. Report(j, Verdict(r)) \in Seq(Steps)
    BY <1>1, <1>3, StepsToDo, ListsOfSteps DEF Report
  <2>2. RemovesNothing(Report(j, Verdict(r)))
    BY DEF RemovesNothing, Report, Event, Save
  <2>3. QED
    BY <1>1, <1>4, <2>1, <2>2, PlanKeeps, IdleKeeps
<1>6. \A q \in Run : runs'[q].ok => runs'[q] = runs[q]
  <2>1. ~OverRun.ok
    BY DEF OverRun, NewRun
  <2>2. QED
    BY <1>2, <2>1
<1>7. \A k \in Job : /\ Exists(jobs', k) => Exists(jobs, k)
                     /\ jobs[k] = "deleted" => jobs'[k] = "deleted"
  BY <1>3, <1>4 DEF Exists
<1>8. WholeWhenOk'
  <2>1. ASSUME NEW q \in Run, runs'[q].ok
        PROVE  /\ runs'[q].at \in {"draining", "returned"}
               /\ Exists(jobs', runs'[q].job) => files'[runs'[q].job] = "whole"
    <3>1. runs'[q] = runs[q] /\ runs[q].ok /\ runs[q].job \in Job
      BY <1>6, <2>1 DEF Record
    <3>2. QED
      BY <1>1, <1>7, <3>1 DEF Honest, WholeWhenOk
  <2>2. QED
    BY <2>1 DEF WholeWhenOk, Exists
<1>9. CompletedRests'
  <2>1. ASSUME NEW k \in Job, jobs'[k] = "completed" PROVE running'[k] = NoRun
    <3>1. k # j => running'[k] = running[k] /\ jobs'[k] = jobs[k]
      BY <1>2, <1>4
    <3>2. QED
      BY <1>1, <1>2, <2>1, <3>1 DEF Honest, CompletedRests
  <2>2. QED
    BY <2>1 DEF CompletedRests
<1>10. RemovesDeleted'
  BY <1>5, <1>7 DEF Honest, RemovesDeleted, RemovesNoMore
<1>11. ASSUME CompletedIsWhole, NEW k \in Job, jobs'[k] = "completed" PROVE files'[k] = "whole"
  <2>1. CASE jobs[k] = "completed"
    BY <1>1, <1>11, <2>1 DEF CompletedIsWhole
  <2>2. CASE jobs[k] # "completed"
    <3>1. k = j /\ Exists(jobs, j) /\ Verdict(r) = "completed"
      BY <1>4, <1>11, <2>2
    <3>2. QED
      BY <1>1, <1>3, <3>1 DEF Honest, WholeWhenOk
  <2>3. QED
    BY <2>1, <2>2
<1>12. QED
  BY <1>8, <1>9, <1>10, <1>11 DEF Kept, Honest, CompletedIsWhole

LEMMA KeptByRun ==
  ASSUME TypeOK, TypeOK', Inductive, Honest, NEW r \in Run, Engine(r) \/ RunStep(r)
  PROVE  Kept
<1> USE DEF TypeOK
<1>1. runs[r] \in Record
  OBVIOUS
<1>2. CASE BeginRun(r)
  <2>1. runs[r].at = "spawned" /\ UNCHANGED <<jobs, running, todo, files>>
    BY <1>2 DEF BeginRun
  <2>2. RemovesNoMore /\ ~runs[r].ok
    BY <2>1, IdleKeeps DEF Honest, WholeWhenOk
  <2>3. PICK x \in Record : runs' = [runs EXCEPT ![r] = x] /\ (x.ok => runs[r].ok)
    <3>1. [runs[r] EXCEPT !.at = "engine"] \in Record /\ OverRun \in Record
      BY <1>1, RecordTyped DEF Place
    <3>2. [runs[r] EXCEPT !.at = "engine"].ok = runs[r].ok /\ ~OverRun.ok
      BY <1>1 DEF Record, OverRun, NewRun
    <3>3. \/ runs' = [runs EXCEPT ![r] = [runs[r] EXCEPT !.at = "engine"]]
          \/ runs' = [runs EXCEPT ![r] = OverRun]
      BY <1>2 DEF BeginRun
    <3>4. QED
      BY <3>1, <3>2, <3>3
  <2>4. \A q \in Run : runs'[q].ok => runs'[q] = runs[q]
    BY <2>2, <2>3
  <2>5. \A q \in Run : runs'[q].ok => /\ runs[q].ok /\ runs'[q].job = runs[q].job
                                      /\ runs'[q].at \in {"draining", "returned"}
    BY <2>4 DEF Honest, WholeWhenOk
  <2>6. QED
    BY <2>1, <2>2, <2>5, QuietStep DEF Exists
<1>3. CASE Progress(r)
  <2>1. UNCHANGED <<jobs, running, runs, files>>
    BY <1>3 DEF Progress, memory
  <2>2. RemovesNoMore
    BY <1>3, ReportsKeep DEF Progress
  <2>3. QED
    BY <2>1, <2>2, IdleStep
<1>4. CASE EngineReturns(r)
  <2>1. UNCHANGED <<jobs, running, files>> /\ runs' = [runs EXCEPT ![r] = [runs[r] EXCEPT !.at = "returned"]]
    BY <1>4 DEF EngineReturns
  <2>2. RemovesNoMore
    BY <1>4, ReportsKeep, IdleKeeps DEF EngineReturns
  <2>3. /\ runs'[r].at = "returned" /\ runs'[r].job = runs[r].job /\ runs'[r].ok = runs[r].ok
        /\ \A q \in Run : q # r => runs'[q] = runs[q]
    BY <1>1, <2>1 DEF Record
  <2>4. \A q \in Run : runs'[q].ok => /\ runs[q].ok /\ runs'[q].job = runs[q].job
                                      /\ runs'[q].at \in {"draining", "returned"}
    BY <2>3 DEF Honest, WholeWhenOk
  <2>5. QED
    BY <2>1, <2>2, <2>4, QuietStep DEF Exists
<1>5. CASE EngineHangs(r)
  <2>1. /\ runs[r].at = "engine" /\ UNCHANGED <<jobs, running, todo, files>>
        /\ runs' = [runs EXCEPT ![r] = [runs[r] EXCEPT !.at = "stuck"]]
    BY <1>5 DEF EngineHangs
  <2>2. RemovesNoMore /\ ~runs[r].ok
    BY <2>1, IdleKeeps DEF Honest, WholeWhenOk
  <2>3. runs'[r].ok = runs[r].ok /\ \A q \in Run : q # r => runs'[q] = runs[q]
    BY <1>1, <2>1 DEF Record
  <2>4. \A q \in Run : runs'[q].ok => /\ runs[q].ok /\ runs'[q].job = runs[q].job
                                      /\ runs'[q].at \in {"draining", "returned"}
    BY <2>2, <2>3 DEF Honest, WholeWhenOk
  <2>5. QED
    BY <2>1, <2>2, <2>4, QuietStep DEF Exists
<1>6. QED
  BY <1>2, <1>3, <1>4, <1>5, KeptByWriting, KeptBySettle DEF Engine, RunStep
-----------------------------------------------------------------------------
(***************************************************************************)
(* The process and its main goroutine.                                     *)
(***************************************************************************)
LEMMA KeptByDown ==
  ASSUME TypeOK, TypeOK', Honest, Down
  PROVE  Kept
<1>1. /\ UNCHANGED <<jobs, files>>
      /\ \A j \in Job : running'[j] = NoRun
      /\ \A a \in Actor : todo'[a] = <<>>
  BY DEF Down
<1>2. \A r \in Run : runs'[r].ok => runs[r].ok /\ runs'[r] = runs[r]
  <2>1. ~OverRun.ok
    BY DEF OverRun, NewRun
  <2>2. QED
    BY <2>1 DEF Down
<1>3. \A r \in Run : runs'[r].ok => /\ runs[r].ok /\ runs'[r].job = runs[r].job
                                    /\ runs'[r].at \in {"draining", "returned"}
  BY <1>2 DEF Honest, WholeWhenOk
<1>4. QED
  BY <1>1, <1>3, IdleKeeps, QuietStep DEF Exists

LEMMA MainKeeps ==
  ASSUME TypeOK,
         \/ Plan(Main, << <<"list">> >>)
         \/ Plan(Main, <<Save, <<"close">>, <<"wait">> >>)
         \/ Plan(Main, <<Save, <<"exit">> >>)
         \/ Plan(Main, << <<"exit">> >>)
         \/ Plan(Main, <<Save>>)
         \/ Plan(Main, <<>>)
  PROVE  RemovesNoMore
<1>1. /\ << <<"list">> >> \in Seq(Steps)
      /\ <<Save, <<"close">>, <<"wait">> >> \in Seq(Steps)
      /\ <<Save, <<"exit">> >> \in Seq(Steps)
      /\ << <<"exit">> >> \in Seq(Steps)
      /\ <<Save>> \in Seq(Steps)
      /\ <<>> \in Seq(Steps)
  BY StepsToDo, ListsOfSteps
<1>2. /\ RemovesNothing(<< <<"list">> >>)
      /\ RemovesNothing(<<Save, <<"close">>, <<"wait">> >>)
      /\ RemovesNothing(<<Save, <<"exit">> >>)
      /\ RemovesNothing(<< <<"exit">> >>)
      /\ RemovesNothing(<<Save>>)
      /\ RemovesNothing(<<>>)
  BY DEF RemovesNothing, Save
<1>3. Main \in Actor /\ todo \in [Actor -> Seq(Steps)]
  BY Actors DEF TypeOK
<1>4. QED
  BY <1>1, <1>2, <1>3, PlanKeeps

LEMMA KeptByMain ==
  ASSUME TypeOK, TypeOK', Honest, MainStep
  PROVE  Kept
<1>1. Main \in Actor /\ todo \in [Actor -> Seq(Steps)]
  BY Actors DEF TypeOK
<1>2. CASE ListRunning \/ Close
  <2>1. RemovesNoMore
    BY <1>1, <1>2, DoneKeeps DEF ListRunning, Close
  <2>2. UNCHANGED <<jobs, running, runs, files>>
    BY <1>2 DEF ListRunning, Close, memory
  <2>3. QED
    BY <2>1, <2>2, IdleStep
<1>3. CASE PauseNext
  <2>1. PICK j \in Job : \/ MarkPaused(Main, j) \/ MarkCancelled(Main, j)
                         \/ UNCHANGED <<memory, todo>>
    BY <1>3 DEF PauseNext, TypeOK
  <2>2. files' = files
    BY <1>3 DEF PauseNext
  <2>3. CASE UNCHANGED <<memory, todo>>
    BY <2>2, <2>3, IdleKeeps, IdleStep DEF memory
  <2>4. QED
    BY <1>1, <2>1, <2>2, <2>3, MarkedQuietly
<1>4. CASE AllPaused \/ Waited \/ Serve
  <2>1. RemovesNoMore
    BY <1>4, MainKeeps, IdleKeeps DEF AllPaused, Waited, Serve
  <2>2. UNCHANGED <<jobs, running, runs, files>>
    BY <1>4 DEF AllPaused, Waited, Serve, memory
  <2>3. QED
    BY <2>1, <2>2, IdleStep
<1>5. CASE Exit \/ LoadFails
  BY <1>5, KeptByDown DEF Exit, LoadFails
<1>6. QED
  BY <1>2, <1>3, <1>4, <1>5 DEF MainStep

LEMMA KeptByTerminate ==
  ASSUME TypeOK, TypeOK', Honest, Terminate
  PROVE  Kept
<1> USE DEF TypeOK
<1>1. PICK signalled \in SUBSET {r \in Run : InEngine(r)} :
        runs' = [r \in Run |-> IF r \in signalled THEN [runs[r] EXCEPT !.stop = TRUE] ELSE runs[r]]
  BY DEF Terminate
<1>2. \A x \in Record : /\ [x EXCEPT !.stop = TRUE].at = x.at /\ [x EXCEPT !.stop = TRUE].job = x.job
                       /\ [x EXCEPT !.stop = TRUE].ok = x.ok
  BY DEF Record
<1>3. \A r \in Run : runs'[r].at = runs[r].at /\ runs'[r].job = runs[r].job /\ runs'[r].ok = runs[r].ok
  BY <1>1, <1>2
<1>4. RemovesNoMore /\ UNCHANGED <<jobs, running, files>>
  BY MainKeeps DEF Terminate
<1>5. QED
  BY <1>3, <1>4, FlaggedQuietly, QuietStep DEF Exists

(***************************************************************************)
(* A restart finds no run and nothing to do.                               *)
(***************************************************************************)
LEMMA HonestRestart ==
  ASSUME TypeOK, TypeOK', Inductive, Honest, Restart
  PROVE  Honest'
<1> USE DEF TypeOK
<1>1. /\ agent = "down" /\ UNCHANGED <<running, runs, files>>
      /\ \/ Plan(Main, <<Save>>) \/ Plan(Main, <<>>)
  BY DEF Restart
<1>2. /\ \A r \in Run : ~runs[r].ok
      /\ \A a \in Actor : todo[a] = <<>>
      /\ \A j \in Job : running[j] = NoRun
  BY <1>1 DEF Honest, WholeWhenOk, Inductive, NothingOutlives, Live, Idle
<1>3. \A a \in Actor, j \in Job : ~Removes(a, j)'
  <2>1. RemovesNoMore
    BY <1>1, MainKeeps
  <2>2. \A a \in Actor, j \in Job : ~Removes(a, j)
    BY <1>2 DEF Removes
  <2>3. QED
    BY <2>1, <2>2 DEF RemovesNoMore
<1>4. QED
  BY <1>1, <1>2, <1>3 DEF Honest, WholeWhenOk, CompletedRests, RemovesDeleted

LEMMA HonestInit == Init => Honest
<1> SUFFICES ASSUME Init PROVE Honest
  OBVIOUS
<1>1. /\ \A r \in Run : ~runs[r].ok
      /\ \A a \in Actor : todo[a] = <<>>
      /\ \A j \in Job : running[j] = NoRun
  BY DEF Init, NewRun
<1>2. QED
  BY <1>1 DEF Honest, WholeWhenOk, CompletedRests, RemovesDeleted, Removes

LEMMA OtherStepsKeep ==
  ASSUME TypeOK, TypeOK', Inductive, Honest, [Next]_vars, ~Restart
  PROVE  Kept
<1>1. CASE UNCHANGED vars
  BY <1>1, IdleKeeps, IdleStep DEF vars, memory
<1>2. CASE Next
  BY <1>2, KeptByApi, KeptByHandler, KeptByPanic, KeptByRun, KeptByEffects, KeptByMain, KeptByTerminate,
     KeptByDown DEF Next, Kill
<1>3. QED
  BY <1>1, <1>2

(***************************************************************************)
(* In every reachable state a run that ended well has left the whole file, *)
(* a completed job has no run, and only deleted jobs' files are removed.   *)
(***************************************************************************)
THEOREM HonestHolds == Spec => []Honest
<1>1. TypeOK /\ TypeOK' /\ Inductive /\ Honest /\ [Next]_vars => Honest'
  BY OtherStepsKeep, HonestRestart DEF Kept
<1>2. QED
  BY HonestInit, TypeCorrect, InductiveHolds, <1>1, PTL DEF Spec

(***************************************************************************)
(* A job that shows as completed and has its whole file goes on having it  *)
(* as long as the agent runs: no writer of an old or a second run, and no  *)
(* deletion, ever reaches it.                                              *)
(***************************************************************************)
THEOREM CompletedStaysWhole == Spec => OnlyRestartForgets
<1>1. TypeOK /\ TypeOK' /\ Inductive /\ Honest /\ [Next]_vars
        => [CompletedIsWhole /\ ~CompletedIsWhole' => Restart]_vars
  BY OtherStepsKeep DEF Kept
<1>2. QED
  BY TypeCorrect, InductiveHolds, HonestHolds, <1>1, PTL DEF Spec, OnlyRestartForgets
=============================================================================
