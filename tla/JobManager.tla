----------------------------- MODULE JobManager -----------------------------
(***************************************************************************)
(* The agent's download jobs.  API handlers create, pause, resume, cancel  *)
(* and delete jobs; every start gives the job a run, a goroutine that      *)
(* calls the engine and settles the job when the engine returns.  All of   *)
(* them change the jobs under one lock, and only after releasing it cancel *)
(* the engine's context, publish the event and save the state file: the    *)
(* saves copy the jobs under the lock and write the copy outside it.       *)
(*                                                                         *)
(* An actor is a handler, a run or the main goroutine; todo says what it   *)
(* has left to do, in order, after its critical section.                   *)
(***************************************************************************)
EXTENDS Integers, Sequences

CONSTANTS
  Job,          \* job ids, never used twice
  Client,       \* handlers that can be active at the same time
  MaxCalls,     \* bound on API calls that change something and signals to stop
  MaxRestarts,  \* bound on the restarts of the agent
  StoreFails,   \* whether writing the state file may fail
  StreamsLeave  \* whether an event stream may go away while an event is sent to it

ASSUME ManagerAssumption ==
  /\ MaxCalls \in Nat /\ MaxRestarts \in Nat
  /\ StoreFails \in BOOLEAN /\ StreamsLeave \in BOOLEAN
  /\ Job # {}
  /\ Client \intersect (0 .. MaxCalls) = {}

Run == 1 .. MaxCalls            \* every call starts at most one run
NoRun == 0
Main == 0
Actor == Client \union Run \union {Main}

VARIABLES
  agent,     \* "down", "loading", "serving", "pausing" or "closing"
  list,      \* jobs the main goroutine has yet to pause before it closes
  jobs,      \* status of each job; "unborn" and "deleted" ones are not in m.jobs
  running,   \* m.running: the run in charge of a job, or NoRun
  runs,      \* each run: its job, where it is, and its control record
  todo,      \* what each actor has left to do: steps with what they were given
  disk,      \* the state file
  seen,      \* the status in the last event of each job
  files,     \* output and manifest of each job: "none", "partial" or "whole"
  calls, restarts

memory == <<jobs, running, runs>>
bounds == <<calls, restarts>>
process == <<agent, list>>
vars == <<process, memory, todo, disk, seen, files, bounds>>

Exists(status, j) == status[j] \notin {"unborn", "deleted"}

NewRun ==
  [job |-> CHOOSE j \in Job : TRUE, at |-> "unused", ok |-> FALSE,
   pause |-> FALSE, cancel |-> FALSE, stop |-> FALSE]

OverRun == [NewRun EXCEPT !.at = "over"]

Nothing == [j \in Job |-> "unborn"]

Init ==
  /\ agent = "serving" /\ list = {}
  /\ jobs = Nothing /\ disk = Nothing /\ seen = Nothing
  /\ running = [j \in Job |-> NoRun]
  /\ runs = [r \in Run |-> NewRun]
  /\ todo = [a \in Actor |-> <<>>]
  /\ files = [j \in Job |-> "none"]
  /\ calls = 0 /\ restarts = 0
-----------------------------------------------------------------------------
Save == <<"copy">>

Event(j, status) == <<"publish", j, status>>

\* What follows a critical section: the event, then SaveState.
Report(j, status) == <<Event(j, status), Save>>

Idle(a) == todo[a] = <<>>

\* The next thing a has to do is step, and it is done now.
Step(a) == Head(todo[a])

Due(a, step) == ~Idle(a) /\ Step(a)[1] = step

Does(a, step) == Due(a, step) /\ todo' = [todo EXCEPT ![a] = Tail(@)]

\* An API call by an idle handler; shutting down, the server takes no new ones.
Call(c) ==
  /\ agent \in {"serving", "pausing"}
  /\ Idle(c) /\ calls < MaxCalls
  /\ calls' = calls + 1
  /\ UNCHANGED <<process, disk, seen, files, restarts>>

Plan(a, steps) == todo' = [todo EXCEPT ![a] = steps]

\* CreateDownload: its event is made from the job as it is then, its last step is Start.
Create(c, j) ==
  /\ Call(c)
  /\ jobs[j] = "unborn"
  /\ jobs' = [jobs EXCEPT ![j] = "queued"]
  /\ Plan(c, << <<"announce", j>>, Save, <<"start", j>> >>)
  /\ UNCHANGED <<running, runs>>

Announce(c) ==
  /\ Does(c, "announce")
  /\ LET j == Step(c)[2]
     IN  seen' = [seen EXCEPT ![j] = IF Exists(jobs, j) THEN jobs[j] ELSE "queued"]
  /\ UNCHANGED <<process, memory, disk, files, bounds>>

\* Bug variant: a start does not look for a run in charge.
Startable_Running(j) == Exists(jobs, j) /\ jobs[j] # "completed"

Startable(j) == Exists(jobs, j) /\ running[j] = NoRun /\ jobs[j] # "completed"

Fresh(r) == runs[r].at = "unused" /\ \A q \in Run : q < r => runs[q].at # "unused"

\* Start: refused, or the job gets a run; its goroutine starts after event and save.
Start(c) ==
  /\ Due(c, "start")
  /\ LET j == Step(c)[2]
     IN  \/ /\ ~Startable(j)
            /\ Plan(c, <<>>)
            /\ UNCHANGED memory
         \/ /\ Startable(j)
            /\ \E r \in Run :
                 /\ Fresh(r)
                 /\ running' = [running EXCEPT ![j] = r]
                 /\ runs' = [runs EXCEPT ![r] = [NewRun EXCEPT !.job = j, !.at = "started"]]
                 /\ Plan(c, <<Event(j, "running"), Save, <<"spawn", r>> >>)
            /\ jobs' = [jobs EXCEPT ![j] = "running"]
  /\ UNCHANGED <<process, disk, seen, files, bounds>>

Spawn(c) ==
  /\ Does(c, "spawn")
  /\ runs' = [runs EXCEPT ![Step(c)[2]].at = "spawned"]
  /\ UNCHANGED <<process, jobs, running, disk, seen, files, bounds>>

\* What a has left to do ends with the start of the goroutine of r.
Spawns(a, r) == \E i \in 1 .. Len(todo[a]) : todo[a][i] = <<"spawn", r>>

\* Resume looks at the status, releases the lock, and starts.
Resume(c, j) ==
  /\ Call(c)
  /\ jobs[j] \in {"queued", "paused", "failed", "cancelled"}
  /\ Plan(c, << <<"start", j>> >>)
  /\ UNCHANGED memory
-----------------------------------------------------------------------------
\* The critical section of Pause, by a handler or by the main goroutine.
MarkPaused(a, j) ==
  /\ Exists(jobs, j) /\ running[j] # NoRun
  /\ runs' = [runs EXCEPT ![running[j]].pause = TRUE]
  /\ jobs' = [jobs EXCEPT ![j] = "paused"]
  /\ Plan(a, << <<"stop", running[j]>>, Event(j, "paused"), Save>>)
  /\ UNCHANGED running

\* The critical section of Cancel: also for a job that is over.
MarkCancelled(a, j) ==
  /\ Exists(jobs, j)
  /\ jobs' = [jobs EXCEPT ![j] = "cancelled"]
  /\ IF running[j] = NoRun
     THEN UNCHANGED runs /\ Plan(a, Report(j, "cancelled"))
     ELSE /\ runs' = [runs EXCEPT ![running[j]].cancel = TRUE]
          /\ Plan(a, << <<"stop", running[j]>>, Event(j, "cancelled"), Save>>)
  /\ UNCHANGED running

Pause(c, j) == Call(c) /\ MarkPaused(c, j)

Cancel(c, j) == Call(c) /\ MarkCancelled(c, j)

\* Bug variant: the request is noted and the engine not told.
Stopped_NotTold(r) == runs

Stopped(r) == [runs EXCEPT ![r].stop = TRUE]

\* control.cancel(): the context of the run ends.
StopRun(a) ==
  /\ Does(a, "stop")
  /\ runs' = Stopped(Step(a)[2])
  /\ UNCHANGED <<process, jobs, running, disk, seen, files, bounds>>

Delete(c, j) ==
  /\ Call(c)
  /\ Exists(jobs, j)
  /\ jobs' = [jobs EXCEPT ![j] = "deleted"]
  /\ running' = [running EXCEPT ![j] = NoRun]
  /\ runs' = IF running[j] = NoRun THEN runs
             ELSE [runs EXCEPT ![running[j]].cancel = TRUE, ![running[j]].stop = TRUE]
  /\ \/ Plan(c, Report(j, "deleted"))
     \/ Plan(c, << <<"remove", j>>, Event(j, "deleted"), Save>>)

\* os.Remove of output and manifest; the engine may not have returned yet.
RemoveFiles(c) ==
  /\ Does(c, "remove")
  /\ files' = [files EXCEPT ![Step(c)[2]] = "none"]
  /\ UNCHANGED <<process, memory, disk, seen, bounds>>
-----------------------------------------------------------------------------
Publish(a) ==
  /\ Does(a, "publish")
  /\ seen' = [seen EXCEPT ![Step(a)[2]] = Step(a)[3]]
  /\ UNCHANGED <<process, memory, disk, files, bounds>>

(***************************************************************************)
(* The send to a stream that has just gone away panics (NoSendOnClosed of  *)
(* AgentServices).  In a run or in main that ends the process, as Kill     *)
(* does.  In a handler the HTTP server catches it: the rest of the handler *)
(* is not run, and a run it had yet to start is lost, though m.running     *)
(* keeps it.  Other streams may have got the event, or not.                *)
(***************************************************************************)
HandlerPanics(c) ==
  /\ StreamsLeave
  /\ \/ Due(c, "publish") /\ seen' \in {seen, [seen EXCEPT ![Step(c)[2]] = Step(c)[3]]}
     \/ Due(c, "announce") /\ seen' = seen
  /\ Plan(c, <<>>)
  /\ runs' = [r \in Run |-> IF Spawns(c, r) THEN [runs[r] EXCEPT !.at = "lost"] ELSE runs[r]]
  /\ UNCHANGED <<process, jobs, running, disk, files, bounds>>

\* SaveState, under the read lock.
CopyState(a) ==
  /\ Due(a, "copy")
  /\ todo' = [todo EXCEPT ![a][1] = <<"write", jobs>>]
  /\ UNCHANGED <<process, memory, disk, seen, files, bounds>>

\* JSONStore.Save: a temporary file is written, flushed and renamed.
WriteState(a) ==
  /\ Does(a, "write")
  /\ disk' = Step(a)[2]
  /\ UNCHANGED <<process, memory, seen, files, bounds>>

\* Nobody looks at the error, only the agent that is starting gives up: LoadFails.
WriteFails(a) ==
  /\ StoreFails /\ agent # "loading"
  /\ Does(a, "write")
  /\ UNCHANGED <<process, memory, disk, seen, files, bounds>>
-----------------------------------------------------------------------------
\* runDownload looks the job up, and leaves when it was deleted meanwhile.
BeginRun(r) ==
  /\ runs[r].at = "spawned"
  /\ runs' = [runs EXCEPT ![r] = IF Exists(jobs, @.job) THEN [@ EXCEPT !.at = "engine"]
                                                        ELSE OverRun]
  /\ UNCHANGED <<process, jobs, running, todo, disk, seen, files, bounds>>

\* The engine was called and has not come back: it works, or hangs.
InEngine(r) == runs[r].at \in {"engine", "stuck"}

\* The engine writes output or manifest, at the latest when it is cancelled.
EngineWrites(r) ==
  /\ InEngine(r) /\ files[runs[r].job] # "partial"
  /\ files' = [files EXCEPT ![runs[r].job] = "partial"]
  /\ UNCHANGED <<process, memory, todo, disk, seen, bounds>>

\* A progress callback: the event, and a save when the last one is old enough.
Reports(r) ==
  LET j == runs[r].job
  IN  IF Exists(jobs, j)
      THEN \/ Plan(r, <<Event(j, jobs[j])>>)
           \/ Plan(r, Report(j, jobs[j]))
      ELSE UNCHANGED todo

Progress(r) ==
  /\ InEngine(r) /\ Idle(r)
  /\ Reports(r)
  /\ UNCHANGED <<process, memory, disk, seen, files, bounds>>

\* The workers are done; the progress loop still reports once and is waited for.
EngineFinishes(r) ==
  /\ runs[r].at = "engine"
  /\ \/ /\ runs' = [runs EXCEPT ![r].at = "draining", ![r].ok = TRUE]
        /\ files' = [files EXCEPT ![runs[r].job] = "whole"]
     \/ /\ runs' = [runs EXCEPT ![r].at = "draining"]
        /\ UNCHANGED files
  /\ UNCHANGED <<process, jobs, running, todo, disk, seen, bounds>>

\* In queue mode, an option of the job, the producer waits for ever once all its
\* workers have gone after a cancellation or their errors; saves and reports go on.
EngineHangs(r) ==
  /\ runs[r].at = "engine"
  /\ runs' = [runs EXCEPT ![r].at = "stuck"]
  /\ UNCHANGED <<process, jobs, running, todo, disk, seen, files, bounds>>

\* A run that failed before its loop began has no last report.
EngineReturns(r) ==
  /\ runs[r].at = "draining" /\ Idle(r)
  /\ runs' = [runs EXCEPT ![r].at = "returned"]
  /\ Reports(r) \/ (~runs[r].ok /\ UNCHANGED todo)
  /\ UNCHANGED <<process, jobs, running, disk, seen, files, bounds>>

\* Bug variant: the run stays in m.running when it is over.
FreedBySettle_Kept(j) == running

FreedBySettle(j) == [running EXCEPT ![j] = NoRun]

\* How a run ends for its job: success first, then a pause, then a cancellation.
Verdict(r) ==
  IF runs[r].ok THEN "completed"
  ELSE IF runs[r].pause THEN "paused"
  ELSE IF runs[r].cancel THEN "cancelled"
  ELSE "failed"

\* The end of runDownload; a deleted job has nothing to settle.
Settle(r) ==
  /\ runs[r].at = "returned" /\ Idle(r)
  /\ runs' = [runs EXCEPT ![r] = OverRun]
  /\ LET j == runs[r].job
     IN  /\ running' = FreedBySettle(j)
         /\ IF Exists(jobs, j)
            THEN /\ jobs' = [jobs EXCEPT ![j] = Verdict(r)]
                 /\ Plan(r, Report(j, Verdict(r)))
            ELSE UNCHANGED <<jobs, todo>>
  /\ UNCHANGED <<process, disk, seen, files, bounds>>
-----------------------------------------------------------------------------
\* SIGTERM reaches the agent, and directly the engines in a parallel download.
Terminate ==
  /\ agent = "serving" /\ agent' = "pausing"
  /\ calls < MaxCalls /\ calls' = calls + 1
  /\ \E signalled \in SUBSET {r \in Run : InEngine(r)} :
       runs' = [r \in Run |-> IF r \in signalled THEN [runs[r] EXCEPT !.stop = TRUE] ELSE runs[r]]
  /\ Plan(Main, << <<"list">> >>)
  /\ UNCHANGED <<list, jobs, running, disk, seen, files, restarts>>

\* pauseActiveDownloads takes the jobs that show as running now ...
ListRunning ==
  /\ Does(Main, "list")
  /\ list' = {j \in Job : jobs[j] = "running"}
  /\ UNCHANGED <<agent, memory, disk, seen, files, bounds>>

\* ... and pauses each; one that cannot be paused any more is cancelled.
PauseNext ==
  /\ agent = "pausing" /\ Idle(Main)
  /\ \E j \in list :
       /\ list' = list \ {j}
       /\ \/ MarkPaused(Main, j)
          \/ Exists(jobs, j) /\ running[j] = NoRun /\ MarkCancelled(Main, j)
          \/ ~Exists(jobs, j) /\ UNCHANGED <<memory, todo>>
  /\ UNCHANGED <<agent, disk, seen, files, bounds>>

\* Save, stop listening, wait for the handlers, save again.
AllPaused ==
  /\ agent = "pausing" /\ Idle(Main) /\ list = {}
  /\ Plan(Main, <<Save, <<"close">>, <<"wait">> >>)
  /\ UNCHANGED <<process, memory, disk, seen, files, bounds>>

Close ==
  /\ Does(Main, "close")
  /\ agent' = "closing"
  /\ UNCHANGED <<list, memory, disk, seen, files, bounds>>

\* A handler that is still busy (an event stream always is) uses up the grace
\* period, and the last save is skipped.
Waited ==
  /\ Due(Main, "wait")
  /\ \/ (\A c \in Client : Idle(c)) /\ Plan(Main, <<Save, <<"exit">> >>)
     \/ Plan(Main, << <<"exit">> >>)
  /\ UNCHANGED <<process, memory, disk, seen, files, bounds>>

\* The process ends with all its goroutines; nothing waits for the engines.
Down ==
  /\ agent' = "down" /\ list' = {}
  /\ running' = [j \in Job |-> NoRun]
  /\ runs' = [r \in Run |-> IF runs[r].at = "unused" THEN runs[r]
                                                     ELSE OverRun]
  /\ todo' = [a \in Actor |-> <<>>]
  /\ UNCHANGED <<jobs, disk, seen, files, bounds>>

Exit == Does(Main, "exit") /\ Down

Kill == agent # "down" /\ Down

\* Bug variant: the status is taken from the file as it is.
Loaded_Verbatim(status) == status

\* Bug variant: the job gets a status nothing else knows.
Loaded_Interrupted(status) == IF status = "running" THEN "interrupted" ELSE status

Loaded(status) == IF status = "running" THEN "paused" ELSE status

\* LoadState; the file is saved again if a status was changed.  A client that
\* connects lists the jobs first.
Restart ==
  /\ agent = "down" /\ restarts < MaxRestarts
  /\ agent' = "loading" /\ restarts' = restarts + 1
  /\ jobs' = [j \in Job |-> IF Exists(disk, j) THEN Loaded(disk[j])
                            ELSE IF jobs[j] = "unborn" THEN "unborn" ELSE "deleted"]
  /\ seen' = jobs'
  /\ Plan(Main, IF \E j \in Job : disk[j] = "running" THEN <<Save>> ELSE <<>>)
  /\ UNCHANGED <<list, running, runs, disk, files, calls>>

LoadFails == StoreFails /\ agent = "loading" /\ Due(Main, "write") /\ Down

Serve ==
  /\ agent = "loading" /\ Idle(Main)
  /\ agent' = "serving"
  /\ UNCHANGED <<list, memory, todo, disk, seen, files, bounds>>
-----------------------------------------------------------------------------
Api(c) == \E j \in Job : Create(c, j) \/ Resume(c, j) \/ Pause(c, j) \/ Cancel(c, j) \/ Delete(c, j)

Handler(c) == Announce(c) \/ Start(c) \/ Spawn(c) \/ RemoveFiles(c)

Engine(r) == EngineWrites(r) \/ Progress(r) \/ EngineFinishes(r) \/ EngineHangs(r)

RunStep(r) == BeginRun(r) \/ EngineReturns(r) \/ Settle(r)

Effects(a) == StopRun(a) \/ Publish(a) \/ CopyState(a) \/ WriteState(a) \/ WriteFails(a)

MainStep == ListRunning \/ PauseNext \/ AllPaused \/ Close \/ Waited \/ Exit \/ LoadFails \/ Serve

Next ==
  \/ \E c \in Client : Api(c) \/ Handler(c) \/ HandlerPanics(c)
  \/ \E r \in Run : Engine(r) \/ RunStep(r)
  \/ \E a \in Actor : Effects(a)
  \/ MainStep \/ Terminate \/ Kill \/ Restart

Spec == Init /\ [][Next]_vars

(***************************************************************************)
(* Goroutines are scheduled.  An engine whose context has ended returns    *)
(* (EveryRunEnds of module WorkStealing), or hangs in queue mode           *)
(* (CancelEndsTheRun of SegmentQueue); another one may run forever.        *)
(***************************************************************************)
Fairness ==
  /\ \A c \in Client : WF_vars(Handler(c))
  /\ \A r \in Run : /\ WF_vars(RunStep(r))
                    /\ WF_vars(runs[r].stop /\ (EngineFinishes(r) \/ EngineHangs(r)))
  /\ \A a \in Actor : WF_vars(Effects(a))

FairSpec == Spec /\ Fairness
-----------------------------------------------------------------------------
Status == {"unborn", "deleted", "queued", "running", "paused", "completed", "failed", "cancelled"}

Steps ==
  ({"publish"} \X Job \X Status) \union ({"announce", "start", "remove"} \X Job)
  \union ({"stop", "spawn"} \X Run) \union ({"write"} \X [Job -> Status])
  \union {<<step>> : step \in {"copy", "list", "close", "wait", "exit"}}

Place == {"unused", "started", "lost", "spawned", "engine", "stuck", "draining", "returned", "over"}

Record == [job : Job, at : Place, ok : BOOLEAN, pause : BOOLEAN, cancel : BOOLEAN, stop : BOOLEAN]

TypeOK ==
  /\ agent \in {"down", "loading", "serving", "pausing", "closing"} /\ list \subseteq Job
  /\ jobs \in [Job -> Status] /\ disk \in [Job -> Status] /\ seen \in [Job -> Status]
  /\ running \in [Job -> Run \union {NoRun}]
  /\ runs \in [Run -> Record]
  /\ todo \in [Actor -> Seq(Steps)]
  /\ files \in [Job -> {"none", "partial", "whole"}]
  /\ calls \in 0 .. MaxCalls /\ restarts \in 0 .. MaxRestarts

Live(r) == runs[r].at \notin {"unused", "over"}

(***************************************************************************)
(* Two engines never work on one job, however pause, resume, cancel and    *)
(* restart interleave: both would write its output and its manifest.       *)
(***************************************************************************)
OneEngine == \A q, r \in Run : Live(q) /\ Live(r) /\ runs[q].job = runs[r].job => q = r

(***************************************************************************)
(* m.running names exactly the runs that are on their way for jobs that    *)
(* exist: an entry left behind would refuse every later start of its job,  *)
(* one removed early would allow a second engine.  A run that was lost in  *)
(* a panic, or whose engine hangs, counts as on its way for good: its slot *)
(* is given back by a deletion or a restart only.                          *)
(***************************************************************************)
SlotsMatchRuns ==
  /\ \A j \in Job : running[j] # NoRun =>
       Exists(jobs, j) /\ Live(running[j]) /\ runs[running[j]].job = j
  /\ \A r \in Run : Live(r) /\ Exists(jobs, runs[r].job) => running[runs[r].job] = r

(***************************************************************************)
(* A job that shows as running has a run with a goroutine, or one a        *)
(* handler is about to give a goroutine: also after a crash, a user looks  *)
(* at a download nobody works on only when a panic in the event of its     *)
(* start has lost the run, or when the engine hangs in queue mode.         *)
(***************************************************************************)
HasGoroutine(r) == runs[r].at \in {"spawned", "engine", "stuck", "draining", "returned"}

AboutToStart(r) == runs[r].at = "started" /\ \E c \in Client : Spawns(c, r)

Lost(r) == runs[r].at = "lost"

RunningIsReal ==
  agent # "down" => \A j \in Job : jobs[j] = "running" =>
    \E r \in Run : running[j] = r /\ (HasGoroutine(r) \/ AboutToStart(r) \/ Lost(r))

(***************************************************************************)
(* A job in state completed has its whole file, unless a restart read an   *)
(* old state file or the files were deleted with the job.                  *)
(***************************************************************************)
CompletedIsWhole == \A j \in Job : jobs[j] = "completed" => files[j] = "whole"

OnlyRestartForgets == [][ CompletedIsWhole /\ ~CompletedIsWhole' => Restart ]_vars

(***************************************************************************)
(* A pause, a cancellation or a deletion ends the run it was aimed at, and *)
(* with it frees the job for the next start, unless its engine hangs in    *)
(* queue mode, or its handler panicked before it started the goroutine.    *)
(***************************************************************************)
StopEndsTheRun ==
  \A r \in Run : (Live(r) /\ (runs[r].pause \/ runs[r].cancel)) ~>
                    (~Live(r) \/ runs[r].at = "stuck" \/ Lost(r))

Quiet == agent = "serving" /\ (\A a \in Actor : Idle(a)) /\ \A r \in Run : ~Live(r)

(***************************************************************************)
(* docs/desktop-engine-contract.md: "Queued and running job lifecycle with *)
(* persisted state across agent restart."  When nothing is going on any    *)
(* more, the state file tells the status of every job.                     *)
(***************************************************************************)
StateFileCatchesUp ==
  Quiet => \A j \in Job : Exists(jobs, j) => disk[j] = jobs[j]

(***************************************************************************)
(* The same page: "The desktop app should treat SSE events as the source   *)
(* of truth for rendering real-time state transitions."                    *)
(***************************************************************************)
EventsTellTheStatus == Quiet => \A j \in Job : Exists(jobs, j) => seen[j] = jobs[j]
=============================================================================
