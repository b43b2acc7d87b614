------------------------------ MODULE Profiler ------------------------------
(***************************************************************************)
(* The agent's profiler: a call starts a run in a goroutine of its own,    *)
(* which measures one configuration after the other, chooses the best and  *)
(* writes its tables; another call cancels it.  Unlike a download, a run   *)
(* publishes its last event while it still holds the manager's lock.       *)
(***************************************************************************)
EXTENDS EventBus

CONSTANTS
  MaxRuns,      \* bound on the runs
  Benchmarks    \* measurements in a run

ASSUME ProfilerAssumption ==
  /\ MaxRuns \in Nat /\ Benchmarks \in Nat \ {0}
  /\ 1 .. MaxRuns \subseteq Publisher \ Client

Run == 1 .. MaxRuns
NoRun == 0

VARIABLES
  profiler,    \* m.profiler: its status, and the run its recommendation is from
  inCharge,    \* m.profilerCancel: the run it cancels
  runs,        \* each run: where it is, measurements left, one good, cancelled
  launching,   \* the run each handler has yet to launch
  heard        \* the last profiler event each stream has passed on

profiling == <<profiler, inCharge, runs, launching>>

NewRun == [at |-> "unused", left |-> Benchmarks, good |-> FALSE, cancelled |-> FALSE]

OverRun == [NewRun EXCEPT !.at = "over"]

IdleProfiler == [status |-> "idle", result |-> NoRun]

InitProfiler ==
  /\ profiler = IdleProfiler
  /\ inCharge = NoRun
  /\ runs = [r \in Run |-> NewRun]
  /\ launching = [c \in Client |-> NoRun]
  /\ heard = [s \in Stream |-> <<NoRun, 0>>]
-----------------------------------------------------------------------------
\* Events of a run, numbered in the order they are meant to arrive.
Started(r) == <<r, 0>>
Stage(r) == <<r, 1>>
Ended(r) == <<r, 2>>

\* Bug variant: the lock is released before the last event is published.
Unlocked_Early == TRUE

\* m.mu is free.
Unlocked == \A r \in Run : runs[r].at # "telling"

Fresh(r) == runs[r].at = "unused" /\ \A q \in Run : q < r => runs[q].at # "unused"

\* Bug variant: a second run is started beside the first.
MayStart_Always == TRUE

MayStart == profiler.status # "running"

StartProfiler(c) ==
  /\ Unlocked /\ MayStart
  /\ \E r \in Run :
       /\ Fresh(r)
       /\ profiler' = [status |-> "running", result |-> NoRun]
       /\ inCharge' = r
       /\ runs' = [runs EXCEPT ![r].at = "announced"]
       /\ launching' = [launching EXCEPT ![c] = r]
       /\ Publish(c, Started(r))
  /\ UNCHANGED heard

\* The goroutine is started after the event was published.
Launch(c) ==
  /\ launching[c] # NoRun /\ Silent(c)
  /\ runs' = [runs EXCEPT ![launching[c]].at = "begun"]
  /\ launching' = [launching EXCEPT ![c] = NoRun]
  /\ UNCHANGED <<profiler, inCharge, heard, bus>>

\* CancelProfilerRun holds the lock while it cancels the context; it tells nobody.
CancelProfiler(c) ==
  /\ Unlocked /\ profiler.status = "running" /\ inCharge # NoRun
  /\ runs' = [runs EXCEPT ![inCharge].cancelled = TRUE]
  /\ UNCHANGED <<profiler, inCharge, launching, heard, bus>>
-----------------------------------------------------------------------------
\* The run goes on to place, and publishes a stage (and the same as a log line).
Emit(r, place) ==
  /\ runs' = [runs EXCEPT ![r].at = place]
  /\ Publish(r, Stage(r))

Goes(r, place) ==
  /\ runs' = [runs EXCEPT ![r].at = place]
  /\ UNCHANGED bus

\* The request is checked first; a bad one ends the run before its first stage.
Prepare(r) ==
  /\ runs[r].at = "begun"
  /\ Emit(r, "loop") \/ Goes(r, "failed")

\* The context is looked at before every measurement, and not after the last.
Loop(r) ==
  /\ runs[r].at = "loop"
  /\ \/ runs[r].left > 0 /\ runs[r].cancelled /\ Goes(r, "cancelled")
     \/ runs[r].left > 0 /\ ~runs[r].cancelled /\ Emit(r, "measure")
     \/ runs[r].left = 0 /\ Emit(r, "choose")

\* RunBenchmark returns, with success or not.
Measure(r) ==
  /\ runs[r].at = "measure"
  /\ \E good \in {runs[r].good, TRUE} :
       runs' = [runs EXCEPT ![r].at = "loop", ![r].left = @ - 1, ![r].good = good]
  /\ UNCHANGED bus

\* Every measurement runs the segment queue, whose producer waits for ever once all
\* its workers have gone after a cancellation or their errors: RunBenchmark does not return.
Hang(r) ==
  /\ runs[r].at = "measure"
  /\ Goes(r, "stuck")

\* recommendFromResults needs one successful measurement.
Choose(r) ==
  /\ runs[r].at = "choose"
  /\ \/ runs[r].good /\ Emit(r, "persist")
     \/ ~runs[r].good /\ Goes(r, "failed")

\* writeProfilerArtifacts.
Persist(r) ==
  /\ runs[r].at = "persist"
  /\ Goes(r, "done") \/ Goes(r, "failed")

\* The context ended: idle again.  Another error: error.  Else the run's result.
Outcome(r) ==
  CASE runs[r].at = "cancelled" -> [status |-> "idle", result |-> NoRun]
    [] runs[r].at = "failed" -> [status |-> "error", result |-> NoRun]
    [] runs[r].at = "done" -> [status |-> "ready", result |-> r]

\* The end of runProfiler takes the lock and publishes under it ...
Conclude(r) ==
  /\ runs[r].at \in {"cancelled", "failed", "done"} /\ Unlocked
  /\ profiler' = Outcome(r)
  /\ inCharge' = NoRun
  /\ runs' = [runs EXCEPT ![r].at = "telling"]
  /\ Publish(r, Ended(r))

\* ... and then releases it.
Release(r) ==
  /\ runs[r].at = "telling"
  /\ runs' = [runs EXCEPT ![r] = OverRun]
  /\ UNCHANGED <<profiler, inCharge, bus>>

Quick(r) == Prepare(r) \/ Loop(r) \/ Choose(r) \/ Persist(r)

ProfilerRun(r) ==
  /\ Silent(r)
  /\ \/ (Quick(r) \/ Measure(r) \/ Hang(r)) /\ UNCHANGED <<profiler, inCharge>>
     \/ Conclude(r) \/ Release(r)
  /\ UNCHANGED <<launching, heard>>

\* A stream passes on an event; of the profiler's events the last is remembered.
Receive(s) ==
  /\ Deliver(s)
  /\ heard' = [heard EXCEPT ![s] = IF Head(channel[s])[1] \in Run THEN Head(channel[s]) ELSE @]
  /\ UNCHANGED profiling
-----------------------------------------------------------------------------
Active(r) == runs[r].at \notin {"unused", "telling", "over"}

(***************************************************************************)
(* The profiler shows as running exactly while one run is at work, and     *)
(* that run is the one a cancellation reaches.  A run that was announced   *)
(* is launched by its handler, unless a panic in its event stopped that:   *)
(* then the profiler stays running.  It also stays running for a run whose *)
(* measurement hangs, which counts as at work.                             *)
(***************************************************************************)
OneProfilerRun ==
  /\ profiler.status = "running" <=> inCharge # NoRun
  /\ \A r \in Run : Active(r) <=> inCharge = r
  /\ \A r \in Run : runs[r].at = "announced" => panicked \/ \E c \in Client : launching[c] = r

\* What a stream has told last, followed by what it will tell.
Word(s, i) == IF i = 0 THEN heard[s] ELSE channel[s][i]

OfARun(event) == event[1] \in Run

Rank(event) == 3 * event[1] + event[2]

(***************************************************************************)
(* No stream hears of a run after the run's last event, of a later run     *)
(* before it, or of a stage before the start, whatever the streams miss.   *)
(***************************************************************************)
ProfilerEventsInOrder ==
  \A s \in Stream : \A i, k \in 0 .. Len(channel[s]) :
    i < k /\ OfARun(Word(s, i)) /\ OfARun(Word(s, k)) => Rank(Word(s, i)) <= Rank(Word(s, k))

(***************************************************************************)
(* A run that was cancelled ends, wherever the cancellation meets it and   *)
(* whoever reads its events or not; only a measurement that hangs in the   *)
(* segment queue, or a panic, can keep it from its end.                    *)
(***************************************************************************)
CancelledRunEnds ==
  \A r \in Run : (Active(r) /\ runs[r].cancelled) ~> (~Active(r) \/ runs[r].at = "stuck" \/ panicked)
=============================================================================
