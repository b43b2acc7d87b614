---------------------------- MODULE WorkStealing ----------------------------
(***************************************************************************)
(* core.downloadParallel without queue mode.  The work that no worker has  *)
(* yet is a pool of ranges; a worker takes a longest one, or, with dynamic *)
(* splitting, its first half, and comes back for more when it is done.     *)
(***************************************************************************)
EXTENDS SegmentEngine

CONSTANTS Dynamic, MinSplitSize, MinDynamicFileSize

ASSUME StealingAssumption ==
  /\ ~QueueMode
  /\ Dynamic \in BOOLEAN
  /\ MinSplitSize \in Nat \ {0}
  /\ MinDynamicFileSize \in Nat

VARIABLE remaining   \* ranges nobody works on: the code's map from chunk to ranges

vars == <<engineVars, remaining>>

Length(t) == t.end - t.start + 1
Splitting == Dynamic /\ Size >= MinDynamicFileSize

Init == EngineInit /\ remaining = {}

\* Building the pool from the manifest, when the workers are about to start.
Plan(done) == UNION {Missing(i, done) : i \in Chunk}

ResumeRun  == Resume /\ remaining' = Plan(disk.done)
BeginFresh == StartFresh /\ UNCHANGED remaining
FreshRun   == CreateManifest /\ remaining' = Plan({})

Longest(t) == t \in remaining /\ \A u \in remaining : Length(u) <= Length(t)

TakeWhole(w, t) ==
  /\ Assign(w, t)
  /\ remaining' = remaining \ {t}

\* Bug variant: the boundary byte goes to both halves.
TakeHalf_Overlapping(w, t) ==
  LET mid == t.start + (Length(t) \div 2)
  IN  /\ Assign(w, [t EXCEPT !.end = mid])
      /\ remaining' = (remaining \ {t}) \union {[t EXCEPT !.start = mid]}

\* Bug variant: the boundary byte goes to neither half.
TakeHalf_Gap(w, t) ==
  LET mid == t.start + (Length(t) \div 2)
  IN  /\ Assign(w, [t EXCEPT !.end = mid - 1])
      /\ remaining' = (remaining \ {t}) \union {[t EXCEPT !.start = mid + 1]}

\* The first half is assigned; the rest stays in the pool and can be stolen.
TakeHalf(w, t) ==
  LET mid == t.start + (Length(t) \div 2)
  IN  /\ Assign(w, [t EXCEPT !.end = mid - 1])
      /\ remaining' = (remaining \ {t}) \union {[t EXCEPT !.start = mid]}

PickTask(w) ==
  /\ phase = "running" /\ pc[w] = "pick"
  /\ ctx = "live" /\ MutexFree
  /\ \E t \in remaining :
       /\ Longest(t)
       /\ IF Splitting /\ Length(t) >= MinSplitSize * 2 THEN TakeHalf(w, t)
                                                        ELSE TakeWhole(w, t)
  /\ UNCHANGED <<durable, control, completed, ctx, firstErr, saver>>

\* No work left, or the context ended before the worker asked for any.
WorkerLeaves(w) ==
  /\ phase = "running" /\ pc[w] = "pick"
  /\ \/ ctx # "live"
     \/ MutexFree /\ remaining = {}
  /\ Leave(w)
  /\ UNCHANGED <<durable, control, completed, ctx, saver, remaining>>

WorkerStep(w) == PickTask(w) \/ WorkerLeaves(w) \/ (SegmentStep(w) /\ UNCHANGED remaining)

\* The pool lives in memory.
CrashRun == Crash /\ remaining' = {}

JoinWorkers == Join /\ UNCHANGED remaining

Background == Lifecycle /\ UNCHANGED remaining

Next ==
  \/ ResumeRun \/ BeginFresh \/ FreshRun
  \/ \E w \in Worker : WorkerStep(w)
  \/ JoinWorkers \/ Background \/ CrashRun

Spec == Init /\ [][Next]_vars

(***************************************************************************)
(* The scheduler runs every goroutine.  Strong fairness where a step needs *)
(* manifestMu or the saver to be idle: sync.Mutex hands the lock to a      *)
(* waiter that starves, and the saver sleeps five seconds between saves.   *)
(* Nothing obliges a tick, an interruption, a crash or a restart, nor the  *)
(* server: what it has to do with is ServerAnswers.                        *)
(***************************************************************************)
Fairness ==
  /\ \A w \in Worker :
       SF_vars(PickTask(w) \/ WorkerLeaves(w) \/ (LocalStep(w) /\ UNCHANGED remaining))
  /\ WF_vars(FreshRun)
  /\ WF_vars((SaverDone \/ SaverFails) /\ UNCHANGED remaining)
  /\ WF_vars(JoinWorkers)
  /\ SF_vars(Decide /\ UNCHANGED remaining)
  /\ WF_vars((FinalSave \/ FinalSaveFails) /\ UNCHANGED remaining)
  /\ WF_vars((RemoveManifest \/ RemoveFails) /\ UNCHANGED remaining)

FairSpec == Spec /\ Fairness

\* Every request is answered, breaks or goes on: the server never just falls silent.
ServerAnswers == \A w \in Worker : WF_vars(ServerStep(w) /\ UNCHANGED remaining)
-----------------------------------------------------------------------------
TypeOK == EngineTypeOK /\ remaining \subseteq Ranges

Disjoint(t, u) == Bytes(t) \intersect Bytes(u) = {}

(***************************************************************************)
(* Every byte has at most one owner: a range of the pool, one worker, or   *)
(* the list of completed ranges.  So no two workers write the same bytes,  *)
(* no recorded byte is requested again, and a split leaves no overlap.     *)
(***************************************************************************)
OneOwner ==
  /\ \A t, u \in remaining : t # u => Disjoint(t, u)
  /\ \A v, w \in Worker : v # w => Disjoint(task[v], task[w])
  /\ \A t \in remaining, w \in Worker : Disjoint(t, task[w])
  /\ \A t \in remaining : Bytes(t) \intersect completed = {}
  /\ \A w \in Worker : Bytes(task[w]) \intersect completed = {}

(***************************************************************************)
(* And at least one owner, as long as no worker gave up: splitting,        *)
(* stealing and resuming lose no byte.                                     *)
(***************************************************************************)
Owned(b) ==
  \/ b \in completed
  \/ \E t \in remaining : b \in Bytes(t)
  \/ \E w \in Worker : b \in Bytes(task[w])

NothingLost ==
  phase \in {"running", "stopping"} /\ firstErr = "none" => \A b \in Byte : Owned(b)

(***************************************************************************)
(* The inductive invariant behind these: besides ownership and what the    *)
(* engine guarantees of every worker and phase (HoldInv, PhaseInv), ranges *)
(* of the pool are proper ones, and a worker that left cleanly found the   *)
(* pool empty.                                                             *)
(***************************************************************************)
PoolInv == \A t \in remaining : InsideChunk(t)

DrainedInv ==
  phase \in {"running", "stopping"} /\ firstErr = "none" /\ ctx = "live"
    /\ (\E w \in Worker : pc[w] = "exited")
  => remaining = {}

Ownership ==
  /\ PoolInv /\ OneOwner
  /\ NothingLost /\ DrainedInv

StealingInv == TypeOK /\ EngineInv /\ Ownership

(***************************************************************************)
(* Each run that begins ends, whatever fails, unless the server falls      *)
(* silent: the retry budgets are finite and no worker waits for another.   *)
(* A cancelled run ends even then, and never as a success.                 *)
(***************************************************************************)
EveryRunEnds ==
  /\ ServerAnswers => (phase = "running" ~> phase \in {"idle", "ended"})
  /\ phase = "running" /\ ctx = "canceled" ~>
       phase = "idle" \/ (phase = "ended" /\ verdict \in {"cancelled", "failed"})

(***************************************************************************)
(* A run in which no worker gives up and nobody interrupts, and which does *)
(* not crash, completes the file, from whatever state it resumed.          *)
(***************************************************************************)
Disturbed == firstErr # "none" \/ ctx # "live" \/ phase = "idle"
UndisturbedRunSucceeds ==
  ServerAnswers =>
    (phase = "running" ~> (Disturbed \/ (phase = "removing" /\ verdict = "success")))
=============================================================================
