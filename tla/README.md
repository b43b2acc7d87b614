# QuickGet, specified and verified

TLA+ specifications, TLC model-checking runs and TLAPS proofs for QuickGet
(`src/pkg/quickget`), a resumable, multi-connection HTTP downloader written in Go, and
for the agent that runs downloads on behalf of a desktop app and a browser.
Line numbers are those of the files under `src/`.

## 1. The system

| Component | Code | State it keeps | Operations | What makes it correct | Status |
|---|---|---|---|---|---|
| Layout | `core/downloader.go` `splitIntoChunks`, `splitIntoSegments` | none | cut a file into one chunk per connection, or into queue segments | the pieces tile the file | modelled, proved |
| Manifest | `manifest/manifest.go` | chunks with their completed byte ranges | merge, missing ranges, normalise, totals, complete | counts and plan agree with the ranges | modelled, proved |
| Engine, work stealing | `core/downloader.go` `downloadParallel` | pool of ranges, manifest in memory, one mutex, error channel | workers take, split, download, retry and record ranges; a saver writes the manifest every 5 s | each byte has one owner; the manifest is never ahead of the file; success means whole; runs end | modelled, proved |
| Engine, queue mode | `core/downloader.go` `runQueueMode` | bounded task channel in place of the pool | a producer sends segments to the workers | the same; nobody waits for ever | modelled, proved |
| Download and clean | `core/downloader.go` `Download`, `downloadSingle`; `quickget.go` | output file and manifest file, across runs | parallel download, single-stream download, clean | a resumed download is whole; progress is kept; clean keeps what is complete | modelled, proved |
| Agent, job manager | `agent/manager.go`, `agent/job.go`, `store/json_store.go`, `cmd/quickget-agent` | jobs, running table, state file | create, start, pause, resume, cancel, delete, progress, settle, shut down, load | one engine per job; the table matches the runs; a completed job keeps its file; clients and state file learn the last status | partly: no options of a job; proved |
| Agent, event bus | `agent/eventbus.go` | subscribers and their buffers | subscribe, publish, unsubscribe | no publisher waits for a reader; no send on a closed channel | partly: no `Close`, which only tests call; proved |
| Agent, captures | `agent/capture.go`, `agent/manager.go` | browser captures | create, reject, start | what a client was told of a capture stays true; a started capture has its download | modelled, proved |
| Agent, profiler | `agent/profiler.go`, `agent/manager.go` | profiler status | start, measure, choose, cancel, finish | one run at a time; its events in order; a cancelled run ends | modelled, proved |
| Agent, HTTP server, tokens | `agent/server.go`, `agent/auth.go` | the token | route, authenticate, stream | calls overlap and end; a panic stops one call only | partly: calls and streams, no tokens |
| Client, native host | `agentclient/`, `nativehost/` | none | translate messages into API calls | | not modelled |
| Progress display | `progress/progress.go` | counters | count, print | | not modelled: nothing but the display reads it |
| Probe, bench, tune, CLI, names, hashes | `probe/`, `bench/`, `tune/`, `cli/`, `filename/`, `hash/` | none | sequential helpers | | not modelled |
| Web site | `site/`, `docs/` | none | generated pages, vendored search scripts | | not modelled |

### How they interact

`Download` asks the server for size and range support and takes parallel or single mode.
The parallel engine reads the manifest; when its settings equal those of the command it
resumes, otherwise it resizes the output and writes a new manifest.  Workers share the pool
(or the channel), the manifest in memory and its mutex; the saver holds that mutex while it
writes the file.  The first error on the error channel decides how the run ends.  The only
thing that connects two commands is what is on disk.

The agent calls the same `Download` in a goroutine per start of a job.  API handlers and
these goroutines change the jobs under `m.mu`, and after releasing it they cancel the
engine's context, publish an event and save the state file.  A client sees jobs through the
event stream; a restarted agent sees what the state file says.

Captures and profiler live in the same `Manager` under the same lock, and publish on the
same bus.  A capture that is started creates a job.  The profiler runs in a goroutine of its
own and, unlike everything else, publishes its last events while it holds `m.mu`.

### What is hard

* Workers split and steal each other's ranges while others are recorded and saved.
* A manifest is overwritten in place; the process can die between any two steps, and a
  later run believes what it finds.
* Segments fail, are retried within two budgets, or are interrupted; failure, Ctrl+C and a
  deadline race to be the first error.
* The queue's producer and its workers wait for each other through a bounded channel.
* Parallel, single-mode and clean commands with different settings share one output path.
* In the agent every consequence of a change (stop, event, save) happens after the lock was
  released, and an engine that was told to stop goes on for a while.
* Publishers send to a copy of the subscribers, who may be slow, or gone.

`PROJECT.json` lists these at their lines ("hazards"), with the properties that watch them.

## 2. Modules

| Module | What it is | Extends / instantiates |
|---|---|---|
| `Layout` | the two cutting algorithms in closed form, over functions | |
| `Ranges` | the range algebra of the manifest | |
| `ManifestLedger` | a manifest read from anywhere, then segments recorded in any order, against the set of bytes it stands for | `Layout`, `Ranges` |
| `SegmentEngine` | what both parallel modes share: load or create the manifest, segments with retries, saver, join, verdict, final save, removal, crash; the refinement mapping | `Layout`, `Transfer` as an instance |
| `WorkStealing` | the pool: take, split, steal | `SegmentEngine` |
| `SegmentQueue` | producer and channel | `SegmentEngine` |
| `Transfer` | the abstract download: what a resumable download promises | |
| `ResumeSession` | one output path over many commands | |
| `JobManager` | the agent's jobs | |
| `EventBus` | subscribers, publishers, streams | |
| `Profiler` | runs of the profiler | `EventBus` |
| `Captures` | captures and the downloads made of them | `EventBus` |
| `AgentServices` | captures, profiler and streams beside each other in one process that panics, dies and starts again | `Profiler`, `Captures` |
| `LayoutProofs`, `ResumeSessionProofs`, `JobManagerProofs` | theorems about the module in their name | |
| `LedgerProofs` | theorems about the loops of `Ranges`, about `ManifestLedger`, and about the layouts as `MCManifestLedger` states them | `MCManifestLedger`, `LayoutProofs` |
| `SegmentEngineProofs` | what both parallel modes need: types, exact plans, the effect of each shared action, `Transfer` itself | `LayoutProofs` |
| `WorkStealingProofs`, `SegmentQueueProofs` | theorems about the two modes | `SegmentEngineProofs` |
| `ServicesProofs` | theorems about `AgentServices`, captures included | |
| `MC...` | values for the constants; `MCManifestLedger` also states what holds of the layouts | |

Operators whose name ends in an underscore and a word (`TakeHalf_Gap`) are bug variants:
each differs from the definition below it as a plausible mistake would, and shows that the
property named with it in `PROJECT.json` can fail.

### State and code

**Engine.** `written` is the set of bytes with the right content in the output, `completed`
the manifest in memory, `disk` the manifest file (`absent`, `partial` while it is being
overwritten, or `saved`).  A range list is represented by the set of its bytes; that the
list algorithms are exact is what `ManifestLedger` checks and `LedgerProofs` proves.  `pc[w]`, `task[w]`, `offset[w]`,
`trans[w]` and `perm[w]` are the locals of a worker: it picks, tries, streams, backs off,
records or has exited.  `ctx` is the context, `firstErr` the first error on the channel,
`phase` the position of the main goroutine.  One action is one critical section or one call
to the outside: a read of the body with its write, one answer of the server, one save.
Saving is two steps, because `os.WriteFile` truncates before it writes.  Timing (`sleepCtx`,
the 5 s ticker) is nondeterminism.

**ResumeSession.** The engine is reduced to what another command can see of it: fetch a
segment, save, and the ways to end.  `output` has a size (through its settings) and the set
of bytes it holds; truncation and resizing change it as `os.Create` and
`preallocateFile` do.  A save, periodic or last, may fail and leave the manifest cut short.  With
`ShortBodies` the body of a response may end early, and both modes take it for whole.

**JobManager.** `jobs`, `running` and the control record of each run (`pause`, `cancel`,
`stop`) are the maps of `Manager`.  One action is one critical section; `todo[a]` is what an
actor still has to do after it, in order: cancel the context, publish, copy, write, start,
spawn.  So every interleaving of handlers, runs and the main goroutine between two critical
sections is a behaviour.  The engine is what the engine modules show of it: it writes, it
reports, it returns with success or without, or it hangs as queue mode does.  A handler may
panic in a publish, as `bus_panic` shows, and what it had left to do is lost
(`HandlerPanics`, with `StreamsLeave`); in a run or in main the same panic ends the process (`Kill`).  `seen` is the
last event a client got, `disk` the state file.  Create's event is made from the job without
the lock (a data race in Go); the model reads the status of that moment.  Events
reach every client here; what a slow or leaving client makes of them is the subject of
`EventBus`.

**EventBus.**  `stream[s]` is one GET /events, used once; `channel[s]` its buffered channel.
`Publish` is the copy of the subscribers under the bus's lock, `sending[p]` the sends that
remain, made one by one in any order (Go's map order).  A send to a full channel drops the
event (`Accepts`).  `Unsubscribe` closes the channel; a send that meets a closed one sets
`panicked`.

**Captures.**  `todo[c]` is the rest of a handler's work, one step per critical section:
`StartCaptureDownload` checks, creates the download (with its event and save), begins it,
marks the capture, and each of these releases the lock.  A handler takes no step that needs
the lock while the profiler holds it (`Locking`).  `disk` is the state file.  `downloads[k]`
counts the downloads ever created for a capture; that a job can be deleted later is in `JobManager`.

**Profiler.**  `profiler` is `m.profiler`, `inCharge` the run that `m.profilerCancel`
reaches, `runs[r].at` the place of the goroutine in `runProfiler`.  `telling` is the part of
its end that publishes while it holds `m.mu`; everybody else who needs the lock waits
(`Unlocked`).  The order of the configurations and the averages are reduced to whether
some measurement was good, which decides between success and error.

**AgentServices.**  A panic in a handler is caught by `net/http`: the handler's remaining
steps are lost and the process goes on (`HandlerPanics`), so a profiler that was marked as
running and never launched stays so until a restart; so does one whose measurement hangs (`Hang`).  A panic in the profiler's goroutine
is caught by nobody (`RunPanics`).

## 3. Runs

All runs end within five minutes on two workers.

| Run | Shows | Bounds |
|---|---|---|
| `ledger` | layouts of all files of up to 24 bytes with up to 9 parts tile the file and match the loops; the ledger keeps exact books from any foreign manifest | 5 bytes in 2 chunks; up to 2 foreign ranges with positions from -1 to 3, sorted or not, overlapping, empty, out of bounds, or the old byte count |
| `stealing` | types, ownership, manifest against file, refinement of `Transfer`; every run ends, a cancelled one also when the server is silent; undisturbed runs succeed | 3 bytes, 2 workers, one restart, failing saves, cancel or deadline |
| `queue` | ownership and refinement of `Transfer` in queue mode, and that the producer's unlocked reads race with nobody | 4 bytes in segments of 2, 2 workers, one restart, failing saves |
| `queue_live` | undisturbed runs succeed and all runs end with up to three segments per worker | 6 segments of one byte, 2 workers |
| `queue_stuck` | **violated**: a cancelled run ends | 7 segments, 2 workers |
| `session` | only truncation and short bodies make a manifest claim too much; success from a trusted manifest is whole, short single-mode bodies excepted; a saved manifest loses progress in four ways only | 3 bytes, two settings, 4 commands, other sizes, outputs that vanish, short bodies |
| `stale_after_single` | **violated**: success means the whole file, even where every body is whole | 2 bytes, 4 commands, no short bodies |
| `jobs` | never two engines on one job, slots match runs, a job that shows as running has a goroutine or lost it in a panic, a completed job keeps its file, a paused, cancelled or deleted run ends, hangs in queue mode or was lost | 1 job, 2 handlers, 2 calls or signals, 1 restart, failing saves, streams that leave, engines that hang |
| `services` | one profiler run at a time, its events in order, captures settled for good with the status they have, started ones with their download; calls and cancelled runs (unless the measurement hangs) end whoever reads | 2 handlers, 2 calls, 1 capture, 2 profiler runs of 1 measurement, 1 stream with a buffer of 1, 1 restart |
| `bus_panic` | **violated**: no event is sent on a closed channel | 1 call, 2 streams |
| `events` | **violated**: when all is quiet the last event tells the status | 2 calls, no panics |
| `state_file` | **violated**: when all is quiet the state file tells the status | 2 calls, no panics |

Why the bounds are enough.  Three bytes and two workers are the least with a chunk of two
bytes that can be split (`MinSplitSize` is 1) beside one that is recorded; the proofs cover every
other size.  Two starts are enough for everything a run can inherit, since a run sees of
its predecessors only `disk` and `written`, and these can be anything a first run leaves.
The queue holds two segments per worker, so six and seven segments for two workers are the
largest that fits and the smallest that does not.  In `session` four commands are one
more than the longest counterexample needs (parallel, single, parallel).  Jobs of the agent
share nothing but the lock, the file and the list of the shutdown, so one job with two
handlers shows all that can happen to a job; two calls overlap in every way, and with the
restart a job left by one is taken up by the other.  Safety does not hang on these bounds: it is
proved for all of them.  In `services` a buffer of one is full after one event, so a single
slow stream drops events in every place where it can; two handlers and two profiler runs
are the least that overlap, and of two captures neither would see the other; its safety,
too, is proved for all bounds.

`CHECK_DEADLOCK FALSE` is set everywhere: downloads end, and bounded calls run out.  That
nothing stops too early is what the liveness properties say.

### Fairness

* Goroutines that can run do run: weak fairness of the producer, the join, the final save
  and of what a handler or a run of the agent has left to do.
* The workers' own steps and the verdict need the manifest mutex, which the saver takes again and again:
  strong fairness.  Go's mutex hands over to a waiter that has waited for a millisecond
  (starvation mode), and the saver sleeps five seconds between saves.
* A save that began ends, with or without an error.
* None for the server: the client has a timeout for dialling only (`downloader.go:113`), so a
  server that falls silent holds a run until it is cancelled.  `EveryRunEnds`,
  `UndisturbedRunSucceeds` and `ShortQueueEnds` therefore assume `ServerAnswers` in so many
  words; `CancelEndsTheRun` does not.
* None for interruptions, crashes, API calls or restarts.
* In `JobManager` an engine whose context has ended returns, which is part of `EveryRunEnds`
  of `stealing`, or hangs, which `queue_stuck` shows of queue mode, an option of the job
  (`EngineHangs`).  `StopEndsTheRun` names the hang.
* In `AgentServices` handlers, the profiler's goroutine and the sends of a publisher are
  weakly fair: none of them waits for anything but the lock, whose holders do not wait.  A
  measurement need not end unless it is cancelled, and then it returns or hangs (`Hang`): every
  configuration of the profiler uses queue mode (`profiler.go:183`), and `CancelledRunEnds`
  names the hang.  Streams have no fairness at all, so
  `CallsEnd` and `CancelledRunEnds` hold when nobody reads.

### Where the code and its documentation disagree

| Run | Code | What is written |
|---|---|---|
| `queue_stuck` | `downloader.go:1043`: the producer waits for room in the channel without looking at the context; when all workers are gone the call never returns and saves nothing | `docs/deep-dive/architecture.md:53` "On Ctrl+C/SIGTERM, state is saved before process exit." |
| `stale_after_single` | `downloader.go:605`: single mode truncates the output and leaves an old manifest beside it, which the next parallel run believes | `README.md:154` "If a download is interrupted, rerun the same command to continue." |
| `events` | `manager.go:1042`: events are published after the unlock | `docs/desktop-engine-contract.md:68` events are "the source of truth" |
| `state_file` | `manager.go:735`: the copy is written after the unlock | `docs/desktop-engine-contract.md:74` "persisted state across agent restart" |
| `bus_panic` | `eventbus.go:82`: events are sent to a copied list of subscribers; one that unsubscribes meanwhile has closed its channel, and the send panics | `docs/agent-architecture.md:67` "straightforward reconnect behavior" |

Seen while modelling and in the models, without a run of their own:

* A run that fails is not saved a last time (`downloader.go:974`), unlike
  `docs/deep-dive/architecture.md:44` suggests; nor is one that is cancelled after another
  error came first (`:966`).  Periodic saves bound the loss to five seconds.
* A download whose settings changed is resized (`:754`) before the old manifest is replaced
  (`:757`): killed in between, with another file size, the old manifest claims bytes that are gone.
* A cancelled command says that its state is saved (`quickget.go:141`) even in single mode
  and while probing, where nothing is.
* `clean` deletes the output of a complete single-mode download when an unfinished manifest
  of an earlier parallel run lies beside it (`quickget.go:336`), contrary to
  `docs/deep-dive/resume-manifest.md:63`.
* A stream whose buffer was full when the last event of a job or a profiler run came is never told
  (`eventbus.go:83`); `eventbus_test.go` fixes that events are dropped.
* Two calls that start one capture at the same time create two downloads, and a capture that is
  rejected while its start is under way ends as started (`manager.go:199`, `:258`).
* `clean` refuses a manifest that does not parse (`quickget.go:333`), contrary to
  `docs/deep-dive/resume-manifest.md:68`.
* The bytes of a dropped connection are requested again from the start of the segment,
  unlike the comment at `downloader.go:523` says.
* A body that ends cleanly too early counts as complete: a 206 body (`:519`), and any body in
  single mode, where nothing compares what came with the size (`:633`).  With
  `ShortBodies = TRUE` neither `ClaimedIsWritten` nor `SuccessMeansWhole` of the engine holds; its runs and
  theorems about content assume a server that sends whole bodies.  `ResumeSession` checks and
  proves with short bodies what then still holds: `FetchShort` is one of the four events that
  make a manifest wrong, and a short single-mode body the one exception to
  `SuccessFromTrust`.
* When the event of a job's start panics (`manager.go:416` meeting `bus_panic`), the HTTP
  server catches it: the job stays running with its slot taken, without a goroutine
  (`:419` is not reached), until it is deleted or the agent restarts.  A pause or a cancellation
  changes its status but not the slot, so it cannot be resumed.
* A job in queue mode, and every run of the profiler, can hang when it is cancelled
  (`queue_stuck`): the job keeps its slot, and the profiler shows as running, until a restart.

## 4. Proofs

Checked by TLAPS for every value of the constants.  Every invariant and every action property
that a run shows to hold on a small instance has a theorem here, and so has the refinement of
`Transfer`.

| Theorem | Says | Assumes |
|---|---|---|
| `LayoutProofs!ChunksConsecutive`, `SegmentsConsecutive` | chunks and segments tile the file | size, connections, segment size positive |
| `LedgerProofs!ChunksTile`, `SegmentsTile` | the same for every file that is cut, and the loop of the code puts the chunks there | `LayoutBounds` |
| `LedgerProofs!MergeIsExact`, `MissingIsExact`, `LengthsAreExact`, `NormalizeIsExact` | each loop of `manifest.go` computes what it is for, from any list of ranges | chunks not empty, for the last |
| `LedgerProofs!TypeCorrect`, `CanonicalForm`, `NothingForgottenOrInvented` | the ledger's type, its canonical form, and that it lists exactly the right bytes | `LedgerAssumption` |
| `LedgerProofs!ResumePlansTheGaps` | the plan of a resumed run is exactly what is missing, in maximal gaps | the same |
| `LedgerProofs!CompleteIsEveryByte` | `Complete` and `Totals` tell the truth | the same |
| `LedgerProofs!FreshLedgersToo` | all of that for manifests just created | and `LayoutBounds` |
| `SegmentEngineProofs!TransferIsHonest` | the abstract download keeps its two promises | |
| `WorkStealingProofs!TypeCorrect` | types of the engine | `EngineAssumption` and the module's assumptions |
| `WorkStealingProofs!OwnershipIsExclusive` | no byte has two owners | the same |
| `WorkStealingProofs!NoByteIsLost` | no byte is without owner while the run can succeed | the same |
| `WorkStealingProofs!CancellationIsSaved` | a run that reports cancellation has saved what it recorded | the same |
| `WorkStealingProofs!ManifestIsNeverAhead` | what the manifest lists is written | and `~ShortBodies` |
| `WorkStealingProofs!SuccessIsWhole` | success means every byte | and `~ShortBodies` |
| `WorkStealingProofs!EngineKeepsThePromise` | work stealing implements `Transfer` | and `~ShortBodies` |
| `SegmentQueueProofs!TypeCorrect`, `OwnershipIsExclusive`, `NoByteIsLost`, `CancellationIsSaved` | the same of queue mode | `EngineAssumption` and the module's assumptions |
| `SegmentQueueProofs!UnlockedReadsAreSafe` | no worker is at a segment whose ranges the producer reads without the lock | the same |
| `SegmentQueueProofs!SuccessIsWhole`, `QueueKeepsThePromise` | success means every byte; queue mode implements `Transfer` | and `~ShortBodies` |
| `ResumeSessionProofs!TypeCorrect` | types of files and settings | the module's assumption |
| `ResumeSessionProofs!TrustIsLostOnlyByTruncation` | only truncation, removal, resizing or a short body makes a manifest claim too much | the same |
| `ResumeSessionProofs!TrustedSuccessIsWhole` | success from a right manifest is the whole file, except at the end of a short single-mode body | the same |
| `ResumeSessionProofs!SavedProgressIsKept` | a saved manifest loses progress to other settings, to clean, to completion, or to a broken-off write, and to nothing else | the same |
| `ResumeSessionProofs!ParallelOnlyIsHonest` | where none of these can happen, every manifest is right and every success whole | no single mode, one size, no removal, `~ShortBodies` |
| `JobManagerProofs!TypeCorrect` | types of the job manager | the module's assumption |
| `JobManagerProofs!SlotsExact` | `m.running` names exactly the runs on their way for jobs that exist | the same |
| `JobManagerProofs!NeverTwoEngines` | no job has two engines | the same |
| `JobManagerProofs!RunningJobsAreReal` | a job that shows as running has a goroutine, or a handler about to start it, or lost it in a panic | the same |
| `JobManagerProofs!StartsAreOwed` | a registered run without a goroutine is about to get one from a handler | the same |
| `JobManagerProofs!CompletedStaysWhole` | a completed job keeps its whole file until a restart | the same |
| `ServicesProofs!TypeCorrect` | types of bus, profiler and captures | the modules' assumptions |
| `ServicesProofs!OneRunAtATime` | one profiler run at a time, and the status agrees with it | the same |
| `ServicesProofs!EventsInOrder` | a stream is told of a run in the run's order | the same |
| `ServicesProofs!StartedCapturesAreReal` | a started capture has its download, on disk too | the same |
| `ServicesProofs!SettledCapturesStay` | a settled capture keeps its status, rejected or started, and gets no further download while the agent lives | the same |

**The ledger.**  The algorithms are loops, so folds in `Ranges`, and the prover cannot do
induction over data with the library's theorems.  The argument is made by hand, over the
turns of one loop.  A fold of the community modules is a recursive function on sets of indices that takes the
greatest out; `FoldExists` shows that such a function exists (otherwise nothing would be known
of it), and the lemmas `AbsorbTurns`, `ScanTurns`, `KeepTurns`, `AddTurns`, `TotalsTurns` turn each fold into
a sequence of values `h[0]`, `h[1]`, … with `h[k]` one turn after `h[k - 1]`.  `Induct` (from the
least counterexample, `LeastNat`) carries a loop invariant along it.  Those invariants are
what the code relies on silently: the merged list is apart (`Apart`: ascending, a gap between
neighbours) and holds the bytes of the ranges seen (`AbsorbStep`); the cursor has passed
exactly the bytes that were decided (`Scanned`, `ScanStep`).  The sort is a choice among all
orders that respect `RangeLess`; that there is one is `SortingExists`.  The
inductive invariant `LedgerInv` then says that each chunk is where the layout put it
(`PlacedInv`) and stands for its part of the truth, normalised or not (`TruthInv`);
without `TruthInv` nothing would be known of a manifest between reading and normalising it.

**The engine.**  What both modes share is proved once, in `SegmentEngineProofs`: of how work
is handed out it assumes only that a picking worker is given some proper range of a chunk
(`Takes`) or leaves (`Departs`).  `EngineInv` says that a worker holds a task exactly in the
states in which it works on one (`HoldInv`), what each phase implies for workers, saver and
verdict (`PhaseInv`, `VerdictInv`), and that a reported cancellation was saved, which is
inductive only with the last save's truncated file in `VerdictInv`.  `ContentInv` adds that
a streaming worker has written up to its offset (`StreamInv`), which a short body breaks; hence
the assumption.  The refinement maps each action to an abstract step or a stutter: a read to
`Fetch`, recording to `Claim`, a save to `Lose` and then `Save`, the verdict to `Report`, a failed
removal to `Disappoint`, a crash to `Die`.  That chunks tile the file (`LayoutProofs`) makes the plan exact:
missing ranges of all chunks partition the open bytes (`MissingRangesExact`).

*Work stealing.*  Neither ownership nor success is inductive alone.  `Ownership` adds that
ranges of the pool are non-empty and inside their chunk (`PoolInv`), and that a worker left
cleanly only when the pool was empty (`DrainedInv`), which is why joining all workers without
an error means that everything is recorded.  `SplitExact` does the arithmetic of halving.

*Queue mode.*  `Delivery` adds: what is queued is inside its segment (`ChannelInv`), so is
what the producer has yet to send of the segment it has read, without overlaps (`BatchInv`); what
is queued or held comes from segments already read (`ReadInv`), from which the unlocked reads are safe; the
producer is done only with everything (`ProducerInv`); and a worker left cleanly only when the
channel was closed and drained (`DrainedInv`).

**Across commands.**  `RunInv` relates a running command to the disk: a parallel run has a
manifest of its own settings and has in memory at least what that lists.  With it each of the
three action properties follows step by step; the ways to lose trust and the ways to lose
progress are exactly the steps where the proof needs an exception, and without the former the
last theorem follows.

**The job manager.**  None of the three safety properties is inductive alone.  `Inductive`
adds: a run that was registered and not yet spawned is owed by exactly one handler, as the
last of its steps (`SpawnsAreOwed`); a job that shows as running has a run in its slot
(`RunningHasRun`); the job of a live run was created (`RunsHaveJobs`); and
nothing survives the process (`NothingOutlives`).  Most steps change neither slots nor the
place of a run, and `CalmStep` does them all at once; what remains is the start, the
settling, the panic of a handler and the end of the process.  `RunningIsReal` needs the other
direction too, that a run without a goroutine is still in some handler's list
(`StartsAreOwed`): handlers keep their starts until they do them (`OwesNoLess`), and only a panic, which marks the run
as lost, empties a list early.  That a completed job keeps its file is an action property on
top of it.  It rests on `Honest`: a run that ended well has left the whole file and no longer
writes (`WholeWhenOk`), a completed job has no run (`CompletedRests`), and only the files of
deleted jobs are removed (`RemovesDeleted`), with `QuietStep` as the common case.

**The services.**  These proofs leave buffers, streams, handlers, runs and captures unbounded and
let panics, kills and restarts come anywhere.  `OneRun` adds to `OneProfilerRun` that a
handler launches only a run that is announced, and no two of them the same (`LaunchesFit`),
and that all earlier runs are over when a run is announced (`Turns`).  `Ordered` adds to `ProfilerEventsInOrder` what is still to be sent: it fits the
place its run has reached (`SendsFit`), so does what is in a channel (`WordsFit`), and it comes
after everything a stream was told (`SendsComeLast`), because a run sends each event to all
streams before it moves on, and only one run does so at a time.  `AllBacked` follows a capture
through memory, the copies that wait to be written and the state file: wherever it is marked,
its download is there, since in every list of steps the creation comes before the mark
(`MarksBacked`).  For settled captures `Quiet` says of each handler that it is about another
capture, has yet to look at this one, or neither creates nor marks any more.

**Model-checked only.**  Liveness (`EveryRunEnds`, `UndisturbedRunSucceeds`, `ShortQueueEnds`,
`StopEndsTheRun`, `CancelledRunEnds`, `CallsEnd`), which rests on fairness and so on ENABLED, out of the
prover's reach.  The five properties that the code violates have counterexamples instead of
proofs.

## 5. Not modelled

* Contents of files and messages; HTTP beyond answer, body and its end; more bytes in a body
  than were asked for; buffers' adaptive size; printed statistics.
* Power loss: neither output nor manifest is flushed, and a crash here is the death of the process.
* A file that changes on the server; the run trusts size and settings (`downloader.go:730`).
* Progress counters, which a retried segment adds to again (`:811`): only displays read them.
* The options of a job, of which the state file keeps some; two jobs on one output path, and
  a second agent beside the first; the token file.
* `Bus.Close`, which the agent never calls; averages and tables of the profiler.
* Client, native host, probe, bench, tune, CLI, names and hashes: sequential code without
  state, of which the models take the results as given.
* The generated web site with the vendored search scripts in `site/assets/javascripts/lunr`: third-party
  code that no part of the program runs.

The agent's engine runs are bounded by the number of calls, which is no restriction of what
can happen to a job between two starts.

## 6. Plan

1. **Agent.**  The options of a job in `JobManager`: retries, headers, queue mode and buffers
   are not in the state file (`manager.go:693`), so a job that goes on after a restart meets a
   manifest of other settings, which `ResumeSession` shows to be replaced.  An abstract job
   (`JobLife`: which statuses may follow which, and when a run may begin) for `JobManager` to implement.
2. **Proofs.**  `JobLife` for `JobManager`.  An abstract ledger (a set of bytes, a load, a record)
   that `ManifestLedger` implements and whose steps are those of `completed` in `SegmentEngine`, so that range
   lists and sets of bytes are joined by a refinement instead of by prose.
3. **Bounds.**  Two jobs during a shutdown; three workers in `stealing`.
