--------------------------- MODULE AgentServices ---------------------------
(***************************************************************************)
(* Captures and profiler beside each other in one agent: they share the    *)
(* handlers, the event bus with its streams, and the manager's lock, which *)
(* the profiler holds while it publishes the end of a run.  A send on a    *)
(* closed channel panics: in a handler the HTTP server catches it, in the  *)
(* profiler's goroutine it ends the process.                               *)
(***************************************************************************)
EXTENDS Profiler, Captures

CONSTANTS
  MaxCalls,     \* bound on the calls
  MaxRestarts   \* bound on the restarts of the agent

ASSUME ServicesAssumption ==
  MaxCalls \in Nat /\ MaxRestarts \in Nat /\ Publisher = Client \union Run

VARIABLES up, calls, restarts

vars == <<bus, profiling, heard, capturing, up, calls, restarts>>

Init ==
  /\ InitBus /\ InitProfiler /\ InitCaptures
  /\ up = TRUE /\ calls = 0 /\ restarts = 0

Resting(c) == todo[c] = <<>> /\ launching[c] = NoRun /\ Silent(c)

\* A call takes the lock first.
Call(c) ==
  /\ up /\ Resting(c) /\ Unlocked
  /\ calls < MaxCalls /\ calls' = calls + 1
  /\ \/ (StartProfiler(c) \/ CancelProfiler(c)) /\ UNCHANGED capturing
     \/ CaptureCall(c) /\ UNCHANGED <<profiling, heard>>
  /\ UNCHANGED <<up, restarts>>

Handler(c) ==
  /\ \/ Launch(c) /\ UNCHANGED capturing
     \/ ((Unlocked /\ Locking(c)) \/ Unhindered(c)) /\ UNCHANGED <<profiling, heard>>
  /\ UNCHANGED <<up, calls, restarts>>

RunStep(r) == ProfilerRun(r) /\ UNCHANGED <<capturing, up, calls, restarts>>

SendNext(p) == Send(p) /\ UNCHANGED <<profiling, heard, capturing, up, calls, restarts>>

StreamStep(s) ==
  /\ up
  /\ \/ Receive(s)
     \/ (Subscribe(s) \/ Unsubscribe(s)) /\ UNCHANGED <<profiling, heard>>
  /\ UNCHANGED <<capturing, up, calls, restarts>>
-----------------------------------------------------------------------------
\* The rest of the handler is not run; no lock is held where it publishes.
HandlerPanics(c) ==
  /\ MeetsClosed(c)
  /\ sending' = [sending EXCEPT ![c] = {}]
  /\ todo' = [todo EXCEPT ![c] = <<>>]
  /\ launching' = [launching EXCEPT ![c] = NoRun]
  /\ UNCHANGED <<stream, channel, profiler, inCharge, runs, heard>>
  /\ UNCHANGED <<captures, downloads, subject, copied, disk, up, calls, restarts>>

\* The process ends: its goroutines, its connections and its memory.
Down ==
  /\ up /\ up' = FALSE
  /\ stream' = [s \in Stream |-> IF stream[s] = "off" THEN "off" ELSE "closed"]
  /\ channel' = [s \in Stream |-> <<>>]
  /\ sending' = [p \in Publisher |-> {}]
  /\ profiler' = IdleProfiler /\ inCharge' = NoRun
  /\ runs' = [r \in Run |-> IF runs[r].at = "unused" THEN runs[r] ELSE OverRun]
  /\ launching' = [c \in Client |-> NoRun]
  /\ todo' = [c \in Client |-> <<>>]
  /\ copied' = [c \in Client |-> Nothing]
  /\ UNCHANGED <<heard, captures, downloads, subject, disk, calls, restarts>>

RunPanics(r) == MeetsClosed(r) /\ Down

Kill == Down /\ UNCHANGED panicked

\* LoadState; the profiler starts afresh.
Restart ==
  /\ ~up /\ up' = TRUE
  /\ restarts < MaxRestarts /\ restarts' = restarts + 1
  /\ captures' = disk.captures /\ downloads' = disk.downloads
  /\ UNCHANGED <<bus, profiling, heard, subject, todo, copied, disk, calls>>

Next ==
  \/ \E c \in Client : Call(c) \/ Handler(c) \/ HandlerPanics(c)
  \/ \E r \in Run : RunStep(r) \/ RunPanics(r)
  \/ \E p \in Publisher : SendNext(p)
  \/ \E s \in Stream : StreamStep(s)
  \/ Kill \/ Restart

Spec == Init /\ [][Next]_vars

(***************************************************************************)
(* Goroutines are scheduled.  A measurement may take forever; a cancelled  *)
(* one returns, or hangs for good (Hang).  Streams read, connect and go    *)
(* away as they like.                                                      *)
(***************************************************************************)
Fairness ==
  /\ \A c \in Client : WF_vars(Handler(c) \/ HandlerPanics(c))
  /\ \A r \in Run :
       WF_vars((RunStep(r) /\ (runs[r].at = "measure" => runs[r].cancelled)) \/ RunPanics(r))
  /\ \A p \in Publisher : WF_vars(SendNext(p))

FairSpec == Spec /\ Fairness
-----------------------------------------------------------------------------
RunPlace == {"unused", "announced", "begun", "loop", "measure", "stuck", "choose", "persist",
             "cancelled", "failed", "done", "telling", "over"}

Event == {Notice} \union (Run \X (0 .. 2))

StepName == {"publish", "copy", "write", "check", "create", "begin", "mark"}

State == [captures : [Capture -> {"unborn", "pending", "rejected", "started"}],
          downloads : [Capture -> Nat]]

TypeOK ==
  /\ stream \in [Stream -> {"off", "open", "closed"}]
  /\ channel \in [Stream -> Seq(Event)] /\ \A s \in Stream : Len(channel[s]) <= Buffer
  /\ sending \in [Publisher -> SUBSET (Event \X Stream)]
  /\ panicked \in BOOLEAN /\ up \in BOOLEAN
  /\ profiler \in [status : {"idle", "running", "ready", "error"}, result : Run \union {NoRun}]
  /\ inCharge \in Run \union {NoRun}
  /\ runs \in [Run -> [at : RunPlace, left : 0 .. Benchmarks, good : BOOLEAN, cancelled : BOOLEAN]]
  /\ launching \in [Client -> Run \union {NoRun}]
  /\ heard \in [Stream -> Event]
  /\ Memory \in State /\ disk \in State /\ copied \in [Client -> State]
  /\ subject \in [Client -> Capture \union {NoCapture}]
  /\ todo \in [Client -> Seq(StepName)]
  /\ calls \in 0 .. MaxCalls /\ restarts \in 0 .. MaxRestarts

Stays(k) == Settled(k)' /\ captures'[k] = captures[k] /\ downloads'[k] = downloads[k]

(***************************************************************************)
(* Once a capture is rejected or started and no start is on its way, it    *)
(* stays what it is, rejected or started, and never gets another download, *)
(* as long as the agent lives: what a client was told about it stays true. *)
(***************************************************************************)
SettledForGood ==
  [][ up => \A k \in Capture : Settled(k) => Stays(k) ]_vars

(***************************************************************************)
(* Every call ends, though streams may stop reading and the profiler       *)
(* publishes under the lock: no publisher ever waits for a reader.         *)
(***************************************************************************)
CallsEnd == \A c \in Client : ~Resting(c) ~> Resting(c)

(***************************************************************************)
(* docs/agent-architecture.md: event streams have "straightforward         *)
(* reconnect behavior".  So a client that goes away harms nobody: no event *)
(* is ever sent to the channel its leaving has closed.                     *)
(***************************************************************************)
NoSendOnClosed == ~panicked
=============================================================================
