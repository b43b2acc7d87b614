--------------------------- MODULE ServicesProofs ---------------------------
(***************************************************************************)
(* Proofs about the bus and the profiler in their agent, for every number  *)
(* of handlers, runs, streams and captures, every capacity of a stream's   *)
(* channel, and panics, kills and restarts anywhere.                       *)
(***************************************************************************)
EXTENDS AgentServices, SequenceTheorems, TLAPS

RunRecord == [at : RunPlace, left : 0 .. Benchmarks, good : BOOLEAN, cancelled : BOOLEAN]

\* The type invariant in parts, and what keeps the count of measurements natural.
BusTyped ==
  /\ stream \in [Stream -> {"off", "open", "closed"}]
  /\ channel \in [Stream -> Seq(Event)] /\ \A s \in Stream : Len(channel[s]) <= Buffer
  /\ sending \in [Publisher -> SUBSET (Event \X Stream)]
  /\ panicked \in BOOLEAN

ProfilerTyped ==
  /\ profiler \in [status : {"idle", "running", "ready", "error"}, result : Run \union {NoRun}]
  /\ inCharge \in Run \union {NoRun}
  /\ runs \in [Run -> RunRecord]
  /\ launching \in [Client -> Run \union {NoRun}]
  /\ heard \in [Stream -> Event]

CapturesTyped ==
  /\ captures \in [Capture -> {"unborn", "pending", "rejected", "started"}]
  /\ downloads \in [Capture -> Nat]
  /\ disk \in State /\ copied \in [Client -> State]
  /\ subject \in [Client -> Capture \union {NoCapture}]
  /\ todo \in [Client -> Seq(StepName)]

MeasuresRemain == \A r \in Run : runs[r].at = "measure" => runs[r].left > 0

LEMMA TypeParts ==
  TypeOK <=> /\ BusTyped /\ ProfilerTyped /\ CapturesTyped
             /\ up \in BOOLEAN /\ calls \in 0 .. MaxCalls /\ restarts \in 0 .. MaxRestarts
<1>1. Memory \in State <=> /\ captures \in [Capture -> {"unborn", "pending", "rejected", "started"}]
                           /\ downloads \in [Capture -> Nat]
  BY DEF Memory, State
<1>2. QED
  BY <1>1 DEF TypeOK, BusTyped, ProfilerTyped, CapturesTyped, RunRecord

LEMMA Publishers ==
  /\ \A c \in Client : c \in Publisher /\ c \notin Run
  /\ \A r \in Run : r \in Publisher /\ r \in Nat \ {0} /\ r # NoRun
BY BusAssumption, ProfilerAssumption DEF Run, NoRun

-----------------------------------------------------------------------------
(***************************************************************************)
(* The operations of the bus.                                              *)
(***************************************************************************)
LEMMA Events ==
  /\ Notice \in Event
  /\ \A r \in Run : Started(r) \in Event /\ Stage(r) \in Event /\ Ended(r) \in Event
BY DEF Notice, Event, Started, Stage, Ended

LEMMA PublishTyped ==
  ASSUME BusTyped, NEW p \in Publisher, NEW event \in Event, Publish(p, event)
  PROVE  BusTyped'
BY DEF BusTyped, Publish, Subscribers

LEMMA SendTyped ==
  ASSUME BusTyped, NEW p \in Publisher, Send(p)
  PROVE  BusTyped'
<1> USE DEF BusTyped
<1>1. PICK item \in sending[p] :
        /\ Accepts(item[2], item[1]) /\ sending' = [sending EXCEPT ![p] = @ \ {item}]
        /\ UNCHANGED <<stream, panicked>>
  BY DEF Send
<1>2. item[1] \in Event /\ item[2] \in Stream
  OBVIOUS
<1>3. CASE Len(channel[item[2]]) < Buffer
  <2>1. channel' = [channel EXCEPT ![item[2]] = Append(@, item[1])]
    BY <1>1, <1>3 DEF Accepts
  <2>2. /\ Append(channel[item[2]], item[1]) \in Seq(Event)
        /\ Len(Append(channel[item[2]], item[1])) = Len(channel[item[2]]) + 1
    BY <1>2
  <2>3. Len(channel[item[2]]) + 1 <= Buffer
    BY <1>2, <1>3, BusAssumption
  <2>4. QED
    BY <1>1, <1>2, <2>1, <2>2, <2>3
<1>4. CASE ~(Len(channel[item[2]]) < Buffer)
  BY <1>1, <1>4 DEF Accepts
<1>5. QED
  BY <1>3, <1>4

LEMMA DeliverTyped ==
  ASSUME BusTyped, NEW s \in Stream, Deliver(s)
  PROVE  BusTyped' /\ Head(channel[s]) \in Event
<1> USE DEF BusTyped
<1>1. /\ channel[s] \in Seq(Event) /\ channel[s] # <<>>
      /\ channel' = [channel EXCEPT ![s] = Tail(@)]
      /\ UNCHANGED <<stream, sending, panicked>>
  BY DEF Deliver
<1>2. /\ Head(channel[s]) \in Event /\ Tail(channel[s]) \in Seq(Event)
      /\ Len(Tail(channel[s])) = Len(channel[s]) - 1
  BY <1>1, HeadTailProperties
<1>3. Len(Tail(channel[s])) <= Buffer
  BY <1>1, <1>2, BusAssumption, LenProperties
<1>4. QED
  BY <1>1, <1>2, <1>3

LEMMA StreamTyped ==
  ASSUME BusTyped, NEW s \in Stream, Subscribe(s) \/ Unsubscribe(s)
  PROVE  BusTyped'
<1> USE DEF BusTyped
<1>1. CASE Subscribe(s)
  BY <1>1 DEF Subscribe
<1>2. CASE Unsubscribe(s)
  <2>1. <<>> \in Seq(Event) /\ Len(<<>>) = 0
    OBVIOUS
  <2>2. 0 <= Buffer
    BY BusAssumption
  <2>3. QED
    BY <1>2, <2>1, <2>2 DEF Unsubscribe
<1>3. QED
  BY <1>1, <1>2

-----------------------------------------------------------------------------
(***************************************************************************)
(* The steps of the profiler.                                              *)
(***************************************************************************)
LEMMA PlaceTyped ==
  ASSUME ProfilerTyped, MeasuresRemain, NEW r \in Run, NEW place \in RunPlace,
         place = "measure" => runs[r].left > 0,
         runs' = [runs EXCEPT ![r].at = place]
  PROVE  runs' \in [Run -> RunRecord] /\ MeasuresRemain'
<1>1. runs[r] \in RunRecord
  BY DEF ProfilerTyped
<1>2. /\ [runs[r] EXCEPT !.at = place] \in RunRecord
      /\ [runs[r] EXCEPT !.at = place].at = place
      /\ [runs[r] EXCEPT !.at = place].left = runs[r].left
  BY <1>1 DEF RunRecord
<1>3. runs' = [runs EXCEPT ![r] = [runs[r] EXCEPT !.at = place]]
  BY DEF ProfilerTyped
<1>4. QED
  BY <1>2, <1>3 DEF ProfilerTyped, MeasuresRemain

LEMMA UnusedRun == NewRun \in RunRecord /\ NewRun.at = "unused" /\ NewRun.left = Benchmarks
BY ProfilerAssumption DEF NewRun, RunRecord, RunPlace

LEMMA EndedRun == OverRun \in RunRecord /\ OverRun.at = "over"
BY UnusedRun DEF OverRun, NewRun, RunRecord, RunPlace

LEMMA ProfilerCallTyped ==
  ASSUME BusTyped, ProfilerTyped, MeasuresRemain, NEW c \in Client,
         StartProfiler(c) \/ CancelProfiler(c)
  PROVE  BusTyped' /\ ProfilerTyped' /\ MeasuresRemain'
<1>1. CASE StartProfiler(c)
  <2>1. PICK r \in Run :
          /\ profiler' = [status |-> "running", result |-> NoRun]
          /\ inCharge' = r
          /\ runs' = [runs EXCEPT ![r].at = "announced"]
          /\ launching' = [launching EXCEPT ![c] = r]
          /\ Publish(c, Started(r))
    BY <1>1 DEF StartProfiler
  <2>2. BusTyped'
    BY <2>1, Events, Publishers, PublishTyped
  <2>3. runs' \in [Run -> RunRecord] /\ MeasuresRemain'
    BY <2>1, PlaceTyped DEF RunPlace
  <2>4. QED
    BY <1>1, <2>1, <2>2, <2>3 DEF ProfilerTyped, StartProfiler
<1>2. CASE CancelProfiler(c)
  <2>1. /\ inCharge \in Run /\ runs' = [runs EXCEPT ![inCharge].cancelled = TRUE]
        /\ UNCHANGED <<profiler, inCharge, launching, heard, bus>>
    BY <1>2 DEF CancelProfiler, ProfilerTyped
  <2>2. /\ [runs[inCharge] EXCEPT !.cancelled = TRUE] \in RunRecord
        /\ [runs[inCharge] EXCEPT !.cancelled = TRUE].at = runs[inCharge].at
        /\ [runs[inCharge] EXCEPT !.cancelled = TRUE].left = runs[inCharge].left
    BY <2>1 DEF ProfilerTyped, RunRecord
  <2>3. runs' = [runs EXCEPT ![inCharge] = [runs[inCharge] EXCEPT !.cancelled = TRUE]]
    BY <2>1 DEF ProfilerTyped
  <2>4. runs' \in [Run -> RunRecord] /\ MeasuresRemain'
    BY <2>1, <2>2, <2>3 DEF ProfilerTyped, MeasuresRemain
  <2>5. QED
    BY <2>1, <2>4 DEF BusTyped, ProfilerTyped, bus
<1>3. QED
  BY <1>1, <1>2

LEMMA LaunchTyped ==
  ASSUME BusTyped, ProfilerTyped, MeasuresRemain, NEW c \in Client, Launch(c)
  PROVE  BusTyped' /\ ProfilerTyped' /\ MeasuresRemain'
<1>1. /\ launching[c] \in Run /\ runs' = [runs EXCEPT ![launching[c]].at = "begun"]
      /\ launching' = [launching EXCEPT ![c] = NoRun]
      /\ UNCHANGED <<profiler, inCharge, heard, bus>>
  BY DEF Launch, ProfilerTyped
<1>2. runs' \in [Run -> RunRecord] /\ MeasuresRemain'
  BY <1>1, PlaceTyped DEF RunPlace
<1>3. QED
  BY <1>1, <1>2 DEF BusTyped, ProfilerTyped, bus

(***************************************************************************)
(* Where a step takes a run: to a place, with or without an event.         *)
(***************************************************************************)
LEMMA QuickSteps ==
  ASSUME NEW r \in Run, Quick(r) \/ Hang(r)
  PROVE  \E place \in RunPlace \ {"unused", "announced", "begun", "telling", "over"} :
           /\ runs[r].at \in {"begun", "loop", "measure", "choose", "persist"}
           /\ place = "measure" => runs[r].left > 0
           /\ Emit(r, place) \/ Goes(r, place)
BY DEF Quick, Prepare, Loop, Choose, Persist, Hang, RunPlace

LEMMA MeasureStep ==
  ASSUME ProfilerTyped, MeasuresRemain, NEW r \in Run, Measure(r)
  PROVE  /\ UNCHANGED bus
         /\ runs[r].at = "measure"
         /\ \E run \in RunRecord : run.at = "loop" /\ runs' = [runs EXCEPT ![r] = run]
<1>1. PICK good \in {runs[r].good, TRUE} :
        runs' = [runs EXCEPT ![r].at = "loop", ![r].left = @ - 1, ![r].good = good]
  BY DEF Measure
<1> DEFINE run == [runs[r] EXCEPT !.at = "loop", !.left = runs[r].left - 1, !.good = good]
<1>2. runs[r] \in RunRecord /\ runs[r].left > 0 /\ runs[r].left \in 0 .. Benchmarks
  BY DEF Measure, ProfilerTyped, MeasuresRemain, RunRecord
<1>3. runs[r].left - 1 \in 0 .. Benchmarks
  BY <1>2, ProfilerAssumption
<1>4. good \in BOOLEAN
  BY <1>2 DEF RunRecord
<1>5. run \in RunRecord /\ run.at = "loop"
  BY <1>2, <1>3, <1>4 DEF RunRecord, RunPlace
<1>6. runs' = [runs EXCEPT ![r] = run]
  BY <1>1 DEF ProfilerTyped
<1>7. QED
  BY <1>5, <1>6 DEF Measure

LEMMA RunTyped ==
  ASSUME BusTyped, ProfilerTyped, MeasuresRemain, NEW r \in Run, ProfilerRun(r)
  PROVE  BusTyped' /\ ProfilerTyped' /\ MeasuresRemain'
<1>1. CASE (Quick(r) \/ Hang(r)) /\ UNCHANGED <<profiler, inCharge, launching, heard>>
  <2>1. PICK place \in RunPlace :
          /\ place = "measure" => runs[r].left > 0
          /\ Emit(r, place) \/ Goes(r, place)
    BY <1>1, QuickSteps
  <2>2. BusTyped'
    <3>1. CASE Emit(r, place)
      BY <3>1, Events, Publishers, PublishTyped DEF Emit
    <3>2. CASE Goes(r, place)
      BY <3>2 DEF Goes, bus, BusTyped
    <3>3. QED
      BY <2>1, <3>1, <3>2
  <2>3. runs' \in [Run -> RunRecord] /\ MeasuresRemain'
    BY <2>1, PlaceTyped DEF Emit, Goes
  <2>4. QED
    BY <1>1, <2>2, <2>3 DEF ProfilerTyped
<1>2. CASE Measure(r) /\ UNCHANGED <<profiler, inCharge, launching, heard>>
  <2>1. PICK run \in RunRecord : run.at = "loop" /\ runs' = [runs EXCEPT ![r] = run]
    BY <1>2, MeasureStep
  <2>2. runs' \in [Run -> RunRecord] /\ MeasuresRemain'
    BY <2>1 DEF ProfilerTyped, MeasuresRemain
  <2>3. QED
    BY <1>2, <2>2, MeasureStep DEF BusTyped, ProfilerTyped, bus
<1>3. CASE Conclude(r) /\ UNCHANGED <<launching, heard>>
  <2>1. BusTyped'
    BY <1>3, Events, Publishers, PublishTyped DEF Conclude
  <2>2. runs' \in [Run -> RunRecord] /\ MeasuresRemain'
    BY <1>3, PlaceTyped DEF Conclude, RunPlace
  <2>3. Outcome(r) \in [status : {"idle", "running", "ready", "error"}, result : Run \union {NoRun}]
    BY <1>3 DEF Conclude, Outcome
  <2>4. QED
    BY <1>3, <2>1, <2>2, <2>3 DEF ProfilerTyped, Conclude
<1>4. CASE Release(r) /\ UNCHANGED <<launching, heard>>
  BY <1>4, EndedRun DEF Release, BusTyped, ProfilerTyped, MeasuresRemain, bus
<1>5. QED
  BY <1>1, <1>2, <1>3, <1>4 DEF ProfilerRun

(***************************************************************************)
(* A stream that passes on an event.                                       *)
(***************************************************************************)
LEMMA ReceiveTyped ==
  ASSUME BusTyped, ProfilerTyped, MeasuresRemain, NEW s \in Stream, Receive(s)
  PROVE  BusTyped' /\ ProfilerTyped' /\ MeasuresRemain'
<1>1. BusTyped' /\ Head(channel[s]) \in Event
  BY DeliverTyped DEF Receive
<1>2. UNCHANGED profiling
  BY DEF Receive
<1>3. heard' \in [Stream -> Event]
  BY <1>1 DEF Receive, ProfilerTyped
<1>4. QED
  BY <1>1, <1>2, <1>3 DEF profiling, ProfilerTyped, MeasuresRemain

-----------------------------------------------------------------------------
(***************************************************************************)
(* The lists of steps that captures leave to a handler.                    *)
(***************************************************************************)
LEMMA StepLists ==
  /\ <<>> \in Seq(StepName) /\ Report \in Seq(StepName) /\ StartSteps \in Seq(StepName)
  /\ <<"publish">> \in Seq(StepName) /\ <<"write">> \in Seq(StepName)
<1>1. /\ <<>> \in Seq(StepName)
      /\ <<"publish", "copy">> \in Seq(StepName)
      /\ <<"publish">> \in Seq(StepName) /\ <<"write">> \in Seq(StepName)
      /\ <<"begin">> \in Seq(StepName) /\ <<"mark">> \in Seq(StepName)
      /\ <<"check", "create">> \in Seq(StepName)
  BY DEF StepName
<1>2. Report \in Seq(StepName)
  BY <1>1 DEF Report
<1>3. StartSteps \in Seq(StepName)
  BY <1>1, <1>2, ConcatProperties DEF StartSteps
<1>4. QED
  BY <1>1, <1>2, <1>3

LEMMA RestTyped ==
  ASSUME CapturesTyped, NEW c \in Client, NEW step, Due(c, step)
  PROVE  /\ todo[c] \in Seq(StepName) /\ Len(todo[c]) \in Nat \ {0} /\ todo[c][1] = Step(c)
         /\ Rest(c) \in Seq(StepName) /\ Len(Rest(c)) = Len(todo[c]) - 1
         /\ \A i \in 1 .. Len(Rest(c)) : Rest(c)[i] = todo[c][i + 1]
<1>1. todo[c] \in Seq(StepName) /\ todo[c] # <<>>
  BY DEF CapturesTyped, Due
<1>2. QED
  BY <1>1, HeadTailProperties, EmptySeq DEF Rest, Step

LEMMA CaptureCallTyped ==
  ASSUME BusTyped, CapturesTyped, NEW c \in Client, CaptureCall(c)
  PROVE  BusTyped' /\ CapturesTyped'
<1>1. PICK k \in Capture : CreateCapture(c, k) \/ RejectCapture(c, k) \/ StartCapture(c, k)
  BY DEF CaptureCall
<1>2. BusTyped'
  BY <1>1 DEF CreateCapture, RejectCapture, StartCapture, bus, BusTyped
<1>3. CASE CreateCapture(c, k)
  <2>1. PICK duplicate \in {<<>>, <<"publish">>}, auto \in {<<>>, StartSteps} :
          Plan(c, k, duplicate \o Report \o auto)
    BY <1>3 DEF CreateCapture
  <2>2. duplicate \o Report \o auto \in Seq(StepName)
    BY <2>1, StepLists, ConcatProperties
  <2>3. QED
    BY <1>2, <1>3, <2>1, <2>2 DEF CreateCapture, Plan, CapturesTyped
<1>4. CASE RejectCapture(c, k)
  BY <1>2, <1>4, StepLists DEF RejectCapture, Plan, CapturesTyped
<1>5. CASE StartCapture(c, k)
  BY <1>2, <1>5, StepLists DEF StartCapture, Plan, CapturesTyped
<1>6. QED
  BY <1>1, <1>3, <1>4, <1>5

LEMMA MemoryTyped ==
  ASSUME CapturesTyped
  PROVE  Memory \in State /\ Nothing \in State
BY DEF CapturesTyped, Memory, Nothing, State


LEMMA LockingTyped ==
  ASSUME BusTyped, CapturesTyped, NEW c \in Client, Locking(c)
  PROVE  BusTyped' /\ CapturesTyped'
<1>1. BusTyped'
  BY DEF Locking, Check, CreateDownload, BeginDownload, MarkStarted, CopyState, Does, bus, BusTyped
<1>2. todo' \in [Client -> Seq(StepName)]
  <2>1. PICK step : Due(c, step)
    BY DEF Locking, Check, CreateDownload, BeginDownload, MarkStarted, CopyState, Does
  <2>2. Rest(c) \in Seq(StepName) /\ <<>> \in Seq(StepName) /\ <<"write">> \o Rest(c) \in Seq(StepName)
    BY <2>1, RestTyped, StepLists, ConcatProperties
  <2>3. \E steps \in {Rest(c), <<>>, <<"write">> \o Rest(c)} : todo' = [todo EXCEPT ![c] = steps]
    BY DEF Locking, Check, CreateDownload, BeginDownload, MarkStarted, CopyState, Does
  <2>4. QED
    BY <2>2, <2>3 DEF CapturesTyped
<1>3. CASE CreateDownload(c)
  <2>1. downloads' \in [Capture -> Nat]
    <3>1. /\ downloads \in [Capture -> Nat]
          /\ downloads' = [downloads EXCEPT ![subject[c]] = downloads[subject[c]] + 1]
      BY <1>3 DEF CreateDownload, CapturesTyped
    <3>2. \A k \in Capture : downloads'[k] \in {downloads[k], downloads[k] + 1} /\ downloads[k] \in Nat
      BY <3>1
    <3>3. \A k \in Capture : downloads'[k] \in Nat
      BY <3>2
    <3>4. QED
      BY <3>1, <3>3
  <2>2. QED
    BY <1>1, <1>2, <1>3, <2>1 DEF CreateDownload, CapturesTyped
<1>4. CASE CopyState(c)
  BY <1>1, <1>2, <1>4, MemoryTyped DEF CopyState, CapturesTyped
<1>5. CASE Check(c) \/ BeginDownload(c)
  BY <1>1, <1>2, <1>5 DEF Check, BeginDownload, CapturesTyped
<1>6. CASE MarkStarted(c)
  BY <1>1, <1>2, <1>6 DEF MarkStarted, CapturesTyped
<1>7. QED
  BY <1>3, <1>4, <1>5, <1>6 DEF Locking

LEMMA UnhinderedTyped ==
  ASSUME BusTyped, CapturesTyped, NEW c \in Client, Unhindered(c)
  PROVE  BusTyped' /\ CapturesTyped'
<1>1. todo' \in [Client -> Seq(StepName)]
  <2>1. PICK step : Does(c, step)
    BY DEF Unhindered, Tell, WriteState
  <2>2. QED
    BY <2>1, RestTyped DEF Does, CapturesTyped
<1>2. CASE Tell(c)
  <2>1. BusTyped'
    BY <1>2, Events, Publishers, PublishTyped DEF Tell
  <2>2. QED
    BY <1>1, <1>2, <2>1 DEF Tell, CapturesTyped
<1>3. CASE WriteState(c)
  BY <1>1, <1>3, MemoryTyped DEF WriteState, CapturesTyped, BusTyped, bus
<1>4. QED
  BY <1>2, <1>3 DEF Unhindered

-----------------------------------------------------------------------------
(***************************************************************************)
(* The steps of the whole agent.                                           *)
(***************************************************************************)
Typed == BusTyped /\ ProfilerTyped /\ MeasuresRemain /\ CapturesTyped

LEMMA DownTyped ==
  ASSUME Typed, Down
  PROVE  stream' \in [Stream -> {"off", "open", "closed"}]
         /\ channel' \in [Stream -> Seq(Event)] /\ (\A s \in Stream : Len(channel'[s]) <= Buffer)
         /\ sending' \in [Publisher -> SUBSET (Event \X Stream)]
         /\ ProfilerTyped' /\ MeasuresRemain' /\ CapturesTyped'
<1>1. /\ stream' \in [Stream -> {"off", "open", "closed"}]
      /\ sending' \in [Publisher -> SUBSET (Event \X Stream)]
  BY DEF Typed, BusTyped, Down
<1>2. channel' \in [Stream -> Seq(Event)] /\ \A s \in Stream : Len(channel'[s]) <= Buffer
  <2>1. <<>> \in Seq(Event) /\ Len(<<>>) = 0 /\ 0 <= Buffer
    BY BusAssumption
  <2>2. QED
    BY <2>1 DEF Down
<1>3. ProfilerTyped' /\ MeasuresRemain'
  <2>1. \A r \in Run : /\ runs'[r] \in RunRecord
                       /\ runs'[r].at \in {"unused", "over"}
    BY EndedRun DEF Typed, ProfilerTyped, Down
  <2>2. runs' \in [Run -> RunRecord] /\ MeasuresRemain'
    BY <2>1 DEF Down, MeasuresRemain
  <2>3. QED
    BY <2>2 DEF Typed, ProfilerTyped, Down, IdleProfiler
<1>4. CapturesTyped'
  <2>1. <<>> \in Seq(StepName)
    OBVIOUS
  <2>2. QED
    BY <2>1, MemoryTyped DEF Typed, CapturesTyped, Down
<1>5. QED
  BY <1>1, <1>2, <1>3, <1>4

LEMMA PanicTyped ==
  ASSUME Typed, NEW c \in Client, HandlerPanics(c)
  PROVE  Typed'
<1>1. BusTyped'
  BY DEF Typed, BusTyped, HandlerPanics, MeetsClosed
<1>2. ProfilerTyped' /\ MeasuresRemain'
  BY DEF Typed, ProfilerTyped, MeasuresRemain, HandlerPanics
<1>3. CapturesTyped'
  <2>1. <<>> \in Seq(StepName)
    OBVIOUS
  <2>2. QED
    BY <2>1 DEF Typed, CapturesTyped, HandlerPanics
<1>4. QED
  BY <1>1, <1>2, <1>3 DEF Typed

LEMMA TypedStep == Typed /\ [Next]_vars => Typed'
<1> SUFFICES ASSUME Typed, [Next]_vars PROVE Typed'
  OBVIOUS
<1> USE DEF Typed
<1>1. ASSUME NEW c \in Client, Call(c) PROVE Typed'
  <2>1. CASE (StartProfiler(c) \/ CancelProfiler(c)) /\ UNCHANGED capturing
    BY <2>1, ProfilerCallTyped DEF capturing, CapturesTyped
  <2>2. CASE CaptureCall(c) /\ UNCHANGED <<profiling, heard>>
    BY <2>2, CaptureCallTyped DEF profiling, ProfilerTyped, MeasuresRemain
  <2>3. QED
    BY <1>1, <2>1, <2>2 DEF Call
<1>2. ASSUME NEW c \in Client, Handler(c) PROVE Typed'
  <2>1. CASE Launch(c) /\ UNCHANGED capturing
    BY <2>1, LaunchTyped DEF capturing, CapturesTyped
  <2>2. CASE (Locking(c) \/ Unhindered(c)) /\ UNCHANGED <<profiling, heard>>
    BY <2>2, LockingTyped, UnhinderedTyped DEF profiling, ProfilerTyped, MeasuresRemain
  <2>3. QED
    BY <1>2, <2>1, <2>2 DEF Handler
<1>3. ASSUME NEW r \in Run, RunStep(r) PROVE Typed'
  BY <1>3, RunTyped DEF RunStep, capturing, CapturesTyped
<1>4. ASSUME NEW p \in Publisher, SendNext(p) PROVE Typed'
  BY <1>4, SendTyped DEF SendNext, profiling, ProfilerTyped, MeasuresRemain, capturing, CapturesTyped
<1>5. ASSUME NEW s \in Stream, StreamStep(s) PROVE Typed'
  <2>1. CASE Receive(s)
    BY <1>5, <2>1, ReceiveTyped DEF StreamStep, capturing, CapturesTyped
  <2>2. CASE (Subscribe(s) \/ Unsubscribe(s)) /\ UNCHANGED <<profiling, heard>>
    BY <1>5, <2>2, StreamTyped
       DEF StreamStep, profiling, ProfilerTyped, MeasuresRemain, capturing, CapturesTyped
  <2>3. QED
    BY <1>5, <2>1, <2>2 DEF StreamStep
<1>6. ASSUME NEW r \in Run, RunPanics(r) PROVE Typed'
  BY <1>6, DownTyped DEF RunPanics, MeetsClosed, BusTyped
<1>7. CASE Kill
  BY <1>7, DownTyped DEF Kill, BusTyped
<1>8. CASE Restart
  <2>1. disk.captures \in [Capture -> {"unborn", "pending", "rejected", "started"}]
        /\ disk.downloads \in [Capture -> Nat]
    BY DEF CapturesTyped, State
  <2>2. QED
    BY <1>8, <2>1 DEF Restart, BusTyped, ProfilerTyped, MeasuresRemain, CapturesTyped, bus, profiling
<1>9. CASE UNCHANGED vars
  BY <1>9 DEF vars, bus, profiling, capturing, BusTyped, ProfilerTyped, MeasuresRemain, CapturesTyped
<1>10. QED
  BY <1>1, <1>2, <1>3, <1>4, <1>5, <1>6, <1>7, <1>8, <1>9, PanicTyped DEF Next

LEMMA CountsTyped ==
  ASSUME up \in BOOLEAN, calls \in 0 .. MaxCalls, restarts \in 0 .. MaxRestarts, [Next]_vars
  PROVE  up' \in BOOLEAN /\ calls' \in 0 .. MaxCalls /\ restarts' \in 0 .. MaxRestarts
<1>1. CASE \E c \in Client : Call(c)
  BY <1>1, ServicesAssumption DEF Call
<1>2. CASE Restart
  BY <1>2, ServicesAssumption DEF Restart
<1>3. CASE ~Restart /\ ~(\E c \in Client : Call(c)) /\ Next
  <2>1. UNCHANGED <<calls, restarts>> /\ up' \in {up, FALSE}
    BY <1>3 DEF Next, Handler, HandlerPanics, RunStep, RunPanics, SendNext, StreamStep, Kill, Down
  <2>2. QED
    BY <2>1
<1>4. CASE UNCHANGED vars
  BY <1>4 DEF vars
<1>5. QED
  BY <1>1, <1>2, <1>3, <1>4

LEMMA TypedInit == Init => Typed
<1> SUFFICES ASSUME Init PROVE Typed
  OBVIOUS
<1>1. <<>> \in Seq(Event) /\ Len(<<>>) = 0 /\ 0 <= Buffer /\ <<>> \in Seq(StepName)
  BY BusAssumption
<1>2. BusTyped
  BY <1>1 DEF Init, InitBus, BusTyped
<1>3. ProfilerTyped /\ MeasuresRemain
  <2>1. <<NoRun, 0>> \in Event
    BY DEF Event, Notice, NoRun
  <2>2. QED
    BY <2>1, UnusedRun DEF Init, InitProfiler, ProfilerTyped, MeasuresRemain, IdleProfiler
<1>4. CapturesTyped
  <2>1. captures \in [Capture -> {"unborn", "pending", "rejected", "started"}]
        /\ downloads \in [Capture -> Nat]
    BY DEF Init, InitCaptures, Nothing
  <2>2. Memory \in State /\ Nothing \in State
    BY <2>1 DEF Memory, Nothing, State
  <2>3. QED
    BY <1>1, <2>1, <2>2 DEF Init, InitCaptures, CapturesTyped
<1>5. QED
  BY <1>2, <1>3, <1>4 DEF Typed

\* The types of bus, profiler and captures hold in every state.
THEOREM TypedHolds == Spec => []Typed
BY TypedInit, TypedStep, PTL DEF Spec

(***************************************************************************)
(* Every variable of the services keeps its type; in particular no channel *)
(* ever holds more than its capacity.                                      *)
(***************************************************************************)
THEOREM TypeCorrect == Spec => []TypeOK
<1> DEFINE Counts == up \in BOOLEAN /\ calls \in 0 .. MaxCalls /\ restarts \in 0 .. MaxRestarts
<1>1. Init => Counts
  BY ServicesAssumption DEF Init
<1>2. Counts /\ [Next]_vars => Counts'
  BY CountsTyped
<1>3. Typed /\ Counts => TypeOK
  BY TypeParts DEF Typed
<1> HIDE DEF Counts
<1>4. QED
  BY TypedHolds, <1>1, <1>2, <1>3, PTL DEF Spec
-----------------------------------------------------------------------------
(***************************************************************************)
(* One run at a time.  A handler launches the run it has announced, and no *)
(* other handler launches it; earlier runs are over when a later one is    *)
(* announced.                                                              *)
(***************************************************************************)
LaunchesFit ==
  /\ \A c \in Client : launching[c] # NoRun => runs[launching[c]].at = "announced"
  /\ \A c, d \in Client : launching[c] # NoRun /\ launching[c] = launching[d] => c = d

Turns == \A q, r \in Run : q < r /\ runs[r].at # "unused" => runs[q].at = "over"

OneRun == OneProfilerRun /\ LaunchesFit /\ Turns

\* The places of a run that can publish stages.
Working == {"loop", "measure", "stuck", "choose", "persist", "cancelled", "failed", "done"}

LEMMA PlaceChanges ==
  ASSUME runs \in [Run -> RunRecord], NEW r \in Run, NEW place,
         runs' = [runs EXCEPT ![r].at = place]
  PROVE  runs'[r].at = place /\ \A q \in Run : q # r => runs'[q] = runs[q]
<1>1. \A x \in RunRecord : [x EXCEPT !.at = place].at = place
  BY DEF RunRecord
<1>2. runs' = [runs EXCEPT ![r] = [runs[r] EXCEPT !.at = place]]
  OBVIOUS
<1>3. QED
  BY <1>1, <1>2

(***************************************************************************)
(* A run goes on, comes to its end, or releases the lock after it.         *)
(***************************************************************************)
GoesOn(r) ==
  /\ runs[r].at \in {"begun", "loop", "measure", "choose", "persist"}
  /\ runs'[r].at \in Working
  /\ UNCHANGED <<profiler, inCharge>>
  /\ UNCHANGED bus \/ Publish(r, Stage(r))

ComesToEnd(r) ==
  /\ runs[r].at \in {"cancelled", "failed", "done"} /\ Unlocked
  /\ runs'[r].at = "telling"
  /\ profiler'.status # "running" /\ inCharge' = NoRun
  /\ Publish(r, Ended(r))

LetsGo(r) ==
  /\ runs[r].at = "telling" /\ runs'[r].at = "over"
  /\ UNCHANGED <<profiler, inCharge, bus>>

LEMMA RunGoes ==
  ASSUME Typed, NEW r \in Run, ProfilerRun(r)
  PROVE  /\ \A q \in Run : q # r => runs'[q].at = runs[q].at
         /\ UNCHANGED <<launching, heard, panicked>> /\ Silent(r)
         /\ GoesOn(r) \/ ComesToEnd(r) \/ LetsGo(r)
<1> USE DEF Typed, ProfilerTyped
<1>1. CASE (Quick(r) \/ Hang(r)) /\ UNCHANGED <<profiler, inCharge, launching, heard>>
  <2>1. PICK place \in RunPlace \ {"unused", "announced", "begun", "telling", "over"} :
          /\ runs[r].at \in {"begun", "loop", "measure", "choose", "persist"}
          /\ Emit(r, place) \/ Goes(r, place)
    BY <1>1, QuickSteps
  <2>2. place \in Working
    BY DEF RunPlace, Working
  <2>3. runs' = [runs EXCEPT ![r].at = place]
    BY <2>1 DEF Emit, Goes
  <2>4. runs'[r].at = place /\ \A q \in Run : q # r => runs'[q] = runs[q]
    BY <2>3, PlaceChanges
  <2>5. UNCHANGED panicked
    BY <2>1 DEF Emit, Goes, Publish, bus
  <2>6. GoesOn(r)
    BY <1>1, <2>1, <2>2, <2>4 DEF GoesOn, Emit, Goes
  <2>7. QED
    BY <1>1, <2>4, <2>5, <2>6 DEF ProfilerRun
<1>2. CASE Measure(r) /\ UNCHANGED <<profiler, inCharge, launching, heard>>
  <2>1. PICK run \in RunRecord : run.at = "loop" /\ runs' = [runs EXCEPT ![r] = run]
    BY <1>2, MeasureStep
  <2>2. runs[r].at = "measure" /\ UNCHANGED bus
    BY <1>2, MeasureStep
  <2>3. QED
    BY <1>2, <2>1, <2>2 DEF GoesOn, Working, bus, ProfilerRun
<1>3. CASE Conclude(r) /\ UNCHANGED <<launching, heard>>
  <2>1. runs'[r].at = "telling" /\ \A q \in Run : q # r => runs'[q] = runs[q]
    BY <1>3, PlaceChanges DEF Conclude
  <2>2. Outcome(r).status # "running"
    BY <1>3 DEF Conclude, Outcome
  <2>3. QED
    BY <1>3, <2>1, <2>2 DEF Conclude, ComesToEnd, Publish, ProfilerRun
<1>4. CASE Release(r) /\ UNCHANGED <<launching, heard>>
  BY <1>4, EndedRun DEF Release, LetsGo, bus, ProfilerRun
<1>5. QED
  BY <1>1, <1>2, <1>3, <1>4 DEF ProfilerRun

LEMMA OneRunGoes ==
  ASSUME Typed, Typed', OneRun, NEW r \in Run, ProfilerRun(r)
  PROVE  OneRun'
<1>1. /\ \A q \in Run : q # r => runs'[q].at = runs[q].at
      /\ UNCHANGED <<launching, panicked>>
      /\ GoesOn(r) \/ ComesToEnd(r) \/ LetsGo(r)
  BY RunGoes
<1>2. r # NoRun /\ inCharge \in Run \union {NoRun}
  BY Publishers DEF Typed, ProfilerTyped
<1>3. runs[r].at \notin {"unused", "announced", "over"} /\ runs'[r].at \notin {"unused", "announced"}
  BY <1>1 DEF GoesOn, ComesToEnd, LetsGo, Working
<1>4. LaunchesFit'
  <2>1. \A c \in Client : launching[c] # r
    BY <1>2, <1>3 DEF OneRun, LaunchesFit
  <2>2. \A c \in Client : launching[c] # NoRun => launching[c] \in Run
    BY DEF Typed, ProfilerTyped
  <2>3. QED
    BY <1>1, <2>1, <2>2 DEF OneRun, LaunchesFit
<1>5. Turns'
  <2>1. \A q \in Run : q > r => runs[q].at = "unused"
    BY <1>3 DEF OneRun, Turns
  <2>2. ASSUME NEW q \in Run, NEW p \in Run, q < p, runs'[p].at # "unused"
        PROVE  runs'[q].at = "over"
    <3>1. runs[p].at # "unused"
      BY <1>1, <1>3, <2>2
    <3>2. runs[q].at = "over"
      BY <2>2, <3>1 DEF OneRun, Turns
    <3>3. q # r
      BY <1>3, <3>2
    <3>4. QED
      BY <1>1, <3>2, <3>3
  <2>3. QED
    BY <2>2 DEF Turns
<1>6. OneProfilerRun'
  <2>1. CASE GoesOn(r)
    <3>1. \A q \in Run : Active(q)' <=> Active(q)
      BY <1>1, <2>1 DEF GoesOn, Working, Active
    <3>2. QED
      BY <1>1, <1>3, <2>1, <3>1 DEF OneRun, OneProfilerRun, GoesOn
  <2>2. CASE ComesToEnd(r)
    <3>1. Active(r) /\ inCharge = r
      BY <2>2 DEF OneRun, OneProfilerRun, ComesToEnd, Active
    <3>2. \A q \in Run : q # r => ~Active(q)
      BY <3>1 DEF OneRun, OneProfilerRun
    <3>3. \A q \in Run : ~Active(q)'
      BY <1>1, <2>2, <3>2 DEF ComesToEnd, Active
    <3>4. \A q \in Run : q # NoRun
      BY Publishers
    <3>5. QED
      BY <1>1, <1>3, <2>2, <3>3, <3>4 DEF OneRun, OneProfilerRun, ComesToEnd
  <2>3. CASE LetsGo(r)
    <3>1. \A q \in Run : Active(q)' <=> Active(q)
      BY <1>1, <2>3 DEF LetsGo, Active
    <3>2. QED
      BY <1>1, <1>3, <2>3, <3>1 DEF OneRun, OneProfilerRun, LetsGo
  <2>4. QED
    BY <1>1, <2>1, <2>2, <2>3
<1>7. QED
  BY <1>4, <1>5, <1>6 DEF OneRun

(***************************************************************************)
(* A step that moves no run keeps it.                                      *)
(***************************************************************************)
LEMMA OneRunQuiet ==
  ASSUME OneRun, UNCHANGED <<profiler, inCharge, launching>>, panicked => panicked',
         \A r \in Run : runs'[r].at = runs[r].at, launching \in [Client -> Run \union {NoRun}]
  PROVE  OneRun'
<1>1. OneProfilerRun'
  BY DEF OneRun, OneProfilerRun, Active
<1>2. LaunchesFit'
  BY DEF OneRun, LaunchesFit
<1>3. Turns'
  BY DEF OneRun, Turns
<1>4. QED
  BY <1>1, <1>2, <1>3 DEF OneRun

(***************************************************************************)
(* Starting, launching and cancelling a run.                               *)
(***************************************************************************)
LEMMA FreshRun ==
  ASSUME Typed, OneRun, Unlocked, MayStart, NEW r \in Run, Fresh(r)
  PROVE  /\ runs[r].at = "unused" /\ inCharge = NoRun
         /\ \A q \in Run : q < r => runs[q].at = "over"
         /\ \A q \in Run : q > r => runs[q].at = "unused"
<1>1. inCharge = NoRun /\ \A q \in Run : ~Active(q)
  BY Publishers DEF OneRun, OneProfilerRun, MayStart
<1>2. \A q \in Run : runs[q].at \in {"unused", "over"}
  BY <1>1 DEF Active, Unlocked
<1>3. QED
  BY <1>1, <1>2 DEF Fresh, OneRun, Turns

LEMMA OneRunStarts ==
  ASSUME Typed, Typed', OneRun, NEW c \in Client, Resting(c), StartProfiler(c)
  PROVE  OneRun'
<1>1. PICK r \in Run :
        /\ Fresh(r)
        /\ profiler' = [status |-> "running", result |-> NoRun]
        /\ inCharge' = r
        /\ runs' = [runs EXCEPT ![r].at = "announced"]
        /\ launching' = [launching EXCEPT ![c] = r]
        /\ Publish(c, Started(r))
  BY DEF StartProfiler
<1>2. /\ runs[r].at = "unused" /\ inCharge = NoRun
      /\ \A q \in Run : q < r => runs[q].at = "over"
      /\ \A q \in Run : q > r => runs[q].at = "unused"
  BY <1>1, FreshRun DEF StartProfiler
<1>3. runs'[r].at = "announced" /\ \A q \in Run : q # r => runs'[q] = runs[q]
  BY <1>1, PlaceChanges DEF Typed, ProfilerTyped
<1>4. r # NoRun /\ profiler'.status = "running" /\ panicked' = panicked
  BY <1>1, Publishers DEF Publish
<1>5. launching'[c] = r /\ \A d \in Client : d # c => launching'[d] = launching[d]
  BY <1>1 DEF Typed, ProfilerTyped
<1>6. \A d \in Client : launching[d] # r
  BY <1>2, <1>4 DEF OneRun, LaunchesFit
<1>7. \A d \in Client : launching[d] # NoRun => launching[d] \in Run
  BY DEF Typed, ProfilerTyped
<1>8. LaunchesFit'
  BY <1>3, <1>5, <1>6, <1>7 DEF OneRun, LaunchesFit
<1>9. Turns'
  BY <1>2, <1>3 DEF OneRun, Turns
<1>10. OneProfilerRun'
  <2>1. \A q \in Run : Active(q)' <=> q = r
    <3>1. \A q \in Run : ~Active(q)
      BY <1>2, Publishers DEF OneRun, OneProfilerRun
    <3>2. QED
      BY <1>3, <3>1 DEF Active
  <2>2. ASSUME NEW q \in Run, runs'[q].at = "announced" PROVE \E d \in Client : launching'[d] = q
    <3>1. q = r
      BY <2>1, <2>2 DEF Active
    <3>2. QED
      BY <1>5, <3>1
  <2>3. QED
    BY <1>1, <1>4, <2>1, <2>2 DEF OneProfilerRun
<1>11. QED
  BY <1>8, <1>9, <1>10 DEF OneRun

LEMMA OneRunLaunches ==
  ASSUME Typed, Typed', OneRun, NEW c \in Client, Launch(c)
  PROVE  OneRun'
<1>1. PICK r \in Run : r = launching[c]
  BY DEF Launch, Typed, ProfilerTyped
<1>2. /\ runs' = [runs EXCEPT ![r].at = "begun"]
      /\ launching' = [launching EXCEPT ![c] = NoRun]
      /\ UNCHANGED <<profiler, inCharge, panicked>>
  BY <1>1 DEF Launch, bus
<1>3. runs'[r].at = "begun" /\ \A q \in Run : q # r => runs'[q] = runs[q]
  BY <1>2, PlaceChanges DEF Typed, ProfilerTyped
<1>4. runs[r].at = "announced" /\ \A d \in Client : d # c => launching[d] # r
  BY <1>1, Publishers DEF OneRun, LaunchesFit
<1>5. launching'[c] = NoRun /\ \A d \in Client : d # c => launching'[d] = launching[d]
  BY <1>2 DEF Typed, ProfilerTyped
<1>6. \A d \in Client : launching[d] # NoRun => launching[d] \in Run
  BY DEF Typed, ProfilerTyped
<1>7. LaunchesFit'
  BY <1>3, <1>4, <1>5, <1>6 DEF OneRun, LaunchesFit
<1>8. Turns'
  BY <1>3, <1>4 DEF OneRun, Turns
<1>9. OneProfilerRun'
  <2>1. \A q \in Run : Active(q)' <=> Active(q)
    BY <1>3, <1>4 DEF Active
  <2>2. ASSUME NEW q \in Run, runs'[q].at = "announced", ~panicked
        PROVE  \E d \in Client : launching'[d] = q
    <3>1. q # r /\ runs[q].at = "announced"
      BY <1>3, <2>2
    <3>2. PICK d \in Client : launching[d] = q
      BY <2>2, <3>1 DEF OneRun, OneProfilerRun
    <3>3. QED
      BY <1>1, <1>5, <3>1, <3>2
  <2>3. QED
    BY <1>2, <2>1, <2>2 DEF OneRun, OneProfilerRun
<1>10. QED
  BY <1>7, <1>8, <1>9 DEF OneRun

LEMMA FlagMovesNothing ==
  ASSUME Typed, NEW c \in Client, CancelProfiler(c)
  PROVE  /\ \A r \in Run : runs'[r].at = runs[r].at
         /\ UNCHANGED <<profiler, inCharge, launching, heard, bus>>
<1>1. inCharge \in Run /\ runs' = [runs EXCEPT ![inCharge].cancelled = TRUE]
  BY DEF CancelProfiler, Typed, ProfilerTyped
<1>2. \A x \in RunRecord : [x EXCEPT !.cancelled = TRUE].at = x.at
  BY DEF RunRecord
<1>3. runs' = [runs EXCEPT ![inCharge] = [runs[inCharge] EXCEPT !.cancelled = TRUE]]
  BY <1>1 DEF Typed, ProfilerTyped
<1>4. QED
  BY <1>1, <1>2, <1>3 DEF CancelProfiler, Typed, ProfilerTyped

(***************************************************************************)
(* The end of the process, and a handler's panic.                          *)
(***************************************************************************)
LEMMA OneRunDown ==
  ASSUME Typed, OneRun, Down
  PROVE  OneRun'
<1>1. \A r \in Run : /\ runs'[r].at \in {"unused", "over"}
                     /\ runs[r].at = "unused" => runs'[r].at = "unused"
                     /\ runs[r].at # "unused" => runs'[r].at = "over"
  BY EndedRun DEF Down
<1>2. \A c \in Client : launching'[c] = NoRun
  BY DEF Down
<1>3. inCharge' = NoRun /\ profiler'.status = "idle" /\ \A r \in Run : r # NoRun
  BY Publishers DEF Down, IdleProfiler
<1>4. OneProfilerRun'
  BY <1>1, <1>3 DEF OneProfilerRun, Active
<1>5. LaunchesFit' /\ Turns'
  BY <1>1, <1>2 DEF OneRun, LaunchesFit, Turns
<1>6. QED
  BY <1>4, <1>5 DEF OneRun

LEMMA OneRunPanics ==
  ASSUME Typed, OneRun, NEW c \in Client, HandlerPanics(c)
  PROVE  OneRun'
<1>1. launching' = [launching EXCEPT ![c] = NoRun] /\ panicked' /\ UNCHANGED <<profiler, inCharge, runs>>
  BY DEF HandlerPanics, MeetsClosed
<1>2. \A d \in Client : launching'[d] \in {launching[d], NoRun}
  BY <1>1 DEF Typed, ProfilerTyped
<1>3. OneProfilerRun'
  BY <1>1 DEF OneRun, OneProfilerRun, Active
<1>4. LaunchesFit'
  BY <1>1, <1>2 DEF OneRun, LaunchesFit
<1>5. Turns'
  BY <1>1 DEF OneRun, Turns
<1>6. QED
  BY <1>3, <1>4, <1>5 DEF OneRun

LEMMA OneRunStep == Typed /\ Typed' /\ OneRun /\ [Next]_vars => OneRun'
<1> SUFFICES ASSUME Typed, Typed', OneRun, [Next]_vars PROVE OneRun'
  OBVIOUS
<1>1. launching \in [Client -> Run \union {NoRun}]
  BY DEF Typed, ProfilerTyped
<1>2. ASSUME NEW c \in Client, Call(c) PROVE OneRun'
  <2>1. CASE StartProfiler(c)
    BY <1>2, <2>1, OneRunStarts DEF Call
  <2>2. CASE CancelProfiler(c)
    BY <1>1, <2>2, FlagMovesNothing, OneRunQuiet DEF bus
  <2>3. CASE CaptureCall(c) /\ UNCHANGED <<profiling, heard>>
    <3>1. UNCHANGED panicked
      BY <2>3 DEF CaptureCall, CreateCapture, RejectCapture, StartCapture, bus
    <3>2. QED
      BY <1>1, <2>3, <3>1, OneRunQuiet DEF profiling
  <2>4. QED
    BY <1>2, <2>1, <2>2, <2>3 DEF Call
<1>3. ASSUME NEW c \in Client, Handler(c) PROVE OneRun'
  <2>1. CASE Launch(c)
    BY <2>1, OneRunLaunches
  <2>2. CASE (Locking(c) \/ Unhindered(c)) /\ UNCHANGED <<profiling, heard>>
    <3>1. UNCHANGED panicked
      BY <2>2 DEF Locking, Unhindered, Check, CreateDownload, BeginDownload, MarkStarted,
                  CopyState, Tell, WriteState, Publish, bus
    <3>2. QED
      BY <1>1, <2>2, <3>1, OneRunQuiet DEF profiling
  <2>3. QED
    BY <1>3, <2>1, <2>2 DEF Handler
<1>4. ASSUME NEW p \in Publisher, SendNext(p) PROVE OneRun'
  BY <1>1, <1>4, OneRunQuiet DEF SendNext, Send, profiling
<1>5. ASSUME NEW s \in Stream, StreamStep(s) PROVE OneRun'
  BY <1>1, <1>5, OneRunQuiet DEF StreamStep, Receive, Deliver, Subscribe, Unsubscribe, profiling
<1>6. CASE Restart \/ UNCHANGED vars
  BY <1>1, <1>6, OneRunQuiet DEF Restart, vars, bus, profiling
<1>7. QED
  BY <1>2, <1>3, <1>4, <1>5, <1>6, OneRunGoes, OneRunDown, OneRunPanics
     DEF Next, RunStep, RunPanics, Kill

LEMMA OneRunInit == Init => OneRun
<1> SUFFICES ASSUME Init PROVE OneRun
  OBVIOUS
<1>1. /\ profiler.status = "idle" /\ inCharge = NoRun
      /\ \A r \in Run : runs[r].at = "unused" /\ r # NoRun
      /\ \A c \in Client : launching[c] = NoRun
  BY UnusedRun, Publishers DEF Init, InitProfiler, IdleProfiler
<1>2. QED
  BY <1>1 DEF OneRun, OneProfilerRun, LaunchesFit, Turns, Active

(***************************************************************************)
(* In every reachable state at most one run is between its announcement    *)
(* and its end, the runs come one after the other, and launches fit them.  *)
(***************************************************************************)
THEOREM OneRunHolds == Spec => []OneRun
BY OneRunInit, TypedHolds, OneRunStep, PTL DEF Spec

(***************************************************************************)
(* The profiler shows as running exactly while one run is at work, which   *)
(* is the one that a cancellation reaches.                                 *)
(***************************************************************************)
THEOREM OneRunAtATime == Spec => []OneProfilerRun
<1>1. OneRun => OneProfilerRun
  BY DEF OneRun
<1>2. QED
  BY OneRunHolds, <1>1, PTL
-----------------------------------------------------------------------------
(***************************************************************************)
(* The order of events.  What a publisher has yet to send fits the place   *)
(* of its run; what is told of a run fits it, too; and what is yet to be   *)
(* sent comes after everything that was told.                              *)
(***************************************************************************)
SendsFit ==
  /\ \A c \in Client : \A item \in sending[c] :
       OfARun(item[1]) => launching[c] # NoRun /\ item[1] = Started(launching[c])
  /\ \A r \in Run : \A item \in sending[r] :
       /\ runs[r].at \in Working \union {"telling"}
       /\ item[1] = IF runs[r].at = "telling" THEN Ended(r) ELSE Stage(r)

Befits(event) ==
  OfARun(event) => /\ runs[event[1]].at # "unused"
                   /\ event[2] = 2 => runs[event[1]].at \in {"telling", "over"}

WordsFit == \A s \in Stream : \A i \in 0 .. Len(channel[s]) : Befits(Word(s, i))

SendsComeLast ==
  \A p \in Publisher : \A item \in sending[p] : OfARun(item[1]) =>
    \A i \in 0 .. Len(channel[item[2]]) :
      OfARun(Word(item[2], i)) => Rank(Word(item[2], i)) <= Rank(item[1])

Ordered == SendsFit /\ WordsFit /\ SendsComeLast /\ ProfilerEventsInOrder

LEMMA Ranks ==
  /\ \A event \in Event : OfARun(event) => event[1] \in Run /\ event[2] \in 0 .. 2
  /\ \A event \in Event : event[1] \in Nat /\ event[2] \in Nat /\ Rank(event) \in Nat
  /\ \A r \in Run : /\ Started(r)[1] = r /\ Started(r)[2] = 0 /\ Rank(Started(r)) = 3 * r
                    /\ Stage(r)[1] = r /\ Stage(r)[2] = 1 /\ Rank(Stage(r)) = 3 * r + 1
                    /\ Ended(r)[1] = r /\ Ended(r)[2] = 2 /\ Rank(Ended(r)) = 3 * r + 2
  /\ ~OfARun(Notice)
BY Publishers DEF Event, Notice, Run, NoRun, OfARun, Rank, Started, Stage, Ended

LEMMA WordsTyped ==
  ASSUME Typed, NEW s \in Stream, NEW i \in 0 .. Len(channel[s])
  PROVE  Word(s, i) \in Event
BY DEF Typed, BusTyped, ProfilerTyped, Word

(***************************************************************************)
(* All sends of events of runs that are under way send the same event: the *)
(* runs before the one at work are over, the ones after it not begun.      *)
(***************************************************************************)
LEMMA SameEvent ==
  ASSUME Typed, OneRun, SendsFit,
         NEW p \in Publisher, NEW item \in sending[p], OfARun(item[1]),
         NEW q \in Publisher, NEW other \in sending[q], OfARun(other[1])
  PROVE  item[1] = other[1]
<1> USE ServicesAssumption
<1>1. \A c \in Client : launching[c] # NoRun => launching[c] \in Run /\ runs[launching[c]].at = "announced"
  BY DEF Typed, ProfilerTyped, OneRun, LaunchesFit
<1> DEFINE UnderWay(r) == runs[r].at \in Working \union {"announced", "telling"}
<1>2. \A r, t \in Run : UnderWay(r) /\ UnderWay(t) => r = t
  <2>1. ASSUME NEW r \in Run, NEW t \in Run, r < t, runs[t].at # "unused" PROVE runs[r].at = "over"
    BY <2>1 DEF OneRun, Turns
  <2>2. \A r, t \in Run : r < t \/ t < r \/ r = t
    BY Publishers
  <2>3. QED
    BY <2>1, <2>2 DEF Working
<1>3. CASE p \in Client /\ q \in Client
  BY <1>1, <1>2, <1>3 DEF SendsFit
<1>4. CASE p \in Run /\ q \in Run
  BY <1>2, <1>4 DEF SendsFit
<1>5. ASSUME NEW c \in Client, NEW r \in Run, NEW x \in sending[c], NEW y \in sending[r], OfARun(x[1])
      PROVE  FALSE
  BY <1>1, <1>2, <1>5 DEF SendsFit, Working
<1>6. QED
  BY <1>3, <1>4, <1>5

(***************************************************************************)
(* A step that tells nothing, and sends of runs only what was to be sent.  *)
(***************************************************************************)
\* Runs only go forwards.
Forwards ==
  \A r \in Run : /\ runs[r].at # "unused" => runs'[r].at # "unused"
                 /\ runs[r].at \in {"telling", "over"} => runs'[r].at \in {"telling", "over"}

LEMMA WordsStay ==
  ASSUME Typed, WordsFit, ProfilerEventsInOrder, Forwards, UNCHANGED <<channel, heard>>
  PROVE  /\ WordsFit' /\ ProfilerEventsInOrder'
         /\ \A s \in Stream : \A i \in 0 .. Len(channel[s]) : Word(s, i)' = Word(s, i)
<1>1. \A s \in Stream : \A i \in 0 .. Len(channel[s]) : Word(s, i)' = Word(s, i)
  BY DEF Word
<1>2. WordsFit'
  <2>1. ASSUME NEW s \in Stream, NEW i \in 0 .. Len(channel[s]) PROVE Befits(Word(s, i))'
    <3>1. PICK event : event = Word(s, i)
      OBVIOUS
    <3>2. Befits(event) => Befits(event)'
      BY DEF Befits, OfARun, Forwards
    <3>3. QED
      BY <1>1, <3>1, <3>2 DEF WordsFit, Befits
  <2>2. QED
    BY <2>1 DEF WordsFit
<1>3. ProfilerEventsInOrder'
  BY <1>1 DEF ProfilerEventsInOrder
<1>4. QED
  BY <1>1, <1>2, <1>3

LEMMA OrderedQuietly ==
  ASSUME Typed, Ordered, Forwards, SendsFit', UNCHANGED <<channel, heard>>,
         \A p \in Publisher : \A item \in sending'[p] :
           OfARun(item[1]) => item \in sending[p]
  PROVE  Ordered'
<1>1. /\ WordsFit' /\ ProfilerEventsInOrder'
      /\ \A s \in Stream : \A i \in 0 .. Len(channel[s]) : Word(s, i)' = Word(s, i)
  BY WordsStay DEF Ordered
<1>2. SendsComeLast'
  <2>1. ASSUME NEW p \in Publisher, NEW item \in sending'[p], OfARun(item[1]),
               NEW i \in 0 .. Len(channel'[item[2]]), OfARun(Word(item[2], i)')
        PROVE  Rank(Word(item[2], i)') <= Rank(item[1])
    <3>1. item \in sending[p] /\ item[2] \in Stream
      BY <2>1 DEF Typed, BusTyped
    <3>2. QED
      BY <1>1, <2>1, <3>1 DEF Ordered, SendsComeLast
  <2>2. QED
    BY <2>1 DEF SendsComeLast, OfARun, Rank
<1>3. QED
  BY <1>1, <1>2 DEF Ordered

(***************************************************************************)
(* A step that publishes an event which comes after everything told.       *)
(***************************************************************************)
LEMMA OrderedPublish ==
  ASSUME Typed, Ordered, Forwards, SendsFit', UNCHANGED heard,
         NEW p \in Publisher, NEW event \in Event, Publish(p, event),
         \A s \in Stream : \A i \in 0 .. Len(channel[s]) :
           OfARun(Word(s, i)) => Rank(Word(s, i)) <= Rank(event)
  PROVE  Ordered'
<1>1. UNCHANGED channel /\ sending' = [sending EXCEPT ![p] = {event} \X Subscribers]
  BY DEF Publish
<1>2. /\ WordsFit' /\ ProfilerEventsInOrder'
      /\ \A s \in Stream : \A i \in 0 .. Len(channel[s]) : Word(s, i)' = Word(s, i)
  BY <1>1, WordsStay DEF Ordered
<1>3. SendsComeLast'
  <2>1. ASSUME NEW q \in Publisher, NEW item \in sending'[q], OfARun(item[1]),
               NEW i \in 0 .. Len(channel'[item[2]]), OfARun(Word(item[2], i)')
        PROVE  Rank(Word(item[2], i)') <= Rank(item[1])
    <3>1. CASE q # p
      <4>1. item \in sending[q] /\ item[2] \in Stream
        BY <1>1, <2>1, <3>1 DEF Typed, BusTyped
      <4>2. QED
        BY <1>1, <1>2, <2>1, <4>1 DEF Ordered, SendsComeLast
    <3>2. CASE q = p
      <4>1. item \in {event} \X Subscribers
        BY <1>1, <3>2 DEF Typed, BusTyped
      <4>2. item[1] = event /\ item[2] \in Stream
        BY <4>1 DEF Subscribers
      <4>3. QED
        BY <1>1, <1>2, <2>1, <4>2
    <3>3. QED
      BY <3>1, <3>2
  <2>2. QED
    BY <2>1 DEF SendsComeLast, OfARun, Rank
<1>4. QED
  BY <1>2, <1>3 DEF Ordered

LEMMA OrderedRun ==
  ASSUME Typed, Typed', OneRun, Ordered, NEW r \in Run, ProfilerRun(r)
  PROVE  Ordered'
<1>1. /\ \A q \in Run : q # r => runs'[q].at = runs[q].at
      /\ UNCHANGED <<launching, heard>> /\ sending[r] = {}
      /\ GoesOn(r) \/ ComesToEnd(r) \/ LetsGo(r)
  BY RunGoes DEF Silent
<1>2. Forwards
  BY <1>1 DEF Forwards, GoesOn, ComesToEnd, LetsGo, Working
<1>3. ASSUME sending' = sending \/ \E event \in Event : Publish(r, event),
             \A item \in sending'[r] :
               /\ runs'[r].at \in Working \union {"telling"}
               /\ item[1] = IF runs'[r].at = "telling" THEN Ended(r) ELSE Stage(r)
      PROVE  SendsFit'
  <2>1. \A p \in Publisher : p # r => sending'[p] = sending[p]
    BY <1>3, Publishers DEF Publish, Typed, BusTyped
  <2>2. \A c \in Client : \A item \in sending'[c] :
          OfARun(item[1]) => launching[c] # NoRun /\ item[1] = Started(launching[c])
    BY <2>1, Publishers DEF Ordered, SendsFit
  <2>3. \A q \in Run : \A item \in sending'[q] :
          /\ runs'[q].at \in Working \union {"telling"}
          /\ item[1] = IF runs'[q].at = "telling" THEN Ended(q) ELSE Stage(q)
    BY <1>1, <1>3, <2>1, Publishers DEF Ordered, SendsFit
  <2>4. QED
    BY <1>1, <2>2, <2>3 DEF SendsFit, OfARun, Started, Stage, Ended
<1>4. ASSUME NEW s \in Stream, NEW i \in 0 .. Len(channel[s]), OfARun(Word(s, i)),
             runs[r].at \notin {"unused", "over"}
      PROVE  /\ runs[r].at # "telling" => Rank(Word(s, i)) <= Rank(Stage(r))
             /\ Rank(Word(s, i)) <= Rank(Ended(r))
  <2>1. PICK event \in Event : event = Word(s, i)
    BY WordsTyped
  <2>2. /\ event[1] \in Run /\ event[2] \in 0 .. 2
        /\ runs[event[1]].at # "unused"
        /\ event[2] = 2 => runs[event[1]].at \in {"telling", "over"}
    BY <1>4, <2>1, Ranks DEF Ordered, WordsFit, Befits
  <2>3. ~(r < event[1])
    BY <1>4, <2>2 DEF OneRun, Turns
  <2>4. event[1] \in Nat /\ r \in Nat /\ event[1] <= r
    BY <2>2, <2>3, Publishers
  <2>5. /\ Rank(event) = 3 * event[1] + event[2]
        /\ Rank(Stage(r)) = 3 * r + 1 /\ Rank(Ended(r)) = 3 * r + 2
    BY Ranks DEF Rank
  <2>6. event[1] = r /\ runs[r].at # "telling" => event[2] <= 1
    BY <1>4, <2>2
  <2>7. QED
    BY <2>1, <2>2, <2>4, <2>5, <2>6
<1>5. ASSUME UNCHANGED bus PROVE Ordered'
  <2>1. SendsFit' /\ UNCHANGED <<channel, heard, sending>>
    BY <1>1, <1>3, <1>5 DEF bus
  <2>2. QED
    BY <1>2, <2>1, OrderedQuietly
<1>6. ASSUME Publish(r, Stage(r)), GoesOn(r) PROVE Ordered'
  <2>1. \A item \in sending'[r] : item[1] = Stage(r)
    BY <1>6, Publishers DEF Publish, Typed, BusTyped
  <2>2. runs'[r].at \in Working /\ runs'[r].at # "telling" /\ runs[r].at \notin {"unused", "over", "telling"}
    BY <1>6 DEF GoesOn, Working
  <2>3. SendsFit'
    BY <1>3, <1>6, <2>1, <2>2, Events
  <2>4. QED
    BY <1>1, <1>2, <1>4, <1>6, <2>2, <2>3, Events, Publishers, OrderedPublish
<1>7. ASSUME ComesToEnd(r) PROVE Ordered'
  <2>1. Publish(r, Ended(r)) /\ runs'[r].at = "telling" /\ runs[r].at \notin {"unused", "over"}
    BY <1>7 DEF ComesToEnd
  <2>2. \A item \in sending'[r] : item[1] = Ended(r)
    BY <2>1, Publishers DEF Publish, Typed, BusTyped
  <2>3. SendsFit'
    BY <1>3, <2>1, <2>2, Events
  <2>4. QED
    BY <1>1, <1>2, <1>4, <2>1, <2>3, Events, Publishers, OrderedPublish
<1>8. QED
  BY <1>1, <1>5, <1>6, <1>7 DEF GoesOn, LetsGo

LEMMA OrderedStart ==
  ASSUME Typed, Typed', OneRun, Ordered, NEW c \in Client, Resting(c), StartProfiler(c)
  PROVE  Ordered'
<1>1. PICK r \in Run :
        /\ Fresh(r)
        /\ runs' = [runs EXCEPT ![r].at = "announced"]
        /\ launching' = [launching EXCEPT ![c] = r]
        /\ Publish(c, Started(r))
  BY DEF StartProfiler
<1>2. /\ runs[r].at = "unused"
      /\ \A q \in Run : q > r => runs[q].at = "unused"
  BY <1>1, FreshRun DEF StartProfiler
<1>3. runs'[r].at = "announced" /\ \A q \in Run : q # r => runs'[q] = runs[q]
  BY <1>1, PlaceChanges DEF Typed, ProfilerTyped
<1>4. Forwards
  BY <1>2, <1>3 DEF Forwards
<1>5. SendsFit'
  <2>1. launching'[c] = r /\ r # NoRun /\ \A d \in Client : d # c => launching'[d] = launching[d]
    BY <1>1, Publishers DEF Typed, ProfilerTyped
  <2>2. /\ \A item \in sending'[c] : item[1] = Started(r)
        /\ \A p \in Publisher : p # c => sending'[p] = sending[p]
    BY <1>1, Publishers DEF Publish, Typed, BusTyped
  <2>3. \A d \in Client : \A item \in sending'[d] :
          OfARun(item[1]) => launching'[d] # NoRun /\ item[1] = Started(launching'[d])
    BY <2>1, <2>2, Publishers DEF Ordered, SendsFit
  <2>4. \A q \in Run : \A item \in sending'[q] :
          /\ q # r /\ item \in sending[q]
          /\ runs[q].at \in Working \union {"telling"}
          /\ item[1] = IF runs[q].at = "telling" THEN Ended(q) ELSE Stage(q)
    BY <1>2, <2>2, Publishers DEF Ordered, SendsFit, Working
  <2>5. \A q \in Run : \A item \in sending'[q] :
          /\ runs'[q].at \in Working \union {"telling"}
          /\ item[1] = IF runs'[q].at = "telling" THEN Ended(q) ELSE Stage(q)
    BY <1>3, <2>4
  <2>6. QED
    BY <2>3, <2>5 DEF SendsFit, OfARun, Started, Stage, Ended
<1>6. ASSUME NEW s \in Stream, NEW i \in 0 .. Len(channel[s]), OfARun(Word(s, i))
      PROVE  Rank(Word(s, i)) <= Rank(Started(r))
  <2>1. PICK event \in Event : event = Word(s, i)
    BY WordsTyped
  <2>2. event[1] \in Run /\ event[2] \in 0 .. 2 /\ runs[event[1]].at # "unused"
    BY <1>6, <2>1, Ranks DEF Ordered, WordsFit, Befits
  <2>3. event[1] \in Nat /\ r \in Nat /\ event[1] < r
    BY <1>2, <2>2, Publishers
  <2>4. Rank(event) = 3 * event[1] + event[2] /\ Rank(Started(r)) = 3 * r
    BY Ranks DEF Rank
  <2>5. QED
    BY <2>1, <2>2, <2>3, <2>4
<1>7. UNCHANGED heard
  BY DEF StartProfiler
<1>8. QED
  BY <1>1, <1>4, <1>5, <1>6, <1>7, Events, Publishers, OrderedPublish

LEMMA OrderedLaunch ==
  ASSUME Typed, Typed', OneRun, Ordered, NEW c \in Client, Launch(c)
  PROVE  Ordered'
<1>1. PICK r \in Run : r = launching[c]
  BY DEF Launch, Typed, ProfilerTyped
<1>2. /\ runs' = [runs EXCEPT ![r].at = "begun"]
      /\ launching' = [launching EXCEPT ![c] = NoRun]
      /\ UNCHANGED <<heard, channel, sending>> /\ sending[c] = {}
  BY <1>1 DEF Launch, bus, Silent
<1>3. runs'[r].at = "begun" /\ \A q \in Run : q # r => runs'[q] = runs[q]
  BY <1>2, PlaceChanges DEF Typed, ProfilerTyped
<1>4. runs[r].at = "announced"
  BY <1>1, Publishers DEF OneRun, LaunchesFit
<1>5. Forwards
  BY <1>3, <1>4 DEF Forwards
<1>6. SendsFit'
  <2>1. sending[r] = {}
    BY <1>4 DEF Ordered, SendsFit, Working
  <2>2. \A d \in Client : d # c => launching'[d] = launching[d]
    BY <1>2 DEF Typed, ProfilerTyped
  <2>3. QED
    BY <1>2, <1>3, <2>1, <2>2 DEF Ordered, SendsFit, OfARun, Started, Stage, Ended
<1>7. QED
  BY <1>2, <1>5, <1>6, OrderedQuietly

(***************************************************************************)
(* Steps that leave runs and launches alone: SendsFit goes by what is sent.*)
(***************************************************************************)
LEMMA FitAsBefore ==
  ASSUME Typed, SendsFit, UNCHANGED launching, \A r \in Run : runs'[r].at = runs[r].at,
         \A p \in Publisher : \A item \in sending'[p] :
           item \in sending[p] \/ (p \in Client /\ ~OfARun(item[1]))
  PROVE  SendsFit'
<1>1. \A c \in Client : \A item \in sending'[c] :
        OfARun(item[1]) => launching[c] # NoRun /\ item[1] = Started(launching[c])
  BY Publishers DEF SendsFit
<1>2. \A r \in Run : \A item \in sending'[r] :
        /\ runs'[r].at \in Working \union {"telling"}
        /\ item[1] = IF runs'[r].at = "telling" THEN Ended(r) ELSE Stage(r)
  BY Publishers DEF SendsFit
<1>3. QED
  BY <1>1, <1>2 DEF SendsFit, OfARun, Started, Stage, Ended

LEMMA OrderedIdle ==
  ASSUME Typed, Ordered, UNCHANGED <<launching, channel, heard>>,
         \A r \in Run : runs'[r].at = runs[r].at,
         \A p \in Publisher : \A item \in sending'[p] :
           item \in sending[p] \/ (p \in Client /\ ~OfARun(item[1]))
  PROVE  Ordered'
<1>1. SendsFit'
  BY FitAsBefore DEF Ordered
<1>2. Forwards
  BY DEF Forwards
<1>3. \A p \in Publisher : \A item \in sending'[p] : OfARun(item[1]) => item \in sending[p]
  OBVIOUS
<1>4. QED
  BY <1>1, <1>2, <1>3, OrderedQuietly
-----------------------------------------------------------------------------
(***************************************************************************)
(* A send appends its event to a channel, or drops it.                     *)
(***************************************************************************)
LEMMA OrderedSend ==
  ASSUME Typed, Typed', OneRun, Ordered, NEW p \in Publisher, Send(p), UNCHANGED profiling, UNCHANGED heard
  PROVE  Ordered'
<1>1. PICK item \in sending[p] :
        Accepts(item[2], item[1]) /\ sending' = [sending EXCEPT ![p] = @ \ {item}]
  BY DEF Send
<1>2. item[1] \in Event /\ item[2] \in Stream
  BY DEF Typed, BusTyped
<1>3. \A q \in Publisher : sending'[q] \subseteq sending[q]
  BY <1>1 DEF Typed, BusTyped
<1>4. CASE UNCHANGED channel
  BY <1>3, <1>4, OrderedIdle DEF profiling
<1>5. CASE channel' = [channel EXCEPT ![item[2]] = Append(@, item[1])]
  <2>1. PICK n \in Nat : channel[item[2]] \in Seq(Event) /\ n = Len(channel[item[2]])
    BY <1>2 DEF Typed, BusTyped
  <2>2. /\ Len(channel'[item[2]]) = n + 1
        /\ \A i \in 1 .. n : channel'[item[2]][i] = channel[item[2]][i]
        /\ channel'[item[2]][n + 1] = item[1]
        /\ \A s \in Stream : s # item[2] => channel'[s] = channel[s]
    BY <1>2, <1>5, <2>1 DEF Typed, BusTyped
  <2>3. /\ \A s \in Stream : s = item[2] => \A i \in 0 .. n : Word(s, i)' = Word(s, i)
        /\ \A s \in Stream : s = item[2] => \A i \in Nat : i = n + 1 => Word(s, i)' = item[1]
        /\ \A s \in Stream : s # item[2] =>
             \A i \in 0 .. Len(channel[s]) : Word(s, i)' = Word(s, i)
    BY <2>1, <2>2 DEF Word
  <2>4. SendsFit'
    BY <1>3, FitAsBefore DEF Ordered, profiling
  <2>5. OfARun(item[1]) => /\ item[1][1] \in Run
                           /\ Befits(item[1])
    <3>1. CASE p \in Client
      BY <1>2, <3>1, Ranks DEF Ordered, SendsFit, OneRun, LaunchesFit, Befits, Typed, ProfilerTyped
    <3>2. CASE p \in Run
      BY <1>2, <3>2, Ranks DEF Ordered, SendsFit, Befits, Working
    <3>3. QED
      BY <3>1, <3>2, ServicesAssumption
  <2>6. WordsFit'
    <3>1. ASSUME NEW s \in Stream, NEW i \in 0 .. Len(channel'[s]) PROVE Befits(Word(s, i))'
      <4>1. PICK word : word = Word(s, i)'
        OBVIOUS
      <4>2. Befits(word)
        <5>1. CASE s = item[2] /\ i = n + 1
          BY <2>3, <2>5, <4>1, <5>1 DEF Befits
        <5>2. CASE s = item[2] /\ i # n + 1
          <6>1. i \in 0 .. n
            BY <2>1, <2>2, <3>1, <5>2
          <6>2. QED
            BY <2>1, <2>3, <4>1, <5>2, <6>1 DEF Ordered, WordsFit
        <5>3. CASE s # item[2]
          BY <2>2, <2>3, <3>1, <4>1, <5>3 DEF Ordered, WordsFit
        <5>4. QED
          BY <5>1, <5>2, <5>3
      <4>3. UNCHANGED runs
        BY DEF profiling
      <4>4. QED
        BY <4>1, <4>2, <4>3 DEF Befits
    <3>2. QED
      BY <3>1 DEF WordsFit
  <2>7. SendsComeLast'
    <3>1. ASSUME NEW q \in Publisher, NEW other \in sending'[q], OfARun(other[1]),
                 NEW i \in 0 .. Len(channel'[other[2]]), OfARun(Word(other[2], i)')
          PROVE  Rank(Word(other[2], i)') <= Rank(other[1])
      <4>1. other \in sending[q] /\ other[2] \in Stream /\ other[1] \in Event
        BY <1>3, <3>1 DEF Typed, BusTyped
      <4>2. CASE other[2] = item[2] /\ i = n + 1
        <5>1. Word(other[2], i)' = item[1] /\ OfARun(item[1])
          BY <2>3, <3>1, <4>1, <4>2
        <5>2. item[1] = other[1]
          BY <3>1, <4>1, <5>1, SameEvent DEF Ordered
        <5>3. Rank(item[1]) <= Rank(item[1])
          BY <1>2, Ranks
        <5>4. QED
          BY <5>1, <5>2, <5>3
      <4>3. CASE other[2] = item[2] /\ i # n + 1
        <5>1. i \in 0 .. n
          BY <2>1, <2>2, <3>1, <4>3
        <5>2. QED
          BY <2>1, <2>3, <3>1, <4>1, <4>3, <5>1 DEF Ordered, SendsComeLast
      <4>4. CASE other[2] # item[2]
        BY <2>2, <2>3, <3>1, <4>1, <4>4 DEF Ordered, SendsComeLast
      <4>5. QED
        BY <4>2, <4>3, <4>4
    <3>2. QED
      BY <3>1 DEF SendsComeLast, OfARun, Rank
  <2>8. ProfilerEventsInOrder'
    <3>1. ASSUME NEW s \in Stream, NEW i \in 0 .. Len(channel'[s]), NEW k \in 0 .. Len(channel'[s]),
                 i < k, OfARun(Word(s, i)'), OfARun(Word(s, k)')
          PROVE  Rank(Word(s, i)') <= Rank(Word(s, k)')
      <4>1. CASE s = item[2] /\ k = n + 1
        <5>1. i \in 0 .. n
          BY <2>1, <2>2, <3>1, <4>1
        <5>2. QED
          BY <2>1, <2>3, <3>1, <4>1, <5>1 DEF Ordered, SendsComeLast
      <4>2. CASE s = item[2] /\ k # n + 1
        <5>1. i \in 0 .. n /\ k \in 0 .. n
          BY <2>1, <2>2, <3>1, <4>2
        <5>2. QED
          BY <2>1, <2>3, <3>1, <4>2, <5>1 DEF Ordered, ProfilerEventsInOrder
      <4>3. CASE s # item[2]
        BY <2>2, <2>3, <3>1, <4>3 DEF Ordered, ProfilerEventsInOrder
      <4>4. QED
        BY <4>1, <4>2, <4>3
    <3>2. QED
      BY <3>1 DEF ProfilerEventsInOrder, OfARun, Rank
  <2>9. QED
    BY <2>4, <2>6, <2>7, <2>8 DEF Ordered
<1>6. QED
  BY <1>1, <1>4, <1>5 DEF Accepts

(***************************************************************************)
(* A stream that passes on an event moves its words up; one that leaves    *)
(* forgets all but what it has told.  Words come from earlier words of the *)
(* same stream, in the same order.                                         *)
(***************************************************************************)
LEMMA OrderedShift ==
  ASSUME Typed, Typed', Ordered, UNCHANGED <<launching, sending>>,
         \A r \in Run : runs'[r].at = runs[r].at,
         NEW from \in [Stream -> [Nat -> Nat]],
         \A s \in Stream : \A i \in 0 .. Len(channel'[s]) :
           /\ OfARun(Word(s, i)') => /\ from[s][i] \in 0 .. Len(channel[s])
                                     /\ Word(s, i)' = Word(s, from[s][i])
           /\ \A k \in 0 .. Len(channel'[s]) : i < k => from[s][i] < from[s][k]
  PROVE  Ordered'
<1>1. SendsFit'
  BY FitAsBefore DEF Ordered
<1>2. WordsFit'
  <2>1. ASSUME NEW s \in Stream, NEW i \in 0 .. Len(channel'[s]) PROVE Befits(Word(s, i))'
    <3>1. PICK word : word = Word(s, i)'
      OBVIOUS
    <3>2. Befits(word)
      BY <2>1, <3>1, ZenonT(40) DEF Ordered, WordsFit, Befits
    <3>3. QED
      BY <3>1, <3>2 DEF Befits, OfARun
  <2>2. QED
    BY <2>1 DEF WordsFit
<1>3. SendsComeLast'
  <2>1. ASSUME NEW p \in Publisher, NEW item \in sending'[p], OfARun(item[1]),
               NEW i \in 0 .. Len(channel'[item[2]]), OfARun(Word(item[2], i)')
        PROVE  Rank(Word(item[2], i)') <= Rank(item[1])
    <3>1. item \in sending[p] /\ item[2] \in Stream
      BY <2>1 DEF Typed, BusTyped
    <3>2. QED
      BY <2>1, <3>1 DEF Ordered, SendsComeLast
  <2>2. QED
    BY <2>1 DEF SendsComeLast, OfARun, Rank
<1>4. ProfilerEventsInOrder'
  <2>1. ASSUME NEW s \in Stream, NEW i \in 0 .. Len(channel'[s]), NEW k \in 0 .. Len(channel'[s]),
               i < k, OfARun(Word(s, i)'), OfARun(Word(s, k)')
        PROVE  Rank(Word(s, i)') <= Rank(Word(s, k)')
    BY <2>1 DEF Ordered, ProfilerEventsInOrder
  <2>2. QED
    BY <2>1 DEF ProfilerEventsInOrder, OfARun, Rank
<1>5. QED
  BY <1>1, <1>2, <1>3, <1>4 DEF Ordered

LEMMA OrderedReceive ==
  ASSUME Typed, Typed', Ordered, NEW s \in Stream, Receive(s)
  PROVE  Ordered'
<1>1. /\ channel[s] \in Seq(Event) /\ channel[s] # <<>>
      /\ channel' = [channel EXCEPT ![s] = Tail(@)]
      /\ heard' = [heard EXCEPT ![s] = IF Head(channel[s])[1] \in Run THEN Head(channel[s]) ELSE @]
      /\ UNCHANGED <<sending, launching, runs>>
  BY DEF Receive, Deliver, profiling, Typed, BusTyped
<1>2. /\ Len(channel'[s]) = Len(channel[s]) - 1 /\ Len(channel[s]) \in Nat \ {0}
      /\ \A i \in 1 .. Len(channel'[s]) : channel'[s][i] = channel[s][i + 1]
      /\ Head(channel[s]) = channel[s][1]
      /\ \A t \in Stream : t # s => channel'[t] = channel[t] /\ heard'[t] = heard[t]
      /\ heard'[s] = IF OfARun(channel[s][1]) THEN channel[s][1] ELSE heard[s]
  BY <1>1, HeadTailProperties, EmptySeq DEF Typed, BusTyped, ProfilerTyped, OfARun
<1>3. PICK first \in {0, 1} : first = IF OfARun(channel[s][1]) THEN 1 ELSE 0
  OBVIOUS
<1> DEFINE from == [t \in Stream |-> [i \in Nat |->
                      IF t # s THEN i ELSE IF i = 0 THEN first ELSE i + 1]]
<1>4. /\ from \in [Stream -> [Nat -> Nat]]
      /\ \A t \in Stream, i \in Nat : t # s => from[t][i] = i
      /\ \A t \in Stream, i \in Nat : t = s /\ i > 0 => from[t][i] = i + 1
      /\ \A t \in Stream : t = s => from[t][0] = first
  OBVIOUS
<1> HIDE DEF from
<1>5. ASSUME NEW t \in Stream, NEW i \in 0 .. Len(channel'[t])
      PROVE  /\ OfARun(Word(t, i)') => /\ from[t][i] \in 0 .. Len(channel[t])
                                       /\ Word(t, i)' = Word(t, from[t][i])
             /\ \A k \in 0 .. Len(channel'[t]) : i < k => from[t][i] < from[t][k]
  <2>1. CASE t # s
    <3>1. /\ channel'[t] = channel[t] /\ heard'[t] = heard[t] /\ i \in Nat
          /\ \A k \in 0 .. Len(channel'[t]) : k \in Nat
      BY <1>2, <1>5, <2>1 DEF Typed, BusTyped
    <3>2. QED
      BY <1>4, <1>5, <2>1, <3>1 DEF Word
  <2>2. CASE t = s /\ i = 0
    <3>1. from[t][i] = first /\ first \in 0 .. Len(channel[t])
      <4>1. from[t][i] = first
        BY <1>4, <2>2
      <4>2. Len(channel[t]) \in Nat /\ Len(channel[t]) >= 1
        BY <1>2, <2>2
      <4>3. QED
        BY <4>1, <4>2
    <3>2. Word(t, i)' = heard'[s]
      BY <2>2 DEF Word
    <3>3. Word(t, first) = IF first = 0 THEN heard[s] ELSE channel[s][1]
      BY <2>2 DEF Word
    <3>4. Word(t, i)' = Word(t, first)
      BY <1>2, <1>3, <3>2, <3>3
    <3>5. \A k \in 0 .. Len(channel'[t]) : i < k => k \in Nat /\ k > 0 /\ from[t][k] = k + 1
      BY <1>2, <1>4, <2>2
    <3>6. QED
      BY <2>2, <3>1, <3>4, <3>5
  <2>3. CASE t = s /\ i # 0
    <3>1. /\ i \in 1 .. Len(channel'[s]) /\ i \in Nat /\ i > 0 /\ i + 1 \in 0 .. Len(channel[s])
          /\ from[t][i] = i + 1 /\ channel'[s][i] = channel[s][i + 1]
      <4>1. Len(channel'[t]) = Len(channel[s]) - 1 /\ Len(channel[s]) \in Nat
        BY <1>2, <2>3
      <4>2. i \in Nat /\ i > 0 /\ i <= Len(channel'[t])
        BY <2>3, <4>1
      <4>3. i \in 1 .. Len(channel'[s]) /\ i + 1 \in 0 .. Len(channel[s])
        BY <2>3, <4>1, <4>2
      <4>4. channel'[s][i] = channel[s][i + 1]
        BY <1>2, <4>3
      <4>5. QED
        BY <1>4, <2>3, <4>2, <4>3, <4>4
    <3>2. Word(t, i)' = channel'[s][i]
      BY <2>3 DEF Word
    <3>3. Word(t, i + 1) = channel[s][i + 1]
      BY <2>3, <3>1 DEF Word
    <3>4. \A k \in 0 .. Len(channel'[t]) : i < k => k \in Nat /\ k > 0 /\ from[t][k] = k + 1
      BY <1>2, <1>4, <2>3, <3>1
    <3>5. QED
      BY <2>3, <3>1, <3>2, <3>3, <3>4
  <2>4. QED
    BY <2>1, <2>2, <2>3
<1>6. QED
  BY <1>1, <1>4, <1>5, OrderedShift

LEMMA OrderedForget ==
  ASSUME Typed, Typed', Ordered, UNCHANGED <<launching, sending, heard>>,
         \A r \in Run : runs'[r].at = runs[r].at,
         \A s \in Stream : channel'[s] = channel[s] \/ channel'[s] = <<>>
  PROVE  Ordered'
<1> DEFINE from == [s \in Stream |-> [i \in Nat |-> i]]
<1>1. from \in [Stream -> [Nat -> Nat]]
  OBVIOUS
<1>2. ASSUME NEW s \in Stream, NEW i \in 0 .. Len(channel'[s])
      PROVE  /\ OfARun(Word(s, i)') => /\ from[s][i] \in 0 .. Len(channel[s])
                                       /\ Word(s, i)' = Word(s, from[s][i])
             /\ \A k \in 0 .. Len(channel'[s]) : i < k => from[s][i] < from[s][k]
  <2>1. i \in Nat /\ from[s][i] = i /\ \A k \in Nat : from[s][k] = k
    BY <1>2
  <2>2. Len(channel[s]) \in Nat
    BY DEF Typed, BusTyped
  <2>3. CASE channel'[s] = channel[s]
    BY <1>2, <2>1, <2>3 DEF Word
  <2>4. CASE channel'[s] = <<>>
    <3>1. i = 0 /\ Len(channel'[s]) = 0
      BY <1>2, <2>4
    <3>2. QED
      BY <2>1, <2>2, <3>1 DEF Word
  <2>5. QED
    BY <2>3, <2>4
<1> HIDE DEF from
<1>3. QED
  BY <1>1, <1>2, OrderedShift

LEMMA OrderedDown ==
  ASSUME Typed, Ordered, Down
  PROVE  Ordered'
<1>1. /\ Forwards
      /\ \A s \in Stream : channel'[s] = <<>> /\ Len(channel'[s]) = 0
      /\ \A p \in Publisher : sending'[p] = {}
      /\ UNCHANGED heard
  BY EndedRun DEF Down, Forwards
<1>2. SendsFit' /\ SendsComeLast'
  <2>1. /\ \A c \in Client : sending'[c] = {}
        /\ \A r \in Run : sending'[r] = {}
    BY <1>1, Publishers
  <2>2. QED
    BY <1>1, <2>1 DEF SendsFit, SendsComeLast
<1>3. WordsFit'
  <2>1. ASSUME NEW s \in Stream, NEW i \in 0 .. Len(channel'[s]) PROVE Befits(Word(s, i))'
    <3>1. PICK word : word = Word(s, 0)
      OBVIOUS
    <3>2. i = 0
      BY <1>1, <2>1
    <3>3. Word(s, i)' = word
      BY <1>1, <3>1, <3>2 DEF Word
    <3>4. Len(channel[s]) \in Nat
      BY DEF Typed, BusTyped
    <3>5. Befits(word)
      BY <3>1, <3>4 DEF Ordered, WordsFit
    <3>6. QED
      BY <1>1, <3>3, <3>5 DEF Befits, OfARun, Forwards
  <2>2. QED
    BY <2>1 DEF WordsFit
<1>4. ProfilerEventsInOrder'
  <2>1. \A s \in Stream : \A i, k \in 0 .. Len(channel'[s]) : ~(i < k)
    BY <1>1
  <2>2. QED
    BY <2>1 DEF ProfilerEventsInOrder
<1>5. QED
  BY <1>2, <1>3, <1>4 DEF Ordered

LEMMA OrderedPanics ==
  ASSUME Typed, Ordered, NEW c \in Client, HandlerPanics(c)
  PROVE  Ordered'
<1>1. /\ UNCHANGED <<channel, heard, runs>>
      /\ launching' = [launching EXCEPT ![c] = NoRun]
      /\ sending' = [sending EXCEPT ![c] = {}]
  BY DEF HandlerPanics
<1>2. /\ sending'[c] = {}
      /\ \A p \in Publisher : p # c => sending'[p] = sending[p]
      /\ \A d \in Client : d # c => launching'[d] = launching[d]
  BY <1>1, Publishers DEF Typed, BusTyped, ProfilerTyped
<1>3. SendsFit'
  <2>1. \A d \in Client : \A item \in sending'[d] :
          OfARun(item[1]) => launching'[d] # NoRun /\ item[1] = Started(launching'[d])
    BY <1>2, Publishers DEF Ordered, SendsFit
  <2>2. \A r \in Run : \A item \in sending'[r] :
          /\ runs'[r].at \in Working \union {"telling"}
          /\ item[1] = IF runs'[r].at = "telling" THEN Ended(r) ELSE Stage(r)
    BY <1>1, <1>2, Publishers DEF Ordered, SendsFit
  <2>3. QED
    BY <2>1, <2>2 DEF SendsFit, OfARun, Started, Stage, Ended
<1>4. Forwards
  BY <1>1 DEF Forwards
<1>5. \A p \in Publisher : \A item \in sending'[p] : OfARun(item[1]) => item \in sending[p]
  BY <1>2
<1>6. QED
  BY <1>1, <1>3, <1>4, <1>5, OrderedQuietly

LEMMA OrderedTells ==
  ASSUME Typed, Ordered, NEW c \in Client, Tell(c), UNCHANGED <<profiling, heard>>
  PROVE  Ordered'
<1>1. Publish(c, Notice) /\ UNCHANGED <<launching, heard, runs>>
  BY DEF Tell, profiling
<1>2. \A p \in Publisher : \A item \in sending'[p] :
        item \in sending[p] \/ (p \in Client /\ ~OfARun(item[1]))
  BY <1>1, Ranks DEF Publish, Typed, BusTyped
<1>3. UNCHANGED channel
  BY <1>1 DEF Publish
<1>4. QED
  BY <1>1, <1>2, <1>3, OrderedIdle

LEMMA OrderedStep == Typed /\ Typed' /\ OneRun /\ Ordered /\ [Next]_vars => Ordered'
<1> SUFFICES ASSUME Typed, Typed', OneRun, Ordered, [Next]_vars PROVE Ordered'
  OBVIOUS
<1>1. ASSUME UNCHANGED <<profiling, heard, bus>> PROVE Ordered'
  BY <1>1, OrderedIdle DEF profiling, bus
<1>2. ASSUME NEW c \in Client, Call(c) PROVE Ordered'
  <2>1. CASE StartProfiler(c)
    BY <1>2, <2>1, OrderedStart DEF Call
  <2>2. CASE CancelProfiler(c)
    BY <2>2, FlagMovesNothing, OrderedIdle DEF bus
  <2>3. CASE CaptureCall(c) /\ UNCHANGED <<profiling, heard>>
    <3>1. UNCHANGED bus
      BY <2>3 DEF CaptureCall, CreateCapture, RejectCapture, StartCapture
    <3>2. QED
      BY <1>1, <2>3, <3>1
  <2>4. QED
    BY <1>2, <2>1, <2>2, <2>3 DEF Call
<1>3. ASSUME NEW c \in Client, Handler(c) PROVE Ordered'
  <2>1. CASE Launch(c)
    BY <2>1, OrderedLaunch
  <2>2. CASE Tell(c) /\ UNCHANGED <<profiling, heard>>
    BY <2>2, OrderedTells
  <2>3. CASE (Locking(c) \/ WriteState(c)) /\ UNCHANGED <<profiling, heard>>
    <3>1. UNCHANGED bus
      BY <2>3 DEF Locking, Check, CreateDownload, BeginDownload, MarkStarted, CopyState, WriteState
    <3>2. QED
      BY <1>1, <2>3, <3>1
  <2>4. QED
    BY <1>3, <2>1, <2>2, <2>3 DEF Handler, Unhindered
<1>4. ASSUME NEW p \in Publisher, SendNext(p) PROVE Ordered'
  BY <1>4, OrderedSend DEF SendNext
<1>5. ASSUME NEW s \in Stream, StreamStep(s) PROVE Ordered'
  <2>1. CASE Receive(s)
    BY <2>1, OrderedReceive
  <2>2. CASE (Subscribe(s) \/ Unsubscribe(s)) /\ UNCHANGED <<profiling, heard>>
    <3>1. \A t \in Stream : channel'[t] = channel[t] \/ channel'[t] = <<>>
      BY <2>2 DEF Subscribe, Unsubscribe, Typed, BusTyped
    <3>2. UNCHANGED sending
      BY <2>2 DEF Subscribe, Unsubscribe
    <3>3. QED
      BY <2>2, <3>1, <3>2, OrderedForget DEF profiling
  <2>3. QED
    BY <1>5, <2>1, <2>2 DEF StreamStep
<1>6. CASE Restart \/ UNCHANGED vars
  BY <1>1, <1>6 DEF Restart, vars
<1>7. QED
  BY <1>2, <1>3, <1>4, <1>5, <1>6, OrderedRun, OrderedDown, OrderedPanics
     DEF Next, RunStep, RunPanics, Kill

LEMMA OrderedInit == Init => Ordered
<1> SUFFICES ASSUME Init PROVE Ordered
  OBVIOUS
<1>1. /\ \A p \in Publisher : sending[p] = {}
      /\ \A s \in Stream : Len(channel[s]) = 0 /\ heard[s] = <<NoRun, 0>>
  BY DEF Init, InitBus, InitProfiler
<1>2. /\ \A c \in Client : sending[c] = {}
      /\ \A r \in Run : sending[r] = {}
  BY <1>1, Publishers
<1>3. ~OfARun(<<NoRun, 0>>)
  BY Publishers DEF OfARun
<1>4. \A s \in Stream : \A i \in 0 .. Len(channel[s]) : ~OfARun(Word(s, i))
  BY <1>1, <1>3 DEF Word
<1>5. QED
  BY <1>1, <1>2, <1>4 DEF Ordered, SendsFit, WordsFit, Befits, SendsComeLast, ProfilerEventsInOrder

(***************************************************************************)
(* Every stream hears of the profiler's runs in the order in which they    *)
(* happen, whatever it misses: for every number of streams and publishers, *)
(* whatever the capacity of a channel, and with panics, kills and restarts.*)
(***************************************************************************)
THEOREM EventsInOrder == Spec => []ProfilerEventsInOrder
<1>1. Ordered => ProfilerEventsInOrder
  BY DEF Ordered
<1>2. QED
  BY OrderedInit, TypedHolds, OneRunHolds, OrderedStep, <1>1, PTL DEF Spec
-----------------------------------------------------------------------------
(***************************************************************************)
(* Proofs about browser captures, for every number of captures, handlers,  *)
(* calls and restarts: what a capture shows and what became of it agree.   *)
(***************************************************************************)

(***************************************************************************)
(* In every list of steps a handler is given, a mark comes after the       *)
(* creation of the download.                                               *)
(***************************************************************************)
MarksFollow(steps) ==
  \A i \in 1 .. Len(steps) : steps[i] = "mark" => \E j \in 1 .. i - 1 : steps[j] = "create"

StartsWell(steps) ==
  steps \in Seq(StepName) /\ Len(steps) >= 2 /\ steps[1] = "check" /\ steps[2] = "create"

LEMMA StartsWellOn ==
  ASSUME NEW s, StartsWell(s), NEW t \in Seq(StepName)
  PROVE  StartsWell(s \o t)
<1>1. s \in Seq(StepName) /\ Len(s) \in Nat /\ Len(t) \in Nat
  BY DEF StartsWell
<1>2. /\ s \o t \in Seq(StepName) /\ Len(s \o t) = Len(s) + Len(t)
      /\ \A i \in 1 .. Len(s) : (s \o t)[i] = s[i]
  BY <1>1, ConcatProperties
<1>3. 1 \in 1 .. Len(s) /\ 2 \in 1 .. Len(s)
  BY <1>1 DEF StartsWell
<1>4. QED
  BY <1>1, <1>2, <1>3 DEF StartsWell

LEMMA StartStepsWell == StartsWell(StartSteps)
<1>1. StartsWell(<<"check", "create">>)
  <2>1. <<"check", "create">> \in Seq(StepName)
    BY DEF StepName
  <2>2. Len(<<"check", "create">>) = 2
    OBVIOUS
  <2>3. QED
    BY <2>1, <2>2 DEF StartsWell
<1>2. <<"begin">> \in Seq(StepName) /\ <<"mark">> \in Seq(StepName)
  BY DEF StepName
<1>3. QED
  BY <1>1, <1>2, StartsWellOn, StepLists DEF StartSteps

LEMMA StartsWellMarks ==
  ASSUME NEW s, StartsWell(s)
  PROVE  MarksFollow(s)
<1>1. ASSUME NEW i \in 1 .. Len(s), s[i] = "mark" PROVE \E j \in 1 .. i - 1 : s[j] = "create"
  <2>1. i # 1 /\ i # 2
    BY <1>1 DEF StartsWell
  <2>2. Len(s) \in Nat
    BY DEF StartsWell
  <2>3. 2 \in 1 .. i - 1
    BY <2>1, <2>2
  <2>4. QED
    BY <2>3 DEF StartsWell
<1>2. QED
  BY <1>1 DEF MarksFollow

LEMMA MarksFollowAfter ==
  ASSUME NEW s \in Seq(StepName), NEW t \in Seq(StepName),
         \A i \in 1 .. Len(s) : s[i] # "mark", MarksFollow(t)
  PROVE  MarksFollow(s \o t)
<1>1. /\ Len(s) \in Nat /\ Len(t) \in Nat /\ Len(s \o t) = Len(s) + Len(t)
      /\ \A i \in 1 .. Len(s) : (s \o t)[i] = s[i]
      /\ \A i \in 1 .. Len(t) : (s \o t)[Len(s) + i] = t[i]
  BY ConcatProperties
<1>2. ASSUME NEW i \in 1 .. Len(s \o t), (s \o t)[i] = "mark"
      PROVE  \E j \in 1 .. i - 1 : (s \o t)[j] = "create"
  <2>1. ~(i <= Len(s))
    BY <1>1, <1>2
  <2>2. i - Len(s) \in 1 .. Len(t) /\ Len(s) + (i - Len(s)) = i
    BY <1>1, <2>1
  <2>3. t[i - Len(s)] = "mark"
    BY <1>1, <1>2, <2>2
  <2>4. PICK j \in 1 .. (i - Len(s)) - 1 : t[j] = "create"
    BY <2>2, <2>3 DEF MarksFollow
  <2>5. j \in 1 .. Len(t) /\ Len(s) + j \in 1 .. i - 1
    BY <1>1, <2>2
  <2>6. (s \o t)[Len(s) + j] = "create"
    BY <1>1, <2>4, <2>5
  <2>7. QED
    BY <2>5, <2>6
<1>3. QED
  BY <1>2 DEF MarksFollow

LEMMA CreateSteps ==
  ASSUME NEW duplicate \in {<<>>, <<"publish">>}, NEW auto \in {<<>>, StartSteps}
  PROVE  MarksFollow(duplicate \o Report \o auto)
<1>1. MarksFollow(auto) /\ auto \in Seq(StepName)
  <2>1. MarksFollow(<<>>)
    BY DEF MarksFollow
  <2>2. QED
    BY <2>1, StartStepsWell, StartsWellMarks, StepLists
<1>2. /\ duplicate \in Seq(StepName) /\ Report \in Seq(StepName)
      /\ \A i \in 1 .. Len(duplicate) : duplicate[i] # "mark"
      /\ \A i \in 1 .. Len(Report) : Report[i] # "mark"
  <2>1. Len(<<>>) = 0 /\ Len(<<"publish">>) = 1 /\ <<"publish">>[1] = "publish"
    OBVIOUS
  <2>2. \A i \in 1 .. Len(duplicate) : duplicate[i] # "mark"
    BY <2>1
  <2>3. Len(Report) = 2 /\ Report[1] = "publish" /\ Report[2] = "copy"
    BY DEF Report
  <2>4. \A i \in 1 .. Len(Report) : Report[i] # "mark"
    BY <2>3
  <2>5. QED
    BY <2>2, <2>4, StepLists
<1>3. /\ duplicate \o Report \in Seq(StepName)
      /\ \A i \in 1 .. Len(duplicate \o Report) : (duplicate \o Report)[i] # "mark"
  <2>1. /\ Len(duplicate) \in Nat /\ Len(Report) \in Nat
        /\ duplicate \o Report \in Seq(StepName)
        /\ Len(duplicate \o Report) = Len(duplicate) + Len(Report)
        /\ \A i \in 1 .. Len(duplicate) : (duplicate \o Report)[i] = duplicate[i]
        /\ \A i \in 1 .. Len(Report) : (duplicate \o Report)[Len(duplicate) + i] = Report[i]
    BY <1>2, ConcatProperties
  <2>2. ASSUME NEW i \in 1 .. Len(duplicate \o Report), i > Len(duplicate)
        PROVE  (duplicate \o Report)[i] # "mark"
    <3>1. i - Len(duplicate) \in 1 .. Len(Report) /\ Len(duplicate) + (i - Len(duplicate)) = i
      BY <2>1, <2>2
    <3>2. QED
      BY <1>2, <2>1, <3>1
  <2>3. QED
    BY <1>2, <2>1, <2>2
<1>4. QED
  BY <1>1, <1>3, MarksFollowAfter
-----------------------------------------------------------------------------
(***************************************************************************)
(* A capture that shows as started has its download: in memory, in every   *)
(* copy on its way to the state file, and in the file.  A mark that is yet *)
(* to be made has the download already, or its creation before it.         *)
(***************************************************************************)
Backed(state) == \A k \in Capture : state.captures[k] = "started" => state.downloads[k] > 0

MarksBacked ==
  \A c \in Client : \A i \in 1 .. Len(todo[c]) : todo[c][i] = "mark" =>
    \/ downloads[subject[c]] > 0
    \/ \E j \in 1 .. i - 1 : todo[c][j] = "create"

\* Whoever has steps to do has a capture to do them for, and an agent to do them in.
StepsHaveSubject ==
  \A c \in Client : todo[c] # <<>> => subject[c] \in Capture /\ up

AllBacked ==
  /\ Backed(Memory) /\ Backed(disk) /\ \A c \in Client : Backed(copied[c])
  /\ MarksBacked /\ StepsHaveSubject

LEMMA NothingBacked == Backed(Nothing)
BY DEF Backed, Nothing

(***************************************************************************)
(* Steps done, put off or dropped: whatever comes of a handler's list, its *)
(* marks stay backed while downloads are only added.                       *)
(***************************************************************************)
LEMMA RestBacked ==
  ASSUME Typed, MarksBacked, NEW c \in Client, NEW step, Due(c, step),
         step # "create" \/ downloads'[subject[c]] > 0,
         NEW steps \in {Rest(c), <<>>, <<"write">> \o Rest(c)},
         todo' = [todo EXCEPT ![c] = steps], UNCHANGED subject,
         \A d \in Client : todo[d] # <<>> => downloads[subject[d]] \in Nat
                                            /\ downloads'[subject[d]] \in Nat
                                            /\ downloads'[subject[d]] >= downloads[subject[d]]
  PROVE  MarksBacked'
<1>1. /\ todo[c] \in Seq(StepName) /\ Len(todo[c]) \in Nat \ {0} /\ todo[c][1] = step
      /\ Rest(c) \in Seq(StepName) /\ Len(Rest(c)) = Len(todo[c]) - 1
      /\ \A i \in 1 .. Len(Rest(c)) : Rest(c)[i] = todo[c][i + 1]
  BY RestTyped DEF Due, Typed
<1>2. todo[c] # <<>>
  BY DEF Due
<1>3. ASSUME NEW d \in Client, d # c, NEW i \in 1 .. Len(todo'[d]), todo'[d][i] = "mark"
      PROVE  downloads'[subject[d]] > 0 \/ \E j \in 1 .. i - 1 : todo'[d][j] = "create"
  <2>1. todo'[d] = todo[d] /\ todo[d] \in Seq(StepName)
    BY <1>3 DEF Typed, CapturesTyped
  <2>2. todo[d] # <<>>
    BY <1>3, <2>1
  <2>3. QED
    BY <1>3, <2>1, <2>2 DEF MarksBacked
<1>4. \A i \in 1 .. Len(Rest(c)) : Rest(c)[i] = "mark" =>
        downloads'[subject[c]] > 0 \/ \E j \in 1 .. i - 1 : Rest(c)[j] = "create"
  <2>1. ASSUME NEW i \in 1 .. Len(Rest(c)), Rest(c)[i] = "mark", ~(downloads'[subject[c]] > 0)
        PROVE  \E j \in 1 .. i - 1 : Rest(c)[j] = "create"
    <3>1. i + 1 \in 1 .. Len(todo[c]) /\ todo[c][i + 1] = "mark"
      BY <1>1, <2>1
    <3>2. ~(downloads[subject[c]] > 0)
      BY <1>2, <2>1
    <3>3. PICK j \in 1 .. (i + 1) - 1 : todo[c][j] = "create"
      BY <3>1, <3>2 DEF MarksBacked
    <3>4. j # 1
      BY <1>1, <2>1, <3>3
    <3>5. j - 1 \in 1 .. i - 1 /\ j - 1 \in 1 .. Len(Rest(c)) /\ (j - 1) + 1 = j
      BY <1>1, <2>1, <3>3, <3>4
    <3>6. Rest(c)[j - 1] = "create"
      BY <1>1, <3>3, <3>5
    <3>7. QED
      BY <3>5, <3>6
  <2>2. QED
    BY <2>1
<1>5. \A i \in 1 .. Len(steps) : steps[i] = "mark" =>
        downloads'[subject[c]] > 0 \/ \E j \in 1 .. i - 1 : steps[j] = "create"
  <2>1. CASE steps = Rest(c)
    BY <1>4, <2>1
  <2>2. CASE steps = <<>>
    BY <2>2
  <2>3. CASE steps = <<"write">> \o Rest(c)
    <3>1. /\ Len(steps) = 1 + Len(Rest(c)) /\ Len(Rest(c)) \in Nat
          /\ \A i \in 1 .. 1 + Len(Rest(c)) :
               steps[i] = IF i <= 1 THEN <<"write">>[i] ELSE Rest(c)[i - 1]
      BY <1>1, <2>3, StepLists, ConcatProperties
    <3>2. ASSUME NEW i \in 1 .. Len(steps), steps[i] = "mark", ~(downloads'[subject[c]] > 0)
          PROVE  \E j \in 1 .. i - 1 : steps[j] = "create"
      <4>1. i # 1
        BY <3>1, <3>2
      <4>2. i - 1 \in 1 .. Len(Rest(c)) /\ Rest(c)[i - 1] = "mark"
        BY <3>1, <3>2, <4>1
      <4>3. PICK j \in 1 .. (i - 1) - 1 : Rest(c)[j] = "create"
        BY <1>4, <3>2, <4>2
      <4>4. j + 1 \in 1 .. i - 1 /\ j + 1 \in 1 .. 1 + Len(Rest(c)) /\ ~(j + 1 <= 1) /\ (j + 1) - 1 = j
        BY <3>1, <4>2
      <4>5. steps[j + 1] = "create"
        BY <3>1, <4>3, <4>4
      <4>6. QED
        BY <4>4, <4>5
    <3>3. QED
      BY <3>2
  <2>4. QED
    BY <2>1, <2>2, <2>3
<1>6. todo'[c] = steps
  BY DEF Typed, CapturesTyped
<1>7. QED
  BY <1>3, <1>5, <1>6 DEF MarksBacked

LEMMA MemoryBacked ==
  Backed(Memory) <=> \A k \in Capture : captures[k] = "started" => downloads[k] > 0
BY DEF Backed, Memory

LEMMA BackedCall ==
  ASSUME Typed, AllBacked, NEW c \in Client, up, up', CaptureCall(c)
  PROVE  AllBacked'
<1>1. PICK k \in Capture : CreateCapture(c, k) \/ RejectCapture(c, k) \/ StartCapture(c, k)
  BY DEF CaptureCall
<1>2. /\ UNCHANGED <<downloads, copied, disk>>
      /\ \A j \in Capture : captures'[j] = "started" => captures[j] = "started"
  BY <1>1 DEF CreateCapture, RejectCapture, StartCapture, Typed, CapturesTyped
<1>3. PICK steps : Plan(c, k, steps) /\ MarksFollow(steps)
  <2>1. CASE CreateCapture(c, k)
    BY <2>1, CreateSteps DEF CreateCapture
  <2>2. CASE RejectCapture(c, k)
    <3>1. Len(Report) = 2 /\ Report[1] = "publish" /\ Report[2] = "copy"
      BY DEF Report
    <3>2. MarksFollow(Report)
      BY <3>1 DEF MarksFollow
    <3>3. QED
      BY <2>2, <3>2 DEF RejectCapture
  <2>3. CASE StartCapture(c, k)
    BY <2>3, StartStepsWell, StartsWellMarks DEF StartCapture
  <2>4. QED
    BY <1>1, <2>1, <2>2, <2>3
<1>4. /\ todo'[c] = steps /\ subject'[c] = k
      /\ \A d \in Client : d # c => todo'[d] = todo[d] /\ subject'[d] = subject[d]
  BY <1>3 DEF Plan, Typed, CapturesTyped
<1>5. MarksBacked'
  <2>1. ASSUME NEW d \in Client, NEW i \in 1 .. Len(todo'[d]), todo'[d][i] = "mark"
        PROVE  downloads'[subject'[d]] > 0 \/ \E j \in 1 .. i - 1 : todo'[d][j] = "create"
    <3>1. CASE d = c
      BY <1>3, <1>4, <2>1, <3>1 DEF MarksFollow
    <3>2. CASE d # c
      BY <1>2, <1>4, <2>1, <3>2 DEF AllBacked, MarksBacked
    <3>3. QED
      BY <3>1, <3>2
  <2>2. QED
    BY <2>1 DEF MarksBacked
<1>6. StepsHaveSubject'
  BY <1>4 DEF AllBacked, StepsHaveSubject
<1>7. Backed(Memory)'
  BY <1>2, MemoryBacked DEF AllBacked, Backed, Memory
<1>8. Backed(disk)' /\ \A d \in Client : Backed(copied[d])'
  BY <1>2 DEF AllBacked, Backed
<1>9. QED
  BY <1>5, <1>6, <1>7, <1>8 DEF AllBacked

(***************************************************************************)
(* What a handler does between its critical sections and in them.          *)
(***************************************************************************)
LEMMA HandlerLists ==
  ASSUME NEW c \in Client, Locking(c) \/ Unhindered(c)
  PROVE  /\ \E step \in StepName, steps \in {Rest(c), <<>>, <<"write">> \o Rest(c)} :
              /\ Due(c, step) /\ todo' = [todo EXCEPT ![c] = steps]
              /\ CreateDownload(c) \/ (step # "create" /\ UNCHANGED downloads)
         /\ UNCHANGED subject
BY DEF Locking, Unhindered, Check, CreateDownload, BeginDownload, MarkStarted, CopyState, Tell,
       WriteState, Does, StepName

LEMMA BackedHandler ==
  ASSUME Typed, Typed', AllBacked, NEW c \in Client, Locking(c) \/ Unhindered(c), up' = up
  PROVE  AllBacked'
<1>1. PICK step \in StepName, steps \in {Rest(c), <<>>, <<"write">> \o Rest(c)} :
        /\ Due(c, step) /\ todo' = [todo EXCEPT ![c] = steps]
        /\ CreateDownload(c) \/ (step # "create" /\ UNCHANGED downloads)
  BY HandlerLists
<1>2. /\ UNCHANGED subject
      /\ todo[c] # <<>> /\ subject[c] \in Capture /\ up
  BY <1>1, HandlerLists DEF Due, AllBacked, StepsHaveSubject
<1>3. \A k \in Capture : downloads[k] \in Nat /\ downloads'[k] \in Nat /\ downloads'[k] >= downloads[k]
  <2>1. downloads \in [Capture -> Nat]
    BY DEF Typed, CapturesTyped
  <2>2. CASE CreateDownload(c)
    <3>1. downloads' = [downloads EXCEPT ![subject[c]] = downloads[subject[c]] + 1]
      BY <2>2 DEF CreateDownload
    <3>2. \A k \in Capture : downloads'[k] = downloads[k] \/ downloads'[k] = downloads[k] + 1
      BY <2>1, <3>1
    <3>3. \A k \in Capture : downloads[k] \in Nat
      BY <2>1
    <3>4. QED
      BY <3>2, <3>3
  <2>3. CASE UNCHANGED downloads
    BY <2>1, <2>3
  <2>4. QED
    BY <1>1, <2>2, <2>3
<1>4. step # "create" \/ downloads'[subject[c]] > 0
  <2>1. CASE CreateDownload(c)
    <3>1. /\ downloads \in [Capture -> Nat]
          /\ downloads' = [downloads EXCEPT ![subject[c]] = downloads[subject[c]] + 1]
      BY <2>1 DEF CreateDownload, Typed, CapturesTyped
    <3>2. downloads'[subject[c]] = downloads[subject[c]] + 1 /\ downloads[subject[c]] \in Nat
      BY <1>2, <3>1
    <3>3. QED
      BY <3>2
  <2>2. QED
    BY <1>1, <2>1
<1>5. MarksBacked'
  <2>1. \A d \in Client : todo[d] # <<>> => subject[d] \in Capture
    BY DEF AllBacked, StepsHaveSubject
  <2>2. QED
    BY <1>1, <1>2, <1>3, <1>4, <2>1, RestBacked DEF AllBacked
<1>6. StepsHaveSubject'
  <2>1. \A d \in Client : d # c => todo'[d] = todo[d]
    BY <1>1 DEF Typed, CapturesTyped
  <2>2. QED
    BY <1>2, <2>1 DEF AllBacked, StepsHaveSubject
<1>7. Backed(Memory)'
  <2>1. CASE MarkStarted(c)
    <3>1. todo[c] \in Seq(StepName) /\ Len(todo[c]) \in Nat \ {0} /\ todo[c][1] = "mark"
      BY <2>1, RestTyped DEF MarkStarted, Does, Due, Typed
    <3>2. downloads[subject[c]] > 0
      <4>1. 1 \in 1 .. Len(todo[c]) /\ ~\E j \in 1 .. 1 - 1 : todo[c][j] = "create"
        BY <3>1
      <4>2. QED
        BY <3>1, <4>1 DEF AllBacked, MarksBacked
    <3>3. \A k \in Capture : captures'[k] = "started" => captures[k] = "started" \/ k = subject[c]
      BY <2>1 DEF MarkStarted, Typed, CapturesTyped
    <3>4. UNCHANGED downloads
      BY <2>1 DEF MarkStarted
    <3>5. QED
      BY <3>2, <3>3, <3>4, MemoryBacked DEF AllBacked, Backed, Memory
  <2>2. CASE UNCHANGED captures
    <3>1. \A k \in Capture : downloads[k] > 0 => downloads'[k] > 0
      BY <1>3
    <3>2. QED
      BY <2>2, <3>1, MemoryBacked DEF AllBacked, Backed, Memory
  <2>3. QED
    BY <2>1, <2>2 DEF Locking, Unhindered, Check, CreateDownload, BeginDownload, CopyState, Tell, WriteState
<1>8. Backed(disk)' /\ \A d \in Client : Backed(copied[d])'
  <2>1. Backed(disk')
    BY DEF AllBacked, Locking, Unhindered, Check, CreateDownload, BeginDownload, MarkStarted, CopyState,
           Tell, WriteState
  <2>2. \A d \in Client : Backed(copied'[d])
    BY NothingBacked DEF AllBacked, Typed, CapturesTyped, Locking, Unhindered, Check, CreateDownload,
           BeginDownload, MarkStarted, CopyState, Tell, WriteState
  <2>3. QED
    BY <2>1, <2>2 DEF Backed
<1>9. QED
  BY <1>5, <1>6, <1>7, <1>8 DEF AllBacked

(***************************************************************************)
(* The end of the process, a restart, and everything else.                 *)
(***************************************************************************)
LEMMA BackedUntouched ==
  ASSUME AllBacked, UNCHANGED <<captures, downloads, subject, disk, up>>,
         \A c \in Client : todo'[c] = todo[c] \/ todo'[c] = <<>>,
         \A c \in Client : copied'[c] = copied[c] \/ copied'[c] = Nothing
  PROVE  AllBacked'
<1>1. Backed(Memory)' /\ Backed(disk)'
  BY DEF AllBacked, Backed, Memory
<1>2. \A c \in Client : Backed(copied[c])'
  BY NothingBacked DEF AllBacked, Backed
<1>3. MarksBacked'
  <2>1. Len(<<>>) = 0
    OBVIOUS
  <2>2. ASSUME NEW c \in Client, NEW i \in 1 .. Len(todo'[c]), todo'[c][i] = "mark"
        PROVE  downloads'[subject'[c]] > 0 \/ \E j \in 1 .. i - 1 : todo'[c][j] = "create"
    <3>1. todo'[c] = todo[c]
      BY <2>1, <2>2
    <3>2. QED
      BY <2>2, <3>1 DEF AllBacked, MarksBacked
  <2>3. QED
    BY <2>2 DEF MarksBacked
<1>4. StepsHaveSubject'
  BY DEF AllBacked, StepsHaveSubject
<1>5. QED
  BY <1>1, <1>2, <1>3, <1>4 DEF AllBacked

LEMMA BackedDown ==
  ASSUME Typed, AllBacked, Down
  PROVE  AllBacked'
<1>1. /\ \A c \in Client : todo'[c] = <<>> /\ Len(todo'[c]) = 0 /\ copied'[c] = Nothing
      /\ UNCHANGED <<captures, downloads, disk>>
  BY DEF Down
<1>2. MarksBacked' /\ StepsHaveSubject'
  BY <1>1 DEF MarksBacked, StepsHaveSubject
<1>3. Backed(Memory)' /\ Backed(disk)' /\ \A c \in Client : Backed(copied[c])'
  BY <1>1, NothingBacked DEF AllBacked, Backed, Memory
<1>4. QED
  BY <1>2, <1>3 DEF AllBacked

LEMMA BackedRestart ==
  ASSUME Typed, AllBacked, Restart
  PROVE  AllBacked'
<1>1. /\ ~up /\ captures' = disk.captures /\ downloads' = disk.downloads
      /\ UNCHANGED <<subject, todo, copied, disk>>
  BY DEF Restart
<1>2. \A c \in Client : todo[c] = <<>> /\ Len(todo[c]) = 0
  BY <1>1 DEF AllBacked, StepsHaveSubject
<1>3. MarksBacked' /\ StepsHaveSubject'
  BY <1>1, <1>2 DEF MarksBacked, StepsHaveSubject
<1>4. Backed(Memory)' /\ Backed(disk)' /\ \A c \in Client : Backed(copied[c])'
  BY <1>1 DEF AllBacked, Backed, Memory
<1>5. QED
  BY <1>3, <1>4 DEF AllBacked

LEMMA BackedStep == Typed /\ Typed' /\ AllBacked /\ [Next]_vars => AllBacked'
<1> SUFFICES ASSUME Typed, Typed', AllBacked, [Next]_vars PROVE AllBacked'
  OBVIOUS
<1>1. ASSUME UNCHANGED capturing, up' = up PROVE AllBacked'
  BY <1>1, BackedUntouched DEF capturing
<1>2. ASSUME NEW c \in Client, Call(c) PROVE AllBacked'
  BY <1>1, <1>2, BackedCall DEF Call
<1>3. ASSUME NEW c \in Client, Handler(c) PROVE AllBacked'
  BY <1>1, <1>3, BackedHandler DEF Handler
<1>4. ASSUME NEW c \in Client, HandlerPanics(c) PROVE AllBacked'
  <2>1. \A d \in Client : todo'[d] = todo[d] \/ todo'[d] = <<>>
    BY <1>4 DEF HandlerPanics, Typed, CapturesTyped
  <2>2. UNCHANGED <<captures, downloads, subject, disk, up, copied>>
    BY <1>4 DEF HandlerPanics
  <2>3. QED
    BY <2>1, <2>2, BackedUntouched
<1>5. QED
  BY <1>1, <1>2, <1>3, <1>4, BackedDown, BackedRestart
     DEF Next, RunStep, SendNext, StreamStep, RunPanics, Kill, vars

LEMMA BackedInit == Init => AllBacked
<1> SUFFICES ASSUME Init PROVE AllBacked
  OBVIOUS
<1>1. /\ \A k \in Capture : captures[k] # "started"
      /\ \A c \in Client : todo[c] = <<>> /\ Len(todo[c]) = 0 /\ copied[c] = Nothing
      /\ disk = Memory
  BY DEF Init, InitCaptures
<1>2. Backed(Memory)
  BY <1>1 DEF Backed, Memory
<1>3. QED
  BY <1>1, <1>2, NothingBacked DEF AllBacked, MarksBacked, StepsHaveSubject

(***************************************************************************)
(* In every reachable state, memory, copies and state file agree that what *)
(* is started has a download.                                              *)
(***************************************************************************)
THEOREM BackedHolds == Spec => []AllBacked
BY BackedInit, TypedHolds, BackedStep, PTL DEF Spec

(***************************************************************************)
(* A capture that shows as started has had its download created, in memory *)
(* and in every state file a crash can leave.                              *)
(***************************************************************************)
THEOREM StartedCapturesAreReal == Spec => []StartedHasDownload
<1>1. AllBacked => StartedHasDownload
  BY DEF AllBacked, Backed, Memory, StartedHasDownload
<1>2. QED
  BY BackedHolds, <1>1, PTL
-----------------------------------------------------------------------------
(***************************************************************************)
(* A handler that threatens nothing for a capture: it is about another     *)
(* one, has still to look at it, or neither creates nor marks any more.    *)
(***************************************************************************)
Harmless(steps) == \A i \in 1 .. Len(steps) : steps[i] \notin {"create", "mark"}

Quiet(c, k) == subject[c] = k => todo[c] = <<>> \/ Step(c) = "check" \/ Harmless(todo[c])

LEMMA QuietMeansNoStart ==
  ASSUME NEW k \in Capture
  PROVE  /\ ~OnItsWay(k) <=> \A c \in Client : Quiet(c, k)
         /\ ~OnItsWay(k)' <=> \A c \in Client : Quiet(c, k)'
BY DEF OnItsWay, Quiet, Harmless

LEMMA SettledCall ==
  ASSUME Typed, NEW k \in Capture, Settled(k), NEW c \in Client, CaptureCall(c)
  PROVE  Stays(k)
<1>1. PICK j \in Capture : CreateCapture(c, j) \/ RejectCapture(c, j) \/ StartCapture(c, j)
  BY DEF CaptureCall
<1>2. captures'[k] = captures[k] /\ downloads'[k] = downloads[k]
  BY <1>1 DEF CreateCapture, RejectCapture, StartCapture, Settled, Typed, CapturesTyped
<1>3. PICK steps : Plan(c, j, steps) /\ (j = k => Head(steps) = "check" \/ Harmless(steps))
  <2>1. CASE CreateCapture(c, j)
    BY <2>1 DEF CreateCapture, Settled
  <2>2. CASE RejectCapture(c, j)
    <3>1. Len(Report) = 2 /\ Report[1] = "publish" /\ Report[2] = "copy"
      BY DEF Report
    <3>2. QED
      BY <2>2, <3>1 DEF RejectCapture, Harmless
  <2>3. CASE StartCapture(c, j)
    <3>1. Head(StartSteps) = "check"
      BY StartStepsWell, HeadTailProperties, EmptySeq DEF StartsWell
    <3>2. QED
      BY <2>3, <3>1 DEF StartCapture
  <2>4. QED
    BY <1>1, <2>1, <2>2, <2>3
<1>4. ASSUME NEW d \in Client PROVE Quiet(d, k)'
  <2>1. CASE d = c
    BY <1>3, <2>1 DEF Plan, Quiet, Step, Harmless, Typed, CapturesTyped
  <2>2. CASE d # c
    <3>1. todo'[d] = todo[d] /\ subject'[d] = subject[d]
      BY <1>3, <2>2 DEF Plan, Typed, CapturesTyped
    <3>2. Quiet(d, k)
      BY QuietMeansNoStart DEF Settled
    <3>3. QED
      BY <3>1, <3>2 DEF Quiet, Step, Harmless
  <2>3. QED
    BY <2>1, <2>2
<1>5. QED
  BY <1>2, <1>4, QuietMeansNoStart DEF Settled, Stays

(***************************************************************************)
(* A handler's step: the look at a settled capture ends the start, and no  *)
(* list without creations and marks gets one.                              *)
(***************************************************************************)
LEMMA HarmlessRest ==
  ASSUME CapturesTyped, NEW c \in Client, NEW step, Due(c, step), Harmless(todo[c]),
         NEW steps \in {Rest(c), <<>>, <<"write">> \o Rest(c)}
  PROVE  Harmless(steps)
<1>1. /\ Rest(c) \in Seq(StepName) /\ Len(Rest(c)) = Len(todo[c]) - 1
      /\ \A i \in 1 .. Len(Rest(c)) : Rest(c)[i] = todo[c][i + 1]
      /\ Len(todo[c]) \in Nat \ {0}
  BY RestTyped
<1>2. Harmless(Rest(c))
  BY <1>1 DEF Harmless
<1>3. CASE steps = <<>>
  BY <1>3 DEF Harmless
<1>4. CASE steps = <<"write">> \o Rest(c)
  <2>1. /\ Len(steps) = 1 + Len(Rest(c)) /\ Len(Rest(c)) \in Nat
        /\ \A i \in 1 .. 1 + Len(Rest(c)) :
             steps[i] = IF i <= 1 THEN <<"write">>[i] ELSE Rest(c)[i - 1]
    BY <1>1, <1>4, StepLists, ConcatProperties
  <2>2. ASSUME NEW i \in 1 .. Len(steps) PROVE steps[i] \notin {"create", "mark"}
    <3>1. CASE i = 1
      BY <2>1, <3>1
    <3>2. CASE i # 1
      <4>1. i - 1 \in 1 .. Len(Rest(c)) /\ ~(i <= 1) /\ i \in 1 .. 1 + Len(Rest(c))
        BY <2>1, <3>2
      <4>2. QED
        BY <1>2, <2>1, <4>1 DEF Harmless
    <3>3. QED
      BY <3>1, <3>2
  <2>3. QED
    BY <2>2 DEF Harmless
<1>5. QED
  BY <1>2, <1>3, <1>4

LEMMA SettledHandler ==
  ASSUME Typed, StepsHaveSubject, NEW k \in Capture, Settled(k),
         NEW c \in Client, Locking(c) \/ Unhindered(c)
  PROVE  Stays(k)
<1>1. PICK step \in StepName, steps \in {Rest(c), <<>>, <<"write">> \o Rest(c)} :
        Due(c, step) /\ todo' = [todo EXCEPT ![c] = steps]
  BY HandlerLists
<1>2. UNCHANGED subject /\ subject[c] \in Capture /\ todo[c] # <<>> /\ Step(c) = step
  BY <1>1, HandlerLists DEF Due, StepsHaveSubject
<1>3. Quiet(c, k)
  BY QuietMeansNoStart DEF Settled
<1>4. CASE subject[c] # k
  <2>1. captures'[k] = captures[k] /\ downloads'[k] = downloads[k]
    BY <1>2, <1>4 DEF Locking, Unhindered, Check, CreateDownload, BeginDownload, MarkStarted,
                      CopyState, Tell, WriteState, Typed, CapturesTyped
  <2>2. ASSUME NEW d \in Client PROVE Quiet(d, k)'
    <3>1. CASE d = c
      BY <1>2, <1>4, <3>1 DEF Quiet
    <3>2. CASE d # c
      <4>1. todo'[d] = todo[d] /\ Quiet(d, k)
        BY <1>1, <3>2, QuietMeansNoStart DEF Settled, Typed, CapturesTyped
      <4>2. QED
        BY <1>2, <4>1 DEF Quiet, Step, Harmless
    <3>3. QED
      BY <3>1, <3>2
  <2>3. QED
    BY <2>1, <2>2, QuietMeansNoStart DEF Settled, Stays
<1>5. CASE subject[c] = k
  <2>1. step = "check" \/ Harmless(todo[c])
    BY <1>2, <1>3, <1>5 DEF Quiet
  <2>2. step \notin {"create", "mark"}
    <3>1. Len(todo[c]) \in Nat \ {0} /\ todo[c][1] = step
      BY <1>1, <1>2, RestTyped DEF Typed
    <3>2. 1 \in 1 .. Len(todo[c])
      BY <3>1
    <3>3. QED
      BY <2>1, <3>1, <3>2 DEF Harmless
  <2>3. ~CreateDownload(c) /\ ~MarkStarted(c)
    BY <1>2, <2>2 DEF CreateDownload, MarkStarted, Does, Due
  <2>4. captures' = captures /\ downloads' = downloads
    BY <2>3 DEF Locking, Unhindered, Check, BeginDownload, CopyState, Tell, WriteState
  <2>5. todo'[c] = <<>> \/ Harmless(todo'[c])
    <3>1. CASE step = "check"
      <4>1. Check(c)
        BY <1>2, <3>1 DEF Locking, Unhindered, Check, CreateDownload, BeginDownload, MarkStarted,
                          CopyState, Tell, WriteState, Does, Due
      <4>2. ~MayBeStarted(k)
        BY DEF MayBeStarted, Settled
      <4>3. QED
        BY <1>5, <4>1, <4>2 DEF Check, Typed, CapturesTyped
    <3>2. CASE Harmless(todo[c])
      <4>1. Harmless(steps)
        BY <1>1, <3>2, HarmlessRest DEF Typed
      <4>2. todo'[c] = steps
        BY <1>1 DEF Typed, CapturesTyped
      <4>3. QED
        BY <4>1, <4>2
    <3>3. QED
      BY <2>1, <3>1, <3>2
  <2>6. ASSUME NEW d \in Client PROVE Quiet(d, k)'
    <3>1. CASE d = c
      BY <2>5, <3>1 DEF Quiet, Harmless
    <3>2. CASE d # c
      <4>1. todo'[d] = todo[d] /\ Quiet(d, k)
        BY <1>1, <3>2, QuietMeansNoStart DEF Settled, Typed, CapturesTyped
      <4>2. QED
        BY <1>2, <4>1 DEF Quiet, Step, Harmless
    <3>3. QED
      BY <3>1, <3>2
  <2>7. QED
    BY <2>4, <2>6, QuietMeansNoStart DEF Settled, Stays
<1>6. QED
  BY <1>4, <1>5

LEMMA SettledUntouched ==
  ASSUME NEW k \in Capture, Settled(k), UNCHANGED <<captures, downloads, subject>>,
         \A c \in Client : todo'[c] = todo[c] \/ todo'[c] = <<>>
  PROVE  Stays(k)
<1>1. ASSUME NEW c \in Client PROVE Quiet(c, k)'
  <2>1. Quiet(c, k)
    BY QuietMeansNoStart DEF Settled
  <2>2. QED
    BY <2>1 DEF Quiet, Step, Harmless
<1>2. QED
  BY <1>1, QuietMeansNoStart DEF Settled, Stays

LEMMA SettledStep ==
  ASSUME Typed, AllBacked, up, NEW k \in Capture, Settled(k), [Next]_vars
  PROVE  Stays(k)
<1> DEFINE Goal == Stays(k)
<1>1. ASSUME UNCHANGED capturing PROVE Goal
  BY <1>1, SettledUntouched DEF capturing
<1>2. ASSUME NEW c \in Client, Call(c) PROVE Goal
  BY <1>1, <1>2, SettledCall DEF Call
<1>3. ASSUME NEW c \in Client, Handler(c) PROVE Goal
  BY <1>1, <1>3, SettledHandler DEF Handler, AllBacked
<1>4. ASSUME NEW c \in Client, HandlerPanics(c) PROVE Goal
  <2>1. \A d \in Client : todo'[d] = todo[d] \/ todo'[d] = <<>>
    BY <1>4 DEF HandlerPanics, Typed, CapturesTyped
  <2>2. QED
    BY <1>4, <2>1, SettledUntouched DEF HandlerPanics
<1>5. ASSUME Down PROVE Goal
  BY <1>5, SettledUntouched DEF Down
<1> HIDE DEF Goal
<1>6. Goal
  BY <1>1, <1>2, <1>3, <1>4, <1>5
     DEF Next, RunStep, SendNext, StreamStep, RunPanics, Kill, Restart, vars
<1>7. QED
  BY <1>6 DEF Goal

(***************************************************************************)
(* Once a capture is rejected or started and no start is on its way, it    *)
(* stays what it is, rejected or started, and never gets another download, *)
(* as long as the agent lives.                                             *)
(***************************************************************************)
THEOREM SettledCapturesStay == Spec => SettledForGood
<1>1. Typed /\ AllBacked /\ [Next]_vars =>
        [ up => \A k \in Capture : Settled(k) => Stays(k) ]_vars
  BY SettledStep
<1>2. QED
  BY TypedHolds, BackedHolds, <1>1, PTL DEF Spec, SettledForGood
=============================================================================
