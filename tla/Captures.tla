------------------------------ MODULE Captures ------------------------------
(***************************************************************************)
(* Browser captures: a capture waits until a client rejects it or starts a *)
(* download from it; an automatic one is started by the call that brings   *)
(* it.  A start looks at the capture, releases the lock, creates the       *)
(* download and only then marks the capture, so calls overlap in between.  *)
(*                                                                         *)
(* todo says what each handler has left to do.  The life of a download     *)
(* after its start, and its deletion (Manager.Delete), are the subject of  *)
(* module JobManager: here a download that was created stays counted.      *)
(***************************************************************************)
EXTENDS EventBus

CONSTANTS
  Capture,     \* capture ids, never used twice
  NoCapture

VARIABLES
  captures,    \* m.captures: the status of each; "unborn" ones do not exist
  downloads,   \* how many downloads were ever created from each
  subject,     \* the capture each handler is about
  todo,        \* what each handler has left to do
  copied,      \* what each handler has copied to save
  disk         \* captures and downloads in the state file

capturing == <<captures, downloads, subject, todo, copied, disk>>

Memory == [captures |-> captures, downloads |-> downloads]

Nothing == [captures |-> [k \in Capture |-> "unborn"], downloads |-> [k \in Capture |-> 0]]

\* The agent finds captures of an earlier day in its state file, or none.
InitCaptures ==
  /\ captures \in [Capture -> {"unborn", "pending"}] /\ downloads = Nothing.downloads
  /\ subject = [c \in Client |-> NoCapture]
  /\ todo = [c \in Client |-> <<>>]
  /\ copied = [c \in Client |-> Nothing]
  /\ disk = Memory
-----------------------------------------------------------------------------
\* Every critical section is followed by an event and by SaveState.
Report == <<"publish", "copy">>

\* Bug variant: the capture is marked before its download is there.
StartSteps_MarksFirst ==
  <<"check", "mark">> \o Report \o <<"create">> \o Report \o <<"begin">> \o Report

\* StartCaptureDownload; CreateDownload and its Start are the steps create and begin.
StartSteps ==
  <<"check", "create">> \o Report \o <<"begin">> \o Report \o <<"mark">> \o Report

Step(c) == Head(todo[c])

Due(c, step) == todo[c] # <<>> /\ Step(c) = step

Rest(c) == Tail(todo[c])

Does(c, step) == Due(c, step) /\ Silent(c) /\ todo' = [todo EXCEPT ![c] = Rest(c)]

Plan(c, k, steps) ==
  /\ subject' = [subject EXCEPT ![c] = k]
  /\ todo' = [todo EXCEPT ![c] = steps]

\* A duplicate is told in a second event; an automatic capture is started at once.
CreateCapture(c, k) ==
  /\ captures[k] = "unborn"
  /\ captures' = [captures EXCEPT ![k] = "pending"]
  /\ \E duplicate \in {<<>>, <<"publish">>}, auto \in {<<>>, StartSteps} :
       Plan(c, k, duplicate \o Report \o auto)
  /\ UNCHANGED <<downloads, copied, disk, bus>>

\* Bug variant: the status is not looked at.
RejectCapture_Anytime(c, k) ==
  /\ captures[k] # "unborn"
  /\ captures' = [captures EXCEPT ![k] = "rejected"]
  /\ Plan(c, k, Report)
  /\ UNCHANGED <<downloads, copied, disk, bus>>

RejectCapture(c, k) ==
  /\ captures[k] \in {"pending", "rejected"}
  /\ captures' = [captures EXCEPT ![k] = "rejected"]
  /\ Plan(c, k, Report)
  /\ UNCHANGED <<downloads, copied, disk, bus>>

\* The policy show_existing is refused without any effect and left out.
StartCapture(c, k) ==
  /\ captures[k] # "unborn"
  /\ Plan(c, k, StartSteps)
  /\ UNCHANGED <<captures, downloads, copied, disk, bus>>
-----------------------------------------------------------------------------
MayBeStarted(k) == captures[k] \notin {"rejected", "started"}

Check(c) ==
  /\ Due(c, "check") /\ Silent(c)
  /\ todo' = [todo EXCEPT ![c] = IF MayBeStarted(subject[c]) THEN Rest(c) ELSE <<>>]
  /\ UNCHANGED <<captures, downloads, subject, copied, disk, bus>>

CreateDownload(c) ==
  /\ Does(c, "create")
  /\ downloads' = [downloads EXCEPT ![subject[c]] = @ + 1]
  /\ UNCHANGED <<captures, subject, copied, disk, bus>>

\* Start refuses when another call has started, cancelled or deleted the download.
BeginDownload(c) ==
  /\ Due(c, "begin") /\ Silent(c)
  /\ \E left \in {Rest(c), <<>>} : todo' = [todo EXCEPT ![c] = left]
  /\ UNCHANGED <<captures, downloads, subject, copied, disk, bus>>

MarkStarted(c) ==
  /\ Does(c, "mark")
  /\ captures' = [captures EXCEPT ![subject[c]] = "started"]
  /\ UNCHANGED <<downloads, subject, copied, disk, bus>>

Tell(c) ==
  /\ Does(c, "publish")
  /\ Publish(c, Notice)
  /\ UNCHANGED <<captures, downloads, subject, copied, disk>>

\* SaveState copies under the read lock, and writes after releasing it.
CopyState(c) ==
  /\ Due(c, "copy") /\ Silent(c)
  /\ copied' = [copied EXCEPT ![c] = Memory]
  /\ todo' = [todo EXCEPT ![c] = <<"write">> \o Rest(c)]
  /\ UNCHANGED <<captures, downloads, subject, disk, bus>>

\* Nobody looks at the error of a failed write.
WriteState(c) ==
  /\ Does(c, "write")
  /\ disk' \in {copied[c], disk}
  /\ copied' = [copied EXCEPT ![c] = Nothing]
  /\ UNCHANGED <<captures, downloads, subject, bus>>

\* What needs m.mu, and what does not.
Locking(c) == Check(c) \/ CreateDownload(c) \/ BeginDownload(c) \/ MarkStarted(c) \/ CopyState(c)

Unhindered(c) == Tell(c) \/ WriteState(c)

CaptureCall(c) == \E k \in Capture : CreateCapture(c, k) \/ RejectCapture(c, k) \/ StartCapture(c, k)
-----------------------------------------------------------------------------
(***************************************************************************)
(* A capture that shows as started has had its download created, in memory *)
(* and in every state file a crash can leave.                              *)
(***************************************************************************)
StartedHasDownload ==
  \A k \in Capture : /\ captures[k] = "started" => downloads[k] > 0
                     /\ disk.captures[k] = "started" => disk.downloads[k] > 0

\* A start that has passed its look at the capture.
OnItsWay(k) ==
  \E c \in Client : subject[c] = k /\ todo[c] # <<>> /\ Step(c) # "check"
                    /\ \E i \in 1 .. Len(todo[c]) : todo[c][i] \in {"create", "mark"}

Settled(k) == captures[k] \in {"rejected", "started"} /\ ~OnItsWay(k)
=============================================================================
