---------------------------- MODULE ResumeSession ----------------------------
(***************************************************************************)
(* The life of one output path over many commands: downloads with various  *)
(* settings, in parallel or single mode, interrupted, failed, killed and   *)
(* repeated, and the clean command.  What connects the commands is only    *)
(* what is on disk: the output file and its manifest.  Inside a parallel   *)
(* run the engine is seen as module Transfer describes it; WorkStealing    *)
(* and SegmentQueue implement that description.                            *)
(***************************************************************************)
EXTENDS Integers

CONSTANTS
  Size,               \* bytes of the file
  Settings,           \* combinations of URL, connections and queue settings
  Modes,              \* download modes that occur: subset of {"parallel", "single"}
  OutputMayVanish,    \* may somebody delete the output but not the manifest?
  SizesDiffer,        \* may other settings name a file of another size?
  ShortBodies,        \* may the body of a response end cleanly before the bytes asked for?
  MaxCommands         \* bound on the number of commands

ASSUME SessionAssumption ==
  /\ Size \in Nat \ {0} /\ MaxCommands \in Nat
  /\ Modes \subseteq {"parallel", "single"}
  /\ OutputMayVanish \in BOOLEAN /\ SizesDiffer \in BOOLEAN /\ ShortBodies \in BOOLEAN

Byte == 0 .. Size - 1

VARIABLES
  output,     \* the file: whether it exists, and which bytes are right, for which settings
  manifest,   \* the manifest file: absent, corrupt (cut short), or saved
  run,        \* what the running program is doing, or "none"
  want,       \* the settings it was started with
  completed,  \* in-memory list of completed bytes of a parallel run
  result,     \* how the last command ended; for a cancellation, what it said
  commands    \* how many commands were given

vars == <<output, manifest, run, want, completed, result, commands>>

NoOutput(s) == [exists |-> FALSE, settings |-> s, bytes |-> {}]
NoManifest(s) == [state |-> "absent", settings |-> s, done |-> {}]
Corrupt(s)    == [state |-> "corrupt", settings |-> s, done |-> {}]
SavedFor(s, done) == [state |-> "saved", settings |-> s, done |-> done]

Init ==
  /\ want \in Settings
  /\ output = NoOutput(want)
  /\ manifest = NoManifest(want)
  /\ run = "none" /\ completed = {} /\ result = "none" /\ commands = 0

\* quickget.Download: start event, HEAD request, mode decision still open.
DownloadCommand(s) ==
  /\ run = "none" /\ commands < MaxCommands
  /\ run' = "probing" /\ want' = s /\ commands' = commands + 1
  /\ result' = "none" /\ completed' = {}
  /\ UNCHANGED <<output, manifest>>

\* The bytes of the output that are right for a command with settings s.
Right(s) == IF output.settings = s THEN output.bytes ELSE {}

Holds(s, bytes) == [exists |-> TRUE, settings |-> s, bytes |-> bytes]

Stop(r) == run' = "none" /\ completed' = {} /\ result' = r /\ UNCHANGED <<want, commands>>

\* The facade reports any error that wraps context.Canceled with these words.
CancelledMessage == "cancelled; resume state saved"

\* HEAD fails, or the disk is full, or the command is cancelled there.
StopProbing ==
  /\ run = "probing"
  /\ Stop("failed") \/ Stop(CancelledMessage)
  /\ UNCHANGED <<output, manifest>>
-----------------------------------------------------------------------------
(***************************************************************************)
(* Parallel mode.                                                          *)
(***************************************************************************)
\* Bug variant: any manifest that parses is resumed.
Matches_AnySettings == manifest.state = "saved"

\* Bug variant: the comparison never succeeds.
Matches_Never == manifest.state = "saved" /\ manifest.settings # want

Matches == manifest.state = "saved" /\ manifest.settings = want

\* Whether the output exists is not looked at.
EnterResuming ==
  /\ run = "probing" /\ "parallel" \in Modes
  /\ Matches
  /\ run' = "parallel" /\ completed' = manifest.done
  /\ UNCHANGED <<output, manifest, want, result, commands>>

\* preallocateFile keeps the bytes of a file that is already there, up to the new
\* size; a manifest for other settings is still beside it.
Preallocate ==
  /\ run = "probing" /\ "parallel" \in Modes
  /\ ~Matches
  /\ run' = "creating"
  /\ \E size \in IF SizesDiffer /\ output.settings # want THEN 0 .. Size ELSE {Size} :
       output' = [output EXCEPT !.exists = TRUE, !.bytes = @ \intersect (0 .. size - 1)]
  /\ UNCHANGED <<manifest, want, completed, result, commands>>

CreateManifest ==
  /\ run = "creating"
  /\ run' = "parallel"
  /\ manifest' = SavedFor(want, {})
  /\ UNCHANGED <<output, want, completed, result, commands>>

\* The first Save fails, before or after it has truncated the old manifest.
CreateFails ==
  /\ run = "creating"
  /\ Stop("failed")
  /\ manifest' \in {manifest, Corrupt(want)}
  /\ UNCHANGED output

\* Bug variant: the last position of the file is taken for its length.
Open_OnePastTheEnd == (0 .. Size) \ completed

Open == Byte \ completed

\* A segment is written; it may fail before it is recorded.
FetchSegment ==
  /\ run = "parallel" /\ output.exists
  /\ \E s \in SUBSET Open :
       /\ s # {}
       /\ output' = Holds(want, Right(want) \union s)
       /\ completed' = completed \union s \/ UNCHANGED completed
  /\ UNCHANGED <<manifest, run, want, result, commands>>

\* A body ends early: what did not come is recorded with the rest of the segment.
FetchShort ==
  /\ ShortBodies
  /\ run = "parallel" /\ output.exists
  /\ \E s \in SUBSET Open : \E came \in SUBSET s \ {s} :
       /\ output' = Holds(want, Right(want) \union came)
       /\ completed' = completed \union s
  /\ UNCHANGED <<manifest, run, want, result, commands>>

\* What a Save leaves: it may fail before or after it has truncated the old manifest.
Rewritten == {SavedFor(want, completed), manifest, Corrupt(want)}

\* A failing save is a warning; the download goes on.
PeriodicSave ==
  /\ run = "parallel"
  /\ manifest' \in Rewritten
  /\ UNCHANGED <<output, run, want, completed, result, commands>>

\* The error of the last Save is dropped.
CancelParallel ==
  /\ run = "parallel"
  /\ manifest' \in Rewritten
  /\ Stop(CancelledMessage)
  /\ UNCHANGED output

\* Retries used up; also: no output file to open.
FailParallel ==
  /\ run = "parallel" /\ completed # Byte
  /\ Stop("failed")
  /\ UNCHANGED <<output, manifest>>

\* Bug variant: workers that left because of a cancellation are taken to have finished.
FinishParallel_CancelIsSuccess ==
  /\ run = "parallel"
  /\ manifest' = NoManifest(want) /\ Stop("success")
  /\ UNCHANGED output

FinishParallel ==
  /\ run = "parallel" /\ completed = Byte
  /\ \/ manifest' = NoManifest(want) /\ Stop("success")
     \/ manifest' \in Rewritten /\ Stop("failed")   \* cannot be removed
  /\ UNCHANGED output
-----------------------------------------------------------------------------
(***************************************************************************)
(* Single mode (one worker, no range support, or unknown size): the output *)
(* is truncated and written from the front; there is no manifest.          *)
(***************************************************************************)
EnterSingle ==
  /\ run = "probing" /\ "single" \in Modes
  /\ run' = "single"
  /\ output' = Holds(want, {})
  /\ UNCHANGED <<manifest, want, completed, result, commands>>

ReadSingle ==
  /\ run = "single"
  /\ \E b \in Byte \ Right(want) :
       /\ \A c \in Byte : c < b => c \in Right(want)
       /\ output' = Holds(want, Right(want) \union {b})
  /\ UNCHANGED <<manifest, run, want, completed, result, commands>>

StopSingle ==
  /\ run = "single"
  /\ Stop("failed") \/ Stop(CancelledMessage)
  /\ UNCHANGED <<output, manifest>>

\* The server ends the body; only ShortBodies lets it do so before the last byte.
BodyIsOver == Right(want) = Byte \/ ShortBodies

\* The end of the body is success: what came is not compared with the size.
FinishSingle ==
  /\ run = "single" /\ BodyIsOver
  /\ Stop("success")
  /\ UNCHANGED <<output, manifest>>
-----------------------------------------------------------------------------
\* The program is killed; in the middle of os.WriteFile the manifest is cut short.
Kill ==
  /\ run # "none"
  /\ Stop("killed")
  /\ UNCHANGED output
  /\ \/ UNCHANGED manifest
     \/ run \in {"creating", "parallel"} /\ manifest' = Corrupt(want)

CleanCommand ==
  /\ run = "none" /\ commands < MaxCommands
  /\ commands' = commands + 1
  /\ UNCHANGED <<run, want, completed>>

\* No manifest: reported, nothing changes.  A manifest that does not parse: an error.
CleanNothing ==
  /\ CleanCommand
  /\ manifest.state # "saved"
  /\ result' = IF manifest.state = "absent" THEN "nothing to clean" ELSE "failed"
  /\ UNCHANGED <<output, manifest>>

\* The output goes too, unless the manifest lists every byte or it cannot be removed.
CleanManifest ==
  /\ CleanCommand
  /\ manifest.state = "saved"
  /\ manifest' = NoManifest(manifest.settings)
  /\ \/ manifest.done = Byte /\ result' = "cleaned" /\ UNCHANGED output
     \/ manifest.done # Byte /\ result' = "cleaned" /\ output' = NoOutput(want)
     \/ manifest.done # Byte /\ output.exists /\ result' = "failed" /\ UNCHANGED output

OutputVanishes ==
  /\ OutputMayVanish
  /\ run = "none" /\ output.exists
  /\ output' = NoOutput(want) /\ result' = "none"
  /\ UNCHANGED <<manifest, run, want, completed, commands>>

Clean == CleanNothing \/ CleanManifest

Next ==
  \/ \E s \in Settings : DownloadCommand(s)
  \/ StopProbing \/ EnterResuming
  \/ Preallocate \/ CreateManifest \/ CreateFails
  \/ FetchSegment \/ FetchShort
  \/ PeriodicSave \/ CancelParallel \/ FailParallel \/ FinishParallel
  \/ EnterSingle \/ ReadSingle \/ StopSingle \/ FinishSingle
  \/ Kill \/ Clean \/ OutputVanishes

Spec == Init /\ [][Next]_vars
-----------------------------------------------------------------------------
TypeOK ==
  /\ output \in [exists : BOOLEAN, settings : Settings, bytes : SUBSET Byte]
  /\ manifest \in [state : {"absent", "corrupt", "saved"}, settings : Settings,
                   done : SUBSET Byte]
  /\ run \in {"none", "probing", "creating", "parallel", "single"}
  /\ want \in Settings /\ completed \subseteq Byte /\ commands \in 0 .. MaxCommands
  /\ result \in {"none", "failed", "killed", "success", CancelledMessage,
                 "cleaned", "nothing to clean"}

(***************************************************************************)
(* What a resumption relies on without looking: the manifest on disk       *)
(* claims no byte that is not in the output, nor does a running download.  *)
(***************************************************************************)
TrustedManifest ==
  /\ manifest.done \subseteq Right(manifest.settings)
  /\ run = "parallel" => completed \subseteq Right(want)

(***************************************************************************)
(* A command that reports success leaves the whole file (README: "If a     *)
(* download is interrupted, rerun the same command to continue").          *)
(***************************************************************************)
SuccessMeansWhole == result = "success" => Right(want) = Byte

(***************************************************************************)
(* Four events only make a manifest, or the list of a running download,    *)
(* claim bytes the output does not have: a single-mode run that truncates  *)
(* it, its removal by someone else, preallocation for another size while   *)
(* the old manifest is still there, and a body that ends early.            *)
(* No crash, failure, resumption, save or clean does.                      *)
(***************************************************************************)
OnlyTruncationBreaksTrust ==
  [][ TrustedManifest /\ ~TrustedManifest' =>
        EnterSingle \/ OutputVanishes \/ (SizesDiffer /\ Preallocate) \/ FetchShort ]_vars

(***************************************************************************)
(* As long as what is claimed can be trusted, success means the whole      *)
(* file, whatever was interrupted, cut short or cleaned before.  The one   *)
(* exception is the end of a single-mode run, which takes the end of the   *)
(* body for the end of the file, where a body may end early.               *)
(***************************************************************************)
SuccessFromTrust ==
  [][ TrustedManifest => SuccessMeansWhole' \/ (ShortBodies /\ FinishSingle) ]_vars

\* The manifest still lists, for the same settings, all that it listed.
StillSaved ==
  /\ manifest'.state = "saved" /\ manifest'.settings = manifest.settings
  /\ manifest.done \subseteq manifest'.done

(***************************************************************************)
(* Progress on disk is never given up silently.  A step after which a      *)
(* saved manifest is gone, cut short, or lists less, is one of four: a     *)
(* download with other settings replaces it, clean removes it, a download  *)
(* that has every byte removes it, or a write of it is broken off, by a    *)
(* kill or by an error of the file system, while a download owns it (that  *)
(* progress is lost: the next command starts from nothing).  No failed     *)
(* download, no resumption and no single-mode run does it, and a cancelled *)
(* download only by a save that fails.                                     *)
(***************************************************************************)
ProgressIsKept ==
  [][ manifest.state = "saved" =>
        \/ StillSaved
        \/ run = "creating" /\ want # manifest.settings
        \/ CleanManifest
        \/ run = "parallel" /\ completed = Byte /\ result' = "success"
        \/ run = "parallel" /\ manifest' = Corrupt(want) ]_vars

(***************************************************************************)
(* What these rest on: how a running command relates to what is on disk.   *)
(* A parallel run has a manifest of its own settings or none that parses,  *)
(* and claims at least what that lists; one that creates its manifest has  *)
(* found none to resume; a single-mode run has taken the output over.      *)
(***************************************************************************)
RunInv ==
  /\ run # "none" => result = "none"
  /\ run # "parallel" => completed = {}
  /\ run = "creating" => ~Matches
  /\ run = "parallel" => manifest.settings = want /\ manifest.done \subseteq completed
  /\ run = "single" => output.settings = want
=============================================================================
