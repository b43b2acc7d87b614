------------------------- MODULE ResumeSessionProofs -------------------------
(***************************************************************************)
(* Proofs about commands that share one output path, for every file size,  *)
(* any settings and any number of commands.                                *)
(***************************************************************************)
EXTENDS ResumeSession, TLAPS

(***************************************************************************)
(* Types.  What is on disk is one of the records the module builds.        *)
(***************************************************************************)
OutputFile == [exists : BOOLEAN, settings : Settings, bytes : SUBSET Byte]
ManifestFile == [state : {"absent", "corrupt", "saved"}, settings : Settings, done : SUBSET Byte]

OnDisk == output \in OutputFile /\ manifest \in ManifestFile

InMemory ==
  /\ run \in {"none", "probing", "creating", "parallel", "single"}
  /\ want \in Settings /\ completed \subseteq Byte /\ commands \in 0 .. MaxCommands
  /\ result \in {"none", "failed", "killed", "success", CancelledMessage,
                 "cleaned", "nothing to clean"}

LEMMA TypeParts == (TypeOK <=> OnDisk /\ InMemory) /\ (TypeOK' <=> OnDisk' /\ InMemory')
  BY DEF TypeOK, OnDisk, InMemory, OutputFile, ManifestFile

LEMMA MadeFiles ==
  ASSUME NEW s \in Settings, NEW b \in SUBSET Byte
  PROVE  /\ NoOutput(s) \in OutputFile /\ Holds(s, b) \in OutputFile
         /\ NoManifest(s) \in ManifestFile /\ Corrupt(s) \in ManifestFile
         /\ SavedFor(s, b) \in ManifestFile
  BY DEF NoOutput, Holds, NoManifest, Corrupt, SavedFor, OutputFile, ManifestFile

LEMMA ReadFiles ==
  /\ output \in OutputFile => output.settings \in Settings /\ output.bytes \in SUBSET Byte
  /\ manifest \in ManifestFile => manifest.settings \in Settings /\ manifest.done \in SUBSET Byte
  BY DEF OutputFile, ManifestFile

LEMMA TypeInit == Init => TypeOK
<1> SUFFICES ASSUME Init PROVE OnDisk /\ InMemory
  BY TypeParts
<1>1. want \in Settings /\ {} \in SUBSET Byte
  BY DEF Init
<1>2. OnDisk
  BY <1>1, MadeFiles DEF Init, OnDisk
<1>3. InMemory
  BY <1>1, SessionAssumption DEF Init, InMemory
<1>4. QED
  BY <1>2, <1>3

\* The steps that put something else on disk.
LEMMA DiskStep == OnDisk /\ InMemory /\ [Next]_vars => OnDisk'
<1> SUFFICES ASSUME OnDisk, InMemory, [Next]_vars PROVE OnDisk'
  OBVIOUS
<1>0. want \in Settings /\ completed \in SUBSET Byte /\ {} \in SUBSET Byte
  BY DEF InMemory
<1>1. CASE UNCHANGED <<output, manifest>>
  BY <1>1 DEF OnDisk
<1>2. CASE Preallocate
  <2>1. PICK size : output' = [output EXCEPT !.exists = TRUE, !.bytes = @ \intersect (0 .. size - 1)]
    BY <1>2 DEF Preallocate
  <2>2. output' \in OutputFile
    BY <2>1 DEF OutputFile, OnDisk
  <2>3. QED
    BY <1>2, <2>2 DEF Preallocate, OnDisk
<1>3. CASE FetchSegment
  <2>1. PICK s \in SUBSET Open : output' = Holds(want, Right(want) \union s)
    BY <1>3 DEF FetchSegment
  <2>2. Right(want) \union s \in SUBSET Byte
    BY <2>1, ReadFiles DEF OnDisk, Open, Right
  <2>3. QED
    BY <1>0, <1>3, <2>1, <2>2, MadeFiles DEF FetchSegment, OnDisk
<1>4. CASE ReadSingle
  <2>1. PICK b \in Byte : output' = Holds(want, Right(want) \union {b})
    BY <1>4 DEF ReadSingle
  <2>2. Right(want) \union {b} \in SUBSET Byte
    BY <2>1, ReadFiles DEF OnDisk, Right
  <2>3. QED
    BY <1>0, <1>4, <2>1, <2>2, MadeFiles DEF ReadSingle, OnDisk
<1>5. CASE EnterSingle \/ OutputVanishes
  BY <1>0, <1>5, MadeFiles DEF EnterSingle, OutputVanishes, OnDisk
<1>6. CASE CreateManifest \/ CreateFails \/ PeriodicSave \/ CancelParallel \/ FinishParallel \/ Kill
  <2>1. Rewritten \subseteq ManifestFile
    BY <1>0, MadeFiles DEF Rewritten, OnDisk
  <2>2. QED
    BY <1>0, <1>6, <2>1, MadeFiles
    DEF CreateManifest, CreateFails, PeriodicSave, CancelParallel, FinishParallel, Kill, OnDisk
<1>7. CASE CleanManifest
  BY <1>0, <1>7, MadeFiles, ReadFiles DEF CleanManifest, OnDisk
<1>8. CASE FetchShort
  <2>1. PICK s \in SUBSET Open : \E came \in SUBSET s : output' = Holds(want, Right(want) \union came)
    BY <1>8 DEF FetchShort
  <2>2. PICK came \in SUBSET s : output' = Holds(want, Right(want) \union came)
    BY <2>1
  <2>3. Right(want) \union came \in SUBSET Byte
    BY <2>2, ReadFiles DEF OnDisk, Open, Right
  <2>4. QED
    BY <1>0, <1>8, <2>2, <2>3, MadeFiles DEF FetchShort, OnDisk
<1>9. QED
  BY <1>1, <1>2, <1>3, <1>4, <1>5, <1>6, <1>7, <1>8
  DEF Next, Clean, CleanNothing, DownloadCommand, StopProbing, EnterResuming, FailParallel,
      StopSingle, FinishSingle, vars

LEMMA CountStep ==
  ASSUME commands \in 0 .. MaxCommands, commands < MaxCommands, commands' = commands + 1
  PROVE  commands' \in 0 .. MaxCommands
  BY SessionAssumption

LEMMA MemoryStep == OnDisk /\ InMemory /\ [Next]_vars => InMemory'
<1> SUFFICES ASSUME OnDisk, InMemory, [Next]_vars PROVE InMemory'
  OBVIOUS
<1> USE DEF InMemory
<1>1. ASSUME NEW s \in Settings, DownloadCommand(s)
      PROVE  InMemory'
  <2>1. commands' \in 0 .. MaxCommands
    BY <1>1, CountStep DEF DownloadCommand
  <2>2. QED
    BY <1>1, <2>1 DEF DownloadCommand
<1>2. CASE EnterResuming
  BY <1>2, ReadFiles DEF EnterResuming, OnDisk
<1>3. CASE Preallocate \/ CreateManifest \/ PeriodicSave \/ EnterSingle \/ ReadSingle
  BY <1>3 DEF Preallocate, CreateManifest, PeriodicSave, EnterSingle, ReadSingle
<1>4. CASE FetchSegment \/ FetchShort
  BY <1>4 DEF FetchSegment, FetchShort, Open
<1>5. ASSUME NEW r \in {"failed", "killed", "success", CancelledMessage}, Stop(r)
      PROVE  InMemory'
  BY <1>5 DEF Stop
<1>6. CASE Clean
  <2>1. CleanCommand
    BY <1>6 DEF Clean, CleanNothing, CleanManifest
  <2>2. commands' \in 0 .. MaxCommands
    BY <2>1, CountStep DEF CleanCommand
  <2>3. result' \in {"nothing to clean", "failed", "cleaned"}
    BY <1>6 DEF Clean, CleanNothing, CleanManifest
  <2>4. QED
    BY <2>1, <2>2, <2>3 DEF CleanCommand
<1>7. CASE OutputVanishes
  BY <1>7 DEF OutputVanishes
<1>8. CASE UNCHANGED vars
  BY <1>8 DEF vars
<1>9. QED
  BY <1>1, <1>2, <1>3, <1>4, <1>5, <1>6, <1>7, <1>8
  DEF Next, StopProbing, CreateFails, CancelParallel, FailParallel, FinishParallel, StopSingle,
      FinishSingle, Kill

LEMMA TypeStep == TypeOK /\ [Next]_vars => TypeOK'
  BY DiskStep, MemoryStep, TypeParts

(***************************************************************************)
(* What is on disk and in memory keeps its type.                           *)
(***************************************************************************)
THEOREM TypeCorrect == Spec => []TypeOK
  BY TypeInit, TypeStep, PTL DEF Spec

(***************************************************************************)
(* How a running command relates to what is on disk is preserved.          *)
(***************************************************************************)
LEMMA RunInit == Init => RunInv
  BY DEF Init, RunInv

LEMMA RunStep == TypeOK /\ RunInv /\ [Next]_vars => RunInv'
<1> SUFFICES ASSUME TypeOK, RunInv, [Next]_vars PROVE RunInv'
  OBVIOUS
<1> USE DEF RunInv
<1>1. ASSUME NEW s \in Settings, DownloadCommand(s)
      PROVE  RunInv'
  BY <1>1 DEF DownloadCommand
<1>2. CASE EnterResuming
  BY <1>2 DEF EnterResuming, Matches
<1>3. CASE Preallocate
  BY <1>3 DEF Preallocate, Matches
<1>4. CASE CreateManifest
  BY <1>4 DEF CreateManifest, SavedFor
<1>5. CASE FetchSegment \/ FetchShort
  BY <1>5 DEF FetchSegment, FetchShort
<1>6. CASE PeriodicSave
  BY <1>6 DEF PeriodicSave, Rewritten, SavedFor, Corrupt
<1>7. CASE EnterSingle
  BY <1>7 DEF EnterSingle, Holds
<1>8. CASE ReadSingle
  BY <1>8 DEF ReadSingle, Holds
<1>9. ASSUME NEW r, Stop(r)
      PROVE  RunInv'
  BY <1>9 DEF Stop
<1>10. CASE Clean \/ OutputVanishes
  BY <1>10 DEF Clean, CleanNothing, CleanManifest, CleanCommand, OutputVanishes
<1>11. CASE UNCHANGED vars
  BY <1>11 DEF vars, Matches
<1>12. QED
  BY <1>1, <1>2, <1>3, <1>4, <1>5, <1>6, <1>7, <1>8, <1>9, <1>10, <1>11
  DEF Next, StopProbing, CreateFails, CancelParallel, FailParallel, FinishParallel, StopSingle,
      FinishSingle, Kill

LEMMA RunAlways == Spec => [](TypeOK /\ RunInv)
  BY TypeInit, TypeStep, RunInit, RunStep, PTL DEF Spec

(***************************************************************************)
(* Trust.  Any other step keeps the manifest within the output: one that   *)
(* writes the manifest takes it from a list the output already has, one    *)
(* that writes the output adds to it, and no other touches both.           *)
(***************************************************************************)
Breaking == EnterSingle \/ OutputVanishes \/ (SizesDiffer /\ Preallocate) \/ FetchShort

LEMMA TrustStep ==
  TypeOK /\ RunInv /\ TrustedManifest /\ [Next]_vars => TrustedManifest' \/ Breaking
<1> SUFFICES ASSUME TypeOK, RunInv, TrustedManifest, [Next]_vars, ~Breaking
             PROVE  TrustedManifest'
  OBVIOUS
<1> USE DEF TrustedManifest
<1>1. CASE UNCHANGED <<output, manifest>> /\ run' # "parallel"
  BY <1>1 DEF Right
<1>2. CASE EnterResuming
  BY <1>2 DEF EnterResuming, Matches, Right
<1>3. CASE Preallocate
  <2>1. ~SizesDiffer
    BY <1>3 DEF Breaking
  <2>2. output' = [output EXCEPT !.exists = TRUE, !.bytes = @ \intersect (0 .. Size - 1)]
    BY <1>3, <2>1 DEF Preallocate
  <2>3. output'.settings = output.settings /\ output'.bytes = output.bytes
    BY <2>2 DEF TypeOK, Byte
  <2>4. QED
    BY <1>3, <2>3 DEF Preallocate, Right
<1>4. CASE CreateManifest
  BY <1>4 DEF CreateManifest, SavedFor, RunInv
<1>5. CASE FetchSegment
  <2>1. PICK s \in SUBSET Open : /\ output' = Holds(want, Right(want) \union s)
                                 /\ completed' = completed \union s \/ completed' = completed
    BY <1>5 DEF FetchSegment
  <2>2. run = "parallel" /\ manifest.settings = want /\ UNCHANGED <<manifest, want>>
    BY <1>5 DEF FetchSegment, RunInv
  <2>3. Right(want)' = Right(want) \union s
    BY <2>1, <2>2 DEF Holds, Right
  <2>4. QED
    BY <2>1, <2>2, <2>3
<1>6. CASE PeriodicSave
  BY <1>6 DEF PeriodicSave, Rewritten, SavedFor, Corrupt, Right
<1>7. CASE CreateFails \/ Kill
  BY <1>7 DEF CreateFails, Kill, Stop, Corrupt, Right
<1>8. CASE CancelParallel \/ FinishParallel
  BY <1>8 DEF CancelParallel, FinishParallel, Rewritten, Stop, Corrupt, SavedFor, NoManifest, Right
<1>9. CASE ReadSingle
  <2>1. PICK b \in Byte : output' = Holds(want, Right(want) \union {b})
    BY <1>9 DEF ReadSingle
  <2>2. run = "single" /\ output.settings = want /\ UNCHANGED <<manifest, run>>
    BY <1>9 DEF ReadSingle, RunInv
  <2>3. Right(manifest.settings) \subseteq Right(manifest.settings)'
    BY <2>1, <2>2 DEF Holds, Right
  <2>4. QED
    BY <2>2, <2>3
<1>10. CASE Clean
  <2>1. run' = "none" \/ (run' # "parallel")
    BY <1>10 DEF Clean, CleanNothing, CleanManifest, CleanCommand
  <2>2. CASE CleanManifest
    BY <2>1, <2>2 DEF CleanManifest, NoManifest
  <2>3. CASE CleanNothing
    BY <2>1, <2>3 DEF CleanNothing, Right
  <2>4. QED
    BY <1>10, <2>2, <2>3 DEF Clean
<1>11. CASE UNCHANGED vars
  BY <1>11 DEF vars, Right
<1>12. QED
  BY <1>1, <1>2, <1>3, <1>4, <1>5, <1>6, <1>7, <1>8, <1>9, <1>10, <1>11
  DEF Next, Breaking, DownloadCommand, StopProbing, FailParallel, StopSingle, FinishSingle, Stop

(***************************************************************************)
(* Only a single-mode run, a removal of the output, preallocation for      *)
(* another size, and a body that ends early make a manifest, or a running  *)
(* download, claim bytes that are not there.                               *)
(***************************************************************************)
THEOREM TrustIsLostOnlyByTruncation == Spec => OnlyTruncationBreaksTrust
<1>1. TypeOK /\ RunInv /\ [Next]_vars
      => [TrustedManifest /\ ~TrustedManifest' =>
            EnterSingle \/ OutputVanishes \/ (SizesDiffer /\ Preallocate) \/ FetchShort]_vars
  BY TrustStep DEF Breaking
<1>2. QED
  BY <1>1, RunAlways, PTL DEF Spec, OnlyTruncationBreaksTrust

(***************************************************************************)
(* Success.  Only two steps report it: a parallel run whose list is full,  *)
(* which lies within the output while the list can be trusted, and a       *)
(* single-mode run whose body has ended, with every byte or early.         *)
(***************************************************************************)
LEMMA RightIsSome == TypeOK => Right(want) \subseteq Byte
  BY DEF TypeOK, Right

LEMMA SuccessStep ==
  TypeOK /\ RunInv /\ TrustedManifest /\ Next => SuccessMeansWhole' \/ (ShortBodies /\ FinishSingle)
<1> SUFFICES ASSUME TypeOK, RunInv, TrustedManifest, Next, result' = "success",
                    ~(ShortBodies /\ FinishSingle)
             PROVE  Right(want)' = Byte
  BY DEF SuccessMeansWhole, Byte
<1>1. CASE FinishParallel
  <2>1. Right(want) = Byte
    BY <1>1, RightIsSome DEF FinishParallel, TrustedManifest
  <2>2. UNCHANGED <<output, want>>
    BY <1>1 DEF FinishParallel, Stop
  <2>3. QED
    BY <2>1, <2>2 DEF Right
<1>2. CASE FinishSingle
  BY <1>2 DEF FinishSingle, BodyIsOver, Stop, Right
<1>3. CASE UNCHANGED result /\ run # "none"
  BY <1>3 DEF RunInv
<1>4. QED
  BY <1>1, <1>2, <1>3
  DEF Next, DownloadCommand, StopProbing, EnterResuming, Preallocate, CreateManifest, CreateFails,
      FetchSegment, FetchShort, PeriodicSave, CancelParallel, FailParallel, EnterSingle, ReadSingle,
      StopSingle, Kill, Clean, CleanNothing, CleanManifest, OutputVanishes, Stop, CancelledMessage

(***************************************************************************)
(* While what is claimed can be trusted, success means the whole file,     *)
(* unless a single-mode run took a body that ended early for the file.     *)
(***************************************************************************)
THEOREM TrustedSuccessIsWhole == Spec => SuccessFromTrust
<1>1. TypeOK /\ RunInv /\ [Next]_vars
      => [TrustedManifest => SuccessMeansWhole' \/ (ShortBodies /\ FinishSingle)]_vars
  BY SuccessStep
<1>2. QED
  BY <1>1, RunAlways, PTL DEF Spec, SuccessFromTrust

(***************************************************************************)
(* Where nothing can break the trust (no single-mode run, no second size   *)
(* for one path, nobody removing the output, a server that sends whole     *)
(* bodies), every manifest can be trusted and every success is the whole   *)
(* file.                                                                   *)
(***************************************************************************)
THEOREM ParallelOnlyIsHonest ==
  ASSUME "single" \notin Modes, ~SizesDiffer, ~OutputMayVanish, ~ShortBodies
  PROVE  Spec => [](TrustedManifest /\ SuccessMeansWhole)
<1>1. Init => TrustedManifest /\ SuccessMeansWhole
  BY DEF Init, TrustedManifest, SuccessMeansWhole, NoManifest
<1>2. ASSUME TypeOK, RunInv, TrustedManifest, SuccessMeansWhole, [Next]_vars
      PROVE  TrustedManifest' /\ SuccessMeansWhole'
  <2>1. TrustedManifest'
    BY <1>2, TrustStep DEF Breaking, EnterSingle, OutputVanishes, FetchShort
  <2>2. SuccessMeansWhole'
    <3>1. CASE Next
      BY <1>2, <3>1, SuccessStep
    <3>2. CASE UNCHANGED vars
      BY <1>2, <3>2 DEF vars, SuccessMeansWhole, Right
    <3>3. QED
      BY <1>2, <3>1, <3>2
  <2>3. QED
    BY <2>1, <2>2
<1>3. QED
  BY <1>1, <1>2, RunAlways, PTL DEF Spec

(***************************************************************************)
(* Progress.  A save of a running download lists at least what the file    *)
(* did, because its list only grows; a download creates a manifest only    *)
(* where there is none for its settings; whatever else writes the manifest *)
(* is one of the four steps that may give it up.                           *)
(***************************************************************************)
MayGiveUp ==
  \/ run = "creating" /\ want # manifest.settings
  \/ CleanManifest
  \/ run = "parallel" /\ completed = Byte /\ result' = "success"
  \/ run = "parallel" /\ manifest' = Corrupt(want)

LEMMA ProgressStep ==
  TypeOK /\ RunInv /\ [Next]_vars => (manifest.state = "saved" => StillSaved \/ MayGiveUp)
<1> SUFFICES ASSUME TypeOK, RunInv, [Next]_vars, manifest.state = "saved"
             PROVE  StillSaved \/ MayGiveUp
  OBVIOUS
<1>1. CASE UNCHANGED manifest
  BY <1>1 DEF StillSaved
<1>2. CASE run = "creating"
  BY <1>2 DEF RunInv, Matches, MayGiveUp
<1>3. CASE run = "parallel" /\ manifest' \in Rewritten
  <2>1. CASE manifest' = SavedFor(want, completed)
    BY <1>3, <2>1 DEF SavedFor, RunInv, StillSaved
  <2>2. CASE manifest' = Corrupt(want)
    BY <1>3, <2>2 DEF MayGiveUp
  <2>3. QED
    BY <1>1, <1>3, <2>1, <2>2 DEF Rewritten
<1>4. CASE FinishParallel /\ Stop("success")
  BY <1>4 DEF FinishParallel, Stop, MayGiveUp
<1>5. CASE Kill /\ run = "parallel" /\ manifest' = Corrupt(want)
  BY <1>5 DEF MayGiveUp
<1>6. CASE CleanManifest
  BY <1>6 DEF MayGiveUp
<1>7. QED
  BY <1>1, <1>2, <1>3, <1>4, <1>5, <1>6
  DEF Next, DownloadCommand, StopProbing, EnterResuming, Preallocate, CreateManifest, CreateFails,
      FetchSegment, FetchShort, PeriodicSave, CancelParallel, FailParallel, FinishParallel,
      EnterSingle, ReadSingle, StopSingle, FinishSingle, Kill, Clean, CleanNothing,
      OutputVanishes, vars

(***************************************************************************)
(* Saved progress is given up by a download with other settings, by clean, *)
(* by a download that has every byte, and by a broken-off write of the     *)
(* manifest, and by nothing else.                                          *)
(***************************************************************************)
THEOREM SavedProgressIsKept == Spec => ProgressIsKept
<1>1. TypeOK /\ RunInv /\ [Next]_vars
      => [manifest.state = "saved" =>
            \/ StillSaved
            \/ run = "creating" /\ want # manifest.settings
            \/ CleanManifest
            \/ run = "parallel" /\ completed = Byte /\ result' = "success"
            \/ run = "parallel" /\ manifest' = Corrupt(want)]_vars
  BY ProgressStep DEF MayGiveUp
<1>2. QED
  BY <1>1, RunAlways, PTL DEF Spec, ProgressIsKept
=============================================================================
