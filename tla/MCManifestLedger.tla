-------------------------- MODULE MCManifestLedger --------------------------
(***************************************************************************)
(* The ledger of a file of 5 bytes in two chunks (0..2 and 3..4); a        *)
(* foreign manifest mentions positions on both sides of the first chunk.   *)
(* Beside it, every layout of a file of up to MaxSize bytes: the closed    *)
(* forms of module Layout against the loops of the code.                   *)
(***************************************************************************)
EXTENDS ManifestLedger

CONSTANTS MaxSize,   \* largest file that is cut
          MaxParts   \* largest number of connections, and largest segment

ASSUME LayoutBounds == MaxSize \in Nat \ {0} /\ MaxParts \in Nat \ {0}

MCForeign == -1 .. 3

VARIABLE cut   \* a file that is cut: its size, and the connections or the segment size

Layouts == [size : 1 .. MaxSize, parts : 1 .. MaxParts]

\* Either some manifest is read, or one is made fresh beside any file that is cut.
MCInit ==
  \/ Init /\ cut = [size |-> Size, parts |-> Connections]
  \/ chunks = FreshChunks /\ truth = {} /\ loaded = TRUE /\ cut \in Layouts

MCSpec == MCInit /\ [][Next /\ UNCHANGED cut]_<<vars, cut>>
-----------------------------------------------------------------------------
\* The chunk loop as written: start runs on, the first remainder chunks get one more.
LoopStart(size, parts) ==
  LET n == ChunkCount(size, parts)
      start[i \in 0 .. n] ==
        IF i = 0 THEN 0
        ELSE start[i - 1] + size \div n + (IF i - 1 < size % n THEN 1 ELSE 0)
  IN  start

(***************************************************************************)
(* The chunks tile the file without gap or overlap, in order, none empty,  *)
(* and are where the loop puts them; forcing the last end to size - 1      *)
(* never moves it.                                                         *)
(***************************************************************************)
ChunksTileTheFile ==
  LET pieces == splitIntoChunks(cut.size, cut.parts)
      n == ChunkCount(cut.size, cut.parts)
      loop == LoopStart(cut.size, cut.parts)
  IN  /\ Consecutive(pieces, n, cut.size)
      /\ \A i \in DOMAIN pieces : pieces[i].start = loop[i]
      /\ pieces[n - 1].end = loop[n] - 1

(***************************************************************************)
(* The queue's segments tile the file too, none longer than segmentSize,   *)
(* also when segmentSize does not divide the size or exceeds it.           *)
(***************************************************************************)
SegmentsTileTheFile ==
  LET segments == splitIntoSegments(cut.size, cut.parts)
  IN  /\ Consecutive(segments, SegmentCount(cut.size, cut.parts), cut.size)
      /\ \A i \in DOMAIN segments : segments[i].end - segments[i].start < cut.parts
=============================================================================
