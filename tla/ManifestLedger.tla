--------------------------- MODULE ManifestLedger ---------------------------
(***************************************************************************)
(* The resume manifest in memory: it is read from a file (possibly one     *)
(* that an older version or another program wrote), brought into canonical *)
(* form, and then grows by one range per finished segment.  The bytes it   *)
(* stands for are kept beside it as a plain set, the reference against     *)
(* which the range algebra is compared.                                    *)
(***************************************************************************)
EXTENDS Layout, Ranges, FiniteSets, FiniteSetsExt

CONSTANTS Size, Connections,   \* the file and the number of chunks asked for
          Foreign,             \* byte positions a foreign manifest may mention
          MaxForeignRanges     \* bound on the ranges it lists for its first chunk

ASSUME LedgerAssumption ==
  /\ Size \in Nat \ {0} /\ Connections \in Nat \ {0}
  /\ Foreign \subseteq Int
  /\ MaxForeignRanges \in Nat

VARIABLES chunks,   \* m.Chunks
          truth,    \* the bytes those chunks stand for
          loaded    \* NormalizeChunk has run since the file was read

vars == <<chunks, truth, loaded>>

FreshChunk(piece) ==
  [start |-> piece.start, end |-> piece.end,
   downloadedBytes |-> 0, done |-> FALSE, completedRanges |-> <<>>]

FreshChunks ==
  LET layout == splitIntoChunks(Size, Connections)
  IN  [i \in 1 .. ChunkCount(Size, Connections) |-> FreshChunk(layout[i - 1])]

RangeBytes(ranges) == UNION {PieceBytes(ranges[i]) : i \in DOMAIN ranges}

\* What a chunk read from a file claims: its ranges, or the legacy prefix.
ClaimedBytes(c) ==
  PieceBytes(c) \intersect
    (IF c.completedRanges = <<>>
     THEN c.start .. c.start + c.downloadedBytes - 1
     ELSE RangeBytes(c.completedRanges))

ForeignRanges == UNION {[1 .. n -> ByteRange(Foreign)] : n \in 0 .. MaxForeignRanges}

\* The first chunk may be any list of ranges or a legacy prefix; the rest are fresh.
Init ==
  /\ loaded = FALSE
  /\ \E ranges \in ForeignRanges, prefix \in 0 .. Size, flag \in BOOLEAN :
       chunks = [FreshChunks EXCEPT ![1].completedRanges = ranges,
                                    ![1].downloadedBytes = prefix,
                                    ![1].done = flag]
  /\ truth = UNION {ClaimedBytes(chunks[i]) : i \in DOMAIN chunks}

\* The engine normalises every chunk before it plans the remaining work.
Load ==
  /\ ~loaded
  /\ loaded' = TRUE
  /\ chunks' = [i \in DOMAIN chunks |-> NormalizeChunk(chunks[i])]
  /\ UNCHANGED truth

\* A worker finished a segment: append its range, normalise that chunk.
Record(i, r) ==
  /\ loaded
  /\ LET c == chunks[i]
     IN  chunks' = [chunks EXCEPT ![i] =
                      NormalizeChunk([c EXCEPT !.completedRanges = Append(@, r)])]
  /\ truth' = truth \union PieceBytes(r)
  /\ UNCHANGED loaded

\* Segments are cut out of the gaps of a chunk.
Next ==
  \/ Load
  \/ \E i \in DOMAIN chunks :
       LET gaps == MissingRanges(chunks[i].start, chunks[i].end, chunks[i].completedRanges)
       IN  \E g \in DOMAIN gaps : \E r \in ByteRange(PieceBytes(gaps[g])) :
             NonEmptyRange(r) /\ Record(i, r)

Spec == Init /\ [][Next]_vars
-----------------------------------------------------------------------------
ChunkRecord == [start : Int, end : Int, downloadedBytes : Nat, done : BOOLEAN,
                completedRanges : Seq(ByteRange(Int))]

TypeOK ==
  /\ loaded \in BOOLEAN
  /\ truth \subseteq 0 .. Size - 1
  /\ chunks \in [1 .. ChunkCount(Size, Connections) -> ChunkRecord]

(***************************************************************************)
(* Canonical form: after NormalizeChunk the ranges of a chunk lie inside   *)
(* it, ascend, and neighbours are at least one byte apart, whatever        *)
(* (unsorted, overlapping, adjacent, empty, out of bounds) was read.       *)
(***************************************************************************)
Canonical ==
  loaded =>
    \A i \in DOMAIN chunks :
      LET rs == chunks[i].completedRanges
      IN  /\ \A k \in DOMAIN rs : chunks[i].start <= rs[k].start
                                  /\ rs[k].start <= rs[k].end /\ rs[k].end <= chunks[i].end
          /\ \A k \in 1 .. Len(rs) - 1 : rs[k].end + 1 < rs[k + 1].start

(***************************************************************************)
(* No byte is forgotten and none is invented: the ranges of a chunk denote *)
(* exactly the bytes recorded for it, and the byte count and the done flag *)
(* agree with them (a done chunk is skipped by a resumed run).             *)
(***************************************************************************)
ExactBookkeeping ==
  loaded =>
    \A i \in DOMAIN chunks :
      LET mine == truth \intersect PieceBytes(chunks[i])
      IN  /\ RangeBytes(chunks[i].completedRanges) = mine
          /\ chunks[i].downloadedBytes = Cardinality(mine)
          /\ chunks[i].done = (mine = PieceBytes(chunks[i]))

(***************************************************************************)
(* The work a resumed run plans (MissingRanges of each chunk) is exactly   *)
(* the complement of what is recorded, in ascending maximal gaps.  It      *)
(* holds before normalisation too: ManifestStatus relies on it.            *)
(***************************************************************************)
PlansExactlyTheGaps ==
  \A i \in DOMAIN chunks :
    LET c == chunks[i]
        gaps == MissingRanges(c.start, c.end, LegacyRanges(c))
    IN  /\ RangeBytes(gaps) = PieceBytes(c) \ truth
        /\ \A k \in 1 .. Len(gaps) - 1 : gaps[k].end + 1 < gaps[k + 1].start

(***************************************************************************)
(* The clean command deletes the output unless Complete says the download  *)
(* is whole; the status command prints Totals.  Both agree with the bytes  *)
(* on a file as read, before anything has normalised it.                   *)
(***************************************************************************)
CompleteMeansEveryByte ==
  /\ Complete(chunks) <=> truth = 0 .. Size - 1
  /\ Totals(chunks).downloaded = Cardinality(truth)
  /\ Totals(chunks).total = Size

(***************************************************************************)
(* What these rest on: the chunks stay where the layout puts them, and     *)
(* what each stands for, normalised or not, is its part of the truth.      *)
(***************************************************************************)
StandsFor(c) == RangeBytes(LegacyRanges(c)) \intersect PieceBytes(c)

PlacedInv ==
  \A i \in DOMAIN chunks :
    LET piece == splitIntoChunks(Size, Connections)[i - 1]
    IN  chunks[i].start = piece.start /\ chunks[i].end = piece.end

TruthInv ==
  \A i \in DOMAIN chunks : StandsFor(chunks[i]) = truth \intersect PieceBytes(chunks[i])

LedgerInv == TypeOK /\ PlacedInv /\ TruthInv /\ Canonical /\ ExactBookkeeping
=============================================================================
