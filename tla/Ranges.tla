------------------------------- MODULE Ranges -------------------------------
(***************************************************************************)
(* The range algebra of the resume manifest (package manifest): sequences  *)
(* of byte ranges with inclusive ends, and the chunk record built on them. *)
(* The loops of the code are folds over the sorted ranges.                 *)
(***************************************************************************)
EXTENDS Integers, FiniteSets, SequencesExt

ByteRange(Bound) == [start : Bound, end : Bound]

RangeLess(a, b) == a.start < b.start \/ (a.start = b.start /\ a.end < b.end)

\* Bug variant: ranges that end before they start are kept.
NonEmptyRange_Unchecked(r) == r \in [start : Int, end : Int]

NonEmptyRange(r) == r.end >= r.start

\* Bug variant: adjacent ranges are not joined.
Absorb_LeavesSeams(merged, cur) ==
  IF merged = <<>> \/ cur.start > Last(merged).end
  THEN Append(merged, cur)
  ELSE IF cur.end > Last(merged).end
       THEN [merged EXCEPT ![Len(merged)].end = cur.end]
       ELSE merged

\* Bug variant: a range inside the last one cuts it short.
Absorb_Shrinks(merged, cur) ==
  IF merged = <<>> \/ cur.start > Last(merged).end + 1
  THEN Append(merged, cur)
  ELSE [merged EXCEPT ![Len(merged)].end = cur.end]

\* One turn of the merging loop: extend the last range or open a new one.
Absorb(merged, cur) ==
  IF merged = <<>> \/ cur.start > Last(merged).end + 1
  THEN Append(merged, cur)
  ELSE IF cur.end > Last(merged).end
       THEN [merged EXCEPT ![Len(merged)].end = cur.end]
       ELSE merged

\* The non-empty ranges in ascending order.
SortedRanges(ranges) ==
  LET kept  == {i \in DOMAIN ranges : NonEmptyRange(ranges[i])}
      order == CHOOSE p \in Bijection(1 .. Cardinality(kept), kept) :
                 \A i, j \in DOMAIN p : i < j => ~RangeLess(ranges[p[j]], ranges[p[i]])
  IN  [i \in DOMAIN order |-> ranges[order[i]]]

MergeRanges(ranges) == FoldLeft(Absorb, <<>>, SortedRanges(ranges))

\* Bug variant: a range that ends with the first byte is overlooked.
Overlaps_Strictly(r, first, last) == r.end > first /\ r.start <= last

Overlaps(r, first, last) == r.end >= first /\ r.start <= last

ClampRange(r, first, last) ==
  [start |-> IF r.start < first THEN first ELSE r.start,
   end   |-> IF r.end > last THEN last ELSE r.end]

\* One turn of the scanning loop: note the gap before the range, step over the range.
ScanRange(first, last, scan, r) ==
  LET c == ClampRange(r, first, last)
  IN  IF ~Overlaps(r, first, last)
      THEN scan
      ELSE [gaps   |-> IF scan.cursor < c.start
                       THEN Append(scan.gaps, [start |-> scan.cursor, end |-> c.start - 1])
                       ELSE scan.gaps,
            cursor |-> IF c.end + 1 > scan.cursor THEN c.end + 1 ELSE scan.cursor]

(***************************************************************************)
(* The gaps of first .. last that the completed ranges leave, left to      *)
(* right: a cursor moves over the merged ranges.                           *)
(***************************************************************************)
MissingRanges(first, last, completed) ==
  LET Turn(scan, r) == ScanRange(first, last, scan, r)
      scanned == FoldLeft(Turn, [gaps |-> <<>>, cursor |-> first], MergeRanges(completed))
  IN  IF last < first THEN <<>>
      ELSE IF scanned.cursor <= last
           THEN Append(scanned.gaps, [start |-> scanned.cursor, end |-> last])
           ELSE scanned.gaps

RangesCover(first, last, completed) == MissingRanges(first, last, completed) = <<>>

AddLength(total, r) == total + (r.end - r.start + 1)

SumLengths(ranges) == FoldLeft(AddLength, 0, ranges)

(***************************************************************************)
(* A chunk of the manifest, and the function that brings it into canonical *)
(* form after every load and every append.  A manifest written before      *)
(* CompletedRanges existed has only DownloadedBytes: a prefix of the chunk.*)
(***************************************************************************)
ChunkSize(c) == c.end - c.start + 1

\* Bug variant: the byte count of old manifests is not understood.
LegacyRanges_Dropped(c) == c.completedRanges

LegacyRanges(c) ==
  LET r == ClampRange([start |-> c.start, end |-> c.start + c.downloadedBytes - 1],
                      c.start, c.end)
  IN  IF c.completedRanges = <<>> /\ c.downloadedBytes > 0 /\ NonEmptyRange(r)
      THEN <<r>>
      ELSE c.completedRanges

\* The clamping loop, and one turn of it.
KeepInside(c, kept, r) ==
  LET inside == ClampRange(r, c.start, c.end)
  IN  IF Overlaps(r, c.start, c.end) /\ NonEmptyRange(inside)
      THEN Append(kept, inside)
      ELSE kept

ClampRanges(c, ranges) ==
  LET Turn(kept, r) == KeepInside(c, kept, r)
  IN  FoldLeft(Turn, <<>>, ranges)

NormalizeChunk(c) ==
  LET merged == MergeRanges(ClampRanges(c, LegacyRanges(c)))
      total == SumLengths(merged)
      size == ChunkSize(c)
  IN  IF size <= 0
      THEN [c EXCEPT !.completedRanges = <<>>, !.downloadedBytes = 0, !.done = TRUE]
      ELSE [c EXCEPT !.completedRanges = merged,
                     !.downloadedBytes = IF total > size THEN size ELSE total,
                     !.done = RangesCover(c.start, c.end, merged) \/ total >= size]

\* Totals normalises every chunk first; Complete is false for no chunks at all.
AddChunk(acc, c) ==
  LET n == NormalizeChunk(c)
  IN  [downloaded |-> acc.downloaded + n.downloadedBytes,
       total      |-> acc.total + ChunkSize(n),
       doneChunks |-> acc.doneChunks + (IF n.done THEN 1 ELSE 0)]

Totals(chunks) ==
  FoldLeft(AddChunk, [downloaded |-> 0, total |-> 0, doneChunks |-> 0], chunks)

Complete(chunks) == Len(chunks) > 0 /\ Totals(chunks).doneChunks = Len(chunks)
=============================================================================
