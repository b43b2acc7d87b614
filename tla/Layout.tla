------------------------------- MODULE Layout -------------------------------
(***************************************************************************)
(* How a file is cut into the pieces that the parallel engine downloads.   *)
(* Both functions are loops in the code; here each piece is given in       *)
(* closed form.  A layout is a function from 0 .. n-1 (the Go slice index) *)
(* to byte ranges with inclusive ends.                                     *)
(***************************************************************************)
EXTENDS Integers

Smaller(a, b) == IF a <= b THEN a ELSE b

(***************************************************************************)
(* One chunk per connection; the first size % n chunks hold one byte more, *)
(* and the end of the last one is overwritten with size - 1.               *)
(***************************************************************************)
ChunkCount(size, connections) == Smaller(connections, size)

\* Bug variant: the remainder of the division goes to the last chunk alone.
ChunkFirst_LastTakesRemainder(size, n, i) == i * (size \div n)

ChunkFirst(size, n, i) == i * (size \div n) + Smaller(i, size % n)

splitIntoChunks(size, connections) ==
  LET n == ChunkCount(size, connections)
  IN  [i \in 0 .. n - 1 |->
         [start |-> ChunkFirst(size, n, i),
          end   |-> IF i = n - 1 THEN size - 1 ELSE ChunkFirst(size, n, i + 1) - 1]]

(***************************************************************************)
(* Queue mode: slices of segmentSize bytes, the last one cut at the end.   *)
(***************************************************************************)
\* Bug variant: no slice for the rest of the file.
SegmentCount_RoundedDown(size, segmentSize) == size \div segmentSize

SegmentCount(size, segmentSize) == (size + segmentSize - 1) \div segmentSize

splitIntoSegments(size, segmentSize) ==
  [i \in 0 .. SegmentCount(size, segmentSize) - 1 |->
     [start |-> i * segmentSize,
      end   |-> Smaller(i * segmentSize + segmentSize - 1, size - 1)]]

(***************************************************************************)
(* What the engine needs of a layout of a file of that size: the pieces    *)
(* follow one another without a gap, none is empty, and they end with the  *)
(* file.                                                                   *)
(***************************************************************************)
PieceBytes(piece) == piece.start .. piece.end

Consecutive(layout, n, size) ==
  /\ n > 0
  /\ layout[0].start = 0
  /\ layout[n - 1].end = size - 1
  /\ \A i \in 0 .. n - 1 : layout[i].start <= layout[i].end
  /\ \A i \in 0 .. n - 2 : layout[i + 1].start = layout[i].end + 1
=============================================================================
