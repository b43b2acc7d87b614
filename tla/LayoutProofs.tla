---------------------------- MODULE LayoutProofs ----------------------------
(***************************************************************************)
(* The two layouts of module Layout tile the file, for every size, number  *)
(* of connections and segment size; and what follows for any list of       *)
(* consecutive pieces: they partition the bytes of the file.               *)
(***************************************************************************)
EXTENDS Layout, WellFoundedInduction, TLAPS

\* A non-empty set of naturals has a least element (induction in first-order form).
LEMMA LeastNat ==
  ASSUME NEW S, S \subseteq Nat, S # {}
  PROVE  \E m \in S : \A k \in S : m <= k
<1> DEFINE R == OpToRel(<, Nat)
<1>1. IsWellFoundedOn(R, Nat)
  BY NatLessThanWellFounded
<1>2. \A x, y \in Nat : x < y => <<x, y>> \in R
  BY DEF OpToRel
<1> HIDE DEF R
<1>3. PICK x \in S : \A y \in S : ~(<<y, x>> \in R)
  BY <1>1, WFMin
<1>4. \A y \in S : ~(y < x)
  BY <1>2, <1>3
<1>5. QED
  BY <1>4

LEMMA DivMod ==
  ASSUME NEW a \in Nat, NEW n \in Nat \ {0}
  PROVE  /\ a \div n \in Nat
         /\ a % n \in 0 .. n - 1
         /\ a = n * (a \div n) + (a % n)
  BY SMT

(***************************************************************************)
(* The chunk boundaries: they begin at 0, end at size, and strictly grow.  *)
(***************************************************************************)
LEMMA ChunkBoundaries ==
  ASSUME NEW size \in Nat \ {0}, NEW n \in 1 .. size
  PROVE  /\ ChunkFirst(size, n, 0) = 0
         /\ ChunkFirst(size, n, n) = size
         /\ \A i \in 0 .. n : ChunkFirst(size, n, i) \in Int
         /\ \A i \in 0 .. n - 1 : ChunkFirst(size, n, i) < ChunkFirst(size, n, i + 1)
<1> DEFINE base == size \div n
           rem == size % n
<1>1. /\ base \in Nat /\ rem \in 0 .. n - 1
      /\ size = n * base + rem
  BY DivMod
<1>2. \A i \in 0 .. n : ChunkFirst(size, n, i) = i * base + Smaller(i, rem)
  BY DEF ChunkFirst
<1> HIDE DEF base, rem
<1>3. base > 0
  <2>1. SUFFICES ASSUME base = 0 PROVE FALSE
    BY <1>1
  <2>2. QED
    BY <1>1, <2>1
<1>4. ChunkFirst(size, n, 0) = 0
  BY <1>1, <1>2 DEF Smaller
<1>5. ChunkFirst(size, n, n) = size
  BY <1>1, <1>2 DEF Smaller
<1>6. \A i \in 0 .. n : ChunkFirst(size, n, i) \in Int
  BY <1>1, <1>2 DEF Smaller
<1>7. ASSUME NEW i \in 0 .. n - 1
      PROVE  ChunkFirst(size, n, i) < ChunkFirst(size, n, i + 1)
  <2>1. (i + 1) * base = i * base + base /\ i * base \in Nat
    BY <1>1
  <2>2. Smaller(i, rem) <= Smaller(i + 1, rem)
        /\ Smaller(i, rem) \in Nat /\ Smaller(i + 1, rem) \in Nat
    BY <1>1 DEF Smaller
  <2>3. QED
    BY <1>1, <1>2, <1>3, <2>1, <2>2
<1>8. QED
  BY <1>4, <1>5, <1>6, <1>7

(***************************************************************************)
(* splitIntoChunks cuts a file of any size into consecutive, non-empty     *)
(* chunks for any number of connections, also for more connections than    *)
(* bytes.                                                                  *)
(***************************************************************************)
THEOREM ChunksConsecutive ==
  ASSUME NEW size \in Nat \ {0}, NEW connections \in Nat \ {0}
  PROVE  LET n == ChunkCount(size, connections)
             layout == splitIntoChunks(size, connections)
         IN  /\ n \in Nat \ {0}
             /\ layout \in [0 .. n - 1 -> [start : Int, end : Int]]
             /\ Consecutive(layout, n, size)
<1> DEFINE n == ChunkCount(size, connections)
           layout == splitIntoChunks(size, connections)
           first(i) == ChunkFirst(size, n, i)
<1>1. n \in 1 .. size
  BY DEF ChunkCount, Smaller
<1>2. /\ first(0) = 0 /\ first(n) = size
      /\ \A i \in 0 .. n : first(i) \in Int
      /\ \A i \in 0 .. n - 1 : first(i) < first(i + 1)
  BY <1>1, ChunkBoundaries
<1>3. layout = [i \in 0 .. n - 1 |->
                  [start |-> first(i),
                   end |-> IF i = n - 1 THEN size - 1 ELSE first(i + 1) - 1]]
  BY DEF splitIntoChunks
<1> HIDE DEF n, layout, first
<1>4. layout \in [0 .. n - 1 -> [start : Int, end : Int]]
  BY <1>1, <1>2, <1>3
<1>5. \A i \in 0 .. n - 1 : layout[i].start = first(i) /\ layout[i].end = first(i + 1) - 1
  BY <1>1, <1>2, <1>3
<1>6. Consecutive(layout, n, size)
  <2>1. n > 0 /\ layout[0].start = 0 /\ layout[n - 1].end = size - 1
    BY <1>1, <1>2, <1>5
  <2>2. \A i \in 0 .. n - 1 : layout[i].start <= layout[i].end
    BY <1>1, <1>2, <1>5
  <2>3. \A i \in 0 .. n - 2 : layout[i + 1].start = layout[i].end + 1
    BY <1>1, <1>2, <1>5
  <2>4. QED
    BY <2>1, <2>2, <2>3 DEF Consecutive
<1>7. QED
  BY <1>1, <1>4, <1>6 DEF n, layout

(***************************************************************************)
(* splitIntoSegments does so for any segment size.                         *)
(***************************************************************************)
THEOREM SegmentsConsecutive ==
  ASSUME NEW size \in Nat \ {0}, NEW segmentSize \in Nat \ {0}
  PROVE  LET n == SegmentCount(size, segmentSize)
             layout == splitIntoSegments(size, segmentSize)
         IN  /\ n \in Nat \ {0}
             /\ layout \in [0 .. n - 1 -> [start : Int, end : Int]]
             /\ Consecutive(layout, n, size)
<1> DEFINE n == SegmentCount(size, segmentSize)
           layout == splitIntoSegments(size, segmentSize)
<1>1. /\ n \in Nat
      /\ n * segmentSize \in Nat
      /\ size <= n * segmentSize
      /\ n * segmentSize < size + segmentSize
  <2> DEFINE a == size + segmentSize - 1
  <2>1. a \in Nat
    OBVIOUS
  <2>2. /\ a \div segmentSize \in Nat /\ a % segmentSize \in 0 .. segmentSize - 1
        /\ a = segmentSize * (a \div segmentSize) + (a % segmentSize)
    BY <2>1, DivMod
  <2>3. n = a \div segmentSize
    BY DEF SegmentCount
  <2> HIDE DEF a, n
  <2>4. n * segmentSize = segmentSize * n /\ n * segmentSize \in Nat
    BY <2>2, <2>3
  <2>5. QED
    BY <2>2, <2>3, <2>4 DEF a
<1>2. layout = [i \in 0 .. n - 1 |->
                  [start |-> i * segmentSize,
                   end |-> Smaller(i * segmentSize + segmentSize - 1, size - 1)]]
  BY DEF splitIntoSegments
<1> HIDE DEF n, layout
<1>3. n > 0
  <2>1. SUFFICES ASSUME n = 0 PROVE FALSE
    BY <1>1
  <2>2. QED
    BY <1>1, <2>1
<1>4. ASSUME NEW i \in 0 .. n - 1
      PROVE  /\ i * segmentSize \in Nat
             /\ (i + 1) * segmentSize = i * segmentSize + segmentSize
             /\ i * segmentSize < size
             /\ i < n - 1 => (i + 1) * segmentSize < size
  <2>1. /\ i * segmentSize \in Nat
        /\ (i + 1) * segmentSize = i * segmentSize + segmentSize
    OBVIOUS
  <2>2. (n - 1) * segmentSize = n * segmentSize - segmentSize
    BY <1>1
  <2>3. i * segmentSize <= (n - 1) * segmentSize
    BY <1>1
  <2>4. i < n - 1 => (i + 1) * segmentSize <= (n - 1) * segmentSize
    BY <1>1
  <2>5. QED
    BY <1>1, <2>1, <2>2, <2>3, <2>4
<1>5. layout \in [0 .. n - 1 -> [start : Int, end : Int]]
  BY <1>1, <1>2, <1>4 DEF Smaller
<1>6. ASSUME NEW i \in 0 .. n - 1
      PROVE  /\ layout[i].start = i * segmentSize
             /\ layout[i].start <= layout[i].end
             /\ i < n - 1 => layout[i].end = (i + 1) * segmentSize - 1
             /\ i = n - 1 => layout[i].end = size - 1
  <2>1. /\ layout[i].start = i * segmentSize
        /\ layout[i].end = Smaller(i * segmentSize + segmentSize - 1, size - 1)
    BY <1>2
  <2>2. i = n - 1 => i * segmentSize + segmentSize = n * segmentSize
    BY <1>1, <1>4
  <2>3. QED
    BY <1>1, <1>4, <2>1, <2>2 DEF Smaller
<1>7. layout[0].start = 0
  BY <1>1, <1>3, <1>6
<1>8. \A i \in 0 .. n - 2 : layout[i + 1].start = layout[i].end + 1
  BY <1>1, <1>4, <1>6
<1>9. Consecutive(layout, n, size)
  BY <1>1, <1>3, <1>6, <1>7, <1>8 DEF Consecutive
<1>10. QED
  BY <1>1, <1>3, <1>5, <1>9 DEF n, layout

(***************************************************************************)
(* Consecutive pieces partition the file: they stay inside it, no two      *)
(* share a byte, and every byte is in one of them.                         *)
(***************************************************************************)
THEOREM ConsecutivePartition ==
  ASSUME NEW size \in Nat \ {0}, NEW n \in Nat \ {0}, NEW layout,
         layout \in [0 .. n - 1 -> [start : Int, end : Int]],
         Consecutive(layout, n, size)
  PROVE  /\ \A i \in 0 .. n - 1 : PieceBytes(layout[i]) \subseteq 0 .. size - 1
         /\ \A i, j \in 0 .. n - 1 :
              i # j => PieceBytes(layout[i]) \intersect PieceBytes(layout[j]) = {}
         /\ \A b \in 0 .. size - 1 : \E i \in 0 .. n - 1 : b \in PieceBytes(layout[i])
<1>1. \A i \in 0 .. n - 1 : layout[i].start \in Int /\ layout[i].end \in Int
  OBVIOUS
<1>2. /\ layout[0].start = 0 /\ layout[n - 1].end = size - 1
      /\ \A i \in 0 .. n - 1 : layout[i].start <= layout[i].end
      /\ \A i \in 0 .. n - 2 : layout[i + 1].start = layout[i].end + 1
  BY DEF Consecutive
<1>3. ASSUME NEW i \in 0 .. n - 1, NEW j \in 0 .. n - 1, i < j
      PROVE  layout[i].end < layout[j].start
  <2> DEFINE Bad == {k \in 0 .. n - 1 : i < k /\ layout[k].start <= layout[i].end}
  <2>1. SUFFICES ASSUME Bad # {} PROVE FALSE
    <3>1. Bad = {} => j \notin Bad
      OBVIOUS
    <3>2. j \notin Bad => layout[i].end < layout[j].start
      BY <1>1, <1>3
    <3>3. QED
      BY <3>1, <3>2
  <2>2. Bad \subseteq Nat
    OBVIOUS
  <2>3. PICK m \in Bad : \A k \in Bad : m <= k
    BY <2>1, <2>2, LeastNat
  <2>4. m \in 1 .. n - 1 /\ m - 1 \in 0 .. n - 2 /\ layout[m].start = layout[m - 1].end + 1
    <3>1. m \in 1 .. n - 1 /\ m - 1 \in 0 .. n - 2 /\ (m - 1) + 1 = m
      OBVIOUS
    <3>2. QED
      BY <1>2, <3>1
  <2>5. CASE m - 1 = i
    BY <1>1, <2>4, <2>5
  <2>6. CASE m - 1 # i
    <3>1. m - 1 \notin Bad
      BY <2>3, <2>4
    <3>2. layout[i].end < layout[m - 1].start
      BY <1>1, <2>4, <2>6, <3>1, SMTT(30)
    <3>3. m \in 0 .. n - 1 /\ layout[m].start <= layout[i].end
      OBVIOUS
    <3>4. layout[m - 1].start <= layout[m - 1].end /\ m - 1 \in 0 .. n - 1
      BY <1>2, <2>4
    <3>5. QED
      BY <1>1, <2>4, <3>2, <3>3, <3>4, SMTT(30)
  <2>7. QED
    BY <2>5, <2>6
<1>4. \A i \in 0 .. n - 1 : 0 <= layout[i].start /\ layout[i].end <= size - 1
  <2>1. TAKE i \in 0 .. n - 1
  <2>2. 0 <= layout[i].start
    <3>1. i # 0 => layout[0].end < layout[i].start
      BY <1>3
    <3>2. 0 \in 0 .. n - 1 /\ layout[0].start <= layout[0].end
      BY <1>2
    <3>3. QED
      BY <1>1, <1>2, <3>1, <3>2
  <2>3. layout[i].end <= size - 1
    <3>1. i # n - 1 => layout[i].end < layout[n - 1].start
      BY <1>3
    <3>2. n - 1 \in 0 .. n - 1 /\ layout[n - 1].start <= layout[n - 1].end
      BY <1>2
    <3>3. QED
      BY <1>1, <1>2, <3>1, <3>2
  <2>4. QED
    BY <2>2, <2>3
<1>5. ASSUME NEW b \in 0 .. size - 1
      PROVE  \E i \in 0 .. n - 1 : b \in PieceBytes(layout[i])
  <2> DEFINE Reach == {k \in 0 .. n - 1 : b <= layout[k].end}
  <2>1. Reach \subseteq Nat /\ n - 1 \in Reach
    BY <1>2
  <2>2. PICK m \in Reach : \A k \in Reach : m <= k
    BY <2>1, LeastNat
  <2>3. layout[m].start <= b
    <3>1. CASE m = 0
      BY <1>2, <3>1
    <3>2. CASE m # 0
      <4>1. m - 1 \in 0 .. n - 2 /\ (m - 1) + 1 = m /\ m - 1 \in 0 .. n - 1
        BY <3>2
      <4>2. m - 1 \notin Reach
        BY <2>2, <4>1
      <4>3. QED
        BY <1>1, <1>2, <4>1, <4>2
    <3>3. QED
      BY <3>1, <3>2
  <2>4. QED
    BY <1>1, <2>3 DEF PieceBytes
<1>6. QED
  <2>1. \A i \in 0 .. n - 1 : PieceBytes(layout[i]) \subseteq 0 .. size - 1
    BY <1>1, <1>4 DEF PieceBytes
  <2>2. ASSUME NEW i \in 0 .. n - 1, NEW j \in 0 .. n - 1, i # j
        PROVE  PieceBytes(layout[i]) \intersect PieceBytes(layout[j]) = {}
    <3>1. i < j \/ j < i
      BY <2>2
    <3>2. QED
      BY <1>1, <1>3, <3>1 DEF PieceBytes
  <2>3. QED
    BY <1>5, <2>1, <2>2
=============================================================================
