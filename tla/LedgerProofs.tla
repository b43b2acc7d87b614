---------------------------- MODULE LedgerProofs ----------------------------
(***************************************************************************)
(* Proofs about the manifest ledger: the two layouts of any file are what  *)
(* the loops of the code produce, and the range algebra is exact for any   *)
(* ranges, any chunk and any number of chunks.                             *)
(***************************************************************************)
EXTENDS MCManifestLedger, LayoutProofs, FiniteSetTheorems, SequenceTheorems

(***************************************************************************)
(* Folds.  FoldLeft is defined over sets of indices, each step taking the  *)
(* greatest one out.  A function that satisfies that recursion exists; and *)
(* what it gives for 1 .. k is the value after k turns of the loop.        *)
(***************************************************************************)
Folding(n, base, step, iter) ==
  iter = [s \in SUBSET (1 .. n) |->
            IF s = {} THEN base ELSE step[<<iter[s \ {Max(s)}], Max(s)>>]]

\* The greatest index goes first.
LEMMA MaxOfPrefix ==
  ASSUME NEW k \in Nat, NEW s \in SUBSET (1 .. k + 1), k + 1 \in s
  PROVE  Max(s) = k + 1 /\ s \ {k + 1} \in SUBSET (1 .. k)
<1>1. \A y \in s : k + 1 >= y
  OBVIOUS
<1>2. \A x \in s : (\A y \in s : x >= y) => x = k + 1
  OBVIOUS
<1>3. Max(s) = k + 1
  BY <1>1, <1>2 DEF Max
<1>4. QED
  BY <1>3

\* The recursion of a fold over n elements has a solution.
LEMMA FoldExists ==
  ASSUME NEW n \in Nat, NEW V, NEW base \in V, NEW step \in [V \X (1 .. n) -> V]
  PROVE  \E iter \in [SUBSET (1 .. n) -> V] : Folding(n, base, step, iter)
<1> DEFINE Upto(k) ==
      \E iter \in [SUBSET (1 .. k) -> V] :
        \A s \in SUBSET (1 .. k) :
          iter[s] = IF s = {} THEN base ELSE step[<<iter[s \ {Max(s)}], Max(s)>>]
    Bad == {k \in 0 .. n : ~Upto(k)}
<1>1. Upto(0)
  <2>1. [s \in SUBSET (1 .. 0) |-> base] \in [SUBSET (1 .. 0) -> V]
    OBVIOUS
  <2>2. \A s \in SUBSET (1 .. 0) : s = {}
    OBVIOUS
  <2>3. QED
    BY <2>1, <2>2
<1>2. ASSUME NEW k \in 0 .. n - 1, Upto(k)
      PROVE  Upto(k + 1)
  <2>1. PICK f \in [SUBSET (1 .. k) -> V] :
          \A s \in SUBSET (1 .. k) :
            f[s] = IF s = {} THEN base ELSE step[<<f[s \ {Max(s)}], Max(s)>>]
    BY <1>2
  <2> DEFINE g == [s \in SUBSET (1 .. k + 1) |->
                     IF k + 1 \in s THEN step[<<f[s \ {k + 1}], k + 1>>] ELSE f[s]]
  <2>2. ASSUME NEW s \in SUBSET (1 .. k + 1)
        PROVE  /\ k + 1 \in s => s \ {k + 1} \in SUBSET (1 .. k)
               /\ k + 1 \notin s => s \in SUBSET (1 .. k)
    <3>1. \A x \in s : x # k + 1 => x \in 1 .. k
      OBVIOUS
    <3>2. QED
      BY <3>1
  <2>3. g \in [SUBSET (1 .. k + 1) -> V]
    <3>1. k + 1 \in 1 .. n
      OBVIOUS
    <3>2. QED
      BY <2>2, <3>1
  <2>4. ASSUME NEW s \in SUBSET (1 .. k)
        PROVE  g[s] = f[s]
    <3>1. k + 1 \notin s /\ s \in SUBSET (1 .. k + 1)
      OBVIOUS
    <3>2. QED
      BY <3>1
  <2>5. ASSUME NEW s \in SUBSET (1 .. k + 1)
        PROVE  g[s] = IF s = {} THEN base ELSE step[<<g[s \ {Max(s)}], Max(s)>>]
    <3>1. CASE k + 1 \in s
      <4>1. Max(s) = k + 1 /\ s \ {k + 1} \in SUBSET (1 .. k)
        BY <3>1, MaxOfPrefix
      <4>2. g[s] = step[<<f[s \ {k + 1}], k + 1>>] /\ s # {}
        BY <3>1
      <4>3. g[s \ {k + 1}] = f[s \ {k + 1}]
        BY <2>4, <4>1
      <4> HIDE DEF g
      <4>4. QED
        BY <4>1, <4>2, <4>3
    <3>2. CASE k + 1 \notin s
      <4>1. s \in SUBSET (1 .. k) /\ s \ {Max(s)} \in SUBSET (1 .. k)
        BY <2>2, <3>2
      <4>2. g[s] = f[s] /\ g[s \ {Max(s)}] = f[s \ {Max(s)}]
        BY <2>4, <4>1
      <4> HIDE DEF g
      <4>3. QED
        BY <2>1, <4>1, <4>2
    <3>3. QED
      BY <3>1, <3>2
  <2> HIDE DEF g
  <2>6. QED
    BY <2>3, <2>5
<1> HIDE DEF Upto
<1>3. Bad = {}
  <2>1. SUFFICES ASSUME Bad # {} PROVE FALSE
    OBVIOUS
  <2>2. PICK m \in Bad : \A k \in Bad : m <= k
    <3>1. Bad \subseteq Nat
      OBVIOUS
    <3>2. QED
      BY <2>1, <3>1, LeastNat
  <2>3. m # 0 /\ m - 1 \in 0 .. n - 1 /\ (m - 1) + 1 = m
    BY <1>1, <2>2
  <2>4. m - 1 \notin Bad /\ m - 1 \in 0 .. n
    BY <2>2, <2>3
  <2>5. Upto(m - 1)
    BY <2>4
  <2>6. QED
    BY <1>2, <2>2, <2>3, <2>5
<1>4. Upto(n)
  BY <1>3
<1>5. PICK iter \in [SUBSET (1 .. n) -> V] :
        \A s \in SUBSET (1 .. n) :
          iter[s] = IF s = {} THEN base ELSE step[<<iter[s \ {Max(s)}], Max(s)>>]
  BY <1>4 DEF Upto
<1>6. Folding(n, base, step, iter)
  BY <1>5 DEF Folding
<1>7. QED
  BY <1>6


\* The indices of the first k turns.
LEMMA PrefixOf ==
  /\ 1 .. 0 = {}
  /\ \A n \in Nat : \A k \in 1 .. n :
       /\ 1 .. k \in SUBSET (1 .. n) /\ 1 .. k # {} /\ Max(1 .. k) = k
       /\ (1 .. k) \ {k} = 1 .. k - 1 /\ k - 1 \in 0 .. n
<1>1. 1 .. 0 = {}
  OBVIOUS
<1>2. ASSUME NEW n \in Nat, NEW k \in 1 .. n
      PROVE  Max(1 .. k) = k
  <2>1. k - 1 \in Nat /\ (k - 1) + 1 = k /\ k \in 1 .. k
    OBVIOUS
  <2>2. QED
    BY <2>1, MaxOfPrefix
<1>3. ASSUME NEW n \in Nat, NEW k \in 1 .. n
      PROVE  /\ 1 .. k \in SUBSET (1 .. n) /\ 1 .. k # {}
             /\ (1 .. k) \ {k} = 1 .. k - 1 /\ k - 1 \in 0 .. n
  OBVIOUS
<1>4. QED
  BY <1>1, <1>2, <1>3

\* Every non-empty set of indices has a greatest one.
LEMMA MaxOfSome ==
  ASSUME NEW n \in Nat, NEW s \in SUBSET (1 .. n), s # {}
  PROVE  Max(s) \in s
<1> DEFINE above == {n - x : x \in s}
<1>1. above \subseteq Nat /\ above # {}
  <2>1. \A x \in s : x \in Int /\ n - x \in Nat
    OBVIOUS
  <2>2. QED
    BY <2>1
<1>2. PICK d \in above : \A e \in above : d <= e
  BY <1>1, LeastNat
<1>3. PICK x \in s : d = n - x
  OBVIOUS
<1>4. \A y \in s : x >= y
  <2>1. TAKE y \in s
  <2>2. n - y \in above
    OBVIOUS
  <2>3. n - x <= n - y
    BY <1>2, <1>3, <2>2
  <2>4. QED
    BY <2>3
<1>5. QED
  BY <1>4 DEF Max

\* Induction over the turns of a loop, for a set of turns.
LEMMA Induct ==
  ASSUME NEW n \in Nat, NEW G, 0 \in G, \A k \in 0 .. n - 1 : k \in G => k + 1 \in G
  PROVE  \A k \in 0 .. n : k \in G
<1> DEFINE Bad == {k \in 0 .. n : k \notin G}
<1>1. SUFFICES ASSUME Bad # {} PROVE FALSE
  OBVIOUS
<1>2. Bad \subseteq Nat
  OBVIOUS
<1>3. PICK m \in Bad : \A k \in Bad : m <= k
  BY <1>1, <1>2, LeastNat
<1>4. m # 0 /\ m - 1 \in 0 .. n - 1 /\ (m - 1) + 1 = m /\ m - 1 \notin Bad
  BY <1>3
<1>5. QED
  BY <1>4

(***************************************************************************)
(* The merging loop.                                                       *)
(***************************************************************************)
Rng == ByteRange(Int)

\* The fields of a range.
LEMMA RngFields ==
  /\ \A r \in Rng : r.start \in Int /\ r.end \in Int
  /\ \A a, b \in Int : [start |-> a, end |-> b] \in Rng
  BY DEF Rng, ByteRange

\* The last range of a list that has one.
LEMMA LastOf ==
  ASSUME NEW q \in Seq(Rng), q # <<>>
  PROVE  /\ Len(q) \in Nat /\ Len(q) >= 1 /\ Last(q) = q[Len(q)]
         /\ Last(q) \in Rng /\ Last(q).start \in Int /\ Last(q).end \in Int
<1>1. Len(q) \in Nat /\ Len(q) # 0
  BY EmptySeq, LenProperties
<1>2. q[Len(q)] \in Rng
  BY <1>1, ElementOfSeq
<1>3. QED
  BY <1>1, <1>2, RngFields DEF Last

\* A turn of the merging loop gives a list of ranges.
LEMMA AbsorbType ==
  ASSUME NEW q \in Seq(Rng), NEW r \in Rng
  PROVE  Absorb(q, r) \in Seq(Rng)
<1>1. Append(q, r) \in Seq(Rng)
  BY AppendProperties
<1>2. ASSUME q # <<>>
      PROVE  [q EXCEPT ![Len(q)].end = r.end] \in Seq(Rng)
  <2>1. [Last(q) EXCEPT !.end = r.end] \in Rng
    BY <1>2, LastOf, RngFields DEF Rng, ByteRange
  <2>2. [q EXCEPT ![Len(q)].end = r.end] = [q EXCEPT ![Len(q)] = [Last(q) EXCEPT !.end = r.end]]
    BY <1>2, LastOf
  <2>3. QED
    <3> DEFINE e == [Last(q) EXCEPT !.end = r.end]
    <3>1. Len(q) \in 1 .. Len(q) /\ e \in Rng
      BY <1>2, <2>1, LastOf
    <3> HIDE DEF e
    <3>2. [q EXCEPT ![Len(q)] = e] \in Seq(Rng)
      BY <3>1, ExceptSeq
    <3>3. QED
      BY <2>2, <3>2 DEF e
<1>3. QED
  BY <1>1, <1>2 DEF Absorb

\* The merging fold, turn by turn.
LEMMA AbsorbTurns ==
  ASSUME NEW q \in Seq(Rng)
  PROVE  \E h : /\ h[0] = <<>>
                /\ \A k \in 1 .. Len(q) : h[k] = Absorb(h[k - 1], q[k])
                /\ FoldLeft(Absorb, <<>>, q) = h[Len(q)]
<1> DEFINE n == Len(q)
           step == [p \in Seq(Rng) \X (1 .. n) |-> Absorb(p[1], q[p[2]])]
           Loop(iter) == iter = [s \in SUBSET DOMAIN q |->
                                   IF s = {} THEN <<>>
                                   ELSE LET x == Max(s) IN Absorb(iter[s \ {x}], q[x])]
           it == CHOOSE iter : Loop(iter)
<1>1. n \in Nat /\ DOMAIN q = 1 .. n /\ \A i \in 1 .. n : q[i] \in Rng
  BY LenProperties, ElementOfSeq
<1>2. step \in [Seq(Rng) \X (1 .. n) -> Seq(Rng)]
  BY <1>1, AbsorbType
<1>3. PICK f \in [SUBSET (1 .. n) -> Seq(Rng)] : Folding(n, <<>>, step, f)
  <2>1. <<>> \in Seq(Rng)
    OBVIOUS
  <2> HIDE DEF step, n
  <2>2. QED
    BY <1>1, <1>2, <2>1, FoldExists
<1>4. Loop(f)
  <2>1. ASSUME NEW s \in SUBSET (1 .. n), s # {}
        PROVE  step[<<f[s \ {Max(s)}], Max(s)>>] = Absorb(f[s \ {Max(s)}], q[Max(s)])
    <3>1. Max(s) \in 1 .. n
      <4> HIDE DEF step, n
      <4>1. Max(s) \in s
        BY <1>1, <2>1, MaxOfSome
      <4>2. QED
        BY <4>1
    <3>2. f[s \ {Max(s)}] \in Seq(Rng)
      OBVIOUS
    <3>3. QED
      BY <3>1, <3>2
  <2> HIDE DEF step
  <2>2. QED
    BY <1>1, <1>3, <2>1 DEF Folding
<1>5. Loop(it)
  BY <1>4
<1>6. FoldLeft(Absorb, <<>>, q) = it[DOMAIN q]
  BY DEF FoldLeft, MapThenFoldSet
<1> HIDE DEF it, step
<1>7. it[{}] = <<>>
  BY <1>5
<1>8. ASSUME NEW k \in 1 .. n
      PROVE  it[1 .. k] = Absorb(it[1 .. k - 1], q[k])
  <2>1. /\ 1 .. k \in SUBSET (1 .. n) /\ 1 .. k # {} /\ Max(1 .. k) = k
        /\ (1 .. k) \ {k} = 1 .. k - 1
    BY <1>1, PrefixOf
  <2> HIDE DEF n
  <2>2. it = [s \in SUBSET (1 .. n) |->
                IF s = {} THEN <<>> ELSE Absorb(it[s \ {Max(s)}], q[Max(s)])]
    BY <1>1, <1>5
  <2>3. it[1 .. k] = Absorb(it[(1 .. k) \ {Max(1 .. k)}], q[Max(1 .. k)])
    BY <2>1, <2>2
  <2>4. QED
    BY <2>1, <2>3
<1>9. QED
  <2> DEFINE h == [k \in 0 .. n |-> it[1 .. k]]
  <2>1. h[0] = <<>>
    BY <1>1, <1>7, PrefixOf
  <2>2. \A k \in 1 .. n : h[k] = Absorb(h[k - 1], q[k])
    BY <1>1, <1>8
  <2>3. h[n] = it[DOMAIN q]
    BY <1>1
  <2>4. QED
    BY <1>6, <2>1, <2>2, <2>3

\* Ranges in canonical form: none empty, ascending, at least one byte between two.
Apart(q) ==
  /\ \A k \in 1 .. Len(q) : q[k].start <= q[k].end
  /\ \A k \in 1 .. Len(q) - 1 : q[k].end + 1 < q[k + 1].start

\* A byte is among the ranges when one of them holds it.
LEMMA BytesOf ==
  ASSUME NEW q \in Seq(Rng), NEW b
  PROVE  b \in RangeBytes(q) <=> b \in Int /\ \E i \in 1 .. Len(q) : q[i].start <= b /\ b <= q[i].end
<1>1. DOMAIN q = 1 .. Len(q) /\ \A i \in 1 .. Len(q) : q[i].start \in Int /\ q[i].end \in Int
  BY LenProperties, ElementOfSeq, RngFields
<1>2. b \in RangeBytes(q) <=> \E i \in 1 .. Len(q) : b \in q[i].start .. q[i].end
  BY <1>1 DEF RangeBytes, PieceBytes
<1>3. QED
  BY <1>1, <1>2

\* Appending a range adds its bytes.
LEMMA AppendBytes ==
  ASSUME NEW q \in Seq(Rng), NEW r \in Rng, NEW b
  PROVE  b \in RangeBytes(Append(q, r)) <=> b \in RangeBytes(q) \/ b \in PieceBytes(r)
<1>1. /\ Append(q, r) \in Seq(Rng) /\ Len(q) \in Nat /\ Len(Append(q, r)) = Len(q) + 1
      /\ \A i \in 1 .. Len(q) : Append(q, r)[i] = q[i]
      /\ Append(q, r)[Len(q) + 1] = r
  BY AppendProperties, LenProperties
<1>2. r.start \in Int /\ r.end \in Int
  BY RngFields
<1>3. (\E i \in 1 .. Len(q) + 1 : Append(q, r)[i].start <= b /\ b <= Append(q, r)[i].end)
      <=> (\E i \in 1 .. Len(q) : q[i].start <= b /\ b <= q[i].end) \/ (r.start <= b /\ b <= r.end)
  <2>1. \A i \in 1 .. Len(q) + 1 : i \in 1 .. Len(q) \/ i = Len(q) + 1
    BY <1>1
  <2>2. \A i \in 1 .. Len(q) : i \in 1 .. Len(q) + 1
    BY <1>1
  <2>3. Len(q) + 1 \in 1 .. Len(q) + 1
    BY <1>1
  <2>4. QED
    BY <1>1, <2>1, <2>2, <2>3
<1>4. b \in PieceBytes(r) <=> b \in Int /\ r.start <= b /\ b <= r.end
  BY <1>2 DEF PieceBytes
<1>5. QED
  BY <1>1, <1>3, <1>4, BytesOf

\* A range that starts beyond the last one may be appended.
LEMMA AppendApart ==
  ASSUME NEW q \in Seq(Rng), Apart(q), NEW r \in Rng, r.start <= r.end,
         q # <<>> => Last(q).end + 1 < r.start
  PROVE  /\ Append(q, r) \in Seq(Rng) /\ Apart(Append(q, r)) /\ Append(q, r) # <<>>
         /\ Last(Append(q, r)) = r
<1> DEFINE n == Len(q)
           p == Append(q, r)
<1>1. /\ p \in Seq(Rng) /\ n \in Nat /\ Len(p) = n + 1
      /\ \A i \in 1 .. n : p[i] = q[i]
      /\ p[n + 1] = r
  BY AppendProperties, LenProperties
<1>2. n > 0 => Last(q) = q[n] /\ q # <<>>
  BY <1>1, EmptySeq DEF Last
<1> HIDE DEF n, p
<1>3. p # <<>> /\ Last(p) = r
  BY <1>1, EmptySeq DEF Last
<1>4. \A k \in 1 .. n : q[k].start <= q[k].end
  BY DEF Apart, n
<1>5. \A k \in 1 .. n - 1 : q[k].end + 1 < q[k + 1].start
  BY DEF Apart, n
<1>6. \A k \in 1 .. n + 1 : p[k].start <= p[k].end
  BY <1>1, <1>4
<1>7. ASSUME NEW k \in 1 .. n
      PROVE  p[k].end + 1 < p[k + 1].start
  <2>1. CASE k = n
    BY <1>1, <1>2, <2>1
  <2>2. CASE k # n
    <3>1. k \in 1 .. n - 1 /\ k + 1 \in 1 .. n
      BY <1>1, <2>2
    <3>2. QED
      BY <1>1, <1>5, <3>1
  <2>3. QED
    BY <2>1, <2>2
<1>8. (n + 1) - 1 = n
  BY <1>1
<1>9. Apart(p)
  BY <1>1, <1>6, <1>7, <1>8 DEF Apart
<1>10. QED
  BY <1>1, <1>3, <1>9 DEF p

\* The last range may be extended.
LEMMA ExtendLast ==
  ASSUME NEW q \in Seq(Rng), Apart(q), q # <<>>, NEW e \in Int, e > Last(q).end
  PROVE  LET p == [q EXCEPT ![Len(q)].end = e]
         IN  /\ p \in Seq(Rng) /\ Apart(p) /\ p # <<>> /\ Last(p).start = Last(q).start
             /\ Last(p).end = e
             /\ \A b : b \in RangeBytes(p) <=>
                  b \in RangeBytes(q) \/ (b \in Int /\ Last(q).start <= b /\ b <= e)
<1> DEFINE n == Len(q)
           last == [Last(q) EXCEPT !.end = e]
           p == [q EXCEPT ![n] = last]
<1>1. n \in Nat /\ n \in 1 .. n /\ q[n] = Last(q) /\ Last(q) \in Rng
      /\ \A i \in 1 .. n : q[i] \in Rng
  BY LastOf, ElementOfSeq
<1>2. last \in Rng /\ last.start = Last(q).start /\ last.end = e
  BY <1>1 DEF Rng, ByteRange
<1>3. [q EXCEPT ![Len(q)].end = e] = p
  BY <1>1
<1> HIDE DEF last
<1>4. p \in Seq(Rng) /\ Len(p) = n /\ \A j \in 1 .. n : p[j] = IF j = n THEN last ELSE q[j]
  BY <1>1, <1>2, ExceptSeq
<1> HIDE DEF p, n
<1>5. p # <<>> /\ Last(p) = last
  BY <1>1, <1>4, EmptySeq DEF Last
<1>6. /\ \A k \in 1 .. n : q[k].start <= q[k].end
      /\ \A k \in 1 .. n - 1 : q[k].end + 1 < q[k + 1].start
  BY DEF Apart, n
<1>7. \A k \in 1 .. n : q[k].start \in Int /\ q[k].end \in Int
  BY <1>1, RngFields
<1>8. \A k \in 1 .. n : p[k].start = q[k].start
  BY <1>1, <1>2, <1>4
<1>9. \A k \in 1 .. n : k # n => p[k].end = q[k].end
  BY <1>4
<1>10. p[n].end = e /\ e > q[n].end
  BY <1>1, <1>2, <1>4
<1>11. Apart(p)
  <2>1. \A k \in 1 .. n : p[k].start <= p[k].end
    BY <1>1, <1>6, <1>7, <1>8, <1>9, <1>10, SMTT(30)
  <2>2. \A k \in 1 .. n - 1 : p[k].end + 1 < p[k + 1].start
    <3>1. \A k \in 1 .. n - 1 : k \in 1 .. n /\ k # n /\ k + 1 \in 1 .. n
      BY <1>1
    <3>2. QED
      BY <1>6, <1>8, <1>9, <3>1
  <2>3. QED
    BY <1>4, <2>1, <2>2 DEF Apart
<1>12. ASSUME NEW b
       PROVE  b \in RangeBytes(p) <=>
                b \in RangeBytes(q) \/ (b \in Int /\ Last(q).start <= b /\ b <= e)
  <2>1. b \in RangeBytes(p) <=> b \in Int /\ \E i \in 1 .. n : p[i].start <= b /\ b <= p[i].end
    BY <1>4, BytesOf
  <2>2. b \in RangeBytes(q) <=> b \in Int /\ \E i \in 1 .. n : q[i].start <= b /\ b <= q[i].end
    BY BytesOf DEF n
  <2>3. ASSUME b \in Int
        PROVE  (\E i \in 1 .. n : p[i].start <= b /\ b <= p[i].end)
               <=> (\E i \in 1 .. n : q[i].start <= b /\ b <= q[i].end)
                   \/ (q[n].start <= b /\ b <= e)
    <3>1. ASSUME NEW i \in 1 .. n, p[i].start <= b, b <= p[i].end
          PROVE  (q[i].start <= b /\ b <= q[i].end) \/ (q[n].start <= b /\ b <= e)
      BY <1>1, <1>7, <1>8, <1>9, <1>10, <2>3, <3>1
    <3>2. ASSUME NEW i \in 1 .. n, q[i].start <= b, b <= q[i].end
          PROVE  p[i].start <= b /\ b <= p[i].end
      BY <1>1, <1>7, <1>8, <1>9, <1>10, <2>3, <3>2
    <3>3. q[n].start <= b /\ b <= e => p[n].start <= b /\ b <= p[n].end
      BY <1>1, <1>8, <1>10
    <3>4. QED
      BY <1>1, <3>1, <3>2, <3>3
  <2>4. QED
    BY <1>1, <2>1, <2>2, <2>3
<1>13. QED
  BY <1>2, <1>3, <1>4, <1>5, <1>11, <1>12

(***************************************************************************)
(* One turn of the merging loop on a list in ascending order: the list     *)
(* stays apart, and gains exactly the bytes of the range.                  *)
(***************************************************************************)
LEMMA AbsorbStep ==
  ASSUME NEW q \in Seq(Rng), Apart(q), NEW r \in Rng, r.start <= r.end,
         q # <<>> => Last(q).start <= r.start
  PROVE  LET m == Absorb(q, r)
         IN  /\ m \in Seq(Rng) /\ Apart(m) /\ m # <<>> /\ Last(m).start <= r.start
             /\ \A b : b \in RangeBytes(m) <=> b \in RangeBytes(q) \/ b \in PieceBytes(r)
<1>1. r.start \in Int /\ r.end \in Int /\ \A b : b \in PieceBytes(r) <=> b \in Int /\ r.start <= b /\ b <= r.end
  BY RngFields DEF PieceBytes
<1>2. CASE q = <<>> \/ r.start > Last(q).end + 1
  <2>1. Absorb(q, r) = Append(q, r)
    BY <1>2 DEF Absorb
  <2>2. q # <<>> => Last(q).end + 1 < r.start
    BY <1>1, <1>2, LastOf
  <2>3. QED
    BY <1>1, <2>1, <2>2, AppendApart, AppendBytes
<1>3. CASE q # <<>> /\ ~(r.start > Last(q).end + 1) /\ r.end > Last(q).end
  <2>1. Absorb(q, r) = [q EXCEPT ![Len(q)].end = r.end]
    BY <1>3 DEF Absorb
  <2>2. /\ Last(q).start \in Int /\ Last(q).end \in Int /\ r.start <= Last(q).end + 1
        /\ Len(q) \in 1 .. Len(q) /\ Last(q) = q[Len(q)]
    BY <1>1, <1>3, LastOf
  <2>3. \A b \in Int : Last(q).start <= b /\ b < r.start => b \in RangeBytes(q)
    BY <1>1, <2>2, BytesOf
  <2>4. ASSUME NEW b \in Int
        PROVE  b \in RangeBytes(q) \/ (Last(q).start <= b /\ b <= r.end)
               <=> b \in RangeBytes(q) \/ (r.start <= b /\ b <= r.end)
    BY <1>1, <1>3, <2>2, <2>3
  <2> DEFINE m == Absorb(q, r)
  <2>5. /\ m \in Seq(Rng) /\ Apart(m) /\ m # <<>> /\ Last(m).start = Last(q).start
        /\ \A b : b \in RangeBytes(m) <=>
             b \in RangeBytes(q) \/ (b \in Int /\ Last(q).start <= b /\ b <= r.end)
    <3>1. PICK e \in Int : e = r.end
      BY <1>1
    <3>2. e > Last(q).end /\ m = [q EXCEPT ![Len(q)].end = e]
      BY <1>3, <2>1, <3>1
    <3> HIDE DEF m
    <3>3. /\ m \in Seq(Rng) /\ Apart(m) /\ m # <<>> /\ Last(m).start = Last(q).start
          /\ \A b : b \in RangeBytes(m) <=>
               b \in RangeBytes(q) \/ (b \in Int /\ Last(q).start <= b /\ b <= e)
      BY <1>3, <3>2, ExtendLast
    <3>4. QED
      BY <3>1, <3>3
  <2>6. \A b : b \in RangeBytes(q) => b \in Int
    BY BytesOf
  <2> HIDE DEF m
  <2>7. \A b : b \in RangeBytes(m) <=> b \in RangeBytes(q) \/ b \in PieceBytes(r)
    BY <1>1, <2>4, <2>5, <2>6
  <2>8. Last(m).start <= r.start
    BY <1>3, <2>5
  <2>9. QED
    BY <2>5, <2>7, <2>8 DEF m
<1>4. CASE q # <<>> /\ ~(r.start > Last(q).end + 1) /\ ~(r.end > Last(q).end)
  <2>1. Absorb(q, r) = q
    BY <1>4 DEF Absorb
  <2>2. /\ Last(q).start \in Int /\ Last(q).end \in Int /\ r.end <= Last(q).end
        /\ Len(q) \in 1 .. Len(q) /\ Last(q) = q[Len(q)]
    BY <1>1, <1>4, LastOf
  <2>3. \A b : b \in PieceBytes(r) => b \in RangeBytes(q)
    BY <1>1, <1>4, <2>2, BytesOf
  <2>4. QED
    BY <1>4, <2>1, <2>3
<1>5. QED
  BY <1>2, <1>3, <1>4

(***************************************************************************)
(* Sorting: the permutation that SortedRanges chooses exists.              *)
(***************************************************************************)
LEMMA RangeOrder ==
  /\ \A a \in Rng : ~RangeLess(a, a)
  /\ \A a, b \in Rng : ~RangeLess(a, b) \/ ~RangeLess(b, a)
  /\ \A a, b, c \in Rng : ~RangeLess(b, a) /\ ~RangeLess(c, b) => ~RangeLess(c, a)
  /\ \A a, b \in Rng : ~RangeLess(b, a) => a.start <= b.start
  BY RngFields DEF RangeLess

\* Sets of indices are finite, and taking one out makes them smaller by one.
LEMMA CountIndices ==
  ASSUME NEW n \in Nat, NEW K \in SUBSET (1 .. n)
  PROVE  /\ IsFiniteSet(K) /\ Cardinality(K) \in Nat /\ (Cardinality(K) = 0 <=> K = {})
         /\ \A x \in K : /\ K \ {x} \in SUBSET (1 .. n)
                         /\ Cardinality(K \ {x}) = Cardinality(K) - 1
<1>1. IsFiniteSet(1 .. n)
  BY FS_Interval
<1>2. IsFiniteSet(K)
  BY <1>1, FS_Subset
<1>3. QED
  BY <1>2, FS_CardinalityType, FS_EmptySet, FS_RemoveElement

\* Some range comes after all others, or ties with them.
LEMMA GreatestRange ==
  ASSUME NEW q \in Seq(Rng), NEW K \in SUBSET (1 .. Len(q)), K # {}
  PROVE  \E m \in K : \A k \in K : ~RangeLess(q[m], q[k])
<1> DEFINE D == 1 .. Len(q)
           Greatest(J) == \E m \in J : \A k \in J : ~RangeLess(q[m], q[k])
           Good == {c \in Nat : \A J \in SUBSET D : Cardinality(J) = c + 1 => Greatest(J)}
<1>1. Len(q) \in Nat /\ \A i \in D : q[i] \in Rng
  BY LenProperties, ElementOfSeq
<1>2. \A J \in SUBSET D : /\ Cardinality(J) \in Nat /\ (Cardinality(J) = 0 <=> J = {})
                          /\ \A x \in J : /\ J \ {x} \in SUBSET D
                                          /\ Cardinality(J \ {x}) = Cardinality(J) - 1
  BY <1>1, CountIndices
<1> HIDE DEF D
<1>3. 0 \in Good
  <2>1. ASSUME NEW J \in SUBSET D, Cardinality(J) = 1
        PROVE  Greatest(J)
    <3>1. PICK x \in J : TRUE
      BY <1>2, <2>1
    <3>2. J \ {x} = {}
      <4>1. J \ {x} \in SUBSET D /\ Cardinality(J \ {x}) = 0
        BY <1>2, <2>1
      <4>2. QED
        BY <1>2, <4>1
    <3>3. QED
      BY <1>1, <3>1, <3>2, RangeOrder
  <2>2. QED
    BY <2>1
<1>4. ASSUME NEW c \in Nat, c \in Good
      PROVE  c + 1 \in Good
  <2>1. ASSUME NEW J \in SUBSET D, Cardinality(J) = (c + 1) + 1
        PROVE  Greatest(J)
    <3>1. PICK x \in J : TRUE
      BY <1>2, <2>1
    <3>2. Cardinality(J \ {x}) = c + 1 /\ J \ {x} \in SUBSET D
      BY <1>2, <2>1
    <3>3. PICK m \in J \ {x} : \A k \in J \ {x} : ~RangeLess(q[m], q[k])
      BY <1>4, <3>2
    <3>4. \A k \in J : q[k] \in Rng /\ (k = x \/ k \in J \ {x})
      BY <1>1
    <3>5. CASE ~RangeLess(q[m], q[x])
      BY <3>3, <3>4, <3>5
    <3>6. CASE RangeLess(q[m], q[x])
      <4>1. ~RangeLess(q[x], q[m])
        BY <3>4, <3>6, RangeOrder
      <4>2. \A k \in J : ~RangeLess(q[x], q[k])
        <5>1. TAKE k \in J
        <5>2. CASE k = x
          BY <3>4, <5>2, RangeOrder
        <5>3. CASE k # x
          BY <3>3, <3>4, <4>1, <5>3, RangeOrder
        <5>4. QED
          BY <5>2, <5>3
      <4>3. QED
        BY <3>1, <4>2
    <3>7. QED
      BY <3>5, <3>6
  <2>2. QED
    BY <2>1
<1>5. PICK c \in Nat : Cardinality(K) = c + 1
  <2>1. K \in SUBSET D
    BY DEF D
  <2>2. Cardinality(K) \in Nat /\ Cardinality(K) # 0
    BY <1>2, <2>1
  <2>3. Cardinality(K) - 1 \in Nat /\ Cardinality(K) = (Cardinality(K) - 1) + 1
    BY <2>2
  <2>4. QED
    BY <2>3
<1>6. \A k \in 0 .. c : k \in Good
  <2> HIDE DEF Good
  <2>1. \A k \in 0 .. c - 1 : k \in Good => k + 1 \in Good
    BY <1>4
  <2>2. QED
    BY <1>3, <2>1, Induct
<1>7. QED
  BY <1>5, <1>6 DEF D

Sorting(q, K, p) ==
  /\ p \in Bijection(1 .. Cardinality(K), K)
  /\ \A i, j \in DOMAIN p : i < j => ~RangeLess(q[p[j]], q[p[i]])

(***************************************************************************)
(* Any set of indices can be put in the order of their ranges: the sort    *)
(* that SortedRanges chooses exists.                                       *)
(***************************************************************************)
LEMMA SortingExists ==
  ASSUME NEW q \in Seq(Rng), NEW K \in SUBSET (1 .. Len(q))
  PROVE  \E p : Sorting(q, K, p)
<1> DEFINE D == 1 .. Len(q)
           Good == {c \in Nat : \A J \in SUBSET D : Cardinality(J) = c => \E p : Sorting(q, J, p)}
<1>1. Len(q) \in Nat /\ \A i \in D : q[i] \in Rng
  BY LenProperties, ElementOfSeq
<1>2. \A J \in SUBSET D : /\ Cardinality(J) \in Nat /\ (Cardinality(J) = 0 <=> J = {})
                          /\ \A x \in J : /\ J \ {x} \in SUBSET D
                                          /\ Cardinality(J \ {x}) = Cardinality(J) - 1
  BY <1>1, CountIndices
<1>3. \A J \in SUBSET D : J # {} => \E m \in J : \A k \in J : ~RangeLess(q[m], q[k])
  BY GreatestRange
<1> HIDE DEF D
<1>4. 0 \in Good
  <2>1. ASSUME NEW J \in SUBSET D, Cardinality(J) = 0
        PROVE  \E p : Sorting(q, J, p)
    <3>1. J = {} /\ 1 .. Cardinality(J) = {}
      BY <1>2, <2>1
    <3>2. Sorting(q, J, [i \in {} |-> 0])
      BY <3>1 DEF Sorting, Bijection, Injection, Surjection, IsInjective
    <3>3. QED
      BY <3>2
  <2>2. QED
    BY <2>1
<1>5. ASSUME NEW c \in Nat, c \in Good
      PROVE  c + 1 \in Good
  <2>1. ASSUME NEW J \in SUBSET D, Cardinality(J) = c + 1
        PROVE  \E p : Sorting(q, J, p)
    <3>1. J # {}
      BY <1>2, <2>1
    <3>2. PICK m \in J : \A k \in J : ~RangeLess(q[m], q[k])
      BY <1>3, <3>1
    <3>3. Cardinality(J \ {m}) = c /\ J \ {m} \in SUBSET D
      BY <1>2, <2>1
    <3>4. PICK f : Sorting(q, J \ {m}, f)
      BY <1>5, <3>3
    <3>5. /\ f \in [1 .. c -> J \ {m}]
          /\ \A a, b \in 1 .. c : f[a] = f[b] => a = b
          /\ \A k \in J \ {m} : \E a \in 1 .. c : f[a] = k
          /\ \A i, j \in 1 .. c : i < j => ~RangeLess(q[f[j]], q[f[i]])
      BY <3>3, <3>4 DEF Sorting, Bijection, Injection, Surjection, IsInjective
    <3> DEFINE p == [i \in 1 .. c + 1 |-> IF i = c + 1 THEN m ELSE f[i]]
    <3>6. \A i \in 1 .. c : i \in 1 .. c + 1 /\ i # c + 1
      OBVIOUS
    <3>7. \A i \in 1 .. c + 1 : i = c + 1 \/ i \in 1 .. c
      OBVIOUS
    <3>8. p[c + 1] = m /\ \A i \in 1 .. c : p[i] = f[i]
      BY <3>6
    <3>9. p \in [1 .. c + 1 -> J]
      BY <3>5, <3>7
    <3> HIDE DEF p
    <3>10. \A a, b \in 1 .. c + 1 : p[a] = p[b] => a = b
      <4>1. \A a \in 1 .. c : p[a] # m
        BY <3>5, <3>8
      <4>2. QED
        BY <3>5, <3>7, <3>8, <4>1
    <3>11. \A k \in J : \E a \in 1 .. c + 1 : p[a] = k
      <4>1. \A k \in J : k = m \/ k \in J \ {m}
        OBVIOUS
      <4>2. c + 1 \in 1 .. c + 1
        OBVIOUS
      <4>3. QED
        BY <3>5, <3>6, <3>8, <4>1, <4>2
    <3>12. \A i, j \in 1 .. c + 1 : i < j => ~RangeLess(q[p[j]], q[p[i]])
      <4>1. TAKE i, j \in 1 .. c + 1
      <4>2. HAVE i < j
      <4>3. i \in 1 .. c
        BY <4>2
      <4>4. CASE j = c + 1
        BY <3>2, <3>8, <3>9, <4>4
      <4>5. CASE j # c + 1
        BY <3>5, <3>7, <3>8, <4>2, <4>3, <4>5
      <4>6. QED
        BY <4>4, <4>5
    <3>13. Sorting(q, J, p)
      <4>1. DOMAIN p = 1 .. c + 1
        BY <3>9
      <4>2. p \in Bijection(1 .. c + 1, J)
        BY <3>9, <3>10, <3>11, <4>1 DEF Bijection, Injection, Surjection, IsInjective
      <4>3. QED
        BY <2>1, <3>12, <4>1, <4>2 DEF Sorting
    <3>14. QED
      BY <3>13
  <2>2. QED
    BY <2>1
<1>6. PICK c \in Nat : Cardinality(K) = c
  BY <1>2 DEF D
<1>7. \A k \in 0 .. c : k \in Good
  <2> HIDE DEF Good
  <2>1. \A k \in 0 .. c - 1 : k \in Good => k + 1 \in Good
    BY <1>5
  <2>2. QED
    BY <1>4, <2>1, Induct
<1>8. QED
  BY <1>6, <1>7 DEF D

\* What the merging loop starts from.
LEMMA SortedIs ==
  ASSUME NEW q \in Seq(Rng)
  PROVE  LET s == SortedRanges(q)
         IN  /\ s \in Seq(Rng)
             /\ \A k \in 1 .. Len(s) : s[k].start <= s[k].end
             /\ \A k \in 1 .. Len(s) - 1 : s[k].start <= s[k + 1].start
             /\ \A b : b \in RangeBytes(s) <=> b \in RangeBytes(q)
<1> DEFINE kept == {i \in DOMAIN q : NonEmptyRange(q[i])}
           n == Cardinality(kept)
           Choice(p) == /\ p \in Bijection(1 .. n, kept)
                        /\ \A i, j \in DOMAIN p : i < j => ~RangeLess(q[p[j]], q[p[i]])
           order == CHOOSE p : Choice(p)
           s == [i \in DOMAIN order |-> q[order[i]]]
<1>1. DOMAIN q = 1 .. Len(q) /\ Len(q) \in Nat /\ \A i \in 1 .. Len(q) : q[i] \in Rng
  BY LenProperties, ElementOfSeq
<1>2. kept \in SUBSET (1 .. Len(q))
  BY <1>1
<1>3. n \in Nat
  BY <1>1, <1>2, CountIndices
<1>4. \E p : Choice(p)
  BY <1>2, SortingExists DEF Sorting
<1>5. Choice(order)
  BY <1>4
<1>6. SortedRanges(q) = s
  BY DEF SortedRanges
<1> HIDE DEF order, n
<1>7. order \in [1 .. n -> kept] /\ \A k \in kept : \E a \in 1 .. n : order[a] = k
  BY <1>5 DEF Bijection, Injection, Surjection
<1>8. DOMAIN order = 1 .. n
  BY <1>7
<1>9. \A i \in 1 .. n : s[i] = q[order[i]] /\ order[i] \in kept
  BY <1>7, <1>8
<1>10. s \in Seq(Rng) /\ Len(s) = n
  <2>1. s \in [1 .. n -> Rng]
    BY <1>1, <1>2, <1>7, <1>8
  <2> HIDE DEF s
  <2>2. s \in Seq(Rng) /\ DOMAIN s = 1 .. n
    BY <1>3, <2>1, IsASeq
  <2>3. QED
    BY <1>3, <2>2, LenProperties
<1> HIDE DEF s
<1>11. \A k \in 1 .. n : s[k].start <= s[k].end
  BY <1>1, <1>2, <1>9, RngFields DEF NonEmptyRange
<1>12. ASSUME NEW k \in 1 .. n - 1
       PROVE  s[k].start <= s[k + 1].start
  <2>1. k \in 1 .. n /\ k + 1 \in 1 .. n /\ k < k + 1
    BY <1>3
  <2>2. ~RangeLess(s[k + 1], s[k])
    BY <1>5, <1>8, <1>9, <2>1
  <2>3. s[k] \in Rng /\ s[k + 1] \in Rng
    BY <1>1, <1>2, <1>9, <2>1
  <2>4. QED
    BY <2>2, <2>3, RangeOrder
<1>13. ASSUME NEW b
       PROVE  b \in RangeBytes(s) <=> b \in RangeBytes(q)
  <2>1. b \in RangeBytes(s) <=> b \in Int /\ \E i \in 1 .. n : s[i].start <= b /\ b <= s[i].end
    BY <1>10, BytesOf
  <2>2. b \in RangeBytes(q) <=> b \in Int /\ \E i \in 1 .. Len(q) : q[i].start <= b /\ b <= q[i].end
    BY BytesOf
  <2>3. ASSUME NEW i \in 1 .. Len(q), b \in Int, q[i].start <= b, b <= q[i].end
        PROVE  i \in kept
    BY <1>1, <2>3, RngFields DEF NonEmptyRange
  <2>4. \A i \in kept : i \in 1 .. Len(q)
    BY <1>2
  <2> HIDE DEF kept
  <2>5. QED
    BY <1>7, <1>9, <2>1, <2>2, <2>3, <2>4
<1>14. QED
  BY <1>6, <1>10, <1>11, <1>12, <1>13

(***************************************************************************)
(* MergeRanges brings any list of ranges into canonical form, and the list *)
(* stands for the same bytes.                                              *)
(***************************************************************************)
THEOREM MergeIsExact ==
  ASSUME NEW q \in Seq(Rng)
  PROVE  /\ MergeRanges(q) \in Seq(Rng)
         /\ Apart(MergeRanges(q))
         /\ RangeBytes(MergeRanges(q)) = RangeBytes(q)
<1> DEFINE s == SortedRanges(q)
           n == Len(s)
<1>1. /\ s \in Seq(Rng)
      /\ \A k \in 1 .. n : s[k].start <= s[k].end
      /\ \A k \in 1 .. n - 1 : s[k].start <= s[k + 1].start
      /\ \A b : b \in RangeBytes(s) <=> b \in RangeBytes(q)
  BY SortedIs
<1>2. MergeRanges(q) = FoldLeft(Absorb, <<>>, s)
  BY DEF MergeRanges
<1> HIDE DEF s
<1>3. PICK h : /\ h[0] = <<>>
               /\ \A k \in 1 .. n : h[k] = Absorb(h[k - 1], s[k])
               /\ FoldLeft(Absorb, <<>>, s) = h[n]
  BY <1>1, AbsorbTurns
<1>4. n \in Nat /\ \A k \in 1 .. n : s[k] \in Rng /\ s[k].start \in Int /\ s[k].end \in Int
  BY <1>1, LenProperties, ElementOfSeq, RngFields
<1> HIDE DEF n
<1> DEFINE Inv(k) == /\ h[k] \in Seq(Rng)
                     /\ Apart(h[k])
                     /\ h[k] # <<>> => k > 0 /\ Last(h[k]).start <= s[k].start
                     /\ \A b : b \in RangeBytes(h[k]) <=> \E i \in 1 .. k : b \in PieceBytes(s[i])
           Good == {k \in 0 .. n : Inv(k)}
<1>5. 0 \in Good
  <2>1. <<>> \in Seq(Rng) /\ Len(<<>>) = 0 /\ DOMAIN <<>> = {}
    OBVIOUS
  <2>2. Apart(<<>>)
    BY <2>1 DEF Apart
  <2>3. \A b : b \notin RangeBytes(<<>>)
    BY <2>1 DEF RangeBytes
  <2>4. \A b : ~ \E i \in 1 .. 0 : b \in PieceBytes(s[i])
    OBVIOUS
  <2>5. Inv(0)
    BY <1>3, <2>1, <2>2, <2>3, <2>4
  <2> HIDE DEF Inv
  <2>6. QED
    BY <1>4, <2>5
<1>6. ASSUME NEW k \in 0 .. n - 1, k \in Good
      PROVE  k + 1 \in Good
  <2>1. Inv(k)
    BY <1>6
  <2>2. k + 1 \in 1 .. n /\ (k + 1) - 1 = k /\ k + 1 \in 0 .. n
    BY <1>4
  <2>3. h[k + 1] = Absorb(h[k], s[k + 1])
    BY <1>3, <2>2
  <2>4. h[k] # <<>> => Last(h[k]).start <= s[k + 1].start
    <3>1. SUFFICES ASSUME h[k] # <<>> PROVE Last(h[k]).start <= s[k + 1].start
      OBVIOUS
    <3>2. k \in 1 .. n - 1 /\ k \in 1 .. n
      BY <1>4, <2>1, <3>1
    <3>3. Last(h[k]).start <= s[k].start /\ Last(h[k]).start \in Int
      BY <2>1, <3>1, LastOf
    <3>4. s[k].start <= s[k + 1].start
      BY <1>1, <3>2
    <3>5. QED
      BY <1>4, <2>2, <3>2, <3>3, <3>4
  <2>5. s[k + 1] \in Rng /\ s[k + 1].start <= s[k + 1].end
    BY <1>1, <1>4, <2>2
  <2>6. /\ h[k + 1] \in Seq(Rng) /\ Apart(h[k + 1]) /\ h[k + 1] # <<>>
        /\ Last(h[k + 1]).start <= s[k + 1].start
        /\ \A b : b \in RangeBytes(h[k + 1]) <=> b \in RangeBytes(h[k]) \/ b \in PieceBytes(s[k + 1])
    BY <2>1, <2>3, <2>4, <2>5, AbsorbStep
  <2>7. ASSUME NEW b
        PROVE  b \in RangeBytes(h[k + 1]) <=> \E i \in 1 .. k + 1 : b \in PieceBytes(s[i])
    <3>1. \A i \in 1 .. k + 1 : i \in 1 .. k \/ i = k + 1
      OBVIOUS
    <3>2. \A i \in 1 .. k : i \in 1 .. k + 1
      OBVIOUS
    <3>3. k + 1 \in 1 .. k + 1
      OBVIOUS
    <3>4. QED
      BY <2>1, <2>6, <3>1, <3>2, <3>3
  <2>8. QED
    BY <2>2, <2>6, <2>7
<1>7. Inv(n)
  <2> HIDE DEF Inv
  <2>1. \A k \in 0 .. n : k \in Good
    <3> HIDE DEF Good
    <3>1. QED
      BY <1>4, <1>5, <1>6, Induct
  <2>2. QED
    BY <1>4, <2>1
<1>8. \A b : b \in RangeBytes(h[n]) <=> b \in RangeBytes(s)
  BY <1>1, <1>4, <1>7, BytesOf DEF n, PieceBytes
<1>9. QED
  BY <1>1, <1>2, <1>3, <1>7, <1>8

(***************************************************************************)
(* The scanning loop.                                                      *)
(***************************************************************************)
Scan == [gaps : Seq(Rng), cursor : Int]

\* The fields of a scan.
LEMMA ScanFields ==
  /\ \A a \in Scan : a.gaps \in Seq(Rng) /\ a.cursor \in Int
  /\ \A g \in Seq(Rng), c \in Int : [gaps |-> g, cursor |-> c] \in Scan
  BY DEF Scan

\* Clamping a range to the chunk keeps the bytes that are in both.
LEMMA Clamped ==
  ASSUME NEW first \in Int, NEW last \in Int, NEW r \in Rng
  PROVE  LET c == ClampRange(r, first, last)
         IN  /\ c \in Rng
             /\ first <= c.start /\ c.end <= last /\ r.start <= c.start /\ c.end <= r.end
             /\ c.start = first \/ c.start = r.start
             /\ c.end = last \/ c.end = r.end
             /\ Overlaps(r, first, last) <=> first <= r.end /\ r.start <= last
             /\ \A b \in Int : b \in PieceBytes(c) <=> b \in PieceBytes(r) /\ first <= b /\ b <= last
<1> DEFINE x == IF r.start < first THEN first ELSE r.start
           y == IF r.end > last THEN last ELSE r.end
<1>1. r.start \in Int /\ r.end \in Int
  BY RngFields
<1>2. /\ x \in Int /\ y \in Int /\ first <= x /\ y <= last /\ r.start <= x /\ y <= r.end
      /\ (x = first \/ x = r.start) /\ (y = last \/ y = r.end)
      /\ \A b \in Int : x <= b /\ b <= y <=> r.start <= b /\ b <= r.end /\ first <= b /\ b <= last
  BY <1>1
<1>3. ClampRange(r, first, last) = [start |-> x, end |-> y]
  BY DEF ClampRange
<1> HIDE DEF x, y
<1>4. [start |-> x, end |-> y] \in Rng
  BY <1>2, RngFields
<1>5. Overlaps(r, first, last) <=> first <= r.end /\ r.start <= last
  BY <1>1 DEF Overlaps
<1>6. QED
  BY <1>1, <1>2, <1>3, <1>4, <1>5 DEF PieceBytes

\* A turn of the scanning loop gives a scan.
LEMMA ScanType ==
  ASSUME NEW first \in Int, NEW last \in Int, NEW a \in Scan, NEW r \in Rng
  PROVE  ScanRange(first, last, a, r) \in Scan
<1> DEFINE c == ClampRange(r, first, last)
           gap == [start |-> a.cursor, end |-> c.start - 1]
<1>1. c \in Rng /\ c.start \in Int /\ c.end \in Int
  BY Clamped, RngFields
<1> HIDE DEF c
<1>2. a.gaps \in Seq(Rng) /\ a.cursor \in Int /\ gap \in Rng
  BY <1>1, ScanFields, RngFields
<1>3. Append(a.gaps, gap) \in Seq(Rng)
  BY <1>2, AppendProperties
<1> HIDE DEF gap
<1>4. ScanRange(first, last, a, r) =
        IF ~Overlaps(r, first, last) THEN a
        ELSE [gaps |-> IF a.cursor < c.start THEN Append(a.gaps, gap) ELSE a.gaps,
              cursor |-> IF c.end + 1 > a.cursor THEN c.end + 1 ELSE a.cursor]
  BY DEF ScanRange, c, gap
<1> DEFINE g == IF a.cursor < c.start THEN Append(a.gaps, gap) ELSE a.gaps
           k == IF c.end + 1 > a.cursor THEN c.end + 1 ELSE a.cursor
<1>5. g \in Seq(Rng) /\ k \in Int
  BY <1>1, <1>2, <1>3
<1> HIDE DEF g, k
<1>6. [gaps |-> g, cursor |-> k] \in Scan
  BY <1>5, ScanFields
<1>7. QED
  BY <1>4, <1>6 DEF g, k

\* The scanning fold, turn by turn.
LEMMA ScanTurns ==
  ASSUME NEW q \in Seq(Rng), NEW first \in Int, NEW last \in Int
  PROVE  \E h : /\ h[0] = [gaps |-> <<>>, cursor |-> first]
                /\ \A k \in 1 .. Len(q) : h[k] = ScanRange(first, last, h[k - 1], q[k])
                /\ FoldLeft(LAMBDA a, r : ScanRange(first, last, a, r),
                            [gaps |-> <<>>, cursor |-> first], q) = h[Len(q)]
<1> DEFINE n == Len(q)
           base == [gaps |-> <<>>, cursor |-> first]
           step == [p \in Scan \X (1 .. n) |-> ScanRange(first, last, p[1], q[p[2]])]
           Loop(iter) == iter = [s \in SUBSET DOMAIN q |->
                                   IF s = {} THEN base
                                   ELSE LET x == Max(s)
                                        IN  ScanRange(first, last, iter[s \ {x}], q[x])]
           it == CHOOSE iter : Loop(iter)
<1>1. n \in Nat /\ DOMAIN q = 1 .. n /\ \A i \in 1 .. n : q[i] \in Rng
  BY LenProperties, ElementOfSeq
<1>2. step \in [Scan \X (1 .. n) -> Scan]
  BY <1>1, ScanType
<1>3. PICK f \in [SUBSET (1 .. n) -> Scan] : Folding(n, base, step, f)
  <2>1. base \in Scan
    BY DEF Scan
  <2> HIDE DEF step, n, base
  <2>2. QED
    BY <1>1, <1>2, <2>1, FoldExists
<1>4. Loop(f)
  <2>1. ASSUME NEW s \in SUBSET (1 .. n), s # {}
        PROVE  step[<<f[s \ {Max(s)}], Max(s)>>] = ScanRange(first, last, f[s \ {Max(s)}], q[Max(s)])
    <3>1. Max(s) \in 1 .. n
      <4> HIDE DEF step, n
      <4>1. Max(s) \in s
        BY <1>1, <2>1, MaxOfSome
      <4>2. QED
        BY <4>1
    <3>2. f[s \ {Max(s)}] \in Scan
      OBVIOUS
    <3> HIDE DEF base
    <3>3. QED
      BY <3>1, <3>2
  <2> HIDE DEF step, base
  <2>2. QED
    BY <1>1, <1>3, <2>1 DEF Folding
<1>5. Loop(it)
  BY <1>4
<1>6. FoldLeft(LAMBDA a, r : ScanRange(first, last, a, r),
                            [gaps |-> <<>>, cursor |-> first], q) = it[DOMAIN q]
  BY DEF FoldLeft, MapThenFoldSet
<1> HIDE DEF it, step, base
<1>7. it[{}] = base
  BY <1>5
<1>8. ASSUME NEW k \in 1 .. n
      PROVE  it[1 .. k] = ScanRange(first, last, it[1 .. k - 1], q[k])
  <2>1. /\ 1 .. k \in SUBSET (1 .. n) /\ 1 .. k # {} /\ Max(1 .. k) = k
        /\ (1 .. k) \ {k} = 1 .. k - 1
    BY <1>1, PrefixOf
  <2> HIDE DEF n
  <2>2. it = [s \in SUBSET DOMAIN q |->
                IF s = {} THEN base
                ELSE ScanRange(first, last, it[s \ {Max(s)}], q[Max(s)])]
    BY <1>5
  <2>3. it[1 .. k] = ScanRange(first, last, it[(1 .. k) \ {Max(1 .. k)}], q[Max(1 .. k)])
    BY <1>1, <2>1, <2>2
  <2>4. QED
    BY <2>1, <2>3
<1>9. QED
  <2> DEFINE h == [k \in 0 .. n |-> it[1 .. k]]
  <2>1. h[0] = base
    BY <1>1, <1>7, PrefixOf
  <2>2. \A k \in 1 .. n : h[k] = ScanRange(first, last, h[k - 1], q[k])
    <3>1. ASSUME NEW k \in 1 .. n
          PROVE  h[k] = it[1 .. k] /\ h[k - 1] = it[1 .. k - 1]
      BY <1>1
    <3> HIDE DEF h
    <3>2. QED
      BY <1>8, <3>1
  <2>3. h[n] = it[DOMAIN q]
    BY <1>1
  <2> HIDE DEF h
  <2>4. QED
    BY <1>6, <2>1, <2>2, <2>3 DEF base

\* MissingRanges, with the turn of its fold written out.
LEMMA MissingIs ==
  ASSUME NEW first, NEW last, NEW q
  PROVE  MissingRanges(first, last, q) =
           LET scanned == FoldLeft(LAMBDA a, r : ScanRange(first, last, a, r),
                                   [gaps |-> <<>>, cursor |-> first], MergeRanges(q))
           IN  IF last < first THEN <<>>
               ELSE IF scanned.cursor <= last
                    THEN Append(scanned.gaps, [start |-> scanned.cursor, end |-> last])
                    ELSE scanned.gaps
  BY DEF MissingRanges

\* What the scan has done once the bytes of B are behind it.
Scanned(first, last, a, B) ==
  /\ a \in Scan /\ Apart(a.gaps)
  /\ first <= a.cursor /\ a.cursor <= last + 1
  /\ a.gaps # <<>> => Last(a.gaps).end + 1 < a.cursor
  /\ \A b \in B : first <= b /\ b <= last => b < a.cursor
  /\ \A b : b \in RangeBytes(a.gaps) <=> b \in Int /\ first <= b /\ b < a.cursor /\ b \notin B

\* One turn of the scanning loop: what was scanned before it, and the range.
LEMMA ScanStep ==
  ASSUME NEW first \in Int, NEW last \in Int, first <= last, NEW a, NEW B, B \subseteq Int,
         Scanned(first, last, a, B), NEW r \in Rng, r.start <= r.end,
         a.cursor = first \/ a.cursor <= r.start
  PROVE  LET m == ScanRange(first, last, a, r)
         IN  /\ Scanned(first, last, m, B \union PieceBytes(r))
             /\ m.cursor = a.cursor \/ m.cursor <= r.end + 1
<1> DEFINE c == ClampRange(r, first, last)
           C == PieceBytes(r)
<1>1. /\ a \in Scan /\ Apart(a.gaps)
      /\ first <= a.cursor /\ a.cursor <= last + 1
      /\ a.gaps # <<>> => Last(a.gaps).end + 1 < a.cursor
      /\ \A b \in B : first <= b /\ b <= last => b < a.cursor
      /\ \A b : b \in RangeBytes(a.gaps) <=> b \in Int /\ first <= b /\ b < a.cursor /\ b \notin B
  BY DEF Scanned
<1>2. a.gaps \in Seq(Rng) /\ a.cursor \in Int /\ r.start \in Int /\ r.end \in Int
  BY <1>1, ScanFields, RngFields
<1>3. \A b : b \in C <=> b \in Int /\ r.start <= b /\ b <= r.end
  BY <1>2 DEF PieceBytes
<1>4. /\ c \in Rng /\ c.start \in Int /\ c.end \in Int
      /\ first <= c.start /\ c.end <= last /\ r.start <= c.start /\ c.end <= r.end
      /\ c.start = first \/ c.start = r.start
      /\ c.end = last \/ c.end = r.end
      /\ Overlaps(r, first, last) <=> first <= r.end /\ r.start <= last
  BY Clamped, RngFields
<1>5. ScanRange(first, last, a, r) =
        IF ~Overlaps(r, first, last) THEN a
        ELSE [gaps |-> IF a.cursor < c.start
                       THEN Append(a.gaps, [start |-> a.cursor, end |-> c.start - 1])
                       ELSE a.gaps,
              cursor |-> IF c.end + 1 > a.cursor THEN c.end + 1 ELSE a.cursor]
  BY DEF ScanRange
<1> HIDE DEF c, C
<1>6. CASE ~Overlaps(r, first, last)
  <2>1. \A b \in Int : first <= b /\ b <= last => b \notin C
    BY <1>2, <1>3, <1>4, <1>6
  <2>2. \A b \in B \union C : first <= b /\ b <= last => b < a.cursor
    BY <1>1, <1>3, <2>1
  <2>3. ASSUME NEW b
        PROVE  b \in RangeBytes(a.gaps)
               <=> b \in Int /\ first <= b /\ b < a.cursor /\ b \notin B \union C
    <3>1. b \in Int /\ b < a.cursor => b <= last
      BY <1>1, <1>2
    <3>2. QED
      BY <1>1, <2>1, <3>1
  <2>4. Scanned(first, last, a, B \union C)
    BY <1>1, <2>2, <2>3 DEF Scanned
  <2>5. QED
    BY <1>5, <1>6, <2>4 DEF C
<1>7. CASE Overlaps(r, first, last)
  <2> DEFINE gap == [start |-> a.cursor, end |-> c.start - 1]
             gaps == IF a.cursor < c.start THEN Append(a.gaps, gap) ELSE a.gaps
             m == [gaps |-> gaps, cursor |-> c.end + 1]
  <2>1. c.start <= c.end /\ a.cursor <= c.start
    BY <1>1, <1>2, <1>4, <1>7
  <2>2. ScanRange(first, last, a, r) = m
    <3>1. c.end + 1 > a.cursor
      BY <1>2, <1>4, <2>1
    <3>2. QED
      BY <1>5, <1>7, <3>1
  <2>3. gap \in Rng /\ gap.start = a.cursor /\ gap.end = c.start - 1
    BY <1>2, <1>4, RngFields
  <2> HIDE DEF gap
  <2>4. /\ gaps \in Seq(Rng) /\ Apart(gaps) /\ (gaps # <<>> => Last(gaps).end + 1 < c.end + 1)
        /\ \A b : b \in RangeBytes(gaps)
             <=> b \in RangeBytes(a.gaps) \/ (b \in Int /\ a.cursor <= b /\ b < c.start)
    <3>1. CASE a.cursor < c.start
      <4>1. gap.start <= gap.end
        BY <1>2, <1>4, <2>3, <3>1
      <4>2. /\ Append(a.gaps, gap) \in Seq(Rng) /\ Apart(Append(a.gaps, gap))
            /\ Last(Append(a.gaps, gap)) = gap
        BY <1>1, <1>2, <2>3, <4>1, AppendApart
      <4>3. \A b : b \in RangeBytes(Append(a.gaps, gap))
                     <=> b \in RangeBytes(a.gaps) \/ b \in PieceBytes(gap)
        BY <1>2, <2>3, AppendBytes
      <4>4. \A b : b \in PieceBytes(gap) <=> b \in Int /\ a.cursor <= b /\ b < c.start
        BY <1>2, <1>4, <2>3 DEF PieceBytes
      <4>5. gap.end + 1 < c.end + 1
        BY <1>4, <2>1, <2>3
      <4>6. gaps = Append(a.gaps, gap)
        BY <3>1
      <4> HIDE DEF gaps
      <4>7. QED
        BY <4>2, <4>3, <4>4, <4>5, <4>6
    <3>2. CASE ~(a.cursor < c.start)
      <4>1. gaps = a.gaps
        BY <3>2
      <4> HIDE DEF gaps
      <4>2. gaps # <<>> => Last(gaps).end + 1 < c.end + 1
        <5>1. SUFFICES ASSUME gaps # <<>> PROVE Last(gaps).end + 1 < c.end + 1
          OBVIOUS
        <5>2. Last(gaps).end \in Int
          BY <1>2, <4>1, <5>1, LastOf
        <5>3. Last(gaps).end + 1 < a.cursor
          BY <1>1, <4>1, <5>1
        <5>4. QED
          BY <1>2, <1>4, <2>1, <5>2, <5>3
      <4>3. \A b \in Int : ~(a.cursor <= b /\ b < c.start)
        BY <1>2, <1>4, <3>2
      <4>4. QED
        BY <1>1, <1>2, <4>1, <4>2, <4>3
    <3>3. QED
      BY <3>1, <3>2
  <2> HIDE DEF gaps
  <2>5. m \in Scan /\ m.gaps = gaps /\ m.cursor = c.end + 1
    BY <1>4, <2>4, ScanFields
  <2> HIDE DEF m
  <2>6. \A b \in B \union C : first <= b /\ b <= last => b < c.end + 1
    <3>1. ASSUME NEW b \in Int, first <= b, b <= last, b \in B
          PROVE  b < c.end + 1
      <4>1. b < a.cursor
        BY <1>1, <3>1
      <4>2. QED
        BY <1>2, <1>4, <2>1, <4>1
    <3>2. ASSUME NEW b \in Int, first <= b, b <= last, b \in C
          PROVE  b < c.end + 1
      <4>1. r.start <= b /\ b <= r.end
        BY <1>3, <3>2
      <4>2. QED
        BY <1>2, <1>4, <3>2, <4>1
    <3>3. \A b \in B \union C : b \in Int
      BY <1>3
    <3>4. QED
      BY <3>1, <3>2, <3>3
  <2>7. ASSUME NEW b \in Int
        PROVE  (first <= b /\ b < a.cursor /\ b \notin B) \/ (a.cursor <= b /\ b < c.start)
               <=> first <= b /\ b < c.end + 1 /\ b \notin B \union C
    <3>1. b \in C <=> r.start <= b /\ b <= r.end
      BY <1>3
    <3>2. b \in B /\ first <= b /\ b <= last => b < a.cursor
      BY <1>1
    <3>3. CASE b < a.cursor
      BY <1>2, <1>4, <2>1, <3>1, <3>3
    <3>4. CASE a.cursor <= b
      BY <1>1, <1>2, <1>4, <2>1, <3>1, <3>2, <3>4
    <3>5. QED
      BY <1>2, <3>3, <3>4
  <2>8. Scanned(first, last, m, B \union C)
    <3>1. first <= c.end + 1 /\ c.end + 1 <= last + 1
      BY <1>2, <1>4, <2>1
    <3>2. \A b : b \in RangeBytes(gaps)
                   <=> b \in Int /\ first <= b /\ b < c.end + 1 /\ b \notin B \union C
      BY <1>1, <2>4, <2>7
    <3>3. QED
      BY <2>4, <2>5, <2>6, <3>1, <3>2 DEF Scanned
  <2>9. m.cursor <= r.end + 1
    BY <1>2, <1>4, <2>5
  <2>10. QED
    BY <2>2, <2>8, <2>9 DEF C
<1>8. QED
  BY <1>6, <1>7

(***************************************************************************)
(* MissingRanges gives exactly the bytes of first .. last that the ranges  *)
(* leave out, whatever their order and overlaps, as maximal gaps.          *)
(***************************************************************************)
THEOREM MissingIsExact ==
  ASSUME NEW first \in Int, NEW last \in Int, NEW q \in Seq(Rng)
  PROVE  /\ MissingRanges(first, last, q) \in Seq(Rng)
         /\ Apart(MissingRanges(first, last, q))
         /\ RangeBytes(MissingRanges(first, last, q)) = (first .. last) \ RangeBytes(q)
<1> DEFINE s == MergeRanges(q)
           n == Len(s)
           scanned == FoldLeft(LAMBDA a, r : ScanRange(first, last, a, r),
                               [gaps |-> <<>>, cursor |-> first], s)
           Behind(k) == UNION {PieceBytes(s[i]) : i \in 1 .. k}
<1>1. s \in Seq(Rng) /\ Apart(s) /\ RangeBytes(s) = RangeBytes(q)
  BY MergeIsExact
<1>2. MissingRanges(first, last, q) =
        IF last < first THEN <<>>
        ELSE IF scanned.cursor <= last
             THEN Append(scanned.gaps, [start |-> scanned.cursor, end |-> last])
             ELSE scanned.gaps
  BY MissingIs
<1> HIDE DEF s
<1>3. PICK h : /\ h[0] = [gaps |-> <<>>, cursor |-> first]
               /\ \A k \in 1 .. n : h[k] = ScanRange(first, last, h[k - 1], s[k])
               /\ scanned = h[n]
  BY <1>1, ScanTurns, ZenonT(40)
<1> HIDE DEF scanned
<1>4. n \in Nat /\ \A k \in 1 .. n : s[k] \in Rng /\ s[k].start \in Int /\ s[k].end \in Int
  BY <1>1, LenProperties, ElementOfSeq, RngFields
<1>5. /\ \A k \in 1 .. n : s[k].start <= s[k].end
      /\ \A k \in 1 .. n - 1 : s[k].end + 1 < s[k + 1].start
  BY <1>1 DEF Apart
<1>6. \A b : b \in RangeBytes(s) <=> b \in Behind(n)
  BY <1>1, <1>4, BytesOf DEF PieceBytes
<1> HIDE DEF n
<1>7. Apart(<<>>) /\ RangeBytes(<<>>) = {} /\ <<>> \in Seq(Rng)
  <2>1. Len(<<>>) = 0 /\ DOMAIN <<>> = {} /\ <<>> \in Seq(Rng)
    OBVIOUS
  <2>2. QED
    BY <2>1 DEF Apart, RangeBytes
<1>8. CASE last < first
  <2>1. first .. last = {}
    BY <1>8
  <2>2. QED
    BY <1>2, <1>7, <1>8, <2>1
<1>9. CASE first <= last
  <2> DEFINE Inv(k) == /\ Scanned(first, last, h[k], Behind(k))
                       /\ h[k].cursor = first \/ (k > 0 /\ h[k].cursor <= s[k].end + 1)
             Good == {k \in 0 .. n : Inv(k)}
  <2>1. 0 \in Good
    <3> DEFINE a == [gaps |-> <<>>, cursor |-> first]
    <3>1. a \in Scan /\ a.gaps = <<>> /\ a.cursor = first
      BY <1>7, ScanFields
    <3> HIDE DEF a
    <3>2. Behind(0) = {}
      OBVIOUS
    <3>3. \A b \in Int : ~(first <= b /\ b < first)
      OBVIOUS
    <3>4. Scanned(first, last, a, {})
      BY <1>7, <1>9, <3>1, <3>3 DEF Scanned
    <3>5. h[0] = a
      BY <1>3 DEF a
    <3> HIDE DEF Behind
    <3>6. Inv(0)
      BY <3>1, <3>2, <3>4, <3>5
    <3> HIDE DEF Inv
    <3>7. QED
      BY <1>4, <3>6
  <2>2. ASSUME NEW k \in 0 .. n - 1, k \in Good
        PROVE  k + 1 \in Good
    <3>1. Inv(k)
      BY <2>2
    <3>2. k + 1 \in 1 .. n /\ (k + 1) - 1 = k /\ k + 1 \in 0 .. n /\ k + 1 > 0
      BY <1>4
    <3>3. h[k + 1] = ScanRange(first, last, h[k], s[k + 1])
      BY <1>3, <3>2
    <3>4. Behind(k + 1) = Behind(k) \union PieceBytes(s[k + 1])
      <4>1. \A i \in 1 .. k + 1 : i \in 1 .. k \/ i = k + 1
        OBVIOUS
      <4>2. \A i \in 1 .. k : i \in 1 .. k + 1
        OBVIOUS
      <4>3. k + 1 \in 1 .. k + 1
        OBVIOUS
      <4>4. QED
        BY <4>1, <4>2, <4>3
    <3>5. Behind(k) \subseteq Int
      BY DEF PieceBytes
    <3> HIDE DEF Behind
    <3>6. h[k].cursor \in Int
      BY <3>1, ScanFields DEF Scanned
    <3>7. h[k].cursor = first \/ h[k].cursor <= s[k + 1].start
      <4>1. SUFFICES ASSUME k > 0, h[k].cursor <= s[k].end + 1
                     PROVE  h[k].cursor <= s[k + 1].start
        BY <3>1
      <4>2. k \in 1 .. n - 1 /\ k \in 1 .. n
        BY <1>4, <4>1
      <4>3. s[k].end + 1 < s[k + 1].start
        BY <1>5, <4>2
      <4>4. QED
        BY <1>4, <3>2, <3>6, <4>1, <4>2, <4>3, SMTT(30)
    <3>8. s[k + 1] \in Rng /\ s[k + 1].start <= s[k + 1].end
      BY <1>4, <1>5, <3>2
    <3>9. /\ Scanned(first, last, h[k + 1], Behind(k) \union PieceBytes(s[k + 1]))
          /\ h[k + 1].cursor = h[k].cursor \/ h[k + 1].cursor <= s[k + 1].end + 1
      <4>1. Scanned(first, last, h[k], Behind(k))
        BY <3>1
      <4>2. PICK a, B, r : a = h[k] /\ B = Behind(k) /\ r = s[k + 1]
        OBVIOUS
      <4> HIDE DEF Inv
      <4>3. /\ B \subseteq Int /\ Scanned(first, last, a, B) /\ r \in Rng /\ r.start <= r.end
            /\ a.cursor = first \/ a.cursor <= r.start
        BY <3>5, <3>7, <3>8, <4>1, <4>2
      <4>4. /\ Scanned(first, last, ScanRange(first, last, a, r), B \union PieceBytes(r))
            /\ \/ ScanRange(first, last, a, r).cursor = a.cursor
               \/ ScanRange(first, last, a, r).cursor <= r.end + 1
        BY <1>9, <4>3, ScanStep
      <4>5. QED
        BY <3>3, <4>2, <4>4
    <3>10. h[k + 1].cursor = first \/ h[k + 1].cursor <= s[k + 1].end + 1
      <4>1. SUFFICES ASSUME h[k + 1].cursor = h[k].cursor, h[k].cursor # first
                     PROVE  h[k + 1].cursor <= s[k + 1].end + 1
        BY <3>9
      <4>2. h[k].cursor <= s[k + 1].start
        BY <3>7, <4>1
      <4>3. QED
        BY <1>4, <3>2, <3>6, <3>8, <4>1, <4>2, SMTT(30)
    <3>11. Inv(k + 1)
      BY <3>2, <3>4, <3>9, <3>10
    <3> HIDE DEF Inv
    <3>12. QED
      BY <3>2, <3>11
  <2>3. Scanned(first, last, h[n], Behind(n))
    <3>1. \A k \in 0 .. n : k \in Good
      <4> HIDE DEF Good
      <4>1. QED
        BY <1>4, <2>1, <2>2, Induct
    <3> HIDE DEF Behind
    <3>2. QED
      BY <1>4, <3>1
  <2> DEFINE a == h[n]
             B == Behind(n)
  <2>4. /\ a \in Scan /\ Apart(a.gaps)
        /\ first <= a.cursor /\ a.cursor <= last + 1
        /\ a.gaps # <<>> => Last(a.gaps).end + 1 < a.cursor
        /\ \A b \in B : first <= b /\ b <= last => b < a.cursor
        /\ \A b : b \in RangeBytes(a.gaps)
             <=> b \in Int /\ first <= b /\ b < a.cursor /\ b \notin B
    BY <2>3 DEF Scanned
  <2>5. \A b : b \in RangeBytes(q) <=> b \in B
    BY <1>1, <1>6
  <2>6. MissingRanges(first, last, q) =
          IF a.cursor <= last THEN Append(a.gaps, [start |-> a.cursor, end |-> last]) ELSE a.gaps
    BY <1>2, <1>3, <1>9
  <2> HIDE DEF a, B
  <2>7. a.gaps \in Seq(Rng) /\ a.cursor \in Int
    BY <2>4, ScanFields
  <2>8. CASE a.cursor <= last
    <3> DEFINE gap == [start |-> a.cursor, end |-> last]
    <3>1. gap \in Rng /\ gap.start = a.cursor /\ gap.end = last
      BY <2>7, RngFields
    <3> HIDE DEF gap
    <3>2. Append(a.gaps, gap) \in Seq(Rng) /\ Apart(Append(a.gaps, gap))
      BY <2>4, <2>7, <2>8, <3>1, AppendApart
    <3>3. \A b : b \in PieceBytes(gap) <=> b \in Int /\ a.cursor <= b /\ b <= last
      BY <2>7, <3>1 DEF PieceBytes
    <3>4. ASSUME NEW b
          PROVE  b \in RangeBytes(Append(a.gaps, gap)) <=> b \in (first .. last) \ RangeBytes(q)
      <4>1. b \in RangeBytes(Append(a.gaps, gap))
              <=> b \in RangeBytes(a.gaps) \/ b \in PieceBytes(gap)
        BY <2>7, <3>1, AppendBytes
      <4>2. b \in B /\ first <= b /\ b <= last => b < a.cursor
        BY <2>4
      <4>3. ASSUME b \in Int
            PROVE  (first <= b /\ b < a.cursor /\ b \notin B) \/ (a.cursor <= b /\ b <= last)
                   <=> first <= b /\ b <= last /\ b \notin B
        BY <2>4, <2>7, <2>8, <4>2, <4>3
      <4>4. QED
        BY <2>4, <2>5, <3>3, <4>1, <4>3
    <3>5. MissingRanges(first, last, q) = Append(a.gaps, gap)
      BY <2>6, <2>8 DEF gap
    <3>6. RangeBytes(Append(a.gaps, gap)) = (first .. last) \ RangeBytes(q)
      BY <3>4
    <3>7. QED
      BY <3>2, <3>5, <3>6
  <2>9. CASE ~(a.cursor <= last)
    <3>1. ASSUME NEW b
          PROVE  b \in RangeBytes(a.gaps) <=> b \in (first .. last) \ RangeBytes(q)
      <4>1. b \in Int => (b < a.cursor <=> b <= last)
        BY <2>4, <2>7, <2>9
      <4>2. QED
        BY <2>4, <2>5, <4>1
    <3>2. RangeBytes(a.gaps) = (first .. last) \ RangeBytes(q)
      BY <3>1
    <3>3. QED
      BY <2>4, <2>6, <2>7, <2>9, <3>2
  <2>10. QED
    BY <2>8, <2>9
<1>10. QED
  BY <1>8, <1>9

(***************************************************************************)
(* The length of canonical ranges is the number of their bytes.            *)
(***************************************************************************)
LEMMA AddType ==
  ASSUME NEW t \in Int, NEW r \in Rng
  PROVE  AddLength(t, r) \in Int
  BY RngFields DEF AddLength

\* The sum of the lengths, turn by turn.
LEMMA AddTurns ==
  ASSUME NEW q \in Seq(Rng)
  PROVE  \E h : /\ h[0] = 0
                /\ \A k \in 1 .. Len(q) : h[k] = AddLength(h[k - 1], q[k])
                /\ FoldLeft(AddLength, 0, q) = h[Len(q)]
<1> DEFINE n == Len(q)
           base == 0
           step == [p \in Int \X (1 .. n) |-> AddLength(p[1], q[p[2]])]
           Loop(iter) == iter = [s \in SUBSET DOMAIN q |->
                                   IF s = {} THEN base
                                   ELSE LET x == Max(s)
                                        IN  AddLength(iter[s \ {x}], q[x])]
           it == CHOOSE iter : Loop(iter)
<1>1. n \in Nat /\ DOMAIN q = 1 .. n /\ \A i \in 1 .. n : q[i] \in Rng
  BY LenProperties, ElementOfSeq
<1>2. step \in [Int \X (1 .. n) -> Int]
  BY <1>1, AddType
<1>3. PICK f \in [SUBSET (1 .. n) -> Int] : Folding(n, base, step, f)
  <2>1. base \in Int
    OBVIOUS
  <2> HIDE DEF step, n, base
  <2>2. QED
    BY <1>1, <1>2, <2>1, FoldExists
<1>4. Loop(f)
  <2>1. ASSUME NEW s \in SUBSET (1 .. n), s # {}
        PROVE  step[<<f[s \ {Max(s)}], Max(s)>>] = AddLength(f[s \ {Max(s)}], q[Max(s)])
    <3>1. Max(s) \in 1 .. n
      <4> HIDE DEF step, n
      <4>1. Max(s) \in s
        BY <1>1, <2>1, MaxOfSome
      <4>2. QED
        BY <4>1
    <3>2. f[s \ {Max(s)}] \in Int
      OBVIOUS
    <3> HIDE DEF base
    <3>3. QED
      BY <3>1, <3>2
  <2> HIDE DEF step, base
  <2>2. QED
    BY <1>1, <1>3, <2>1 DEF Folding
<1>5. Loop(it)
  BY <1>4
<1>6. FoldLeft(AddLength, 0, q) = it[DOMAIN q]
  BY DEF FoldLeft, MapThenFoldSet
<1> HIDE DEF it, step, base
<1>7. it[{}] = base
  BY <1>5
<1>8. ASSUME NEW k \in 1 .. n
      PROVE  it[1 .. k] = AddLength(it[1 .. k - 1], q[k])
  <2>1. /\ 1 .. k \in SUBSET (1 .. n) /\ 1 .. k # {} /\ Max(1 .. k) = k
        /\ (1 .. k) \ {k} = 1 .. k - 1
    BY <1>1, PrefixOf
  <2> HIDE DEF n
  <2>2. it = [s \in SUBSET DOMAIN q |->
                IF s = {} THEN base
                ELSE AddLength(it[s \ {Max(s)}], q[Max(s)])]
    BY <1>5
  <2>3. it[1 .. k] = AddLength(it[(1 .. k) \ {Max(1 .. k)}], q[Max(1 .. k)])
    BY <1>1, <2>1, <2>2
  <2>4. QED
    BY <2>1, <2>3
<1>9. QED
  <2> DEFINE h == [k \in 0 .. n |-> it[1 .. k]]
  <2>1. h[0] = base
    BY <1>1, <1>7, PrefixOf
  <2>2. \A k \in 1 .. n : h[k] = AddLength(h[k - 1], q[k])
    <3>1. ASSUME NEW k \in 1 .. n
          PROVE  h[k] = it[1 .. k] /\ h[k - 1] = it[1 .. k - 1]
      BY <1>1
    <3> HIDE DEF h
    <3>2. QED
      BY <1>8, <3>1
  <2>3. h[n] = it[DOMAIN q]
    BY <1>1
  <2> HIDE DEF h
  <2>4. QED
    BY <1>6, <2>1, <2>2, <2>3 DEF base

(***************************************************************************)
(* Of ranges that ascend apart from each other, the lengths add up to the  *)
(* number of bytes (the byte count of NormalizeChunk).                     *)
(***************************************************************************)
THEOREM LengthsAreExact ==
  ASSUME NEW q \in Seq(Rng), Apart(q)
  PROVE  /\ IsFiniteSet(RangeBytes(q))
         /\ SumLengths(q) = Cardinality(RangeBytes(q))
<1> DEFINE n == Len(q)
           Behind(k) == UNION {PieceBytes(q[i]) : i \in 1 .. k}
<1>1. n \in Nat /\ \A k \in 1 .. n : q[k] \in Rng /\ q[k].start \in Int /\ q[k].end \in Int
  BY LenProperties, ElementOfSeq, RngFields
<1>2. /\ \A k \in 1 .. n : q[k].start <= q[k].end
      /\ \A k \in 1 .. n - 1 : q[k].end + 1 < q[k + 1].start
  BY DEF Apart
<1>3. PICK h : /\ h[0] = 0
               /\ \A k \in 1 .. n : h[k] = AddLength(h[k - 1], q[k])
               /\ FoldLeft(AddLength, 0, q) = h[n]
  BY AddTurns
<1>4. \A b : b \in RangeBytes(q) <=> b \in Behind(n)
  BY <1>1, BytesOf DEF PieceBytes
<1> HIDE DEF n
<1> DEFINE Inv(k) == /\ IsFiniteSet(Behind(k))
                     /\ h[k] = Cardinality(Behind(k))
                     /\ \A b \in Behind(k) : k > 0 /\ b \in Int /\ b <= q[k].end
<1>5. Inv(0)
  <2>1. Behind(0) = {}
    OBVIOUS
  <2> HIDE DEF Behind
  <2>2. IsFiniteSet({}) /\ Cardinality({}) = 0
    BY FS_EmptySet
  <2>3. QED
    BY <1>3, <2>1, <2>2
<1>6. ASSUME NEW k \in 0 .. n - 1, Inv(k)
      PROVE  Inv(k + 1)
  <2> DEFINE r == q[k + 1]
             C == PieceBytes(r)
  <2>1. Inv(k)
    BY <1>6
  <2>2. k + 1 \in 1 .. n /\ (k + 1) - 1 = k /\ k + 1 > 0
    <3>1. n \in Nat
      BY <1>1
    <3> HIDE DEF Inv, Behind
    <3>2. QED
      BY <3>1
  <2>3. h[k + 1] = AddLength(h[k], r)
    BY <1>3, <2>2
  <2>4. Behind(k + 1) = Behind(k) \union C
    <3>1. \A i \in 1 .. k + 1 : i \in 1 .. k \/ i = k + 1
      OBVIOUS
    <3>2. \A i \in 1 .. k : i \in 1 .. k + 1
      OBVIOUS
    <3>3. k + 1 \in 1 .. k + 1
      OBVIOUS
    <3>4. QED
      BY <3>1, <3>2, <3>3
  <2> HIDE DEF Behind
  <2>5. r \in Rng /\ r.start \in Int /\ r.end \in Int /\ r.start <= r.end
    BY <1>1, <1>2, <2>2
  <2> HIDE DEF r
  <2>6. IsFiniteSet(C) /\ Cardinality(C) = r.end - r.start + 1
    BY <2>5, FS_Interval DEF PieceBytes
  <2>7. \A b \in Behind(k) : b < r.start
    <3>1. TAKE b \in Behind(k)
    <3>2. k > 0 /\ b \in Int /\ b <= q[k].end
      BY <2>1
    <3>3. k \in 1 .. n - 1 /\ k \in 1 .. n
      BY <1>1, <3>2
    <3>4. q[k].end + 1 < r.start
      BY <1>2, <3>3 DEF r
    <3>5. QED
      BY <1>1, <2>5, <3>2, <3>3, <3>4
  <2>8. \A b \in C : b \in Int /\ r.start <= b /\ b <= r.end
    BY <2>5 DEF PieceBytes
  <2>9. Behind(k) \intersect C = {}
    <3>1. \A b \in Behind(k) : b \in Int
      BY <2>1
    <3>2. QED
      BY <2>5, <2>7, <2>8, <3>1
  <2> HIDE DEF C
  <2>10. /\ IsFiniteSet(Behind(k) \union C)
         /\ Cardinality(Behind(k) \union C) = Cardinality(Behind(k)) + Cardinality(C)
    <3>1. Cardinality(Behind(k)) \in Nat /\ Cardinality(C) \in Nat /\ IsFiniteSet(Behind(k))
      BY <2>1, <2>6, FS_CardinalityType
    <3>2. Cardinality({}) = 0
      BY FS_EmptySet
    <3>3. /\ IsFiniteSet(Behind(k) \union C)
          /\ Cardinality(Behind(k) \union C)
               = Cardinality(Behind(k)) + Cardinality(C) - Cardinality(Behind(k) \intersect C)
      BY <2>6, <3>1, FS_Union
    <3>4. Cardinality(Behind(k) \intersect C) = 0
      BY <2>9, <3>2
    <3>5. QED
      BY <3>1, <3>3, <3>4
  <2>11. h[k + 1] = Cardinality(Behind(k + 1))
    BY <2>1, <2>3, <2>4, <2>6, <2>10 DEF AddLength
  <2>12. \A b \in Behind(k + 1) : b \in Int /\ b <= r.end
    <3>1. \A b \in Behind(k) : b \in Int /\ b < r.start
      BY <2>1, <2>7
    <3>2. QED
      BY <2>4, <2>5, <2>8, <3>1
  <2>13. QED
    BY <2>2, <2>4, <2>10, <2>11, <2>12 DEF r
<1>7. Inv(n)
  <2> DEFINE Good == {k \in 0 .. n : Inv(k)}
  <2>1. n \in Nat
    BY <1>1
  <2> HIDE DEF Inv
  <2>2. 0 \in Good /\ \A k \in 0 .. n - 1 : k \in Good => k + 1 \in Good
    BY <1>5, <1>6, <2>1
  <2>3. \A k \in 0 .. n : k \in Good
    <3> HIDE DEF Good
    <3>1. QED
      BY <2>1, <2>2, Induct
  <2>4. QED
    BY <2>1, <2>3
<1>8. RangeBytes(q) = Behind(n)
  BY <1>4
<1> HIDE DEF Behind
<1>9. QED
  BY <1>3, <1>7, <1>8 DEF SumLengths

(***************************************************************************)
(* The clamping loop.                                                      *)
(***************************************************************************)
LEMMA KeepType ==
  ASSUME NEW c, c.start \in Int, c.end \in Int, NEW q \in Seq(Rng), NEW r \in Rng
  PROVE  KeepInside(c, q, r) \in Seq(Rng)
<1>1. ClampRange(r, c.start, c.end) \in Rng
  BY Clamped
<1>2. Append(q, ClampRange(r, c.start, c.end)) \in Seq(Rng)
  BY <1>1, AppendProperties
<1>3. QED
  BY <1>2 DEF KeepInside

\* The clamping loop, turn by turn.
LEMMA KeepTurns ==
  ASSUME NEW q \in Seq(Rng), NEW c, c.start \in Int, c.end \in Int
  PROVE  \E h : /\ h[0] = <<>>
                /\ \A k \in 1 .. Len(q) : h[k] = KeepInside(c, h[k - 1], q[k])
                /\ ClampRanges(c, q) = h[Len(q)]
<1> DEFINE n == Len(q)
           base == <<>>
           step == [p \in Seq(Rng) \X (1 .. n) |-> KeepInside(c, p[1], q[p[2]])]
           Loop(iter) == iter = [s \in SUBSET DOMAIN q |->
                                   IF s = {} THEN base
                                   ELSE LET x == Max(s)
                                        IN  KeepInside(c, iter[s \ {x}], q[x])]
           it == CHOOSE iter : Loop(iter)
<1>1. n \in Nat /\ DOMAIN q = 1 .. n /\ \A i \in 1 .. n : q[i] \in Rng
  BY LenProperties, ElementOfSeq
<1>2. step \in [Seq(Rng) \X (1 .. n) -> Seq(Rng)]
  BY <1>1, KeepType
<1>3. PICK f \in [SUBSET (1 .. n) -> Seq(Rng)] : Folding(n, base, step, f)
  <2>1. base \in Seq(Rng)
    OBVIOUS
  <2> HIDE DEF step, n, base
  <2>2. QED
    BY <1>1, <1>2, <2>1, FoldExists
<1>4. Loop(f)
  <2>1. ASSUME NEW s \in SUBSET (1 .. n), s # {}
        PROVE  step[<<f[s \ {Max(s)}], Max(s)>>] = KeepInside(c, f[s \ {Max(s)}], q[Max(s)])
    <3>1. Max(s) \in 1 .. n
      <4> HIDE DEF step, n
      <4>1. Max(s) \in s
        BY <1>1, <2>1, MaxOfSome
      <4>2. QED
        BY <4>1
    <3>2. f[s \ {Max(s)}] \in Seq(Rng)
      OBVIOUS
    <3> HIDE DEF base
    <3>3. QED
      BY <3>1, <3>2
  <2> HIDE DEF step, base
  <2>2. QED
    BY <1>1, <1>3, <2>1 DEF Folding
<1>5. Loop(it)
  BY <1>4
<1>6. ClampRanges(c, q) = it[DOMAIN q]
  BY DEF ClampRanges, FoldLeft, MapThenFoldSet
<1> HIDE DEF it, step, base
<1>7. it[{}] = base
  BY <1>5
<1>8. ASSUME NEW k \in 1 .. n
      PROVE  it[1 .. k] = KeepInside(c, it[1 .. k - 1], q[k])
  <2>1. /\ 1 .. k \in SUBSET (1 .. n) /\ 1 .. k # {} /\ Max(1 .. k) = k
        /\ (1 .. k) \ {k} = 1 .. k - 1
    BY <1>1, PrefixOf
  <2> HIDE DEF n
  <2>2. it = [s \in SUBSET DOMAIN q |->
                IF s = {} THEN base
                ELSE KeepInside(c, it[s \ {Max(s)}], q[Max(s)])]
    BY <1>5
  <2>3. it[1 .. k] = KeepInside(c, it[(1 .. k) \ {Max(1 .. k)}], q[Max(1 .. k)])
    BY <1>1, <2>1, <2>2
  <2>4. QED
    BY <2>1, <2>3
<1>9. QED
  <2> DEFINE h == [k \in 0 .. n |-> it[1 .. k]]
  <2>1. h[0] = base
    BY <1>1, <1>7, PrefixOf
  <2>2. \A k \in 1 .. n : h[k] = KeepInside(c, h[k - 1], q[k])
    <3>1. ASSUME NEW k \in 1 .. n
          PROVE  h[k] = it[1 .. k] /\ h[k - 1] = it[1 .. k - 1]
      BY <1>1
    <3> HIDE DEF h
    <3>2. QED
      BY <1>8, <3>1
  <2>3. h[n] = it[DOMAIN q]
    BY <1>1
  <2> HIDE DEF h
  <2>4. QED
    BY <1>6, <2>1, <2>2, <2>3 DEF base

\* The clamping loop keeps exactly the bytes that are inside the chunk.
LEMMA KeepIsExact ==
  ASSUME NEW q \in Seq(Rng), NEW c, c.start \in Int, c.end \in Int
  PROVE  /\ ClampRanges(c, q) \in Seq(Rng)
         /\ RangeBytes(ClampRanges(c, q)) = RangeBytes(q) \intersect PieceBytes(c)
<1> DEFINE n == Len(q)
           all == ClampRanges(c, q)
           Behind(k) == UNION {PieceBytes(q[i]) : i \in 1 .. k}
<1>1. n \in Nat /\ \A k \in 1 .. n : q[k] \in Rng
  BY LenProperties, ElementOfSeq
<1>2. PICK h : /\ h[0] = <<>>
               /\ \A k \in 1 .. n : h[k] = KeepInside(c, h[k - 1], q[k])
               /\ all = h[n]
  BY KeepTurns
<1> HIDE DEF all
<1>3. \A b : b \in RangeBytes(q) <=> b \in Behind(n)
  <2>1. \A k \in 1 .. n : q[k].start \in Int /\ q[k].end \in Int
    BY <1>1, RngFields
  <2>2. QED
    BY <1>1, <2>1, BytesOf DEF PieceBytes
<1> HIDE DEF n
<1> DEFINE Inv(k) == /\ h[k] \in Seq(Rng)
                     /\ \A b : b \in RangeBytes(h[k]) <=> b \in Behind(k) /\ b \in PieceBytes(c)
<1>4. Inv(0)
  <2>1. Behind(0) = {} /\ <<>> \in Seq(Rng) /\ DOMAIN <<>> = {}
    OBVIOUS
  <2>2. RangeBytes(<<>>) = {}
    BY <2>1 DEF RangeBytes
  <2> HIDE DEF Behind
  <2>3. QED
    BY <1>2, <2>1, <2>2
<1>5. ASSUME NEW k \in 0 .. n - 1, Inv(k)
      PROVE  Inv(k + 1)
  <2> DEFINE r == q[k + 1]
             x == ClampRange(r, c.start, c.end)
  <2>1. Inv(k)
    BY <1>5
  <2>2. k + 1 \in 1 .. n /\ (k + 1) - 1 = k /\ k + 1 \in 0 .. n
    BY <1>1
  <2>3. h[k + 1] = KeepInside(c, h[k], r)
    BY <1>2, <2>2
  <2>4. Behind(k + 1) = Behind(k) \union PieceBytes(r)
    <3>1. \A i \in 1 .. k + 1 : i \in 1 .. k \/ i = k + 1
      OBVIOUS
    <3>2. \A i \in 1 .. k : i \in 1 .. k + 1
      OBVIOUS
    <3>3. k + 1 \in 1 .. k + 1
      OBVIOUS
    <3>4. QED
      BY <3>1, <3>2, <3>3
  <2> HIDE DEF Behind
  <2>5. r \in Rng /\ r.start \in Int /\ r.end \in Int
    BY <1>1, <2>2, RngFields
  <2> HIDE DEF r
  <2>6. /\ x \in Rng
        /\ Overlaps(r, c.start, c.end) <=> c.start <= r.end /\ r.start <= c.end
        /\ \A b \in Int : b \in PieceBytes(x) <=> b \in PieceBytes(r) /\ c.start <= b /\ b <= c.end
    BY <2>5, Clamped
  <2>7. \A b : b \in PieceBytes(x) \/ b \in PieceBytes(r) \/ b \in PieceBytes(c) => b \in Int
    <3>1. x.start \in Int /\ x.end \in Int
      BY <2>6, RngFields
    <3>2. QED
      BY <2>5, <3>1 DEF PieceBytes
  <2>8. \A b \in Int : /\ b \in PieceBytes(c) <=> c.start <= b /\ b <= c.end
                       /\ b \in PieceBytes(r) <=> r.start <= b /\ b <= r.end
    BY <2>5 DEF PieceBytes
  <2> HIDE DEF x
  <2>9. CASE Overlaps(r, c.start, c.end) /\ NonEmptyRange(x)
    <3>1. h[k + 1] = Append(h[k], x)
      BY <2>3, <2>9 DEF KeepInside, x
    <3>2. h[k + 1] \in Seq(Rng)
      BY <2>1, <2>6, <3>1, AppendProperties
    <3>3. \A b : b \in RangeBytes(h[k + 1]) <=> b \in RangeBytes(h[k]) \/ b \in PieceBytes(x)
      BY <2>1, <2>6, <3>1, AppendBytes
    <3>4. \A b : b \in PieceBytes(x) <=> b \in PieceBytes(r) /\ b \in PieceBytes(c)
      BY <2>6, <2>7, <2>8
    <3>5. \A b : b \in RangeBytes(h[k + 1]) <=> b \in Behind(k + 1) /\ b \in PieceBytes(c)
      BY <2>1, <2>4, <3>3, <3>4
    <3>6. QED
      BY <3>2, <3>5
  <2>10. CASE ~(Overlaps(r, c.start, c.end) /\ NonEmptyRange(x))
    <3>1. h[k + 1] = h[k]
      BY <2>3, <2>10 DEF KeepInside, x
    <3>2. ASSUME NEW b, b \in PieceBytes(r), b \in PieceBytes(c)
          PROVE  FALSE
      <4>1. Overlaps(r, c.start, c.end)
        BY <2>5, <2>6, <2>7, <2>8, <3>2
      <4>2. b \in PieceBytes(x) /\ x.start \in Int /\ x.end \in Int
        BY <2>6, <2>7, <2>8, <3>2, RngFields
      <4>3. NonEmptyRange(x)
        BY <4>2 DEF PieceBytes, NonEmptyRange
      <4>4. QED
        BY <2>10, <4>1, <4>3
    <3>3. \A b : b \in RangeBytes(h[k + 1]) <=> b \in Behind(k + 1) /\ b \in PieceBytes(c)
      BY <2>1, <2>4, <3>1, <3>2
    <3>4. QED
      BY <2>1, <3>1, <3>3
  <2>11. QED
    BY <2>9, <2>10
<1>6. Inv(n)
  <2> DEFINE Good == {k \in 0 .. n : Inv(k)}
  <2>1. n \in Nat
    BY <1>1
  <2> HIDE DEF Inv
  <2>2. 0 \in Good /\ \A k \in 0 .. n - 1 : k \in Good => k + 1 \in Good
    BY <1>4, <1>5, <2>1
  <2>3. \A k \in 0 .. n : k \in Good
    <3> HIDE DEF Good
    <3>1. QED
      BY <2>1, <2>2, Induct
  <2>4. QED
    BY <2>1, <2>3
<1> HIDE DEF Behind
<1>7. RangeBytes(all) = RangeBytes(q) \intersect PieceBytes(c)
  BY <1>2, <1>3, <1>6
<1>8. QED
  BY <1>2, <1>6, <1>7 DEF all

(***************************************************************************)
(* NormalizeChunk.                                                         *)
(***************************************************************************)
LEMMA ChunkFields ==
  ASSUME NEW c \in ChunkRecord
  PROVE  /\ c.start \in Int /\ c.end \in Int /\ c.downloadedBytes \in Nat /\ c.done \in BOOLEAN
         /\ c.completedRanges \in Seq(Rng)
  BY DEF ChunkRecord, Rng

\* No ranges hold no bytes, and only they do.
LEMMA NoRanges ==
  /\ <<>> \in Seq(Rng) /\ Apart(<<>>) /\ RangeBytes(<<>>) = {}
  /\ \A q \in Seq(Rng) : Apart(q) /\ RangeBytes(q) = {} => q = <<>>
<1>1. Len(<<>>) = 0 /\ DOMAIN <<>> = {} /\ <<>> \in Seq(Rng)
  OBVIOUS
<1>2. ASSUME NEW q \in Seq(Rng), Apart(q), q # <<>>
      PROVE  RangeBytes(q) # {}
  <2>1. Len(q) \in 1 .. Len(q) /\ q[Len(q)].start \in Int
    BY <1>2, LastOf
  <2>2. q[Len(q)].start <= q[Len(q)].end
    BY <1>2, <2>1 DEF Apart
  <2>3. q[Len(q)].start \in RangeBytes(q)
    BY <2>1, <2>2, BytesOf
  <2>4. QED
    BY <2>3
<1>3. QED
  BY <1>1, <1>2 DEF Apart, RangeBytes

\* A chunk is covered when its ranges leave no byte of it out.
LEMMA CoverIsExact ==
  ASSUME NEW first \in Int, NEW last \in Int, NEW q \in Seq(Rng)
  PROVE  RangesCover(first, last, q) <=> first .. last \subseteq RangeBytes(q)
<1> DEFINE g == MissingRanges(first, last, q)
<1>1. g \in Seq(Rng) /\ Apart(g) /\ RangeBytes(g) = (first .. last) \ RangeBytes(q)
  BY MissingIsExact
<1>2. RangesCover(first, last, q) <=> g = <<>>
  BY DEF RangesCover
<1> HIDE DEF g
<1>3. g = <<>> <=> RangeBytes(g) = {}
  BY <1>1, NoRanges
<1>4. QED
  BY <1>1, <1>2, <1>3

\* The ranges a chunk goes by: its own, or a prefix of it.
LEMMA LegacyIs ==
  ASSUME NEW c \in ChunkRecord
  PROVE  /\ LegacyRanges(c) \in Seq(Rng)
         /\ c.completedRanges # <<>> \/ c.downloadedBytes = 0 => LegacyRanges(c) = c.completedRanges
         /\ LegacyRanges(c) = c.completedRanges
            \/ \E r \in Rng : /\ LegacyRanges(c) = <<r>>
                              /\ r = ClampRange([start |-> c.start, end |-> c.start + c.downloadedBytes - 1],
                                                c.start, c.end)
<1> DEFINE x == [start |-> c.start, end |-> c.start + c.downloadedBytes - 1]
           r == ClampRange(x, c.start, c.end)
<1>1. /\ c.start \in Int /\ c.end \in Int /\ c.downloadedBytes \in Nat
      /\ c.completedRanges \in Seq(Rng)
  BY ChunkFields
<1>2. x \in Rng
  BY <1>1, RngFields
<1> HIDE DEF x
<1>3. r \in Rng
  BY <1>1, <1>2, Clamped
<1> HIDE DEF r
<1>4. <<r>> \in Seq(Rng)
  BY <1>3
<1>5. LegacyRanges(c) =
        IF c.completedRanges = <<>> /\ c.downloadedBytes > 0 /\ NonEmptyRange(r)
        THEN <<r>> ELSE c.completedRanges
  BY DEF LegacyRanges, r, x
<1>6. c.downloadedBytes = 0 => ~(c.downloadedBytes > 0)
  BY <1>1
<1>7. LegacyRanges(c) = c.completedRanges \/ LegacyRanges(c) = <<r>>
  BY <1>5
<1>8. QED
  BY <1>1, <1>3, <1>4, <1>5, <1>6, <1>7 DEF r, x

(***************************************************************************)
(* NormalizeChunk leaves the bytes a chunk stood for, those outside it     *)
(* dropped, in canonical form, with their number, and done exactly when    *)
(* that is all of them.                                                    *)
(***************************************************************************)
THEOREM NormalizeIsExact ==
  ASSUME NEW c \in ChunkRecord, c.start <= c.end
  PROVE  LET n == NormalizeChunk(c)
             S == RangeBytes(LegacyRanges(c)) \intersect PieceBytes(c)
         IN  /\ n \in ChunkRecord /\ n.start = c.start /\ n.end = c.end
             /\ Apart(n.completedRanges)
             /\ RangeBytes(n.completedRanges) = S
             /\ n.downloadedBytes = Cardinality(S)
             /\ n.done <=> S = PieceBytes(c)
<1> DEFINE kept == ClampRanges(c, LegacyRanges(c))
           S == RangeBytes(LegacyRanges(c)) \intersect PieceBytes(c)
           merged == MergeRanges(kept)
           total == SumLengths(merged)
           size == ChunkSize(c)
           n == NormalizeChunk(c)
           bytes == IF total > size THEN size ELSE total
           done == RangesCover(c.start, c.end, merged) \/ total >= size
<1>1. c.start \in Int /\ c.end \in Int /\ LegacyRanges(c) \in Seq(Rng)
  BY ChunkFields, LegacyIs
<1>2. kept \in Seq(Rng) /\ RangeBytes(kept) = S
  BY <1>1, KeepIsExact
<1> HIDE DEF kept, S
<1>3. merged \in Seq(Rng) /\ Apart(merged) /\ RangeBytes(merged) = S
  BY <1>2, MergeIsExact
<1>4. IsFiniteSet(S) /\ total = Cardinality(S)
  BY <1>3, LengthsAreExact
<1>5. size = c.end - c.start + 1 /\ size \in Int /\ size > 0
  BY <1>1 DEF ChunkSize
<1>6. IsFiniteSet(PieceBytes(c)) /\ Cardinality(PieceBytes(c)) = size
  <2>1. /\ IsFiniteSet(c.start .. c.end)
        /\ Cardinality(c.start .. c.end) = IF c.start > c.end THEN 0 ELSE c.end - c.start + 1
    BY <1>1, FS_Interval
  <2>2. QED
    BY <1>1, <1>5, <2>1 DEF PieceBytes
<1>7. S \subseteq PieceBytes(c)
  BY DEF S
<1>8. total \in Nat /\ total <= size /\ (total = size => S = PieceBytes(c))
  <2>1. /\ Cardinality(S) <= Cardinality(PieceBytes(c))
        /\ Cardinality(PieceBytes(c)) = Cardinality(S) => PieceBytes(c) = S
    BY <1>6, <1>7, FS_Subset
  <2>2. Cardinality(S) \in Nat
    BY <1>4, FS_CardinalityType
  <2>3. QED
    BY <1>4, <1>6, <2>1, <2>2
<1>9. n = [c EXCEPT !.completedRanges = merged, !.downloadedBytes = bytes, !.done = done]
  <2>1. ~(size <= 0)
    BY <1>5
  <2>2. QED
    BY <2>1 DEF NormalizeChunk, kept
<1>10. RangesCover(c.start, c.end, merged) <=> S = PieceBytes(c)
  <2>1. RangesCover(c.start, c.end, merged) <=> c.start .. c.end \subseteq RangeBytes(merged)
    BY <1>1, <1>3, CoverIsExact
  <2>2. QED
    BY <1>3, <1>7, <2>1 DEF PieceBytes
<1> HIDE DEF merged, total, size, n
<1>11. bytes = total
  BY <1>5, <1>8
<1>12. done <=> S = PieceBytes(c)
  BY <1>5, <1>8, <1>10
<1>13. done \in BOOLEAN
  OBVIOUS
<1> HIDE DEF bytes, done
<1>14. /\ n \in ChunkRecord /\ n.start = c.start /\ n.end = c.end /\ n.completedRanges = merged
       /\ n.downloadedBytes = bytes /\ n.done = done
  BY <1>3, <1>8, <1>9, <1>11, <1>13 DEF ChunkRecord, Rng
<1>15. QED
  BY <1>3, <1>4, <1>11, <1>12, <1>14 DEF n, S

(***************************************************************************)
(* A chunk of a loaded manifest, and what it has to do with the truth.     *)
(***************************************************************************)
Settled(c, t) ==
  LET mine == t \intersect PieceBytes(c)
  IN  /\ Apart(c.completedRanges)
      /\ RangeBytes(c.completedRanges) = mine
      /\ c.downloadedBytes = Cardinality(mine)
      /\ c.done <=> mine = PieceBytes(c)

\* A settled chunk stands for the bytes recorded for it.
LEMMA SettledStandsFor ==
  ASSUME NEW c \in ChunkRecord, NEW t, Settled(c, t)
  PROVE  StandsFor(c) = t \intersect PieceBytes(c) /\ LegacyRanges(c) = c.completedRanges
<1>1. /\ Apart(c.completedRanges)
      /\ RangeBytes(c.completedRanges) = t \intersect PieceBytes(c)
      /\ c.downloadedBytes = Cardinality(t \intersect PieceBytes(c))
  BY DEF Settled
<1>2. c.completedRanges = <<>> => c.downloadedBytes = 0
  BY <1>1, NoRanges, FS_EmptySet
<1>3. LegacyRanges(c) = c.completedRanges
  BY <1>2, LegacyIs
<1>4. QED
  BY <1>1, <1>3 DEF StandsFor

\* Normalising a chunk settles it and leaves what it stands for.
LEMMA NormalizeSettles ==
  ASSUME NEW c \in ChunkRecord, c.start <= c.end, NEW t,
         StandsFor(c) = t \intersect PieceBytes(c)
  PROVE  /\ NormalizeChunk(c) \in ChunkRecord
         /\ NormalizeChunk(c).start = c.start /\ NormalizeChunk(c).end = c.end
         /\ Settled(NormalizeChunk(c), t)
<1> DEFINE n == NormalizeChunk(c)
           S == RangeBytes(LegacyRanges(c)) \intersect PieceBytes(c)
<1>1. /\ n \in ChunkRecord /\ n.start = c.start /\ n.end = c.end
      /\ Apart(n.completedRanges)
      /\ RangeBytes(n.completedRanges) = S
      /\ n.downloadedBytes = Cardinality(S)
      /\ n.done <=> S = PieceBytes(c)
  BY NormalizeIsExact
<1>2. S = t \intersect PieceBytes(c)
  BY DEF StandsFor
<1> HIDE DEF n, S
<1>3. PieceBytes(n) = PieceBytes(c)
  BY <1>1 DEF PieceBytes
<1>4. Settled(n, t)
  BY <1>1, <1>2, <1>3 DEF Settled
<1>5. QED
  BY <1>1, <1>4 DEF n

\* Apart ranges that stand for bytes of the chunk lie inside it.
LEMMA SettledForm ==
  ASSUME NEW c \in ChunkRecord, NEW t
  PROVE  LET rs == c.completedRanges
             mine == t \intersect PieceBytes(c)
         IN  Settled(c, t)
             <=> /\ \A k \in DOMAIN rs : c.start <= rs[k].start
                                         /\ rs[k].start <= rs[k].end /\ rs[k].end <= c.end
                 /\ \A k \in 1 .. Len(rs) - 1 : rs[k].end + 1 < rs[k + 1].start
                 /\ RangeBytes(rs) = mine
                 /\ c.downloadedBytes = Cardinality(mine)
                 /\ c.done = (mine = PieceBytes(c))
<1> DEFINE rs == c.completedRanges
<1>1. rs \in Seq(Rng) /\ c.start \in Int /\ c.end \in Int /\ c.done \in BOOLEAN
  BY ChunkFields
<1>2. DOMAIN rs = 1 .. Len(rs) /\ \A k \in 1 .. Len(rs) : rs[k].start \in Int /\ rs[k].end \in Int
  BY <1>1, LenProperties, ElementOfSeq, RngFields
<1>3. ASSUME Settled(c, t), NEW k \in DOMAIN rs
      PROVE  c.start <= rs[k].start /\ rs[k].start <= rs[k].end /\ rs[k].end <= c.end
  <2>1. rs[k].start <= rs[k].end
    BY <1>2, <1>3 DEF Settled, Apart
  <2>2. rs[k].start \in RangeBytes(rs) /\ rs[k].end \in RangeBytes(rs)
    BY <1>1, <1>2, <2>1, BytesOf
  <2>3. RangeBytes(rs) \subseteq PieceBytes(c)
    BY <1>3 DEF Settled
  <2>4. QED
    BY <1>1, <1>2, <2>1, <2>2, <2>3 DEF PieceBytes
<1>4. QED
  BY <1>1, <1>2, <1>3 DEF Settled, Apart

(***************************************************************************)
(* Where the chunks lie.                                                   *)
(***************************************************************************)
Parts == ChunkCount(Size, Connections)
Piece(i) == splitIntoChunks(Size, Connections)[i - 1]

\* Where the layout puts the chunks, counted from 1 (from LayoutProofs).
LEMMA Places ==
  /\ Parts \in Nat \ {0}
  /\ \A i \in 1 .. Parts :
       /\ Piece(i).start \in Int /\ Piece(i).end \in Int /\ Piece(i).start <= Piece(i).end
       /\ PieceBytes(Piece(i)) \subseteq 0 .. Size - 1
  /\ \A i, j \in 1 .. Parts : i # j => PieceBytes(Piece(i)) \intersect PieceBytes(Piece(j)) = {}
  /\ \A b \in 0 .. Size - 1 : \E i \in 1 .. Parts : b \in PieceBytes(Piece(i))
  /\ Piece(1).start = 0 /\ Piece(Parts).end = Size - 1
  /\ \A i \in 1 .. Parts - 1 : Piece(i + 1).start = Piece(i).end + 1
<1> DEFINE n == ChunkCount(Size, Connections)
           layout == splitIntoChunks(Size, Connections)
<1>1. Size \in Nat \ {0} /\ Connections \in Nat \ {0}
  BY LedgerAssumption
<1>2. /\ n \in Nat \ {0} /\ layout \in [0 .. n - 1 -> [start : Int, end : Int]]
      /\ Consecutive(layout, n, Size)
  BY <1>1, ChunksConsecutive
<1>3. Parts = n /\ \A i : Piece(i) = layout[i - 1]
  BY DEF Parts, Piece
<1> HIDE DEF n, layout
<1>4. /\ \A i \in 0 .. n - 1 : PieceBytes(layout[i]) \subseteq 0 .. Size - 1
      /\ \A i, j \in 0 .. n - 1 : i # j => PieceBytes(layout[i]) \intersect PieceBytes(layout[j]) = {}
      /\ \A b \in 0 .. Size - 1 : \E i \in 0 .. n - 1 : b \in PieceBytes(layout[i])
  BY <1>1, <1>2, ConsecutivePartition, ZenonT(40)
<1>5. /\ layout[0].start = 0 /\ layout[n - 1].end = Size - 1
      /\ \A i \in 0 .. n - 1 : layout[i].start <= layout[i].end
      /\ \A i \in 0 .. n - 2 : layout[i + 1].start = layout[i].end + 1
  BY <1>2 DEF Consecutive
<1>6. \A i \in 1 .. n : i - 1 \in 0 .. n - 1
  BY <1>2
<1>7. \A i \in 0 .. n - 1 : i + 1 \in 1 .. n /\ (i + 1) - 1 = i
  BY <1>2
<1>8. \A i \in 0 .. n - 1 : layout[i].start \in Int /\ layout[i].end \in Int
  BY <1>2
<1>9. \A i \in 1 .. n - 1 : i - 1 \in 0 .. n - 2 /\ (i - 1) + 1 = i /\ (i + 1) - 1 = i
  BY <1>2
<1>10. /\ \A i \in 1 .. Parts :
            /\ Piece(i).start \in Int /\ Piece(i).end \in Int /\ Piece(i).start <= Piece(i).end
            /\ PieceBytes(Piece(i)) \subseteq 0 .. Size - 1
       /\ \A i \in 1 .. Parts - 1 : Piece(i + 1).start = Piece(i).end + 1
  BY <1>3, <1>4, <1>5, <1>6, <1>8, <1>9
<1>11. \A b \in 0 .. Size - 1 : \E i \in 1 .. Parts : b \in PieceBytes(Piece(i))
  BY <1>3, <1>4, <1>7
<1>12. ASSUME NEW i \in 1 .. Parts, NEW j \in 1 .. Parts, i # j
       PROVE  PieceBytes(Piece(i)) \intersect PieceBytes(Piece(j)) = {}
  <2>1. i - 1 \in 0 .. n - 1 /\ j - 1 \in 0 .. n - 1 /\ i - 1 # j - 1
    BY <1>2, <1>3, <1>12
  <2>2. QED
    BY <1>3, <1>4, <2>1
<1>13. Piece(1).start = 0 /\ Piece(Parts).end = Size - 1
  <2>1. 1 - 1 = 0
    OBVIOUS
  <2>2. QED
    BY <1>3, <1>5, <2>1
<1>14. QED
  BY <1>2, <1>3, <1>10, <1>11, <1>12, <1>13

\* A chunk in its place.
Placed(c, i) == c \in ChunkRecord /\ c.start = Piece(i).start /\ c.end = Piece(i).end

\* A chunk in its place is not empty and has the bytes of its piece.
LEMMA PlacedChunk ==
  ASSUME NEW i \in 1 .. Parts, NEW c, Placed(c, i)
  PROVE  c \in ChunkRecord /\ c.start <= c.end /\ PieceBytes(c) = PieceBytes(Piece(i))
  BY Places DEF Placed, PieceBytes

(***************************************************************************)
(* The invariant, chunk by chunk.                                          *)
(***************************************************************************)
Held(cs, t, known) ==
  /\ known \in BOOLEAN
  /\ t \subseteq 0 .. Size - 1
  /\ DOMAIN cs = 1 .. Parts /\ cs = [i \in 1 .. Parts |-> cs[i]]
  /\ \A i \in 1 .. Parts : Placed(cs[i], i)
  /\ \A i \in 1 .. Parts : StandsFor(cs[i]) = t \intersect PieceBytes(cs[i])
  /\ known => \A i \in 1 .. Parts : Settled(cs[i], t)

\* The invariant in this form, before and after a step.
LEMMA HeldForm == (LedgerInv <=> Held(chunks, truth, loaded)) /\ (LedgerInv <=> Held(chunks, truth, loaded))'
<1>1. ASSUME NEW cs, NEW t, NEW known
      PROVE  Held(cs, t, known)
             <=> /\ known \in BOOLEAN /\ t \subseteq 0 .. Size - 1
                 /\ cs \in [1 .. Parts -> ChunkRecord]
                 /\ \A i \in DOMAIN cs : cs[i].start = Piece(i).start /\ cs[i].end = Piece(i).end
                 /\ \A i \in DOMAIN cs : StandsFor(cs[i]) = t \intersect PieceBytes(cs[i])
                 /\ known => \A i \in DOMAIN cs : Settled(cs[i], t)
  BY DEF Held, Placed
<1> DEFINE InForm(c) ==
             /\ \A k \in DOMAIN c.completedRanges :
                  c.start <= c.completedRanges[k].start
                  /\ c.completedRanges[k].start <= c.completedRanges[k].end
                  /\ c.completedRanges[k].end <= c.end
             /\ \A k \in 1 .. Len(c.completedRanges) - 1 :
                  c.completedRanges[k].end + 1 < c.completedRanges[k + 1].start
           Exact(c, t) ==
             /\ RangeBytes(c.completedRanges) = t \intersect PieceBytes(c)
             /\ c.downloadedBytes = Cardinality(t \intersect PieceBytes(c))
             /\ c.done = (t \intersect PieceBytes(c) = PieceBytes(c))
<1>2. /\ Canonical <=> (loaded => \A i \in DOMAIN chunks : InForm(chunks[i]))
      /\ Canonical' <=> (loaded' => \A i \in DOMAIN chunks' : InForm(chunks'[i]))
  BY DEF Canonical
<1>3. /\ ExactBookkeeping <=> (loaded => \A i \in DOMAIN chunks : Exact(chunks[i], truth))
      /\ ExactBookkeeping' <=> (loaded' => \A i \in DOMAIN chunks' : Exact(chunks'[i], truth'))
  BY DEF ExactBookkeeping
<1>4. ASSUME NEW cs \in [1 .. Parts -> ChunkRecord], NEW t
      PROVE  \A i \in DOMAIN cs : Settled(cs[i], t) <=> InForm(cs[i]) /\ Exact(cs[i], t)
  BY SettledForm
<1> HIDE DEF InForm, Exact
<1>5. LedgerInv <=> Held(chunks, truth, loaded)
  BY <1>1, <1>2, <1>3, <1>4 DEF LedgerInv, TypeOK, PlacedInv, TruthInv, Parts, Piece
<1>6. LedgerInv' <=> Held(chunks', truth', loaded')
  BY <1>1, <1>2, <1>3, <1>4 DEF LedgerInv, TypeOK, PlacedInv, TruthInv, Parts, Piece
<1>7. QED
  BY <1>5, <1>6

(***************************************************************************)
(* Init: what a chunk read from a file claims is what it stands for.       *)
(***************************************************************************)
LEMMA ClaimedIs ==
  ASSUME NEW c \in ChunkRecord
  PROVE  ClaimedBytes(c) = StandsFor(c)
<1> DEFINE x == [start |-> c.start, end |-> c.start + c.downloadedBytes - 1]
           r == ClampRange(x, c.start, c.end)
           C == PieceBytes(c)
<1>1. /\ c.start \in Int /\ c.end \in Int /\ c.downloadedBytes \in Nat
      /\ c.completedRanges \in Seq(Rng)
  BY ChunkFields
<1>2. x \in Rng /\ x.start = c.start /\ x.end = c.start + c.downloadedBytes - 1
  BY <1>1, RngFields
<1>3. LegacyRanges(c) =
        IF c.completedRanges = <<>> /\ c.downloadedBytes > 0 /\ NonEmptyRange(r)
        THEN <<r>> ELSE c.completedRanges
  BY DEF LegacyRanges
<1>4. ClaimedBytes(c) =
        C \intersect (IF c.completedRanges = <<>>
                      THEN c.start .. c.start + c.downloadedBytes - 1
                      ELSE RangeBytes(c.completedRanges))
  BY DEF ClaimedBytes
<1>5. StandsFor(c) = RangeBytes(LegacyRanges(c)) \intersect C
  BY DEF StandsFor
<1> HIDE DEF x
<1>6. /\ r \in Rng /\ r.start \in Int /\ r.end \in Int
      /\ \A b \in Int : b \in PieceBytes(r) <=> b \in PieceBytes(x) /\ c.start <= b /\ b <= c.end
  BY <1>1, <1>2, Clamped, RngFields
<1>7. \A b : b \in C <=> b \in Int /\ c.start <= b /\ b <= c.end
  BY <1>1 DEF PieceBytes
<1>8. \A b : b \in PieceBytes(x) <=> b \in c.start .. c.start + c.downloadedBytes - 1
  BY <1>2 DEF PieceBytes
<1>9. /\ \A b : b \in PieceBytes(r) <=> b \in Int /\ r.start <= b /\ b <= r.end
      /\ NonEmptyRange(r) <=> r.end >= r.start
  BY <1>6 DEF PieceBytes, NonEmptyRange
<1> HIDE DEF r, C
<1>10. CASE c.completedRanges # <<>>
  BY <1>3, <1>4, <1>5, <1>10
<1>11. CASE c.completedRanges = <<>>
  <2>1. ClaimedBytes(c) = C \intersect (c.start .. c.start + c.downloadedBytes - 1)
    BY <1>4, <1>11
  <2>2. \A b : b \in C \intersect (c.start .. c.start + c.downloadedBytes - 1) <=> b \in PieceBytes(r)
    BY <1>6, <1>7, <1>8, <1>9
  <2>3. CASE c.downloadedBytes > 0 /\ NonEmptyRange(r)
    <3>1. LegacyRanges(c) = <<r>>
      BY <1>3, <1>11, <2>3
    <3>2. RangeBytes(<<r>>) = PieceBytes(r)
      BY DEF RangeBytes
    <3>3. PieceBytes(r) \subseteq C
      BY <2>2
    <3>4. QED
      BY <1>5, <2>1, <2>2, <3>1, <3>2, <3>3
  <2>4. CASE ~(c.downloadedBytes > 0 /\ NonEmptyRange(r))
    <3>1. LegacyRanges(c) = <<>>
      BY <1>3, <1>11, <2>4
    <3>2. C \intersect (c.start .. c.start + c.downloadedBytes - 1) = {}
      <4>1. CASE ~(c.downloadedBytes > 0)
        BY <1>1, <4>1
      <4>2. CASE ~NonEmptyRange(r)
        BY <1>6, <1>9, <2>2, <4>2
      <4>3. QED
        BY <2>4, <4>1, <4>2
    <3>3. QED
      BY <1>5, <2>1, <3>1, <3>2, NoRanges
  <2>5. QED
    BY <2>3, <2>4
<1>12. QED
  BY <1>10, <1>11

\* The chunks of a fresh manifest.
LEMMA FreshIs ==
  /\ FreshChunks = [i \in 1 .. Parts |-> FreshChunk(Piece(i))]
  /\ \A i \in 1 .. Parts :
       LET c == FreshChunk(Piece(i))
       IN  Placed(c, i) /\ c.completedRanges = <<>> /\ c.downloadedBytes = 0 /\ c.done = FALSE
<1>1. FreshChunks = [i \in 1 .. Parts |-> FreshChunk(Piece(i))]
  BY DEF FreshChunks, Parts, Piece
<1>2. ASSUME NEW i \in 1 .. Parts
      PROVE  LET c == FreshChunk(Piece(i))
             IN  Placed(c, i) /\ c.completedRanges = <<>> /\ c.downloadedBytes = 0 /\ c.done = FALSE
  <2>1. Piece(i).start \in Int /\ Piece(i).end \in Int /\ <<>> \in Seq(ByteRange(Int))
    BY Places
  <2>2. QED
    BY <2>1 DEF FreshChunk, Placed, ChunkRecord
<1>3. QED
  BY <1>1, <1>2

\* Whatever a foreign manifest lists is a list of ranges.
LEMMA ForeignIs ==
  ASSUME NEW q \in ForeignRanges
  PROVE  q \in Seq(Rng)
<1>1. PICK n \in 0 .. MaxForeignRanges : q \in [1 .. n -> ByteRange(Foreign)]
  BY DEF ForeignRanges
<1>2. n \in Nat /\ ByteRange(Foreign) \subseteq Rng
  <2>1. MaxForeignRanges \in Nat /\ Foreign \subseteq Int
    BY LedgerAssumption
  <2>2. [start : Foreign, end : Foreign] \subseteq [start : Int, end : Int]
    BY <2>1
  <2>3. QED
    BY <2>1, <2>2 DEF Rng, ByteRange
<1>3. q \in [1 .. n -> Rng]
  BY <1>1, <1>2
<1>4. QED
  BY <1>2, <1>3, IsASeq

\* A manifest as read.
LEMMA HeldInit == Init => LedgerInv
<1> SUFFICES ASSUME Init PROVE Held(chunks, truth, loaded)
  BY HeldForm
<1>1. loaded = FALSE
  BY DEF Init
<1>2. PICK ranges \in ForeignRanges, prefix \in 0 .. Size, flag \in BOOLEAN :
        chunks = [FreshChunks EXCEPT ![1].completedRanges = ranges,
                                     ![1].downloadedBytes = prefix,
                                     ![1].done = flag]
  BY DEF Init
<1>3. truth = UNION {ClaimedBytes(chunks[i]) : i \in DOMAIN chunks}
  BY DEF Init
<1>4. Parts \in Nat \ {0} /\ 1 \in 1 .. Parts /\ prefix \in Nat /\ ranges \in Seq(ByteRange(Int))
  BY Places, ForeignIs, LedgerAssumption DEF Rng
<1>5. DOMAIN chunks = 1 .. Parts /\ chunks = [i \in 1 .. Parts |-> chunks[i]]
  BY <1>2, FreshIs
<1>6. ASSUME NEW i \in 1 .. Parts
      PROVE  Placed(chunks[i], i)
  <2> DEFINE f == FreshChunk(Piece(i))
  <2>1. Placed(f, i)
    BY FreshIs
  <2>2. CASE i # 1
    <3>1. chunks[i] = f
      BY <1>2, <2>2, FreshIs
    <3>2. QED
      BY <2>1, <3>1
  <2>3. CASE i = 1
    <3>1. chunks[i] = [f EXCEPT !.completedRanges = ranges, !.downloadedBytes = prefix, !.done = flag]
      BY <1>2, <2>3, FreshIs
    <3> HIDE DEF f
    <3>2. QED
      BY <1>4, <2>1, <3>1 DEF Placed, ChunkRecord
  <2>4. QED
    BY <2>2, <2>3
<1>7. \A i \in 1 .. Parts : chunks[i] \in ChunkRecord /\ PieceBytes(chunks[i]) = PieceBytes(Piece(i))
  BY <1>6, PlacedChunk
<1>8. \A i \in 1 .. Parts : /\ ClaimedBytes(chunks[i]) = StandsFor(chunks[i])
                            /\ StandsFor(chunks[i]) \subseteq PieceBytes(chunks[i])
  BY <1>7, ClaimedIs DEF StandsFor
<1>9. truth \subseteq 0 .. Size - 1
  BY <1>3, <1>5, <1>7, <1>8, Places
<1>10. ASSUME NEW i \in 1 .. Parts
       PROVE  StandsFor(chunks[i]) = truth \intersect PieceBytes(chunks[i])
  <2>1. ASSUME NEW b \in truth, b \in PieceBytes(chunks[i])
        PROVE  b \in StandsFor(chunks[i])
    <3>1. PICK j \in 1 .. Parts : b \in ClaimedBytes(chunks[j])
      BY <1>3, <1>5
    <3>2. b \in PieceBytes(Piece(j)) /\ b \in PieceBytes(Piece(i))
      BY <1>7, <1>8, <2>1, <3>1
    <3>3. i = j
      BY <3>2, Places
    <3>4. QED
      BY <1>8, <3>1, <3>3
  <2>2. ASSUME NEW b \in StandsFor(chunks[i])
        PROVE  b \in truth /\ b \in PieceBytes(chunks[i])
    BY <1>3, <1>5, <1>8, <2>2
  <2>3. QED
    BY <2>1, <2>2
<1>11. QED
  BY <1>1, <1>5, <1>6, <1>9, <1>10 DEF Held

(***************************************************************************)
(* Steps.                                                                  *)
(***************************************************************************)
LEMMA HeldLoad == LedgerInv /\ Load => LedgerInv'
<1> SUFFICES ASSUME Held(chunks, truth, loaded), Load PROVE Held(chunks', truth', loaded')
  BY HeldForm
<1>1. /\ truth \subseteq 0 .. Size - 1 /\ DOMAIN chunks = 1 .. Parts
      /\ \A i \in 1 .. Parts : Placed(chunks[i], i)
      /\ \A i \in 1 .. Parts : StandsFor(chunks[i]) = truth \intersect PieceBytes(chunks[i])
  BY DEF Held
<1>2. /\ loaded' = TRUE /\ truth' = truth
      /\ chunks' = [i \in 1 .. Parts |-> NormalizeChunk(chunks[i])]
  BY <1>1 DEF Load
<1>3. ASSUME NEW i \in 1 .. Parts
      PROVE  /\ Placed(chunks'[i], i) /\ Settled(chunks'[i], truth')
             /\ StandsFor(chunks'[i]) = truth' \intersect PieceBytes(chunks'[i])
  <2> DEFINE c == chunks[i]
             n == NormalizeChunk(c)
  <2>1. Placed(c, i) /\ c \in ChunkRecord /\ c.start <= c.end
    BY <1>1, PlacedChunk
  <2>2. StandsFor(c) = truth \intersect PieceBytes(c)
    BY <1>1
  <2> HIDE DEF c
  <2>3. n \in ChunkRecord /\ n.start = c.start /\ n.end = c.end /\ Settled(n, truth)
    BY <2>1, <2>2, NormalizeSettles
  <2>4. chunks'[i] = n
    BY <1>2 DEF c
  <2> HIDE DEF n
  <2>5. StandsFor(n) = truth \intersect PieceBytes(n)
    BY <2>3, SettledStandsFor
  <2>6. Placed(n, i)
    BY <2>1, <2>3 DEF Placed
  <2>7. QED
    BY <1>2, <2>3, <2>4, <2>5, <2>6
<1>4. DOMAIN chunks' = 1 .. Parts /\ chunks' = [i \in 1 .. Parts |-> chunks'[i]]
  BY <1>2
<1>5. QED
  BY <1>1, <1>2, <1>3, <1>4 DEF Held

\* A range cut out of a gap lies in the chunk.
LEMMA GapInside ==
  ASSUME NEW c \in ChunkRecord, NEW gaps, gaps = MissingRanges(c.start, c.end, c.completedRanges),
         NEW g \in DOMAIN gaps, NEW r \in ByteRange(PieceBytes(gaps[g])), NonEmptyRange(r)
  PROVE  r \in Rng /\ PieceBytes(r) \subseteq PieceBytes(c)
<1>1. c.start \in Int /\ c.end \in Int /\ c.completedRanges \in Seq(Rng)
  BY ChunkFields
<1>2. gaps \in Seq(Rng) /\ RangeBytes(gaps) = (c.start .. c.end) \ RangeBytes(c.completedRanges)
  BY <1>1, MissingIsExact
<1>3. gaps[g] \in Rng /\ gaps[g].start \in Int /\ gaps[g].end \in Int
  BY <1>2, LenProperties, ElementOfSeq, RngFields
<1>4. r.start \in PieceBytes(gaps[g]) /\ r.end \in PieceBytes(gaps[g]) /\ r \in Rng
  BY <1>3 DEF ByteRange, Rng, PieceBytes
<1>5. PieceBytes(r) \subseteq PieceBytes(gaps[g])
  BY <1>3, <1>4, RngFields DEF PieceBytes
<1>6. PieceBytes(gaps[g]) \subseteq RangeBytes(gaps)
  BY DEF RangeBytes
<1>7. QED
  BY <1>2, <1>4, <1>5, <1>6 DEF PieceBytes

\* Recording bytes of a chunk adds them to it and to no other.
LEMMA HeldRecord ==
  ASSUME LedgerInv, NEW i \in 1 .. Parts, NEW r \in Rng,
         PieceBytes(r) \subseteq PieceBytes(chunks[i]), Record(i, r)
  PROVE  LedgerInv'
<1> SUFFICES Held(chunks', truth', loaded')
  BY HeldForm
<1> DEFINE c == chunks[i]
           d == [c EXCEPT !.completedRanges = Append(@, r)]
           n == NormalizeChunk(d)
<1>1. /\ truth \subseteq 0 .. Size - 1 /\ DOMAIN chunks = 1 .. Parts
      /\ \A k \in 1 .. Parts : Placed(chunks[k], k)
      /\ \A k \in 1 .. Parts : Settled(chunks[k], truth)
      /\ \A k \in 1 .. Parts : StandsFor(chunks[k]) = truth \intersect PieceBytes(chunks[k])
      /\ chunks = [k \in 1 .. Parts |-> chunks[k]]
  BY HeldForm DEF Held, Record
<1>2. /\ loaded' = loaded /\ truth' = truth \union PieceBytes(r)
      /\ chunks' = [chunks EXCEPT ![i] = n]
      /\ loaded
  BY DEF Record
<1>3. /\ Placed(c, i) /\ c \in ChunkRecord /\ c.start <= c.end
      /\ PieceBytes(c) = PieceBytes(Piece(i)) /\ c.completedRanges \in Seq(Rng)
      /\ RangeBytes(c.completedRanges) = truth \intersect PieceBytes(c)
  BY <1>1, PlacedChunk, ChunkFields DEF Settled
<1>4. PieceBytes(r) \subseteq PieceBytes(c)
  OBVIOUS
<1> HIDE DEF c
<1>5. /\ Append(c.completedRanges, r) \in Seq(Rng)
      /\ Append(c.completedRanges, r) # <<>>
      /\ \A b : b \in RangeBytes(Append(c.completedRanges, r))
                  <=> b \in RangeBytes(c.completedRanges) \/ b \in PieceBytes(r)
  BY <1>3, AppendProperties, AppendBytes
<1>6. /\ d \in ChunkRecord /\ d.start = c.start /\ d.end = c.end
      /\ d.completedRanges = Append(c.completedRanges, r)
  BY <1>3, <1>5 DEF ChunkRecord, Rng
<1> HIDE DEF d
<1>7. PieceBytes(d) = PieceBytes(c)
  BY <1>6 DEF PieceBytes
<1>8. StandsFor(d) = truth' \intersect PieceBytes(d)
  <2>1. LegacyRanges(d) = Append(c.completedRanges, r)
    BY <1>5, <1>6, LegacyIs
  <2>2. QED
    BY <1>2, <1>3, <1>4, <1>5, <1>7, <2>1 DEF StandsFor
<1>9. n \in ChunkRecord /\ n.start = c.start /\ n.end = c.end /\ Settled(n, truth')
  BY <1>3, <1>6, <1>8, NormalizeSettles
<1> HIDE DEF n
<1>10. \A k \in 1 .. Parts : chunks'[k] = IF k = i THEN n ELSE chunks[k]
  BY <1>1, <1>2
<1>11. ASSUME NEW k \in 1 .. Parts
       PROVE  /\ Placed(chunks'[k], k) /\ Settled(chunks'[k], truth')
              /\ StandsFor(chunks'[k]) = truth' \intersect PieceBytes(chunks'[k])
  <2>1. CASE k = i
    <3>1. chunks'[k] = n
      BY <1>10, <2>1
    <3>2. Placed(n, k)
      BY <1>3, <1>9, <2>1 DEF Placed
    <3>3. StandsFor(n) = truth' \intersect PieceBytes(n)
      BY <1>9, SettledStandsFor
    <3>4. QED
      BY <1>9, <3>1, <3>2, <3>3
  <2>2. CASE k # i
    <3>1. chunks'[k] = chunks[k]
      BY <1>10, <2>2
    <3>2. PieceBytes(chunks[k]) = PieceBytes(Piece(k))
      BY <1>1, PlacedChunk
    <3>3. PieceBytes(r) \intersect PieceBytes(chunks[k]) = {}
      BY <1>3, <1>4, <2>2, <3>2, Places
    <3>4. truth' \intersect PieceBytes(chunks[k]) = truth \intersect PieceBytes(chunks[k])
      BY <1>2, <3>3
    <3>5. Settled(chunks[k], truth')
      BY <1>1, <3>4 DEF Settled
    <3>6. QED
      BY <1>1, <3>1, <3>4, <3>5
  <2>3. QED
    BY <2>1, <2>2
<1>12. DOMAIN chunks' = 1 .. Parts /\ chunks' = [k \in 1 .. Parts |-> chunks'[k]]
  BY <1>1, <1>2
<1>13. truth' \subseteq 0 .. Size - 1
  BY <1>1, <1>2, <1>3, <1>4, Places
<1>14. loaded' \in BOOLEAN
  BY <1>2 DEF LedgerInv, TypeOK
<1>15. QED
  BY <1>11, <1>12, <1>13, <1>14 DEF Held

\* Every step keeps the invariant.
LEMMA HeldStep == LedgerInv /\ [Next]_vars => LedgerInv'
<1>1. LedgerInv /\ UNCHANGED vars => LedgerInv'
  <2> SUFFICES ASSUME Held(chunks, truth, loaded), UNCHANGED vars
               PROVE  Held(chunks', truth', loaded')
    BY HeldForm
  <2>1. chunks' = chunks /\ truth' = truth /\ loaded' = loaded
    BY DEF vars
  <2>2. QED
    BY <2>1
<1>2. ASSUME LedgerInv, NEW i \in DOMAIN chunks,
             NEW gaps, gaps = MissingRanges(chunks[i].start, chunks[i].end, chunks[i].completedRanges),
             NEW g \in DOMAIN gaps, NEW r \in ByteRange(PieceBytes(gaps[g])),
             NonEmptyRange(r), Record(i, r)
      PROVE  LedgerInv'
  <2>1. i \in 1 .. Parts /\ chunks[i] \in ChunkRecord
    BY <1>2 DEF LedgerInv, TypeOK, Parts
  <2>2. r \in Rng /\ PieceBytes(r) \subseteq PieceBytes(chunks[i])
    BY <1>2, <2>1, GapInside
  <2>3. QED
    BY <1>2, <2>1, <2>2, HeldRecord
<1>3. LedgerInv /\ Next => LedgerInv'
  BY <1>2, HeldLoad DEF Next
<1>4. QED
  BY <1>1, <1>3

\* The invariant holds of every manifest that is read.
LEMMA HeldAlways == Spec => []LedgerInv
  BY HeldInit, HeldStep, PTL DEF Spec

(***************************************************************************)
(* What is in memory and on disk keeps its type.                           *)
(***************************************************************************)
THEOREM TypeCorrect == Spec => []TypeOK
  BY HeldAlways, PTL DEF LedgerInv

(***************************************************************************)
(* After NormalizeChunk the ranges of a chunk are in canonical form,       *)
(* whatever list was read and whatever was appended since.                 *)
(***************************************************************************)
THEOREM CanonicalForm == Spec => []Canonical
  BY HeldAlways, PTL DEF LedgerInv

(***************************************************************************)
(* A loaded chunk records exactly the bytes it claimed on disk and those   *)
(* finished since, counts them, and is done when they are all of it.       *)
(***************************************************************************)
THEOREM NothingForgottenOrInvented == Spec => []ExactBookkeeping
  BY HeldAlways, PTL DEF LedgerInv

(***************************************************************************)
(* A resumed run plans exactly the bytes that are not recorded.            *)
(***************************************************************************)
LEMMA PlansFromInv == LedgerInv => PlansExactlyTheGaps
<1> SUFFICES ASSUME Held(chunks, truth, loaded), NEW i \in DOMAIN chunks
             PROVE  LET c == chunks[i]
                        gaps == MissingRanges(c.start, c.end, LegacyRanges(c))
                    IN  /\ RangeBytes(gaps) = PieceBytes(c) \ truth
                        /\ \A k \in 1 .. Len(gaps) - 1 : gaps[k].end + 1 < gaps[k + 1].start
  BY HeldForm DEF PlansExactlyTheGaps
<1> DEFINE c == chunks[i]
           gaps == MissingRanges(c.start, c.end, LegacyRanges(c))
<1>1. i \in 1 .. Parts /\ Placed(c, i) /\ StandsFor(c) = truth \intersect PieceBytes(c)
  BY DEF Held
<1> HIDE DEF c
<1>2. c.start \in Int /\ c.end \in Int /\ LegacyRanges(c) \in Seq(Rng)
  BY <1>1, ChunkFields, LegacyIs DEF Placed
<1>3. Apart(gaps) /\ RangeBytes(gaps) = (c.start .. c.end) \ RangeBytes(LegacyRanges(c))
  BY <1>2, MissingIsExact
<1>4. RangeBytes(gaps) = PieceBytes(c) \ truth
  BY <1>1, <1>3 DEF StandsFor, PieceBytes
<1>5. QED
  BY <1>3, <1>4 DEF Apart, c

(***************************************************************************)
(* A resumed run plans exactly the bytes that are not recorded, in         *)
(* ascending gaps that do not touch.                                       *)
(***************************************************************************)
THEOREM ResumePlansTheGaps == Spec => []PlansExactlyTheGaps
  BY HeldAlways, PlansFromInv, PTL

(***************************************************************************)
(* Totals: after k chunks the sums are those of the first k.               *)
(***************************************************************************)
Sums == [downloaded : Int, total : Int, doneChunks : Int]
ProperChunk == {c \in ChunkRecord : c.start <= c.end}

\* What Totals reads of a normalised chunk.
LEMMA NormalizeProper ==
  ASSUME NEW c \in ProperChunk
  PROVE  LET n == NormalizeChunk(c)
         IN  /\ n \in ChunkRecord /\ n.start = c.start /\ n.end = c.end
             /\ n.downloadedBytes = Cardinality(StandsFor(c))
             /\ n.done <=> StandsFor(c) = PieceBytes(c)
<1> DEFINE n == NormalizeChunk(c)
           S == RangeBytes(LegacyRanges(c)) \intersect PieceBytes(c)
<1>1. c \in ChunkRecord /\ c.start <= c.end
  BY DEF ProperChunk
<1>2. /\ n \in ChunkRecord /\ n.start = c.start /\ n.end = c.end
      /\ Apart(n.completedRanges)
      /\ RangeBytes(n.completedRanges) = S
      /\ n.downloadedBytes = Cardinality(S)
      /\ n.done <=> S = PieceBytes(c)
  BY <1>1, NormalizeIsExact
<1> HIDE DEF n
<1>3. QED
  BY <1>2 DEF n, StandsFor

\* One turn of Totals: the bytes, the size and the completeness of one chunk.
LEMMA AddChunkIs ==
  ASSUME NEW a \in Sums, NEW c \in ProperChunk
  PROVE  LET m == AddChunk(a, c)
         IN  /\ m \in Sums
             /\ m.downloaded = a.downloaded + Cardinality(StandsFor(c))
             /\ m.total = a.total + (c.end - c.start + 1)
             /\ m.doneChunks = a.doneChunks + (IF StandsFor(c) = PieceBytes(c) THEN 1 ELSE 0)
<1> DEFINE n == NormalizeChunk(c)
           x == a.downloaded + n.downloadedBytes
           y == a.total + ChunkSize(n)
           z == a.doneChunks + (IF n.done THEN 1 ELSE 0)
<1>1. /\ n \in ChunkRecord /\ n.start = c.start /\ n.end = c.end
      /\ n.downloadedBytes = Cardinality(StandsFor(c))
      /\ n.done <=> StandsFor(c) = PieceBytes(c)
  BY NormalizeProper
<1>2. AddChunk(a, c) = [downloaded |-> x, total |-> y, doneChunks |-> z]
  BY DEF AddChunk
<1> HIDE DEF n
<1>3. n.downloadedBytes \in Nat /\ c.start \in Int /\ c.end \in Int
  BY <1>1, ChunkFields
<1>4. a.downloaded \in Int /\ a.total \in Int /\ a.doneChunks \in Int
  BY DEF Sums
<1>5. x \in Int /\ y \in Int /\ z \in Int
  BY <1>1, <1>3, <1>4 DEF ChunkSize
<1>6. /\ x = a.downloaded + Cardinality(StandsFor(c))
      /\ y = a.total + (c.end - c.start + 1)
      /\ z = a.doneChunks + (IF StandsFor(c) = PieceBytes(c) THEN 1 ELSE 0)
  BY <1>1 DEF ChunkSize
<1> HIDE DEF x, y, z
<1>7. QED
  BY <1>2, <1>5, <1>6 DEF Sums

\* A turn of Totals gives sums.
LEMMA AddChunkType ==
  ASSUME NEW a \in Sums, NEW c \in ProperChunk
  PROVE  AddChunk(a, c) \in Sums
  BY AddChunkIs

\* Totals, turn by turn.
LEMMA TotalsTurns ==
  ASSUME NEW q \in Seq(ProperChunk)
  PROVE  \E h : /\ h[0] = [downloaded |-> 0, total |-> 0, doneChunks |-> 0]
                /\ \A k \in 1 .. Len(q) : h[k] = AddChunk(h[k - 1], q[k])
                /\ Totals(q) = h[Len(q)]
<1> DEFINE n == Len(q)
           base == [downloaded |-> 0, total |-> 0, doneChunks |-> 0]
           step == [p \in Sums \X (1 .. n) |-> AddChunk(p[1], q[p[2]])]
           Loop(iter) == iter = [s \in SUBSET DOMAIN q |->
                                   IF s = {} THEN base
                                   ELSE LET x == Max(s)
                                        IN  AddChunk(iter[s \ {x}], q[x])]
           it == CHOOSE iter : Loop(iter)
<1>1. n \in Nat /\ DOMAIN q = 1 .. n /\ \A i \in 1 .. n : q[i] \in ProperChunk
  BY LenProperties, ElementOfSeq
<1>2. step \in [Sums \X (1 .. n) -> Sums]
  BY <1>1, AddChunkType
<1>3. PICK f \in [SUBSET (1 .. n) -> Sums] : Folding(n, base, step, f)
  <2>1. base \in Sums
    BY DEF Sums
  <2> HIDE DEF step, n, base
  <2>2. QED
    BY <1>1, <1>2, <2>1, FoldExists
<1>4. Loop(f)
  <2>1. ASSUME NEW s \in SUBSET (1 .. n), s # {}
        PROVE  step[<<f[s \ {Max(s)}], Max(s)>>] = AddChunk(f[s \ {Max(s)}], q[Max(s)])
    <3>1. Max(s) \in 1 .. n
      <4> HIDE DEF step, n
      <4>1. Max(s) \in s
        BY <1>1, <2>1, MaxOfSome
      <4>2. QED
        BY <4>1
    <3>2. f[s \ {Max(s)}] \in Sums
      OBVIOUS
    <3> HIDE DEF base
    <3>3. QED
      BY <3>1, <3>2
  <2> HIDE DEF step, base
  <2>2. QED
    BY <1>1, <1>3, <2>1 DEF Folding
<1>5. Loop(it)
  BY <1>4
<1>6. Totals(q) = it[DOMAIN q]
  BY DEF Totals, FoldLeft, MapThenFoldSet
<1> HIDE DEF it, step, base
<1>7. it[{}] = base
  BY <1>5
<1>8. ASSUME NEW k \in 1 .. n
      PROVE  it[1 .. k] = AddChunk(it[1 .. k - 1], q[k])
  <2>1. /\ 1 .. k \in SUBSET (1 .. n) /\ 1 .. k # {} /\ Max(1 .. k) = k
        /\ (1 .. k) \ {k} = 1 .. k - 1
    BY <1>1, PrefixOf
  <2> HIDE DEF n
  <2>2. it = [s \in SUBSET DOMAIN q |->
                IF s = {} THEN base
                ELSE AddChunk(it[s \ {Max(s)}], q[Max(s)])]
    BY <1>5
  <2>3. it[1 .. k] = AddChunk(it[(1 .. k) \ {Max(1 .. k)}], q[Max(1 .. k)])
    BY <1>1, <2>1, <2>2
  <2>4. QED
    BY <2>1, <2>3
<1>9. QED
  <2> DEFINE h == [k \in 0 .. n |-> it[1 .. k]]
  <2>1. h[0] = base
    BY <1>1, <1>7, PrefixOf
  <2>2. \A k \in 1 .. n : h[k] = AddChunk(h[k - 1], q[k])
    <3>1. ASSUME NEW k \in 1 .. n
          PROVE  h[k] = it[1 .. k] /\ h[k - 1] = it[1 .. k - 1]
      BY <1>1
    <3> HIDE DEF h
    <3>2. QED
      BY <1>8, <3>1
  <2>3. h[n] = it[DOMAIN q]
    BY <1>1
  <2> HIDE DEF h
  <2>4. QED
    BY <1>6, <2>1, <2>2, <2>3 DEF base

(***************************************************************************)
(* Totals of all chunks: the size of the file, the bytes recorded, and all *)
(* chunks done exactly when all bytes are.                                 *)
(***************************************************************************)
LEMMA TotalsAreExact ==
  ASSUME LedgerInv
  PROVE  /\ Totals(chunks).total = Size
         /\ Totals(chunks).downloaded = Cardinality(truth)
         /\ Len(chunks) = Parts
         /\ Totals(chunks).doneChunks = Parts <=> truth = 0 .. Size - 1
<1> DEFINE E(k) == IF k = 0 THEN 0 ELSE Piece(k).end + 1
           T(k) == truth \intersect (0 .. E(k) - 1)
           Whole(i) == PieceBytes(Piece(i)) \subseteq truth
<1>1. /\ truth \subseteq 0 .. Size - 1 /\ DOMAIN chunks = 1 .. Parts
      /\ chunks = [k \in 1 .. Parts |-> chunks[k]]
      /\ \A i \in 1 .. Parts : Placed(chunks[i], i)
      /\ \A i \in 1 .. Parts : StandsFor(chunks[i]) = truth \intersect PieceBytes(chunks[i])
  BY HeldForm DEF Held
<1>2. \A i \in 1 .. Parts : /\ chunks[i] \in ProperChunk
                            /\ PieceBytes(chunks[i]) = PieceBytes(Piece(i))
  BY <1>1, PlacedChunk DEF ProperChunk
<1>3. Parts \in Nat \ {0} /\ Size \in Nat \ {0}
  BY Places, LedgerAssumption
<1>4. chunks \in Seq(ProperChunk) /\ Len(chunks) = Parts
  <2>1. chunks \in [1 .. Parts -> ProperChunk]
    BY <1>1, <1>2
  <2>2. chunks \in Seq(ProperChunk)
    BY <1>3, <2>1, IsASeq
  <2>3. QED
    BY <1>1, <1>3, <2>2, LenProperties
<1>5. PICK h : /\ h[0] = [downloaded |-> 0, total |-> 0, doneChunks |-> 0]
               /\ \A k \in 1 .. Parts : h[k] = AddChunk(h[k - 1], chunks[k])
               /\ Totals(chunks) = h[Parts]
  BY <1>4, TotalsTurns
<1>6. /\ \A i \in 1 .. Parts : /\ Piece(i).start \in Int /\ Piece(i).end \in Int
                               /\ Piece(i).start <= Piece(i).end
                               /\ PieceBytes(Piece(i)) = Piece(i).start .. Piece(i).end
      /\ Piece(1).start = 0 /\ Piece(Parts).end = Size - 1
      /\ \A i \in 1 .. Parts - 1 : Piece(i + 1).start = Piece(i).end + 1
  BY Places DEF PieceBytes
<1>7. \A k \in 0 .. Parts - 1 : Piece(k + 1).start = E(k)
  <2>1. TAKE k \in 0 .. Parts - 1
  <2>2. CASE k = 0
    BY <1>6, <2>2
  <2>3. CASE k # 0
    <3>1. k \in 1 .. Parts - 1
      BY <1>3, <2>3
    <3>2. QED
      BY <1>6, <2>3, <3>1
  <2>4. QED
    BY <2>2, <2>3
<1>8. \A k \in 1 .. Parts : E(k) = Piece(k).end + 1
  BY <1>3
<1>9. E(0) = 0 /\ E(Parts) = Size
  BY <1>3, <1>6
<1> HIDE DEF E
<1> DEFINE Inv(k) == /\ h[k] \in Sums /\ E(k) \in Nat
                     /\ h[k].total = E(k)
                     /\ IsFiniteSet(T(k)) /\ h[k].downloaded = Cardinality(T(k))
                     /\ h[k].doneChunks \in 0 .. k
                     /\ h[k].doneChunks = k <=> \A i \in 1 .. k : Whole(i)
<1>10. Inv(0)
  <2>1. T(0) = {} /\ IsFiniteSet({}) /\ Cardinality({}) = 0
    BY <1>9, FS_EmptySet
  <2> HIDE DEF T, Whole
  <2>2. \A i \in 1 .. 0 : Whole(i)
    OBVIOUS
  <2>3. h[0] \in Sums /\ h[0].downloaded = 0 /\ h[0].total = 0 /\ h[0].doneChunks = 0
    BY <1>5 DEF Sums
  <2>4. E(0) \in Nat /\ h[0].total = E(0)
    BY <1>9, <2>3
  <2>5. IsFiniteSet(T(0)) /\ h[0].downloaded = Cardinality(T(0))
    BY <2>1, <2>3
  <2>6. h[0].doneChunks \in 0 .. 0 /\ (h[0].doneChunks = 0 <=> \A i \in 1 .. 0 : Whole(i))
    BY <2>2, <2>3
  <2>7. QED
    BY <2>3, <2>4, <2>5, <2>6
<1>11. ASSUME NEW k \in 0 .. Parts - 1, Inv(k)
       PROVE  Inv(k + 1)
  <2> DEFINE c == chunks[k + 1]
             p == Piece(k + 1)
             C == truth \intersect PieceBytes(p)
  <2>1. k + 1 \in 1 .. Parts /\ (k + 1) - 1 = k /\ k \in Nat
    BY <1>3
  <2>2. /\ p.start \in Int /\ p.end \in Int /\ p.start <= p.end
        /\ PieceBytes(p) = p.start .. p.end
        /\ p.start = E(k) /\ E(k + 1) = p.end + 1
    BY <1>6, <1>7, <1>8, <2>1
  <2>3. /\ c \in ProperChunk /\ PieceBytes(c) = PieceBytes(p) /\ StandsFor(c) = C
        /\ c.start = p.start /\ c.end = p.end
    BY <1>1, <1>2, <2>1 DEF Placed
  <2>4. h[k + 1] = AddChunk(h[k], c)
    BY <1>5, <2>1
  <2> HIDE DEF c, p
  <2>5. /\ h[k] \in Sums /\ E(k) \in Nat /\ h[k].total = E(k)
        /\ IsFiniteSet(T(k)) /\ h[k].downloaded = Cardinality(T(k))
        /\ h[k].doneChunks \in 0 .. k
        /\ h[k].doneChunks = k <=> \A i \in 1 .. k : Whole(i)
    BY <1>11
  <2>6. /\ h[k + 1] \in Sums
        /\ h[k + 1].downloaded = h[k].downloaded + Cardinality(StandsFor(c))
        /\ h[k + 1].total = h[k].total + (c.end - c.start + 1)
        /\ h[k + 1].doneChunks = h[k].doneChunks + (IF StandsFor(c) = PieceBytes(c) THEN 1 ELSE 0)
    <3>1. PICK a, d, e : a = h[k] /\ d = c /\ e = h[k + 1]
      OBVIOUS
    <3>2. a \in Sums /\ d \in ProperChunk /\ e = AddChunk(a, d)
      BY <2>3, <2>4, <2>5, <3>1
    <3> HIDE DEF Inv
    <3>3. /\ e \in Sums
          /\ e.downloaded = a.downloaded + Cardinality(StandsFor(d))
          /\ e.total = a.total + (d.end - d.start + 1)
          /\ e.doneChunks = a.doneChunks + (IF StandsFor(d) = PieceBytes(d) THEN 1 ELSE 0)
      BY <3>2, AddChunkIs
    <3>4. QED
      BY <3>1, <3>3
  <2>7. E(k + 1) \in Nat /\ h[k + 1].total = E(k + 1)
    BY <2>2, <2>3, <2>5, <2>6
  <2>8. T(k + 1) = T(k) \union C /\ T(k) \intersect C = {}
    <3>1. \A b \in truth : b \in Int
      BY <1>1
    <3>2. \A b \in Int : /\ b \in 0 .. E(k + 1) - 1
                            <=> b \in 0 .. E(k) - 1 \/ b \in PieceBytes(p)
                         /\ ~(b \in 0 .. E(k) - 1 /\ b \in PieceBytes(p))
      BY <2>2, <2>5
    <3>3. QED
      BY <3>1, <3>2
  <2>9. IsFiniteSet(C)
    <3>1. IsFiniteSet(PieceBytes(p))
      BY <2>2, FS_Interval
    <3>2. QED
      BY <3>1, FS_Subset
  <2> HIDE DEF T, C
  <2>10. /\ IsFiniteSet(T(k + 1))
         /\ Cardinality(T(k + 1)) = Cardinality(T(k)) + Cardinality(C)
    <3>1. Cardinality(T(k)) \in Nat /\ Cardinality(C) \in Nat
      BY <2>5, <2>9, FS_CardinalityType
    <3>2. Cardinality(T(k) \intersect C) = 0
      BY <2>8, FS_EmptySet
    <3>3. /\ IsFiniteSet(T(k) \union C)
          /\ Cardinality(T(k) \union C)
               = Cardinality(T(k)) + Cardinality(C) - Cardinality(T(k) \intersect C)
      BY <2>5, <2>9, FS_Union
    <3>4. Cardinality(T(k) \union C) = Cardinality(T(k)) + Cardinality(C)
      BY <3>1, <3>2, <3>3
    <3>5. QED
      BY <2>8, <3>3, <3>4
  <2>11. h[k + 1].downloaded = Cardinality(T(k + 1))
    BY <2>3, <2>5, <2>6, <2>10
  <2>12. C = PieceBytes(p) <=> Whole(k + 1)
    BY DEF C, p
  <2> HIDE DEF Whole
  <2>13. h[k + 1].doneChunks = h[k].doneChunks + (IF Whole(k + 1) THEN 1 ELSE 0)
    BY <2>3, <2>6, <2>12
  <2>14. /\ h[k + 1].doneChunks \in 0 .. k + 1
         /\ h[k + 1].doneChunks = k + 1 <=> h[k].doneChunks = k /\ Whole(k + 1)
    BY <2>1, <2>5, <2>13
  <2>15. (\A i \in 1 .. k + 1 : Whole(i)) <=> (\A i \in 1 .. k : Whole(i)) /\ Whole(k + 1)
    <3>1. \A i \in 1 .. k + 1 : i \in 1 .. k \/ i = k + 1
      OBVIOUS
    <3>2. \A i \in 1 .. k : i \in 1 .. k + 1
      OBVIOUS
    <3>3. k + 1 \in 1 .. k + 1
      BY <2>1
    <3>4. QED
      BY <3>1, <3>2, <3>3
  <2>16. QED
    BY <2>5, <2>6, <2>7, <2>10, <2>11, <2>14, <2>15
<1>12. Inv(Parts)
  <2> DEFINE Good == {k \in 0 .. Parts : Inv(k)}
  <2> HIDE DEF Inv
  <2>1. 0 \in Good /\ \A k \in 0 .. Parts - 1 : k \in Good => k + 1 \in Good
    BY <1>3, <1>10, <1>11
  <2>2. \A k \in 0 .. Parts : k \in Good
    <3> HIDE DEF Good
    <3>1. QED
      BY <1>3, <2>1, Induct
  <2>3. QED
    BY <1>3, <2>2
<1>13. T(Parts) = truth
  BY <1>1, <1>9
<1>14. (\A i \in 1 .. Parts : Whole(i)) <=> truth = 0 .. Size - 1
  BY <1>1, Places
<1> HIDE DEF T, Whole
<1>15. QED
  BY <1>4, <1>5, <1>9, <1>12, <1>13, <1>14

\* So Complete and Totals are right whenever the invariant holds.
LEMMA CompleteFromInv == LedgerInv => CompleteMeansEveryByte
  BY TotalsAreExact, Places DEF CompleteMeansEveryByte, Complete

(***************************************************************************)
(* Complete and Totals agree with the bytes, before and after any          *)
(* normalisation: what clean deletes and what status prints.               *)
(***************************************************************************)
THEOREM CompleteIsEveryByte == Spec => []CompleteMeansEveryByte
  BY HeldAlways, CompleteFromInv, PTL

(***************************************************************************)
(* Any file that is cut has a size and a number of parts.                  *)
(***************************************************************************)
CutInv == cut.size \in Nat \ {0} /\ cut.parts \in Nat \ {0}

\* No step changes the file that is cut.
LEMMA CutAlways == MCSpec => []CutInv
<1>1. MCInit => CutInv
  BY LedgerAssumption, LayoutBounds DEF MCInit, CutInv, Layouts
<1>2. CutInv /\ [Next /\ UNCHANGED cut]_<<vars, cut>> => CutInv'
  BY DEF CutInv
<1>3. QED
  BY <1>1, <1>2, PTL DEF MCSpec

(***************************************************************************)
(* The closed form of the first byte of a chunk satisfies the recurrence   *)
(* of the loop, so the loop's function exists and is the closed form.      *)
(***************************************************************************)
LEMMA LoopIsClosedForm ==
  ASSUME NEW size \in Nat \ {0}, NEW parts \in Nat \ {0}
  PROVE  LET n == ChunkCount(size, parts)
         IN  \A i \in 0 .. n : LoopStart(size, parts)[i] = ChunkFirst(size, n, i)
<1> DEFINE n == ChunkCount(size, parts)
           Solves(f) == f = [i \in 0 .. n |-> IF i = 0 THEN 0 ELSE f[i - 1] + size \div n
                                                + (IF i - 1 < size % n THEN 1 ELSE 0)]
           g == [i \in 0 .. n |-> ChunkFirst(size, n, i)]
           loop == CHOOSE f : Solves(f)
<1>1. n \in 1 .. size
  BY DEF ChunkCount, Smaller
<1>2. /\ ChunkFirst(size, n, 0) = 0
      /\ \A i \in 0 .. n : ChunkFirst(size, n, i) \in Int
  <2> HIDE DEF n
  <2>1. QED
    BY <1>1, ChunkBoundaries
<1>3. ASSUME NEW i \in 1 .. n
      PROVE  ChunkFirst(size, n, i) = ChunkFirst(size, n, i - 1) + size \div n
                                        + (IF i - 1 < size % n THEN 1 ELSE 0)
  <2> DEFINE q == size \div n
             r == size % n
  <2> HIDE DEF n
  <2>1. q \in Nat /\ r \in 0 .. n - 1
    <3>1. n \in Nat \ {0} /\ size \in Nat
      BY <1>1
    <3>2. QED
      BY <3>1, DivMod
  <2> HIDE DEF q, r
  <2>2. i * q = (i - 1) * q + q
    BY <1>1, <2>1
  <2>3. (i - 1) * q \in Int /\ i * q \in Int
    BY <1>1, <2>1
  <2>4. Smaller(i, r) = Smaller(i - 1, r) + (IF i - 1 < r THEN 1 ELSE 0)
    BY <1>1, <2>1 DEF Smaller
  <2>5. Smaller(i, r) \in Int /\ Smaller(i - 1, r) \in Int
    BY <1>1, <2>1 DEF Smaller
  <2>6. ChunkFirst(size, n, i) = i * q + Smaller(i, r)
        /\ ChunkFirst(size, n, i - 1) = (i - 1) * q + Smaller(i - 1, r)
    BY DEF ChunkFirst, q, r
  <2>7. i * q + Smaller(i, r) = (i - 1) * q + Smaller(i - 1, r) + q + (IF i - 1 < r THEN 1 ELSE 0)
    BY <2>1, <2>2, <2>3, <2>4, <2>5
  <2>8. QED
    BY <2>6, <2>7 DEF q, r
<1> HIDE DEF n
<1>4. Solves(g)
  <2>1. ASSUME NEW i \in 0 .. n
        PROVE  g[i] = IF i = 0 THEN 0 ELSE g[i - 1] + size \div n
                                             + (IF i - 1 < size % n THEN 1 ELSE 0)
    <3>1. CASE i = 0
      BY <1>2, <3>1
    <3>2. CASE i # 0
      <4>1. i \in 1 .. n /\ i - 1 \in 0 .. n
        BY <1>1, <3>2
      <4>2. g[i] = ChunkFirst(size, n, i) /\ g[i - 1] = ChunkFirst(size, n, i - 1)
        BY <4>1
      <4> HIDE DEF g
      <4>3. QED
        BY <1>3, <3>2, <4>1, <4>2
    <3>3. QED
      BY <3>1, <3>2
  <2>2. QED
    BY <2>1
<1>5. Solves(loop)
  <2> HIDE DEF g
  <2>1. QED
    BY <1>4
<1>6. LoopStart(size, parts) = loop
  BY DEF LoopStart, n
<1> HIDE DEF loop, g
<1>7. /\ loop[0] = 0
      /\ \A i \in 1 .. n : loop[i] = loop[i - 1] + size \div n
                                       + (IF i - 1 < size % n THEN 1 ELSE 0)
  BY <1>1, <1>5
<1> HIDE DEF Solves
<1> DEFINE Good == {i \in 0 .. n : loop[i] = ChunkFirst(size, n, i)}
<1>8. 0 \in Good
  BY <1>1, <1>2, <1>7
<1>9. ASSUME NEW i \in 0 .. n - 1, i \in Good
      PROVE  i + 1 \in Good
  <2>1. i + 1 \in 1 .. n /\ (i + 1) - 1 = i
    BY <1>1
  <2>2. loop[i] = ChunkFirst(size, n, i)
    BY <1>9
  <2>3. PICK k : k = i + 1
    OBVIOUS
  <2>4. k \in 1 .. n /\ k - 1 = i
    BY <2>1, <2>3
  <2>5. loop[k] = loop[k - 1] + size \div n + (IF k - 1 < size % n THEN 1 ELSE 0)
    BY <1>7, <2>4
  <2>6. ChunkFirst(size, n, k) = ChunkFirst(size, n, k - 1) + size \div n
                                   + (IF k - 1 < size % n THEN 1 ELSE 0)
    BY <1>3, <2>4
  <2>7. loop[k] = ChunkFirst(size, n, k)
    BY <2>2, <2>4, <2>5, <2>6
  <2>8. QED
    BY <1>1, <2>3, <2>4, <2>7
<1>10. \A i \in 0 .. n : i \in Good
  <2> HIDE DEF Good
  <2>1. QED
    BY <1>1, <1>8, <1>9, Induct
<1>11. QED
  BY <1>6, <1>10 DEF n

(***************************************************************************)
(* One chunk per connection: whatever the size and the connections, the    *)
(* chunks tile the file, are where the loop of splitIntoChunks puts them,  *)
(* and overwriting the last end never moves it.                            *)
(***************************************************************************)
THEOREM ChunksTile == MCSpec => []ChunksTileTheFile
<1>1. CutInv => ChunksTileTheFile
  <2> SUFFICES ASSUME NEW size \in Nat \ {0}, NEW parts \in Nat \ {0},
                      size = cut.size, parts = cut.parts
               PROVE  ChunksTileTheFile
    BY DEF CutInv
  <2> DEFINE pieces == splitIntoChunks(size, parts)
             n == ChunkCount(size, parts)
             loop == LoopStart(size, parts)
  <2>1. n \in 1 .. size /\ n \in Nat \ {0}
    BY DEF ChunkCount, Smaller
  <2>2. Consecutive(pieces, n, size)
    BY ChunksConsecutive
  <2>3. \A i \in 0 .. n : loop[i] = ChunkFirst(size, n, i)
    BY LoopIsClosedForm
  <2> HIDE DEF loop
  <2>4. DOMAIN pieces = 0 .. n - 1 /\ \A i \in 0 .. n - 1 : pieces[i].start = ChunkFirst(size, n, i)
    BY DEF splitIntoChunks
  <2> HIDE DEF pieces, n
  <2>5. \A i \in DOMAIN pieces : pieces[i].start = loop[i]
    BY <2>1, <2>3, <2>4
  <2>6. pieces[n - 1].end = size - 1
    BY <2>2 DEF Consecutive
  <2>7. loop[n] = size
    BY <2>1, <2>3, ChunkBoundaries
  <2>8. QED
    BY <2>2, <2>5, <2>6, <2>7 DEF ChunksTileTheFile, pieces, n, loop
<1>2. QED
  BY <1>1, CutAlways, PTL

(***************************************************************************)
(* Queue mode: whatever the size and the segment size, the segments tile   *)
(* the file and none is longer than asked for.                             *)
(***************************************************************************)
THEOREM SegmentsTile == MCSpec => []SegmentsTileTheFile
<1>1. CutInv => SegmentsTileTheFile
  <2> SUFFICES ASSUME NEW size \in Nat \ {0}, NEW parts \in Nat \ {0},
                      size = cut.size, parts = cut.parts
               PROVE  SegmentsTileTheFile
    BY DEF CutInv
  <2> DEFINE segments == splitIntoSegments(size, parts)
             n == SegmentCount(size, parts)
  <2>1. n \in Nat /\ Consecutive(segments, n, size)
    BY SegmentsConsecutive
  <2>2. ASSUME NEW i \in DOMAIN segments
        PROVE  segments[i].end - segments[i].start < parts
    <3> DEFINE first == i * parts
    <3> HIDE DEF n
    <3>1. i \in Int
      BY <2>1 DEF splitIntoSegments, n
    <3>2. first \in Int
      BY <3>1
    <3>3. segments[i].start = first /\ segments[i].end = Smaller(first + parts - 1, size - 1)
      BY DEF splitIntoSegments
    <3> HIDE DEF first, segments
    <3>4. QED
      BY <3>2, <3>3 DEF Smaller
  <2>3. QED
    BY <2>1, <2>2 DEF SegmentsTileTheFile
<1>2. QED
  BY <1>1, CutAlways, PTL

(***************************************************************************)
(* A manifest that the engine has just created stands for no bytes.        *)
(***************************************************************************)
LEMMA HeldFresh ==
  ASSUME chunks = FreshChunks, truth = {}, loaded = TRUE
  PROVE  LedgerInv
<1> SUFFICES Held(chunks, {}, TRUE)
  BY HeldForm
<1>1. ASSUME NEW i \in 1 .. Parts
      PROVE  /\ Placed(chunks[i], i) /\ Settled(chunks[i], {})
             /\ StandsFor(chunks[i]) = {} \intersect PieceBytes(chunks[i])
  <2> DEFINE c == chunks[i]
  <2>1. Placed(c, i) /\ c.completedRanges = <<>> /\ c.downloadedBytes = 0 /\ c.done = FALSE
    BY FreshIs
  <2> HIDE DEF c
  <2>2. c \in ChunkRecord /\ c.start \in Int /\ c.end \in Int /\ c.start <= c.end
    BY <2>1, PlacedChunk, ChunkFields
  <2>3. {} # PieceBytes(c)
    <3>1. c.start \in PieceBytes(c)
      BY <2>2 DEF PieceBytes
    <3>2. QED
      BY <3>1
  <2>4. Cardinality({} \intersect PieceBytes(c)) = 0
    <3>1. {} \intersect PieceBytes(c) = {}
      OBVIOUS
    <3>2. QED
      BY <3>1, FS_EmptySet
  <2>5. Apart(<<>>) /\ RangeBytes(<<>>) = {}
    BY NoRanges DEF Apart
  <2>6. Settled(c, {})
    BY <2>1, <2>3, <2>4, <2>5 DEF Settled
  <2>7. QED
    BY <2>1, <2>2, <2>6, SettledStandsFor DEF c
<1>2. DOMAIN chunks = 1 .. Parts /\ chunks = [i \in 1 .. Parts |-> chunks[i]]
  BY FreshIs
<1>3. QED
  BY <1>1, <1>2 DEF Held

(***************************************************************************)
(* All of this holds as well of a manifest that the engine has just made   *)
(* fresh, beside any file that is cut.                                     *)
(***************************************************************************)
THEOREM FreshLedgersToo ==
  MCSpec => [](LedgerInv /\ PlansExactlyTheGaps /\ CompleteMeansEveryByte)
<1>1. MCInit => LedgerInv
  BY HeldInit, HeldFresh DEF MCInit
<1>2. LedgerInv /\ [Next /\ UNCHANGED cut]_<<vars, cut>> => LedgerInv'
  BY HeldStep
<1>3. LedgerInv => PlansExactlyTheGaps /\ CompleteMeansEveryByte
  BY PlansFromInv, CompleteFromInv
<1>4. QED
  BY <1>1, <1>2, <1>3, PTL DEF MCSpec
=============================================================================
