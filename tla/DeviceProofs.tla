----------------------------- MODULE DeviceProofs -----------------------------
(***************************************************************************)
(* Proofs about what a query asks of the device. The dispatches of a scan, *)
(* for tables, chunks and dispatches of any size and any set of prunable   *)
(* chunks: the provers do not multiply variables well, so where a chunk    *)
(* begins is left to a few lemmas. The slots of a GROUP BY, for any rows,  *)
(* any hash function, any sizes of the table and any order of the threads: *)
(* two rows share a slot exactly when their keys are equal, and a slot     *)
(* counts its rows. And the import threads of a stream, for any number of  *)
(* threads, slots, imports and chunks.                                     *)
(***************************************************************************)
EXTENDS
  ScanRanges, GroupBy, ImportPool, FiniteSetsExt, SequenceTheorems, FiniteSetTheorems,
  NaturalsInduction, WellFoundedInduction, TLAPS

(* A set of numbers has a least one.                                       *)
LEMMA LeastNat ==
  ASSUME NEW S, S \subseteq Nat, S # {}
  PROVE  Min(S) \in S /\ \A y \in S : Min(S) <= y
<1> DEFINE R == {ss \in Nat \X Nat : ss[1] < ss[2]}
<1>1. IsWellFoundedOn(R, Nat)
  BY NatLessThanWellFounded DEF OpToRel
<1>2. \A x, y \in Nat : <<y, x>> \in R <=> y < x
  OBVIOUS
<1> HIDE DEF R
<1>3. PICK x \in S : \A y \in S : ~(<<y, x>> \in R)
  BY <1>1, WFMin
<1>4. \A y \in S : x <= y
  <2> TAKE y \in S
  <2>1. x \in Nat /\ y \in Nat
    OBVIOUS
  <2>2. ~(y < x)
    BY <2>1, <1>2, <1>3, Zenon
  <2> QED BY <2>1, <2>2
<1> QED BY <1>4 DEF Min

LEMMA DivBounds ==
  ASSUME NEW a \in Nat, NEW b \in Nat \ {0}
  PROVE  a \div b \in Nat /\ b * (a \div b) <= a /\ a < b * (a \div b) + b
OBVIOUS

LEMMA CeilBounds ==
  ASSUME NEW a \in Nat, NEW b \in Nat \ {0}
  PROVE  CeilIntegerDiv(a, b) \in Nat /\ a <= b * CeilIntegerDiv(a, b)
<1>1. a + b - 1 \in Nat
  OBVIOUS
<1>2. /\ (a + b - 1) \div b \in Nat
      /\ a + b - 1 < b * ((a + b - 1) \div b) + b
  BY <1>1, DivBounds
<1> QED BY <1>2 DEF CeilIntegerDiv

LEMMA Product ==
  ASSUME NEW a \in Nat, NEW b \in Nat, NEW c \in Nat, a < b
  PROVE  a * c \in Nat /\ b * c \in Nat /\ a * c + c <= b * c
<1>1. b = a + 1 + (b - a - 1) /\ b - a - 1 \in Nat
  OBVIOUS
<1>2. \A d \in Nat : (a + 1 + d) * c = a * c + c + d * c /\ d * c \in Nat
  OBVIOUS
<1> QED BY <1>1, <1>2

(* n items in pieces of c: piece k begins within the items if it exists.    *)
LEMMA PieceBegins ==
  ASSUME NEW n \in Nat, NEW c \in Nat \ {0}, NEW k \in Nat, k < CeilIntegerDiv(n, c)
  PROVE  k * c \in Nat /\ k * c < n
<1> DEFINE q == CeilIntegerDiv(n, c)
<1>1. n + c - 1 \in Nat
  OBVIOUS
<1>2. q \in Nat /\ c * q <= n + c - 1
  BY <1>1, DivBounds DEF CeilIntegerDiv
<1>3. k < q
  OBVIOUS
<1> HIDE DEF q
<1>4. k * c \in Nat /\ q * c \in Nat /\ k * c + c <= q * c
  BY <1>2, <1>3, Product
<1>5. q * c = c * q
  BY <1>2
<1> QED BY <1>2, <1>4, <1>5

LEMMA PiecesEnd ==
  ASSUME NEW n \in Nat, NEW c \in Nat \ {0}
  PROVE  CeilIntegerDiv(n, c) \in Nat /\ n <= CeilIntegerDiv(n, c) * c
<1>1. CeilIntegerDiv(n, c) \in Nat /\ n <= c * CeilIntegerDiv(n, c)
  BY CeilBounds
<1>2. \A q \in Nat : c * q = q * c
  OBVIOUS
<1> QED BY <1>1, <1>2

LEMMA PieceOf ==
  ASSUME NEW x \in Nat, NEW c \in Nat \ {0}
  PROVE  /\ x \div c \in Nat /\ (x \div c) * c \in Nat
         /\ (x \div c) * c <= x /\ x < (x \div c) * c + c
<1>1. x \div c \in Nat /\ c * (x \div c) <= x /\ x < c * (x \div c) + c
  BY DivBounds
<1>2. \A q \in Nat : c * q = q * c /\ q * c \in Nat
  OBVIOUS
<1> QED BY <1>1, <1>2

(* The piece that holds item x is x \div c.                                 *)
LEMMA OnlyPiece ==
  ASSUME NEW x \in Nat, NEW c \in Nat \ {0}, NEW k \in Nat, k * c <= x, x < k * c + c
  PROVE  x \div c = k
<1> DEFINE q == x \div c
<1>1. q \in Nat /\ q * c \in Nat /\ q * c <= x /\ x < q * c + c
  BY PieceOf
<1> HIDE DEF q
<1>2. k * c \in Nat
  OBVIOUS
<1>3. ~(q < k)
  <2>1. ASSUME q < k PROVE FALSE
    <3>1. q * c + c <= k * c
      BY <2>1, <1>1, Product
    <3> QED BY <3>1, <1>1, <1>2
  <2> QED BY <2>1
<1>4. ~(k < q)
  <2>1. ASSUME k < q PROVE FALSE
    <3>1. k * c + c <= q * c
      BY <2>1, <1>1, Product
    <3> QED BY <3>1, <1>1, <1>2
  <2> QED BY <2>1
<1>5. q = k
  BY <1>1, <1>3, <1>4
<1> QED BY <1>5 DEF q

-------------------------------------------------------------------------------
(* The inductive invariant.                                                *)

RowRange == [min : Nat, max : Nat]

TypeInv ==
  /\ row_count \in Nat
  /\ rows_per_chunk \in Nat \ {0}
  /\ proven \in SUBSET Chunks
  /\ prunable \in SUBSET proven
  /\ pc \in {"start", "gaps", "ranges", "done"}
  /\ z \in 0 .. ChunkCount
  /\ ranges \in Seq(RowRange)
  /\ skip_bits \in SUBSET proven

(* A chunk fits into a dispatch once the zone maps are used, and nothing is *)
(* dispatched before the ranges are made.                                  *)
StageInv ==
  /\ pc \in {"gaps", "ranges"} => ChunkRows <= rows_per_chunk /\ ChunkCount > 0
  /\ pc \in {"start", "gaps"} => ranges = <<>>
  /\ pc # "done" => skip_bits = {}

FitInv ==
  \A i \in DOMAIN ranges :
    /\ ranges[i].min < ranges[i].max
    /\ ranges[i].max <= row_count
    /\ ranges[i].max - ranges[i].min <= rows_per_chunk

ApartInv == \A i, j \in DOMAIN ranges : i < j => ranges[i].max <= ranges[j].min

(* The ranges end before the chunk that is next, and every row before it    *)
(* is in a range unless its chunk is pruned.                                *)
CoverInv ==
  pc = "ranges" =>
    /\ \A i \in DOMAIN ranges : ranges[i].max <= ChunkStart(z)
    /\ \A row \in 0 .. row_count - 1 :
         row < ChunkStart(z) /\ row \div ChunkRows \notin prunable =>
           \E i \in DOMAIN ranges : In(row, ranges[i])

DoneInv ==
  pc = "done" =>
    \A row \in 0 .. row_count - 1 : row \div ChunkRows \notin proven =>
      row \div ChunkRows \notin skip_bits /\ \E i \in DOMAIN ranges : In(row, ranges[i])

IInv == TypeInv /\ StageInv /\ FitInv /\ ApartInv /\ CoverInv /\ DoneInv

LEMMA ChunkFacts ==
  ASSUME TypeInv
  PROVE  /\ ChunkRows \in Nat \ {0} /\ ChunkCount \in Nat
         /\ row_count <= ChunkStart(ChunkCount)
         /\ \A k \in Nat : ChunkStart(k) \in Nat /\ ChunkStart(k + 1) = ChunkStart(k) + ChunkRows
         /\ \A k \in Nat : k < ChunkCount => ChunkStart(k) < row_count
         /\ \A row \in 0 .. row_count - 1 :
              \A k \in Nat : ChunkStart(k) <= row /\ row < ChunkStart(k + 1) => row \div ChunkRows = k
<1>1. ChunkRows \in Nat \ {0} /\ row_count \in Nat
  BY ScanRangesAssumption DEF TypeInv
<1>2. ChunkCount \in Nat /\ row_count <= ChunkStart(ChunkCount)
  BY <1>1, PiecesEnd DEF ChunkCount, ChunkStart
<1>3. \A k \in Nat : ChunkStart(k) \in Nat /\ ChunkStart(k + 1) = ChunkStart(k) + ChunkRows
  BY <1>1 DEF ChunkStart
<1>4. \A k \in Nat : k < ChunkCount => ChunkStart(k) < row_count
  BY <1>1, PieceBegins DEF ChunkCount, ChunkStart
<1>5. ASSUME NEW row \in 0 .. row_count - 1, NEW k \in Nat,
             ChunkStart(k) <= row, row < ChunkStart(k + 1)
      PROVE  row \div ChunkRows = k
  <2>1. row \in Nat /\ k * ChunkRows <= row /\ row < k * ChunkRows + ChunkRows
    BY <1>1, <1>3, <1>5 DEF ChunkStart
  <2> QED BY <2>1, <1>1, OnlyPiece
<1> QED BY <1>1, <1>2, <1>3, <1>4, <1>5

(* A run takes at least its first chunk, ends at the table or before, and   *)
(* fits into a dispatch.                                                   *)
LEMMA RunFacts ==
  ASSUME TypeInv, ChunkRows <= rows_per_chunk, z < ChunkCount
  PROVE  /\ RunTo(z) \in z + 1 .. ChunkCount
         /\ ChunkEnd(RunTo(z) - 1) \in Nat
         /\ ChunkStart(z) < ChunkEnd(RunTo(z) - 1)
         /\ ChunkEnd(RunTo(z) - 1) <= row_count
         /\ ChunkEnd(RunTo(z) - 1) <= ChunkStart(RunTo(z))
         /\ ChunkEnd(RunTo(z) - 1) - ChunkStart(z) <= rows_per_chunk
         /\ \A row \in 0 .. row_count - 1 : row < ChunkStart(RunTo(z)) => row < ChunkEnd(RunTo(z) - 1)
<1> DEFINE Stops == {j \in z + 1 .. ChunkCount :
                       \/ j = ChunkCount
                       \/ j \in prunable
                       \/ ~Fits(ChunkStart(z), j)}
           t == RunTo(z)
<1>1. /\ ChunkCount \in Nat /\ z \in Nat /\ row_count \in Nat /\ rows_per_chunk \in Nat
      /\ ChunkRows \in Nat \ {0}
  BY ChunkFacts DEF TypeInv
<1>2. Stops \subseteq Nat /\ Stops # {}
  <2>1. ChunkCount \in Stops
    BY <1>1
  <2> QED BY <2>1, <1>1
<1>3. t = Min(Stops)
  BY DEF RunTo
<1>4. t \in Stops /\ \A j \in Stops : t <= j
  BY <1>2, <1>3, LeastNat
<1>5. t \in z + 1 .. ChunkCount /\ t - 1 \in Nat /\ t - 1 < ChunkCount /\ t = (t - 1) + 1
  BY <1>1, <1>4
<1>6. t - 1 = z \/ Fits(ChunkStart(z), t - 1)
  <2>1. ASSUME t - 1 # z, ~Fits(ChunkStart(z), t - 1) PROVE FALSE
    <3>1. t - 1 \in Stops
      BY <1>1, <1>5, <2>1
    <3>2. t <= t - 1
      BY <1>4, <3>1
    <3> QED BY <3>2, <1>1, <1>5
  <2> QED BY <2>1
<1> HIDE DEF t, Stops
<1> DEFINE final == t - 1
<1>7. /\ ChunkStart(final) \in Nat /\ ChunkStart(final) < row_count
      /\ ChunkStart(t) = ChunkStart(final) + ChunkRows
      /\ ChunkStart(z) \in Nat /\ ChunkStart(z) < row_count
  BY <1>1, <1>5, ChunkFacts
<1>8. ChunkEnd(final) = MinOf(ChunkStart(final) + ChunkRows, row_count)
  BY DEF ChunkEnd
<1>9. ChunkStart(z) <= ChunkStart(final)
  <2>1. CASE final = z
    BY <2>1, <1>7
  <2>2. CASE z < final
    <3>1. z * ChunkRows + ChunkRows <= final * ChunkRows /\ z * ChunkRows \in Nat
      BY <1>1, <1>5, <2>2, Product
    <3> QED BY <3>1, <1>1, <1>7 DEF ChunkStart
  <2> QED BY <1>1, <1>5, <2>1, <2>2
<1> HIDE DEF final
<1>10. ChunkEnd(final) - ChunkStart(z) <= rows_per_chunk
  <2>1. CASE final = z
    BY <2>1, <1>1, <1>7, <1>8 DEF MinOf
  <2>2. CASE Fits(ChunkStart(z), final)
    BY <2>2 DEF Fits
  <2> QED BY <1>6, <2>1, <2>2 DEF final
<1>11. /\ ChunkEnd(final) \in Nat /\ ChunkStart(z) < ChunkEnd(final) /\ ChunkEnd(final) <= row_count
       /\ ChunkEnd(final) <= ChunkStart(t)
       /\ \A row \in 0 .. row_count - 1 : row < ChunkStart(t) => row < ChunkEnd(final)
  BY <1>1, <1>7, <1>8, <1>9 DEF MinOf
<1> QED BY <1>5, <1>10, <1>11 DEF t, final

-------------------------------------------------------------------------------
(* Each step keeps it.                                                     *)

LEMMA Initially == Init => IInv
<1> SUFFICES ASSUME Init PROVE IInv
  OBVIOUS
<1>1. row_count \in Nat /\ rows_per_chunk \in Nat \ {0} /\ ChunkRows \in Nat \ {0}
  BY ScanRangesAssumption DEF Init
<1>2. ChunkCount \in Nat
  BY <1>1, PiecesEnd DEF ChunkCount
<1>3. TypeInv
  BY <1>1, <1>2 DEF Init, TypeInv
<1>4. StageInv /\ FitInv /\ ApartInv /\ CoverInv /\ DoneInv
  BY DEF Init, StageInv, FitInv, ApartInv, CoverInv, DoneInv
<1> QED BY <1>3, <1>4 DEF IInv

(* The ranges of a scan that prunes nothing.                                *)
LEMMA UniformFacts ==
  ASSUME TypeInv
  PROVE  /\ UniformRanges \in Seq(RowRange)
         /\ \A i \in DOMAIN UniformRanges :
              /\ UniformRanges[i].min < UniformRanges[i].max
              /\ UniformRanges[i].max <= row_count
              /\ UniformRanges[i].max - UniformRanges[i].min <= rows_per_chunk
         /\ \A i, j \in DOMAIN UniformRanges : i < j => UniformRanges[i].max <= UniformRanges[j].min
         /\ \A row \in 0 .. row_count - 1 : \E i \in DOMAIN UniformRanges : In(row, UniformRanges[i])
<1> DEFINE p == rows_per_chunk
           n == row_count
           q == UniformRangeCount
           Low(i) == (i - 1) * p
<1>1. n \in Nat /\ p \in Nat \ {0} /\ q \in Nat /\ n <= q * p
  BY PiecesEnd DEF TypeInv, UniformRangeCount
<1>2. \A i \in 1 .. q : Low(i) \in Nat /\ Low(i) < n /\ i * p = Low(i) + p
  <2> TAKE i \in 1 .. q
  <2>1. i - 1 \in Nat /\ i - 1 < q
    BY <1>1
  <2>2. Low(i) \in Nat /\ Low(i) < n
    BY <1>1, <2>1, PieceBegins DEF UniformRangeCount
  <2>3. i * p = Low(i) + p
    BY <1>1
  <2> QED BY <2>2, <2>3
<1>3. /\ DOMAIN UniformRanges = 1 .. q
      /\ \A i \in 1 .. q : UniformRanges[i] = [min |-> Low(i), max |-> MinOf(i * p, n)]
  BY DEF UniformRanges
<1>4. \A i \in 1 .. q : UniformRanges[i].min = Low(i) /\ UniformRanges[i].max = MinOf(Low(i) + p, n)
  BY <1>2, <1>3
<1>5. \A i, j \in 1 .. q : i < j => Low(i) + p <= Low(j)
  <2> SUFFICES ASSUME NEW i \in 1 .. q, NEW j \in 1 .. q, i < j PROVE Low(i) + p <= Low(j)
    OBVIOUS
  <2>1. i - 1 \in Nat /\ j - 1 \in Nat /\ i - 1 < j - 1
    BY <1>1
  <2> QED BY <1>1, <2>1, Product
<1>6. UniformRanges \in Seq(RowRange)
  <2>1. \A i \in 1 .. q : UniformRanges[i] \in RowRange
    BY <1>1, <1>2, <1>3 DEF RowRange, MinOf
  <2>2. UniformRanges = [i \in 1 .. q |-> UniformRanges[i]]
    BY <1>3 DEF UniformRanges
  <2> QED BY <1>1, <2>1, <2>2
<1>7. ASSUME NEW row \in 0 .. n - 1
      PROVE  \E i \in 1 .. q : In(row, UniformRanges[i])
  <2> DEFINE d == row \div p
  <2>1. row \in Nat /\ row < n
    BY <1>1
  <2>2. d \in Nat /\ d * p \in Nat /\ d * p <= row /\ row < d * p + p
    BY <1>1, <2>1, PieceOf
  <2> HIDE DEF d
  <2>3. d < q
    <3>1. ASSUME q < d PROVE FALSE
      <4>1. q * p + p <= d * p
        BY <3>1, <1>1, <2>2, Product
      <4> QED BY <4>1, <1>1, <2>1, <2>2
    <3>2. d # q
      BY <1>1, <2>1, <2>2
    <3> QED BY <3>1, <3>2, <1>1, <2>2
  <2>4. d + 1 \in 1 .. q /\ Low(d + 1) = d * p
    BY <1>1, <2>2, <2>3
  <2>5. UniformRanges[d + 1].min = d * p /\ UniformRanges[d + 1].max = MinOf(d * p + p, n)
    BY <1>4, <2>4
  <2>6. In(row, UniformRanges[d + 1])
    BY <1>1, <2>1, <2>2, <2>5 DEF In, MinOf
  <2> QED BY <2>4, <2>6
<1> HIDE DEF Low
<1>8. \A i \in 1 .. q : /\ UniformRanges[i].min < UniformRanges[i].max
                        /\ UniformRanges[i].max <= n
                        /\ UniformRanges[i].max - UniformRanges[i].min <= p
  BY <1>1, <1>2, <1>4 DEF MinOf
<1>9. \A i, j \in 1 .. q : i < j => UniformRanges[i].max <= UniformRanges[j].min
  BY <1>1, <1>2, <1>4, <1>5 DEF MinOf
<1> QED BY <1>3, <1>6, <1>7, <1>8, <1>9

LEMMA UniformKeeps ==
  ASSUME IInv, Uniform
  PROVE  IInv'
<1>1. TypeInv'
  BY UniformFacts DEF IInv, TypeInv, Uniform, Chunks, ChunkCount
<1>2. StageInv' /\ CoverInv' /\ DoneInv'
  <2>1. skip_bits' = {} /\ row_count' = row_count /\ proven' = proven /\ pc' = "done"
        /\ ranges' = UniformRanges
    BY DEF IInv, StageInv, Uniform
  <2>2. \A row \in 0 .. row_count - 1 : \E i \in DOMAIN UniformRanges : In(row, UniformRanges[i])
    BY UniformFacts DEF IInv
  <2> QED BY <2>1, <2>2 DEF StageInv, CoverInv, DoneInv
<1>3. FitInv' /\ ApartInv'
  <2>1. ranges' = UniformRanges /\ row_count' = row_count /\ rows_per_chunk' = rows_per_chunk
    BY DEF Uniform
  <2> QED BY <2>1, UniformFacts DEF IInv, FitInv, ApartInv
<1> QED BY <1>1, <1>2, <1>3 DEF IInv

LEMMA UseZoneMapsKeeps ==
  ASSUME IInv, UseZoneMaps
  PROVE  IInv'
<1>1. TypeInv'
  BY DEF IInv, TypeInv, UseZoneMaps, Chunks, ChunkCount
<1>2. StageInv' /\ CoverInv' /\ DoneInv'
  BY DEF IInv, StageInv, CoverInv, DoneInv, UseZoneMaps, ChunkCount
<1>3. FitInv' /\ ApartInv'
  BY DEF IInv, FitInv, ApartInv, UseZoneMaps
<1> QED BY <1>1, <1>2, <1>3 DEF IInv

LEMMA MergeGapKeeps ==
  ASSUME IInv, MergeGap
  PROVE  IInv'
<1>0. TypeInv /\ ChunkCount \in Nat
  BY ChunkFacts DEF IInv
<1>1. TypeInv /\ ChunkCount \in Nat /\ z \in Nat /\ z < ChunkCount
  BY <1>0 DEF TypeInv, MergeGap
<1>2. z' \in 0 .. ChunkCount
  <2>1. CASE z \notin prunable
    BY <1>1, <2>1 DEF MergeGap
  <2>2. CASE z \in prunable
    <3> DEFINE Ends == {j \in z .. ChunkCount : j \notin prunable}
    <3>1. ChunkCount \in Ends
      BY <1>1 DEF TypeInv, Chunks
    <3>2. Ends \subseteq Nat /\ Ends # {}
      BY <1>1, <3>1
    <3>3. RunEnd(z, prunable) \in Ends
      BY <3>2, LeastNat DEF RunEnd
    <3>4. z' = RunEnd(z, prunable)
      BY <2>2 DEF MergeGap
    <3> QED BY <1>1, <3>3, <3>4
  <2> QED BY <2>1, <2>2
<1>3. prunable' \subseteq prunable
  BY DEF MergeGap
<1>4. TypeInv'
  BY <1>1, <1>2, <1>3 DEF TypeInv, MergeGap, Chunks, ChunkCount
<1>5. StageInv' /\ CoverInv' /\ DoneInv'
  BY DEF IInv, StageInv, CoverInv, DoneInv, MergeGap, ChunkCount
<1>6. FitInv' /\ ApartInv'
  BY DEF IInv, FitInv, ApartInv, MergeGap
<1> QED BY <1>4, <1>5, <1>6 DEF IInv

LEMMA WeighPruningKeeps ==
  ASSUME IInv, WeighPruning
  PROVE  IInv'
<1>1. prunable' \subseteq prunable /\ z' = 0 /\ ranges' = <<>> /\ ranges = <<>> /\ row_count \in Nat
  BY DEF IInv, StageInv, TypeInv, WeighPruning
<1>2. TypeInv'
  <2>1. TypeInv /\ ChunkCount \in Nat
    BY ChunkFacts DEF IInv
  <2> QED BY <1>1, <2>1 DEF TypeInv, WeighPruning, Chunks, ChunkCount
<1>3. StageInv' /\ DoneInv'
  BY DEF IInv, StageInv, DoneInv, WeighPruning, ChunkCount
<1>4. CoverInv'
  <2>1. ChunkStart(z)' = 0 /\ row_count' = row_count
    BY <1>1, ScanRangesAssumption DEF ChunkStart, WeighPruning
  <2> QED BY <1>1, <2>1 DEF CoverInv
<1>5. FitInv' /\ ApartInv'
  BY <1>1 DEF FitInv, ApartInv
<1> QED BY <1>2, <1>3, <1>4, <1>5 DEF IInv

(* The new range begins where the ranges so far end, and takes every row    *)
(* up to the chunk that is next.                                           *)
LEMMA EmitRangeKeeps ==
  ASSUME IInv, EmitRange
  PROVE  IInv'
<1> DEFINE new == [min |-> ChunkStart(z), max |-> ChunkEnd(RunTo(z) - 1)]
           t == RunTo(z)
           n == Len(ranges)
<1>1. /\ TypeInv /\ pc = "ranges" /\ z < ChunkCount /\ ChunkRows <= rows_per_chunk
      /\ z \in Nat /\ ChunkCount \in Nat /\ row_count \in Nat /\ rows_per_chunk \in Nat
  <2>1. TypeInv /\ ChunkCount \in Nat
    BY ChunkFacts DEF IInv
  <2> QED BY <2>1 DEF IInv, StageInv, TypeInv, EmitRange
<1>2. /\ t \in z + 1 .. ChunkCount
      /\ new.min = ChunkStart(z) /\ new.max = ChunkEnd(t - 1)
      /\ new.min \in Nat /\ new.max \in Nat /\ new.min < new.max
      /\ new.max <= row_count /\ new.max <= ChunkStart(t) /\ ChunkStart(t) \in Nat
      /\ new.max - new.min <= rows_per_chunk
      /\ \A row \in 0 .. row_count - 1 : row < ChunkStart(t) => row < new.max
  BY <1>1, RunFacts, ChunkFacts
<1>3. /\ ranges' = Append(ranges, new) /\ z' = t /\ prunable' = prunable /\ proven' = proven
      /\ row_count' = row_count /\ rows_per_chunk' = rows_per_chunk /\ pc' = pc
      /\ skip_bits' = skip_bits
  BY DEF EmitRange
<1>4. new \in RowRange /\ ranges \in Seq(RowRange) /\ n \in Nat
  BY <1>1, <1>2 DEF RowRange, TypeInv
<1> HIDE DEF new, t
<1>5. /\ ranges' \in Seq(RowRange) /\ DOMAIN ranges' = 1 .. n + 1 /\ DOMAIN ranges = 1 .. n
      /\ ranges'[n + 1] = new /\ \A i \in 1 .. n : ranges'[i] = ranges[i]
  BY <1>3, <1>4
<1>6. TypeInv'
  BY <1>1, <1>2, <1>3, <1>5 DEF TypeInv, Chunks, ChunkCount
<1>7. StageInv' /\ DoneInv'
  BY <1>1, <1>3 DEF IInv, StageInv, DoneInv, ChunkCount
<1>8. FitInv'
  <2> SUFFICES ASSUME NEW i \in 1 .. n + 1
               PROVE  /\ ranges'[i].min < ranges'[i].max
                      /\ ranges'[i].max <= row_count
                      /\ ranges'[i].max - ranges'[i].min <= rows_per_chunk
    BY <1>3, <1>5 DEF FitInv
  <2>1. CASE i = n + 1
    BY <2>1, <1>2, <1>5
  <2>2. CASE i \in 1 .. n
    BY <2>2, <1>5 DEF IInv, FitInv
  <2> QED BY <2>1, <2>2, <1>4
<1>9. \A i \in 1 .. n : ranges[i].max \in Nat /\ ranges[i].min \in Nat /\ ranges[i].max <= ChunkStart(z)
  <2>1. \A i \in 1 .. n : ranges[i].max <= ChunkStart(z)
    BY <1>1, <1>5 DEF IInv, CoverInv
  <2>2. \A i \in 1 .. n : ranges[i] \in RowRange
    BY <1>4, <1>5
  <2> QED BY <2>1, <2>2 DEF RowRange
<1>10. ApartInv'
  <2> SUFFICES ASSUME NEW i \in 1 .. n + 1, NEW j \in 1 .. n + 1, i < j
               PROVE  ranges'[i].max <= ranges'[j].min
    BY <1>5 DEF ApartInv
  <2>1. i \in 1 .. n
    BY <1>4
  <2>2. CASE j = n + 1
    BY <2>1, <2>2, <1>2, <1>5, <1>9
  <2>3. CASE j \in 1 .. n
    BY <2>1, <2>3, <1>5 DEF IInv, ApartInv
  <2> QED BY <2>2, <2>3, <1>4
<1>11. CoverInv'
  <2>1. ChunkStart(z') = ChunkStart(t)
    BY <1>3
  <2>2. ChunkStart(z)' = ChunkStart(z')
    BY DEF ChunkStart
  <2>3. \A i \in 1 .. n + 1 : ranges'[i].max <= ChunkStart(t)
    <3> TAKE i \in 1 .. n + 1
    <3>1. CASE i = n + 1
      BY <3>1, <1>2, <1>5
    <3>2. CASE i \in 1 .. n
      <4>1. ranges[i].max \in Nat /\ ranges[i].max <= ChunkStart(z)
        BY <3>2, <1>9
      <4>2. ChunkStart(z) <= ChunkStart(t)
        BY <1>2
      <4> QED BY <3>2, <4>1, <4>2, <1>2, <1>5
    <3> QED BY <3>1, <3>2, <1>4
  <2>4. ASSUME NEW row \in 0 .. row_count - 1, row < ChunkStart(t), row \div ChunkRows \notin prunable
        PROVE  \E i \in 1 .. n + 1 : In(row, ranges'[i])
    <3>1. CASE row < ChunkStart(z)
      <4>1. \E i \in 1 .. n : In(row, ranges[i])
        BY <1>1, <1>5, <2>4, <3>1 DEF IInv, CoverInv
      <4>2. PICK i \in 1 .. n : In(row, ranges[i])
        BY <4>1
      <4>3. i \in 1 .. n + 1 /\ ranges'[i] = ranges[i]
        BY <1>4, <1>5
      <4> QED BY <4>2, <4>3
    <3>2. CASE ~(row < ChunkStart(z))
      <4>1. row < new.max /\ new.min <= row
        BY <1>1, <1>2, <2>4, <3>2
      <4>2. n + 1 \in 1 .. n + 1
        BY <1>4
      <4>3. In(row, ranges'[n + 1])
        BY <1>5, <4>1 DEF In
      <4> QED BY <4>2, <4>3
    <3> QED BY <3>1, <3>2
  <2> QED BY <1>3, <1>5, <2>1, <2>2, <2>3, <2>4 DEF CoverInv
<1> QED BY <1>6, <1>7, <1>8, <1>10, <1>11 DEF IInv

LEMMA PruneKeeps ==
  ASSUME IInv, Prune
  PROVE  IInv'
<1>1. TypeInv /\ ChunkCount \in Nat
  BY ChunkFacts DEF IInv
<1>2. /\ z \in Nat /\ z < ChunkCount /\ z + 1 \in 0 .. ChunkCount
      /\ z' = z + 1 /\ ranges' = ranges /\ prunable' = prunable /\ pc = "ranges"
      /\ row_count' = row_count /\ row_count \in Nat
  BY <1>1 DEF TypeInv, Prune, Chunks
<1>3. TypeInv'
  BY <1>1, <1>2 DEF TypeInv, Prune, Chunks, ChunkCount
<1>4. StageInv' /\ DoneInv' /\ FitInv' /\ ApartInv'
  BY <1>1, <1>2 DEF IInv, StageInv, DoneInv, FitInv, ApartInv, Prune, ChunkCount
<1>5. CoverInv'
  <2>1. /\ ChunkStart(z)' = ChunkStart(z + 1) /\ ChunkStart(z) \in Nat
        /\ ChunkStart(z + 1) = ChunkStart(z) + ChunkRows /\ ChunkRows \in Nat
    BY <1>1, <1>2, ChunkFacts DEF ChunkStart
  <2>2. \A i \in DOMAIN ranges : ranges[i].max <= ChunkStart(z + 1)
    <3> TAKE i \in DOMAIN ranges
    <3>1. ranges[i].max <= ChunkStart(z)
      BY <1>2 DEF IInv, CoverInv
    <3>2. ranges[i] \in RowRange
      BY <1>1 DEF TypeInv
    <3>3. ranges[i].max \in Nat
      BY <3>2 DEF RowRange
    <3> QED BY <2>1, <3>1, <3>3
  <2>3. ASSUME NEW row \in 0 .. row_count - 1, row < ChunkStart(z + 1), row \div ChunkRows \notin prunable
        PROVE  \E i \in DOMAIN ranges : In(row, ranges[i])
    <3>1. ~(ChunkStart(z) <= row)
      <4>1. ASSUME ChunkStart(z) <= row PROVE FALSE
        <5>1. row \div ChunkRows = z
          BY <1>1, <1>2, <2>3, <4>1, ChunkFacts
        <5> QED BY <5>1, <2>3 DEF Prune
      <4> QED BY <4>1
    <3>2. row < ChunkStart(z)
      BY <3>1, <1>2, <2>1
    <3> QED BY <3>2, <2>3, <1>2 DEF IInv, CoverInv
  <2> QED BY <1>2, <2>1, <2>2, <2>3 DEF CoverInv
<1> QED BY <1>3, <1>4, <1>5 DEF IInv

(* One dispatch over the whole table replaces the ranges only when it is    *)
(* the only uniform one, so it fits.                                       *)
LEMMA FinishKeeps ==
  ASSUME IInv, Finish
  PROVE  IInv'
<1> DEFINE whole == [min |-> 0, max |-> row_count]
<1>1. /\ TypeInv /\ ChunkCount \in Nat /\ row_count <= ChunkStart(ChunkCount)
      /\ ChunkStart(ChunkCount) \in Nat
      /\ \A k \in Nat : k < ChunkCount => ChunkStart(k) < row_count
      /\ ChunkRows \in Nat
  BY ChunkFacts DEF IInv
<1>2. /\ pc = "ranges" /\ pc' = "done" /\ z = ChunkCount /\ row_count \in Nat
      /\ row_count' = row_count /\ proven' = proven /\ prunable \subseteq proven
      /\ rows_per_chunk' = rows_per_chunk /\ rows_per_chunk \in Nat \ {0} /\ prunable' = prunable
      /\ z' = z
  BY <1>1 DEF TypeInv, Finish
<1>3. 0 < row_count
  <2>1. ChunkCount > 0
    BY <1>2 DEF IInv, StageInv
  <2>2. ChunkStart(0) = 0
    BY <1>1 DEF ChunkStart
  <2> QED BY <1>1, <2>1, <2>2
<1>4. CASE SkipInside
  <2>1. ranges' = <<whole>> /\ skip_bits' = prunable
    BY <1>4 DEF Finish
  <2>2. whole \in RowRange /\ whole.min = 0 /\ whole.max = row_count
    BY <1>2 DEF RowRange
  <2> HIDE DEF whole
  <2>3. ranges' \in Seq(RowRange) /\ DOMAIN ranges' = 1 .. 1 /\ ranges'[1] = whole
    BY <2>1, <2>2
  <2>4. row_count <= rows_per_chunk
    <3>1. UniformRangeCount = 1 /\ row_count <= UniformRangeCount * rows_per_chunk
      BY <1>2, <1>4, PiecesEnd DEF SkipInside, UniformRangeCount
    <3> QED BY <3>1, <1>2
  <2>5. TypeInv'
    BY <1>1, <1>2, <2>1, <2>3 DEF TypeInv, Chunks, ChunkCount
  <2>6. StageInv' /\ CoverInv'
    BY <1>2 DEF StageInv, CoverInv
  <2>7. FitInv' /\ ApartInv'
    BY <1>2, <1>3, <2>2, <2>3, <2>4 DEF FitInv, ApartInv
  <2>8. DoneInv'
    BY <1>2, <2>1, <2>2, <2>3 DEF DoneInv, In
  <2> QED BY <2>5, <2>6, <2>7, <2>8 DEF IInv
<1>5. CASE ~SkipInside
  <2>1. ranges' = ranges /\ skip_bits' = skip_bits /\ skip_bits = {}
    BY <1>2, <1>5 DEF IInv, StageInv, Finish
  <2>2. TypeInv'
    BY <1>1, <1>2, <2>1 DEF TypeInv, Chunks, ChunkCount
  <2>3. StageInv' /\ CoverInv'
    BY <1>2 DEF StageInv, CoverInv
  <2>4. FitInv' /\ ApartInv'
    BY <1>2, <2>1 DEF IInv, FitInv, ApartInv
  <2>5. DoneInv'
    <3> SUFFICES ASSUME NEW row \in 0 .. row_count - 1, row \div ChunkRows \notin proven
                 PROVE  \E i \in DOMAIN ranges : In(row, ranges[i])
      BY <1>2, <2>1 DEF DoneInv
    <3>1. row < ChunkStart(z) /\ row \div ChunkRows \notin prunable
      BY <1>1, <1>2
    <3> QED BY <3>1, <1>2 DEF IInv, CoverInv
  <2> QED BY <2>2, <2>3, <2>4, <2>5 DEF IInv
<1> QED BY <1>4, <1>5

(* The invariant holds in every state, whatever the chunks, the dispatches  *)
(* and the proven chunks are.                                              *)
THEOREM RangesInvariance == Spec => []IInv
<1>1. Init => IInv
  BY Initially
<1>2. IInv /\ [Next]_vars => IInv'
  <2> SUFFICES ASSUME IInv, [Next]_vars PROVE IInv'
    OBVIOUS
  <2>1. CASE Uniform
    BY <2>1, UniformKeeps
  <2>2. CASE UseZoneMaps
    BY <2>2, UseZoneMapsKeeps
  <2>3. CASE MergeGap
    BY <2>3, MergeGapKeeps
  <2>4. CASE WeighPruning
    BY <2>4, WeighPruningKeeps
  <2>5. CASE EmitRange
    BY <2>5, EmitRangeKeeps
  <2>6. CASE Prune
    BY <2>6, PruneKeeps
  <2>7. CASE Finish
    BY <2>7, FinishKeeps
  <2>8. CASE UNCHANGED vars
    BY <2>8 DEF vars, IInv, TypeInv, StageInv, FitInv, ApartInv, CoverInv, DoneInv, Chunks,
                ChunkCount, ChunkStart
  <2> QED BY <2>1, <2>2, <2>3, <2>4, <2>5, <2>6, <2>7, <2>8 DEF Next, Returned
<1> QED BY <1>1, <1>2, PTL DEF Spec

(* qe_scan_build_dispatch_ranges: the ranges are in order, apart, not       *)
(* empty, within the table and within a dispatch.                           *)
THEOREM DispatchesFit == Spec => []RangesFit
<1>1. IInv => RangesFit
  <2> SUFFICES ASSUME IInv PROVE RangesFit
    OBVIOUS
  <2>1. \A i \in 2 .. Len(ranges) : ranges[i - 1].max <= ranges[i].min
    <3> TAKE i \in 2 .. Len(ranges)
    <3>1. i - 1 \in DOMAIN ranges /\ i \in DOMAIN ranges /\ i - 1 < i
      BY DEF IInv, TypeInv
    <3> QED BY <3>1 DEF IInv, ApartInv
  <2> QED BY <2>1 DEF IInv, FitInv, RangesFit
<1> QED BY <1>1, RangesInvariance, PTL

(* qe_scan_build_dispatch_ranges: the returned ranges scan every row that   *)
(* was not proven away, and no row twice.                                  *)
THEOREM DispatchesScanOnce == Spec => []ScannedOnce
<1>1. IInv => ScannedOnce
  <2> SUFFICES ASSUME IInv, pc = "done", NEW row \in 0 .. row_count - 1,
                      row \div ChunkRows \notin proven
               PROVE  Scanned(row) /\ Cardinality(Dispatches(row)) = 1
    BY DEF ScannedOnce
  <2>1. row \div ChunkRows \notin skip_bits /\ \E i \in DOMAIN ranges : In(row, ranges[i])
    BY DEF IInv, DoneInv
  <2>2. PICK i \in DOMAIN ranges : In(row, ranges[i])
    BY <2>1
  <2>3. row \in Nat /\ ranges \in Seq(RowRange)
    BY DEF IInv, TypeInv
  <2>4. \A j \in DOMAIN ranges : ranges[j].min \in Nat /\ ranges[j].max \in Nat
    <3> TAKE j \in DOMAIN ranges
    <3>1. ranges[j] \in RowRange
      BY <2>3
    <3> QED BY <3>1 DEF RowRange
  <2>5. ASSUME NEW j \in DOMAIN ranges, In(row, ranges[j])
        PROVE  j = i
    <3>1. ~(i < j)
      BY <2>2, <2>3, <2>4, <2>5 DEF IInv, ApartInv, In
    <3>2. ~(j < i)
      BY <2>2, <2>3, <2>4, <2>5 DEF IInv, ApartInv, In
    <3>3. i \in Nat /\ j \in Nat
      BY <2>3
    <3> QED BY <3>1, <3>2, <3>3
  <2>6. Dispatches(row) = {i}
    BY <2>2, <2>5 DEF Dispatches
  <2>7. Cardinality({i}) = 1
    BY FS_Singleton
  <2> QED BY <2>1, <2>6, <2>7 DEF Scanned
<1> QED BY <1>1, RangesInvariance, PTL

-------------------------------------------------------------------------------
(* GROUP BY                                                                *)

TableStages == {"assign", "grouped", "hash"}

(* The slot a row tries at a place of its bucket.                          *)
TriedAt(row, p) == (hash[input[row].key] % num_buckets) * places + p

QueryInv == input \in Inputs /\ hash \in Hashes /\ estimate \in Estimates

TableInv ==
  /\ num_buckets \in Nat \ {0} /\ places \in Nat \ {0}
  /\ owner \in [TableSlots -> InputRows \cup {NoOwner}]
  /\ slot_rows \in [TableSlots -> Nat]
  /\ row_slot \in [InputRows -> TableSlots \cup {NoSlot}]
  /\ probed \in [InputRows -> 0 .. places]

(* A row is in the slot it tried last, whose owner has its key.             *)
PlacedInv ==
  \A row \in InputRows : row_slot[row] # NoSlot =>
    /\ probed[row] < places /\ row_slot[row] = TriedAt(row, probed[row])
    /\ owner[row_slot[row]] # NoOwner /\ SameGroup(row, owner[row_slot[row]])

(* Every place a row passed has an owner of another key.                    *)
PassedInv ==
  \A row \in InputRows : \A p \in 0 .. probed[row] - 1 :
    owner[TriedAt(row, p)] # NoOwner /\ ~SameGroup(row, owner[TriedAt(row, p)])

CountInv ==
  \A s \in TableSlots : slot_rows[s] = Cardinality({row \in InputRows : row_slot[row] = s})

FilledInv == stage \in {"grouped", "hash"} => \A row \in InputRows : row_slot[row] # NoSlot

GroupsInv == QueryInv /\ (stage \in TableStages => TableInv /\ PlacedInv /\ PassedInv /\ CountInv) /\ FilledInv

-------------------------------------------------------------------------------
(* Sizes are positive: a power of two is the number of subsets of a set.    *)

LEMMA PowerBounds ==
  ASSUME NEW n \in Nat
  PROVE  2 ^ n \in Nat /\ n <= 2 ^ n /\ 0 < 2 ^ n
<1> DEFINE S == 1 .. n
           f == [i \in S |-> {i}]
<1>1. IsFiniteSet(S) /\ Cardinality(S) = n
  BY FS_Interval
<1>2. IsFiniteSet(SUBSET S) /\ Cardinality(SUBSET S) = 2 ^ n
  BY <1>1, FS_SUBSET
<1>3. 2 ^ n \in Nat
  BY <1>2, FS_CardinalityType
<1>4. f \in Injection(S, SUBSET S)
  BY DEF Injection, IsInjective
<1>5. n <= 2 ^ n
  BY <1>1, <1>2, <1>4, FS_Injection
<1>6. 2 ^ n # 0
  BY <1>2, FS_EmptySet
<1> QED BY <1>3, <1>5, <1>6

LEMMA MaxBucketsType ==
  ASSUME QueryInv
  PROVE  Len(input) \in Nat /\ MaxBuckets \in Nat \ {0}
<1> DEFINE n == Len(input)
           Sizes == {2 ^ k : k \in {m \in 0 .. n : 2 ^ m >= n}}
<1>1. n \in Nat
  BY GroupByAssumption DEF QueryInv
<1> HIDE DEF n
<1>2. \A k \in Nat : 2 ^ k \in Nat /\ k <= 2 ^ k /\ 0 < 2 ^ k
  BY PowerBounds
<1>3. 2 ^ n \in Sizes
  BY <1>1, <1>2
<1>4. Sizes \subseteq Nat /\ Sizes # {} /\ 0 \notin Sizes
  BY <1>2, <1>3
<1>5. Min(Sizes) \in Sizes
  BY <1>4, LeastNat
<1>6. MaxBuckets = Min(Sizes)
  BY DEF MaxBuckets, n
<1> QED BY <1>1, <1>4, <1>5, <1>6 DEF n

LEMMA GuessedBucketsType ==
  ASSUME QueryInv
  PROVE  GuessedBuckets \in Nat \ {0}
<1> DEFINE n == Len(input)
           wanted == IF estimate > 0 THEN estimate + estimate \div 4 ELSE n \div RowsPerGuess
           AllSizes == {FirstBuckets * 2 ^ k : k \in 0 .. n + wanted}
           Sizes == {size \in AllSizes : size >= wanted \/ size >= MaxBuckets}
<1>1. n \in Nat /\ MaxBuckets \in Nat \ {0}
  BY MaxBucketsType
<1>2. wanted \in Nat
  <2>1. estimate \in Nat /\ RowsPerGuess \in Nat \ {0}
    BY GroupByAssumption DEF QueryInv
  <2> QED BY <2>1, <1>1
<1>3. GuessedBuckets = Min(Sizes)
  BY DEF GuessedBuckets
<1> HIDE DEF n, wanted
<1>4. FirstBuckets \in Nat \ {0}
  BY GroupByAssumption
<1>5. \A k \in Nat : FirstBuckets * 2 ^ k \in Nat \ {0} /\ k <= FirstBuckets * 2 ^ k
  <2> TAKE k \in Nat
  <2>1. 2 ^ k \in Nat /\ k <= 2 ^ k /\ 0 < 2 ^ k
    BY PowerBounds
  <2>2. ASSUME NEW a \in Nat, NEW b \in Nat \ {0}, 0 < a PROVE b * a \in Nat \ {0} /\ a <= b * a
    <3>1. CASE b = 1
      BY <2>2, <3>1
    <3>2. CASE 1 < b
      <4>1. 1 * a + a <= b * a
        BY <2>2, <3>2, Product
      <4> QED BY <4>1, <2>2
    <3> QED BY <3>1, <3>2
  <2> QED BY <1>4, <2>1, <2>2
<1>6. FirstBuckets * 2 ^ (n + wanted) \in Sizes
  BY <1>1, <1>2, <1>5
<1>7. Sizes \subseteq Nat /\ Sizes # {} /\ 0 \notin Sizes
  BY <1>1, <1>2, <1>5, <1>6
<1>8. Min(Sizes) \in Sizes
  BY <1>7, LeastNat
<1> QED BY <1>3, <1>7, <1>8

-------------------------------------------------------------------------------
(* The table                                                               *)

(* A place of a bucket is a slot of the table.                              *)
LEMMA TriedIsSlot ==
  ASSUME QueryInv, TableInv, NEW row \in InputRows, NEW p \in 0 .. places - 1
  PROVE  TriedAt(row, p) \in TableSlots
<1> DEFINE b == hash[input[row].key] % num_buckets
<1>1. hash[input[row].key] \in Nat
  BY GroupByAssumption DEF QueryInv, InputRows
<1>2. b \in Nat /\ b < num_buckets
  BY <1>1 DEF TableInv
<1>3. num_buckets \in Nat /\ places \in Nat
  BY DEF TableInv
<1> HIDE DEF b
<1>4. b * places \in Nat /\ num_buckets * places \in Nat /\ b * places + places <= num_buckets * places
  BY <1>2, <1>3, Product
<1>5. b * places + p \in 0 .. num_buckets * places - 1
  BY <1>3, <1>4
<1> QED BY <1>5 DEF TriedAt, TableSlots, b

LEMMA RowsAreNumbers ==
  ASSUME QueryInv
  PROVE  InputRows \subseteq Nat \ {0} /\ IsFiniteSet(InputRows)
<1>1. input \in Seq([key : Nat, arg : Int])
  BY GroupByAssumption DEF QueryInv
<1>2. InputRows = 1 .. Len(input) /\ Len(input) \in Nat
  BY <1>1 DEF InputRows
<1>3. IsFiniteSet(1 .. Len(input))
  BY <1>2, FS_Interval
<1>4. 1 .. Len(input) \subseteq Nat \ {0}
  BY <1>2
<1> QED BY <1>2, <1>3, <1>4

(* A table that was just filled holds no row.                               *)
LEMMA FilledTable ==
  ASSUME QueryInv, NEW buckets \in Nat \ {0}, NEW size \in Nat \ {0}, Fill(buckets, size)
  PROVE  GroupsInv'
<1>1. CASE buckets * size > DeviceSlots
  <2>1. stage' = "failed" /\ QueryInv'
    BY <1>1 DEF Fill, Fail, QueryInv, query_vars
  <2> QED BY <2>1 DEF GroupsInv, FilledInv, TableStages
<1>2. CASE ~(buckets * size > DeviceSlots)
  <2>1. /\ num_buckets' = buckets /\ places' = size /\ stage' = "assign"
        /\ owner' = [s \in 0 .. buckets * size - 1 |-> NoOwner]
        /\ slot_rows' = [s \in 0 .. buckets * size - 1 |-> 0]
        /\ row_slot' = [r \in InputRows |-> NoSlot]
        /\ probed' = [r \in InputRows |-> 0]
        /\ UNCHANGED query_vars
    BY <1>2 DEF Fill
  <2>2. QueryInv' /\ InputRows' = InputRows /\ TableSlots' = 0 .. buckets * size - 1
    BY <2>1 DEF QueryInv, query_vars, InputRows, TableSlots
  <2>3. TableInv'
    BY <2>1, <2>2 DEF TableInv
  <2>4. PlacedInv' /\ PassedInv'
    BY <2>1, <2>2 DEF PlacedInv, PassedInv
  <2>5. CountInv'
    <3> SUFFICES ASSUME NEW s \in 0 .. buckets * size - 1
                 PROVE  slot_rows'[s] = Cardinality({row \in InputRows : row_slot'[row] = s})
      BY <2>2 DEF CountInv
    <3>1. s # NoSlot
      BY DEF NoSlot
    <3>2. {row \in InputRows : row_slot'[row] = s} = {}
      BY <2>1, <3>1
    <3> QED BY <2>1, <3>2, FS_EmptySet
  <2>6. FilledInv'
    BY <2>1 DEF FilledInv
  <2> QED BY <2>2, <2>3, <2>4, <2>5, <2>6 DEF GroupsInv
<1> QED BY <1>1, <1>2

(* The compare and swap: the slot gets an owner only if it has none, so     *)
(* what earlier rows found stays true.                                     *)
LEMMA ClaimKeeps ==
  ASSUME GroupsInv, NEW row \in InputRows, Claim(row)
  PROVE  GroupsInv'
<1> DEFINE slot == SlotTried(row)
           prev == owner[slot]
           taken == prev = NoOwner \/ SameGroup(row, prev)
<1>1. /\ stage = "assign" /\ QueryInv /\ TableInv /\ PlacedInv /\ PassedInv /\ CountInv
  BY DEF GroupsInv, Claim, TableStages
<1>2. /\ row_slot[row] = NoSlot /\ probed[row] < places
      /\ owner' = IF prev = NoOwner THEN [owner EXCEPT ![slot] = row] ELSE owner
      /\ row_slot' = IF taken THEN [row_slot EXCEPT ![row] = slot] ELSE row_slot
      /\ slot_rows' = IF taken THEN [slot_rows EXCEPT ![slot] = @ + 1] ELSE slot_rows
      /\ probed' = IF taken THEN probed ELSE [probed EXCEPT ![row] = @ + 1]
      /\ input' = input /\ hash' = hash /\ estimate' = estimate /\ stage' = stage
      /\ num_buckets' = num_buckets /\ places' = places
  BY DEF Claim, Trying, query_vars
<1>3. /\ InputRows' = InputRows /\ TableSlots' = TableSlots
      /\ \A r, p : (hash'[input'[r].key] % num_buckets') * places' + p = TriedAt(r, p)
      /\ \A r, q : (input'[r].key = input'[q].key) = SameGroup(r, q)
  BY <1>2 DEF InputRows, TableSlots, TriedAt, SameGroup
<1>4. /\ probed[row] \in 0 .. places - 1 /\ slot = TriedAt(row, probed[row])
      /\ slot \in TableSlots /\ row # NoOwner /\ SameGroup(row, row)
  <2>1. probed[row] \in 0 .. places - 1
    BY <1>1, <1>2 DEF TableInv
  <2>2. TriedAt(row, probed[row]) \in TableSlots
    BY <1>1, <2>1, TriedIsSlot
  <2> QED BY <1>1, <2>1, <2>2, RowsAreNumbers DEF SlotTried, TriedAt, NoOwner, SameGroup
<1> HIDE DEF slot
<1>5. \A s \in TableSlots : owner[s] # NoOwner => owner'[s] = owner[s]
  BY <1>1, <1>2 DEF TableInv
<1>6. taken => owner'[slot] # NoOwner /\ SameGroup(row, owner'[slot])
  BY <1>1, <1>2, <1>4 DEF TableInv
<1>7. ~taken => owner'[slot] # NoOwner /\ ~SameGroup(row, owner'[slot])
  BY <1>2
<1>8. /\ \A r \in InputRows \ {row} : row_slot'[r] = row_slot[r] /\ probed'[r] = probed[r]
      /\ taken => row_slot'[row] = slot /\ probed'[row] = probed[row]
      /\ ~taken => row_slot'[row] = NoSlot /\ probed'[row] = probed[row] + 1
  BY <1>1, <1>2 DEF TableInv
<1>9. TableInv'
  <2>1. owner' \in [TableSlots -> InputRows \cup {NoOwner}]
    BY <1>1, <1>2, <1>4 DEF TableInv
  <2>2. slot_rows' \in [TableSlots -> Nat]
    BY <1>1, <1>2, <1>4 DEF TableInv
  <2>3. row_slot' \in [InputRows -> TableSlots \cup {NoSlot}]
    BY <1>1, <1>2, <1>4 DEF TableInv
  <2>4. probed' \in [InputRows -> 0 .. places]
    BY <1>1, <1>2, <1>4 DEF TableInv
  <2> QED BY <1>1, <1>2, <1>3, <2>1, <2>2, <2>3, <2>4 DEF TableInv
<1> HIDE DEF taken, prev
<1>10. PlacedInv'
  <2> SUFFICES ASSUME NEW r \in InputRows, row_slot'[r] # NoSlot
               PROVE  /\ probed'[r] < places /\ row_slot'[r] = TriedAt(r, probed'[r])
                      /\ owner'[row_slot'[r]] # NoOwner /\ SameGroup(r, owner'[row_slot'[r]])
    BY <1>2, <1>3 DEF PlacedInv, TriedAt, SameGroup
  <2>1. CASE r = row
    BY <2>1, <1>2, <1>4, <1>6, <1>8
  <2>2. CASE r # row
    <3>1. row_slot'[r] = row_slot[r] /\ probed'[r] = probed[r]
      BY <2>2, <1>8
    <3>2. row_slot[r] \in TableSlots
      BY <1>1, <3>1 DEF TableInv
    <3>3. /\ probed[r] < places /\ row_slot[r] = TriedAt(r, probed[r])
          /\ owner[row_slot[r]] # NoOwner /\ SameGroup(r, owner[row_slot[r]])
      BY <1>1, <3>1 DEF PlacedInv
    <3> QED BY <3>1, <3>2, <3>3, <1>5
  <2> QED BY <2>1, <2>2
<1>11. PassedInv'
  <2> SUFFICES ASSUME NEW r \in InputRows, NEW p \in 0 .. probed'[r] - 1
               PROVE  owner'[TriedAt(r, p)] # NoOwner /\ ~SameGroup(r, owner'[TriedAt(r, p)])
    <3>1. /\ input' = input /\ hash' = hash /\ num_buckets' = num_buckets /\ places' = places
          /\ InputRows' = InputRows
      BY <1>2, <1>3
    <3> QED BY <3>1 DEF PassedInv, TriedAt, SameGroup
  <2>1. CASE p \in 0 .. probed[r] - 1
    <3>1. p \in 0 .. places - 1
      BY <1>1, <2>1 DEF TableInv
    <3>2. TriedAt(r, p) \in TableSlots
      BY <1>1, <3>1, TriedIsSlot
    <3>3. owner[TriedAt(r, p)] # NoOwner /\ ~SameGroup(r, owner[TriedAt(r, p)])
      BY <1>1, <2>1 DEF PassedInv
    <3> QED BY <3>2, <3>3, <1>5
  <2>2. CASE p \notin 0 .. probed[r] - 1
    <3>1. probed[r] \in Nat /\ probed[row] \in Nat
      BY <1>1 DEF TableInv
    <3>2. r = row /\ ~taken /\ p = probed[row]
      BY <2>2, <3>1, <1>8
    <3> QED BY <3>2, <1>4, <1>7
  <2> QED BY <2>1, <2>2
<1>12. CountInv'
  <2> SUFFICES ASSUME NEW s \in TableSlots
               PROVE  slot_rows'[s] = Cardinality({r \in InputRows : row_slot'[r] = s})
    BY <1>2, <1>3 DEF CountInv
  <2> DEFINE R == {r \in InputRows : row_slot[r] = s}
             R1 == {r \in InputRows : row_slot'[r] = s}
  <2>1. IsFiniteSet(R) /\ slot_rows[s] = Cardinality(R) /\ slot_rows[s] \in Nat
    BY <1>1, RowsAreNumbers, FS_Subset DEF CountInv, TableInv
  <2>2. s # NoSlot /\ row \notin R
    <3>1. s # NoSlot
      BY DEF TableSlots, NoSlot
    <3> QED BY <3>1, <1>2
  <2>3. CASE taken /\ s = slot
    <3>1. R1 = R \cup {row}
      BY <2>3, <1>8
    <3>2. Cardinality(R1) = Cardinality(R) + 1
      BY <2>1, <2>2, <3>1, FS_AddElement
    <3>3. slot_rows'[s] = slot_rows[s] + 1
      BY <2>3, <1>1, <1>2 DEF TableInv, taken, prev
    <3> QED BY <2>1, <3>2, <3>3
  <2>4. CASE ~(taken /\ s = slot)
    <3>1. R1 = R
      BY <2>2, <2>4, <1>2, <1>8
    <3>2. slot_rows'[s] = slot_rows[s]
      BY <2>4, <1>1, <1>2, <1>4 DEF TableInv, taken, prev
    <3> QED BY <2>1, <3>1, <3>2
  <2> QED BY <2>3, <2>4
<1>13. QueryInv' /\ FilledInv'
  BY <1>1, <1>2 DEF QueryInv, FilledInv
<1> QED BY <1>9, <1>10, <1>11, <1>12, <1>13 DEF GroupsInv

(* A step that leaves the query and the table alone keeps the invariant,    *)
(* unless it claims too early that every row has a slot.                    *)
LEMMA TableUnchanged ==
  ASSUME GroupsInv, UNCHANGED <<query_vars, table_vars>>,
         stage' \in TableStages => stage \in TableStages,
         stage' \in {"grouped", "hash"} => \A row \in InputRows : row_slot[row] # NoSlot
  PROVE  GroupsInv'
<1>1. /\ input' = input /\ hash' = hash /\ estimate' = estimate
      /\ num_buckets' = num_buckets /\ places' = places /\ owner' = owner
      /\ slot_rows' = slot_rows /\ row_slot' = row_slot /\ probed' = probed
  BY DEF query_vars, table_vars
<1>2. QueryInv'
  BY <1>1 DEF GroupsInv, QueryInv
<1>3. stage' \in TableStages => TableInv' /\ PlacedInv' /\ PassedInv' /\ CountInv'
  BY <1>1, SMTT(60) DEF GroupsInv, TableInv, PlacedInv, PassedInv, CountInv, InputRows, TableSlots, TriedAt, SameGroup
<1>4. FilledInv'
  BY <1>1 DEF FilledInv, InputRows
<1> QED BY <1>2, <1>3, <1>4 DEF GroupsInv

LEMMA RetryKeeps ==
  ASSUME GroupsInv, Retry
  PROVE  GroupsInv'
<1>1. QueryInv /\ num_buckets \in Nat \ {0} /\ places \in Nat \ {0}
  BY DEF GroupsInv, Retry, Assigned, TableStages, TableInv
<1>2. MaxBuckets \in Nat \ {0}
  BY <1>1, MaxBucketsType
<1>3. CASE num_buckets < MaxBuckets
  <2> DEFINE S == {num_buckets * Growth, MaxBuckets}
  <2>1. Growth \in {2, 4, 8}
    BY DEF Growth
  <2>2. num_buckets * Growth \in Nat \ {0}
    BY <1>1, <2>1
  <2>3. S \subseteq Nat \ {0} /\ S \subseteq Nat /\ S # {}
    BY <1>2, <2>2
  <2>4. Min(S) \in Nat \ {0}
    BY <2>3, LeastNat
  <2>5. Fill(Min(S), places)
    BY <1>3 DEF Retry
  <2> QED BY <1>1, <2>4, <2>5, FilledTable
<1>4. CASE ~(num_buckets < MaxBuckets)
  <2>1. places * 2 \in Nat \ {0}
    BY <1>1
  <2>2. Fill(num_buckets, places * 2)
    BY <1>4 DEF Retry
  <2> QED BY <1>1, <2>1, <2>2, FilledTable
<1> QED BY <1>3, <1>4

LEMMA AssignBeginKeeps ==
  ASSUME GroupsInv, AssignBegin
  PROVE  GroupsInv'
<1>1. QueryInv /\ GuessedBuckets \in Nat \ {0}
  BY GuessedBucketsType DEF GroupsInv
<1>2. FirstPlaces \in Nat \ {0}
  BY GroupByAssumption
<1>3. Fill(GuessedBuckets, FirstPlaces)
  BY DEF AssignBegin
<1> QED BY <1>1, <1>2, <1>3, FilledTable

(* The slots are read back only when every row has one.                     *)
LEMMA ReadSlotsKeeps ==
  ASSUME GroupsInv, ReadSlots
  PROVE  GroupsInv'
<1>1. /\ stage = "assign" /\ stage' = "grouped" /\ UNCHANGED <<query_vars, table_vars>>
      /\ \A row \in InputRows : row_slot[row] # NoSlot
  BY DEF ReadSlots, Assigned, Overflown
<1> QED BY <1>1, TableUnchanged DEF GroupsInv, TableStages

LEMMA InvarianceStep == GroupsInv /\ [GroupByNext]_groupby_vars => GroupsInv'
<1> SUFFICES ASSUME GroupsInv, [GroupByNext]_groupby_vars PROVE GroupsInv'
  OBVIOUS
<1>1. CASE EmptyInput \/ OnCpu \/ Dense \/ Global \/ CountOnly \/ TileReduce \/ MemberReduce \/ HashEnd
  <2>1. stage' = "done" /\ UNCHANGED <<query_vars, table_vars>>
    BY <1>1 DEF EmptyInput, OnCpu, Dense, Global, CountOnly, TileReduce, MemberReduce, HashEnd, Return
  <2> QED BY <2>1, TableUnchanged DEF TableStages
<1>2. CASE AssignLost
  <2>1. stage' = "failed" /\ UNCHANGED <<query_vars, table_vars>>
    BY <1>2 DEF AssignLost, Fail
  <2> QED BY <2>1, TableUnchanged DEF TableStages
<1>3. CASE HashBegin \/ HashLost \/ \E row \in InputRows : AddLow(row) \/ AddHigh(row)
  <2>1. stage \in {"grouped", "hash"} /\ UNCHANGED <<query_vars, table_vars>>
    BY <1>3 DEF HashBegin, HashLost, AddLow, AddHigh
  <2> QED BY <2>1, TableUnchanged DEF TableStages, GroupsInv, FilledInv
<1>4. CASE UNCHANGED groupby_vars
  <2>1. UNCHANGED <<query_vars, table_vars>> /\ stage' = stage
    BY <1>4 DEF groupby_vars
  <2> QED BY <2>1, TableUnchanged DEF GroupsInv, FilledInv
<1>5. CASE AssignBegin
  BY <1>5, AssignBeginKeeps
<1>6. CASE Retry
  BY <1>6, RetryKeeps
<1>7. CASE ReadSlots
  BY <1>7, ReadSlotsKeeps
<1>8. CASE \E row \in InputRows : Claim(row)
  BY <1>8, ClaimKeeps
<1> QED BY <1>1, <1>2, <1>3, <1>4, <1>5, <1>6, <1>7, <1>8 DEF GroupByNext

(* The invariant of the table holds in every state.                         *)
THEOREM TableInvariance == GroupBySpec => []GroupsInv
<1>1. GroupByInit => GroupsInv
  BY DEF GroupByInit, GroupsInv, QueryInv, FilledInv, TableStages
<1> QED BY <1>1, InvarianceStep, PTL DEF GroupBySpec

-------------------------------------------------------------------------------
(* What it gives                                                           *)

(* Rows that have slots share one exactly when they have the same key.      *)
SlotsByKey ==
  stage \in TableStages =>
    \A r, q \in InputRows : row_slot[r] # NoSlot /\ row_slot[q] # NoSlot =>
      (row_slot[r] = row_slot[q] <=> SameGroup(r, q))

(* Every row has a slot, and each slot has the number of its rows.          *)
EveryRowCounted ==
  stage \in {"grouped", "hash"} =>
    /\ \A row \in InputRows : row_slot[row] \in TableSlots /\ slot_rows[row_slot[row]] > 0
    /\ \A s \in TableSlots : slot_rows[s] = Cardinality({row \in InputRows : row_slot[row] = s})

(* The claims of the hash kernel in qe_aggregate_impl: in no order of the   *)
(* threads and after no retry do two keys share a slot or has a key two.    *)
THEOREM SlotsAreGroups == GroupBySpec => []SlotsByKey
<1>1. GroupsInv => SlotsByKey
  <2> SUFFICES ASSUME GroupsInv, stage \in TableStages
               PROVE  \A r, q \in InputRows : row_slot[r] # NoSlot /\ row_slot[q] # NoSlot =>
                        (row_slot[r] = row_slot[q] <=> SameGroup(r, q))
    BY DEF SlotsByKey
  <2>1. TableInv /\ PlacedInv /\ PassedInv
    BY DEF GroupsInv
  <2>2. ASSUME NEW r \in InputRows, NEW q \in InputRows, row_slot[r] # NoSlot, row_slot[q] # NoSlot,
               SameGroup(r, q)
        PROVE  ~(probed[r] < probed[q])
    <3> SUFFICES ASSUME probed[r] < probed[q] PROVE FALSE
      OBVIOUS
    <3>1. probed[r] \in 0 .. probed[q] - 1
      BY <2>1 DEF TableInv
    <3>2. TriedAt(q, probed[r]) = TriedAt(r, probed[r])
      BY <2>2 DEF TriedAt, SameGroup
    <3>3. ~SameGroup(q, owner[TriedAt(r, probed[r])])
      BY <2>1, <3>1, <3>2 DEF PassedInv
    <3>4. SameGroup(r, owner[TriedAt(r, probed[r])])
      BY <2>1, <2>2 DEF PlacedInv
    <3> QED BY <2>2, <3>3, <3>4 DEF SameGroup
  <2>3. ASSUME NEW r \in InputRows, NEW q \in InputRows, row_slot[r] # NoSlot, row_slot[q] # NoSlot,
               SameGroup(r, q)
        PROVE  row_slot[r] = row_slot[q]
    <3>1. ~(probed[r] < probed[q]) /\ ~(probed[q] < probed[r])
      BY <2>2, <2>3 DEF SameGroup
    <3>2. probed[r] \in Nat /\ probed[q] \in Nat
      BY <2>1 DEF TableInv
    <3>3. probed[r] = probed[q]
      BY <3>1, <3>2
    <3>4. row_slot[r] = TriedAt(r, probed[r]) /\ row_slot[q] = TriedAt(q, probed[q])
      BY <2>1, <2>3 DEF PlacedInv
    <3> QED BY <2>3, <3>3, <3>4 DEF TriedAt, SameGroup
  <2>4. ASSUME NEW r \in InputRows, NEW q \in InputRows, row_slot[r] # NoSlot, row_slot[q] # NoSlot,
               row_slot[r] = row_slot[q]
        PROVE  SameGroup(r, q)
    BY <2>1, <2>4 DEF PlacedInv, SameGroup
  <2> QED BY <2>3, <2>4
<1> QED BY <1>1, TableInvariance, PTL

(* When the slots are read back every row is in one, and a slot counts its  *)
(* rows, which is what a COUNT returns without another reduction.           *)
THEOREM SlotsCountRows == GroupBySpec => []EveryRowCounted
<1>1. GroupsInv => EveryRowCounted
  <2> SUFFICES ASSUME GroupsInv, stage \in {"grouped", "hash"} PROVE EveryRowCounted
    BY DEF EveryRowCounted
  <2>1. QueryInv /\ TableInv /\ CountInv
    BY DEF GroupsInv, TableStages
  <2>2. ASSUME NEW row \in InputRows
        PROVE  row_slot[row] \in TableSlots /\ slot_rows[row_slot[row]] > 0
    <3> DEFINE s == row_slot[row]
               R == {r \in InputRows : row_slot[r] = s}
    <3>1. s \in TableSlots
      BY <2>1 DEF GroupsInv, FilledInv, TableInv
    <3>2. IsFiniteSet(R) /\ row \in R
      BY <2>1, RowsAreNumbers, FS_Subset
    <3>3. slot_rows[s] = Cardinality(R) /\ Cardinality(R) # 0
      BY <2>1, <3>1, <3>2, FS_EmptySet DEF CountInv
    <3>4. slot_rows[s] \in Nat
      BY <2>1, <3>1 DEF TableInv
    <3> QED BY <3>1, <3>3, <3>4
  <2> QED BY <2>1, <2>2 DEF CountInv, EveryRowCounted
<1> QED BY <1>1, TableInvariance, PTL

-------------------------------------------------------------------------------
(* The imports of a stream.                                                *)

(* Every submit of a kernel works: after one that fails a slot is released  *)
(* with its copies running.                                                *)
KernelsStart == "compute" \notin Faults

-------------------------------------------------------------------------------
(* The invariant                                                           *)

(* How many jobs were handed over after job j, when job n is the next one.  *)
Ago(n, j) == IF j < n THEN n - 1 - j ELSE n - 1 - j + JobCap
Behind(j) == Ago(next_job, j)

Queued   == {queue[i] : i \in 1 .. Len(queue)}
Holds(w) == worker[w].at \in {"run", "released", "imported"}
Waking   == {w \in Workers : worker[w].at = "dequeue"}
Runs(j)  == \E w \in Workers : worker[w].at = "run" /\ worker[w].job = j
Active(j) == j \in Queued \/ Runs(j)
Held(j)  == \E w \in Workers : Holds(w) /\ worker[w].job = j

(* The copy of job j waits for it.                                         *)
Wanted(j) == /\ jobs[j].index <= Len(copies[jobs[j].slot])
             /\ copies[jobs[j].slot][jobs[j].index] = j

(* The imports handed to the workers and not made yet.                     *)
Making == {j \in Jobs : ~jobs[j].release /\ Active(j)}

Job == [release : BOOLEAN, object : Nat \cup {None}, slot : Slots, index : Ports,
        ok : BOOLEAN, done : {0, 1}]

Between == {"idle", "finishToOpen", "finishEpoch", "finishToStop", "exit", "done"}

ImportTypeInv ==
  /\ started \in BOOLEAN /\ stop \in BOOLEAN
  /\ queue \in Seq(Jobs) /\ jobs \in [Jobs -> Job] /\ next_job \in Jobs
  /\ work_semaphore \in Nat /\ asked \in Nat
  /\ worker \in [Workers -> [at : {"none", "take", "dequeue", "run", "released", "imported",
                                   "exited"}, job : Jobs \cup {None}]]
  /\ at \in Between \cup {"chunk", "begin", "copy", "submit", "drain", "close", "aborted"}
  /\ cur \in Slots /\ deferred \in Slots \cup {None}
  /\ imports \in [Slots -> [Ports -> Nat \cup {None}]]
  /\ import_count \in [Slots -> 0 .. MaxImports]
  /\ copies \in [Slots -> Seq(Jobs \cup {None})]
  /\ pending \subseteq Slots /\ computing \subseteq Slots /\ device_lost \in BOOLEAN
  /\ reading \in [Slots -> SUBSET Nat]

(* The queue holds the jobs handed over last, a worker one before those,    *)
(* and no two the same; a worker is woken only for a job.                  *)
RingInv ==
  /\ \A i \in 1 .. Len(queue) : Behind(queue[i]) = Len(queue) - i
  /\ Cardinality(Waking) <= Len(queue)
  /\ ~stop => work_semaphore + Cardinality(Waking) <= Len(queue)
  /\ \A w \in Workers : Holds(w) => /\ worker[w].job \in Jobs
                                    /\ Behind(worker[w].job) >= Len(queue)
  /\ \A w, v \in Workers : Holds(w) /\ Holds(v) /\ worker[w].job = worker[v].job => w = v
  /\ \A w \in Workers : /\ worker[w].at = "released" => jobs[worker[w].job].release
                        /\ worker[w].at = "imported" => ~jobs[worker[w].job].release
  /\ ~started /\ at # "done" => \A w \in Workers : worker[w].at = "none"

(* A copy that is not joined has its job, and an import that a worker makes *)
(* or has made has its copy.                                               *)
CopyInv ==
  /\ \A s \in Slots : Len(copies[s]) <= import_count[s]
  /\ \A s \in Slots : \A i \in Unjoined(s) :
       LET j == copies[s][i] IN jobs[j].slot = s /\ jobs[j].index = i /\ ~jobs[j].release
  /\ \A j \in Jobs : jobs[j].done = 1 => ~Active(j) /\ ~Held(j) /\ Wanted(j)
  /\ \A j \in Making : Wanted(j)
  /\ \A w \in Workers : worker[w].at = "imported" => Wanted(worker[w].job)

(* Where the caller is says which slots have copies that are not joined,    *)
(* and how long ago their jobs were handed over.                           *)
PlaceInv ==
  /\ at \in Between => \A s \in Slots : Unjoined(s) = {} /\ \A k \in Ports : imports[s][k] = None
  /\ at \in {"chunk", "begin"} => \A s \in Slots : s # deferred => Unjoined(s) = {}
  /\ at \in {"copy", "submit"} => \A s \in Slots \ {cur, deferred} : Unjoined(s) = {}
  /\ at = "submit" => deferred # None
  /\ at = "copy" => Len(copies[cur]) = import_count[cur]
  /\ at \in {"begin", "copy"} => cur \notin pending
  /\ at = "close" => pending = {}

AgeInv ==
  /\ at = "chunk" /\ deferred # None =>
       \A i \in Unjoined(deferred) : Behind(copies[deferred][i]) < MaxImports
  /\ at = "begin" /\ deferred # None =>
       \A i \in Unjoined(deferred) :
         /\ Behind(copies[deferred][i]) < 2 * MaxImports
         /\ deferred = cur => Behind(copies[deferred][i]) < MaxImports
         /\ \A k \in Unreleased(cur) : Behind(copies[deferred][i]) < MaxImports + k - 1
  /\ at = "copy" /\ deferred # None /\ deferred # cur =>
       \A i \in Unjoined(deferred) :
         Behind(copies[deferred][i]) < 2 * MaxImports + import_count[cur]
  /\ at = "copy" => \A i \in Unjoined(cur) : Behind(copies[cur][i]) < import_count[cur]
  /\ at = "submit" => \A i \in Unjoined(cur) : Behind(copies[cur][i]) < MaxImports

Kept == {imports[s][k] : s \in Slots, k \in Ports} \ {None}

(* What exists is either kept by a slot, once, or waits to be released,     *)
(* once; what is being made is neither.                                    *)
ObjectInv ==
  /\ live = Kept \cup {jobs[j].object : j \in Releasing}
  /\ live \subseteq 1 .. asked
  /\ \A s \in Slots, k \in Ports : k > import_count[s] => imports[s][k] = None
  /\ \A s, t \in Slots, k, l \in Ports :
       imports[s][k] # None /\ imports[s][k] = imports[t][l] => s = t /\ k = l
  /\ \A j \in Releasing : jobs[j].object \notin Kept
  /\ \A j, i \in Releasing : jobs[j].object = jobs[i].object => j = i
  /\ \A j \in Making : /\ imports[jobs[j].slot][jobs[j].index] = None
                       /\ jobs[j].object \in 1 .. asked /\ jobs[j].object \notin live
  /\ \A j, i \in Making : jobs[j].object = jobs[i].object => j = i

(* The device reads what a slot keeps, and only for a slot not waited for.  *)
DeviceInv ==
  /\ \A s \in Slots : reading[s] \subseteq {imports[s][k] : k \in Ports} \ {None}
  /\ \A s \in Slots : reading[s] # {} => s \in computing /\ ~device_lost
  /\ ~device_lost => computing \subseteq pending

ImportInv == ImportTypeInv /\ RingInv /\ CopyInv /\ PlaceInv /\ AgeInv /\ ObjectInv /\ DeviceInv

-------------------------------------------------------------------------------
(* The ring of jobs                                                        *)

LEMMA Sizes ==
  /\ JobCap \in Nat /\ SlotCount \in Nat /\ MaxImports \in Nat /\ MaxImports > 0
  /\ 2 * MaxImports <= JobCap
  /\ SlotCount > 1 => 4 * MaxImports <= JobCap
<1>1. /\ JobCap \in Nat /\ SlotCount \in Nat /\ SlotCount > 0
      /\ MaxImports \in Nat /\ MaxImports > 0 /\ 2 * SlotCount * MaxImports <= JobCap
  BY ImportAssumption
<1>2. \A n \in Nat : n > 0 => MaxImports <= n * MaxImports
  BY <1>1, Z3
<1>3. SlotCount * MaxImports = (SlotCount - 1) * MaxImports + MaxImports
  BY <1>1, Z3
<1>4. /\ SlotCount * MaxImports \in Nat
      /\ SlotCount > 1 => 2 * MaxImports <= SlotCount * MaxImports
  BY <1>1, <1>2, <1>3, Z3
<1>5. 2 * SlotCount * MaxImports = 2 * (SlotCount * MaxImports)
  BY <1>1, Z3
<1> DEFINE all == SlotCount * MaxImports
<1>6. MaxImports <= all /\ all \in Nat /\ (SlotCount > 1 => 2 * MaxImports <= all)
      /\ 2 * all <= JobCap
  BY <1>1, <1>2, <1>4, <1>5
<1> HIDE DEF all
<1> QED BY <1>1, <1>6

LEMMA NextIs ==
  ASSUME NEW n \in Jobs
  PROVE  /\ (n + 1) % JobCap \in Jobs
         /\ (n + 1) % JobCap = IF n + 1 = JobCap THEN 0 ELSE n + 1
<1>1. JobCap \in Nat /\ JobCap > 0 /\ n \in Nat /\ n < JobCap
  BY Sizes DEF Jobs
<1>2. CASE n + 1 = JobCap
  BY <1>1, <1>2, Z3 DEF Jobs
<1>3. CASE n + 1 < JobCap
  BY <1>1, <1>3, Z3 DEF Jobs
<1> QED BY <1>1, <1>2, <1>3

(* A job handed over makes every other job one older.                      *)
LEMMA AgoIs ==
  ASSUME NEW n \in Jobs, NEW j \in Jobs
  PROVE  /\ Ago(n, j) \in 0 .. JobCap - 1
         /\ j # n => Ago(n, j) < JobCap - 1
         /\ Ago(n, n) = JobCap - 1
         /\ j # n => Ago((n + 1) % JobCap, j) = Ago(n, j) + 1
         /\ Ago((n + 1) % JobCap, n) = 0
<1>1. JobCap \in Nat /\ JobCap > 0 /\ n \in 0 .. JobCap - 1 /\ j \in 0 .. JobCap - 1
  BY Sizes DEF Jobs
<1> DEFINE m == (n + 1) % JobCap
<1>2. m = IF n + 1 = JobCap THEN 0 ELSE n + 1
  BY NextIs
<1> HIDE DEF m
<1>3. /\ Ago(n, j) \in 0 .. JobCap - 1
      /\ j # n => Ago(n, j) < JobCap - 1
      /\ Ago(n, n) = JobCap - 1
  BY <1>1 DEF Ago
<1>4. /\ j # n => Ago(m, j) = Ago(n, j) + 1
      /\ Ago(m, n) = 0
  BY <1>1, <1>2 DEF Ago
<1> QED BY <1>3, <1>4 DEF m

(* Jobs handed over at different times differ.                             *)
LEMMA AgoTells ==
  ASSUME NEW n \in Jobs, NEW j \in Jobs, NEW i \in Jobs, Ago(n, i) = Ago(n, j)
  PROVE  i = j
BY Sizes DEF Jobs, Ago

(* An unjoined copy has a job, and no two copies the same.                 *)
LEMMA UnjoinedIs ==
  ASSUME ImportTypeInv, CopyInv, NEW s \in Slots, NEW i \in Unjoined(s)
  PROVE  /\ i \in 1 .. Len(copies[s]) /\ i \in Ports
         /\ copies[s][i] \in Jobs
         /\ jobs[copies[s][i]].slot = s /\ jobs[copies[s][i]].index = i
         /\ ~jobs[copies[s][i]].release
<1>1. i \in 1 .. Len(copies[s]) /\ copies[s][i] # None
  BY DEF Unjoined
<1>2. copies[s] \in Seq(Jobs \cup {None}) /\ import_count[s] \in 0 .. MaxImports
  BY DEF ImportTypeInv
<1>3. copies[s][i] \in Jobs
  BY <1>1, <1>2
<1>4. Len(copies[s]) <= import_count[s]
  BY DEF CopyInv
<1>5. i \in Ports
  BY <1>1, <1>2, <1>4, Sizes DEF Ports
<1> QED BY <1>1, <1>3, <1>5 DEF CopyInv

(* A job whose copy waits for it is that of an unjoined copy.              *)
LEMMA WantedIs ==
  ASSUME ImportTypeInv, NEW j \in Jobs, Wanted(j)
  PROVE  /\ jobs[j].slot \in Slots /\ jobs[j].index \in Unjoined(jobs[j].slot)
         /\ jobs[j].index \in Ports
         /\ copies[jobs[j].slot][jobs[j].index] = j
<1>1. jobs[j] \in Job
  BY DEF ImportTypeInv
<1>2. j # None
  BY ImportAssumption, Sizes DEF Jobs
<1> QED BY <1>1, <1>2 DEF Wanted, Unjoined, Job, Ports

-------------------------------------------------------------------------------
(* Handing over a job                                                      *)

(* Where the caller hands over a job, and what it has made sure of there.   *)
MayHandOver ==
  /\ CanReserve /\ WorkersKeepUp
  /\ \/ at = "begin" /\ Unjoined(cur) = {}
     \/ at = "copy" /\ import_count[cur] < MaxImports
     \/ at = "close" /\ AllJoined

(* The entry of the ring that is taken is nobody's.                        *)
LEMMA NextIsFree ==
  ASSUME ImportInv, MayHandOver
  PROVE  /\ next_job \notin Queued /\ ~Held(next_job) /\ ~Active(next_job)
         /\ \A s \in Slots : \A i \in Unjoined(s) : copies[s][i] # next_job
         /\ jobs[next_job].done = 0
<1>0. /\ ImportTypeInv /\ RingInv /\ CopyInv /\ PlaceInv /\ AgeInv
      /\ next_job \in Jobs
  BY DEF ImportInv, ImportTypeInv
<1>1. Ago(next_job, next_job) = JobCap - 1 /\ JobCap \in Nat
  BY <1>0, AgoIs, Sizes
<1>2. \A s \in Slots : \A i \in Unjoined(s) : copies[s][i] # next_job
  <2> SUFFICES ASSUME NEW s \in Slots, NEW i \in Unjoined(s)
               PROVE  Behind(copies[s][i]) < JobCap - 1
    BY <1>0, <1>1, UnjoinedIs, AgoIs DEF Behind
  <2>1. copies[s][i] \in Jobs
    BY <1>0, UnjoinedIs
  <2>2. Behind(copies[s][i]) \in Nat
    BY <1>0, <2>1, AgoIs, Sizes DEF Behind
  <2>3. cur \in Slots /\ deferred \in Slots \cup {None} /\ import_count[cur] \in 0 .. MaxImports
    BY <1>0 DEF ImportTypeInv
  <2>4. s # cur /\ s = deferred => 4 * MaxImports <= JobCap
    BY <2>3, Sizes DEF Slots
  <2>5. CASE at = "begin" /\ Unjoined(cur) = {}
    <3>1. s = deferred /\ s # cur /\ deferred # None
      BY <1>0, <2>5, ImportAssumption DEF PlaceInv, Slots
    <3>2. Behind(copies[s][i]) < 2 * MaxImports
      BY <1>0, <2>5, <3>1 DEF AgeInv
    <3> QED BY <2>2, <2>4, <3>1, <3>2, Sizes
  <2>6. CASE at = "copy" /\ import_count[cur] < MaxImports
    <3>1. CASE s = cur
      <4>1. Behind(copies[s][i]) < import_count[cur]
        BY <1>0, <2>6, <3>1 DEF AgeInv
      <4> QED BY <2>2, <2>3, <2>6, <4>1, Sizes
    <3>2. CASE s # cur
      <4>1. s = deferred /\ deferred # None
        BY <1>0, <2>6, <3>2, ImportAssumption DEF PlaceInv, Slots
      <4>2. Behind(copies[s][i]) < 2 * MaxImports + import_count[cur]
        BY <1>0, <2>6, <3>2, <4>1 DEF AgeInv
      <4> QED BY <2>2, <2>3, <2>4, <2>6, <3>2, <4>1, <4>2, Sizes
    <3> QED BY <3>1, <3>2
  <2>7. CASE at = "close" /\ AllJoined
    BY <2>7 DEF AllJoined
  <2> QED BY <2>5, <2>6, <2>7 DEF MayHandOver
<1>3. next_job \notin Queued
  <2> SUFFICES ASSUME NEW i \in 1 .. Len(queue), queue[i] = next_job PROVE FALSE
    BY DEF Queued
  <2>1. Behind(queue[i]) = Len(queue) - i
    BY <1>0 DEF RingInv
  <2>2. 2 * Len(queue) < JobCap /\ Len(queue) \in Nat
    BY <1>0 DEF MayHandOver, CanReserve, ImportTypeInv
  <2>3. Len(queue) - i = JobCap - 1
    BY <1>1, <2>1 DEF Behind
  <2> QED BY <1>1, <2>2, <2>3
<1>4. \A j \in Jobs : Wanted(j) => j # next_job
  BY <1>0, <1>2, WantedIs
<1>5. ~Held(next_job)
  <2> SUFFICES ASSUME NEW w \in Workers, Holds(w), worker[w].job = next_job PROVE FALSE
    BY DEF Held
  <2>1. ~jobs[next_job].release
    BY DEF MayHandOver, WorkersKeepUp
  <2>2. worker[w].at \in {"run", "imported"}
    BY <1>0, <2>1 DEF RingInv, Holds
  <2>3. CASE worker[w].at = "run"
    <3>1. next_job \in Making
      BY <1>0, <2>1, <2>3 DEF Making, Active, Runs
    <3> QED BY <1>0, <1>4, <3>1 DEF CopyInv
  <2>4. CASE worker[w].at = "imported"
    BY <1>0, <1>4, <2>4 DEF CopyInv
  <2> QED BY <2>2, <2>3, <2>4
<1>6. ~Active(next_job)
  BY <1>3, <1>5 DEF Active, Runs, Held, Holds
<1>7. jobs[next_job].done = 0
  <2>1. jobs[next_job].done \in {0, 1}
    BY <1>0 DEF ImportTypeInv, Job
  <2> QED BY <1>0, <1>4, <2>1 DEF CopyInv
<1> QED BY <1>2, <1>3, <1>5, <1>6, <1>7

(* What handing over a job does to the ring and to nothing else.           *)
LEMMA HandOverIs ==
  ASSUME ImportInv, MayHandOver, NEW release \in BOOLEAN, NEW object \in Nat, NEW slot \in Slots,
         NEW index \in Ports, HandOver(release, object, slot, index), UNCHANGED worker
  PROVE  /\ queue' \in Seq(Jobs) /\ next_job' \in Jobs /\ work_semaphore' \in Nat
         /\ jobs' \in [Jobs -> Job]
         /\ \A j \in Jobs : j # next_job => jobs'[j] = jobs[j]
         /\ jobs'[next_job].release = release /\ jobs'[next_job].object = object
         /\ jobs'[next_job].slot = slot /\ jobs'[next_job].index = index
         /\ jobs'[next_job].done = 0
         /\ Len(queue') = Len(queue) + 1
         /\ \A i \in 1 .. Len(queue) : queue'[i] = queue[i]
         /\ queue'[Len(queue) + 1] = next_job
         /\ \A j : Active(j)' <=> Active(j) \/ j = next_job
         /\ \A j : Held(j)' <=> Held(j)
         /\ \A j \in Jobs : j # next_job => Ago(next_job', j) = Ago(next_job, j) + 1
         /\ Ago(next_job', next_job) = 0
<1>1. /\ ImportTypeInv /\ next_job \in Jobs /\ queue \in Seq(Jobs) /\ jobs \in [Jobs -> Job]
      /\ work_semaphore \in Nat
  BY DEF ImportInv, ImportTypeInv
<1>2. queue' = Append(queue, next_job) /\ next_job' = (next_job + 1) % JobCap
  BY DEF HandOver
<1>3. work_semaphore' \in Nat
  BY <1>1 DEF HandOver
<1>4. jobs[next_job].done = 0
  BY NextIsFree
<1> DEFINE job == [release |-> release, object |-> object, slot |-> slot, index |-> index,
                   ok |-> FALSE, done |-> 0]
<1>5. jobs' = [jobs EXCEPT ![next_job] = job]
  BY <1>1, <1>4 DEF HandOver
<1>6. job \in Job
  BY DEF Job
<1>7. /\ jobs' \in [Jobs -> Job] /\ jobs'[next_job] = job
      /\ \A j \in Jobs : j # next_job => jobs'[j] = jobs[j]
  <2> HIDE DEF job
  <2> QED BY <1>1, <1>5, <1>6
<1>8. /\ queue' \in Seq(Jobs) /\ Len(queue') = Len(queue) + 1
      /\ \A i \in 1 .. Len(queue) : queue'[i] = queue[i]
      /\ queue'[Len(queue) + 1] = next_job
  BY <1>1, <1>2, AppendProperties
<1>9. \A j : j \in Queued' <=> j \in Queued \/ j = next_job
  <2>1. Len(queue) \in Nat
    BY <1>1
  <2>2. \A i : i \in 1 .. Len(queue') <=> i \in 1 .. Len(queue) \/ i = Len(queue) + 1
    BY <1>8, <2>1
  <2> QED BY <1>8, <2>2 DEF Queued
<1>10. \A j : (Runs(j)' <=> Runs(j)) /\ (Held(j)' <=> Held(j))
  BY DEF Runs, Held, Holds
<1>11. \A j : Active(j)' <=> Active(j) \/ j = next_job
  BY <1>9, <1>10 DEF Active
<1>12. /\ next_job' \in Jobs
       /\ \A j \in Jobs : j # next_job => Ago(next_job', j) = Ago(next_job, j) + 1
       /\ Ago(next_job', next_job) = 0
  BY <1>1, <1>2, NextIs, AgoIs
<1> QED BY <1>3, <1>7, <1>8, <1>10, <1>11, <1>12

LEMMA HandOverRing ==
  ASSUME ImportInv, MayHandOver, NEW release \in BOOLEAN, NEW object \in Nat, NEW slot \in Slots,
         NEW index \in Ports, HandOver(release, object, slot, index),
         UNCHANGED <<worker, started, stop>>
  PROVE  RingInv'
<1>1. ImportTypeInv /\ RingInv /\ queue \in Seq(Jobs) /\ next_job \in Jobs /\ Len(queue) \in Nat
  BY DEF ImportInv, ImportTypeInv
<1>2. \A i \in 1 .. Len(queue') : Ago(next_job', queue'[i]) = Len(queue') - i
  <2> TAKE i \in 1 .. Len(queue')
  <2>1. CASE i \in 1 .. Len(queue)
    <3>1. queue[i] \in Jobs /\ queue[i] # next_job
      BY <1>1, <2>1, NextIsFree DEF Queued
    <3>2. Ago(next_job, queue[i]) = Len(queue) - i
      BY <1>1, <2>1 DEF RingInv, Behind
    <3> QED BY <1>1, <2>1, <3>1, <3>2, HandOverIs
  <2>2. CASE i = Len(queue) + 1
    BY <1>1, <2>2, HandOverIs
  <2>3. Len(queue') = Len(queue) + 1
    BY HandOverIs
  <2> QED BY <1>1, <2>1, <2>2, <2>3
<1>3. Waking' = Waking
  BY DEF Waking
<1>4. IsFiniteSet(Waking) /\ Cardinality(Waking) \in Nat
  BY ImportAssumption, FS_Subset, FS_CardinalityType DEF Waking
<1>5. /\ Cardinality(Waking') <= Len(queue')
      /\ ~stop' => work_semaphore' + Cardinality(Waking') <= Len(queue')
  <2>1. Len(queue') = Len(queue) + 1
    BY HandOverIs
  <2>2. work_semaphore' \in {work_semaphore, work_semaphore + 1} /\ work_semaphore \in Nat
    BY <1>1 DEF HandOver, ImportTypeInv
  <2> QED BY <1>1, <1>3, <1>4, <2>1, <2>2 DEF RingInv
<1>6. ASSUME NEW w \in Workers, Holds(w)
      PROVE  /\ worker[w].job \in Jobs /\ worker[w].job # next_job
             /\ Ago(next_job', worker[w].job) >= Len(queue')
             /\ jobs'[worker[w].job] = jobs[worker[w].job]
  <2>1. worker[w].job \in Jobs /\ Ago(next_job, worker[w].job) >= Len(queue)
    BY <1>1, <1>6 DEF RingInv, Behind
  <2>2. worker[w].job # next_job
    BY <1>6, NextIsFree DEF Held
  <2>3. Ago(next_job, worker[w].job) \in Nat
    BY <1>1, <2>1, AgoIs, Sizes
  <2> QED BY <1>1, <2>1, <2>2, <2>3, HandOverIs
<1>7. \A w \in Workers : Holds(w)' <=> Holds(w)
  BY DEF Holds
<1>8. started /\ started'
  BY DEF MayHandOver, CanReserve
<1>9. ASSUME NEW w \in Workers
      PROVE  /\ worker'[w].at = "released" => jobs'[worker'[w].job].release
             /\ worker'[w].at = "imported" => ~jobs'[worker'[w].job].release
  BY <1>1, <1>6 DEF RingInv, Holds
<1> QED BY <1>1, <1>2, <1>5, <1>6, <1>7, <1>8, <1>9 DEF RingInv, Behind

-------------------------------------------------------------------------------
(* Giving up an import                                                     *)

(* An import that a slot keeps exists, and nobody else has it.             *)
LEMMA KeptIs ==
  ASSUME NEW o
  PROVE  o \in Kept <=> o # None /\ \E s \in Slots, k \in Ports : o = imports[s][k]
BY DEF Kept

LEMMA UnreleasedIs ==
  ASSUME ImportInv, NEW s \in Slots, NEW k \in Unreleased(s)
  PROVE  /\ k \in Ports /\ k <= import_count[s]
         /\ imports[s][k] # None /\ imports[s][k] \in Nat
         /\ imports[s][k] \in Kept /\ imports[s][k] \in live
<1>1. ImportTypeInv
  BY DEF ImportInv
<1>2. /\ imports \in [Slots -> [Ports -> Nat \cup {None}]] /\ import_count[s] \in 0 .. MaxImports
  BY <1>1 DEF ImportTypeInv
<1>3. k \in Ports /\ k <= import_count[s] /\ imports[s][k] # None
  BY <1>2, Sizes DEF Unreleased, Ports
<1>4. imports[s][k] \in Nat
  BY <1>2, <1>3
<1>5. imports[s][k] \in Kept
  BY <1>3, KeptIs
<1> QED BY <1>3, <1>4, <1>5 DEF ImportInv, ObjectInv

(* What is left of the imports when one is given up.                       *)
LEMMA ImportsWithout ==
  ASSUME ImportInv, NEW s \in Slots, NEW k \in Unreleased(s),
         imports' = [imports EXCEPT ![s][k] = None]
  PROVE  /\ imports' \in [Slots -> [Ports -> Nat \cup {None}]]
         /\ \A t \in Slots, l \in Ports :
              imports'[t][l] = IF t = s /\ l = k THEN None ELSE imports[t][l]
         /\ Kept' = Kept \ {imports[s][k]}
<1>1. ImportTypeInv /\ imports \in [Slots -> [Ports -> Nat \cup {None}]] /\ k \in Ports
  BY UnreleasedIs DEF ImportInv, ImportTypeInv
<1> DEFINE row == [imports[s] EXCEPT ![k] = None]
<1>2. imports' = [imports EXCEPT ![s] = row]
  BY <1>1
<1>3. /\ row \in [Ports -> Nat \cup {None}] /\ row[k] = None
      /\ \A l \in Ports : l # k => row[l] = imports[s][l]
  BY <1>1
<1> HIDE DEF row
<1>4. /\ imports' \in [Slots -> [Ports -> Nat \cup {None}]] /\ imports'[s] = row
      /\ \A t \in Slots : t # s => imports'[t] = imports[t]
  BY <1>1, <1>2, <1>3
<1>5. \A t \in Slots, l \in Ports :
        imports'[t][l] = IF t = s /\ l = k THEN None ELSE imports[t][l]
  BY <1>3, <1>4
<1>6. \A o : o \in Kept' <=> o \in Kept /\ o # imports[s][k]
  <2> TAKE o
  <2>1. o \in Kept' <=> o # None /\ \E t \in Slots, l \in Ports : o = imports'[t][l]
    BY DEF Kept
  <2>2. o \in Kept <=> o # None /\ \E t \in Slots, l \in Ports : o = imports[t][l]
    BY KeptIs
  <2>3. \A t \in Slots, l \in Ports : imports[t][l] = imports[s][k] => t = s /\ l = k
    BY <1>1, UnreleasedIs DEF ImportInv, ObjectInv
  <2>4. imports[s][k] # None
    BY UnreleasedIs
  <2> QED BY <1>1, <1>5, <2>1, <2>2, <2>3, <2>4
<1>7. Kept' = Kept \ {imports[s][k]}
  BY <1>6
<1> QED BY <1>4, <1>5, <1>7

(* Nothing is read from a slot that is not waited for.                     *)
LEMMA NotPendingNotRead ==
  ASSUME DeviceInv, NEW s \in Slots, s \notin pending
  PROVE  reading[s] = {}
BY DEF DeviceInv

LEMMA Releases ==
  ASSUME ImportInv, NEW s \in Slots, ReleaseImport(s),
         \/ at = "begin" /\ s = cur /\ Unjoined(cur) = {}
         \/ at = "close" /\ AllJoined,
         UNCHANGED <<started, stop, release_semaphore, worker, place, import_count, copies,
                     pending, ok, device, asked, opened>>
  PROVE  ImportInv'
<1>0. /\ ImportTypeInv /\ RingInv /\ CopyInv /\ PlaceInv /\ AgeInv /\ ObjectInv /\ DeviceInv
      /\ cur \in Slots /\ next_job \in Jobs
  BY DEF ImportInv, ImportTypeInv
<1> PICK k \in Unreleased(s) :
      /\ \A i \in Unreleased(s) : k <= i
      /\ imports' = [imports EXCEPT ![s][k] = None]
      /\ \/ /\ CanReserve
            /\ HandOver(TRUE, imports[s][k], s, k)
            /\ UNCHANGED live
         \/ /\ ~CanReserve
            /\ live' = live \ {imports[s][k]}
            /\ UNCHANGED <<queue, jobs, next_job, work_semaphore>>
  BY DEF ReleaseImport
<1> DEFINE o == imports[s][k]
<1>1. k \in Ports /\ k <= import_count[s] /\ o # None /\ o \in Nat /\ o \in Kept /\ o \in live
  BY UnreleasedIs
<1>2. /\ imports' \in [Slots -> [Ports -> Nat \cup {None}]]
      /\ \A t \in Slots, l \in Ports :
           imports'[t][l] = IF t = s /\ l = k THEN None ELSE imports[t][l]
      /\ Kept' = Kept \ {o}
  BY ImportsWithout
<1>3. /\ UNCHANGED <<at, cur, deferred, import_count, copies, pending, reading, computing,
                     device_lost, asked, started, stop, worker>>
      /\ \A t \in Slots : Unjoined(t)' = Unjoined(t)
      /\ Unjoined(cur)' = Unjoined(cur) /\ Unjoined(deferred)' = Unjoined(deferred)
      /\ at \in {"begin", "close"}
  BY DEF place, device, Unjoined
<1>4. reading[s] = {}
  <2>1. s \notin pending
    BY <1>0 DEF PlaceInv
  <2> QED BY <1>0, <2>1, NotPendingNotRead
<1>5. DeviceInv'
  <2>1. ASSUME NEW t \in Slots
        PROVE  reading'[t] \subseteq {imports'[t][l] : l \in Ports} \ {None}
    <3>1. reading[t] \subseteq {imports[t][l] : l \in Ports} \ {None}
      BY <1>0 DEF DeviceInv
    <3>2. t # s => \A l \in Ports : imports'[t][l] = imports[t][l]
      BY <1>2
    <3> QED BY <1>3, <1>4, <3>1, <3>2
  <2> QED BY <1>0, <1>3, <2>1 DEF DeviceInv
<1>6. PlaceInv'
  BY <1>0, <1>3 DEF PlaceInv, Between
<1>7. /\ \A t \in Slots, l \in Ports : l > import_count'[t] => imports'[t][l] = None
      /\ \A t, r \in Slots, l, m \in Ports :
           imports'[t][l] # None /\ imports'[t][l] = imports'[r][m] => t = r /\ l = m
  BY <1>0, <1>2, <1>3, SMTT(60) DEF ObjectInv
<1>8. \A i \in Making : i \in Jobs /\ imports[jobs[i].slot][jobs[i].index] = None
        /\ jobs[i].slot \in Slots /\ jobs[i].index \in Ports
  BY <1>0 DEF ObjectInv, Making, ImportTypeInv, Job
<1>9. Unreleased(cur)' \subseteq Unreleased(cur) /\ (s = cur => k \notin Unreleased(cur)')
  <2>1. import_count[cur] \in 0 .. MaxImports
    BY <1>0 DEF ImportTypeInv
  <2>2. \A l \in 1 .. import_count[cur] : l \in Ports
    BY <2>1, Sizes DEF Ports
  <2> QED BY <1>0, <1>1, <1>2, <1>3, <2>1, <2>2 DEF Unreleased
<1>10. CASE ~CanReserve
  <2>1. UNCHANGED <<queue, jobs, next_job, work_semaphore>> /\ live' = live \ {o}
    BY <1>10
  <2>2. /\ \A j : Active(j)' = Active(j) /\ Held(j)' = Held(j) /\ Wanted(j)' = Wanted(j)
        /\ Releasing' = Releasing /\ Making' = Making /\ Waking' = Waking
        /\ \A j : Behind(j)' = Behind(j)
    BY <1>3, <2>1 DEF Active, Queued, Runs, Held, Holds, Wanted, Releasing, Making, Waking,
                      Behind
  <2>3. ImportTypeInv'
    BY <1>0, <1>2, <1>3, <2>1 DEF ImportTypeInv
  <2>4. RingInv'
    BY <1>0, <1>3, <2>1, <2>2, SMTT(60) DEF RingInv, Holds, Behind
  <2>5. CopyInv'
    BY <1>0, <1>3, <2>1, <2>2, SMTT(60) DEF CopyInv
  <2>6. AgeInv'
    BY <1>0, <1>3, <1>9, <2>1 DEF AgeInv, Behind
  <2>7. ObjectInv'
    <3>1. live' = Kept' \cup {jobs'[j].object : j \in Releasing'}
      BY <1>0, <1>1, <1>2, <2>1, <2>2 DEF ObjectInv
    <3>2. live' \subseteq 1 .. asked'
      BY <1>0, <1>3, <2>1 DEF ObjectInv
    <3>3. \A j \in Releasing' : jobs'[j].object \notin Kept'
      BY <1>0, <1>2, <2>1, <2>2 DEF ObjectInv
    <3>4. \A j, i \in Releasing' : jobs'[j].object = jobs'[i].object => j = i
      BY <1>0, <2>1, <2>2 DEF ObjectInv
    <3>5. \A j \in Making' : /\ imports'[jobs'[j].slot][jobs'[j].index] = None
                             /\ jobs'[j].object \in 1 .. asked' /\ jobs'[j].object \notin live'
      BY <1>0, <1>2, <1>3, <1>8, <2>1, <2>2, SMTT(60) DEF ObjectInv
    <3>6. \A j, i \in Making' : jobs'[j].object = jobs'[i].object => j = i
      BY <1>0, <2>1, <2>2 DEF ObjectInv
    <3> QED BY <1>7, <3>1, <3>2, <3>3, <3>4, <3>5, <3>6 DEF ObjectInv
  <2> QED BY <1>5, <1>6, <2>3, <2>4, <2>5, <2>6, <2>7 DEF ImportInv
<1>11. CASE CanReserve
  <2>1. HandOver(TRUE, o, s, k) /\ UNCHANGED live
    BY <1>11
  <2>2. MayHandOver
    BY <1>11, <2>1 DEF MayHandOver, HandOver
  <2> HIDE DEF o
  <2>3. /\ queue' \in Seq(Jobs) /\ next_job' \in Jobs /\ work_semaphore' \in Nat
        /\ jobs' \in [Jobs -> Job]
        /\ \A j \in Jobs : j # next_job => jobs'[j] = jobs[j]
        /\ jobs'[next_job].release = TRUE /\ jobs'[next_job].object = o
        /\ jobs'[next_job].done = 0
        /\ \A j : Active(j)' <=> Active(j) \/ j = next_job
        /\ \A j : Held(j)' <=> Held(j)
        /\ \A j \in Jobs : j # next_job => Ago(next_job', j) = Ago(next_job, j) + 1
    BY <1>1, <1>3, <2>1, <2>2, HandOverIs
  <2>4. /\ ~Active(next_job) /\ ~Held(next_job)
        /\ \A t \in Slots : \A i \in Unjoined(t) : copies[t][i] # next_job
    BY <2>2, NextIsFree
  <2>5. ImportTypeInv'
    BY <1>0, <1>2, <1>3, <2>1, <2>3 DEF ImportTypeInv
  <2>6. RingInv'
    BY <1>1, <1>3, <2>1, <2>2, HandOverRing
  <2>7. Making' = Making /\ next_job \notin Making
    BY <2>3, <2>4 DEF Making
  <2>8. Releasing' = Releasing \cup {next_job} /\ next_job \notin Releasing
    <3>1. Releasing = {j \in Jobs : jobs[j].release /\ Active(j)}
      BY Zenon DEF Releasing, Active, Queued, Runs
    <3>2. Releasing' = {j \in Jobs : jobs'[j].release /\ Active(j)'}
      BY Zenon DEF Releasing, Active, Queued, Runs
    <3> QED BY <1>0, <2>3, <2>4, <3>1, <3>2
  <2>9. CopyInv'
    <3>1. \A j \in Jobs : j # next_job => (Wanted(j)' <=> Wanted(j))
      BY <1>3, <2>3 DEF Wanted
    <3>2. \A t \in Slots : Len(copies'[t]) <= import_count'[t]
      BY <1>0, <1>3 DEF CopyInv
    <3>3. \A t \in Slots : \A i \in Unjoined(t)' :
            /\ jobs'[copies'[t][i]].slot = t /\ jobs'[copies'[t][i]].index = i
            /\ ~jobs'[copies'[t][i]].release
      BY <1>0, <1>3, <2>3, <2>4, UnjoinedIs
    <3>4. \A j \in Jobs : jobs'[j].done = 1 => ~Active(j)' /\ ~Held(j)' /\ Wanted(j)'
      BY <1>0, <2>3, <3>1 DEF CopyInv
    <3>5. \A j \in Making' : Wanted(j)'
      BY <1>0, <2>7, <3>1 DEF CopyInv, Making
    <3>6. \A w \in Workers : (worker[w].at = "imported" => Wanted(worker[w].job))'
      <4> SUFFICES ASSUME NEW w \in Workers, worker[w].at = "imported"
                   PROVE  Wanted(worker[w].job)'
        BY <1>3
      <4>1. Holds(w) /\ worker[w].job \in Jobs
        BY <1>0 DEF Holds, RingInv
      <4>2. worker[w].job # next_job
        BY <2>4, <4>1 DEF Held
      <4> DEFINE j == worker[w].job
      <4>3. Wanted(j) /\ j \in Jobs /\ j # next_job
        BY <1>0, <4>1, <4>2 DEF CopyInv
      <4>4. j' = j
        BY <1>3
      <4> QED BY <1>3, <2>3, <4>3, <4>4 DEF Wanted
    <3> QED BY <3>2, <3>3, <3>4, <3>5, <3>6 DEF CopyInv
  <2>10. AgeInv'
    <3>1. CASE at = "close"
      BY <1>3, <3>1 DEF AgeInv
    <3>2. CASE at = "begin"
      <4> SUFFICES ASSUME deferred # None, NEW i \in Unjoined(deferred)
                   PROVE  /\ Behind(copies[deferred][i])' < 2 * MaxImports
                          /\ deferred # cur
                          /\ \A l \in Unreleased(cur)' :
                               Behind(copies[deferred][i])' < MaxImports + l - 1
        BY <1>3, <3>2 DEF AgeInv
      <4> DEFINE j == copies[deferred][i]
      <4>1. deferred \in Slots
        BY <1>0 DEF ImportTypeInv
      <4>2. j \in Jobs /\ j # next_job
        BY <1>0, <2>4, <4>1, UnjoinedIs
      <4>3. s = cur /\ k \in Unreleased(cur)
        BY <3>2
      <4>4. Behind(j) < MaxImports + k - 1
        BY <1>0, <3>2, <4>3 DEF AgeInv
      <4>5. j' = j
        BY <1>3
      <4> HIDE DEF j
      <4>6. Behind(j)' = Behind(j) + 1 /\ Behind(j) \in Nat
        BY <1>0, <2>3, <4>2, <4>5, AgoIs, Sizes DEF Behind
      <4>7. \A l \in Unreleased(cur)' : l \in Nat /\ l > k
        BY <1>0, <1>1, <1>9, <4>3, UnreleasedIs DEF Ports
      <4>8. k \in Nat /\ k <= MaxImports /\ k > 0
        BY <1>1, Sizes DEF Ports
      <4>9. /\ Behind(j)' < 2 * MaxImports
            /\ \A l \in Unreleased(cur)' : Behind(j)' < MaxImports + l - 1
        BY <4>4, <4>6, <4>7, <4>8, Sizes
      <4> QED BY <3>2, <4>9 DEF j
    <3> QED BY <1>3, <3>1, <3>2
  <2>11. ObjectInv'
    <3>1. live' = Kept' \cup {jobs'[j].object : j \in Releasing'}
      <4>1. \A j \in Releasing : jobs'[j].object = jobs[j].object
        BY <2>3, <2>8 DEF Releasing
      <4>2. {jobs'[j].object : j \in Releasing'} = {jobs[j].object : j \in Releasing} \cup {o}
        BY <2>3, <2>8, <4>1
      <4>3. live = Kept \cup {jobs[j].object : j \in Releasing}
        BY <1>0 DEF ObjectInv
      <4> QED BY <1>1, <1>2, <2>1, <4>2, <4>3, ZenonT(60)
    <3>2. live' \subseteq 1 .. asked'
      BY <1>0, <1>3, <2>1 DEF ObjectInv
    <3>3. \A j \in Releasing' : jobs'[j].object \notin Kept'
      BY <1>0, <1>2, <2>3, <2>8 DEF ObjectInv, Releasing, o
    <3>4. \A j, i \in Releasing' : jobs'[j].object = jobs'[i].object => j = i
      <4>1. \A j \in Releasing : jobs[j].object # o
        BY <1>0, <1>1 DEF ObjectInv, o
      <4>2. \A j \in Releasing : jobs'[j] = jobs[j]
        BY <2>3, <2>8 DEF Releasing
      <4> QED BY <1>0, <2>3, <2>8, <4>1, <4>2 DEF ObjectInv
    <3>5. \A j \in Making' : /\ imports'[jobs'[j].slot][jobs'[j].index] = None
                             /\ jobs'[j].object \in 1 .. asked' /\ jobs'[j].object \notin live'
      <4>1. \A j \in Making : jobs'[j] = jobs[j]
        BY <2>3, <2>7 DEF Making
      <4> QED BY <1>0, <1>2, <1>3, <1>8, <2>1, <2>7, <4>1, SMTT(60) DEF ObjectInv
    <3>6. \A j, i \in Making' : jobs'[j].object = jobs'[i].object => j = i
      <4>1. \A j \in Making : jobs'[j] = jobs[j]
        BY <2>3, <2>7 DEF Making
      <4> QED BY <1>0, <2>7, <4>1 DEF ObjectInv
    <3> QED BY <1>7, <3>1, <3>2, <3>3, <3>4, <3>5, <3>6 DEF ObjectInv
  <2> QED BY <1>5, <1>6, <2>5, <2>6, <2>9, <2>10, <2>11 DEF ImportInv
<1> QED BY <1>10, <1>11

-------------------------------------------------------------------------------
(* Asking for a copy                                                       *)

(* The k-th copy of the slot is asked for, of job x or of none.            *)
AsksFor(x, k) ==
  /\ at = "copy" /\ k = import_count[cur] + 1 /\ k <= MaxImports
  /\ copies' = [copies EXCEPT ![cur] = Append(@, x)]
  /\ import_count' = [import_count EXCEPT ![cur] = k]

(* A copy goes behind those of its slot.                                   *)
LEMMA CopiesWith ==
  ASSUME ImportTypeInv, CopyInv, PlaceInv, NEW x \in Jobs \cup {None}, NEW k, AsksFor(x, k)
  PROVE  /\ k \in Ports /\ k = Len(copies[cur]) + 1
         /\ copies' \in [Slots -> Seq(Jobs \cup {None})]
         /\ import_count' \in [Slots -> 0 .. MaxImports]
         /\ Len(copies'[cur]) = k /\ copies'[cur][k] = x
         /\ \A i \in 1 .. Len(copies[cur]) : copies'[cur][i] = copies[cur][i]
         /\ \A s \in Slots : s # cur => copies'[s] = copies[s] /\ import_count'[s] = import_count[s]
         /\ import_count'[cur] = k
         /\ \A s \in Slots : Len(copies'[s]) <= import_count'[s]
         /\ Len(copies[cur]) \in Nat
<1>1. /\ cur \in Slots /\ copies \in [Slots -> Seq(Jobs \cup {None})]
      /\ import_count \in [Slots -> 0 .. MaxImports] /\ Len(copies[cur]) = import_count[cur]
  BY DEF ImportTypeInv, PlaceInv, AsksFor
<1>2. k \in Ports /\ k \in 0 .. MaxImports /\ k = Len(copies[cur]) + 1 /\ Len(copies[cur]) \in Nat
  BY <1>1, Sizes DEF Ports, AsksFor
<1>3. /\ copies' \in [Slots -> Seq(Jobs \cup {None})]
      /\ copies'[cur] = Append(copies[cur], x)
      /\ \A s \in Slots : s # cur => copies'[s] = copies[s]
  BY <1>1 DEF AsksFor
<1>4. /\ Len(copies'[cur]) = k /\ copies'[cur][k] = x
      /\ \A i \in 1 .. Len(copies[cur]) : copies'[cur][i] = copies[cur][i]
  BY <1>1, <1>2, <1>3, AppendProperties
<1>5. /\ import_count' \in [Slots -> 0 .. MaxImports] /\ import_count'[cur] = k
      /\ \A s \in Slots : s # cur => import_count'[s] = import_count[s]
  BY <1>1, <1>2 DEF AsksFor
<1>6. \A s \in Slots : Len(copies'[s]) <= import_count'[s]
  BY <1>2, <1>3, <1>4, <1>5 DEF CopyInv
<1> QED BY <1>2, <1>3, <1>4, <1>5, <1>6

(* The caller makes the import itself.                                     *)
LEMMA CopiesByCaller ==
  ASSUME ImportInv, NEW k, AsksFor(None, k), asked' = asked + 1,
         imports' = [imports EXCEPT ![cur][k] = asked + 1],
         live' = live \cup {asked + 1},
         UNCHANGED <<queue, jobs, next_job, work_semaphore, started, stop, worker, place,
                     pending, ok, device, opened>>
  PROVE  ImportInv'
<1>0. /\ ImportTypeInv /\ RingInv /\ CopyInv /\ PlaceInv /\ AgeInv /\ ObjectInv /\ DeviceInv
      /\ cur \in Slots /\ asked \in Nat /\ imports \in [Slots -> [Ports -> Nat \cup {None}]]
      /\ at = "copy" /\ k = import_count[cur] + 1
  BY DEF ImportInv, ImportTypeInv, AsksFor
<1> DEFINE o == asked + 1
<1>1. /\ k \in Ports /\ k = Len(copies[cur]) + 1 /\ Len(copies[cur]) \in Nat
      /\ copies' \in [Slots -> Seq(Jobs \cup {None})]
      /\ import_count' \in [Slots -> 0 .. MaxImports]
      /\ Len(copies'[cur]) = k /\ copies'[cur][k] = None
      /\ \A i \in 1 .. Len(copies[cur]) : copies'[cur][i] = copies[cur][i]
      /\ \A s \in Slots : s # cur => copies'[s] = copies[s] /\ import_count'[s] = import_count[s]
      /\ import_count'[cur] = k
      /\ \A s \in Slots : Len(copies'[s]) <= import_count'[s]
  BY <1>0, CopiesWith, ZenonT(60)
<1>2. o \in Nat /\ o > asked /\ o # None /\ asked' = o
  BY <1>0, ImportAssumption
<1>3. /\ imports' \in [Slots -> [Ports -> Nat \cup {None}]]
      /\ \A s \in Slots, l \in Ports :
           imports'[s][l] = IF s = cur /\ l = k THEN o ELSE imports[s][l]
  <2> DEFINE row == [imports[cur] EXCEPT ![k] = o]
  <2>1. imports' = [imports EXCEPT ![cur] = row]
    BY <1>0
  <2>2. /\ row \in [Ports -> Nat \cup {None}] /\ row[k] = o
        /\ \A l \in Ports : l # k => row[l] = imports[cur][l]
    BY <1>0, <1>1, <1>2
  <2> HIDE DEF row, o
  <2> QED BY <1>0, <2>1, <2>2
<1> HIDE DEF o
<1>4. /\ UNCHANGED <<queue, jobs, next_job, work_semaphore, started, stop, worker, at, cur,
                     deferred, pending, reading, computing, device_lost>>
      /\ live' = live \cup {o}
  BY DEF place, device, o
<1>5. /\ \A s \in Slots : Unjoined(s)' = Unjoined(s)
      /\ Unjoined(cur)' = Unjoined(cur)
  <2>1. ASSUME NEW s \in Slots PROVE Unjoined(s)' = Unjoined(s)
    <3>1. CASE s = cur
      <4>1. /\ 1 .. Len(copies'[cur]) = 1 .. Len(copies[cur]) \cup {k}
            /\ k \notin 1 .. Len(copies[cur])
        BY <1>1
      <4> QED BY <1>1, <3>1, <4>1 DEF Unjoined
    <3>2. CASE s # cur
      BY <1>1, <3>2 DEF Unjoined
    <3> QED BY <3>1, <3>2
  <2> QED BY <1>0, <1>4, <2>1
<1>6. /\ \A j : Active(j)' = Active(j) /\ Held(j)' = Held(j)
      /\ Releasing' = Releasing /\ Making' = Making /\ Waking' = Waking
      /\ \A j : Behind(j)' = Behind(j)
  BY <1>4 DEF Active, Queued, Runs, Held, Holds, Releasing, Making, Waking, Behind
<1>7. \A s \in Slots : \A i \in Unjoined(s) : copies'[s][i] = copies[s][i]
  BY <1>1, UnjoinedIs, <1>0
<1>8. \A j \in Jobs : Wanted(j) => Wanted(j)'
  <2> TAKE j \in Jobs
  <2> HAVE Wanted(j)
  <2>1. /\ jobs[j].slot \in Slots /\ jobs[j].index \in Unjoined(jobs[j].slot)
        /\ jobs[j].index \in Ports /\ copies[jobs[j].slot][jobs[j].index] = j
    BY <1>0, WantedIs
  <2>2. jobs[j].index <= Len(copies'[jobs[j].slot])
    BY <1>1, <2>1 DEF Wanted, Ports
  <2> QED BY <1>4, <1>7, <2>1, <2>2 DEF Wanted
<1>9. imports[cur][k] = None
  BY <1>0, <1>1 DEF ObjectInv, ImportTypeInv
<1>10. Kept' = Kept \cup {o} /\ o \notin live /\ o \notin Kept
  <2>1. o \notin live
    BY <1>0, <1>2 DEF ObjectInv
  <2>2. o \notin Kept
    BY <1>0, <2>1 DEF ObjectInv
  <2>3. \A x : x \in Kept' <=> x \in Kept \/ x = o
    <3> TAKE x
    <3>1. x \in Kept' <=> x # None /\ \E s \in Slots, l \in Ports : x = imports'[s][l]
      BY DEF Kept
    <3>2. x \in Kept <=> x # None /\ \E s \in Slots, l \in Ports : x = imports[s][l]
      BY KeptIs
    <3> QED BY <1>0, <1>1, <1>2, <1>3, <1>9, <3>1, <3>2
  <2> QED BY <2>1, <2>2, <2>3
<1>11. ImportTypeInv'
  BY <1>0, <1>1, <1>2, <1>3, <1>4 DEF ImportTypeInv
<1>12. RingInv'
  BY <1>0, <1>4, <1>6 DEF RingInv, Holds, Behind
<1>13. CopyInv'
  <2>1. \A s \in Slots : \A i \in Unjoined(s)' :
          /\ jobs'[copies'[s][i]].slot = s /\ jobs'[copies'[s][i]].index = i
          /\ ~jobs'[copies'[s][i]].release
    BY <1>0, <1>4, <1>5, <1>7, UnjoinedIs
  <2>2. \A j \in Jobs : jobs'[j].done = 1 => ~Active(j)' /\ ~Held(j)' /\ Wanted(j)'
    BY <1>0, <1>4, <1>6, <1>8 DEF CopyInv
  <2>3. \A j \in Making' : Wanted(j)'
    BY <1>0, <1>6, <1>8 DEF CopyInv, Making
  <2>4. \A w \in Workers : (worker[w].at = "imported" => Wanted(worker[w].job))'
    <3> SUFFICES ASSUME NEW w \in Workers, worker[w].at = "imported"
                 PROVE  Wanted(worker[w].job)'
      BY <1>4
    <3> DEFINE j == worker[w].job
    <3>1. j \in Jobs /\ Wanted(j) /\ j' = j
      BY <1>0, <1>4 DEF RingInv, CopyInv, Holds
    <3> HIDE DEF j
    <3>2. Wanted(j)'
      BY <1>4, <3>1, <1>8 DEF Wanted
    <3> QED BY <3>2 DEF j
  <2> QED BY <1>1, <2>1, <2>2, <2>3, <2>4 DEF CopyInv
<1>14. PlaceInv'
  BY <1>0, <1>1, <1>4, <1>5 DEF PlaceInv, Between
<1>15. AgeInv'
  <2>1. \A i \in Unjoined(cur) : /\ Behind(copies[cur][i]) < import_count[cur]
                                 /\ Behind(copies[cur][i]) \in Int
    BY <1>0, UnjoinedIs, AgoIs, Sizes DEF AgeInv, Behind, ImportTypeInv
  <2>2. import_count[cur] \in Nat
    BY <1>0, Sizes DEF ImportTypeInv
  <2>3. \A i \in Unjoined(cur)' : Ago(next_job', copies'[cur'][i]) < import_count'[cur']
    <3> TAKE i \in Unjoined(cur)'
    <3>1. i \in Unjoined(cur) /\ copies'[cur][i] = copies[cur][i]
      BY <1>0, <1>5, <1>7
    <3>2. Ago(next_job, copies[cur][i]) < import_count[cur] /\ Ago(next_job, copies[cur][i]) \in Int
      BY <2>1, <3>1 DEF Behind
    <3>3. /\ Ago(next_job', copies'[cur'][i]) = Ago(next_job, copies[cur][i])
          /\ import_count'[cur'] = k
      BY <1>1, <1>4, <3>1, Zenon
    <3>4. k = import_count[cur] + 1
      BY <1>0
    <3> QED BY ONLY <2>2, <3>2, <3>3, <3>4
  <2>4. deferred # None /\ deferred # cur =>
          \A i \in Unjoined(deferred)' :
            Ago(next_job', copies'[deferred'][i]) < 2 * MaxImports + import_count'[cur']
    <3> SUFFICES ASSUME deferred # None, deferred # cur, NEW i \in Unjoined(deferred)'
                 PROVE  Ago(next_job', copies'[deferred'][i]) < 2 * MaxImports + import_count'[cur']
      OBVIOUS
    <3>1. deferred \in Slots
      BY <1>0 DEF ImportTypeInv
    <3>2. i \in Unjoined(deferred) /\ copies'[deferred][i] = copies[deferred][i]
      BY <1>1, <1>4, <1>7, <3>1 DEF Unjoined
    <3>3. Ago(next_job, copies[deferred][i]) < 2 * MaxImports + import_count[cur]
      BY <1>0, <3>2 DEF AgeInv, Behind
    <3>4. Ago(next_job, copies[deferred][i]) \in Int
      BY <1>0, <3>1, <3>2, UnjoinedIs, AgoIs, Sizes, SMTT(60) DEF ImportTypeInv
    <3>5. /\ Ago(next_job', copies'[deferred'][i]) = Ago(next_job, copies[deferred][i])
          /\ import_count'[cur'] = k
      BY <1>1, <1>4, <3>2, Zenon
    <3>6. k = import_count[cur] + 1 /\ MaxImports \in Nat
      BY <1>0, Sizes
    <3> QED BY ONLY <2>2, <3>3, <3>4, <3>5, <3>6
  <2> QED BY <1>0, <1>4, <2>3, <2>4 DEF AgeInv, Behind
<1>16. ObjectInv'
  <2>1. live' = Kept' \cup {jobs'[j].object : j \in Releasing'}
    BY <1>0, <1>4, <1>6, <1>10 DEF ObjectInv
  <2>2. live' \subseteq 1 .. asked'
    BY <1>0, <1>2, <1>4 DEF ObjectInv, o
  <2>3. \A s \in Slots, l \in Ports : l > import_count'[s] => imports'[s][l] = None
    BY <1>0, <1>1, <1>3 DEF ObjectInv, Ports, ImportTypeInv
  <2>4. \A s, t \in Slots, l, m \in Ports :
          imports'[s][l] # None /\ imports'[s][l] = imports'[t][m] => s = t /\ l = m
    <3>1. \A s \in Slots, l \in Ports : imports[s][l] # o
      BY <1>2, <1>10, KeptIs
    <3>2. \A s, t \in Slots, l, m \in Ports :
            imports[s][l] # None /\ imports[s][l] = imports[t][m] => s = t /\ l = m
      BY <1>0 DEF ObjectInv
    <3> QED BY <1>3, <3>1, <3>2
  <2>5. \A j \in Releasing : jobs[j].object # o
    BY <1>0, <1>10 DEF ObjectInv
  <2>6. \A j \in Releasing' : jobs'[j].object \notin Kept'
    BY <1>0, <1>4, <1>6, <1>10, <2>5 DEF ObjectInv
  <2>7. \A j, i \in Releasing' : jobs'[j].object = jobs'[i].object => j = i
    BY <1>0, <1>4, <1>6 DEF ObjectInv
  <2>8. \A j \in Making' : /\ imports'[jobs'[j].slot][jobs'[j].index] = None
                           /\ jobs'[j].object \in 1 .. asked' /\ jobs'[j].object \notin live'
    <3> TAKE j \in Making'
    <3>1. j \in Making /\ j \in Jobs /\ jobs'[j] = jobs[j]
      BY <1>4, <1>6 DEF Making
    <3>2. Wanted(j)
      BY <1>0, <3>1 DEF CopyInv
    <3>3. jobs[j].slot \in Slots /\ jobs[j].index \in Ports
          /\ jobs[j].index <= Len(copies[jobs[j].slot])
      BY <1>0, <3>1, <3>2, WantedIs DEF Wanted
    <3>4. ~(jobs[j].slot = cur /\ jobs[j].index = k)
      BY <1>1, <3>3
    <3>5. /\ imports[jobs[j].slot][jobs[j].index] = None
          /\ jobs[j].object \in 1 .. asked /\ jobs[j].object \notin live
      BY <1>0, <3>1 DEF ObjectInv
    <3> QED BY <1>0, <1>2, <1>3, <1>4, <3>1, <3>3, <3>4, <3>5 DEF o
  <2>9. \A j, i \in Making' : jobs'[j].object = jobs'[i].object => j = i
    BY <1>0, <1>4, <1>6 DEF ObjectInv
  <2> QED BY <2>1, <2>2, <2>3, <2>4, <2>6, <2>7, <2>8, <2>9 DEF ObjectInv
<1>17. DeviceInv'
  <2>1. ASSUME NEW s \in Slots
        PROVE  reading'[s] \subseteq {imports'[s][l] : l \in Ports} \ {None}
    <3>1. reading[s] \subseteq {imports[s][l] : l \in Ports} \ {None}
      BY <1>0 DEF DeviceInv
    <3>2. \A l \in Ports : imports[s][l] # None => imports'[s][l] = imports[s][l]
      BY <1>3, <1>9
    <3> QED BY <1>4, <3>1, <3>2
  <2> QED BY <1>0, <1>4, <2>1 DEF DeviceInv
<1> QED BY <1>11, <1>12, <1>13, <1>14, <1>15, <1>16, <1>17 DEF ImportInv

(* A worker is to make the import.                                         *)
LEMMA CopiesByWorker ==
  ASSUME ImportInv, NEW k, AsksFor(next_job, k), asked' = asked + 1, CanReserve,
         HandOver(FALSE, asked + 1, cur, k),
         imports' = [imports EXCEPT ![cur][k] = None],
         UNCHANGED <<live, started, stop, worker, place, pending, ok, device, opened>>
  PROVE  ImportInv'
<1>0. /\ ImportTypeInv /\ RingInv /\ CopyInv /\ PlaceInv /\ AgeInv /\ ObjectInv /\ DeviceInv
      /\ cur \in Slots /\ asked \in Nat /\ imports \in [Slots -> [Ports -> Nat \cup {None}]]
      /\ at = "copy" /\ k = import_count[cur] + 1 /\ next_job \in Jobs
  BY DEF ImportInv, ImportTypeInv, AsksFor
<1> DEFINE o == asked + 1
<1>1. /\ k \in Ports /\ k = Len(copies[cur]) + 1 /\ Len(copies[cur]) \in Nat
      /\ copies' \in [Slots -> Seq(Jobs \cup {None})]
      /\ import_count' \in [Slots -> 0 .. MaxImports]
      /\ Len(copies'[cur]) = k /\ copies'[cur][k] = next_job
      /\ \A i \in 1 .. Len(copies[cur]) : copies'[cur][i] = copies[cur][i]
      /\ \A s \in Slots : s # cur => copies'[s] = copies[s] /\ import_count'[s] = import_count[s]
      /\ import_count'[cur] = k
      /\ \A s \in Slots : Len(copies'[s]) <= import_count'[s]
  BY <1>0, CopiesWith
<1>2. o \in Nat /\ o > asked /\ asked' = o
  BY <1>0
<1>3. imports[cur][k] = None
  BY <1>0, <1>1 DEF ObjectInv, ImportTypeInv
<1>4. imports' = imports
  BY <1>0, <1>1, <1>3
<1>5. MayHandOver
  <2>1. import_count[cur] < MaxImports
    BY <1>0, Sizes DEF AsksFor, ImportTypeInv
  <2> QED BY <1>0, <2>1 DEF MayHandOver, HandOver
<1>6. HandOver(FALSE, o, cur, k) /\ UNCHANGED worker
  OBVIOUS
<1> HIDE DEF o
<1>7. /\ queue' \in Seq(Jobs) /\ next_job' \in Jobs /\ work_semaphore' \in Nat
      /\ jobs' \in [Jobs -> Job]
      /\ \A j \in Jobs : j # next_job => jobs'[j] = jobs[j]
      /\ jobs'[next_job].release = FALSE /\ jobs'[next_job].object = o
      /\ jobs'[next_job].slot = cur /\ jobs'[next_job].index = k
      /\ jobs'[next_job].done = 0
      /\ \A j : Active(j)' <=> Active(j) \/ j = next_job
      /\ \A j : Held(j)' <=> Held(j)
      /\ \A j \in Jobs : j # next_job => Ago(next_job', j) = Ago(next_job, j) + 1
      /\ Ago(next_job', next_job) = 0
  BY <1>0, <1>1, <1>2, <1>5, <1>6, HandOverIs
<1>8. /\ ~Active(next_job) /\ ~Held(next_job)
      /\ \A t \in Slots : \A i \in Unjoined(t) : copies[t][i] # next_job
  BY <1>5, NextIsFree
<1>9. UNCHANGED <<started, stop, worker, at, cur, deferred, pending, reading, computing,
                  device_lost, live>>
  BY DEF place, device
<1>10. next_job # None
  BY <1>0, ImportAssumption, Sizes DEF Jobs
<1>11. /\ Unjoined(cur)' = Unjoined(cur) \cup {k}
       /\ \A s \in Slots : s # cur => Unjoined(s)' = Unjoined(s)
       /\ \A s \in Slots : \A i \in Unjoined(s) : copies'[s][i] = copies[s][i]
  <2>1. \A s \in Slots : s # cur => Unjoined(s)' = Unjoined(s)
    BY <1>1 DEF Unjoined
  <2>2. \A i : i \in 1 .. Len(copies'[cur]) <=> i \in 1 .. Len(copies[cur]) \/ i = k
    BY <1>1
  <2>3. Unjoined(cur)' = {i \in 1 .. Len(copies'[cur]) : copies'[cur][i] # None}
    BY <1>9 DEF Unjoined
  <2>4. Unjoined(cur)' = Unjoined(cur) \cup {k}
    BY <1>1, <1>10, <2>2, <2>3 DEF Unjoined
  <2>5. \A s \in Slots : \A i \in Unjoined(s) : copies'[s][i] = copies[s][i]
    BY <1>0, <1>1, UnjoinedIs
  <2> QED BY <2>1, <2>4, <2>5
<1>12. \A j \in Jobs : j # next_job /\ Wanted(j) => Wanted(j)'
  <2> SUFFICES ASSUME NEW j \in Jobs, j # next_job, Wanted(j) PROVE Wanted(j)'
    OBVIOUS
  <2>1. /\ jobs[j].slot \in Slots /\ jobs[j].index \in Unjoined(jobs[j].slot)
        /\ jobs[j].index \in Ports /\ copies[jobs[j].slot][jobs[j].index] = j
    BY <1>0, WantedIs
  <2>2. jobs[j].index <= Len(copies'[jobs[j].slot])
    <3>1. jobs[j].index <= Len(copies[jobs[j].slot]) /\ jobs[j].index \in Int
      BY <2>1 DEF Wanted, Ports
    <3>2. CASE jobs[j].slot = cur
      BY <1>1, <3>1, <3>2
    <3>3. CASE jobs[j].slot # cur
      BY <1>1, <2>1, <3>1, <3>3
    <3> QED BY <3>2, <3>3
  <2> QED BY <1>7, <1>11, <2>1, <2>2 DEF Wanted
<1>14. /\ Making' = Making \cup {next_job} /\ next_job \notin Making
       /\ Releasing' = Releasing /\ next_job \notin Releasing
  <2>1. Releasing = {j \in Jobs : jobs[j].release /\ Active(j)}
    BY Zenon DEF Releasing, Active, Queued, Runs
  <2>2. Releasing' = {j \in Jobs : jobs'[j].release /\ Active(j)'}
    BY Zenon DEF Releasing, Active, Queued, Runs
  <2>3. Making' = {j \in Jobs : ~jobs'[j].release /\ Active(j)'}
    BY Zenon DEF Making
  <2> QED BY <1>0, <1>7, <1>8, <2>1, <2>2, <2>3 DEF Making
<1>15. /\ \A j \in Making : j \in Jobs /\ jobs'[j] = jobs[j]
       /\ \A j \in Releasing : j \in Jobs /\ jobs'[j] = jobs[j]
  BY <1>7, <1>14 DEF Making, Releasing
<1>16. ImportTypeInv'
  BY <1>0, <1>1, <1>2, <1>4, <1>7, <1>9 DEF ImportTypeInv
<1>17. RingInv'
  BY <1>0, <1>1, <1>2, <1>5, <1>6, <1>9, HandOverRing
<1>18. CopyInv'
  <2>1. ASSUME NEW s \in Slots, NEW i \in Unjoined(s)'
        PROVE  /\ jobs'[copies'[s][i]].slot = s /\ jobs'[copies'[s][i]].index = i
               /\ ~jobs'[copies'[s][i]].release
    <3>1. CASE i \in Unjoined(s)
      BY <1>0, <1>7, <1>8, <1>11, <3>1, UnjoinedIs
    <3>2. CASE i \notin Unjoined(s)
      <4>1. s = cur
        BY <1>11, <3>2
      <4>2. i = k
        <5>1. i \in 1 .. Len(copies'[s]) /\ copies'[s][i] # None
          BY DEF Unjoined
        <5>2. i \notin 1 .. Len(copies[s]) \/ copies[s][i] = None
          BY <3>2 DEF Unjoined
        <5> QED BY <1>1, <4>1, <5>1, <5>2
      <4> QED BY <1>1, <1>7, <4>1, <4>2
    <3> QED BY <3>1, <3>2
  <2>2. \A j \in Jobs : jobs'[j].done = 1 => ~Active(j)' /\ ~Held(j)' /\ Wanted(j)'
    BY <1>0, <1>7, <1>12 DEF CopyInv
  <2>3. \A j \in Making' : Wanted(j)'
    <3> SUFFICES ASSUME NEW j \in Making' PROVE Wanted(j)'
      OBVIOUS
    <3>1. CASE j = next_job
      BY <3>1, <1>1, <1>7 DEF Wanted, Ports
    <3>2. CASE j # next_job
      BY <1>0, <1>12, <1>14, <1>15, <3>2 DEF CopyInv
    <3> QED BY <3>1, <3>2
  <2>4. \A w \in Workers : (worker[w].at = "imported" => Wanted(worker[w].job))'
    <3> SUFFICES ASSUME NEW w \in Workers, worker[w].at = "imported"
                 PROVE  Wanted(worker[w].job)'
      BY <1>9
    <3> DEFINE j == worker[w].job
    <3>1. Holds(w) /\ j \in Jobs /\ Wanted(j) /\ j' = j
      BY <1>0, <1>9 DEF RingInv, CopyInv, Holds
    <3>2. j # next_job
      BY <1>8, <3>1 DEF Held
    <3> HIDE DEF j
    <3>3. \A i \in Jobs : i = j => Wanted(i)'
      BY <1>12, <3>1, <3>2
    <3>4. \A i : i = j => (Wanted(i)' => Wanted(j)')
      BY <3>1 DEF Wanted
    <3> QED BY <3>1, <3>3, <3>4 DEF j
  <2> QED BY <1>1, <2>1, <2>2, <2>3, <2>4 DEF CopyInv
<1>19. PlaceInv'
  <2>1. \A s \in Slots \ {cur, deferred} : Unjoined(s)' = {}
    BY <1>0, <1>11 DEF PlaceInv
  <2> QED BY <1>0, <1>1, <1>9, <2>1 DEF PlaceInv, Between
<1>20. AgeInv'
  <2>1. import_count[cur] \in Nat /\ k = import_count[cur] + 1 /\ MaxImports \in Nat
    BY <1>0, Sizes DEF ImportTypeInv
  <2>2. import_count'[cur'] = k /\ cur' = cur /\ deferred' = deferred /\ at' = at
    BY <1>1, <1>9
  <2>3. ASSUME NEW i \in Unjoined(cur)'
        PROVE  Ago(next_job', copies'[cur][i]) < k
    <3>1. CASE i \in Unjoined(cur)
      <4>1. Ago(next_job, copies[cur][i]) < import_count[cur]
        BY <1>0, <3>1 DEF AgeInv, Behind
      <4>2. copies[cur][i] \in Jobs /\ copies[cur][i] # next_job
        BY <1>0, <1>8, <3>1, UnjoinedIs
      <4>3. /\ Ago(next_job, copies[cur][i]) \in Int
            /\ Ago(next_job', copies[cur][i]) = Ago(next_job, copies[cur][i]) + 1
        BY <1>0, <1>7, <4>2, AgoIs, Sizes
      <4>4. copies'[cur][i] = copies[cur][i]
        BY <1>0, <1>11, <3>1
      <4> QED BY ONLY <2>1, <4>1, <4>3, <4>4
    <3>2. CASE i \notin Unjoined(cur)
      <4>1. i = k
        BY <1>11, <3>2
      <4> QED BY <1>1, <1>7, <2>1, <4>1
    <3> QED BY <3>1, <3>2
  <2>4. deferred # None /\ deferred # cur =>
          \A i \in Unjoined(deferred)' :
            Ago(next_job', copies'[deferred'][i]) < 2 * MaxImports + import_count'[cur']
    <3> SUFFICES ASSUME deferred # None, deferred # cur, NEW i \in Unjoined(deferred)'
                 PROVE  Ago(next_job', copies'[deferred'][i]) < 2 * MaxImports + import_count'[cur']
      OBVIOUS
    <3>1. deferred \in Slots
      BY <1>0 DEF ImportTypeInv
    <3>2. i \in Unjoined(deferred)
      BY <1>1, <1>9, <3>1 DEF Unjoined
    <3>3. Ago(next_job, copies[deferred][i]) < 2 * MaxImports + import_count[cur]
      BY <1>0, <3>2 DEF AgeInv, Behind
    <3>4. copies[deferred][i] \in Jobs /\ copies[deferred][i] # next_job
      BY <1>0, <1>8, <3>1, <3>2, UnjoinedIs
    <3>5. /\ Ago(next_job, copies[deferred][i]) \in Int
          /\ Ago(next_job', copies[deferred][i]) = Ago(next_job, copies[deferred][i]) + 1
      BY <1>0, <1>7, <3>4, AgoIs, Sizes
    <3>6. copies'[deferred'][i] = copies[deferred][i]
      BY <1>11, <2>2, <3>1, <3>2
    <3> QED BY ONLY <2>1, <2>2, <3>3, <3>5, <3>6
  <2>5. \A i \in Unjoined(cur)' : Ago(next_job', copies'[cur'][i]) < import_count'[cur']
    BY <2>2, <2>3
  <2> QED BY <1>0, <2>2, <2>4, <2>5 DEF AgeInv, Behind
<1>21. Kept' = Kept
  BY <1>4 DEF Kept
<1>22. ObjectInv'
  <2>1. {jobs'[j].object : j \in Releasing'} = {jobs[j].object : j \in Releasing}
    BY <1>14, <1>15
  <2>2. live' = Kept' \cup {jobs'[j].object : j \in Releasing'}
    BY <1>0, <1>9, <1>21, <2>1 DEF ObjectInv
  <2>3. live' \subseteq 1 .. asked' /\ o \notin live
    BY <1>0, <1>2, <1>9 DEF ObjectInv
  <2>4. \A s \in Slots, l \in Ports : l > import_count'[s] => imports'[s][l] = None
    BY <1>0, <1>1, <1>4 DEF ObjectInv, Ports, ImportTypeInv
  <2>5. \A s, t \in Slots, l, m \in Ports :
          imports'[s][l] # None /\ imports'[s][l] = imports'[t][m] => s = t /\ l = m
    BY <1>0, <1>4 DEF ObjectInv
  <2>6. \A j \in Releasing' : jobs'[j].object \notin Kept'
    BY <1>0, <1>14, <1>15, <1>21 DEF ObjectInv
  <2>7. \A j, i \in Releasing' : jobs'[j].object = jobs'[i].object => j = i
    BY <1>0, <1>14, <1>15 DEF ObjectInv
  <2>8. ASSUME NEW j \in Making'
        PROVE  /\ imports'[jobs'[j].slot][jobs'[j].index] = None
               /\ jobs'[j].object \in 1 .. asked' /\ jobs'[j].object \notin live'
    <3>1. CASE j = next_job
      <4>1. /\ jobs'[j].slot = cur /\ jobs'[j].index = k /\ jobs'[j].object = o
            /\ o \in 1 .. asked'
        BY <1>0, <1>2, <1>7, <3>1
      <4> QED BY <1>3, <1>4, <1>9, <2>3, <4>1
    <3>2. CASE j # next_job
      <4>1. j \in Making /\ jobs'[j] = jobs[j]
        BY <1>14, <1>15, <3>2
      <4>2. /\ imports[jobs[j].slot][jobs[j].index] = None
            /\ jobs[j].object \in 1 .. asked /\ jobs[j].object \notin live
        BY <1>0, <4>1 DEF ObjectInv
      <4> QED BY <1>0, <1>2, <1>4, <1>9, <4>1, <4>2
    <3> QED BY <3>1, <3>2
  <2>9. \A j, i \in Making' : jobs'[j].object = jobs'[i].object => j = i
    <3>1. \A j \in Making : jobs[j].object # o
      BY <1>0, <1>2 DEF ObjectInv
    <3>2. \A j, i \in Making : jobs[j].object = jobs[i].object => j = i
      BY <1>0 DEF ObjectInv
    <3> QED BY <1>7, <1>14, <1>15, <3>1, <3>2
  <2> QED BY <2>2, <2>3, <2>4, <2>5, <2>6, <2>7, <2>8, <2>9 DEF ObjectInv
<1>23. DeviceInv'
  BY <1>0, <1>4, <1>9 DEF DeviceInv
<1> QED BY <1>16, <1>17, <1>18, <1>19, <1>20, <1>22, <1>23 DEF ImportInv

LEMMA StreamCopyKeeps == ASSUME ImportInv, StreamCopy PROVE ImportInv'
<1> DEFINE k == import_count[cur] + 1
<1>1. /\ at = "copy" /\ k <= MaxImports /\ asked' = asked + 1
      /\ import_count' = [import_count EXCEPT ![cur] = k]
      /\ UNCHANGED <<started, stop, release_semaphore, releases_outstanding, worker,
                     place, pending, ok, device, opened>>
  BY DEF StreamCopy
<1>2. \/ /\ CanReserve
         /\ HandOver(FALSE, asked + 1, cur, k)
         /\ imports' = [imports EXCEPT ![cur][k] = None]
         /\ copies' = [copies EXCEPT ![cur] = Append(@, next_job)]
         /\ UNCHANGED live
      \/ /\ ~CanReserve
         /\ imports' = [imports EXCEPT ![cur][k] = asked + 1]
         /\ copies' = [copies EXCEPT ![cur] = Append(@, None)]
         /\ live' = live \cup {asked + 1}
         /\ UNCHANGED <<queue, jobs, next_job, work_semaphore>>
  BY DEF StreamCopy
<1>3. CASE CanReserve
  <2>1. /\ HandOver(FALSE, asked + 1, cur, k) /\ UNCHANGED live
        /\ imports' = [imports EXCEPT ![cur][k] = None] /\ AsksFor(next_job, k)
    BY <1>1, <1>2, <1>3 DEF AsksFor
  <2> HIDE DEF k
  <2> QED BY <1>1, <1>3, <2>1, CopiesByWorker
<1>4. CASE ~CanReserve
  <2>1. /\ imports' = [imports EXCEPT ![cur][k] = asked + 1] /\ AsksFor(None, k)
        /\ live' = live \cup {asked + 1}
        /\ UNCHANGED <<queue, jobs, next_job, work_semaphore>>
    BY <1>1, <1>2, <1>4 DEF AsksFor
  <2> HIDE DEF k
  <2> QED BY <1>1, <2>1, CopiesByCaller
<1> QED BY <1>3, <1>4

-------------------------------------------------------------------------------
(* The workers                                                             *)

(* A job that a worker holds is not in the queue, and no other worker's.    *)
LEMMA HeldIs ==
  ASSUME ImportTypeInv, RingInv, NEW w \in Workers, Holds(w)
  PROVE  /\ worker[w].job \in Jobs /\ worker[w].job \notin Queued
         /\ \A v \in Workers : v # w /\ Holds(v) => worker[v].job # worker[w].job
<1> DEFINE j == worker[w].job
<1>1. j \in Jobs /\ Behind(j) >= Len(queue)
  BY DEF RingInv
<1>2. j \notin Queued
  <2> SUFFICES ASSUME NEW i \in 1 .. Len(queue), queue[i] = j PROVE FALSE
    BY DEF Queued
  <2>1. Behind(j) = Len(queue) - i /\ Len(queue) \in Nat
    BY DEF RingInv, ImportTypeInv
  <2> QED BY <1>1, <2>1
<1> QED BY <1>1, <1>2 DEF RingInv

LEMMA WorkerGoes ==
  ASSUME ImportTypeInv, NEW w \in Workers,
         NEW to \in {"take", "dequeue", "run", "released", "imported", "exited"},
         NEW job \in Jobs \cup {None}, WorkerGoto(w, to, job)
  PROVE  /\ worker'[w].at = to /\ worker'[w].job = job
         /\ \A v \in Workers : v # w => worker'[v] = worker[v]
         /\ worker' \in [Workers -> [at : {"none", "take", "dequeue", "run", "released", "imported",
                                           "exited"}, job : Jobs \cup {None}]]
BY DEF WorkerGoto, ImportTypeInv

LEMMA WakingCount == IsFiniteSet(Waking) /\ Cardinality(Waking) \in Nat
BY ImportAssumption, FS_Subset, FS_CardinalityType DEF Waking

(* The caller and the device go by the slots.                              *)
LEMMA CallerStays ==
  ASSUME ImportInv, UNCHANGED <<next_job, place, slots, device>>
  PROVE  PlaceInv' /\ AgeInv' /\ DeviceInv'
<1>1. UNCHANGED <<next_job, at, cur, deferred, imports, import_count, copies, pending, reading,
                  computing, device_lost>>
  BY DEF place, slots, device
<1>2. PlaceInv /\ AgeInv /\ DeviceInv
  BY DEF ImportInv
<1>3. PlaceInv'
  BY <1>1, <1>2 DEF PlaceInv, Unjoined
<1>4. AgeInv'
  BY <1>1, <1>2 DEF AgeInv, Unjoined, Unreleased, Behind, Ago
<1>5. DeviceInv'
  BY <1>1, <1>2 DEF DeviceInv
<1> QED BY <1>3, <1>4, <1>5

(* A worker that goes on with its job, or takes the next one.              *)
LEMMA JobsStay ==
  ASSUME ImportInv, UNCHANGED <<next_job, jobs, place, slots, device, live, asked>>,
         \A j : Active(j)' <=> Active(j),
         \A j : Held(j)' => Held(j) \/ Active(j),
         \A w \in Workers : worker'[w].at = "imported" => worker'[w] = worker[w]
  PROVE  CopyInv' /\ PlaceInv' /\ AgeInv' /\ ObjectInv' /\ DeviceInv'
<1>1. UNCHANGED <<jobs, imports, import_count, copies, live, asked>>
  BY DEF slots
<1>2. CopyInv /\ ObjectInv
  BY DEF ImportInv
<1>3. /\ \A s \in Slots : Unjoined(s)' = Unjoined(s)
      /\ \A j \in Jobs : Wanted(j)' <=> Wanted(j)
      /\ Making' = Making /\ Kept' = Kept
  BY <1>1 DEF Unjoined, Wanted, Making, Kept
<1>4. Releasing' = Releasing
  <2>1. Releasing = {j \in Jobs : jobs[j].release /\ Active(j)}
    BY Zenon DEF Releasing, Active, Queued, Runs
  <2>2. Releasing' = {j \in Jobs : jobs'[j].release /\ Active(j)'}
    BY Zenon DEF Releasing, Active, Queued, Runs
  <2> QED BY <1>1, <2>1, <2>2
<1>5. CopyInv'
  <2>1. \A j \in Jobs : jobs'[j].done = 1 => ~Active(j)' /\ ~Held(j)' /\ Wanted(j)'
    BY <1>1, <1>2, <1>3 DEF CopyInv
  <2>2. \A w \in Workers : (worker[w].at = "imported" => Wanted(worker[w].job))'
    <3> SUFFICES ASSUME NEW w \in Workers, worker'[w].at = "imported"
                 PROVE  Wanted(worker[w].job)'
      OBVIOUS
    <3>1. worker'[w] = worker[w] /\ Wanted(worker[w].job)
      BY <1>2 DEF CopyInv
    <3> QED BY <1>1, <3>1 DEF Wanted
  <2>3. \A j \in Making' : Wanted(j)'
    BY <1>2, <1>3 DEF CopyInv, Making
  <2> QED BY <1>1, <1>2, <1>3, <2>1, <2>2, <2>3 DEF CopyInv
<1>6. ObjectInv'
  BY <1>1, <1>2, <1>3, <1>4 DEF ObjectInv
<1> QED BY <1>5, <1>6, CallerStays

LEMMA TakeWorkKeeps == ASSUME ImportInv, NEW w \in Workers, TakeWork(w) PROVE ImportInv'
<1> DEFINE to == IF stop THEN "exited" ELSE "dequeue"
<1>0. ImportTypeInv /\ RingInv
  BY DEF ImportInv
<1>1. /\ worker[w].at = "take" /\ work_semaphore > 0 /\ work_semaphore' = work_semaphore - 1
      /\ WorkerGoto(w, to, None)
      /\ UNCHANGED <<started, stop, queue, jobs, next_job, place, slots, device, live, asked>>
  BY DEF TakeWork
<1>2. /\ worker'[w].at = to /\ worker'[w].job = None
      /\ \A v \in Workers : v # w => worker'[v] = worker[v]
      /\ worker' \in [Workers -> [at : {"none", "take", "dequeue", "run", "released", "imported",
                                        "exited"}, job : Jobs \cup {None}]]
  BY <1>0, <1>1, WorkerGoes
<1>3. /\ \A v \in Workers : Holds(v)' <=> Holds(v)
      /\ \A v \in Workers : Holds(v) => worker'[v] = worker[v]
      /\ ~Holds(w) /\ ~Holds(w)'
  BY <1>1, <1>2 DEF Holds
<1>4. \A j : (Active(j)' <=> Active(j)) /\ (Held(j)' <=> Held(j))
  BY <1>1, <1>2, <1>3 DEF Active, Queued, Runs, Held
<1>5. ImportTypeInv'
  BY <1>0, <1>1, <1>2 DEF ImportTypeInv, place, slots, device
<1>6. /\ Cardinality(Waking') <= Len(queue')
      /\ ~stop' => work_semaphore' + Cardinality(Waking') <= Len(queue')
  <2>1. CASE stop
    <3>1. Waking' = Waking
      BY <1>1, <1>2, <2>1 DEF Waking
    <3> QED BY <1>0, <1>1, <2>1, <3>1 DEF RingInv
  <2>2. CASE ~stop
    <3>1. Waking' = Waking \cup {w} /\ w \notin Waking
      BY <1>1, <1>2, <2>2 DEF Waking
    <3>2. Cardinality(Waking') = Cardinality(Waking) + 1
      BY <3>1, WakingCount, FS_AddElement
    <3> QED BY <1>0, <1>1, <2>2, <3>2, WakingCount DEF RingInv, ImportTypeInv
  <2> QED BY <2>1, <2>2
<1>7. RingInv'
  <2>1. \A i \in 1 .. Len(queue') : Behind(queue[i])' = Len(queue') - i
    BY <1>0, <1>1 DEF RingInv, Behind
  <2>2. \A v \in Workers : Holds(v)' => /\ worker'[v].job \in Jobs
                                        /\ Ago(next_job', worker'[v].job) >= Len(queue')
    BY <1>0, <1>1, <1>3 DEF RingInv, Behind
  <2>3. \A v, u \in Workers : Holds(v)' /\ Holds(u)' /\ worker'[v].job = worker'[u].job => v = u
    BY <1>0, <1>3 DEF RingInv
  <2>4. \A v \in Workers : /\ worker'[v].at = "released" => jobs'[worker'[v].job].release
                           /\ worker'[v].at = "imported" => ~jobs'[worker'[v].job].release
    BY <1>0, <1>1, <1>2 DEF RingInv
  <2>5. ~(~started' /\ at' # "done")
    BY <1>0, <1>1 DEF RingInv, place
  <2> QED BY <1>6, <2>1, <2>2, <2>3, <2>4, <2>5 DEF RingInv, Behind
<1>8. CopyInv' /\ PlaceInv' /\ AgeInv' /\ ObjectInv' /\ DeviceInv'
  BY <1>1, <1>2, <1>4, JobsStay
<1> QED BY <1>5, <1>7, <1>8 DEF ImportInv

LEMMA DequeueKeeps == ASSUME ImportInv, NEW w \in Workers, Dequeue(w) PROVE ImportInv'
<1> DEFINE j == Head(queue)
<1>0. ImportTypeInv /\ RingInv /\ queue \in Seq(Jobs) /\ Len(queue) \in Nat
  BY DEF ImportInv, ImportTypeInv
<1>1. /\ worker[w].at = "dequeue" /\ queue' = Tail(queue) /\ WorkerGoto(w, "run", j)
      /\ UNCHANGED <<started, stop, jobs, next_job, work_semaphore, place, slots, device, live,
                     asked>>
  BY DEF Dequeue
<1>2. w \in Waking /\ Len(queue) > 0
  <2>1. w \in Waking
    BY <1>1 DEF Waking
  <2>2. Waking # {} /\ Cardinality(Waking) # 0
    BY <2>1, WakingCount, FS_EmptySet
  <2> QED BY <1>0, <2>1, <2>2, WakingCount DEF RingInv
<1>3. /\ queue' \in Seq(Jobs) /\ Len(queue') = Len(queue) - 1
      /\ \A i \in 1 .. Len(queue') : queue'[i] = queue[i + 1] /\ i + 1 \in 1 .. Len(queue)
      /\ j = queue[1] /\ j \in Jobs
  BY <1>0, <1>1, <1>2
<1> HIDE DEF j
<1>4. /\ worker'[w].at = "run" /\ worker'[w].job = j
      /\ \A v \in Workers : v # w => worker'[v] = worker[v]
      /\ worker' \in [Workers -> [at : {"none", "take", "dequeue", "run", "released", "imported",
                                        "exited"}, job : Jobs \cup {None}]]
  BY <1>0, <1>1, <1>3, WorkerGoes
<1>5. \A v \in Workers : v # w => (Holds(v)' <=> Holds(v)) /\ (Holds(v) => worker[v].job # j)
  <2>1. j \in Queued
    BY <1>2, <1>3, <1>0 DEF Queued
  <2> QED BY <1>0, <1>4, <2>1, HeldIs DEF Holds
<1>6. ~Holds(w) /\ worker[w].at # "run"
  BY <1>1 DEF Holds
<1>7. \A i : i \in Queued <=> i \in Queued' \/ i = j
  <2>1. \A i \in Queued' : i \in Queued
    BY <1>3 DEF Queued
  <2>2. j \in Queued
    BY <1>0, <1>2, <1>3 DEF Queued
  <2>3. ASSUME NEW n \in 1 .. Len(queue) PROVE queue[n] \in Queued' \/ queue[n] = j
    <3>1. CASE n = 1
      BY <1>3, <3>1
    <3>2. CASE n # 1
      <4>1. n - 1 \in 1 .. Len(queue') /\ (n - 1) + 1 = n
        BY <1>0, <1>3, <3>2
      <4> QED BY <1>3, <4>1 DEF Queued
    <3> QED BY <3>1, <3>2
  <2> QED BY <2>1, <2>2, <2>3 DEF Queued
<1>8. \A i : /\ Active(i)' <=> Active(i)
             /\ Held(i)' => Held(i) \/ Active(i)
  BY <1>4, <1>5, <1>6, <1>7 DEF Active, Runs, Held
<1>9. ImportTypeInv'
  BY <1>0, <1>1, <1>3, <1>4 DEF ImportTypeInv, place, slots, device
<1>10. RingInv'
  <2>1. \A i \in 1 .. Len(queue') : Ago(next_job', queue'[i]) = Len(queue') - i
    <3> TAKE i \in 1 .. Len(queue')
    <3>1. Ago(next_job, queue[i + 1]) = Len(queue) - (i + 1)
      BY <1>0, <1>3 DEF RingInv, Behind
    <3> QED BY <1>0, <1>1, <1>3, <3>1
  <2>2. /\ Cardinality(Waking') <= Len(queue')
        /\ ~stop' => work_semaphore' + Cardinality(Waking') <= Len(queue')
    <3>1. Waking' = Waking \ {w}
      BY <1>4 DEF Waking
    <3>2. Cardinality(Waking') = Cardinality(Waking) - 1
      BY <1>2, <3>1, WakingCount, FS_RemoveElement
    <3> QED BY <1>0, <1>1, <1>3, <3>2, WakingCount DEF RingInv, ImportTypeInv
  <2>3. Ago(next_job', j) >= Len(queue')
    BY <1>0, <1>1, <1>2, <1>3 DEF RingInv, Behind
  <2>4. \A v \in Workers : Holds(v)' => /\ worker'[v].job \in Jobs
                                        /\ Ago(next_job', worker'[v].job) >= Len(queue')
    <3> SUFFICES ASSUME NEW v \in Workers, Holds(v)', v # w
                 PROVE  worker[v].job \in Jobs /\ Ago(next_job', worker[v].job) >= Len(queue')
      BY <1>3, <1>4, <2>3
    <3>1. worker[v].job \in Jobs /\ Ago(next_job, worker[v].job) >= Len(queue)
      BY <1>0, <1>5 DEF RingInv, Behind
    <3>2. Ago(next_job, worker[v].job) \in Int
      BY <1>0, <3>1, AgoIs, Sizes DEF ImportTypeInv
    <3> QED BY <1>0, <1>1, <1>3, <3>1, <3>2
  <2>5. \A v, u \in Workers : Holds(v)' /\ Holds(u)' /\ worker'[v].job = worker'[u].job => v = u
    BY <1>0, <1>4, <1>5 DEF RingInv
  <2>6. \A v \in Workers : /\ worker'[v].at = "released" => jobs'[worker'[v].job].release
                           /\ worker'[v].at = "imported" => ~jobs'[worker'[v].job].release
    BY <1>0, <1>1, <1>4 DEF RingInv
  <2>7. ~(~started' /\ at' # "done")
    BY <1>0, <1>1 DEF RingInv, place
  <2> QED BY <2>1, <2>2, <2>4, <2>5, <2>6, <2>7 DEF RingInv, Behind
<1>11. CopyInv' /\ PlaceInv' /\ AgeInv' /\ ObjectInv' /\ DeviceInv'
  BY <1>1, <1>4, <1>8, JobsStay
<1> QED BY <1>9, <1>10, <1>11 DEF ImportInv

(* A worker that leaves its job, or goes on with it after the call.         *)
LEMMA WorkerRing ==
  ASSUME ImportInv, NEW w \in Workers, NEW to \in {"take", "released", "imported"},
         NEW job \in Jobs \cup {None}, WorkerGoto(w, to, job), Holds(w),
         to # "take" => job = worker[w].job,
         to = "released" => jobs[job].release, to = "imported" => ~jobs[job].release,
         jobs' \in [Jobs -> Job], \A j \in Jobs : jobs'[j].release = jobs[j].release,
         UNCHANGED <<started, stop, queue, next_job, work_semaphore, place>>
  PROVE  /\ RingInv'
         /\ worker' \in [Workers -> [at : {"none", "take", "dequeue", "run", "released", "imported",
                                           "exited"}, job : Jobs \cup {None}]]
<1>0. ImportTypeInv /\ RingInv
  BY DEF ImportInv
<1>1. /\ worker'[w].at = to /\ worker'[w].job = job
      /\ \A v \in Workers : v # w => worker'[v] = worker[v]
      /\ worker' \in [Workers -> [at : {"none", "take", "dequeue", "run", "released", "imported",
                                        "exited"}, job : Jobs \cup {None}]]
  BY <1>0, WorkerGoes
<1>2. \A v \in Workers : Holds(v)' => Holds(v) /\ worker'[v].job = worker[v].job
  BY <1>1 DEF Holds
<1>3. Waking' = Waking
  BY <1>1 DEF Waking, Holds
<1>4. \A i \in 1 .. Len(queue') : Behind(queue[i])' = Len(queue') - i
  BY <1>0 DEF RingInv, Behind
<1>5. \A v \in Workers : Holds(v)' => /\ worker'[v].job \in Jobs
                                      /\ Ago(next_job', worker'[v].job) >= Len(queue')
  BY <1>0, <1>2 DEF RingInv, Behind
<1>6. \A v, u \in Workers : Holds(v)' /\ Holds(u)' /\ worker'[v].job = worker'[u].job => v = u
  BY <1>0, <1>2 DEF RingInv
<1>7. ASSUME NEW v \in Workers
      PROVE  /\ worker'[v].at = "released" => jobs'[worker'[v].job].release
             /\ worker'[v].at = "imported" => ~jobs'[worker'[v].job].release
  <2>1. CASE v = w
    BY <1>0, <1>1, <2>1, HeldIs
  <2>2. CASE v # w
    BY <1>0, <1>1, <2>2 DEF RingInv, Holds
  <2> QED BY <2>1, <2>2
<1>8. ~(~started' /\ at' # "done")
  BY <1>0 DEF RingInv, place, Holds
<1> QED BY <1>0, <1>1, <1>3, <1>4, <1>5, <1>6, <1>7, <1>8 DEF RingInv, Behind

LEMMA DropReleasedKeeps == ASSUME ImportInv, NEW w \in Workers, DropReleased(w) PROVE ImportInv'
<1>0. ImportTypeInv /\ RingInv /\ jobs \in [Jobs -> Job]
  BY DEF ImportInv, ImportTypeInv
<1>1. /\ worker[w].at = "released" /\ WorkerGoto(w, "take", None)
      /\ UNCHANGED <<started, stop, queue, jobs, next_job, work_semaphore, place, slots, device,
                     live, asked>>
  BY DEF DropReleased
<1>2. Holds(w)
  BY <1>1 DEF Holds
<1>3. /\ worker'[w].at = "take" /\ \A v \in Workers : v # w => worker'[v] = worker[v]
  BY <1>0, <1>1, WorkerGoes
<1>4. /\ RingInv'
      /\ worker' \in [Workers -> [at : {"none", "take", "dequeue", "run", "released", "imported",
                                        "exited"}, job : Jobs \cup {None}]]
  BY <1>0, <1>1, <1>2, WorkerRing
<1>5. \A j : (Active(j)' <=> Active(j)) /\ (Held(j)' => Held(j))
  BY <1>1, <1>3 DEF Active, Queued, Runs, Held, Holds
<1>6. CopyInv' /\ PlaceInv' /\ AgeInv' /\ ObjectInv' /\ DeviceInv'
  BY <1>1, <1>3, <1>5, JobsStay
<1>7. ImportTypeInv'
  BY <1>0, <1>1, <1>4 DEF ImportTypeInv, place, slots, device
<1> QED BY <1>4, <1>6, <1>7 DEF ImportInv

(* A job that has run is active no more, and the others are what they were. *)
LEMMA RanIs ==
  ASSUME ImportInv, NEW w \in Workers, worker[w].at = "run", NEW to \in {"released", "imported"},
         WorkerGoto(w, to, worker[w].job), UNCHANGED queue
  PROVE  /\ worker[w].job \in Jobs /\ Active(worker[w].job)
         /\ worker'[w].at = to /\ worker'[w].job = worker[w].job
         /\ \A v \in Workers : v # w => worker'[v] = worker[v]
         /\ \A j : Active(j)' <=> Active(j) /\ j # worker[w].job
         /\ \A j : Held(j)' <=> Held(j)
<1>0. ImportTypeInv /\ RingInv /\ Holds(w)
  BY DEF ImportInv, Holds
<1>1. /\ worker[w].job \in Jobs /\ worker[w].job \notin Queued
      /\ \A v \in Workers : v # w /\ Holds(v) => worker[v].job # worker[w].job
  BY <1>0, HeldIs
<1>2. /\ worker'[w].at = to /\ worker'[w].job = worker[w].job
      /\ \A v \in Workers : v # w => worker'[v] = worker[v]
  BY <1>0, <1>1, WorkerGoes
<1>3. Active(worker[w].job)
  BY DEF Active, Runs
<1>4. \A j : Runs(j)' <=> Runs(j) /\ j # worker[w].job
  BY <1>1, <1>2 DEF Runs, Holds
<1>5. \A j : Held(j)' <=> Held(j)
  BY <1>0, <1>2 DEF Held, Holds
<1>6. Queued' = Queued
  BY DEF Queued
<1> QED BY <1>1, <1>2, <1>3, <1>4, <1>5, <1>6 DEF Active

LEMMA RunReleaseKeeps == ASSUME ImportInv, NEW w \in Workers, RunRelease(w) PROVE ImportInv'
<1> DEFINE j == worker[w].job
           o == jobs[j].object
<1>0. /\ ImportTypeInv /\ RingInv /\ CopyInv /\ ObjectInv /\ jobs \in [Jobs -> Job]
  BY DEF ImportInv, ImportTypeInv
<1>1. /\ worker[w].at = "run" /\ jobs[j].release /\ live' = live \ {o}
      /\ WorkerGoto(w, "released", j)
      /\ UNCHANGED <<started, stop, queue, jobs, next_job, work_semaphore, place, slots, device,
                     asked>>
  BY DEF RunRelease, pool
<1>2. /\ j \in Jobs /\ Active(j)
      /\ worker'[w].at = "released"
      /\ \A v \in Workers : v # w => worker'[v] = worker[v]
      /\ \A i : Active(i)' <=> Active(i) /\ i # j
      /\ \A i : Held(i)' <=> Held(i)
  BY <1>1, RanIs
<1>3. /\ RingInv'
      /\ worker' \in [Workers -> [at : {"none", "take", "dequeue", "run", "released", "imported",
                                        "exited"}, job : Jobs \cup {None}]]
  BY <1>0, <1>1, <1>2, WorkerRing DEF Holds
<1> HIDE DEF j
<1>4. ImportTypeInv'
  BY <1>0, <1>1, <1>3 DEF ImportTypeInv, place, slots, device
<1>5. UNCHANGED <<jobs, imports, import_count, copies, asked>>
  BY <1>1 DEF slots
<1>6. /\ \A s \in Slots : Unjoined(s)' = Unjoined(s)
      /\ \A i \in Jobs : Wanted(i)' <=> Wanted(i)
      /\ Making' = Making /\ Kept' = Kept
  BY <1>1, <1>2, <1>5 DEF Unjoined, Wanted, Making, Kept
<1>7. Releasing' = Releasing \ {j} /\ j \in Releasing
  <2>1. Releasing = {i \in Jobs : jobs[i].release /\ Active(i)}
    BY Zenon DEF Releasing, Active, Queued, Runs
  <2>2. Releasing' = {i \in Jobs : jobs'[i].release /\ Active(i)'}
    BY Zenon DEF Releasing, Active, Queued, Runs
  <2> QED BY <1>1, <1>2, <1>5, <2>1, <2>2
<1>8. CopyInv'
  <2>1. \A i \in Jobs : jobs'[i].done = 1 => ~Active(i)' /\ ~Held(i)' /\ Wanted(i)'
    BY <1>0, <1>2, <1>5, <1>6 DEF CopyInv
  <2>2. \A v \in Workers : (worker[v].at = "imported" => Wanted(worker[v].job))'
    <3> SUFFICES ASSUME NEW v \in Workers, worker'[v].at = "imported"
                 PROVE  Wanted(worker[v].job)'
      OBVIOUS
    <3>1. worker'[v] = worker[v] /\ Wanted(worker[v].job)
      BY <1>0, <1>2 DEF CopyInv
    <3> QED BY <1>5, <3>1 DEF Wanted
  <2>3. \A i \in Making' : Wanted(i)'
    BY <1>0, <1>6 DEF CopyInv, Making
  <2> QED BY <1>0, <1>5, <1>6, <2>1, <2>2, <2>3 DEF CopyInv
<1>9. ObjectInv'
  <2>1. \A i \in Releasing' : jobs'[i].object # o
    BY <1>0, <1>5, <1>7 DEF ObjectInv
  <2>2. o \notin Kept
    BY <1>0, <1>7 DEF ObjectInv
  <2>3. live' = Kept' \cup {jobs'[i].object : i \in Releasing'}
    <3>1. live = Kept \cup {jobs[i].object : i \in Releasing}
      BY <1>0 DEF ObjectInv
    <3>2. {jobs[i].object : i \in Releasing} = {jobs[i].object : i \in Releasing'} \cup {o}
      BY <1>7
    <3>3. o \notin {jobs[i].object : i \in Releasing'}
      BY <1>5, <2>1
    <3> HIDE DEF o
    <3> QED BY <1>1, <1>5, <1>6, <2>2, <3>1, <3>2, <3>3
  <2>4. live' \subseteq live
    BY <1>1
  <2>5. /\ live' \subseteq 1 .. asked'
        /\ \A i \in Making' : /\ imports'[jobs'[i].slot][jobs'[i].index] = None
                              /\ jobs'[i].object \in 1 .. asked' /\ jobs'[i].object \notin live'
    BY <1>0, <1>5, <1>6, <2>4 DEF ObjectInv
  <2>6. /\ \A i \in Releasing' : jobs'[i].object \notin Kept'
        /\ \A i, k \in Releasing' : jobs'[i].object = jobs'[k].object => i = k
        /\ \A i, k \in Making' : jobs'[i].object = jobs'[k].object => i = k
    BY <1>0, <1>5, <1>6, <1>7 DEF ObjectInv
  <2>7. /\ \A s \in Slots, k \in Ports : k > import_count'[s] => imports'[s][k] = None
        /\ \A s, t \in Slots, k, l \in Ports :
             imports'[s][k] # None /\ imports'[s][k] = imports'[t][l] => s = t /\ k = l
    BY <1>0, <1>5 DEF ObjectInv
  <2> QED BY <2>3, <2>5, <2>6, <2>7 DEF ObjectInv
<1>10. PlaceInv' /\ AgeInv' /\ DeviceInv'
  BY <1>1, CallerStays
<1> QED BY <1>3, <1>4, <1>8, <1>9, <1>10 DEF ImportInv

LEMMA DropDoneKeeps == ASSUME ImportInv, NEW w \in Workers, DropDone(w) PROVE ImportInv'
<1> DEFINE j == worker[w].job
<1>0. /\ ImportTypeInv /\ RingInv /\ CopyInv /\ ObjectInv /\ jobs \in [Jobs -> Job]
  BY DEF ImportInv, ImportTypeInv
<1>1. /\ worker[w].at = "imported" /\ jobs' = [jobs EXCEPT ![j].done = 1]
      /\ WorkerGoto(w, "take", None)
      /\ UNCHANGED <<started, stop, queue, next_job, work_semaphore, place, slots, device, live,
                     asked>>
  BY DEF DropDone
<1>2. /\ j \in Jobs /\ j \notin Queued /\ Wanted(j) /\ Holds(w)
      /\ \A v \in Workers : v # w /\ Holds(v) => worker[v].job # j
  BY <1>0, <1>1, HeldIs DEF CopyInv, Holds
<1>3. /\ worker'[w].at = "take" /\ \A v \in Workers : v # w => worker'[v] = worker[v]
  BY <1>0, <1>1, WorkerGoes
<1> HIDE DEF j
<1>4. /\ jobs' \in [Jobs -> Job] /\ jobs'[j].done = 1
      /\ \A i \in Jobs : i # j => jobs'[i] = jobs[i]
      /\ \A i \in Jobs : /\ jobs'[i].release = jobs[i].release /\ jobs'[i].object = jobs[i].object
                         /\ jobs'[i].slot = jobs[i].slot /\ jobs'[i].index = jobs[i].index
  BY <1>0, <1>1, <1>2 DEF Job
<1>5. /\ RingInv'
      /\ worker' \in [Workers -> [at : {"none", "take", "dequeue", "run", "released", "imported",
                                        "exited"}, job : Jobs \cup {None}]]
  BY <1>0, <1>1, <1>2, <1>4, WorkerRing
<1>6. /\ \A i : (Active(i)' <=> Active(i)) /\ (Held(i)' => Held(i))
      /\ ~Active(j) /\ \A i : i = j => ~Held(i)'
  <2>1. \A i : Runs(i)' <=> Runs(i)
    BY <1>1, <1>3 DEF Runs
  <2>2. \A i : (i \in Queued)' <=> i \in Queued
    BY <1>1 DEF Queued
  <2>3. \A i : Held(i)' => Held(i)
    BY <1>3 DEF Held, Holds
  <2>4. ~Runs(j)
    BY <1>1, <1>2 DEF Runs, Holds
  <2>5. \A i : i = j => ~Held(i)'
    BY <1>1, <1>2, <1>3 DEF Held, Holds
  <2> QED BY Zenon, <1>2, <2>1, <2>2, <2>3, <2>4, <2>5 DEF Active
<1>7. ImportTypeInv'
  BY <1>0, <1>1, <1>4, <1>5 DEF ImportTypeInv, place, slots, device
<1>8. UNCHANGED <<imports, import_count, copies, asked, live>>
  BY <1>1 DEF slots
<1>9. /\ \A s \in Slots : Unjoined(s)' = Unjoined(s)
      /\ \A i \in Jobs : Wanted(i)' <=> Wanted(i)
      /\ Making' = Making /\ Kept' = Kept
  BY <1>4, <1>6, <1>8 DEF Unjoined, Wanted, Making, Kept
<1>10. Releasing' = Releasing
  <2>1. Releasing = {i \in Jobs : jobs[i].release /\ Active(i)}
    BY Zenon DEF Releasing, Active, Queued, Runs
  <2>2. Releasing' = {i \in Jobs : jobs'[i].release /\ Active(i)'}
    BY Zenon DEF Releasing, Active, Queued, Runs
  <2> QED BY <1>4, <1>6, <2>1, <2>2
<1>11. CopyInv'
  <2>1. \A i \in Jobs : jobs'[i].done = 1 => ~Active(i)' /\ ~Held(i)' /\ Wanted(i)'
    <3> SUFFICES ASSUME NEW i \in Jobs, jobs'[i].done = 1
                 PROVE  ~Active(i)' /\ ~Held(i)' /\ Wanted(i)'
      OBVIOUS
    <3>1. CASE i = j
      <4>1. ~Active(i)' /\ ~Held(i)'
        BY <1>6, <3>1
      <4>2. Wanted(i)'
        BY <1>2, <1>9, <3>1
      <4> QED BY <4>1, <4>2
    <3>2. CASE i # j
      <4>1. ~Active(i) /\ ~Held(i) /\ Wanted(i)
        BY <1>0, <1>4, <3>2 DEF CopyInv
      <4> QED BY <1>6, <1>9, <4>1
    <3> QED BY <3>1, <3>2
  <2>2. \A v \in Workers : (worker[v].at = "imported" => Wanted(worker[v].job))'
    <3> SUFFICES ASSUME NEW v \in Workers, worker'[v].at = "imported"
                 PROVE  Wanted(worker[v].job)'
      OBVIOUS
    <3>1. worker'[v] = worker[v] /\ Wanted(worker[v].job) /\ worker[v].job \in Jobs
      BY <1>0, <1>3 DEF CopyInv, RingInv, Holds
    <3> QED BY <1>4, <1>8, <3>1 DEF Wanted
  <2>3. \A i \in Making' : Wanted(i)'
    BY <1>0, <1>9 DEF CopyInv, Making
  <2>4. \A s \in Slots : \A i \in Unjoined(s)' :
          /\ jobs'[copies'[s][i]].slot = s /\ jobs'[copies'[s][i]].index = i
          /\ ~jobs'[copies'[s][i]].release
    BY <1>0, <1>4, <1>8, <1>9, UnjoinedIs
  <2> QED BY <1>0, <1>8, <2>1, <2>2, <2>3, <2>4 DEF CopyInv
<1>12. ObjectInv'
  <2>1. /\ \A i \in Releasing : jobs'[i].object = jobs[i].object
        /\ \A i \in Making : /\ jobs'[i].object = jobs[i].object
                             /\ jobs'[i].slot = jobs[i].slot /\ jobs'[i].index = jobs[i].index
    BY <1>4 DEF Releasing, Making
  <2>2. {jobs'[i].object : i \in Releasing} = {jobs[i].object : i \in Releasing}
    BY <2>1
  <2> QED BY <1>0, <1>8, <1>9, <1>10, <2>1, <2>2 DEF ObjectInv
<1>13. PlaceInv' /\ AgeInv' /\ DeviceInv'
  BY <1>1, CallerStays
<1> QED BY <1>5, <1>7, <1>11, <1>12, <1>13 DEF ImportInv

LEMMA RunImportKeeps == ASSUME ImportInv, NEW w \in Workers, RunImport(w) PROVE ImportInv'
<1> DEFINE j == worker[w].job
           s == jobs[j].slot
           k == jobs[j].index
           o == jobs[j].object
<1>0. /\ ImportTypeInv /\ RingInv /\ CopyInv /\ PlaceInv /\ AgeInv /\ ObjectInv /\ DeviceInv
      /\ jobs \in [Jobs -> Job] /\ imports \in [Slots -> [Ports -> Nat \cup {None}]]
  BY DEF ImportInv, ImportTypeInv
<1>1. /\ worker[w].at = "run" /\ ~jobs[j].release
      /\ WorkerGoto(w, "imported", j)
      /\ UNCHANGED <<started, stop, queue, next_job, work_semaphore, place, import_count, copies,
                     pending, device, asked>>
  BY DEF RunImport
<1> PICK works \in BOOLEAN :
      /\ jobs' = [jobs EXCEPT ![j].ok = works]
      /\ live' = IF works THEN live \cup {o} ELSE live
      /\ imports' = IF works THEN [imports EXCEPT ![s][k] = o] ELSE imports
  BY DEF RunImport
<1>2. /\ j \in Jobs /\ Active(j)
      /\ worker'[w].at = "imported" /\ worker'[w].job = j
      /\ \A v \in Workers : v # w => worker'[v] = worker[v]
      /\ \A i : Active(i)' <=> Active(i) /\ i # j
      /\ \A i : Held(i)' <=> Held(i)
  BY <1>0, <1>1, RanIs
<1>3. /\ jobs' \in [Jobs -> Job] /\ \A i \in Jobs : i # j => jobs'[i] = jobs[i]
      /\ \A i \in Jobs : /\ jobs'[i].release = jobs[i].release /\ jobs'[i].object = jobs[i].object
                         /\ jobs'[i].slot = jobs[i].slot /\ jobs'[i].index = jobs[i].index
                         /\ jobs'[i].done = jobs[i].done
  <2> HIDE DEF j
  <2> QED BY <1>0, <1>2 DEF Job
<1>4. /\ RingInv'
      /\ worker' \in [Workers -> [at : {"none", "take", "dequeue", "run", "released", "imported",
                                        "exited"}, job : Jobs \cup {None}]]
  <2>1. Holds(w)
    BY <1>1 DEF Holds
  <2>2. WorkerGoto(w, "imported", worker[w].job)
    BY <1>1
  <2>3. ~jobs[worker[w].job].release /\ worker[w].job \in Jobs
    BY <1>1, <1>2
  <2> HIDE DEF j
  <2> QED BY <1>0, <1>1, <1>3, <2>1, <2>2, <2>3, WorkerRing
<1>5. j \in Making
  BY <1>1, <1>2 DEF Making
<1>6. /\ Wanted(j) /\ imports[s][k] = None /\ o \in 1 .. asked /\ o \notin live
  BY <1>0, <1>5 DEF CopyInv, ObjectInv
<1>7. /\ s \in Slots /\ k \in Ports /\ k \in Unjoined(s) /\ copies[s][k] = j
      /\ k <= import_count[s] /\ o \in Nat /\ o # None
  <2>1. s \in Slots /\ k \in Ports /\ k \in Unjoined(s) /\ copies[s][k] = j
    BY <1>0, <1>2, <1>6, WantedIs
  <2>2. k <= Len(copies[s]) /\ Len(copies[s]) <= import_count[s]
    BY <1>0, <1>6, <2>1 DEF CopyInv, Wanted
  <2> HIDE DEF j, s, k, o
  <2>3. /\ Len(copies[s]) \in Nat /\ import_count[s] \in Nat /\ k \in Nat /\ asked \in Nat
    BY <1>0, <2>1, Sizes, SMTT(60) DEF ImportTypeInv, Ports
  <2>4. o \in Nat /\ o # None
    BY <1>6, <2>3, ImportAssumption, SMTT(60)
  <2> QED BY <2>1, <2>2, <2>3, <2>4, SMTT(60)
<1> HIDE DEF j, s, k, o
<1>8. /\ imports' \in [Slots -> [Ports -> Nat \cup {None}]]
      /\ \A t \in Slots, l \in Ports :
           imports'[t][l] = IF works /\ t = s /\ l = k THEN o ELSE imports[t][l]
  <2>1. CASE ~works
    BY <1>0, <2>1
  <2>2. CASE works
    <3> DEFINE row == [imports[s] EXCEPT ![k] = o]
    <3>1. imports' = [imports EXCEPT ![s] = row]
      BY <2>2
    <3>2. /\ row \in [Ports -> Nat \cup {None}] /\ row[k] = o
          /\ \A l \in Ports : l # k => row[l] = imports[s][l]
      BY <1>0, <1>7
    <3> HIDE DEF row
    <3> QED BY <1>0, <1>7, <2>2, <3>1, <3>2
  <2> QED BY <2>1, <2>2
<1>9. o \notin Kept
  BY <1>0, <1>6 DEF ObjectInv
<1>10. Kept' = IF works THEN Kept \cup {o} ELSE Kept
  <2> DEFINE K == IF works THEN Kept \cup {o} ELSE Kept
  <2>1. \A x : x \in Kept' <=> x \in K
    <3> TAKE x
    <3>1. x \in Kept' <=> x # None /\ \E t \in Slots, l \in Ports : x = imports'[t][l]
      BY DEF Kept
    <3>2. x \in Kept <=> x # None /\ \E t \in Slots, l \in Ports : x = imports[t][l]
      BY KeptIs
    <3> QED BY <1>6, <1>7, <1>8, <3>1, <3>2
  <2> QED BY <2>1
<1>11. /\ UNCHANGED <<at, cur, deferred, import_count, copies, pending, reading, computing,
                      device_lost, asked, next_job>>
       /\ \A t \in Slots : Unjoined(t)' = Unjoined(t)
       /\ Unjoined(cur)' = Unjoined(cur) /\ Unjoined(deferred)' = Unjoined(deferred)
  BY <1>1 DEF place, device, Unjoined
<1>12. ImportTypeInv'
  BY <1>0, <1>1, <1>3, <1>4, <1>8 DEF ImportTypeInv, place, device
<1>13. \A i \in Jobs : Wanted(i)' <=> Wanted(i)
  BY <1>3, <1>11 DEF Wanted
<1>14. Making' = Making \ {j} /\ Releasing' = Releasing
  <2>1. Releasing = {i \in Jobs : jobs[i].release /\ Active(i)}
    BY Zenon DEF Releasing, Active, Queued, Runs
  <2>2. Releasing' = {i \in Jobs : jobs'[i].release /\ Active(i)'}
    BY Zenon DEF Releasing, Active, Queued, Runs
  <2>3. Making' = {i \in Jobs : ~jobs'[i].release /\ Active(i)'}
    BY Zenon DEF Making
  <2>4. ~jobs[j].release
    BY <1>1 DEF j
  <2> QED BY <1>2, <1>3, <2>1, <2>2, <2>3, <2>4 DEF Making
<1>15. CopyInv'
  <2>1. \A i \in Jobs : jobs'[i].done = 1 => ~Active(i)' /\ ~Held(i)' /\ Wanted(i)'
    BY <1>0, <1>2, <1>3, <1>13 DEF CopyInv
  <2>2. \A v \in Workers : (worker[v].at = "imported" => Wanted(worker[v].job))'
    <3> SUFFICES ASSUME NEW v \in Workers, worker'[v].at = "imported"
                 PROVE  Wanted(worker[v].job)'
      OBVIOUS
    <3>1. worker'[v].job \in Jobs /\ Wanted(worker'[v].job)
      <4>1. CASE v = w
        BY <1>2, <1>6, <4>1
      <4>2. CASE v # w
        BY <1>0, <1>2, <4>2 DEF CopyInv, RingInv, Holds
      <4> QED BY <4>1, <4>2
    <3> QED BY <1>3, <1>11, <3>1 DEF Wanted
  <2>3. \A i \in Making' : Wanted(i)'
    BY <1>0, <1>13, <1>14 DEF CopyInv, Making
  <2>4. \A t \in Slots : \A i \in Unjoined(t)' :
          /\ jobs'[copies'[t][i]].slot = t /\ jobs'[copies'[t][i]].index = i
          /\ ~jobs'[copies'[t][i]].release
    BY <1>0, <1>3, <1>11, UnjoinedIs
  <2> QED BY <1>0, <1>11, <2>1, <2>2, <2>3, <2>4 DEF CopyInv
<1>16. PlaceInv'
  <2>1. at \notin Between
    BY <1>0, <1>7 DEF PlaceInv
  <2> QED BY <1>0, <1>11, <2>1 DEF PlaceInv
<1>17. AgeInv'
  <2>1. ASSUME at = "begin", deferred # None, NEW i \in Unjoined(deferred), NEW l \in Unreleased(cur)'
        PROVE  Ago(next_job, copies[deferred][i]) < MaxImports + l - 1
    <3>1. cur \in Slots /\ deferred \in Slots /\ import_count[cur] \in 0 .. MaxImports
      BY <1>0, <2>1 DEF ImportTypeInv
    <3>2. s = deferred
      BY <1>0, <1>7, <2>1 DEF PlaceInv
    <3>3. CASE deferred = cur
      <4>1. Ago(next_job, copies[deferred][i]) < MaxImports
        BY <1>0, <2>1, <3>3 DEF AgeInv, Behind
      <4>2. l \in 1 .. import_count[cur]
        BY <1>11 DEF Unreleased
      <4>3. copies[deferred][i] \in Jobs
        BY <1>0, <2>1, <3>1, UnjoinedIs
      <4>4. Ago(next_job, copies[deferred][i]) \in Int
        BY <1>0, <4>3, AgoIs, Sizes DEF ImportTypeInv
      <4> QED BY <3>1, <4>1, <4>2, <4>4, Sizes
    <3>4. CASE deferred # cur
      <4>1. \A m \in Ports : imports'[cur][m] = imports[cur][m]
        BY <1>8, <3>1, <3>2, <3>4
      <4>2. l \in 1 .. import_count[cur] /\ imports'[cur][l] # None
        BY <1>11 DEF Unreleased
      <4>3. l \in Ports
        BY <3>1, <4>2, Sizes DEF Ports
      <4>4. l \in Unreleased(cur)
        BY <4>1, <4>2, <4>3 DEF Unreleased
      <4> QED BY <1>0, <2>1, <4>4 DEF AgeInv, Behind
    <3> QED BY <3>3, <3>4
  <2> QED BY <1>0, <1>11, <2>1 DEF AgeInv, Behind
<1>18. DeviceInv'
  <2>1. ASSUME NEW t \in Slots
        PROVE  reading'[t] \subseteq {imports'[t][l] : l \in Ports} \ {None}
    <3>1. reading[t] \subseteq {imports[t][l] : l \in Ports} \ {None}
      BY <1>0 DEF DeviceInv
    <3>2. \A l \in Ports : imports[t][l] # None => imports'[t][l] = imports[t][l]
      BY <1>6, <1>8
    <3> QED BY <1>11, <3>1, <3>2
  <2> QED BY <1>0, <1>11, <2>1 DEF DeviceInv
<1>19. ObjectInv'
  <2>1. /\ \A i \in Releasing : jobs'[i].object = jobs[i].object /\ jobs[i].object # o
        /\ \A i \in Making : /\ jobs'[i].object = jobs[i].object
                             /\ jobs'[i].slot = jobs[i].slot /\ jobs'[i].index = jobs[i].index
    BY <1>0, <1>3, <1>6 DEF ObjectInv, Releasing, Making
  <2>2. {jobs'[i].object : i \in Releasing} = {jobs[i].object : i \in Releasing}
    BY <2>1
  <2>3. live' = Kept' \cup {jobs'[i].object : i \in Releasing'}
    <3>1. live = Kept \cup {jobs[i].object : i \in Releasing}
      BY <1>0 DEF ObjectInv
    <3>2. live' = IF works THEN live \cup {o} ELSE live
      BY DEF o
    <3> QED BY <1>10, <1>14, <2>2, <3>1, <3>2
  <2>4. live' \subseteq 1 .. asked' /\ live' \subseteq live \cup {o}
    BY <1>0, <1>6, <1>11 DEF ObjectInv, o
  <2>5. \A t \in Slots, l \in Ports : l > import_count'[t] => imports'[t][l] = None
    <3>1. import_count[s] \in Int /\ k \in Int
      BY <1>0, <1>7, Sizes DEF ImportTypeInv, Ports
    <3> QED BY <1>0, <1>7, <1>8, <1>11, <3>1 DEF ObjectInv
  <2>6. \A t, r \in Slots, l, m \in Ports :
          imports'[t][l] # None /\ imports'[t][l] = imports'[r][m] => t = r /\ l = m
    <3>1. \A t \in Slots, l \in Ports : imports[t][l] # o
      BY <1>7, <1>9, KeptIs
    <3>2. \A t, r \in Slots, l, m \in Ports :
            imports[t][l] # None /\ imports[t][l] = imports[r][m] => t = r /\ l = m
      BY <1>0 DEF ObjectInv
    <3> QED BY <1>8, <3>1, <3>2
  <2>7. \A i \in Releasing' : jobs'[i].object \notin Kept'
    BY <1>0, <1>10, <1>14, <2>1 DEF ObjectInv
  <2>8. /\ \A i, l \in Releasing' : jobs'[i].object = jobs'[l].object => i = l
        /\ \A i, l \in Making' : jobs'[i].object = jobs'[l].object => i = l
    BY <1>0, <1>14, <2>1 DEF ObjectInv
  <2>9. ASSUME NEW i \in Making'
        PROVE  /\ imports'[jobs'[i].slot][jobs'[i].index] = None
               /\ jobs'[i].object \in 1 .. asked' /\ jobs'[i].object \notin live'
    <3>1. i \in Making /\ i \in Jobs /\ i # j
      BY <1>14 DEF Making
    <3>2. /\ jobs[i].slot \in Slots /\ jobs[i].index \in Ports
          /\ copies[jobs[i].slot][jobs[i].index] = i
      BY <1>0, <3>1, WantedIs DEF CopyInv
    <3>3. ~(jobs[i].slot = s /\ jobs[i].index = k)
      BY <1>7, <3>1, <3>2
    <3>4. /\ imports[jobs[i].slot][jobs[i].index] = None
          /\ jobs[i].object \in 1 .. asked /\ jobs[i].object \notin live
      BY <1>0, <3>1 DEF ObjectInv
    <3>5. jobs[i].object # o
      BY <1>0, <1>5, <3>1 DEF ObjectInv, o
    <3> QED BY <1>8, <1>11, <2>1, <2>4, <3>1, <3>2, <3>3, <3>4, <3>5
  <2> QED BY <2>3, <2>4, <2>5, <2>6, <2>7, <2>8, <2>9 DEF ObjectInv
<1> QED BY <1>4, <1>12, <1>15, <1>16, <1>17, <1>18, <1>19 DEF ImportInv

-------------------------------------------------------------------------------
(* The caller                                                              *)

(* What the caller leaves to the workers.                                  *)
LEMMA WorkStays ==
  ASSUME ImportInv, UNCHANGED <<queue, jobs, next_job, worker, started>>,
         \/ UNCHANGED <<stop, work_semaphore>>
         \/ stop',
         at # "done" \/ at' = at
  PROVE  /\ RingInv'
         /\ \A j : (Active(j)' <=> Active(j)) /\ (Held(j)' <=> Held(j))
         /\ Making' = Making /\ Releasing' = Releasing
<1>1. RingInv
  BY DEF ImportInv
<1>2. /\ \A j : (Active(j)' <=> Active(j)) /\ (Held(j)' <=> Held(j))
      /\ Making' = Making /\ Releasing' = Releasing /\ Waking' = Waking
  BY DEF Active, Queued, Runs, Held, Holds, Making, Releasing, Waking
<1>3. RingInv'
  BY <1>1, <1>2 DEF RingInv, Behind, Ago, Holds
<1> QED BY <1>2, <1>3

LEMMA ObjectsStay ==
  ASSUME ImportInv, UNCHANGED <<jobs, imports, live, asked>>, Making' = Making, Releasing' = Releasing,
         \A s \in Slots, k \in Ports : k > import_count'[s] => imports[s][k] = None
  PROVE  ObjectInv'
<1>1. ObjectInv /\ Kept' = Kept
  BY DEF ImportInv, Kept
<1> QED BY <1>1 DEF ObjectInv

(* The caller goes on and leaves the copies and the imports as they are.    *)
LEMMA CallerMoves ==
  ASSUME ImportInv, UNCHANGED <<queue, jobs, next_job, worker, started, imports, import_count, copies,
                           live, asked>>,
         \/ UNCHANGED <<stop, work_semaphore>>
         \/ stop',
         at # "done" \/ at' = at
  PROVE  RingInv' /\ CopyInv' /\ ObjectInv'
<1>1. /\ RingInv' /\ Making' = Making /\ Releasing' = Releasing
      /\ \A j : (Active(j)' <=> Active(j)) /\ (Held(j)' <=> Held(j))
  BY WorkStays
<1>2. CopyInv /\ ObjectInv
  BY DEF ImportInv
<1>3. ObjectInv'
  BY <1>1, <1>2, ObjectsStay DEF ObjectInv
<1>4. CopyInv'
  BY <1>1, <1>2, SMTT(60) DEF CopyInv, Wanted, Unjoined
<1> QED BY <1>1, <1>3, <1>4

(* The lists of slots without an unjoined copy are emptied.                *)
LEMMA CopiesEmptied ==
  ASSUME ImportInv, NEW S \in SUBSET Slots, \A s \in S : Unjoined(s) = {},
         UNCHANGED <<queue, jobs, worker>>,
         \A s \in S : copies'[s] = <<>>,
         \A s \in Slots \ S : copies'[s] = copies[s] /\ import_count'[s] = import_count[s],
         import_count' \in [Slots -> 0 .. MaxImports]
  PROVE  /\ CopyInv'
         /\ copies' = [s \in Slots |-> copies'[s]] => copies' \in [Slots -> Seq(Jobs \cup {None})]
         /\ \A s \in Slots : Unjoined(s)' = Unjoined(s)
         /\ \A s \in Slots : \A i \in Unjoined(s) : copies'[s][i] = copies[s][i]
<1>1. ImportTypeInv /\ CopyInv /\ RingInv /\ copies \in [Slots -> Seq(Jobs \cup {None})]
  BY DEF ImportInv, ImportTypeInv
<1>2. \A s \in Slots : Unjoined(s)' = Unjoined(s)
  <2> TAKE s \in Slots
  <2>1. CASE s \in S
    BY <2>1 DEF Unjoined
  <2>2. CASE s \notin S
    BY <2>2 DEF Unjoined
  <2> QED BY <2>1, <2>2
<1>3. \A s \in Slots : \A i \in Unjoined(s) : copies'[s][i] = copies[s][i]
  OBVIOUS
<1>4. copies' = [s \in Slots |-> copies'[s]] => copies' \in [Slots -> Seq(Jobs \cup {None})]
  <2>1. \A s \in Slots : copies'[s] \in Seq(Jobs \cup {None})
    <3> TAKE s \in Slots
    <3>1. CASE s \in S
      <4>1. copies'[s] = <<>>
        BY <3>1
      <4> QED BY <4>1, EmptySeq
    <3>2. CASE s \notin S
      <4>1. copies'[s] = copies[s]
        BY <3>2
      <4> QED BY <1>1, <4>1
    <3> QED BY <3>1, <3>2
  <2> QED BY Zenon, <2>1
<1>5. \A j \in Jobs : Wanted(j) => Wanted(j)'
  <2> SUFFICES ASSUME NEW j \in Jobs, Wanted(j) PROVE Wanted(j)'
    OBVIOUS
  <2>1. jobs[j].slot \in Slots /\ jobs[j].index \in Unjoined(jobs[j].slot)
    BY <1>1, WantedIs
  <2>2. copies'[jobs[j].slot] = copies[jobs[j].slot]
    BY <2>1
  <2> QED BY <2>2 DEF Wanted
<1>6. /\ \A j : (Active(j)' <=> Active(j)) /\ (Held(j)' <=> Held(j))
      /\ Making' = Making
  BY DEF Active, Queued, Runs, Held, Holds, Making
<1>7. \A s \in Slots : Len(copies'[s]) <= import_count'[s]
  <2> TAKE s \in Slots
  <2>1. CASE s \in S
    <3>1. Len(copies'[s]) = 0 /\ import_count'[s] \in 0 .. MaxImports
      BY <2>1
    <3> QED BY <3>1, Sizes
  <2>2. CASE s \notin S
    BY <1>1, <2>2 DEF CopyInv
  <2> QED BY <2>1, <2>2
<1>8. \A s \in Slots : \A i \in Unjoined(s)' :
        /\ jobs'[copies'[s][i]].slot = s /\ jobs'[copies'[s][i]].index = i
        /\ ~jobs'[copies'[s][i]].release
  BY <1>1, <1>2, <1>3, UnjoinedIs
<1>9. \A w \in Workers : (worker[w].at = "imported" => Wanted(worker[w].job))'
  <2> SUFFICES ASSUME NEW w \in Workers, worker[w].at = "imported"
               PROVE  Wanted(worker[w].job)'
    OBVIOUS
  <2> DEFINE j == worker[w].job
  <2>1. j \in Jobs /\ Wanted(j) /\ j' = j
    BY <1>1 DEF RingInv, CopyInv, Holds
  <2> HIDE DEF j
  <2>2. Wanted(j)'
    <3>1. jobs[j].slot \in Slots /\ jobs[j].index \in Unjoined(jobs[j].slot)
      BY <1>1, <2>1, WantedIs
    <3>2. copies'[jobs[j].slot] = copies[jobs[j].slot]
      BY <3>1
    <3> QED BY <2>1, <3>2 DEF Wanted
  <2> QED BY <2>2 DEF j
<1>10. /\ \A j \in Jobs : jobs'[j].done = 1 => ~Active(j)' /\ ~Held(j)' /\ Wanted(j)'
       /\ \A j \in Making' : Wanted(j)'
  BY <1>1, <1>5, <1>6 DEF CopyInv, Making
<1> QED BY <1>2, <1>3, <1>4, <1>7, <1>8, <1>9, <1>10 DEF CopyInv

(* A copy is joined: its job is done, and no worker's any more.            *)
LEMMA Joins ==
  ASSUME ImportInv, NEW s \in Slots, JoinImport(s), at \in {"submit", "close"},
         UNCHANGED <<started, stop, queue, next_job, work_semaphore, worker, place, imports,
                     import_count, pending, device, live, asked>>
  PROVE  ImportInv'
<1>0. /\ ImportTypeInv /\ RingInv /\ CopyInv /\ PlaceInv /\ AgeInv /\ ObjectInv /\ DeviceInv
      /\ jobs \in [Jobs -> Job] /\ copies \in [Slots -> Seq(Jobs \cup {None})]
  BY DEF ImportInv, ImportTypeInv
<1> PICK i \in Unjoined(s) :
      /\ jobs[copies[s][i]].done = 1
      /\ jobs' = [jobs EXCEPT ![copies[s][i]].done = 0]
      /\ copies' = [copies EXCEPT ![s][i] = None]
  BY DEF JoinImport
<1> DEFINE j == copies[s][i]
<1>1. /\ i \in 1 .. Len(copies[s]) /\ j \in Jobs
      /\ jobs[j].slot = s /\ jobs[j].index = i /\ jobs[j].done = 1
  BY <1>0, UnjoinedIs
<1>2. ~Active(j) /\ ~Held(j)
  BY <1>0, <1>1 DEF CopyInv
<1>3. /\ copies' \in [Slots -> Seq(Jobs \cup {None})]
      /\ \A t \in Slots : /\ Len(copies'[t]) = Len(copies[t])
                          /\ \A l \in 1 .. Len(copies[t]) :
                               copies'[t][l] = IF t = s /\ l = i THEN None ELSE copies[t][l]
  <2> DEFINE row == [copies[s] EXCEPT ![i] = None]
  <2>1. copies' = [copies EXCEPT ![s] = row]
    OBVIOUS
  <2>2. /\ row \in Seq(Jobs \cup {None}) /\ Len(row) = Len(copies[s]) /\ row[i] = None
        /\ \A l \in 1 .. Len(copies[s]) : l # i => row[l] = copies[s][l]
    <3>1. copies[s] \in Seq(Jobs \cup {None})
      BY <1>0
    <3> QED BY <1>1, <3>1
  <2> HIDE DEF row, j
  <2> QED BY <1>0, <2>1, <2>2
<1>4. /\ jobs' \in [Jobs -> Job] /\ jobs'[j].done = 0
      /\ \A m \in Jobs : m # j => jobs'[m] = jobs[m]
      /\ \A m \in Jobs : /\ jobs'[m].release = jobs[m].release /\ jobs'[m].object = jobs[m].object
                         /\ jobs'[m].slot = jobs[m].slot /\ jobs'[m].index = jobs[m].index
  <2>1. jobs' = [jobs EXCEPT ![j].done = 0]
    OBVIOUS
  <2> HIDE DEF j
  <2> QED BY <1>0, <1>1, <2>1 DEF Job
<1> HIDE DEF j
<1>5. /\ \A t \in Slots : Unjoined(t)' = IF t = s THEN Unjoined(t) \ {i} ELSE Unjoined(t)
      /\ \A t \in Slots : \A l \in Unjoined(t)' : copies'[t][l] = copies[t][l]
  <2>1. ASSUME NEW t \in Slots
        PROVE  Unjoined(t)' = IF t = s THEN Unjoined(t) \ {i} ELSE Unjoined(t)
    BY <1>1, <1>3 DEF Unjoined
  <2>2. ASSUME NEW t \in Slots, NEW l \in Unjoined(t)' PROVE copies'[t][l] = copies[t][l]
    <3>1. l \in 1 .. Len(copies'[t]) /\ copies'[t][l] # None
      BY DEF Unjoined
    <3> QED BY <1>3, <3>1
  <2> QED BY <2>1, <2>2
<1>6. UNCHANGED <<at, cur, deferred, pending, reading, computing, device_lost>>
  BY DEF place, device
<1>7. /\ \A m : (Active(m)' <=> Active(m)) /\ (Held(m)' <=> Held(m))
      /\ Making' = Making /\ Waking' = Waking /\ Kept' = Kept
  BY <1>4 DEF Active, Queued, Runs, Held, Holds, Making, Waking, Kept
<1>8. Releasing' = Releasing
  <2>1. Releasing = {m \in Jobs : jobs[m].release /\ Active(m)}
    BY Zenon DEF Releasing, Active, Queued, Runs
  <2>2. Releasing' = {m \in Jobs : jobs'[m].release /\ Active(m)'}
    BY Zenon DEF Releasing, Active, Queued, Runs
  <2> QED BY <1>4, <1>7, <2>1, <2>2
<1>9. \A m \in Jobs : m # j /\ Wanted(m) => Wanted(m)'
  <2> SUFFICES ASSUME NEW m \in Jobs, m # j, Wanted(m) PROVE Wanted(m)'
    OBVIOUS
  <2>1. /\ jobs[m].slot \in Slots /\ jobs[m].index \in Unjoined(jobs[m].slot)
        /\ copies[jobs[m].slot][jobs[m].index] = m
    BY <1>0, WantedIs
  <2>2. jobs[m].index \in 1 .. Len(copies[jobs[m].slot])
    BY <2>1 DEF Unjoined
  <2>3. ~(jobs[m].slot = s /\ jobs[m].index = i)
    BY <2>1 DEF j
  <2>4. copies'[jobs[m].slot][jobs[m].index] = m /\ jobs[m].index <= Len(copies'[jobs[m].slot])
    BY <1>3, <2>1, <2>2, <2>3
  <2> QED BY <1>4, <2>4 DEF Wanted
<1>10. ImportTypeInv'
  BY <1>0, <1>3, <1>4, <1>6 DEF ImportTypeInv, place, device
<1>11. RingInv'
  <2>1. \A w \in Workers : Holds(w) => worker[w].job \in Jobs
    BY <1>0 DEF RingInv
  <2>2. \A w \in Workers : /\ worker'[w].at = "released" => jobs'[worker'[w].job].release
                           /\ worker'[w].at = "imported" => ~jobs'[worker'[w].job].release
    BY <1>0, <1>4, <2>1, SMTT(60) DEF RingInv, Holds
  <2> QED BY <1>0, <1>6, <1>7, <2>2 DEF RingInv, Behind, Ago, Holds
<1>12. CopyInv'
  <2>1. \A t \in Slots : Len(copies'[t]) <= import_count'[t]
    BY <1>0, <1>3 DEF CopyInv
  <2>2. \A t \in Slots : \A l \in Unjoined(t)' :
          /\ jobs'[copies'[t][l]].slot = t /\ jobs'[copies'[t][l]].index = l
          /\ ~jobs'[copies'[t][l]].release
    <3> SUFFICES ASSUME NEW t \in Slots, NEW l \in Unjoined(t)'
                 PROVE  /\ jobs'[copies'[t][l]].slot = t /\ jobs'[copies'[t][l]].index = l
                        /\ ~jobs'[copies'[t][l]].release
      OBVIOUS
    <3>1. l \in Unjoined(t) /\ copies'[t][l] = copies[t][l]
      BY <1>5
    <3>2. /\ copies[t][l] \in Jobs /\ jobs[copies[t][l]].slot = t /\ jobs[copies[t][l]].index = l
          /\ ~jobs[copies[t][l]].release
      BY <1>0, <3>1, UnjoinedIs
    <3> QED BY <1>4, <3>1, <3>2, SMTT(60)
  <2>3. \A m \in Jobs : jobs'[m].done = 1 => ~Active(m)' /\ ~Held(m)' /\ Wanted(m)'
    BY <1>0, <1>4, <1>7, <1>9 DEF CopyInv
  <2>4. \A m \in Making' : Wanted(m)'
    BY <1>0, <1>2, <1>7, <1>9 DEF CopyInv, Making
  <2>5. \A w \in Workers : (worker[w].at = "imported" => Wanted(worker[w].job))'
    <3> SUFFICES ASSUME NEW w \in Workers, worker[w].at = "imported"
                 PROVE  Wanted(worker[w].job)'
      OBVIOUS
    <3> DEFINE m == worker[w].job
    <3>1. m \in Jobs /\ Wanted(m) /\ m' = m /\ Holds(w)
      BY <1>0 DEF RingInv, CopyInv, Holds
    <3>2. m # j
      BY <1>2, <3>1 DEF Held
    <3> HIDE DEF m
    <3>3. \A n \in Jobs : n = m => Wanted(n)'
      BY <1>9, <3>1, <3>2
    <3>4. \A n : n = m => (Wanted(n)' => Wanted(m)')
      BY <3>1 DEF Wanted
    <3> QED BY <3>1, <3>3, <3>4 DEF m
  <2> QED BY <2>1, <2>2, <2>3, <2>4, <2>5 DEF CopyInv
<1>13. PlaceInv'
  <2>1. \A t \in Slots : Unjoined(t) = {} => Unjoined(t)' = {}
    BY <1>5
  <2> QED BY <1>0, <1>6, <2>1 DEF PlaceInv, Between
<1>14. AgeInv'
  <2>1. cur \in Slots
    BY <1>0 DEF ImportTypeInv
  <2>2. at = "submit" => \A l \in Unjoined(cur)' : Ago(next_job, copies'[cur][l]) < MaxImports
    <3> SUFFICES ASSUME at = "submit", NEW l \in Unjoined(cur)'
                 PROVE  Ago(next_job, copies'[cur][l]) < MaxImports
      OBVIOUS
    <3>1. l \in 1 .. Len(copies'[cur]) /\ copies'[cur][l] # None
      BY <1>6 DEF Unjoined
    <3>2. l \in Unjoined(cur) /\ copies'[cur][l] = copies[cur][l]
      BY <1>3, <2>1, <3>1 DEF Unjoined
    <3> QED BY <1>0, <3>2 DEF AgeInv, Behind
  <2> QED BY <1>6, <2>2 DEF AgeInv, Behind
<1>15. ObjectInv'
  <2>1. /\ \A m \in Releasing : jobs'[m].object = jobs[m].object
        /\ \A m \in Making : /\ jobs'[m].object = jobs[m].object
                             /\ jobs'[m].slot = jobs[m].slot /\ jobs'[m].index = jobs[m].index
    BY <1>4 DEF Releasing, Making
  <2>2. {jobs'[m].object : m \in Releasing} = {jobs[m].object : m \in Releasing}
    BY <2>1
  <2> QED BY <1>0, <1>7, <1>8, <2>1, <2>2, SMTT(60) DEF ObjectInv
<1>16. DeviceInv'
  BY <1>0, <1>6 DEF DeviceInv
<1> QED BY <1>10, <1>11, <1>12, <1>13, <1>14, <1>15, <1>16 DEF ImportInv

-------------------------------------------------------------------------------
(* The caller's steps                                                      *)

(* Between two streams, and still between them.                            *)
LEMMA Rests ==
  ASSUME ImportInv, at \in Between, at' \in Between,
         UNCHANGED <<imports, copies, pending, reading, computing, device_lost>>
  PROVE  PlaceInv' /\ AgeInv' /\ DeviceInv'
<1>1. PlaceInv /\ DeviceInv
  BY DEF ImportInv
<1>2. \A s \in Slots : Unjoined(s)' = {} /\ \A k \in Ports : imports'[s][k] = None
  BY <1>1 DEF PlaceInv, Unjoined
<1>3. PlaceInv'
  BY <1>2 DEF PlaceInv, Between
<1>4. AgeInv'
  BY DEF AgeInv, Between
<1> QED BY <1>1, <1>3, <1>4 DEF DeviceInv

LEMMA OpenStreamKeeps == ASSUME ImportInv, OpenStream PROVE ImportInv'
<1>0. ImportTypeInv /\ RingInv /\ CopyInv /\ PlaceInv /\ ObjectInv /\ DeviceInv
  BY DEF ImportInv
<1>1. /\ at = "idle" /\ at' = "finishToOpen" /\ started' = TRUE
      /\ worker' = IF started THEN worker
                   ELSE [w \in Workers |-> [at |-> "take", job |-> None]]
      /\ UNCHANGED <<stop, queue, jobs, next_job, work_semaphore, cur, deferred, imports,
                     import_count, copies, pending, reading, computing, device_lost, live, asked>>
  BY DEF OpenStream, Goto, slots, device
<1>2. \A w \in Workers : /\ worker'[w] = worker[w] \/ ~started
                         /\ ~started => worker[w].at = "none" /\ worker'[w].at = "take"
  BY <1>0, <1>1 DEF RingInv
<1>3. \A w \in Workers : /\ Holds(w)' <=> Holds(w)
                         /\ Holds(w) => worker'[w] = worker[w]
                         /\ worker'[w].at = "run" <=> worker[w].at = "run"
                         /\ worker'[w].at = "dequeue" <=> worker[w].at = "dequeue"
  BY <1>2 DEF Holds
<1>4. Waking' = Waking
  BY <1>3 DEF Waking
<1>5. /\ \A j : (Active(j)' <=> Active(j)) /\ (Held(j)' <=> Held(j))
      /\ Making' = Making /\ Releasing' = Releasing
  <2>1. \A j : Runs(j)' <=> Runs(j)
    BY <1>3 DEF Runs, Holds
  <2>2. \A j : Held(j)' <=> Held(j)
    BY <1>3 DEF Held
  <2>3. \A j : Active(j)' <=> Active(j)
    BY <1>1, <2>1 DEF Active, Queued
  <2>4. Releasing = {j \in Jobs : jobs[j].release /\ Active(j)}
    BY Zenon DEF Releasing, Active, Queued, Runs
  <2>5. Releasing' = {j \in Jobs : jobs'[j].release /\ Active(j)'}
    BY Zenon DEF Releasing, Active, Queued, Runs
  <2> QED BY <1>1, <2>2, <2>3, <2>4, <2>5 DEF Making
<1>6. ImportTypeInv'
  BY <1>0, <1>1 DEF ImportTypeInv, Between
<1>7. RingInv'
  BY <1>0, <1>1, <1>3, <1>4 DEF RingInv, Behind, Ago, Holds
<1>8. CopyInv'
  BY <1>0, <1>1, <1>3, <1>5 DEF CopyInv, Wanted, Unjoined, Holds
<1>9. ObjectInv'
  BY <1>0, <1>1, <1>5, ObjectsStay DEF ObjectInv
<1>10. PlaceInv' /\ AgeInv' /\ DeviceInv'
  BY <1>1, Rests DEF Between
<1> QED BY <1>6, <1>7, <1>8, <1>9, <1>10 DEF ImportInv

(* A query begins, or the pool is to stop.                                 *)
LEMMA LeavesIdleKeeps == ASSUME ImportInv, BeginEpoch \/ StopPool PROVE ImportInv'
<1>1. /\ at = "idle" /\ at' \in {"finishEpoch", "finishToStop"}
      /\ UNCHANGED <<started, stop, queue, jobs, next_job, work_semaphore, worker, cur, deferred,
                     imports, import_count, copies, pending, reading, computing, device_lost,
                     live, asked>>
  BY DEF BeginEpoch, StopPool, Goto, pool, slots, device
<1>2. RingInv' /\ CopyInv' /\ ObjectInv'
  BY <1>1, CallerMoves
<1>3. PlaceInv' /\ AgeInv' /\ DeviceInv'
  BY <1>1, Rests DEF Between
<1>4. ImportTypeInv'
  BY <1>1 DEF ImportInv, ImportTypeInv, Between
<1> QED BY <1>2, <1>3, <1>4 DEF ImportInv

LEMMA FinishReleaseKeeps == ASSUME ImportInv, FinishRelease PROVE ImportInv'
<1>1. /\ UNCHANGED <<place, slots, device>>
      /\ UNCHANGED <<started, stop, queue, jobs, next_job, work_semaphore, worker, at, cur,
                     deferred, imports, import_count, copies, pending, reading, computing,
                     device_lost, live, asked>>
  BY DEF FinishRelease, place, slots, device
<1>2. RingInv' /\ CopyInv' /\ ObjectInv'
  BY <1>1, CallerMoves
<1>3. PlaceInv' /\ AgeInv' /\ DeviceInv'
  BY <1>1, CallerStays
<1>4. ImportTypeInv'
  BY <1>1 DEF ImportInv, ImportTypeInv
<1> QED BY <1>2, <1>3, <1>4 DEF ImportInv

LEMMA FinishedKeeps == ASSUME ImportInv, Finished PROVE ImportInv'
<1>0. ImportTypeInv /\ PlaceInv /\ DeviceInv
  BY DEF ImportInv
<1>1. /\ at \in Between /\ at # "done" /\ at' \in Between \cup {"chunk"}
      /\ cur' = 0 /\ deferred' = None
      /\ \/ UNCHANGED <<stop, work_semaphore>>
         \/ stop' = TRUE /\ work_semaphore' = work_semaphore + Cardinality(Workers)
      /\ UNCHANGED <<started, queue, jobs, next_job, worker, imports, import_count, copies,
                     pending, reading, computing, device_lost, live, asked>>
  BY DEF Finished, Goto, slots, device, Between
<1>2. RingInv' /\ CopyInv' /\ ObjectInv'
  BY <1>1, CallerMoves
<1>3. ImportTypeInv'
  <2>1. Cardinality(Workers) \in Nat
    BY ImportAssumption, FS_CardinalityType
  <2>2. 0 \in Slots
    BY ImportAssumption DEF Slots
  <2>3. stop' \in BOOLEAN
    BY Zenon, <1>0, <1>1 DEF ImportTypeInv
  <2>4. work_semaphore \in Nat
    BY <1>0 DEF ImportTypeInv
  <2>5. work_semaphore' \in Nat
    BY <1>1, <2>1, <2>4
  <2>6. cur' \in Slots /\ deferred' \in Slots \cup {None}
    BY <1>1, <2>2
  <2> QED BY <1>0, <1>1, <2>3, <2>5, <2>6 DEF ImportTypeInv
<1>4. PlaceInv'
  <2>1. \A s \in Slots : Unjoined(s)' = {} /\ \A k \in Ports : imports'[s][k] = None
    BY <1>0, <1>1 DEF PlaceInv, Unjoined
  <2> QED BY <1>1, <2>1 DEF PlaceInv, Between
<1>5. AgeInv'
  BY <1>1 DEF AgeInv, Between
<1>6. DeviceInv'
  BY <1>0, <1>1 DEF DeviceInv
<1> QED BY <1>2, <1>3, <1>4, <1>5, <1>6 DEF ImportInv

LEMMA JoinWorkersKeeps == ASSUME ImportInv, JoinWorkers PROVE ImportInv'
<1>0. ImportTypeInv /\ RingInv /\ CopyInv /\ ObjectInv
  BY DEF ImportInv
<1>1. /\ at = "exit" /\ at' = "done" /\ started' = FALSE
      /\ UNCHANGED <<stop, queue, jobs, next_job, work_semaphore, worker, cur, deferred,
                     imports, import_count, copies, pending, reading, computing, device_lost,
                     live, asked>>
  BY DEF JoinWorkers, Goto, slots, device
<1>2. /\ \A j : (Active(j)' <=> Active(j)) /\ (Held(j)' <=> Held(j))
      /\ Making' = Making /\ Releasing' = Releasing /\ Waking' = Waking
  BY <1>1 DEF Active, Queued, Runs, Held, Holds, Making, Releasing, Waking
<1>3. RingInv'
  BY <1>0, <1>1, <1>2 DEF RingInv, Behind, Ago, Holds
<1>4. CopyInv'
  BY <1>0, <1>1, <1>2, SMTT(60) DEF CopyInv, Wanted, Unjoined
<1>5. ObjectInv'
  BY <1>0, <1>1, <1>2, ObjectsStay DEF ObjectInv
<1>6. PlaceInv' /\ AgeInv' /\ DeviceInv'
  BY <1>1, Rests DEF Between
<1>7. ImportTypeInv'
  BY <1>0, <1>1 DEF ImportTypeInv, Between
<1> QED BY <1>3, <1>4, <1>5, <1>6, <1>7 DEF ImportInv

(* The slots are used in turn.                                             *)
LEMMA NextSlot == ASSUME NEW s \in Slots PROVE (s + 1) % SlotCount \in Slots
BY ImportAssumption DEF Slots

(* How long ago the job of a copy was handed over is a number.             *)
LEMMA BehindIs ==
  ASSUME ImportInv, NEW s \in Slots, NEW i \in Unjoined(s)
  PROVE  copies[s][i] \in Jobs /\ Behind(copies[s][i]) \in Nat
<1>1. ImportTypeInv /\ CopyInv /\ next_job \in Jobs
  BY DEF ImportInv, ImportTypeInv
<1>2. copies[s][i] \in Jobs
  BY <1>1, UnjoinedIs
<1>3. Ago(next_job, copies[s][i]) \in 0 .. JobCap - 1
  BY <1>1, <1>2, AgoIs
<1> QED BY <1>2, <1>3 DEF Behind

LEMMA BeginChunkKeeps == ASSUME ImportInv, BeginChunk PROVE ImportInv'
<1>0. ImportTypeInv /\ PlaceInv /\ AgeInv /\ DeviceInv /\ cur \in Slots /\ deferred \in Slots \cup {None}
  BY DEF ImportInv, ImportTypeInv
<1>1. /\ at = "chunk" /\ at' = "begin" /\ SlotWaited /\ pending' = pending \ {cur}
      /\ UNCHANGED <<started, stop, queue, jobs, next_job, work_semaphore, worker, cur, deferred,
                     imports, import_count, copies, reading, computing, device_lost,
                     live, asked>>
  BY DEF BeginChunk, Goto, pool, device
<1>2. RingInv' /\ CopyInv' /\ ObjectInv'
  BY <1>1, CallerMoves
<1>3. ImportTypeInv'
  BY <1>0, <1>1 DEF ImportTypeInv
<1>4. PlaceInv'
  BY <1>0, <1>1 DEF PlaceInv, Unjoined, Between
<1>5. AgeInv'
  <2>1. ASSUME deferred # None, NEW i \in Unjoined(deferred)
        PROVE  /\ Behind(copies[deferred][i]) < MaxImports
               /\ Behind(copies[deferred][i]) < 2 * MaxImports
               /\ \A k \in Unreleased(cur) : Behind(copies[deferred][i]) < MaxImports + k - 1
    <3>1. Behind(copies[deferred][i]) \in Nat
      BY <1>0, <2>1, BehindIs
    <3>2. Behind(copies[deferred][i]) < MaxImports
      BY <1>0, <1>1, <2>1 DEF AgeInv
    <3>3. \A k \in Unreleased(cur) : k \in Nat /\ k >= 1
      BY <1>0, UnreleasedIs DEF Ports
    <3> QED BY ONLY <3>1, <3>2, <3>3, Sizes
  <2> QED BY <1>1, <2>1 DEF AgeInv, Unjoined, Unreleased, Behind
<1>6. DeviceInv'
  BY <1>0, <1>1 DEF DeviceInv, SlotWaited
<1> QED BY <1>2, <1>3, <1>4, <1>5, <1>6 DEF ImportInv

LEMMA EndChunksKeeps == ASSUME ImportInv, EndChunks PROVE ImportInv'
<1>0. ImportTypeInv /\ PlaceInv /\ AgeInv /\ DeviceInv /\ cur \in Slots
  BY DEF ImportInv, ImportTypeInv
<1>1. /\ at = "chunk" /\ at' = IF deferred = None THEN "drain" ELSE "submit"
      /\ UNCHANGED <<started, stop, queue, jobs, next_job, work_semaphore, worker, cur, deferred,
                     imports, import_count, copies, pending, reading, computing, device_lost,
                     live, asked>>
  BY DEF EndChunks, Goto, pool, slots, device
<1>2. RingInv' /\ CopyInv' /\ ObjectInv'
  BY <1>1, CallerMoves
<1>3. ImportTypeInv'
  BY <1>0, <1>1 DEF ImportTypeInv
<1>4. PlaceInv'
  BY <1>0, <1>1 DEF PlaceInv, Unjoined, Between
<1>5. AgeInv'
  <2>1. deferred # None => \A i \in Unjoined(cur) : Behind(copies[cur][i]) < MaxImports
    BY <1>0, <1>1 DEF AgeInv, PlaceInv
  <2> QED BY <1>1, <2>1 DEF AgeInv, Unjoined, Behind
<1>6. DeviceInv'
  BY <1>0, <1>1 DEF DeviceInv
<1> QED BY <1>2, <1>3, <1>4, <1>5, <1>6 DEF ImportInv

LEMMA BeginReleaseKeeps == ASSUME ImportInv, BeginRelease PROVE ImportInv'
<1>1. cur \in Slots /\ at = "begin" /\ Unjoined(cur) = {} /\ ReleaseImport(cur)
  BY DEF ImportInv, ImportTypeInv, BeginRelease
<1>2. UNCHANGED <<started, stop, release_semaphore, worker, place, import_count, copies, pending,
                  ok, device, asked, opened>>
  BY DEF BeginRelease
<1> QED BY <1>1, <1>2, Releases

LEMMA CloseReleaseKeeps == ASSUME ImportInv, NEW s \in Slots, CloseRelease(s) PROVE ImportInv'
BY Releases DEF CloseRelease

LEMMA BegunKeeps == ASSUME ImportInv, Begun PROVE ImportInv'
<1>0. /\ ImportTypeInv /\ PlaceInv /\ AgeInv /\ ObjectInv /\ DeviceInv /\ cur \in Slots
      /\ copies \in [Slots -> Seq(Jobs \cup {None})]
      /\ import_count \in [Slots -> 0 .. MaxImports]
  BY DEF ImportInv, ImportTypeInv
<1>1. /\ at = "begin" /\ at' = "copy" /\ Unjoined(cur) = {} /\ Unreleased(cur) = {}
      /\ import_count' = [import_count EXCEPT ![cur] = 0]
      /\ copies' = [copies EXCEPT ![cur] = <<>>]
      /\ UNCHANGED <<started, stop, queue, jobs, next_job, work_semaphore, worker, cur, deferred,
                     imports, pending, reading, computing, device_lost, live, asked>>
  BY DEF Begun, Goto, pool, device
<1>2. /\ import_count' \in [Slots -> 0 .. MaxImports]
      /\ copies' \in [Slots -> Seq(Jobs \cup {None})]
      /\ copies'[cur] = <<>> /\ import_count'[cur] = 0
      /\ \A s \in Slots : s # cur => copies'[s] = copies[s] /\ import_count'[s] = import_count[s]
  <2>1. 0 \in 0 .. MaxImports
    BY Sizes
  <2> QED BY <1>0, <1>1, <2>1, EmptySeq
<1>3. /\ CopyInv'
      /\ \A s \in Slots : Unjoined(s)' = Unjoined(s)
      /\ \A s \in Slots : \A i \in Unjoined(s) : copies'[s][i] = copies[s][i]
  <2>1. {cur} \in SUBSET Slots /\ \A s \in {cur} : Unjoined(s) = {} /\ copies'[s] = <<>>
    BY <1>0, <1>1, <1>2
  <2>2. \A s \in Slots \ {cur} : copies'[s] = copies[s] /\ import_count'[s] = import_count[s]
    BY <1>2
  <2>3. UNCHANGED <<queue, jobs, worker>>
    BY <1>1
  <2> QED BY <1>2, <2>1, <2>2, <2>3, CopiesEmptied
<1>4. RingInv' /\ Making' = Making /\ Releasing' = Releasing
  BY <1>1, WorkStays
<1>5. ImportTypeInv'
  BY <1>0, <1>1, <1>2 DEF ImportTypeInv
<1>6. ObjectInv'
  <2>1. \A k \in Ports : imports[cur][k] = None
    <3> SUFFICES ASSUME NEW k \in Ports, imports[cur][k] # None PROVE FALSE
      OBVIOUS
    <3>1. ~(k > import_count[cur])
      BY <1>0 DEF ObjectInv
    <3>2. k \in 1 .. import_count[cur]
      BY <1>0, <3>1 DEF Ports
    <3> QED BY <1>1, <3>2 DEF Unreleased
  <2>2. \A s \in Slots, k \in Ports : k > import_count'[s] => imports[s][k] = None
    BY <1>0, <1>2, <2>1 DEF ObjectInv
  <2> QED BY <1>1, <1>4, <2>2, ObjectsStay
<1>7. PlaceInv'
  <2>1. \A s \in Slots \ {cur, deferred} : Unjoined(s)' = {}
    BY <1>0, <1>1, <1>3 DEF PlaceInv
  <2>2. Len(copies'[cur]) = import_count'[cur] /\ cur \notin pending
    BY <1>0, <1>1, <1>2 DEF PlaceInv
  <2> QED BY <1>1, <2>1, <2>2 DEF PlaceInv, Between
<1>8. AgeInv'
  <2>1. deferred # None => deferred \in Slots
    BY <1>0 DEF ImportTypeInv
  <2>2. deferred # None => \A i \in Unjoined(deferred)' :
          Ago(next_job, copies'[deferred][i]) < 2 * MaxImports + import_count'[cur]
    <3> SUFFICES ASSUME deferred # None, NEW i \in Unjoined(deferred)'
                 PROVE  Ago(next_job, copies'[deferred][i]) < 2 * MaxImports + import_count'[cur]
      OBVIOUS
    <3>1. \A s \in Slots : s = deferred => Unjoined(s)' = Unjoined(deferred)'
      BY <1>1 DEF Unjoined
    <3>2. i \in Unjoined(deferred) /\ copies'[deferred][i] = copies[deferred][i]
      BY <1>3, <2>1, <3>1
    <3>3. Behind(copies[deferred][i]) < 2 * MaxImports
      BY <1>0, <1>1, <3>2 DEF AgeInv
    <3>4. 2 * MaxImports + import_count'[cur] = 2 * MaxImports
      BY <1>2, Sizes
    <3> QED BY <3>2, <3>3, <3>4 DEF Behind
  <2>3. Unjoined(cur)' = {}
    BY <1>1, <1>2 DEF Unjoined
  <2> QED BY <1>1, <2>2, <2>3 DEF AgeInv, Behind
<1>9. DeviceInv'
  BY <1>0, <1>1 DEF DeviceInv
<1> QED BY <1>3, <1>4, <1>5, <1>6, <1>7, <1>8, <1>9 DEF ImportInv

(* The entry of the copy that the caller cannot make is empty already.     *)
LEMMA CopyFailsKeeps == ASSUME ImportInv, CopyFails PROVE ImportInv'
<1>0. /\ ImportTypeInv /\ ObjectInv /\ DeviceInv /\ cur \in Slots
      /\ imports \in [Slots -> [Ports -> Nat \cup {None}]]
      /\ import_count \in [Slots -> 0 .. MaxImports]
  BY DEF ImportInv, ImportTypeInv
<1>1. /\ at = "copy" /\ at' = "drain" /\ import_count[cur] < MaxImports
      /\ imports' = [imports EXCEPT ![cur][import_count[cur] + 1] = None]
      /\ UNCHANGED <<started, stop, queue, jobs, next_job, work_semaphore, worker, cur, deferred,
                     import_count, copies, pending, reading, computing, device_lost, live, asked>>
  BY DEF CopyFails, Goto, pool, device
<1>2. imports' = imports
  <2> DEFINE k == import_count[cur] + 1
  <2>1. k \in Ports /\ k > import_count[cur]
    BY <1>0, <1>1, Sizes DEF Ports
  <2>2. imports' = [imports EXCEPT ![cur][k] = None]
    BY <1>1
  <2> HIDE DEF k
  <2>3. imports[cur][k] = None
    BY <1>0, <2>1 DEF ObjectInv
  <2> QED BY <1>0, <2>1, <2>2, <2>3
<1>3. RingInv' /\ CopyInv' /\ ObjectInv'
  BY <1>1, <1>2, CallerMoves
<1>4. ImportTypeInv'
  BY <1>0, <1>1, <1>2 DEF ImportTypeInv
<1>5. PlaceInv' /\ AgeInv'
  BY <1>1 DEF PlaceInv, AgeInv, Between
<1>6. DeviceInv'
  BY <1>0, <1>1, <1>2 DEF DeviceInv
<1> QED BY <1>3, <1>4, <1>5, <1>6 DEF ImportInv

LEMMA RecordedKeeps == ASSUME ImportInv, Recorded PROVE ImportInv'
<1>0. /\ ImportTypeInv /\ CopyInv /\ PlaceInv /\ AgeInv /\ DeviceInv
      /\ cur \in Slots /\ deferred \in Slots \cup {None}
      /\ import_count[cur] \in 0 .. MaxImports
  BY DEF ImportInv, ImportTypeInv
<1>1. /\ at = "copy" /\ at' = IF deferred = None THEN "chunk" ELSE "submit"
      /\ deferred' = IF deferred = None THEN cur ELSE deferred
      /\ cur' = IF deferred = None THEN (cur + 1) % SlotCount ELSE cur
      /\ UNCHANGED <<started, stop, queue, jobs, next_job, work_semaphore, worker,
                     imports, import_count, copies, pending, reading, computing, device_lost,
                     live, asked>>
  BY DEF Recorded, Goto, pool, slots, device
<1>2. RingInv' /\ CopyInv' /\ ObjectInv'
  BY <1>1, CallerMoves
<1>3. ImportTypeInv'
  <2>1. cur' \in Slots
    BY <1>0, <1>1, NextSlot
  <2> QED BY <1>0, <1>1, <2>1 DEF ImportTypeInv
<1>4. \A i \in Unjoined(cur) : Behind(copies[cur][i]) < MaxImports
  <2> SUFFICES ASSUME NEW i \in Unjoined(cur) PROVE Behind(copies[cur][i]) < MaxImports
    OBVIOUS
  <2>1. Behind(copies[cur][i]) \in Nat /\ Behind(copies[cur][i]) < import_count[cur]
    BY <1>0, <1>1, BehindIs DEF AgeInv
  <2> QED BY <1>0, <2>1, Sizes
<1>5. \A s \in Slots : s \notin {cur, deferred} => Unjoined(s) = {}
  BY <1>0, <1>1 DEF PlaceInv
<1>6. PlaceInv'
  <2>1. CASE deferred = None
    <3>1. \A s \in Slots : s # cur => Unjoined(s) = {}
      BY <1>0, <1>5, <2>1, ImportAssumption DEF Slots
    <3> QED BY <1>1, <2>1, <3>1 DEF PlaceInv, Unjoined, Between
  <2>2. CASE deferred # None
    BY <1>1, <1>5, <2>2 DEF PlaceInv, Unjoined, Between
  <2> QED BY <2>1, <2>2
<1>7. AgeInv'
  BY <1>1, <1>4 DEF AgeInv, Unjoined, Behind
<1>8. DeviceInv'
  BY <1>0, <1>1 DEF DeviceInv
<1> QED BY <1>2, <1>3, <1>6, <1>7, <1>8 DEF ImportInv

LEMMA SubmitJoinKeeps == ASSUME ImportInv, SubmitJoin PROVE ImportInv'
<1>1. deferred \in Slots /\ at = "submit" /\ JoinImport(deferred)
  BY DEF SubmitJoin, ImportInv, ImportTypeInv, PlaceInv
<1>2. UNCHANGED <<started, stop, queue, next_job, work_semaphore, worker, place, imports,
                  import_count, pending, device, live, asked>>
  BY DEF SubmitJoin
<1> QED BY <1>1, <1>2, Joins

LEMMA CloseJoinKeeps == ASSUME ImportInv, NEW s \in Slots, CloseJoin(s) PROVE ImportInv'
<1>1. at = "close" /\ JoinImport(s)
  BY DEF CloseJoin
<1>2. UNCHANGED <<started, stop, queue, next_job, work_semaphore, worker, place, imports,
                  import_count, pending, device, live, asked>>
  BY DEF CloseJoin
<1> QED BY <1>1, <1>2, Joins

(* What is copied from a slot is what the slot keeps.                      *)
LEMMA SourcesKept ==
  ASSUME ImportInv, NEW s \in Slots
  PROVE  Sources(s) \subseteq {imports[s][k] : k \in Ports} \ {None}
<1>1. /\ Len(copies[s]) <= import_count[s] /\ import_count[s] \in 0 .. MaxImports
      /\ Len(copies[s]) \in Nat
  BY DEF ImportInv, ImportTypeInv, CopyInv
<1>2. 1 .. Len(copies[s]) \subseteq Ports
  BY <1>1, Sizes DEF Ports
<1> QED BY <1>2 DEF Sources

(* The copies of the deferred slot are given up, or on their way.          *)
LEMMA DeferredEmptied ==
  ASSUME ImportInv, NEW s \in Slots, Unjoined(s) = {}, copies' = [copies EXCEPT ![s] = <<>>],
         UNCHANGED <<started, stop, queue, jobs, next_job, work_semaphore, worker, imports,
                     import_count, live, asked>>,
         at # "done"
  PROVE  /\ copies' \in [Slots -> Seq(Jobs \cup {None})]
         /\ RingInv' /\ CopyInv' /\ ObjectInv'
         /\ \A t \in Slots : Unjoined(t)' = Unjoined(t)
         /\ \A t \in Slots : \A i \in Unjoined(t) : copies'[t][i] = copies[t][i]
<1>1. /\ copies \in [Slots -> Seq(Jobs \cup {None})] /\ ObjectInv
      /\ import_count \in [Slots -> 0 .. MaxImports]
  BY DEF ImportInv, ImportTypeInv
<1>2. /\ copies' \in [Slots -> Seq(Jobs \cup {None})] /\ copies'[s] = <<>>
      /\ \A t \in Slots : t # s => copies'[t] = copies[t]
  BY <1>1, EmptySeq
<1>3. /\ CopyInv'
      /\ \A t \in Slots : Unjoined(t)' = Unjoined(t)
      /\ \A t \in Slots : \A i \in Unjoined(t) : copies'[t][i] = copies[t][i]
  <2>1. {s} \in SUBSET Slots /\ \A t \in {s} : Unjoined(t) = {} /\ copies'[t] = <<>>
    BY <1>2
  <2>2. /\ \A t \in Slots \ {s} : copies'[t] = copies[t] /\ import_count'[t] = import_count[t]
        /\ import_count' \in [Slots -> 0 .. MaxImports]
    BY <1>1, <1>2
  <2> QED BY <2>1, <2>2, CopiesEmptied
<1>4. RingInv' /\ Making' = Making /\ Releasing' = Releasing
  BY WorkStays
<1>5. ObjectInv'
  BY <1>1, <1>4, ObjectsStay DEF ObjectInv
<1> QED BY <1>2, <1>3, <1>4, <1>5

LEMMA SubmittedKeeps == ASSUME ImportInv, Submitted PROVE ImportInv'
<1>0. /\ ImportTypeInv /\ PlaceInv /\ AgeInv /\ DeviceInv
      /\ cur \in Slots /\ imports \in [Slots -> [Ports -> Nat \cup {None}]]
      /\ reading \in [Slots -> SUBSET Nat]
  BY DEF ImportInv, ImportTypeInv
<1>1. /\ at = "submit" /\ ~device_lost /\ Unjoined(deferred) = {}
      /\ copies' = [copies EXCEPT ![deferred] = <<>>]
      /\ reading' = [reading EXCEPT ![deferred] = Sources(deferred)]
      /\ computing' = computing \cup {deferred}
      /\ pending' = pending \cup {deferred}
      /\ \/ at' = "drain" /\ UNCHANGED <<cur, deferred>>
         \/ at' = "chunk" /\ deferred' = cur /\ cur' = (cur + 1) % SlotCount
      /\ UNCHANGED <<started, stop, queue, jobs, next_job, work_semaphore, worker, imports,
                     import_count, device_lost, live, asked>>
  BY DEF Submitted, pool
<1>2. deferred \in Slots
  BY <1>0, <1>1 DEF ImportTypeInv, PlaceInv
<1>3. /\ copies' \in [Slots -> Seq(Jobs \cup {None})]
      /\ RingInv' /\ CopyInv' /\ ObjectInv'
      /\ \A s \in Slots : Unjoined(s)' = Unjoined(s)
      /\ \A s \in Slots : \A i \in Unjoined(s) : copies'[s][i] = copies[s][i]
  <2>1. UNCHANGED <<started, stop, queue, jobs, next_job, work_semaphore, worker, imports,
                    import_count, live, asked>>
    BY <1>1
  <2> QED BY <1>1, <1>2, <2>1, DeferredEmptied
<1>4. Sources(deferred) \subseteq {imports[deferred][k] : k \in Ports} \ {None}
  BY <1>2, SourcesKept
<1>5. /\ reading' \in [Slots -> SUBSET Nat] /\ reading'[deferred] = Sources(deferred)
      /\ \A s \in Slots : s # deferred => reading'[s] = reading[s]
  <2>1. Sources(deferred) \in SUBSET Nat
    BY <1>0, <1>2, <1>4
  <2> QED BY <1>0, <1>1, <1>2, <2>1
<1>6. ImportTypeInv'
  <2>1. cur' \in Slots /\ deferred' \in Slots \cup {None}
    BY <1>0, <1>1, <1>2, NextSlot
  <2> QED BY <1>0, <1>1, <1>2, <1>3, <1>5, <2>1 DEF ImportTypeInv
<1>7. PlaceInv'
  <2>1. \A s \in Slots : s # cur => Unjoined(s)' = {}
    BY <1>0, <1>1, <1>3 DEF PlaceInv
  <2> QED BY <1>1, <2>1 DEF PlaceInv, Between
<1>8. AgeInv'
  <2>1. \A i \in Unjoined(cur) : Ago(next_job, copies'[cur][i]) < MaxImports
    BY <1>0, <1>1, <1>3 DEF AgeInv, Behind
  <2>2. at' = "chunk" => \A i \in Unjoined(deferred)' : Ago(next_job, copies'[cur][i]) < MaxImports
    <3> SUFFICES ASSUME at' = "chunk", NEW i \in Unjoined(deferred)'
                 PROVE  Ago(next_job, copies'[cur][i]) < MaxImports
      OBVIOUS
    <3>1. deferred' = cur
      BY <1>1
    <3>2. \A s \in Slots : s = deferred' => Unjoined(deferred)' = Unjoined(s)'
      BY DEF Unjoined
    <3>3. i \in Unjoined(cur)
      BY <1>0, <1>3, <3>1, <3>2
    <3> QED BY <2>1, <3>3
  <2> QED BY <1>1, <2>2 DEF AgeInv, Behind
<1>9. DeviceInv'
  BY <1>0, <1>1, <1>2, <1>4, <1>5 DEF DeviceInv
<1> QED BY <1>3, <1>6, <1>7, <1>8, <1>9 DEF ImportInv

LEMMA SubmitFailsKeeps == ASSUME KernelsStart, ImportInv, SubmitFails PROVE ImportInv'
<1>0. /\ ImportTypeInv /\ PlaceInv /\ DeviceInv /\ reading \in [Slots -> SUBSET Nat]
      /\ copies \in [Slots -> Seq(Jobs \cup {None})]
  BY DEF ImportInv, ImportTypeInv
<1>1. /\ at = "submit" /\ at' = "drain"
      /\ device_lost \/ Unjoined(deferred) = {}
      /\ copies' = IF device_lost THEN copies ELSE [copies EXCEPT ![deferred] = <<>>]
      /\ \/ UNCHANGED <<reading, device_lost>>
         \/ device_lost' = TRUE /\ reading' = [s \in Slots |-> {}]
      /\ UNCHANGED <<started, stop, queue, jobs, next_job, work_semaphore, worker, cur, deferred,
                     imports, import_count, pending, computing, live, asked>>
  BY DEF SubmitFails, KernelsStart, Goto, pool, device
<1>2. deferred \in Slots
  BY <1>0, <1>1 DEF ImportTypeInv, PlaceInv
<1>3. copies' \in [Slots -> Seq(Jobs \cup {None})] /\ RingInv' /\ CopyInv' /\ ObjectInv'
  <2>1. UNCHANGED <<started, stop, queue, jobs, next_job, work_semaphore, worker, imports,
                    import_count, live, asked>>
    BY <1>1
  <2>2. CASE device_lost
    BY <1>0, <1>1, <2>2, CallerMoves
  <2>3. CASE ~device_lost
    BY <1>1, <1>2, <2>1, <2>3, DeferredEmptied
  <2> QED BY <2>2, <2>3
<1>4. ImportTypeInv'
  <2>1. device_lost' \in BOOLEAN /\ reading' \in [Slots -> SUBSET Nat]
    <3>1. device_lost' \in BOOLEAN
      BY Zenon, <1>0, <1>1 DEF ImportTypeInv
    <3>2. reading' \in [Slots -> SUBSET Nat]
      BY <1>0, <1>1
    <3> QED BY <3>1, <3>2
  <2> QED BY <1>0, <1>1, <1>3, <2>1 DEF ImportTypeInv
<1>5. PlaceInv' /\ AgeInv'
  BY <1>1 DEF PlaceInv, AgeInv, Between
<1>6. DeviceInv'
  BY <1>0, <1>1 DEF DeviceInv
<1> QED BY <1>3, <1>4, <1>5, <1>6 DEF ImportInv

LEMMA DrainKeeps == ASSUME ImportInv, NEW s \in Slots, Drain(s) PROVE ImportInv'
<1>0. ImportTypeInv /\ DeviceInv
  BY DEF ImportInv
<1>1. /\ at = "drain" /\ at' \in {"drain", "aborted"}
      /\ \/ s \notin computing /\ pending' = pending \ {s}
         \/ pending' = pending
      /\ UNCHANGED <<started, stop, queue, jobs, next_job, work_semaphore, worker, cur, deferred,
                     imports, import_count, copies, reading, computing, device_lost, live, asked>>
  BY DEF Drain, pool, device
<1>2. RingInv' /\ CopyInv' /\ ObjectInv'
  BY <1>1, CallerMoves
<1>3. ImportTypeInv'
  BY <1>0, <1>1 DEF ImportTypeInv
<1>4. PlaceInv' /\ AgeInv'
  BY <1>1 DEF PlaceInv, AgeInv, Between
<1>5. DeviceInv'
  BY <1>0, <1>1 DEF DeviceInv
<1> QED BY <1>2, <1>3, <1>4, <1>5 DEF ImportInv

LEMMA DrainedKeeps == ASSUME ImportInv, Drained PROVE ImportInv'
<1>0. ImportTypeInv /\ DeviceInv
  BY DEF ImportInv
<1>1. /\ at = "drain" /\ at' = "close" /\ pending = {}
      /\ UNCHANGED <<started, stop, queue, jobs, next_job, work_semaphore, worker, cur, deferred,
                     imports, import_count, copies, pending, reading, computing, device_lost,
                     live, asked>>
  BY DEF Drained, Goto, pool, slots, device
<1>2. RingInv' /\ CopyInv' /\ ObjectInv'
  BY <1>1, CallerMoves
<1>3. ImportTypeInv'
  BY <1>0, <1>1 DEF ImportTypeInv
<1>4. PlaceInv' /\ AgeInv'
  BY <1>1 DEF PlaceInv, AgeInv, Between
<1>5. DeviceInv'
  BY <1>0, <1>1 DEF DeviceInv
<1> QED BY <1>2, <1>3, <1>4, <1>5 DEF ImportInv

LEMMA ClosedKeeps == ASSUME ImportInv, Closed PROVE ImportInv'
<1>0. /\ ImportTypeInv /\ ObjectInv /\ DeviceInv
      /\ import_count \in [Slots -> 0 .. MaxImports]
  BY DEF ImportInv, ImportTypeInv
<1>1. /\ at = "close" /\ at' = "idle"
      /\ \A s \in Slots : Unjoined(s) = {} /\ Unreleased(s) = {}
      /\ import_count' = [s \in Slots |-> 0] /\ copies' = [s \in Slots |-> <<>>]
      /\ UNCHANGED <<started, stop, queue, jobs, next_job, work_semaphore, worker, cur, deferred,
                     imports, pending, reading, computing, device_lost, live, asked>>
  BY DEF Closed, AllJoined, Goto, pool, device
<1>2. import_count' \in [Slots -> 0 .. MaxImports] /\ copies' \in [Slots -> Seq(Jobs \cup {None})]
  <2>1. 0 \in 0 .. MaxImports /\ <<>> \in Seq(Jobs \cup {None})
    BY Sizes, EmptySeq
  <2> QED BY <1>1, <2>1
<1>3. CopyInv' /\ \A s \in Slots : Unjoined(s)' = Unjoined(s)
  <2>1. Slots \in SUBSET Slots /\ \A s \in Slots : Unjoined(s) = {} /\ copies'[s] = <<>>
    BY <1>1
  <2>2. UNCHANGED <<queue, jobs, worker>>
    BY <1>1
  <2>3. \A s \in Slots \ Slots : copies'[s] = copies[s] /\ import_count'[s] = import_count[s]
    OBVIOUS
  <2> QED BY <1>2, <2>1, <2>2, <2>3, CopiesEmptied
<1>4. RingInv' /\ Making' = Making /\ Releasing' = Releasing
  BY <1>1, WorkStays
<1>5. \A s \in Slots, k \in Ports : imports[s][k] = None
  <2> SUFFICES ASSUME NEW s \in Slots, NEW k \in Ports, imports[s][k] # None PROVE FALSE
    OBVIOUS
  <2>1. ~(k > import_count[s])
    BY <1>0 DEF ObjectInv
  <2>2. k \in 1 .. import_count[s]
    BY <1>0, <2>1 DEF Ports
  <2> QED BY <1>1, <2>2 DEF Unreleased
<1>6. ObjectInv'
  BY <1>1, <1>4, <1>5, ObjectsStay
<1>7. ImportTypeInv'
  BY <1>0, <1>1, <1>2 DEF ImportTypeInv, Between
<1>8. PlaceInv'
  BY <1>1, <1>3, <1>5 DEF PlaceInv, Between
<1>9. AgeInv'
  BY <1>1 DEF AgeInv
<1>10. DeviceInv'
  BY <1>0, <1>1 DEF DeviceInv
<1> QED BY <1>3, <1>4, <1>6, <1>7, <1>8, <1>9, <1>10 DEF ImportInv

LEMMA DeviceStepKeeps == ASSUME ImportInv, NEW s \in Slots, DeviceStep(s) PROVE ImportInv'
<1>0. ImportTypeInv /\ PlaceInv /\ AgeInv /\ DeviceInv /\ reading \in [Slots -> SUBSET Nat]
  BY DEF ImportInv, ImportTypeInv
<1>1. /\ ~device_lost
      /\ \/ reading' = [reading EXCEPT ![s] = {}] /\ UNCHANGED computing
         \/ reading[s] = {} /\ computing' = computing \ {s} /\ UNCHANGED reading
      /\ UNCHANGED <<started, stop, queue, jobs, next_job, work_semaphore, worker, at, cur,
                     deferred, imports, import_count, copies, pending, device_lost, live, asked>>
  BY DEF DeviceStep, pool, place, slots
<1>2. RingInv' /\ CopyInv' /\ ObjectInv'
  BY <1>1, CallerMoves
<1>3. ImportTypeInv'
  BY <1>0, <1>1 DEF ImportTypeInv
<1>4. PlaceInv'
  BY <1>0, <1>1 DEF PlaceInv, Unjoined
<1>5. AgeInv'
  BY <1>0, <1>1 DEF AgeInv, Unjoined, Unreleased, Behind, Ago
<1>6. DeviceInv'
  BY <1>0, <1>1 DEF DeviceInv
<1> QED BY <1>2, <1>3, <1>4, <1>5, <1>6 DEF ImportInv

-------------------------------------------------------------------------------
(* The theorems                                                            *)

LEMMA ImportInitInv == ImportInit => ImportInv
<1> SUFFICES ASSUME ImportInit PROVE ImportInv
  OBVIOUS
<1>1. 0 \in Slots /\ 1 \in Ports /\ 0 \in Jobs /\ 0 \in 0 .. MaxImports /\ NoJob \in Job
  <2>1. 0 \in Slots /\ 1 \in Ports /\ 0 \in Jobs /\ 0 \in 0 .. MaxImports
    BY ImportAssumption, Sizes DEF Slots, Ports, Jobs
  <2> QED BY <2>1 DEF NoJob, Job
<1>2. /\ queue = <<>> /\ Len(queue) = 0 /\ queue \in Seq(Jobs)
      /\ \A s \in Slots : copies[s] = <<>> /\ Len(copies[s]) = 0 /\ Unjoined(s) = {}
      /\ copies \in [Slots -> Seq(Jobs \cup {None})]
  BY EmptySeq DEF ImportInit, Unjoined
<1>3. \A w \in Workers : worker[w].at = "none" /\ worker[w].job = None /\ ~Holds(w)
  BY DEF ImportInit, Holds
<1>4. /\ Waking = {} /\ Queued = {} /\ \A j : ~Runs(j) /\ ~Held(j) /\ ~Active(j)
  BY <1>2, <1>3 DEF Waking, Queued, Runs, Held, Active
<1>5. Making = {} /\ Releasing = {} /\ Kept = {}
  BY <1>2, <1>3, <1>4 DEF Making, Releasing, Kept, ImportInit
<1>6. ImportTypeInv
  <2>1. jobs \in [Jobs -> Job] /\ next_job \in Jobs /\ cur \in Slots
    BY <1>1 DEF ImportInit
  <2>2. /\ imports \in [Slots -> [Ports -> Nat \cup {None}]]
        /\ import_count \in [Slots -> 0 .. MaxImports]
        /\ reading \in [Slots -> SUBSET Nat]
    BY <1>1 DEF ImportInit
  <2> QED BY <1>1, <1>2, <2>1, <2>2 DEF ImportInit, ImportTypeInv, Between
<1>7. RingInv
  <2>1. Cardinality(Waking) = 0
    BY <1>4, FS_EmptySet
  <2> QED BY <1>2, <1>3, <2>1 DEF RingInv, ImportInit
<1>8. CopyInv
  <2>1. \A j \in Jobs : jobs[j].done = 0
    BY DEF ImportInit, NoJob
  <2> QED BY <1>1, <1>2, <1>3, <1>5, <2>1 DEF CopyInv, ImportInit
<1>9. PlaceInv
  BY <1>2 DEF PlaceInv, ImportInit, Between
<1>10. AgeInv
  BY <1>2 DEF AgeInv, ImportInit
<1>11. ObjectInv
  BY <1>5 DEF ObjectInv, ImportInit
<1>12. DeviceInv
  BY DEF DeviceInv, ImportInit
<1> QED BY <1>6, <1>7, <1>8, <1>9, <1>10, <1>11, <1>12 DEF ImportInv

LEMMA WorkerKeeps == ASSUME ImportInv, NEW w \in Workers, WorkerStep(w) PROVE ImportInv'
<1>1. CASE TakeWork(w)
  BY <1>1, TakeWorkKeeps
<1>2. CASE Dequeue(w)
  BY <1>2, DequeueKeeps
<1>3. CASE RunRelease(w)
  BY <1>3, RunReleaseKeeps
<1>4. CASE RunImport(w)
  BY <1>4, RunImportKeeps
<1>5. CASE DropReleased(w)
  BY <1>5, DropReleasedKeeps
<1>6. CASE DropDone(w)
  BY <1>6, DropDoneKeeps
<1> QED BY <1>1, <1>2, <1>3, <1>4, <1>5, <1>6 DEF WorkerStep

LEMMA CallerKeeps == ASSUME KernelsStart, ImportInv, CallerStep PROVE ImportInv'
<1>1. CASE FinishRelease
  BY <1>1, FinishReleaseKeeps
<1>2. CASE Finished
  BY <1>2, FinishedKeeps
<1>3. CASE JoinWorkers
  BY <1>3, JoinWorkersKeeps
<1>4. CASE BeginChunk
  BY <1>4, BeginChunkKeeps
<1>5. CASE EndChunks
  BY <1>5, EndChunksKeeps
<1>6. CASE BeginRelease
  BY <1>6, BeginReleaseKeeps
<1>7. CASE Begun
  BY <1>7, BegunKeeps
<1>8. CASE Recorded
  BY <1>8, RecordedKeeps
<1>9. CASE SubmitJoin
  BY <1>9, SubmitJoinKeeps
<1>10. CASE Submitted
  BY <1>10, SubmittedKeeps
<1>11. CASE SubmitFails
  BY <1>11, SubmitFailsKeeps
<1>12. CASE \E s \in Slots : Drain(s) \/ CloseJoin(s) \/ CloseRelease(s)
  BY <1>12, DrainKeeps, CloseJoinKeeps, CloseReleaseKeeps
<1>13. CASE Drained
  BY <1>13, DrainedKeeps
<1>14. CASE Closed
  BY <1>14, ClosedKeeps
<1> QED BY <1>1, <1>2, <1>3, <1>4, <1>5, <1>6, <1>7, <1>8, <1>9, <1>10, <1>11, <1>12, <1>13, <1>14
        DEF CallerStep

LEMMA UnchangedKeeps == ASSUME ImportInv, UNCHANGED import_vars PROVE ImportInv'
<1>1. UNCHANGED <<started, stop, queue, jobs, next_job, work_semaphore, worker, at, cur, deferred,
                  imports, import_count, copies, pending, reading, computing, device_lost, live,
                  asked>>
  BY DEF import_vars, pool, place, slots, device
<1>2. UNCHANGED <<next_job, place, slots, device>>
  BY DEF import_vars, pool
<1>3. RingInv' /\ CopyInv' /\ ObjectInv'
  BY <1>1, CallerMoves
<1>4. PlaceInv' /\ AgeInv' /\ DeviceInv'
  BY <1>2, CallerStays
<1>5. ImportTypeInv'
  BY <1>1 DEF ImportInv, ImportTypeInv
<1> QED BY <1>3, <1>4, <1>5 DEF ImportInv

LEMMA ImportNextInv == ASSUME KernelsStart, ImportInv, [ImportNext]_import_vars PROVE ImportInv'
<1>1. CASE OpenStream
  BY <1>1, OpenStreamKeeps
<1>2. CASE BeginEpoch \/ StopPool
  BY <1>2, LeavesIdleKeeps
<1>3. CASE StreamCopy
  BY <1>3, StreamCopyKeeps
<1>4. CASE CopyFails
  BY <1>4, CopyFailsKeeps
<1>5. CASE CallerStep
  BY <1>5, CallerKeeps
<1>6. CASE \E w \in Workers : WorkerStep(w)
  BY <1>6, WorkerKeeps
<1>7. CASE \E s \in Slots : DeviceStep(s)
  BY <1>7, DeviceStepKeeps
<1>8. CASE UNCHANGED import_vars
  BY <1>8, UnchangedKeeps
<1> QED BY <1>1, <1>2, <1>3, <1>4, <1>5, <1>6, <1>7, <1>8 DEF ImportNext

(* While kernels can be submitted: an entry of the ring is taken only when  *)
(* its job is done and joined, a copy that is asked for has its job and the *)
(* job its copy, and every import is kept by one slot or waits to be        *)
(* released once (gpu_vulkan_import_job_reserve reuses entries without      *)
(* looking).                                                               *)
THEOREM ImportInvariance == ASSUME KernelsStart PROVE ImportSpec => []ImportInv
<1>1. ImportInit => ImportInv
  BY ImportInitInv
<1>2. ImportInv /\ [ImportNext]_import_vars => ImportInv'
  BY ImportNextInv
<1> QED BY <1>1, <1>2, PTL DEF ImportSpec

(* The device never reads an import that is released or waits to be, and no *)
(* import is released twice, with any number of import threads, slots and   *)
(* imports of a slot, and whatever fails but the submit of a kernel.        *)
THEOREM ImportsOutliveReads == ASSUME KernelsStart PROVE ImportSpec => []NoUseAfterRelease
<1>1. ImportInv => NoUseAfterRelease
  BY DEF ImportInv, ObjectInv, DeviceInv, Kept, NoUseAfterRelease
<1> QED BY <1>1, ImportInvariance, PTL

(* Between streams no import is left but those that wait to be released.    *)
THEOREM NothingIsLeaked == ASSUME KernelsStart PROVE ImportSpec => []NothingLeaked
<1>1. ImportInv => NothingLeaked
  <2> SUFFICES ASSUME ImportInv, at \in {"idle", "done"}
               PROVE  live = {jobs[j].object : j \in Releasing}
    BY DEF NothingLeaked
  <2>1. \A s \in Slots, k \in Ports : imports[s][k] = None
    BY DEF ImportInv, PlaceInv, Between
  <2>2. Kept = {}
    BY <2>1 DEF Kept
  <2> QED BY <2>2 DEF ImportInv, ObjectInv
<1> QED BY <1>1, ImportInvariance, PTL
===============================================================================
