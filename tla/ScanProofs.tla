------------------------------ MODULE ScanProofs ------------------------------
(***************************************************************************)
(* Proofs about what a scan reads.  The zone maps, for any columns, any set *)
(* of integer values, any chunk size and any number of rows, over the       *)
(* histories of the run (Allowed).  The argument: a map that is not behind  *)
(* a removal spans, chunk by chunk, every value of its column, and has a    *)
(* chunk for every row until a NULL is appended; so a restart trusts it,    *)
(* and what it then leaves out of a scan holds no row that matches.         *)
(* Then the chunks a scan reads on the GPU, for any columns, buffers,       *)
(* slots, budget, faults and order of the device's work.  The argument: the *)
(* pool, the cache and every slot have buffers of their own; what a slot    *)
(* holds is pinned as often as slots hold it; and a slot the device works   *)
(* for is bound only to what it holds and to its own.                      *)
(***************************************************************************)
EXTENDS
  ZoneMap, GpuScan, SequenceTheorems, FiniteSetTheorems, WellFoundedInduction, TLAPS

Cell == Values \cup {NULL}

TypeInv ==
  /\ rows \in Seq([Columns -> Cell])
  /\ null_flags \subseteq Columns
  /\ zone_map \in [Columns -> Seq(Chunk)]
  /\ has_zone_map \in [Columns -> BOOLEAN]
  /\ current \in [Columns -> BOOLEAN]
  /\ deleted \in BOOLEAN

Spans(chunk, v) == chunk.has_values /\ chunk.min <= v /\ v <= chunk.max

(* Every value of the column c of a table is within its chunk of the map.   *)
Covers(table, map, c) ==
  \A r \in 1 .. Len(table) :
    table[r][c] # NULL => ChunkOf(r) <= Len(map) /\ Spans(map[ChunkOf(r)], table[r][c])

(* The histories of the run: after a removal the table is neither appended  *)
(* to nor loaded again, and one with NULLs is not loaded again.            *)
DeletedStays == "append after delete" \notin Allowed /\ "restart after delete" \notin Allowed
NullsStay    == "restart with NULLs" \notin Allowed

(* The columns whose maps those histories keep right.                      *)
KeptRight(c) == NullsStay \/ c \notin null_flags

(* A map that no removal has passed by covers its column.                  *)
CoverInv == \A c \in Columns : KeptRight(c) /\ (~deleted \/ current[c]) => Covers(rows, zone_map[c], c)

(* A NULL leaves a flag.                                                   *)
FlagInv == \A r \in 1 .. row_count, c \in Columns : rows[r][c] = NULL => c \in null_flags

(* Without NULLs and removals a restart finds a map it trusts.             *)
TrustInv ==
  ~deleted => \A c \in Columns \ null_flags :
    /\ Len(zone_map[c]) = ChunkCount(row_count)
    /\ row_count > 0 => has_zone_map[c]

IInv == TypeInv /\ CoverInv /\ FlagInv /\ TrustInv

-------------------------------------------------------------------------------
(* Chunks                                                                  *)

LEMMA Sizes == ChunkRows \in Nat \ {0} /\ Values \subseteq Int /\ NULL \notin Values
BY ZoneMapAssumption

LEMMA DivBounds ==
  ASSUME NEW a \in Nat, NEW b \in Nat \ {0}
  PROVE  a \div b \in Nat /\ b * (a \div b) <= a /\ a < b * (a \div b) + b
OBVIOUS

LEMMA DivUnique ==
  ASSUME NEW b \in Nat \ {0}, NEW p \in Nat, NEW q \in Nat, b * p < b * q + b
  PROVE  p <= q
<1> SUFFICES ASSUME p >= q + 1 PROVE FALSE
  OBVIOUS
<1>1. b * p >= b * (q + 1)
  BY Z3
<1>2. b * (q + 1) = b * q + b
  OBVIOUS
<1> QED BY <1>1, <1>2

LEMMA ChunkCounts ==
  ASSUME NEW n \in Nat
  PROVE  /\ ChunkCount(n) \in Nat
         /\ ChunkCount(0) = 0
         /\ ChunkCount(n + 1) = ChunkOf(n + 1)
         /\ ChunkCount(n) <= ChunkCount(n + 1)
<1> DEFINE q == (n + ChunkRows - 1) \div ChunkRows
           p == (n + 1 + ChunkRows - 1) \div ChunkRows
           f == n \div ChunkRows
           z == (0 + ChunkRows - 1) \div ChunkRows
<1>1. ChunkRows \in Nat \ {0}
  BY Sizes
<1>2. n + ChunkRows - 1 \in Nat /\ n + 1 + ChunkRows - 1 \in Nat /\ 0 + ChunkRows - 1 \in Nat
  BY <1>1
<1>3. q \in Nat /\ ChunkRows * q <= n + ChunkRows - 1 /\ n + ChunkRows - 1 < ChunkRows * q + ChunkRows
  BY <1>1, <1>2, DivBounds
<1>4. /\ p \in Nat /\ ChunkRows * p <= n + 1 + ChunkRows - 1
      /\ n + 1 + ChunkRows - 1 < ChunkRows * p + ChunkRows
  BY <1>1, <1>2, DivBounds
<1>5. f \in Nat /\ ChunkRows * f <= n /\ n < ChunkRows * f + ChunkRows
  BY <1>1, DivBounds
<1>6. z \in Nat /\ ChunkRows * z <= 0 + ChunkRows - 1
  BY <1>1, <1>2, DivBounds
<1> HIDE DEF q, p, f, z
<1>7. q <= p
  <2>1. ChunkRows * q < ChunkRows * p + ChunkRows
    BY <1>1, <1>3, <1>4
  <2> QED BY <1>1, <1>3, <1>4, <2>1, DivUnique
<1>8. p = f + 1
  <2>1. ChunkRows * (f + 1) = ChunkRows * f + ChunkRows /\ f + 1 \in Nat
    BY <1>1, <1>5
  <2>2. ChunkRows * p < ChunkRows * (f + 1) + ChunkRows
    BY <1>1, <1>4, <1>5, <2>1
  <2>3. ChunkRows * (f + 1) < ChunkRows * p + ChunkRows
    BY <1>1, <1>4, <1>5, <2>1
  <2>4. p <= f + 1 /\ f + 1 <= p
    BY <1>1, <1>4, <2>1, <2>2, <2>3, DivUnique
  <2> QED BY <1>4, <2>1, <2>4
<1>9. z = 0
  <2>1. ChunkRows * 0 = 0
    BY <1>1
  <2>2. ChunkRows * z < ChunkRows * 0 + ChunkRows
    BY <1>1, <1>6, <2>1
  <2>3. z <= 0
    BY <1>1, <1>6, <2>2, DivUnique
  <2> QED BY <1>6, <2>3
<1>10. ChunkCount(n) = q /\ ChunkCount(n + 1) = p /\ ChunkCount(0) = z
  BY DEF ChunkCount, q, p, z
<1>11. ChunkOf(n + 1) = f + 1
  <2>1. n + 1 - 1 = n
    OBVIOUS
  <2> QED BY <2>1 DEF ChunkOf, f
<1> QED BY <1>3, <1>7, <1>8, <1>9, <1>10, <1>11

(* The rows of a table have chunks among those that are counted.           *)
LEMMA ChunkPlaces ==
  ASSUME NEW n \in Nat, NEW r \in 1 .. n
  PROVE  ChunkOf(r) \in 1 .. ChunkCount(n)
<1> DEFINE k == (r - 1) \div ChunkRows
           q == (n + ChunkRows - 1) \div ChunkRows
<1>1. ChunkRows \in Nat \ {0} /\ r - 1 \in Nat /\ r <= n /\ n + ChunkRows - 1 \in Nat
  BY Sizes
<1>2. k \in Nat /\ ChunkRows * k <= r - 1
  BY <1>1, DivBounds
<1>3. q \in Nat /\ n + ChunkRows - 1 < ChunkRows * q + ChunkRows
  BY <1>1, DivBounds
<1>4. ChunkOf(r) = k + 1 /\ ChunkCount(n) = q
  BY DEF ChunkOf, ChunkCount
<1> HIDE DEF k, q
<1>5. ChunkRows * (k + 1) = ChunkRows * k + ChunkRows /\ k + 1 \in Nat
  BY <1>1, <1>2
<1>6. ChunkRows * (k + 1) < ChunkRows * q + ChunkRows
  BY <1>1, <1>2, <1>3, <1>5
<1>7. k + 1 <= q
  BY <1>1, <1>3, <1>5, <1>6, DivUnique
<1> QED BY <1>2, <1>3, <1>4, <1>7

-------------------------------------------------------------------------------
(* The least and the largest of a finite set of values                     *)

LEMMA Extreme ==
  ASSUME NEW S, IsFiniteSet(S), S # {}, NEW R,
         \A x \in S : <<x, x>> \notin R,
         \A x, y, z \in S : <<x, y>> \in R /\ <<y, z>> \in R => <<x, z>> \in R
  PROVE  \E x \in S : \A y \in S : <<y, x>> \notin R
<1> DEFINE Bad == {X \in SUBSET S : X # {} /\ \A x \in X : \E y \in X : <<y, x>> \in R}
           Order == StrictSubsetOrdering(S)
<1> SUFFICES ASSUME \A x \in S : \E y \in S : <<y, x>> \in R PROVE FALSE
  OBVIOUS
<1>1. S \in Bad
  OBVIOUS
<1>2. IsWellFoundedOn(Order, SUBSET S)
  BY FS_StrictSubsetOrderingWellFounded, FS_FiniteSubsetsOfFinite, ZenonT(60)
<1>3. \A X, Y \in SUBSET S : X \subseteq Y /\ X # Y => <<X, Y>> \in Order
  BY DEF StrictSubsetOrdering
<1>0. Bad \subseteq SUBSET S /\ Bad # {}
  BY <1>1
<1> HIDE DEF Order, Bad
<1>4. PICK X \in Bad : \A Y \in Bad : <<Y, X>> \notin Order
  BY <1>0, <1>2, WFMin, Zenon
<1>5. PICK x \in X : TRUE
  BY DEF Bad
<1> DEFINE Y == X \ {x}
<1>6. Y \in SUBSET S /\ Y \notin Bad
  <2>1. X \in SUBSET S /\ Y \in SUBSET S /\ Y \subseteq X /\ Y # X
    BY <1>0, <1>5
  <2>2. <<Y, X>> \in Order
    BY <1>3, <2>1, Zenon
  <2> QED BY <1>4, <2>1, <2>2, Zenon
<1> USE DEF Bad
<1>7. PICK y \in X : <<y, x>> \in R
  BY <1>4, <1>5
<1>8. y \in Y /\ x \in S /\ y \in S
  BY <1>4, <1>5, <1>7
<1>9. PICK m \in Y : \A z \in Y : <<z, m>> \notin R
  BY <1>6, <1>8
<1>10. <<x, m>> \in R
  BY <1>4, <1>9
<1>11. <<y, m>> \in R
  BY <1>7, <1>8, <1>9, <1>10
<1> QED BY <1>8, <1>9, <1>11

LEMMA MinFacts ==
  ASSUME NEW S, IsFiniteSet(S), S # {}, S \subseteq Int
  PROVE  MinOf(S) \in S /\ \A y \in S : MinOf(S) <= y
<1> DEFINE R == {p \in Int \X Int : p[1] < p[2]}
<1>1. \A x, y \in S : <<x, y>> \in R <=> x < y
  OBVIOUS
<1> HIDE DEF R
<1>2. /\ \A x \in S : <<x, x>> \notin R
      /\ \A x, y, z \in S : <<x, y>> \in R /\ <<y, z>> \in R => <<x, z>> \in R
  BY <1>1
<1>3. PICK x \in S : \A y \in S : <<y, x>> \notin R
  BY <1>2, Extreme
<1>4. \A y \in S : x <= y
  <2> TAKE y \in S
  <2>1. ~(y < x)
    BY <1>1, <1>3, Zenon
  <2>2. x \in Int /\ y \in Int
    OBVIOUS
  <2> QED BY <2>1, <2>2
<1> QED BY <1>4 DEF MinOf

LEMMA MaxFacts ==
  ASSUME NEW S, IsFiniteSet(S), S # {}, S \subseteq Int
  PROVE  MaxOf(S) \in S /\ \A y \in S : y <= MaxOf(S)
<1> DEFINE R == {p \in Int \X Int : p[1] > p[2]}
<1>1. \A x, y \in S : <<x, y>> \in R <=> x > y
  OBVIOUS
<1> HIDE DEF R
<1>2. /\ \A x \in S : <<x, x>> \notin R
      /\ \A x, y, z \in S : <<x, y>> \in R /\ <<y, z>> \in R => <<x, z>> \in R
  BY <1>1
<1>3. PICK x \in S : \A y \in S : <<y, x>> \notin R
  BY <1>2, Extreme
<1>4. \A y \in S : y <= x
  <2> TAKE y \in S
  <2>1. ~(y > x)
    BY <1>1, <1>3, Zenon
  <2>2. x \in Int /\ y \in Int
    OBVIOUS
  <2> QED BY <2>1, <2>2
<1> QED BY <1>4 DEF MaxOf

LEMMA FiniteRange ==
  ASSUME NEW D, IsFiniteSet(D), NEW T, NEW f \in [D -> T]
  PROVE  IsFiniteSet({f[k] : k \in D})
<1>1. f \in Surjection(D, {f[k] : k \in D})
  BY DEF Surjection
<1> QED BY <1>1, FS_Surjection

-------------------------------------------------------------------------------
(* What the operations make of a map                                       *)

LEMMA WidenFacts ==
  ASSUME NEW chunk \in Chunk, NEW v \in Values
  PROVE  /\ Widen(chunk, v) \in Chunk
         /\ Spans(Widen(chunk, v), v)
         /\ \A u \in Values : Spans(chunk, u) => Spans(Widen(chunk, v), u)
<1> DEFINE lo == IF v < chunk.min THEN v ELSE chunk.min
           hi == IF v > chunk.max THEN v ELSE chunk.max
<1>1. /\ Values \subseteq Int /\ v \in Int
      /\ chunk.has_values \in BOOLEAN
      /\ chunk.min \in Values \cup {0} /\ chunk.max \in Values \cup {0}
      /\ chunk.min \in Int /\ chunk.max \in Int
  <2>1. Values \subseteq Int /\ v \in Values /\ 0 \in Int
    BY Sizes
  <2>2. /\ chunk.has_values \in BOOLEAN
        /\ chunk.min \in Values \cup {0} /\ chunk.max \in Values \cup {0}
    BY DEF Chunk
  <2> QED BY <2>1, <2>2
<1>2. CASE chunk.has_values
  <2>1. Widen(chunk, v) = [has_values |-> chunk.has_values, min |-> lo, max |-> hi]
    BY <1>2 DEF Widen, Chunk
  <2>2. lo \in Values \cup {0} /\ hi \in Values \cup {0}
    BY <1>1
  <2>3. lo <= v /\ v <= hi /\ lo <= chunk.min /\ chunk.max <= hi /\ lo \in Int /\ hi \in Int
    BY <1>1
  <2> HIDE DEF lo, hi
  <2>4. Widen(chunk, v) \in Chunk
    BY <1>1, <2>1, <2>2 DEF Chunk
  <2>5. Spans(Widen(chunk, v), v)
    BY <1>2, <2>1, <2>3 DEF Spans
  <2>6. ASSUME NEW u \in Values, Spans(chunk, u)
        PROVE  Spans(Widen(chunk, v), u)
    <3>1. u \in Int /\ chunk.min <= u /\ u <= chunk.max
      BY <1>1, <2>6 DEF Spans
    <3>2. lo <= u /\ u <= hi
      BY <1>1, <2>3, <3>1
    <3> QED BY <1>2, <2>1, <3>2 DEF Spans
  <2> QED BY <2>4, <2>5, <2>6
<1>3. CASE ~chunk.has_values
  <2>1. Widen(chunk, v) = [has_values |-> TRUE, min |-> v, max |-> v]
    BY <1>3 DEF Widen
  <2> QED BY <1>1, <1>3, <2>1 DEF Chunk, Spans
<1> QED BY <1>2, <1>3

LEMMA NoteFacts ==
  ASSUME NEW map \in Seq(Chunk), NEW count \in Nat, NEW v \in Values, ChunkOf(count) \in Nat \ {0}
  PROVE  /\ NoteAppend(map, count, v) \in Seq(Chunk)
         /\ Len(NoteAppend(map, count, v)) =
              IF ChunkOf(count) > Len(map) THEN ChunkOf(count) ELSE Len(map)
         /\ Spans(NoteAppend(map, count, v)[ChunkOf(count)], v)
         /\ \A j \in 1 .. Len(map), u \in Values :
              Spans(map[j], u) => Spans(NoteAppend(map, count, v)[j], u)
<1> DEFINE k == ChunkOf(count)
           n == IF k > Len(map) THEN k ELSE Len(map)
           grown == [j \in 1 .. n |-> IF j <= Len(map) THEN map[j] ELSE NoChunk]
           noted == NoteAppend(map, count, v)
<1>1. n \in Nat /\ k \in 1 .. n /\ Len(map) \in 0 .. n
  OBVIOUS
<1>2. noted = [grown EXCEPT ![k] = Widen(grown[k], v)]
  BY DEF NoteAppend
<1> HIDE DEF k, n, noted
<1>3. \A j \in 1 .. n : grown[j] \in Chunk
  <2>1. NoChunk \in Chunk
    BY DEF NoChunk, Chunk
  <2>2. \A j \in 1 .. Len(map) : map[j] \in Chunk
    OBVIOUS
  <2> QED BY <1>1, <2>1, <2>2
<1>4. \A j \in 1 .. Len(map) : j \in 1 .. n /\ grown[j] = map[j]
  BY <1>1
<1>5. DOMAIN grown = 1 .. n
  OBVIOUS
<1> HIDE DEF grown
<1>6. /\ DOMAIN noted = 1 .. n
      /\ noted[k] = Widen(grown[k], v)
      /\ \A j \in 1 .. n : j # k => noted[j] = grown[j]
  BY <1>1, <1>2, <1>5
<1>7. \A j \in 1 .. n : noted[j] \in Chunk
  BY <1>1, <1>3, <1>6, WidenFacts
<1>8. noted \in Seq(Chunk) /\ Len(noted) = n
  <2>1. noted = [j \in 1 .. n |-> noted[j]]
    BY <1>2, <1>5, <1>6
  <2> QED BY <1>1, <1>7, <2>1
<1>9. Spans(noted[k], v)
  BY <1>1, <1>3, <1>6, WidenFacts
<1>10. ASSUME NEW j \in 1 .. Len(map), NEW u \in Values, Spans(map[j], u)
       PROVE  Spans(noted[j], u)
  <2>1. Spans(grown[j], u) /\ grown[j] \in Chunk /\ j \in 1 .. n
    BY <1>3, <1>4, <1>10
  <2> QED BY <1>6, <2>1, WidenFacts
<1> QED BY <1>8, <1>9, <1>10 DEF noted, k, n

(* A chunk that is built spans what it is built from.                      *)
LEMMA BuildFacts ==
  ASSUME TypeInv, NEW c \in Columns, NEW k
  PROVE  /\ BuildChunk(c, k) \in Chunk
         /\ \A r \in RowsOf(k) : rows[r][c] # NULL => Spans(BuildChunk(c, k), rows[r][c])
<1> DEFINE S == ValuesIn(c, k)
           A == {rows[r][c] : r \in RowsOf(k)}
           f == [r \in RowsOf(k) |-> rows[r][c]]
<1>1. /\ RowsOf(k) \subseteq 1 .. Len(rows) /\ Len(rows) \in Nat
      /\ \A r \in 1 .. Len(rows) : rows[r][c] \in Cell
  BY DEF TypeInv, RowsOf, row_count
<1>2. IsFiniteSet(RowsOf(k))
  <2>1. IsFiniteSet(1 .. Len(rows))
    BY <1>1, FS_Interval
  <2>2. RowsOf(k) \in SUBSET (1 .. Len(rows))
    BY <1>1
  <2> QED BY <2>1, <2>2, FS_Subset
<1>3. IsFiniteSet(A)
  <2>1. f \in [RowsOf(k) -> Cell]
    BY <1>1
  <2>2. A = {f[r] : r \in RowsOf(k)}
    OBVIOUS
  <2> HIDE DEF f, A
  <2>3. IsFiniteSet({f[r] : r \in RowsOf(k)})
    BY <1>2, <2>1, FiniteRange
  <2> QED BY <2>2, <2>3
<1>4. S \subseteq A /\ S \subseteq Values /\ S = A \ {NULL}
  BY <1>1 DEF ValuesIn, Cell
<1>5. IsFiniteSet(S) /\ S \subseteq Int
  BY <1>3, <1>4, FS_Subset, Sizes
<1>6. CASE S = {}
  <2>1. BuildChunk(c, k) = NoChunk
    BY <1>6 DEF BuildChunk
  <2>2. \A r \in RowsOf(k) : rows[r][c] = NULL
    BY <1>4, <1>6
  <2> QED BY <2>1, <2>2 DEF NoChunk, Chunk
<1>7. CASE S # {}
  <2>1. BuildChunk(c, k) = [has_values |-> TRUE, min |-> MinOf(S), max |-> MaxOf(S)]
    BY <1>7 DEF BuildChunk
  <2>2. /\ MinOf(S) \in S /\ MaxOf(S) \in S
        /\ \A y \in S : MinOf(S) <= y /\ y <= MaxOf(S)
    BY <1>5, <1>7, MinFacts, MaxFacts
  <2>3. \A r \in RowsOf(k) : rows[r][c] # NULL => rows[r][c] \in S
    BY <1>4
  <2> HIDE DEF S
  <2>4. BuildChunk(c, k) \in Chunk
    BY <1>4, <2>1, <2>2 DEF Chunk
  <2> QED BY <2>1, <2>2, <2>3, <2>4 DEF Spans
<1> QED BY <1>6, <1>7

(* The map a reader uses, built where it was not current.                  *)
LEMMA EnsuredFacts ==
  ASSUME IInv, NEW c \in Columns
  PROVE  /\ EnsuredMap(c) \in Seq(Chunk)
         /\ KeptRight(c) => Covers(rows, EnsuredMap(c), c)
         /\ ~current[c] => Len(EnsuredMap(c)) = ChunkCount(row_count)
<1> DEFINE n == ChunkCount(Len(rows))
           built == [k \in 1 .. n |-> BuildChunk(c, k)]
<1>1. TypeInv /\ rows \in Seq([Columns -> Cell]) /\ Len(rows) \in Nat
  BY DEF IInv, TypeInv
<1>2. CASE current[c]
  <2>1. EnsuredMap(c) = zone_map[c]
    BY <1>2 DEF EnsuredMap
  <2>2. zone_map[c] \in Seq(Chunk)
    BY <1>1 DEF TypeInv
  <2>3. KeptRight(c) => Covers(rows, zone_map[c], c)
    BY <1>2 DEF IInv, CoverInv
  <2> QED BY <1>2, <2>1, <2>2, <2>3
<1>3. CASE ~current[c]
  <2>1. EnsuredMap(c) = built
    BY <1>3 DEF EnsuredMap, row_count
  <2>2. n \in Nat /\ \A k \in 1 .. n : BuildChunk(c, k) \in Chunk
    BY <1>1, ChunkCounts, BuildFacts
  <2>3. built \in Seq(Chunk) /\ Len(built) = n /\ \A k \in 1 .. n : built[k] = BuildChunk(c, k)
    BY <2>2
  <2>4. ASSUME NEW r \in 1 .. Len(rows), rows[r][c] # NULL
        PROVE  ChunkOf(r) <= Len(built) /\ Spans(built[ChunkOf(r)], rows[r][c])
    <3>1. ChunkOf(r) \in 1 .. n
      BY <1>1, ChunkPlaces
    <3>2. r \in RowsOf(ChunkOf(r))
      BY DEF RowsOf, row_count
    <3>3. Spans(BuildChunk(c, ChunkOf(r)), rows[r][c])
      BY <1>1, <2>4, <3>2, BuildFacts
    <3>4. built[ChunkOf(r)] = BuildChunk(c, ChunkOf(r))
      BY <2>3, <3>1
    <3> QED BY <2>2, <2>3, <3>1, <3>3, <3>4
  <2>5. Covers(rows, built, c)
    BY <2>4 DEF Covers
  <2> QED BY <2>1, <2>3, <2>5 DEF row_count
<1> QED BY <1>2, <1>3

-------------------------------------------------------------------------------
(* Each operation keeps the invariant                                      *)

LEMMA InitInv == Init => IInv
<1> SUFFICES ASSUME Init PROVE IInv
  OBVIOUS
<1>1. Len(<<>>) = 0 /\ <<>> \in Seq([Columns -> Cell]) /\ <<>> \in Seq(Chunk)
  OBVIOUS
<1>2. rows = <<>> /\ row_count = 0
  BY <1>1 DEF Init, row_count
<1>3. TypeInv
  BY <1>1 DEF Init, TypeInv
<1>4. CoverInv /\ FlagInv
  BY <1>1, <1>2 DEF CoverInv, Covers, FlagInv
<1>5. TrustInv
  <2>1. ChunkCount(0) = 0
    BY ChunkCounts
  <2>2. \A c \in Columns : Len(zone_map[c]) = 0
    BY <1>1 DEF Init
  <2> QED BY <1>2, <2>1, <2>2 DEF TrustInv
<1> QED BY <1>3, <1>4, <1>5 DEF IInv

(* INSERT: nothing was removed, so every map goes on from all the rows.     *)
LEMMA InsertKeeps ==
  ASSUME IInv, DeletedStays, NEW row \in Row, InsertRow(row)
  PROVE  IInv'
<1> DEFINE n == Len(rows)
           k == ChunkOf(n + 1)
<1>1. /\ rows \in Seq([Columns -> Cell]) /\ n \in Nat /\ row_count = n
      /\ zone_map \in [Columns -> Seq(Chunk)] /\ has_zone_map \in [Columns -> BOOLEAN]
      /\ null_flags \subseteq Columns /\ ~deleted /\ ~deleted'
      /\ row \in [Columns -> Cell] /\ n + 1 \in Nat
  <2>1. rows \in Seq([Columns -> Cell])
    BY DEF IInv, TypeInv
  <2>2. n \in Nat /\ row_count = n /\ n + 1 \in Nat
    BY <2>1 DEF row_count
  <2>3. /\ zone_map \in [Columns -> Seq(Chunk)] /\ has_zone_map \in [Columns -> BOOLEAN]
        /\ null_flags \subseteq Columns
    BY DEF IInv, TypeInv
  <2>4. ~deleted /\ ~deleted'
    BY Zenon DEF InsertRow, DeletedStays
  <2>5. row \in [Columns -> Cell]
    BY DEF Row, Cell
  <2> QED BY <2>1, <2>2, <2>3, <2>4, <2>5
<1>2. /\ rows' \in Seq([Columns -> Cell]) /\ Len(rows') = n + 1
      /\ \A r \in 1 .. n : rows'[r] = rows[r]
      /\ rows'[n + 1] = row
  <2>1. rows' = Append(rows, row)
    BY DEF InsertRow
  <2>2. rows \in Seq([Columns -> Cell]) /\ row \in [Columns -> Cell]
    BY <1>1
  <2> QED BY <2>1, <2>2, AppendProperties
<1>3. row_count' = n + 1
  BY <1>2 DEF row_count
<1> HIDE DEF n
<1>4. k = ChunkCount(n + 1) /\ k \in Nat \ {0} /\ ChunkCount(n) <= k
  <2>1. k = ChunkCount(n + 1) /\ ChunkCount(n) <= ChunkCount(n + 1)
    BY <1>1, ChunkCounts
  <2>2. n + 1 \in 1 .. n + 1
    BY <1>1
  <2>3. k \in 1 .. ChunkCount(n + 1) /\ ChunkCount(n + 1) \in Nat
    BY <1>1, <2>2, ChunkPlaces, ChunkCounts
  <2> QED BY <2>1, <2>3
<1>5. ASSUME NEW c \in Columns, row[c] = NULL
      PROVE  /\ zone_map'[c] = zone_map[c] /\ c \in null_flags'
             /\ Covers(rows, zone_map[c], c) => Covers(rows', zone_map'[c], c)
  <2>1. zone_map'[c] = zone_map[c] /\ c \in null_flags'
    BY <1>5 DEF InsertRow
  <2>2. ASSUME Covers(rows, zone_map[c], c), NEW r \in 1 .. n + 1, rows'[r][c] # NULL
        PROVE  ChunkOf(r) <= Len(zone_map[c]) /\ Spans(zone_map[c][ChunkOf(r)], rows'[r][c])
    <3>1. r # n + 1
      BY <1>2, <1>5, <2>2
    <3>2. r \in 1 .. n
      BY <1>1, <2>2, <3>1
    <3>3. rows'[r] = rows[r]
      BY <1>2, <3>2
    <3> QED BY <2>2, <3>2, <3>3 DEF Covers, n
  <2> QED BY <1>2, <2>1, <2>2 DEF Covers
<1>6. ASSUME NEW c \in Columns, row[c] # NULL
      PROVE  /\ zone_map'[c] \in Seq(Chunk)
             /\ Len(zone_map'[c]) = IF k > Len(zone_map[c]) THEN k ELSE Len(zone_map[c])
             /\ has_zone_map'[c]
             /\ Covers(rows, zone_map[c], c) => Covers(rows', zone_map'[c], c)
  <2> DEFINE map == zone_map[c]
             new == NoteAppend(map, n + 1, row[c])
  <2>1. zone_map'[c] = new /\ has_zone_map'[c]
    BY <1>1, <1>6 DEF InsertRow
  <2>2. map \in Seq(Chunk) /\ n + 1 \in Nat /\ row[c] \in Values
    BY <1>1, <1>6 DEF Cell
  <2>3. /\ new \in Seq(Chunk)
        /\ Len(new) = IF k > Len(map) THEN k ELSE Len(map)
        /\ Spans(new[k], row[c])
        /\ \A j \in 1 .. Len(map), u \in Values : Spans(map[j], u) => Spans(new[j], u)
    BY <1>4, <2>2, NoteFacts
  <2> HIDE DEF map, new
  <2>4. ASSUME Covers(rows, map, c), NEW r \in 1 .. n + 1, rows'[r][c] # NULL
        PROVE  ChunkOf(r) <= Len(new) /\ Spans(new[ChunkOf(r)], rows'[r][c])
    <3>1. CASE r = n + 1
      <4>1. ChunkOf(r) = k /\ rows'[r][c] = row[c]
        BY <1>2, <3>1
      <4>2. k <= Len(new)
        BY <1>4, <2>2, <2>3
      <4> QED BY <2>3, <4>1, <4>2
    <3>2. CASE r # n + 1
      <4>1. r \in 1 .. n
        BY <1>1, <2>4, <3>2
      <4>2. rows'[r][c] = rows[r][c] /\ rows[r][c] \in Values
        BY <1>1, <1>2, <2>4, <4>1 DEF Cell
      <4>3. ChunkOf(r) <= Len(map) /\ Spans(map[ChunkOf(r)], rows[r][c])
        BY <2>4, <4>1, <4>2 DEF Covers, n
      <4>4. ChunkOf(r) \in 1 .. ChunkCount(n) /\ ChunkCount(n) \in Nat
        BY <1>1, <4>1, ChunkPlaces, ChunkCounts
      <4>5. ChunkOf(r) \in 1 .. Len(map) /\ Len(map) <= Len(new)
        BY <1>4, <2>2, <2>3, <4>3, <4>4
      <4> QED BY <2>2, <2>3, <4>2, <4>3, <4>4, <4>5
    <3> QED BY <3>1, <3>2
  <2>5. Covers(rows, map, c) => Covers(rows', new, c)
    BY <1>2, <2>4 DEF Covers
  <2> QED BY <2>1, <2>3, <2>5 DEF map
<1>7. TypeInv'
  <2>1. zone_map' = [c \in Columns |-> IF row[c] = NULL THEN zone_map[c]
                                       ELSE NoteAppend(zone_map[c], row_count + 1, row[c])]
    BY DEF InsertRow
  <2>2. \A c \in Columns : zone_map'[c] \in Seq(Chunk)
    BY <1>1, <1>5, <1>6
  <2>3. zone_map' \in [Columns -> Seq(Chunk)]
    BY <2>1, <2>2
  <2>4. null_flags' \subseteq Columns /\ deleted' \in BOOLEAN
    <3>1. null_flags' = null_flags \cup {c \in Columns : row[c] = NULL}
      BY DEF InsertRow
    <3>2. deleted' \in BOOLEAN
      BY DEF InsertRow, IInv, TypeInv
    <3> QED BY <1>1, <3>1, <3>2
  <2>6. current' \in [Columns -> BOOLEAN]
    BY Zenon DEF InsertRow
  <2>5. has_zone_map' \in [Columns -> BOOLEAN]
    <3>1. has_zone_map' = [c \in Columns |-> has_zone_map[c] \/ row[c] # NULL]
      BY DEF InsertRow
    <3>2. \A c \in Columns : (has_zone_map[c] \/ row[c] # NULL) \in BOOLEAN
      OBVIOUS
    <3> QED BY <3>1, <3>2, Zenon
  <2> QED BY <1>2, <2>3, <2>4, <2>5, <2>6 DEF TypeInv
<1>8. CoverInv'
  <2>1. ASSUME NEW c \in Columns, KeptRight(c)'
        PROVE  Covers(rows', zone_map'[c], c)
    <3>1. KeptRight(c)
      BY <2>1 DEF KeptRight, InsertRow
    <3>2. Covers(rows, zone_map[c], c)
      BY <1>1, <3>1 DEF IInv, CoverInv
    <3> QED BY <1>5, <1>6, <3>2
  <2> QED BY <2>1 DEF CoverInv
<1>9. FlagInv'
  <2>1. null_flags' = null_flags \cup {c \in Columns : row[c] = NULL}
    BY DEF InsertRow
  <2>2. ASSUME NEW r \in 1 .. n + 1, NEW c \in Columns, rows'[r][c] = NULL
        PROVE  c \in null_flags'
    <3>1. CASE r = n + 1
      BY <1>2, <2>1, <2>2, <3>1
    <3>2. CASE r # n + 1
      <4>1. r \in 1 .. n
        BY <1>1, <2>2, <3>2
      <4>2. rows[r][c] = NULL
        BY <1>2, <2>2, <4>1
      <4> QED BY <1>1, <2>1, <4>1, <4>2 DEF IInv, FlagInv
    <3> QED BY <3>1, <3>2
  <2> QED BY <1>3, <2>2 DEF FlagInv
<1>10. TrustInv'
  <2>1. ASSUME NEW c \in Columns \ null_flags'
        PROVE  Len(zone_map'[c]) = ChunkCount(n + 1) /\ has_zone_map'[c]
    <3>1. c \notin null_flags /\ row[c] # NULL
      BY <2>1 DEF InsertRow
    <3>2. Len(zone_map[c]) = ChunkCount(n)
      BY <1>1, <3>1 DEF IInv, TrustInv
    <3>3. Len(zone_map'[c]) = k
      BY <1>1, <1>4, <1>6, <3>1, <3>2, ChunkCounts
    <3> QED BY <1>4, <1>6, <3>1, <3>3
  <2> QED BY <1>3, <2>1 DEF TrustInv
<1> QED BY <1>7, <1>8, <1>9, <1>10 DEF IInv

(* DELETE: the maps are behind the rows from now on.                       *)
LEMMA DeleteKeeps ==
  ASSUME IInv, NEW r \in 1 .. row_count, DeleteRow(r)
  PROVE  IInv'
<1> DEFINE n == Len(rows)
           left == [j \in 1 .. n - 1 |-> IF j < r THEN rows[j] ELSE rows[j + 1]]
<1>1. /\ rows \in Seq([Columns -> Cell]) /\ n \in Nat /\ r \in 1 .. n /\ rows' = left
      /\ deleted' /\ current' = [c \in Columns |-> FALSE]
      /\ UNCHANGED <<null_flags, zone_map, has_zone_map>>
  BY DEF IInv, TypeInv, DeleteRow, row_count
<1>2. n - 1 \in Nat /\ \A j \in 1 .. n - 1 : j \in 1 .. n /\ j + 1 \in 1 .. n
  BY <1>1
<1>3. \A j \in 1 .. n - 1 : left[j] \in [Columns -> Cell]
  BY <1>1, <1>2
<1>4. left \in Seq([Columns -> Cell]) /\ Len(left) = n - 1
  BY <1>2, <1>3
<1>5. \A j \in 1 .. n - 1 : left[j] = rows[j] \/ left[j] = rows[j + 1]
  OBVIOUS
<1> HIDE DEF left, n
<1>6. TypeInv'
  BY <1>1, <1>4 DEF IInv, TypeInv
<1>7. CoverInv'
  BY <1>1 DEF CoverInv
<1>8. FlagInv'
  <2>1. ASSUME NEW j \in 1 .. n - 1, NEW c \in Columns, left[j][c] = NULL
        PROVE  c \in null_flags
    <3>1. rows[j][c] = NULL \/ rows[j + 1][c] = NULL
      BY <1>5, <2>1
    <3> QED BY <1>2, <3>1 DEF IInv, FlagInv, row_count, n
  <2> QED BY <1>1, <1>4, <2>1 DEF FlagInv, row_count
<1>9. TrustInv'
  BY <1>1 DEF TrustInv
<1> QED BY <1>6, <1>7, <1>8, <1>9 DEF IInv

(* A scan and the range of a column make maps current.                     *)
LEMMA EnsureKeeps ==
  ASSUME IInv, NEW C \in SUBSET Columns, EnsureZoneMaps(C), UNCHANGED <<rows, null_flags, deleted>>
  PROVE  IInv'
<1>1. /\ \A c \in Columns :
            /\ zone_map'[c] = IF c \in C THEN EnsuredMap(c) ELSE zone_map[c]
            /\ has_zone_map'[c] = IF c \in C /\ ~current[c] THEN row_count > 0 ELSE has_zone_map[c]
            /\ current'[c] = (current[c] \/ c \in C)
      /\ row_count' = row_count
  BY DEF EnsureZoneMaps, row_count
<1>2. TypeInv'
  <2>1. /\ zone_map' = [c \in Columns |-> IF c \in C THEN EnsuredMap(c) ELSE zone_map[c]]
        /\ has_zone_map' = [c \in Columns |->
                              IF c \in C /\ ~current[c] THEN row_count > 0 ELSE has_zone_map[c]]
        /\ current' = [c \in Columns |-> current[c] \/ c \in C]
    BY DEF EnsureZoneMaps
  <2>2. row_count \in Nat
    BY DEF IInv, TypeInv, row_count
  <2>3. \A c \in Columns : zone_map'[c] \in Seq(Chunk)
    BY <1>1, EnsuredFacts DEF IInv, TypeInv
  <2>4. zone_map' \in [Columns -> Seq(Chunk)]
    BY <2>1, <2>3
  <2>5. current' \in [Columns -> BOOLEAN]
    BY <2>1 DEF IInv, TypeInv
  <2>6. has_zone_map' \in [Columns -> BOOLEAN]
    <3> DEFINE filled == row_count > 0
    <3>1. has_zone_map' = [c \in Columns |-> IF c \in C /\ ~current[c] THEN filled ELSE has_zone_map[c]]
      BY <2>1
    <3>2. filled \in BOOLEAN
      OBVIOUS
    <3> HIDE DEF filled
    <3> QED BY <3>1, <3>2 DEF IInv, TypeInv
  <2> QED BY <2>4, <2>5, <2>6 DEF IInv, TypeInv
<1>3. CoverInv'
  <2>1. ASSUME NEW c \in Columns, KeptRight(c), ~deleted \/ current'[c]
        PROVE  Covers(rows, zone_map'[c], c)
    <3>1. CASE c \in C
      BY <1>1, <2>1, <3>1, EnsuredFacts
    <3>2. CASE c \notin C
      <4>1. zone_map'[c] = zone_map[c] /\ (~deleted \/ current[c])
        BY <1>1, <2>1, <3>2
      <4> QED BY <2>1, <4>1 DEF IInv, CoverInv
    <3> QED BY <3>1, <3>2
  <2> QED BY <2>1 DEF CoverInv, KeptRight
<1>4. FlagInv'
  BY DEF IInv, FlagInv, row_count
<1>5. TrustInv'
  <2>1. ASSUME ~deleted, NEW c \in Columns \ null_flags
        PROVE  Len(zone_map'[c]) = ChunkCount(row_count) /\ (row_count > 0 => has_zone_map'[c])
    <3>1. Len(zone_map[c]) = ChunkCount(row_count) /\ (row_count > 0 => has_zone_map[c])
      BY <2>1 DEF IInv, TrustInv
    <3>2. CASE c \in C /\ ~current[c]
      BY <1>1, <3>2, EnsuredFacts
    <3>3. CASE ~(c \in C /\ ~current[c])
      <4>1. zone_map'[c] = zone_map[c] /\ has_zone_map'[c] = has_zone_map[c]
        BY <1>1, <3>3 DEF EnsuredMap
      <4> QED BY <3>1, <4>1
    <3> QED BY <3>2, <3>3
  <2> QED BY <1>1, <2>1 DEF TrustInv
<1> QED BY <1>2, <1>3, <1>4, <1>5 DEF IInv

(* A restart drops no map that a column without NULLs has rows in.          *)
LEMMA RestartKeeps ==
  ASSUME IInv, DeletedStays, Restart
  PROVE  IInv'
<1>1. /\ ~deleted
      /\ null_flags = {} \/ ~NullsStay
      /\ \A c \in Columns :
            /\ zone_map'[c] = IF Trusted(c) THEN zone_map[c] ELSE <<>>
            /\ has_zone_map'[c] = Trusted(c) /\ current'[c] = Trusted(c)
      /\ UNCHANGED <<rows, null_flags, deleted>> /\ row_count' = row_count
      /\ row_count = Len(rows) /\ row_count \in Nat
  <2>1. ~deleted /\ (null_flags = {} \/ ~NullsStay)
    BY Zenon DEF Restart, DeletedStays, NullsStay
  <2>2. /\ \A c \in Columns :
             /\ zone_map'[c] = IF Trusted(c) THEN zone_map[c] ELSE <<>>
             /\ has_zone_map'[c] = Trusted(c) /\ current'[c] = Trusted(c)
        /\ UNCHANGED <<rows, null_flags, deleted>>
    BY Zenon DEF Restart
  <2>3. row_count = Len(rows) /\ row_count \in Nat /\ row_count' = row_count
    BY <2>2 DEF IInv, TypeInv, row_count
  <2> QED BY <2>1, <2>2, <2>3
<1>2. ASSUME NEW c \in Columns, KeptRight(c)
      PROVE  /\ c \notin null_flags
             /\ row_count > 0 => Trusted(c)
             /\ Len(zone_map'[c]) = ChunkCount(row_count)
  <2>1. c \notin null_flags
    BY <1>1, <1>2 DEF KeptRight
  <2>2. Len(zone_map[c]) = ChunkCount(row_count) /\ (row_count > 0 => has_zone_map[c])
    BY <1>1, <2>1 DEF IInv, TrustInv
  <2>3. row_count > 0 => Trusted(c)
    BY <2>2 DEF Trusted
  <2>4. ~Trusted(c) => ChunkCount(row_count) = 0 /\ Len(<<>>) = 0
    BY <1>1, <2>3, ChunkCounts
  <2>5. Len(zone_map'[c]) = ChunkCount(row_count)
    BY <1>1, <2>2, <2>4
  <2> QED BY <2>1, <2>3, <2>5
<1>3. TypeInv'
  <2>1. /\ zone_map' = [c \in Columns |-> IF Trusted(c) THEN zone_map[c] ELSE <<>>]
        /\ has_zone_map' = [c \in Columns |-> Trusted(c)]
        /\ current' = [c \in Columns |-> Trusted(c)]
    BY DEF Restart
  <2>2. \A c \in Columns : Trusted(c) \in BOOLEAN
    BY DEF IInv, TypeInv, Trusted
  <2>3. \A c \in Columns : zone_map[c] \in Seq(Chunk) /\ <<>> \in Seq(Chunk)
    BY DEF IInv, TypeInv
  <2>4. zone_map' \in [Columns -> Seq(Chunk)]
    BY <2>1, <2>3
  <2>5. has_zone_map' \in [Columns -> BOOLEAN] /\ current' \in [Columns -> BOOLEAN]
    BY <2>1, <2>2
  <2> QED BY <1>1, <2>4, <2>5 DEF IInv, TypeInv
<1>4. CoverInv'
  <2>1. ASSUME NEW c \in Columns, KeptRight(c)
        PROVE  Covers(rows, zone_map'[c], c)
    <3>1. CASE row_count = 0
      BY <1>1, <3>1 DEF Covers
    <3>2. CASE row_count > 0
      <4>1. zone_map'[c] = zone_map[c]
        BY <1>1, <1>2, <2>1, <3>2
      <4> QED BY <1>1, <2>1, <4>1 DEF IInv, CoverInv
    <3> QED BY <1>1, <3>1, <3>2
  <2> QED BY <1>1, <2>1 DEF CoverInv, KeptRight
<1>5. FlagInv'
  BY <1>1 DEF IInv, FlagInv
<1>6. TrustInv'
  <2>1. ASSUME NEW c \in Columns \ null_flags
        PROVE  Len(zone_map'[c]) = ChunkCount(row_count) /\ (row_count > 0 => has_zone_map'[c])
    <3>1. KeptRight(c)
      BY DEF KeptRight
    <3> QED BY <1>1, <1>2, <3>1
  <2> QED BY <1>1, <2>1 DEF TrustInv
<1> QED BY <1>3, <1>4, <1>5, <1>6 DEF IInv

-------------------------------------------------------------------------------
(* What the readers of a map rely on                                       *)

LEMMA NextInv ==
  ASSUME IInv, DeletedStays, [Next]_vars
  PROVE  IInv'
<1>1. CASE \E row \in Row : InsertRow(row)
  BY <1>1, InsertKeeps
<1>2. CASE \E r \in 1 .. row_count : DeleteRow(r)
  BY <1>2, DeleteKeeps
<1>3. CASE \E C \in SUBSET Columns \ {{}} : Scan(C)
  BY <1>3, EnsureKeeps DEF Scan
<1>4. CASE \E c \in Columns : ColumnRange(c)
  <2>1. PICK c \in Columns : ColumnRange(c)
    BY <1>4
  <2>2. {c} \in SUBSET Columns
    OBVIOUS
  <2> QED BY <2>1, <2>2, EnsureKeeps DEF ColumnRange
<1>5. CASE Restart
  BY <1>5, RestartKeeps
<1>6. CASE UNCHANGED vars
  <2>1. TypeInv'
    BY <1>6 DEF vars, IInv, TypeInv
  <2>2. CoverInv' /\ FlagInv'
    BY <1>6 DEF vars, IInv, CoverInv, FlagInv, KeptRight, row_count
  <2>3. TrustInv'
    BY <1>6 DEF vars, IInv, TrustInv, row_count
  <2> QED BY <2>1, <2>2, <2>3 DEF IInv
<1> QED BY <1>1, <1>2, <1>3, <1>4, <1>5, <1>6 DEF Next

(* The zone maps of a table that is not appended to or loaded again after a *)
(* removal: maps span their chunks, NULLs leave flags, and a restart finds  *)
(* maps it trusts.                                                         *)
THEOREM MapInvariance ==
  ASSUME DeletedStays
  PROVE  Spec => []IInv
<1>1. IInv /\ [Next]_vars => IInv'
  BY NextInv
<1> QED BY <1>1, InitInv, PTL DEF Spec

(* A chunk is pruned for a comparison only if no value in it satisfies it.  *)
LEMMA PrunedHasNoMatch ==
  ASSUME NEW leaf \in Leaf, NEW chunk \in Chunk, NEW v \in Values, Spans(chunk, v), Holds(leaf, v)
  PROVE  ~Prunable(leaf, chunk)
<1> DEFINE t == leaf.target
<1>1. t \in Int /\ v \in Int /\ chunk.min \in Int /\ chunk.max \in Int
  <2>1. Values \subseteq Int /\ 0 \in Int
    BY Sizes
  <2>2. t \in Values /\ chunk.min \in Values \cup {0} /\ chunk.max \in Values \cup {0}
    BY DEF Leaf, Chunk
  <2> QED BY <2>1, <2>2
<1>2. leaf.op \in {"eq", "lt", "le", "gt", "ge"}
  BY DEF Leaf, Ops
<1>3. chunk.min <= v /\ v <= chunk.max
  BY DEF Spans
<1>4. CASE leaf.op = "eq"
  <2>1. v = t
    BY <1>4 DEF Holds
  <2> QED BY <1>1, <1>3, <1>4, <2>1 DEF Prunable
<1>5. CASE leaf.op = "lt"
  <2>1. v < t
    BY <1>5 DEF Holds
  <2> QED BY <1>1, <1>3, <1>5, <2>1 DEF Prunable
<1>6. CASE leaf.op = "le"
  <2>1. v <= t
    BY <1>6 DEF Holds
  <2> QED BY <1>1, <1>3, <1>6, <2>1 DEF Prunable
<1>7. CASE leaf.op = "gt"
  <2>1. v > t
    BY <1>7 DEF Holds
  <2> QED BY <1>1, <1>3, <1>7, <2>1 DEF Prunable
<1>8. CASE leaf.op = "ge"
  <2>1. v >= t
    BY <1>8 DEF Holds
  <2> QED BY <1>1, <1>3, <1>8, <2>1 DEF Prunable
<1> QED BY <1>2, <1>4, <1>5, <1>6, <1>7, <1>8

(* A scan leaves out no chunk with a matching row, whatever the columns,    *)
(* the rows and the history of appends, removals, scans and restarts        *)
(* (qe_scan_build_dispatch_ranges).  Restarts of a table with NULLs are not *)
(* left out, for such a table is not scanned by chunks.                    *)
THEOREM PruningLosesNothing ==
  ASSUME DeletedStays
  PROVE  Spec => []PruneSound
<1>1. IInv => PruneSound
  <2> SUFFICES ASSUME IInv, CanScan, NEW leaves \in Wheres, NEW r \in 1 .. row_count,
                      NEW junk \in BOOLEAN, Matches(leaves, r)
               PROVE  /\ ChunkOf(r) <= ScanChunks(EnsuredMaps, leaves)
                      /\ ~Skipped(EnsuredMaps, leaves, junk, ChunkOf(r))
    BY DEF PruneSound
  <2> DEFINE k == ChunkOf(r)
  <2>1. leaves \in Seq(Leaf) /\ Len(leaves) \in 1 .. 2 /\ DOMAIN leaves = 1 .. Len(leaves)
    <3>1. CASE \E x \in Leaf : leaves = <<x>>
      BY <3>1
    <3>2. CASE \E x, y \in Leaf : leaves = <<x, y>>
      BY <3>2
    <3>3. leaves \in Leaves
      BY DEF Wheres
    <3> QED BY <3>1, <3>2, <3>3 DEF Leaves
  <2>2. \A j \in DOMAIN leaves : leaves[j] \in Leaf
    BY <2>1
  <2>3. /\ rows \in Seq([Columns -> Cell]) /\ row_count = Len(rows) /\ null_flags = {}
        /\ Len(rows) \in Nat
    BY DEF IInv, TypeInv, row_count, CanScan
  <2>4. k \in Nat \ {0}
    <3>1. k \in 1 .. ChunkCount(Len(rows)) /\ ChunkCount(Len(rows)) \in Nat
      BY <2>3, ChunkPlaces, ChunkCounts
    <3> HIDE DEF k
    <3> QED BY <3>1
  <2>5. ASSUME NEW j \in DOMAIN leaves
        PROVE  /\ k <= Len(EnsuredMaps[leaves[j].column])
               /\ ~Prunable(leaves[j], EnsuredMaps[leaves[j].column][k])
    <3> DEFINE c == leaves[j].column
               v == rows[r][c]
               map == EnsuredMap(c)
    <3>1. c \in Columns /\ leaves[j] \in Leaf
      BY <2>2 DEF Leaf
    <3>2. v \in Values
      <4>1. v \in Cell
        BY <2>3, <3>1
      <4>2. v # NULL
        BY <2>3, <3>1 DEF IInv, FlagInv
      <4> QED BY <4>1, <4>2 DEF Cell
    <3>3. map \in Seq(Chunk) /\ Covers(rows, map, c)
      BY <2>3, <3>1, EnsuredFacts DEF KeptRight
    <3>4. v # NULL
      BY <3>2, Sizes
    <3>5. k <= Len(map) /\ Spans(map[k], v)
      BY <2>3, <3>3, <3>4 DEF Covers
    <3>6. map[k] \in Chunk
      BY <2>4, <3>3, <3>5
    <3>7. Holds(leaves[j], v)
      BY DEF Matches
    <3>8. ~Prunable(leaves[j], map[k])
      BY <3>1, <3>2, <3>5, <3>6, <3>7, PrunedHasNoMatch
    <3>9. EnsuredMaps[c] = map
      BY <3>1 DEF EnsuredMaps
    <3> QED BY <3>5, <3>8, <3>9
  <2>6. k <= ScanChunks(EnsuredMaps, leaves)
    BY <2>1, <2>5 DEF ScanChunks
  <2>7. ~Skipped(EnsuredMaps, leaves, junk, k)
    BY <2>5 DEF Skipped
  <2> QED BY <2>6, <2>7
<1> QED BY <1>1, MapInvariance, PTL

(* The range an aggregate takes from a zone map has every value of the      *)
(* column, with NULLs or without (qe_column_range_from_zone_map).          *)
THEOREM RangesHoldValues ==
  ASSUME DeletedStays, NullsStay
  PROVE  Spec => []RangeSound
<1>1. IInv => RangeSound
  <2> SUFFICES ASSUME IInv, NEW c \in Columns, NEW r \in 1 .. row_count, rows[r][c] # NULL
               PROVE  /\ Known(c) # {}
                      /\ RangeLow(c) <= rows[r][c] /\ rows[r][c] <= RangeHigh(c)
    BY DEF RangeSound
  <2> DEFINE map == EnsuredMap(c)
             k == ChunkOf(r)
             v == rows[r][c]
             lows == [j \in Known(c) |-> map[j].min]
             highs == [j \in Known(c) |-> map[j].max]
             L == {map[j].min : j \in Known(c)}
             H == {map[j].max : j \in Known(c)}
  <2>1. /\ rows \in Seq([Columns -> Cell]) /\ row_count = Len(rows) /\ Len(rows) \in Nat
    BY DEF IInv, TypeInv, row_count
  <2>2. map \in Seq(Chunk) /\ Covers(rows, map, c)
    BY EnsuredFacts DEF KeptRight
  <2>3. k \in Nat \ {0} /\ k <= Len(map) /\ Spans(map[k], v)
    <3>1. k \in 1 .. ChunkCount(Len(rows)) /\ ChunkCount(Len(rows)) \in Nat
      BY <2>1, ChunkPlaces, ChunkCounts
    <3>2. k <= Len(map) /\ Spans(map[k], v)
      BY <2>1, <2>2 DEF Covers
    <3> HIDE DEF k
    <3> QED BY <3>1, <3>2
  <2>4. k \in DOMAIN map /\ Len(map) \in Nat /\ DOMAIN map = 1 .. Len(map)
    BY <2>2, <2>3
  <2>5. Known(c) \subseteq DOMAIN map /\ k \in Known(c)
    BY <2>3, <2>4 DEF Known, Spans
  <2>6. \A j \in Known(c) : map[j].min \in Int /\ map[j].max \in Int
    <3>1. \A j \in Known(c) : map[j] \in Chunk
      BY <2>2, <2>4, <2>5
    <3>2. Values \cup {0} \subseteq Int
      BY Sizes
    <3> QED BY <3>1, <3>2 DEF Chunk
  <2>7. IsFiniteSet(Known(c))
    <3>1. IsFiniteSet(1 .. Len(map))
      BY <2>4, FS_Interval
    <3> QED BY <2>4, <2>5, <3>1, FS_Subset
  <2> HIDE DEF map
  <2>8. IsFiniteSet(L) /\ IsFiniteSet(H)
    <3>1. lows \in [Known(c) -> Int] /\ highs \in [Known(c) -> Int]
      BY <2>6
    <3>2. L = {lows[j] : j \in Known(c)} /\ H = {highs[j] : j \in Known(c)}
      OBVIOUS
    <3> HIDE DEF lows, highs, L, H
    <3>3. IsFiniteSet({lows[j] : j \in Known(c)}) /\ IsFiniteSet({highs[j] : j \in Known(c)})
      BY <2>7, <3>1, FiniteRange
    <3> QED BY <3>2, <3>3
  <2>9. /\ map[k].min \in L /\ map[k].max \in H /\ L \subseteq Int /\ H \subseteq Int
    BY <2>5, <2>6
  <2>10. RangeLow(c) = MinOf(L) /\ RangeHigh(c) = MaxOf(H)
    BY DEF RangeLow, RangeHigh, map
  <2> HIDE DEF L, H
  <2>11. /\ MinOf(L) \in Int /\ MinOf(L) <= map[k].min
         /\ MaxOf(H) \in Int /\ map[k].max <= MaxOf(H)
    BY <2>8, <2>9, MinFacts, MaxFacts
  <2>12. v \in Int
    <3>1. v \in Cell
      BY <2>1
    <3> QED BY <3>1, Sizes DEF Cell
  <2>13. map[k].min \in Int /\ map[k].max \in Int /\ map[k].min <= v /\ v <= map[k].max
    BY <2>3, <2>9 DEF Spans
  <2>14. MinOf(L) <= v /\ v <= MaxOf(H)
    BY <2>11, <2>12, <2>13
  <2> QED BY <2>5, <2>10, <2>14
<1> QED BY <1>1, MapInvariance, PTL

-------------------------------------------------------------------------------
(* Device memory under the scans                                           *)

Contents == ScanColumns \X Nat \X Nat
PoolNames ==
  {<<"scan_col", c>> : c \in ScanColumns \cup {None}} \cup {<<"agg", c>> : c \in ScanColumns}
PoolSlots == [name : PoolNames, buffer : Buffers \cup {None}, capacity : Nat, epoch : Nat,
              made : Nat]
Chunks == [column : ScanColumns, generation : Nat, chunk : Nat, buffer : Buffers, ready : BOOLEAN,
           uses : Nat, pins : Nat]
Memories == [content : [Buffers -> Contents \cup {Nothing, Garbage}], pool : Seq(PoolSlots),
             epoch : Nat, cache : Seq(Chunks), failed : BOOLEAN]
StreamSlots ==
  [chunk : Nat \cup {None}, columns : Seq(Buffers), transient : [ScanColumns -> Buffers \cup {None}],
   held : SUBSET Buffers, copies : SUBSET [to : Buffers, column : ScanColumns], grown : BOOLEAN,
   encoded : [ScanColumns -> Contents \cup {Nothing}]]

ColumnStates ==
  [write_generation : Nat, rows : Nat, upload_generation : Nat, upload_rows : Nat,
   agg_generation : Nat, agg_buffer : Nat \cup {None}]

ScanTypes ==
  /\ memory \in Memories
  /\ column \in [ScanColumns -> ColumnStates]
  /\ query.columns \in Seq(ScanColumns) /\ query.chunks \in Seq(Nat)
  /\ at \in {"idle", "bind", "next", "prepare", "drain"}
  /\ next \in Nat /\ ok \in BOOLEAN /\ deferred \in SlotIds \cup {None}
  /\ slot \in [SlotIds -> StreamSlots]
  /\ work \in [SlotIds -> {"none", "recorded", "submitted", "copied", "done"}]
  /\ bound \in Seq(Buffers \cup {None})

(* What is allocated has one owner, and is not marked as free.              *)
Apart(m) ==
  /\ \A i, j \in DOMAIN m.cache : m.cache[i].buffer = m.cache[j].buffer => i = j
  /\ \A i, j \in DOMAIN m.pool :
       m.pool[i].buffer = m.pool[j].buffer => i = j \/ m.pool[i].buffer = None
  /\ Pooled(m) \cap Cached(m) = {}
  /\ \A b \in Pooled(m) \cup Cached(m) : m.content[b] # Nothing

Busy(s) == work[s] \in {"recorded", "submitted", "copied"}

(* The chunk before the next one is recorded and waits for its submit.      *)
HostInv ==
  /\ at \in {"idle", "bind"} => \A s \in SlotIds : slot[s] = IdleSlot /\ work[s] = "none"
  /\ at \in {"next", "prepare"} =>
       /\ ok /\ (next = 0 => deferred = None)
       /\ next # 0 => deferred = (next - 1) % SlotCount /\ work[deferred] = "recorded"
  /\ at = "prepare" => next < QueryChunks /\ slot[Current].chunk = None
  /\ \A s \in SlotIds : work[s] = "recorded" /\ ok => deferred = s /\ at \in {"next", "prepare"}

ChunkInv ==
  \A s \in SlotIds : /\ Busy(s) => slot[s].chunk # None
                     /\ slot[s].chunk # None => Len(slot[s].columns) = Len(query.columns)

(* A slot's own buffers are in no other hands.                              *)
OwnInv ==
  /\ \A s \in SlotIds : /\ Own(s) \cap (Pooled(memory) \cup Cached(memory)) = {}
                        /\ \A b \in Own(s) : memory.content[b] # Nothing
  /\ \A s, t \in SlotIds : s # t => Own(s) \cap Own(t) = {}

(* What a slot reads is its own or held, and a chunk in the cache has a pin *)
(* for each slot that holds it.                                            *)
Holders(b) == {s \in SlotIds : b \in slot[s].held}
PinnedFor(m, b, n) == \E i \in DOMAIN m.cache : m.cache[i].buffer = b /\ m.cache[i].pins >= n

HeldInv ==
  \A s \in SlotIds : /\ InUse(s) \subseteq Own(s) \cup slot[s].held
                     /\ \A b \in slot[s].held : PinnedFor(memory, b, Cardinality(Holders(b)))

(* A copy of a narrow column has an encoded source.                         *)
EncodedInv ==
  \A s \in SlotIds : \A copy \in slot[s].copies :
    copy.column \in Narrow => slot[s].encoded[copy.column] # Nothing

ScanInv == ScanTypes /\ Apart(memory) /\ HostInv /\ ChunkInv /\ OwnInv /\ HeldInv /\ EncodedInv

-------------------------------------------------------------------------------
(* Sets of numbers                                                         *)

LEMMA LeastNat ==
  ASSUME NEW S, S \subseteq Nat, S # {}
  PROVE  Min(S) \in S /\ \A y \in S : Min(S) <= y
<1> DEFINE R == {ss \in Nat \X Nat : ss[1] < ss[2]}
<1>1. IsWellFoundedOn(R, Nat)
  BY NatLessThanWellFounded DEF OpToRel
<1>2. \A x, y \in Nat : <<y, x>> \in R <=> y < x
  OBVIOUS
<1> HIDE DEF R
<1>3. PICK x \in S : \A y \in S : ~(<<y, x>> \in R)
  BY <1>1, WFMin
<1>4. \A y \in S : x <= y
  <2> TAKE y \in S
  <2>1. x \in Nat /\ y \in Nat
    OBVIOUS
  <2>2. ~(y < x)
    BY <2>1, <1>2, <1>3, Zenon
  <2> QED BY <2>1, <2>2
<1> QED BY <1>4 DEF Min

(* A bounded set of numbers has a greatest one.                            *)
LEMMA GreatestOf ==
  ASSUME NEW n \in Nat, NEW S, S \subseteq 0 .. n, S # {}
  PROVE  \E x \in S : \A y \in S : y <= x
<1> DEFINE T == {n - y : y \in S}
<1>1. T \subseteq Nat /\ T # {}
  <2>1. \A y \in S : n - y \in Nat /\ n - y \in T
    <3> TAKE y \in S
    <3>1. y \in 0 .. n
      OBVIOUS
    <3> QED BY <3>1
  <2> QED BY <2>1
<1> DEFINE l == Min(T)
<1>2. l \in T /\ \A z \in T : l <= z
  BY <1>1, LeastNat, Zenon
<1> HIDE DEF l
<1>3. PICK x \in S : l = n - x
  BY <1>2
<1>4. \A y \in S : y <= x
  <2> TAKE y \in S
  <2>1. n - y \in T /\ x \in 0 .. n /\ y \in 0 .. n
    OBVIOUS
  <2>2. n - x <= n - y
    BY <1>2, <1>3, <2>1, Zenon
  <2> QED BY <2>1, <2>2
<1> QED BY <1>4

-------------------------------------------------------------------------------
(* The chunks that are left when some go                                   *)

IsLeft(f, cache, B, k) ==
  f = [n \in 0 .. k |->
         IF n = 0 THEN <<>>
         ELSE IF cache[n].buffer \in B THEN f[n - 1] ELSE Append(f[n - 1], cache[n])]

LEMMA LeftExists ==
  ASSUME NEW cache, NEW B, NEW k \in Nat
  PROVE  \E f : IsLeft(f, cache, B, k)
<1> DEFINE Bad == {n \in Nat : ~ \E f : IsLeft(f, cache, B, n)}
<1>1. SUFFICES ASSUME Bad # {} PROVE FALSE
  BY <1>1
<1> DEFINE n == Min(Bad)
<1>2. n \in Bad /\ \A y \in Bad : n <= y
  <2>1. Bad \subseteq Nat
    OBVIOUS
  <2> HIDE DEF Bad
  <2> QED BY <1>1, <2>1, LeastNat
<1> HIDE DEF n
<1>3. n \in Nat /\ ~ \E f : IsLeft(f, cache, B, n)
  BY <1>2
<1>4. n # 0
  <2> SUFFICES ASSUME n = 0 PROVE FALSE
    OBVIOUS
  <2>1. IsLeft([j \in 0 .. 0 |-> <<>>], cache, B, 0)
    BY DEF IsLeft
  <2> QED BY <1>3, <2>1
<1>5. n - 1 \in Nat /\ n - 1 \notin Bad
  BY <1>2, <1>3, <1>4
<1>6. PICK f : IsLeft(f, cache, B, n - 1)
  BY <1>5
<1> DEFINE last == IF cache[n].buffer \in B THEN f[n - 1] ELSE Append(f[n - 1], cache[n])
           g == [j \in 0 .. n |-> IF j = n THEN last ELSE f[j]]
<1>7. \A j \in 0 .. n : g[j] = IF j = 0 THEN <<>>
                               ELSE IF cache[j].buffer \in B THEN g[j - 1]
                               ELSE Append(g[j - 1], cache[j])
  <2> TAKE j \in 0 .. n
  <2>1. CASE j = n
    <3>1. g[n] = last /\ g[n - 1] = f[n - 1]
      BY <1>3, <1>4
    <3> HIDE DEF g
    <3> QED BY <1>4, <2>1, <3>1
  <2>2. CASE j # n
    <3>1. j \in 0 .. n - 1 /\ (j # 0 => j - 1 \in 0 .. n /\ j - 1 # n)
      BY <1>3, <2>2
    <3>2. f[j] = IF j = 0 THEN <<>>
                 ELSE IF cache[j].buffer \in B THEN f[j - 1] ELSE Append(f[j - 1], cache[j])
      BY <1>6, <3>1 DEF IsLeft
    <3>3. g[j] = f[j] /\ (j # 0 => g[j - 1] = f[j - 1])
      BY <2>2, <3>1
    <3> HIDE DEF g
    <3> QED BY <3>2, <3>3
  <2> QED BY <2>1, <2>2
<1>8. g = [j \in 0 .. n |-> g[j]]
  OBVIOUS
<1> HIDE DEF g
<1>9. IsLeft(g, cache, B, n)
  BY <1>7, <1>8 DEF IsLeft
<1> QED BY <1>3, <1>9

(* What the chunks of c that stay are, seen from a part d of them.          *)
LeftOf(d, c, B, n) ==
  /\ d \in Seq(Chunks)
  /\ \A i \in DOMAIN d : \E j \in 1 .. n : d[i] = c[j] /\ c[j].buffer \notin B
  /\ \A j \in 1 .. n : c[j].buffer \notin B => \E i \in DOMAIN d : d[i] = c[j]
  /\ \A i, j \in DOMAIN d : d[i].buffer = d[j].buffer => i = j

LEMMA LeftGrows ==
  ASSUME NEW c \in Seq(Chunks), NEW n \in Nat, n + 1 <= Len(c), NEW B, NEW d,
         \A i, j \in DOMAIN c : c[i].buffer = c[j].buffer => i = j,
         LeftOf(d, c, B, n), c[n + 1].buffer \notin B
  PROVE  LeftOf(Append(d, c[n + 1]), c, B, n + 1)
<1> DEFINE e == c[n + 1]
           u == Append(d, e)
           l == Len(d)
<1>1. e \in Chunks /\ n + 1 \in DOMAIN c /\ d \in Seq(Chunks) /\ l \in Nat
  BY DEF LeftOf
<1>2. /\ u \in Seq(Chunks) /\ Len(u) = l + 1 /\ DOMAIN u = 1 .. l + 1 /\ DOMAIN d = 1 .. l
      /\ \A i \in 1 .. l : u[i] = d[i]
      /\ u[l + 1] = e
  BY <1>1
<1>3. \A i \in DOMAIN d : \E j \in 1 .. n : d[i] = c[j] /\ c[j].buffer \notin B
  BY DEF LeftOf
<1> HIDE DEF u, l
<1>4. ASSUME NEW i \in DOMAIN u
      PROVE  \E j \in 1 .. n + 1 : u[i] = c[j] /\ c[j].buffer \notin B
  <2>1. CASE i = l + 1
    BY <1>2, <2>1
  <2>2. CASE i # l + 1
    <3>1. i \in DOMAIN d /\ u[i] = d[i]
      BY <1>1, <1>2, <2>2
    <3> QED BY <1>3, <3>1
  <2> QED BY <2>1, <2>2
<1>5. ASSUME NEW j \in 1 .. n + 1, c[j].buffer \notin B
      PROVE  \E i \in DOMAIN u : u[i] = c[j]
  <2>1. CASE j = n + 1
    <3>1. l + 1 \in DOMAIN u
      BY <1>1, <1>2
    <3> QED BY <1>2, <2>1, <3>1
  <2>2. CASE j # n + 1
    <3>1. PICK i \in DOMAIN d : d[i] = c[j]
      BY <1>5, <2>2 DEF LeftOf
    <3>2. i \in DOMAIN u /\ u[i] = d[i]
      BY <1>1, <1>2, <3>1
    <3> QED BY <3>1, <3>2
  <2> QED BY <2>1, <2>2
<1>6. \A i \in DOMAIN d : d[i].buffer # e.buffer
  <2> TAKE i \in DOMAIN d
  <2>1. PICK j \in 1 .. n : d[i] = c[j]
    BY <1>3
  <2>2. j \in DOMAIN c /\ j # n + 1
    OBVIOUS
  <2> QED BY <1>1, <2>1, <2>2, Zenon
<1>7. ASSUME NEW i \in DOMAIN u, NEW j \in DOMAIN u, u[i].buffer = u[j].buffer
      PROVE  i = j
  <2>1. \A k \in DOMAIN u : k = l + 1 \/ (k \in DOMAIN d /\ u[k] = d[k])
    BY <1>1, <1>2
  <2>2. \A k, m \in DOMAIN d : d[k].buffer = d[m].buffer => k = m
    BY DEF LeftOf
  <2> QED BY <1>2, <1>6, <1>7, <2>1, <2>2, Zenon
<1> QED BY <1>2, <1>4, <1>5, <1>7 DEF LeftOf, u

LEMMA OthersFacts ==
  ASSUME NEW c \in Seq(Chunks), NEW B,
         \A i, j \in DOMAIN c : c[i].buffer = c[j].buffer => i = j
  PROVE  LeftOf(Others(c, B), c, B, Len(c))
<1> DEFINE k == Len(c)
           f == CHOOSE g : IsLeft(g, c, B, k)
<1>1. k \in Nat /\ DOMAIN c = 1 .. k
  OBVIOUS
<1>2. IsLeft(f, c, B, k)
  BY <1>1, LeftExists
<1>3. Others(c, B) = f[k]
  BY DEF Others, IsLeft
<1> HIDE DEF f
<1> DEFINE Bad == {n \in Nat : n <= k /\ ~LeftOf(f[n], c, B, n)}
<1>4. SUFFICES ASSUME Bad # {} PROVE FALSE
  BY <1>1, <1>3, <1>4
<1> DEFINE n == Min(Bad)
<1>5. n \in Bad /\ \A y \in Bad : n <= y
  <2>1. Bad \subseteq Nat
    OBVIOUS
  <2> HIDE DEF Bad
  <2> QED BY <1>4, <2>1, LeastNat
<1> HIDE DEF n
<1>6. n \in Nat /\ n <= k /\ ~LeftOf(f[n], c, B, n)
  BY <1>5
<1>7. f[n] = IF n = 0 THEN <<>>
             ELSE IF c[n].buffer \in B THEN f[n - 1] ELSE Append(f[n - 1], c[n])
  <2>1. n \in 0 .. k
    BY <1>1, <1>6
  <2> HIDE DEF k
  <2> QED BY <1>2, <2>1 DEF IsLeft
<1>8. n # 0
  <2> SUFFICES ASSUME n = 0 PROVE FALSE
    OBVIOUS
  <2>1. f[n] = <<>>
    BY <1>7
  <2>2. LeftOf(<<>>, c, B, 0)
    BY DEF LeftOf
  <2> QED BY <1>6, <2>1, <2>2
<1> DEFINE p == n - 1
<1>9. p \in Nat /\ n = p + 1 /\ p <= k
  BY <1>1, <1>6, <1>8
<1>10. LeftOf(f[p], c, B, p)
  <2>1. p \notin Bad
    BY <1>5, <1>9
  <2> QED BY <1>9, <2>1
<1> HIDE DEF p
<1>11. f[n] = IF c[n].buffer \in B THEN f[p] ELSE Append(f[p], c[n])
  BY <1>7, <1>8 DEF p
<1>12. CASE c[n].buffer \in B
  <2>1. LeftOf(f[p], c, B, n)
    <3>1. \A j \in 1 .. n : j \in 1 .. p \/ j = n
      BY <1>9
    <3>2. \A j \in 1 .. p : j \in 1 .. n
      BY <1>9
    <3> QED BY <1>10, <1>12, <3>1, <3>2, Zenon DEF LeftOf
  <2> QED BY <1>6, <1>11, <1>12, <2>1
<1>13. CASE c[n].buffer \notin B
  <2>1. LeftOf(Append(f[p], c[p + 1]), c, B, p + 1)
    BY <1>1, <1>6, <1>9, <1>10, <1>13, LeftGrows
  <2> QED BY <1>6, <1>9, <1>11, <1>13, <2>1
<1> QED BY <1>12, <1>13

-------------------------------------------------------------------------------
(* One memory after another                                                *)

Owned(m) == Pooled(m) \cup Cached(m)

(* n is what an operation has made of m: a chunk that is pinned is still    *)
(* there and no less pinned, and a buffer that was in use by someone else  *)
(* still is, and is nobody else's.                                         *)
Serves(m, n) ==
  /\ n \in Memories /\ Apart(n)
  /\ \A b : \A k \in Nat \ {0} : PinnedFor(m, b, k) => PinnedFor(n, b, k)
  /\ \A b \in Buffers \ Owned(m) :
       m.content[b] # Nothing => b \notin Owned(n) /\ n.content[b] # Nothing

(* What only gives back has besides no more buffers than before.           *)
Shrinks(m, n) ==
  /\ Serves(m, n)
  /\ Pooled(n) \subseteq Pooled(m) /\ Cached(n) \subseteq Cached(m)
  /\ Len(n.pool) = Len(m.pool)
  /\ \A i \in DOMAIN m.pool : m.pool[i].buffer = None => n.pool[i].buffer = None

SameChunk(e, d) ==
  /\ e.buffer = d.buffer /\ e.column = d.column /\ e.generation = d.generation
  /\ e.chunk = d.chunk /\ e.ready = d.ready

(* n is what an operation has made of m.  A named buffer, except those of   *)
(* the names T, keeps its rows or is given up, and is kept if it was looked  *)
(* up in this epoch; a chunk in the cache is one that was there, with its    *)
(* rows, or one that nobody finds yet.                                     *)
(* A chunk is let go of: it can be found if its rows are there.              *)
LetGone(e, d, held, completed) ==
  /\ e.buffer = d.buffer /\ e.column = d.column /\ e.generation = d.generation
  /\ e.chunk = d.chunk /\ (e.ready => d.ready \/ (completed /\ d.buffer \in held))

SlotStays(m, n, i) ==
  /\ n.pool[i].made = m.pool[i].made /\ n.pool[i].epoch = m.pool[i].epoch
  /\ n.pool[i].buffer # None =>
       /\ n.pool[i] = m.pool[i]
       /\ n.content[m.pool[i].buffer] = m.content[m.pool[i].buffer]
  /\ m.pool[i].buffer # None /\ m.pool[i].epoch = m.epoch => n.pool[i].buffer # None

EntryStays(m, n, e) ==
  \E j \in DOMAIN m.cache :
    SameChunk(e, m.cache[j]) /\ n.content[e.buffer] = m.content[e.buffer]
EntryNew(m, e) == ~ e.ready /\ ~ PinnedFor(m, e.buffer, 1)

Retains(m, n, T) ==
  /\ n.epoch = m.epoch
  /\ \A i \in DOMAIN m.pool :
       /\ i \in DOMAIN n.pool /\ n.pool[i].name = m.pool[i].name
       /\ m.pool[i].name \notin T => SlotStays(m, n, i)
  /\ \A i \in DOMAIN n.pool : i \in DOMAIN m.pool \/ n.pool[i].name \in T
  /\ \A k \in DOMAIN n.cache : EntryStays(m, n, n.cache[k]) \/ EntryNew(m, n.cache[k])
  /\ \A b \in Buffers \ Owned(m) : m.content[b] # Nothing => n.content[b] = m.content[b]

(* Names are unique in the pool.                                           *)
NamesInv(m) == \A i, j \in DOMAIN m.pool : m.pool[i].name = m.pool[j].name => i = j

LEMMA MemoryFacts ==
  ASSUME NEW m \in Memories
  PROVE  /\ m = [content |-> m.content, pool |-> m.pool, epoch |-> m.epoch, cache |-> m.cache,
                 failed |-> m.failed]
         /\ m.content \in [Buffers -> Contents \cup {Nothing, Garbage}]
         /\ m.pool \in Seq(PoolSlots) /\ m.epoch \in Nat /\ m.cache \in Seq(Chunks)
         /\ m.failed \in BOOLEAN
         /\ DOMAIN m.pool = 1 .. Len(m.pool) /\ Len(m.pool) \in Nat
         /\ DOMAIN m.cache = 1 .. Len(m.cache) /\ Len(m.cache) \in Nat
         /\ \A i \in DOMAIN m.pool : m.pool[i] \in PoolSlots
         /\ \A i \in DOMAIN m.cache : m.cache[i] \in Chunks
<1>1. /\ m = [content |-> m.content, pool |-> m.pool, epoch |-> m.epoch, cache |-> m.cache,
              failed |-> m.failed]
      /\ m.content \in [Buffers -> Contents \cup {Nothing, Garbage}]
      /\ m.pool \in Seq(PoolSlots) /\ m.epoch \in Nat /\ m.cache \in Seq(Chunks)
      /\ m.failed \in BOOLEAN
  BY DEF Memories
<1> QED BY <1>1

LEMMA PoolSlotFacts ==
  ASSUME NEW p \in PoolSlots
  PROVE  /\ p.name \in PoolNames /\ p.buffer \in Buffers \cup {None} /\ p.capacity \in Nat
         /\ p.epoch \in Nat /\ p.made \in Nat
         /\ p = [name |-> p.name, buffer |-> p.buffer, capacity |-> p.capacity,
                 epoch |-> p.epoch, made |-> p.made]
BY DEF PoolSlots

LEMMA ChunkFacts ==
  ASSUME NEW e \in Chunks
  PROVE  /\ e.column \in ScanColumns /\ e.generation \in Nat /\ e.chunk \in Nat
         /\ e.buffer \in Buffers /\ e.ready \in BOOLEAN /\ e.uses \in Nat /\ e.pins \in Nat
         /\ e = [column |-> e.column, generation |-> e.generation, chunk |-> e.chunk,
                 buffer |-> e.buffer, ready |-> e.ready, uses |-> e.uses, pins |-> e.pins]
BY DEF Chunks

LEMMA Constants ==
  /\ Buffers \subseteq Nat /\ None \notin Nat /\ None \notin Buffers /\ Garbage # Nothing
  /\ \A r \in Contents : r # Nothing /\ r # None
  /\ IsFiniteSet(ScanColumns) /\ Narrow \subseteq ScanColumns
  /\ Slots \in Nat /\ Slots >= 2 /\ MaxChunks \in Nat
<1>1. /\ Buffers \subseteq Nat /\ None \notin Nat /\ Garbage # Nothing
      /\ IsFiniteSet(ScanColumns) /\ Narrow \subseteq ScanColumns /\ MaxChunks \in Nat
  BY MemoryAssumption, ScanAssumption, Zenon
<1>2. \A r \in Contents : r # Nothing /\ r # None
  BY ScanAssumption, Zenon DEF Contents
<1>3. Slots \in Nat /\ Slots >= 2
  BY ScanAssumption
<1> QED BY <1>1, <1>2, <1>3, Zenon

(* Changing one part of a memory.                                          *)
LEMMA Changed ==
  ASSUME NEW c, NEW p, NEW e, NEW k, NEW f, NEW b, NEW x
  PROVE  LET m == [content |-> c, pool |-> p, epoch |-> e, cache |-> k, failed |-> f]
         IN  /\ [m EXCEPT !.content[b] = x]
                  = [content |-> [c EXCEPT ![b] = x], pool |-> p, epoch |-> e, cache |-> k,
                     failed |-> f]
             /\ [m EXCEPT !.content = x]
                  = [content |-> x, pool |-> p, epoch |-> e, cache |-> k, failed |-> f]
             /\ [m EXCEPT !.pool[b] = x]
                  = [content |-> c, pool |-> [p EXCEPT ![b] = x], epoch |-> e, cache |-> k,
                     failed |-> f]
             /\ [m EXCEPT !.pool = x]
                  = [content |-> c, pool |-> x, epoch |-> e, cache |-> k, failed |-> f]
             /\ [m EXCEPT !.epoch = x]
                  = [content |-> c, pool |-> p, epoch |-> x, cache |-> k, failed |-> f]
             /\ [m EXCEPT !.cache = x]
                  = [content |-> c, pool |-> p, epoch |-> e, cache |-> x, failed |-> f]
             /\ [m EXCEPT !.failed = x]
                  = [content |-> c, pool |-> p, epoch |-> e, cache |-> k, failed |-> x]
OBVIOUS

LEMMA OwnedFacts ==
  ASSUME NEW m \in Memories
  PROVE  /\ Pooled(m) \subseteq Buffers /\ Cached(m) \subseteq Buffers
         /\ Owned(m) \subseteq Buffers
         /\ \A i \in DOMAIN m.cache : m.cache[i].buffer \in Cached(m)
         /\ \A i \in DOMAIN m.pool : m.pool[i].buffer # None => m.pool[i].buffer \in Pooled(m)
<1>1. \A i \in DOMAIN m.pool : m.pool[i].buffer \in Buffers \cup {None}
  BY MemoryFacts, PoolSlotFacts
<1>2. \A i \in DOMAIN m.cache : m.cache[i].buffer \in Buffers
  BY MemoryFacts, ChunkFacts
<1> QED BY <1>1, <1>2 DEF Pooled, Cached, Owned

LEMMA ServesItself ==
  ASSUME NEW m \in Memories, Apart(m)
  PROVE  Shrinks(m, m)
BY DEF Shrinks, Serves

LEMMA ServesTwice ==
  ASSUME NEW l \in Memories, NEW m, NEW n, Serves(l, m), Serves(m, n)
  PROVE  Serves(l, n)
BY DEF Serves

LEMMA ShrinksTwice ==
  ASSUME NEW l \in Memories, NEW m, NEW n, Shrinks(l, m), Shrinks(m, n)
  PROVE  Shrinks(l, n)
<1>1. Serves(l, n)
  BY ServesTwice DEF Shrinks
<1>2. DOMAIN l.pool = 1 .. Len(l.pool) /\ DOMAIN m.pool = 1 .. Len(m.pool)
  BY MemoryFacts DEF Shrinks, Serves
<1> QED BY <1>1, <1>2 DEF Shrinks

(* A pool slot is emptied.                                                 *)
LEMMA VacateFacts ==
  ASSUME NEW m \in Memories, Apart(m), NEW i \in DOMAIN m.pool, NEW epoch \in Nat
  PROVE  LET n == Vacate(m, i, epoch)
         IN  /\ Shrinks(m, n) /\ n.pool[i].buffer = None /\ n.pool[i].made = m.pool[i].made
             /\ n.cache = m.cache /\ n.epoch = m.epoch
             /\ n.pool[i].name = m.pool[i].name /\ n.pool[i].epoch = epoch
             /\ \A k \in DOMAIN m.pool : k # i => n.pool[k] = m.pool[k]
             /\ \A x \in Buffers : x # m.pool[i].buffer => n.content[x] = m.content[x]
<1> DEFINE b == m.pool[i].buffer
           r == Release(m, b)
           n == Vacate(m, i, epoch)
           p == [m.pool[i] EXCEPT !.buffer = None, !.capacity = 0, !.epoch = epoch]
           pool == [m.pool EXCEPT ![i] = p]
           content == IF b = None THEN m.content ELSE [m.content EXCEPT ![b] = Nothing]
<1>1. /\ r.content = content /\ r.pool = m.pool /\ r.epoch = m.epoch /\ r.cache = m.cache
      /\ r.failed = m.failed
      /\ r = [content |-> content, pool |-> m.pool, epoch |-> m.epoch, cache |-> m.cache,
              failed |-> m.failed]
  <2>1. CASE b = None
    BY <2>1, MemoryFacts DEF Release
  <2>2. CASE b # None
    <3>1. r = [m EXCEPT !.content[b] = Nothing]
      BY <2>2, Zenon DEF Release
    <3>2. content = [m.content EXCEPT ![b] = Nothing]
      BY <2>2
    <3> HIDE DEF r, content, b
    <3>3. r = [content |-> content, pool |-> m.pool, epoch |-> m.epoch, cache |-> m.cache,
               failed |-> m.failed]
      BY <3>1, <3>2, MemoryFacts, Changed, ZenonT(60)
    <3> QED BY <3>3
  <2> QED BY <2>1, <2>2
<1> HIDE DEF r, content
<1>2. n = [content |-> content, pool |-> pool, epoch |-> m.epoch, cache |-> m.cache,
           failed |-> m.failed]
  <2>1. n = [r EXCEPT !.pool[i] = p]
    BY Zenon DEF Vacate, r
  <2> HIDE DEF n, p
  <2> QED BY <1>1, <2>1, Changed, Zenon
<1> HIDE DEF n
<1>3. /\ n.content = content /\ n.pool = pool /\ n.epoch = m.epoch /\ n.cache = m.cache
      /\ n.failed = m.failed
  BY <1>2
<1>4. /\ p \in PoolSlots /\ p.buffer = None /\ p.made = m.pool[i].made
      /\ p.name = m.pool[i].name /\ p.epoch = epoch
  <2>1. m.pool[i] \in PoolSlots
    BY MemoryFacts
  <2> QED BY <2>1 DEF PoolSlots
<1> HIDE DEF p
<1>5. /\ pool \in Seq(PoolSlots) /\ DOMAIN pool = DOMAIN m.pool /\ Len(pool) = Len(m.pool)
      /\ pool[i] = p /\ \A k \in DOMAIN m.pool : k # i => pool[k] = m.pool[k]
  BY <1>4, MemoryFacts
<1> HIDE DEF pool
<1>6. b \in Buffers \cup {None}
  BY MemoryFacts, PoolSlotFacts
<1>7. /\ content \in [Buffers -> Contents \cup {Nothing, Garbage}]
      /\ \A x \in Buffers : x # b => content[x] = m.content[x]
  BY <1>6, MemoryFacts, Constants DEF content
<1>8. n \in Memories
  BY <1>2, <1>5, <1>7, MemoryFacts DEF Memories
<1>9. Pooled(n) = Pooled(m) \ {b} /\ Cached(n) = Cached(m)
  <2>1. Cached(n) = Cached(m)
    BY <1>3 DEF Cached
  <2>2. \A x \in Pooled(n) : x \in Pooled(m) /\ x # b
    <3> TAKE x \in Pooled(n)
    <3>1. PICK k \in DOMAIN pool : pool[k].buffer = x /\ x # None
      BY <1>3 DEF Pooled
    <3>2. k # i /\ k \in DOMAIN m.pool /\ m.pool[k].buffer = x
      BY <1>4, <1>5, <3>1
    <3> QED BY <3>1, <3>2 DEF Pooled, Apart
  <2>3. \A x \in Pooled(m) : x # b => x \in Pooled(n)
    <3> TAKE x \in Pooled(m)
    <3>1. PICK k \in DOMAIN m.pool : m.pool[k].buffer = x /\ x # None
      BY DEF Pooled
    <3>2. x # b => pool[k].buffer = x /\ k \in DOMAIN pool
      BY <1>5, <3>1
    <3> QED BY <1>3, <3>1, <3>2 DEF Pooled
  <2> QED BY <2>1, <2>2, <2>3
<1>10. Apart(n)
  <2>1. \A x, y \in DOMAIN n.pool :
          n.pool[x].buffer = n.pool[y].buffer => x = y \/ n.pool[x].buffer = None
    BY <1>3, <1>4, <1>5 DEF Apart
  <2>2. \A x \in Pooled(n) \cup Cached(n) : n.content[x] # Nothing
    <3> TAKE x \in Pooled(n) \cup Cached(n)
    <3>1. x \in Pooled(m) \cup Cached(m) /\ m.content[x] # Nothing
      BY <1>9 DEF Apart
    <3>2. x # b
      <4>1. b # None => b \in Pooled(m)
        BY OwnedFacts
      <4> QED BY <1>9, <3>1, <4>1, OwnedFacts, Constants DEF Apart
    <3>3. x \in Buffers
      BY <3>1, OwnedFacts
    <3> QED BY <1>3, <1>7, <3>1, <3>2, <3>3
  <2> QED BY <1>3, <1>9, <2>1, <2>2 DEF Apart
<1>11. \A x, k : PinnedFor(m, x, k) => PinnedFor(n, x, k)
  BY <1>3 DEF PinnedFor
<1>12. \A x \in Buffers \ Owned(m) :
         m.content[x] # Nothing => x \notin Owned(n) /\ n.content[x] # Nothing
  <2> TAKE x \in Buffers \ Owned(m)
  <2>1. x # b
    BY OwnedFacts, Constants DEF Owned
  <2> QED BY <1>3, <1>7, <1>9, <2>1 DEF Owned
<1>13. Serves(m, n)
  BY <1>8, <1>10, <1>11, <1>12 DEF Serves
<1>14. /\ Len(n.pool) = Len(m.pool) /\ n.pool[i].buffer = None
       /\ n.pool[i].made = m.pool[i].made
       /\ \A k \in DOMAIN m.pool : m.pool[k].buffer = None => n.pool[k].buffer = None
  BY <1>3, <1>4, <1>5
<1>15. Shrinks(m, n)
  BY <1>9, <1>13, <1>14 DEF Shrinks
<1>16. /\ n.pool[i].name = m.pool[i].name /\ n.pool[i].epoch = epoch
       /\ \A k \in DOMAIN m.pool : k # i => n.pool[k] = m.pool[k]
       /\ \A x \in Buffers : x # b => n.content[x] = m.content[x]
  BY <1>3, <1>4, <1>5, <1>7
<1> QED BY <1>3, <1>14, <1>15, <1>16 DEF n

(* Chunks go, and their buffers with them.                                 *)
LEMMA FreeEntriesFacts ==
  ASSUME NEW m \in Memories, Apart(m), NEW B, B \subseteq Cached(m)
  PROVE  LET n == FreeEntries(m, B)
         IN  /\ n \in Memories /\ Apart(n)
             /\ n.pool = m.pool /\ n.epoch = m.epoch /\ n.failed = m.failed
             /\ Cached(n) = Cached(m) \ B
             /\ \A b \in Buffers \ B : n.content[b] = m.content[b]
             /\ \A b \in B : n.content[b] = Nothing
             /\ \A b, k : b \notin B /\ PinnedFor(m, b, k) => PinnedFor(n, b, k)
             /\ \A j \in DOMAIN m.cache :
                  m.cache[j].buffer \notin B => \E i \in DOMAIN n.cache : n.cache[i] = m.cache[j]
             /\ \A i \in DOMAIN n.cache : \E j \in DOMAIN m.cache : n.cache[i] = m.cache[j]
<1> DEFINE n == FreeEntries(m, B)
           r == ReleaseAll(m, B)
           content == [b \in Buffers |-> IF b \in B THEN Nothing ELSE m.content[b]]
           cache == Others(m.cache, B)
<1>1. n = [content |-> content, pool |-> m.pool, epoch |-> m.epoch, cache |-> cache,
           failed |-> m.failed]
  <2>1. r = [m EXCEPT !.content = content]
    BY Zenon DEF ReleaseAll
  <2>2. n = [r EXCEPT !.cache = cache]
    BY Zenon DEF FreeEntries, r
  <2> HIDE DEF n, r, content, cache
  <2>3. r = [content |-> content, pool |-> m.pool, epoch |-> m.epoch, cache |-> m.cache,
             failed |-> m.failed]
    BY <2>1, MemoryFacts, Changed, ZenonT(60)
  <2> QED BY <2>2, <2>3, Changed, Zenon
<1>2. LeftOf(cache, m.cache, B, Len(m.cache))
  BY MemoryFacts, OthersFacts DEF Apart
<1>3. /\ content \in [Buffers -> Contents \cup {Nothing, Garbage}]
      /\ \A b \in Buffers : content[b] = IF b \in B THEN Nothing ELSE m.content[b]
  BY MemoryFacts
<1> HIDE DEF n, content, cache
<1>4. /\ cache \in Seq(Chunks)
      /\ \A i \in DOMAIN cache : \E j \in DOMAIN m.cache :
           cache[i] = m.cache[j] /\ m.cache[j].buffer \notin B
      /\ \A j \in DOMAIN m.cache :
           m.cache[j].buffer \notin B => \E i \in DOMAIN cache : cache[i] = m.cache[j]
      /\ \A i, j \in DOMAIN cache : cache[i].buffer = cache[j].buffer => i = j
  BY <1>2, MemoryFacts DEF LeftOf
<1>5. n \in Memories
  BY <1>1, <1>3, <1>4, MemoryFacts DEF Memories
<1>6. /\ n.content = content /\ n.pool = m.pool /\ n.epoch = m.epoch /\ n.cache = cache
      /\ n.failed = m.failed
  BY <1>1
<1>7. Cached(n) = Cached(m) \ B /\ Pooled(n) = Pooled(m)
  <2>1. Pooled(n) = Pooled(m)
    BY <1>6 DEF Pooled
  <2>2. ASSUME NEW b \in Cached(n)
        PROVE  b \in Cached(m) \ B
    <3>1. PICK i \in DOMAIN cache : b = cache[i].buffer
      BY <1>6 DEF Cached
    <3>2. PICK j \in DOMAIN m.cache : cache[i] = m.cache[j] /\ m.cache[j].buffer \notin B
      BY <1>4
    <3> QED BY <3>1, <3>2 DEF Cached
  <2>3. ASSUME NEW b \in Cached(m), b \notin B
        PROVE  b \in Cached(n)
    <3>1. PICK j \in DOMAIN m.cache : b = m.cache[j].buffer
      BY DEF Cached
    <3>2. PICK i \in DOMAIN cache : cache[i] = m.cache[j]
      BY <1>4, <2>3, <3>1
    <3> QED BY <1>6, <3>1, <3>2 DEF Cached
  <2> QED BY <2>1, <2>2, <2>3
<1>8. /\ \A b \in Buffers \ B : n.content[b] = m.content[b]
      /\ \A b \in B : n.content[b] = Nothing
  BY <1>3, <1>6, OwnedFacts
<1>9. Apart(n)
  <2>1. \A b \in Pooled(n) \cup Cached(n) : b \notin B /\ b \in Buffers /\ m.content[b] # Nothing
    BY <1>7, OwnedFacts, Zenon DEF Apart
  <2>2. \A b \in Pooled(n) \cup Cached(n) : n.content[b] # Nothing
    BY <1>8, <2>1
  <2>3. Pooled(n) \cap Cached(n) = {}
    BY <1>7, Zenon DEF Apart
  <2>4. \A i, j \in DOMAIN n.cache : n.cache[i].buffer = n.cache[j].buffer => i = j
    BY <1>4, <1>6
  <2>5. \A i, j \in DOMAIN n.pool :
          n.pool[i].buffer = n.pool[j].buffer => i = j \/ n.pool[i].buffer = None
    BY <1>6 DEF Apart
  <2> QED BY <2>2, <2>3, <2>4, <2>5, Zenon DEF Apart
<1>10. ASSUME NEW b, NEW k, b \notin B, PinnedFor(m, b, k)
       PROVE  PinnedFor(n, b, k)
  <2>1. PICK j \in DOMAIN m.cache : m.cache[j].buffer = b /\ m.cache[j].pins >= k
    BY <1>10 DEF PinnedFor
  <2>2. PICK i \in DOMAIN cache : cache[i] = m.cache[j]
    BY <1>4, <1>10, <2>1
  <2>3. n.cache[i].buffer = b /\ n.cache[i].pins >= k /\ i \in DOMAIN n.cache
    BY <1>6, <2>1, <2>2, Zenon
  <2> QED BY <2>3, Zenon DEF PinnedFor
<1>11. /\ \A j \in DOMAIN m.cache :
             m.cache[j].buffer \notin B => \E i \in DOMAIN n.cache : n.cache[i] = m.cache[j]
       /\ \A i \in DOMAIN n.cache : \E j \in DOMAIN m.cache : n.cache[i] = m.cache[j]
  BY <1>4, <1>6
<1> QED BY <1>5, <1>6, <1>7, <1>8, <1>9, <1>10, <1>11, Zenon DEF n

(* Without a buffer that is pinned.                                        *)
LEMMA FreeUnpinned ==
  ASSUME NEW m \in Memories, Apart(m), NEW B, B \subseteq {m.cache[i].buffer : i \in Unpinned(m)}
  PROVE  Shrinks(m, FreeEntries(m, B))
<1> DEFINE n == FreeEntries(m, B)
<1>1. B \subseteq Cached(m)
  BY DEF Unpinned, Cached
<1>2. /\ n \in Memories /\ Apart(n)
      /\ n.pool = m.pool /\ Cached(n) = Cached(m) \ B
      /\ \A b \in Buffers \ B : n.content[b] = m.content[b]
      /\ \A b, k : b \notin B /\ PinnedFor(m, b, k) => PinnedFor(n, b, k)
  BY <1>1, FreeEntriesFacts, Zenon
<1> HIDE DEF n
<1>3. ASSUME NEW b, NEW k \in Nat \ {0}, PinnedFor(m, b, k)
      PROVE  b \notin B
  <2> SUFFICES ASSUME b \in B PROVE FALSE
    OBVIOUS
  <2>1. PICK i \in DOMAIN m.cache : m.cache[i].buffer = b /\ m.cache[i].pins = 0
    BY DEF Unpinned
  <2>2. PICK j \in DOMAIN m.cache : m.cache[j].buffer = b /\ m.cache[j].pins >= k
    BY <1>3 DEF PinnedFor
  <2>3. i = j
    BY <2>1, <2>2, Zenon DEF Apart
  <2>4. m.cache[j].pins = 0
    BY <2>1, <2>3
  <2> QED BY <2>2, <2>4
<1>4. Pooled(n) = Pooled(m)
  BY <1>2 DEF Pooled
<1>5. \A b \in Buffers \ Owned(m) :
        m.content[b] # Nothing => b \notin Owned(n) /\ n.content[b] # Nothing
  <2> TAKE b \in Buffers \ Owned(m)
  <2>1. b \notin B /\ b \notin Owned(n)
    BY <1>1, <1>2, <1>4, Zenon DEF Owned
  <2> QED BY <1>2, <2>1
<1>6. Serves(m, n)
  BY <1>2, <1>3, <1>5, Zenon DEF Serves
<1> QED BY <1>2, <1>4, <1>6 DEF Shrinks, n

LEMMA VictimUnpinned ==
  ASSUME NEW m \in Memories, Unpinned(m) # {}
  PROVE  Victim(m) \in Unpinned(m)
<1> DEFINE U == Unpinned(m)
           probation == {i \in U : m.cache[i].uses <= 1}
           l == Len(m.cache)
<1>1. U \subseteq 1 .. l /\ l \in Nat
  BY MemoryFacts DEF Unpinned
<1>2. Victim(m) = IF probation # {} THEN CHOOSE i \in probation : \A k \in probation : k <= i
                  ELSE CHOOSE i \in U : \A k \in U : i <= k
  BY Zenon DEF Victim
<1> HIDE DEF U, l
<1>3. CASE probation # {}
  <2>1. probation \subseteq 0 .. l
    <3>1. U \subseteq 0 .. l
      BY <1>1
    <3>2. probation \subseteq U
      OBVIOUS
    <3> QED BY <3>1, <3>2, Zenon
  <2> DEFINE p == probation
  <2>2. p \subseteq 0 .. l /\ p # {} /\ p \subseteq U
    BY <1>3, <2>1
  <2> HIDE DEF p
  <2>3. \E i \in p : \A k \in p : k <= i
    BY <1>1, <2>2, GreatestOf
  <2> QED BY <1>2, <1>3, <2>2, <2>3, Zenon DEF p, U
<1>4. CASE probation = {}
  <2>1. U \subseteq Nat /\ U # {}
    BY <1>1 DEF U
  <2>2. \E i \in U : \A k \in U : i <= k
    BY <2>1, LeastNat, Zenon
  <2> QED BY <1>2, <1>4, <2>2, Zenon DEF U
<1> QED BY <1>3, <1>4

LEMMA CacheEvictShrinks ==
  ASSUME NEW m \in Memories, Apart(m), Unpinned(m) # {}
  PROVE  Shrinks(m, CacheEvict(m))
<1>1. {m.cache[Victim(m)].buffer} \subseteq {m.cache[i].buffer : i \in Unpinned(m)}
  BY VictimUnpinned
<1> QED BY <1>1, FreeUnpinned DEF CacheEvict

LEMMA IdleFirst ==
  ASSUME NEW m \in Memories, Idle(m) # {}
  PROVE  \E p \in Idle(m) : PoolEvict(m) = Vacate(m, p, m.pool[p].epoch)
<1> DEFINE I == Idle(m)
           First(i) == \A k \in I : \/ m.pool[i].epoch < m.pool[k].epoch
                                    \/ m.pool[i].epoch = m.pool[k].epoch /\ i <= k
           p == CHOOSE i \in I : First(i)
<1>1. I \subseteq DOMAIN m.pool /\ I # {}
      /\ \A i \in I : m.pool[i].epoch \in Nat /\ i \in Nat
  BY MemoryFacts, PoolSlotFacts, SMTT(60) DEF Idle
<1>2. PoolEvict(m) = Vacate(m, p, m.pool[p].epoch)
  BY Zenon DEF PoolEvict
<1> HIDE DEF I
<1>3. \E i \in I : First(i)
  <2> DEFINE E == {m.pool[i].epoch : i \in I}
             e == Min(E)
             J == {i \in I : m.pool[i].epoch = e}
             i == Min(J)
  <2>1. E \subseteq Nat /\ E # {}
    BY <1>1
  <2> HIDE DEF E
  <2>2. e \in E /\ \A x \in E : e <= x
    BY <2>1, LeastNat, Zenon
  <2> HIDE DEF e
  <2>3. J \subseteq Nat /\ J # {}
    BY <1>1, <2>2 DEF E
  <2>4. i \in J /\ \A x \in J : i <= x
    <3> HIDE DEF J
    <3> QED BY <2>3, LeastNat, Zenon
  <2> HIDE DEF i
  <2>5. i \in I /\ m.pool[i].epoch = e /\ e \in Nat
    BY <1>1, <2>4
  <2>6. ASSUME NEW k \in I
        PROVE  \/ m.pool[i].epoch < m.pool[k].epoch
               \/ m.pool[i].epoch = m.pool[k].epoch /\ i <= k
    <3>1. m.pool[k].epoch \in Nat /\ e <= m.pool[k].epoch
      BY <1>1, <2>2 DEF E
    <3>2. CASE m.pool[k].epoch = e
      BY <2>4, <2>5, <3>2
    <3>3. CASE m.pool[k].epoch # e
      BY <2>5, <3>1, <3>3
    <3> QED BY <3>2, <3>3
  <2> QED BY <2>5, <2>6
<1>4. p \in I
  BY <1>3, Zenon
<1> HIDE DEF p
<1> QED BY <1>2, <1>4 DEF I

LEMMA PoolEvictShrinks ==
  ASSUME NEW m \in Memories, Apart(m), Idle(m) # {}
  PROVE  Shrinks(m, PoolEvict(m))
<1>1. PICK p \in Idle(m) : PoolEvict(m) = Vacate(m, p, m.pool[p].epoch)
  BY IdleFirst
<1>2. p \in DOMAIN m.pool /\ m.pool[p].epoch \in Nat
  BY MemoryFacts, PoolSlotFacts DEF Idle
<1> QED BY <1>1, <1>2, VacateFacts

LEMMA RoomShrinks ==
  ASSUME NEW m \in Memories, Apart(m)
  PROVE  Shrinks(m, Room(m))
<1>1. CASE Room(m) = m
  BY <1>1, ServesItself
<1>2. CASE Idle(m) # {} /\ Room(m) = PoolEvict(m)
  BY <1>2, PoolEvictShrinks
<1>3. CASE Unpinned(m) # {} /\ Room(m) = CacheEvict(m)
  BY <1>3, CacheEvictShrinks
<1> QED BY <1>1, <1>2, <1>3, Zenon DEF Room

(* What is still held when room has been made.                             *)
LEMMA RetainsTwice ==
  ASSUME NEW l \in Memories, NEW m, NEW n, NEW T, Serves(l, m), Retains(l, m, T), Retains(m, n, T)
  PROVE  Retains(l, n, T)
<1>1. n.epoch = l.epoch
  BY DEF Retains
<1>2. ASSUME NEW i \in DOMAIN l.pool
      PROVE  /\ i \in DOMAIN n.pool /\ n.pool[i].name = l.pool[i].name
             /\ l.pool[i].name \notin T => SlotStays(l, n, i)
  <2>1. /\ i \in DOMAIN m.pool /\ m.pool[i].name = l.pool[i].name
        /\ l.pool[i].name \notin T => SlotStays(l, m, i)
    BY <1>2, Zenon DEF Retains
  <2>2. /\ i \in DOMAIN n.pool /\ n.pool[i].name = l.pool[i].name
        /\ l.pool[i].name \notin T => SlotStays(m, n, i)
    BY <2>1, Zenon DEF Retains
  <2>3. m.epoch = l.epoch
    BY DEF Retains
  <2> QED BY <2>1, <2>2, <2>3 DEF SlotStays
<1>3. \A i \in DOMAIN n.pool : i \in DOMAIN l.pool \/ n.pool[i].name \in T
  BY Zenon DEF Retains
<1>4. ASSUME NEW k \in DOMAIN n.cache
      PROVE  EntryStays(l, n, n.cache[k]) \/ EntryNew(l, n.cache[k])
  <2> DEFINE e == n.cache[k]
  <2>1. EntryStays(m, n, e) \/ EntryNew(m, e)
    BY <1>4, Zenon DEF Retains
  <2> HIDE DEF e
  <2>2. \A b : PinnedFor(l, b, 1) => PinnedFor(m, b, 1)
    BY DEF Serves
  <2>3. CASE EntryStays(m, n, e)
    <3>1. PICK j \in DOMAIN m.cache :
            SameChunk(e, m.cache[j]) /\ n.content[e.buffer] = m.content[e.buffer]
      BY <2>3 DEF EntryStays
    <3>2. EntryStays(l, m, m.cache[j]) \/ EntryNew(l, m.cache[j])
      BY Zenon DEF Retains
    <3> QED BY <3>1, <3>2 DEF EntryStays, EntryNew, SameChunk, e
  <2>4. CASE EntryNew(m, e)
    BY <2>2, <2>4 DEF EntryNew, e
  <2> QED BY <2>1, <2>3, <2>4
<1>5. \A b \in Buffers \ Owned(l) : l.content[b] # Nothing => n.content[b] = l.content[b]
  BY Zenon DEF Retains, Serves
<1> QED BY <1>1, <1>2, <1>3, <1>4, <1>5, Zenon DEF Retains

(* An operation on one name keeps what those on none keep.                  *)
LEMMA RetainsMore ==
  ASSUME NEW m, NEW n, NEW T, Retains(m, n, {})
  PROVE  Retains(m, n, T)
BY Zenon DEF Retains

LEMMA SameRetained ==
  ASSUME NEW m \in Memories, NEW n, n.content = m.content, n.pool = m.pool, n.epoch = m.epoch,
         n.cache = m.cache
  PROVE  Retains(m, n, {})
BY DEF Retains, SlotStays, EntryStays, SameChunk

LEMMA VacateRetains ==
  ASSUME NEW m \in Memories, Apart(m), NEW i \in DOMAIN m.pool, NEW epoch \in Nat, NEW T,
         m.pool[i].name \in T \/ (m.pool[i].epoch < m.epoch /\ epoch = m.pool[i].epoch)
  PROVE  Retains(m, Vacate(m, i, epoch), T)
<1> DEFINE n == Vacate(m, i, epoch)
           b == m.pool[i].buffer
<1>1. /\ Shrinks(m, n) /\ n.pool[i].buffer = None /\ n.pool[i].made = m.pool[i].made
      /\ n.cache = m.cache /\ n.epoch = m.epoch /\ n.pool[i].name = m.pool[i].name
      /\ n.pool[i].epoch = epoch
      /\ \A k \in DOMAIN m.pool : k # i => n.pool[k] = m.pool[k]
      /\ \A x \in Buffers : x # b => n.content[x] = m.content[x]
  BY VacateFacts
<1> HIDE DEF n
<1>2. DOMAIN n.pool = DOMAIN m.pool
  <2>1. n \in Memories /\ Len(n.pool) = Len(m.pool)
    BY <1>1, Zenon DEF Shrinks, Serves
  <2> QED BY <2>1, MemoryFacts
<1>3. b = None \/ b \in Pooled(m)
  BY OwnedFacts
<1>4. ASSUME NEW k \in DOMAIN m.pool
      PROVE  n.pool[k].name = m.pool[k].name /\ (m.pool[k].name \notin T => SlotStays(m, n, k))
  <2>1. CASE k = i
    <3>1. m.pool[k].name \notin T => m.pool[i].epoch # m.epoch
      <4>1. m.pool[i].epoch \in Nat /\ m.epoch \in Nat
        BY MemoryFacts, PoolSlotFacts
      <4> QED BY <2>1, <4>1
    <3> QED BY <1>1, <2>1, <3>1 DEF SlotStays
  <2>2. CASE k # i
    <3> DEFINE x == m.pool[k].buffer
    <3>1. n.pool[k] = m.pool[k]
      BY <1>1, <2>2
    <3>2. x # None => x # b /\ x \in Buffers
      BY <2>2, OwnedFacts DEF Apart
    <3> QED BY <1>1, <3>1, <3>2 DEF SlotStays
  <2> QED BY <2>1, <2>2
<1>5. ASSUME NEW k \in DOMAIN n.cache
      PROVE  EntryStays(m, n, n.cache[k])
  <2> DEFINE e == m.cache[k]
  <2>1. k \in DOMAIN m.cache /\ n.cache[k] = e /\ e.buffer \in Cached(m) /\ e.buffer \in Buffers
    BY <1>1, OwnedFacts
  <2>2. e.buffer # b
    BY <1>3, <2>1, Constants DEF Apart
  <2>3. n.content[e.buffer] = m.content[e.buffer]
    BY <1>1, <2>1, <2>2
  <2> QED BY <2>1, <2>3 DEF EntryStays, SameChunk
<1>6. \A x \in Buffers \ Owned(m) : n.content[x] = m.content[x]
  BY <1>1, <1>3, Constants DEF Owned
<1>7. Retains(m, n, T)
  BY <1>1, <1>2, <1>4, <1>5, <1>6, Zenon DEF Retains
<1> QED BY <1>7 DEF n

LEMMA FreeRetains ==
  ASSUME NEW m \in Memories, Apart(m), NEW B, B \subseteq Cached(m)
  PROVE  Retains(m, FreeEntries(m, B), {})
<1> DEFINE n == FreeEntries(m, B)
<1>1. /\ n \in Memories /\ Apart(n)
      /\ n.pool = m.pool /\ n.epoch = m.epoch /\ Cached(n) = Cached(m) \ B
      /\ \A b \in Buffers \ B : n.content[b] = m.content[b]
      /\ \A i \in DOMAIN n.cache : \E j \in DOMAIN m.cache : n.cache[i] = m.cache[j]
  BY FreeEntriesFacts
<1> HIDE DEF n
<1>2. \A i \in DOMAIN m.pool : SlotStays(m, n, i)
  <2> TAKE i \in DOMAIN m.pool
  <2>1. m.pool[i].buffer # None => m.pool[i].buffer \in Buffers \ B
    BY OwnedFacts DEF Apart
  <2> QED BY <1>1, <2>1 DEF SlotStays
<1>3. \A k \in DOMAIN n.cache : EntryStays(m, n, n.cache[k])
  <2> TAKE k \in DOMAIN n.cache
  <2>1. PICK j \in DOMAIN m.cache : n.cache[k] = m.cache[j]
    BY <1>1
  <2>2. n.cache[k].buffer \in Buffers \ B
    BY <1>1, OwnedFacts
  <2> QED BY <1>1, <2>1, <2>2 DEF EntryStays, SameChunk
<1>4. \A b \in Buffers \ Owned(m) : n.content[b] = m.content[b]
  BY <1>1 DEF Owned
<1>5. Retains(m, n, {})
  BY <1>1, <1>2, <1>3, <1>4, Zenon DEF Retains
<1> QED BY <1>5 DEF n

LEMMA CacheEvictRetains ==
  ASSUME NEW m \in Memories, Apart(m), Unpinned(m) # {}
  PROVE  Retains(m, CacheEvict(m), {})
<1>1. Victim(m) \in DOMAIN m.cache
  BY VictimUnpinned DEF Unpinned
<1>2. {m.cache[Victim(m)].buffer} \subseteq Cached(m)
  BY <1>1, OwnedFacts
<1> QED BY <1>2, FreeRetains DEF CacheEvict

LEMMA PoolEvictRetains ==
  ASSUME NEW m \in Memories, Apart(m), Idle(m) # {}
  PROVE  Retains(m, PoolEvict(m), {})
<1>1. PICK p \in Idle(m) : PoolEvict(m) = Vacate(m, p, m.pool[p].epoch)
  BY IdleFirst
<1>2. p \in DOMAIN m.pool /\ m.pool[p].epoch < m.epoch /\ m.pool[p].epoch \in Nat
  BY MemoryFacts, PoolSlotFacts DEF Idle
<1> QED BY <1>1, <1>2, VacateRetains

LEMMA RoomRetains ==
  ASSUME NEW m \in Memories, Apart(m)
  PROVE  Retains(m, Room(m), {})
<1>1. CASE Room(m) = m
  BY <1>1, SameRetained
<1>2. CASE Idle(m) # {} /\ Room(m) = PoolEvict(m)
  BY <1>2, PoolEvictRetains
<1>3. CASE Unpinned(m) # {} /\ Room(m) = CacheEvict(m)
  BY <1>3, CacheEvictRetains
<1> QED BY <1>1, <1>2, <1>3, Zenon DEF Room

LEMMA NamesKept ==
  ASSUME NEW m, NEW n, NEW T, Retains(m, n, T), NamesInv(m),
         \A i \in DOMAIN n.pool : i \in DOMAIN m.pool
  PROVE  NamesInv(n)
BY DEF NamesInv, Retains

-------------------------------------------------------------------------------
(* Allocation                                                              *)

LEMMA SameServes ==
  ASSUME NEW m \in Memories, Apart(m), NEW n \in Memories,
         n.content = m.content, n.cache = m.cache, n.pool = m.pool
  PROVE  Shrinks(m, n)
<1>1. Pooled(n) = Pooled(m) /\ Cached(n) = Cached(m)
  BY DEF Pooled, Cached
<1>2. Apart(n)
  BY <1>1, Zenon DEF Apart
<1>3. \A b, k : PinnedFor(m, b, k) => PinnedFor(n, b, k)
  BY Zenon DEF PinnedFor
<1>4. Serves(m, n)
  BY <1>1, <1>2, <1>3, Zenon DEF Serves, Owned
<1> QED BY <1>1, <1>4, Zenon DEF Shrinks

LEMMA FailedServes ==
  ASSUME NEW m \in Memories, Apart(m), NEW f \in BOOLEAN
  PROVE  Shrinks(m, [m EXCEPT !.failed = f])
<1> DEFINE n == [m EXCEPT !.failed = f]
<1>1. n = [content |-> m.content, pool |-> m.pool, epoch |-> m.epoch, cache |-> m.cache,
           failed |-> f]
  BY MemoryFacts
<1> HIDE DEF n
<1>2. n \in Memories
  BY <1>1, MemoryFacts DEF Memories
<1>3. n.content = m.content /\ n.cache = m.cache /\ n.pool = m.pool
  BY <1>1
<1>4. Shrinks(m, n)
  BY <1>2, <1>3, SameServes
<1> QED BY <1>4 DEF n

LEMMA FillServes ==
  ASSUME NEW m \in Memories, Apart(m), NEW b \in Buffers, NEW data \in Contents \cup {Garbage}
  PROVE  LET n == Fill(m, b, data)
         IN  /\ Shrinks(m, n) /\ Owned(n) = Owned(m) /\ n.content[b] # Nothing
             /\ n.pool = m.pool /\ n.cache = m.cache /\ n.epoch = m.epoch
             /\ n.content[b] = data
             /\ \A x \in Buffers : x # b => n.content[x] = m.content[x]
<1> DEFINE n == Fill(m, b, data)
           content == [m.content EXCEPT ![b] = data]
<1>1. n = [content |-> content, pool |-> m.pool, epoch |-> m.epoch, cache |-> m.cache,
           failed |-> m.failed]
  <2>1. n = [m EXCEPT !.content[b] = data]
    BY DEF Fill
  <2> HIDE DEF n
  <2>2. m = [content |-> m.content, pool |-> m.pool, epoch |-> m.epoch, cache |-> m.cache,
             failed |-> m.failed]
    BY MemoryFacts
  <2> QED BY <2>1, <2>2, Changed, Zenon
<1> HIDE DEF n
<1>2. /\ content \in [Buffers -> Contents \cup {Nothing, Garbage}]
      /\ content[b] = data /\ \A x \in Buffers : x # b => content[x] = m.content[x]
  BY MemoryFacts
<1> HIDE DEF content
<1>3. n \in Memories
  BY <1>1, <1>2, MemoryFacts DEF Memories
<1>4. n.content = content /\ n.pool = m.pool /\ n.cache = m.cache /\ n.epoch = m.epoch
  BY <1>1
<1>5. Pooled(n) = Pooled(m) /\ Cached(n) = Cached(m)
  BY <1>4 DEF Pooled, Cached
<1>6. data # Nothing
  BY Constants
<1>7. \A x \in Buffers : m.content[x] # Nothing => n.content[x] # Nothing
  BY <1>2, <1>4, <1>6
<1>8. Apart(n)
  <2>1. \A x \in Pooled(n) \cup Cached(n) : n.content[x] # Nothing
    BY <1>5, <1>7, OwnedFacts DEF Apart
  <2> QED BY <1>4, <1>5, <2>1, Zenon DEF Apart
<1>9. \A x, k : PinnedFor(m, x, k) => PinnedFor(n, x, k)
  BY <1>4, Zenon DEF PinnedFor
<1>10. Serves(m, n)
  BY <1>3, <1>5, <1>7, <1>8, <1>9, Zenon DEF Serves, Owned
<1>11. Shrinks(m, n)
  BY <1>4, <1>5, <1>10, Zenon DEF Shrinks
<1> QED BY <1>2, <1>4, <1>5, <1>6, <1>11, Zenon DEF n, Owned

(* A buffer that was taken is nobody else's.                               *)
Grants(m, a) ==
  /\ Shrinks(m, a.m) /\ a.buffer \in Buffers \cup {None}
  /\ a.buffer # None =>
       /\ a.buffer \notin Owned(a.m) /\ a.m.content[a.buffer] # Nothing
       /\ \A b \in Buffers \ Owned(m) : m.content[b] # Nothing => b # a.buffer

LEMMA NoneGranted ==
  ASSUME NEW m \in Memories, Apart(m)
  PROVE  Grants(m, Taken(m, None))
<1> DEFINE n == [m EXCEPT !.failed = TRUE]
<1>1. Taken(m, None) = [m |-> n, buffer |-> None]
  BY DEF Taken
<1>2. Shrinks(m, n)
  BY FailedServes
<1> HIDE DEF n
<1> QED BY <1>1, <1>2 DEF Grants

LEMMA FreeBufferFacts ==
  ASSUME NEW m
  PROVE  \/ FreeBuffer(m) = None
         \/ FreeBuffer(m) \in Buffers /\ m.content[FreeBuffer(m)] = Nothing
<1> DEFINE free == {b \in Buffers : m.content[b] = Nothing}
<1>1. FreeBuffer(m) = IF free = {} THEN None ELSE Min(free)
  BY DEF FreeBuffer
<1>2. free # {} => Min(free) \in free
  <2>1. free \subseteq Nat
    BY Constants
  <2> HIDE DEF free
  <2> QED BY <2>1, LeastNat, Zenon
<1> QED BY <1>1, <1>2

LEMMA TakenGrants ==
  ASSUME NEW m \in Memories, Apart(m)
  PROVE  Grants(m, TakenFrom(m))
<1> DEFINE b == FreeBuffer(m)
           n == Fill(m, b, Garbage)
<1>1. CASE b = None
  BY <1>1, NoneGranted DEF TakenFrom
<1>2. CASE b # None
  <2>1. b \in Buffers /\ m.content[b] = Nothing
    BY <1>2, FreeBufferFacts
  <2>2. TakenFrom(m) = [m |-> n, buffer |-> b]
    BY <1>2 DEF TakenFrom, Taken
  <2> HIDE DEF b
  <2>3. Shrinks(m, n) /\ Owned(n) = Owned(m) /\ n.content[b] # Nothing
    <3>1. Garbage \in Contents \cup {Garbage}
      OBVIOUS
    <3> QED BY <2>1, <3>1, FillServes
  <2> HIDE DEF n
  <2>4. b \notin Owned(m)
    BY <2>1, Zenon DEF Apart, Owned
  <2> QED BY <2>1, <2>2, <2>3, <2>4 DEF Grants
<1> QED BY <1>1, <1>2

LEMMA AllocGrants ==
  ASSUME NEW m \in Memories, Apart(m), NEW refused \in BOOLEAN
  PROVE  Grants(m, Alloc(m, refused))
<1>1. CASE refused
  BY <1>1, NoneGranted DEF Alloc
<1>2. CASE ~refused
  <2> DEFINE n == Room(m)
             a == TakenFrom(n)
  <2>1. Shrinks(m, n)
    BY RoomShrinks
  <2> HIDE DEF n
  <2>2. n \in Memories /\ Apart(n)
    BY <2>1 DEF Shrinks, Serves
  <2>3. Grants(n, a)
    BY <2>2, TakenGrants
  <2>4. Alloc(m, refused) = a
    BY <1>2 DEF Alloc, n
  <2> HIDE DEF a
  <2>5. Shrinks(m, a.m)
    BY <2>1, <2>3, ShrinksTwice DEF Grants
  <2>6. \A b \in Buffers \ Owned(m) :
          m.content[b] # Nothing => b \in Buffers \ Owned(n) /\ n.content[b] # Nothing
    BY <2>1, Zenon DEF Shrinks, Serves
  <2>7. Grants(m, a)
    BY <2>3, <2>5, <2>6, Zenon DEF Grants
  <2> QED BY <2>4, <2>7
<1> QED BY <1>1, <1>2

(* A buffer that nobody owns can be written.                                *)
LEMMA FillRetains ==
  ASSUME NEW m \in Memories, Apart(m), NEW b \in Buffers, m.content[b] = Nothing,
         NEW data \in Contents \cup {Garbage}
  PROVE  Retains(m, Fill(m, b, data), {})
<1> DEFINE n == Fill(m, b, data)
<1>1. /\ n.pool = m.pool /\ n.cache = m.cache /\ n.epoch = m.epoch
      /\ \A x \in Buffers : x # b => n.content[x] = m.content[x]
  BY FillServes, SMTT(60)
<1> HIDE DEF n
<1>2. b \notin Owned(m)
  BY DEF Apart, Owned
<1>3. \A i \in DOMAIN m.pool : SlotStays(m, n, i)
  <2> TAKE i \in DOMAIN m.pool
  <2>1. m.pool[i].buffer # None => m.pool[i].buffer \in Buffers /\ m.pool[i].buffer # b
    BY <1>2, OwnedFacts DEF Owned
  <2> QED BY <1>1, <2>1 DEF SlotStays
<1>4. \A k \in DOMAIN n.cache : EntryStays(m, n, n.cache[k])
  <2> TAKE k \in DOMAIN n.cache
  <2>1. m.cache[k].buffer \in Buffers /\ m.cache[k].buffer # b
    BY <1>1, <1>2, OwnedFacts DEF Owned
  <2> QED BY <1>1, <2>1 DEF EntryStays, SameChunk
<1>5. Retains(m, n, {})
  BY <1>1, <1>3, <1>4, Zenon DEF Retains
<1> QED BY <1>5 DEF n

LEMMA TakenRetains ==
  ASSUME NEW m \in Memories, Apart(m), NEW b \in Buffers \cup {None},
         b # None => m.content[b] = Nothing
  PROVE  Retains(m, Taken(m, b).m, {})
<1>1. CASE b = None
  <2>1. Taken(m, b).m = [m EXCEPT !.failed = TRUE]
    BY <1>1 DEF Taken
  <2>2. Taken(m, b).m = [content |-> m.content, pool |-> m.pool, epoch |-> m.epoch,
                         cache |-> m.cache, failed |-> TRUE]
    BY <2>1, MemoryFacts
  <2> QED BY <2>2, SameRetained
<1>2. CASE b # None
  <2>1. Taken(m, b).m = Fill(m, b, Garbage)
    BY <1>2 DEF Taken
  <2> QED BY <1>2, <2>1, FillRetains
<1> QED BY <1>1, <1>2

LEMMA AllocRetains ==
  ASSUME NEW m \in Memories, Apart(m), NEW refused \in BOOLEAN
  PROVE  Retains(m, Alloc(m, refused).m, {})
<1>1. CASE refused
  BY <1>1, TakenRetains DEF Alloc
<1>2. CASE ~refused
  <2> DEFINE n == Room(m)
  <2>1. Serves(m, n) /\ n \in Memories /\ Apart(n) /\ Retains(m, n, {})
    BY RoomShrinks, RoomRetains DEF Shrinks, Serves
  <2> HIDE DEF n
  <2>2. Retains(n, Taken(n, FreeBuffer(n)).m, {})
    BY <2>1, FreeBufferFacts, TakenRetains
  <2>3. Alloc(m, refused).m = Taken(n, FreeBuffer(n)).m
    BY <1>2 DEF Alloc, TakenFrom, n
  <2> QED BY <2>1, <2>2, <2>3, RetainsTwice
<1> QED BY <1>1, <1>2

-------------------------------------------------------------------------------
(* The pool                                                                *)

(* Slots that change nothing but what is remembered about a buffer, and new *)
(* ones without a buffer.                                                  *)
LEMMA Repooled ==
  ASSUME NEW m \in Memories, Apart(m), NEW pool \in Seq(PoolSlots),
         \A i \in DOMAIN pool :
           \/ pool[i].buffer = None
           \/ i \in DOMAIN m.pool /\ pool[i].buffer = m.pool[i].buffer
  PROVE  LET n == [m EXCEPT !.pool = pool]
         IN  /\ Serves(m, n) /\ n.pool = pool
             /\ n.content = m.content /\ n.epoch = m.epoch /\ n.cache = m.cache
<1> DEFINE n == [m EXCEPT !.pool = pool]
<1>1. n = [content |-> m.content, pool |-> pool, epoch |-> m.epoch, cache |-> m.cache,
           failed |-> m.failed]
  BY MemoryFacts
<1> HIDE DEF n
<1>2. n \in Memories
  BY <1>1, MemoryFacts DEF Memories
<1>3. n.content = m.content /\ n.pool = pool /\ n.cache = m.cache /\ n.epoch = m.epoch
  BY <1>1
<1>4. Pooled(n) \subseteq Pooled(m) /\ Cached(n) = Cached(m)
  BY <1>3 DEF Pooled, Cached
<1>5. Apart(n)
  <2>1. \A i, j \in DOMAIN pool : pool[i].buffer = pool[j].buffer => i = j \/ pool[i].buffer = None
    BY Zenon DEF Apart
  <2> QED BY <1>3, <1>4, <2>1 DEF Apart
<1>6. \A x, k : PinnedFor(m, x, k) => PinnedFor(n, x, k)
  BY <1>3, Zenon DEF PinnedFor
<1>7. Serves(m, n)
  BY <1>2, <1>3, <1>4, <1>5, <1>6, Zenon DEF Serves, Owned
<1> QED BY <1>3, <1>7 DEF n

(* A buffer that was taken goes into an empty slot.                        *)
LEMMA PlacedServes ==
  ASSUME NEW m \in Memories, Apart(m), NEW a, Grants(m, a), a.buffer # None,
         NEW i \in DOMAIN a.m.pool, a.m.pool[i].buffer = None, NEW size \in Nat
  PROVE  LET n == Placed(a, i, size).m
         IN  /\ Serves(m, n) /\ Placed(a, i, size).buffer = a.buffer
             /\ n.content = a.m.content /\ n.epoch = a.m.epoch /\ n.cache = a.m.cache
             /\ DOMAIN n.pool = DOMAIN a.m.pool
             /\ \A k \in DOMAIN a.m.pool : k # i => n.pool[k] = a.m.pool[k]
             /\ n.pool[i] = [name |-> a.m.pool[i].name, buffer |-> a.buffer, capacity |-> size,
                             epoch |-> a.m.pool[i].epoch, made |-> a.m.pool[i].made + 1]
<1> DEFINE l == a.m
           b == a.buffer
           p == [l.pool[i] EXCEPT !.buffer = b, !.capacity = size, !.made = @ + 1]
           pool == [l.pool EXCEPT ![i] = p]
           n == Placed(a, i, size).m
<1>1. l \in Memories /\ Apart(l) /\ Serves(m, l) /\ b \in Buffers /\ b \notin Owned(l)
      /\ l.content[b] # Nothing
  BY Zenon DEF Grants, Shrinks, Serves
<1>2. Placed(a, i, size) = [m |-> [l EXCEPT !.pool[i] = p], buffer |-> b]
  BY DEF Placed
<1>3. /\ p \in PoolSlots /\ p.buffer = b
      /\ p = [name |-> l.pool[i].name, buffer |-> b, capacity |-> size,
              epoch |-> l.pool[i].epoch, made |-> l.pool[i].made + 1]
  <2>1. l.pool[i] \in PoolSlots
    BY <1>1, MemoryFacts
  <2> DEFINE s == l.pool[i]
  <2>2. p = [s EXCEPT !.buffer = b, !.capacity = size, !.made = s.made + 1]
    OBVIOUS
  <2> HIDE DEF p, s, b, l
  <2>3. /\ s.name \in PoolNames /\ s.epoch \in Nat /\ s.made \in Nat
        /\ s = [name |-> s.name, buffer |-> s.buffer, capacity |-> s.capacity,
                epoch |-> s.epoch, made |-> s.made]
    BY <2>1, PoolSlotFacts DEF s
  <2>4. p = [name |-> s.name, buffer |-> b, capacity |-> size, epoch |-> s.epoch,
             made |-> s.made + 1]
    BY <2>2, <2>3
  <2> QED BY <1>1, <2>3, <2>4 DEF PoolSlots, s
<1> HIDE DEF p
<1>4. n = [content |-> l.content, pool |-> pool, epoch |-> l.epoch, cache |-> l.cache,
           failed |-> l.failed]
  <2>1. n = [l EXCEPT !.pool[i] = p]
    BY <1>2
  <2>2. l = [content |-> l.content, pool |-> l.pool, epoch |-> l.epoch, cache |-> l.cache,
             failed |-> l.failed]
    BY <1>1, MemoryFacts, Zenon
  <2> HIDE DEF n, l
  <2> QED BY <2>1, <2>2, Changed, Zenon
<1> HIDE DEF n, l
<1>5. /\ pool \in Seq(PoolSlots) /\ pool[i] = p /\ DOMAIN pool = DOMAIN l.pool
      /\ \A k \in DOMAIN l.pool : k # i => pool[k] = l.pool[k]
  BY <1>1, <1>3, MemoryFacts DEF l
<1> HIDE DEF pool
<1>6. n \in Memories
  BY <1>1, <1>4, <1>5, MemoryFacts DEF Memories
<1>7. n.content = l.content /\ n.pool = pool /\ n.cache = l.cache /\ n.epoch = l.epoch
  BY <1>4
<1>8. Cached(n) = Cached(l) /\ Pooled(n) \subseteq Pooled(l) \cup {b}
  <2>1. ASSUME NEW x \in Pooled(n), x # b
        PROVE  x \in Pooled(l)
    <3>1. PICK k \in DOMAIN pool : pool[k].buffer = x /\ x # None
      BY <1>7 DEF Pooled
    <3>2. k # i /\ l.pool[k].buffer = x /\ k \in DOMAIN l.pool
      BY <1>3, <1>5, <2>1, <3>1
    <3> QED BY <3>1, <3>2 DEF Pooled
  <2>2. Cached(n) = Cached(l)
    BY <1>7 DEF Cached
  <2> QED BY <2>1, <2>2
<1>9. Apart(n)
  <2>1. ASSUME NEW j \in DOMAIN pool, NEW k \in DOMAIN pool, pool[j].buffer = pool[k].buffer, j # k
        PROVE  pool[j].buffer = None
    <3>1. \A x \in DOMAIN l.pool : x # i => pool[x].buffer # b
      <4> TAKE x \in DOMAIN l.pool
      <4>1. b # None => b \notin Pooled(l)
        BY <1>1 DEF Owned
      <4>2. b # None
        BY <1>1, Constants
      <4> QED BY <1>5, <4>1, <4>2 DEF Pooled
    <3>2. j # i /\ k # i
      BY <1>3, <1>5, <2>1, <3>1, Zenon
    <3> QED BY <1>1, <1>5, <2>1, <3>2, Zenon DEF Apart
  <2>2. Pooled(n) \cap Cached(n) = {}
    BY <1>1, <1>8, Zenon DEF Apart, Owned
  <2>3. \A x \in Pooled(n) \cup Cached(n) : n.content[x] # Nothing
    BY <1>1, <1>7, <1>8, Zenon DEF Apart
  <2>4. \A j, k \in DOMAIN n.cache : n.cache[j].buffer = n.cache[k].buffer => j = k
    BY <1>1, <1>7, Zenon DEF Apart
  <2> QED BY <1>7, <2>1, <2>2, <2>3, <2>4, Zenon DEF Apart
<1>10. \A x, k : PinnedFor(l, x, k) => PinnedFor(n, x, k)
  BY <1>7, Zenon DEF PinnedFor
<1>11. \A x \in Buffers \ Owned(m) :
         m.content[x] # Nothing => x \notin Owned(n) /\ n.content[x] # Nothing
  <2> TAKE x \in Buffers \ Owned(m)
  <2>1. m.content[x] # Nothing => x \notin Owned(l) /\ l.content[x] # Nothing /\ x # b
    BY <1>1, Zenon DEF Grants, Serves
  <2> QED BY <1>7, <1>8, <2>1 DEF Owned
<1>12. Serves(m, n)
  BY <1>1, <1>6, <1>9, <1>10, <1>11, Zenon DEF Serves
<1>13. /\ Placed(a, i, size).buffer = b
       /\ n.content = l.content /\ n.epoch = l.epoch /\ n.cache = l.cache
       /\ DOMAIN n.pool = DOMAIN l.pool /\ n.pool[i] = p
       /\ \A k \in DOMAIN l.pool : k # i => n.pool[k] = l.pool[k]
  BY <1>2, <1>5, <1>7
<1> QED BY <1>3, <1>12, <1>13 DEF n, l, b

LEMMA PutServes ==
  ASSUME NEW m \in Memories, Apart(m), NEW a, Serves(m, a.m), a.buffer \in Buffers \cup {None},
         NEW data \in Contents \cup {None}
  PROVE  Serves(m, Put(a, data).m) /\ Put(a, data).buffer = a.buffer
<1>1. CASE data = None \/ a.buffer = None
  BY <1>1 DEF Put
<1>2. CASE data # None /\ a.buffer # None
  <2> DEFINE l == a.m
             b == a.buffer
             n == Fill(l, b, data)
  <2>1. Put(a, data) = [m |-> n, buffer |-> b]
    BY <1>2 DEF Put
  <2>2. l \in Memories /\ Apart(l) /\ b \in Buffers /\ data \in Contents
    BY <1>2 DEF Serves
  <2> HIDE DEF l, b
  <2>3. Serves(l, n)
    BY <2>2, FillServes DEF Shrinks
  <2>4. Serves(m, n)
    BY <2>3, ServesTwice DEF l
  <2> HIDE DEF n
  <2> QED BY <2>1, <2>4 DEF b
<1> QED BY <1>1, <1>2

LEMMA SlotFacts ==
  ASSUME NEW m \in Memories, NEW name
  PROVE  /\ Slot(m, name) # 0 => /\ Slot(m, name) \in DOMAIN m.pool
                                  /\ m.pool[Slot(m, name)].name = name
         /\ Slot(m, name) = 0 => \A i \in DOMAIN m.pool : m.pool[i].name # name
<1> DEFINE I == {i \in 1 .. Len(m.pool) : m.pool[i].name = name}
<1>1. Slot(m, name) = IF I # {} THEN Min(I) ELSE 0
  BY DEF Slot, SelectInSeq
<1>2. I # {} => Min(I) \in I
  <2>1. I \subseteq Nat
    OBVIOUS
  <2> HIDE DEF I
  <2> QED BY <2>1, LeastNat, Zenon
<1>3. DOMAIN m.pool = 1 .. Len(m.pool) /\ Len(m.pool) \in Nat
  BY MemoryFacts
<1> DEFINE i == Min(I)
<1>4. CASE I # {}
  <2>1. i \in 1 .. Len(m.pool) /\ m.pool[i].name = name
    BY <1>2, <1>4
  <2>2. Slot(m, name) = i
    BY <1>1, <1>4
  <2> HIDE DEF i
  <2> QED BY <1>3, <2>1, <2>2
<1>5. CASE I = {}
  BY <1>1, <1>3, <1>5
<1> QED BY <1>4, <1>5

LEMMA PoolRetains ==
  ASSUME NEW m \in Memories, NEW n, NEW T,
         n.content = m.content, n.epoch = m.epoch, n.cache = m.cache,
         \A i \in DOMAIN m.pool : /\ i \in DOMAIN n.pool /\ n.pool[i].name = m.pool[i].name
                                  /\ m.pool[i].name \notin T => n.pool[i] = m.pool[i],
         \A i \in DOMAIN n.pool : i \in DOMAIN m.pool \/ n.pool[i].name \in T
  PROVE  Retains(m, n, T)
<1>1. \A i \in DOMAIN m.pool : m.pool[i].name \notin T => SlotStays(m, n, i)
  BY DEF SlotStays
<1>2. \A k \in DOMAIN n.cache : EntryStays(m, n, n.cache[k])
  BY DEF EntryStays, SameChunk
<1> QED BY <1>1, <1>2, Zenon DEF Retains

(* The slot of a name is new, or has lost its buffer.                       *)
LEMMA EmptiedFacts ==
  ASSUME NEW m \in Memories, Apart(m), NEW name \in PoolNames
  PROVE  LET i == Slot(m, name)
             n == Emptied(m, i, name)
             k == IF i = 0 THEN Len(m.pool) + 1 ELSE i
         IN  /\ Serves(m, n) /\ k \in DOMAIN n.pool /\ n.pool[k].buffer = None
             /\ Retains(m, n, {name}) /\ (NamesInv(m) => NamesInv(n))
             /\ n.pool[k].name = name /\ n.pool[k].epoch = m.epoch
             /\ i # 0 => n.pool[k].made = m.pool[i].made
<1> DEFINE i == Slot(m, name)
<1>0. (i # 0 => i \in DOMAIN m.pool /\ m.pool[i].name = name)
      /\ (i = 0 => \A j \in DOMAIN m.pool : m.pool[j].name # name)
  BY SlotFacts
<1> HIDE DEF i
<1>1. m.epoch \in Nat
  BY MemoryFacts
<1>2. CASE i = 0
  <2> DEFINE l == Len(m.pool)
             p == [name |-> name, buffer |-> None, capacity |-> 0, epoch |-> m.epoch, made |-> 0]
             pool == Append(m.pool, p)
             n == [m EXCEPT !.pool = pool]
  <2>1. Emptied(m, i, name) = n
    BY <1>2 DEF Emptied
  <2>2. p \in PoolSlots /\ p.buffer = None /\ p.name = name /\ p.epoch = m.epoch
    BY <1>1 DEF PoolSlots
  <2> HIDE DEF p
  <2>3. /\ pool \in Seq(PoolSlots) /\ l \in Nat /\ DOMAIN pool = 1 .. l + 1 /\ pool[l + 1] = p
        /\ DOMAIN m.pool = 1 .. l /\ \A j \in 1 .. l : pool[j] = m.pool[j]
    BY <2>2, MemoryFacts
  <2> HIDE DEF pool, l
  <2>4. \A j \in DOMAIN pool : j \in DOMAIN m.pool \/ j = l + 1
    BY <2>3
  <2>5. \A j \in DOMAIN m.pool : j \in DOMAIN pool /\ pool[j] = m.pool[j] /\ j # l + 1
    BY <2>3
  <2>6. \A j \in DOMAIN pool : \/ pool[j].buffer = None
                               \/ j \in DOMAIN m.pool /\ pool[j].buffer = m.pool[j].buffer
    BY <2>2, <2>3, <2>4, <2>5
  <2>7. /\ Serves(m, n) /\ n.pool = pool
        /\ n.content = m.content /\ n.epoch = m.epoch /\ n.cache = m.cache
    BY <2>3, <2>6, Repooled, Zenon
  <2>8. /\ l + 1 \in DOMAIN n.pool /\ n.pool[l + 1].buffer = None /\ n.pool[l + 1].name = name
        /\ n.pool[l + 1].epoch = m.epoch
    BY <2>2, <2>3, <2>7
  <2> HIDE DEF n
  <2>9. \A j \in DOMAIN m.pool : m.pool[j].name # name
    BY <1>0, <1>2
  <2>10. Retains(m, n, {name})
    <3>1. \A j \in DOMAIN n.pool : j \in DOMAIN m.pool \/ n.pool[j].name \in {name}
      BY <2>4, <2>7, <2>8
    <3>2. \A j \in DOMAIN m.pool : j \in DOMAIN n.pool /\ n.pool[j] = m.pool[j]
      BY <2>5, <2>7
    <3> QED BY <2>7, <3>1, <3>2, PoolRetains, Zenon
  <2>11. NamesInv(m) => NamesInv(n)
    <3>1. ASSUME NamesInv(m), NEW j \in DOMAIN pool, NEW k \in DOMAIN pool,
                 pool[j].name = pool[k].name
          PROVE  j = k
      BY <2>2, <2>3, <2>4, <2>5, <2>9, <3>1, Zenon DEF NamesInv
    <3> QED BY <2>7, <3>1, Zenon DEF NamesInv
  <2> QED BY <1>2, <2>1, <2>7, <2>8, <2>10, <2>11, Zenon DEF l, i
<1>3. CASE i # 0
  <2> DEFINE n == Vacate(m, i, m.epoch)
  <2>1. i \in DOMAIN m.pool /\ m.pool[i].name = name
    BY <1>0, <1>3
  <2>2. Emptied(m, i, name) = n
    BY <1>3 DEF Emptied
  <2>3. /\ Shrinks(m, n) /\ n.pool[i].buffer = None /\ n.pool[i].name = name
        /\ n.pool[i].epoch = m.epoch /\ n.pool[i].made = m.pool[i].made
    BY <1>1, <2>1, VacateFacts, SMTT(60)
  <2>4. n \in Memories /\ Len(n.pool) = Len(m.pool)
    BY <2>3, Zenon DEF Shrinks, Serves
  <2>5. m.pool[i].name \in {name}
    BY <2>1
  <2>6. Retains(m, n, {name})
    BY <1>1, <2>1, <2>5, VacateRetains
  <2> HIDE DEF n
  <2>7. DOMAIN n.pool = DOMAIN m.pool
    BY <2>4, MemoryFacts
  <2>8. NamesInv(m) => NamesInv(n)
    BY <2>6, <2>7, NamesKept
  <2> QED BY <1>3, <2>1, <2>2, <2>3, <2>6, <2>7, <2>8, Zenon DEF Shrinks, i
<1> QED BY <1>2, <1>3 DEF i

LEMMA PooledServes ==
  ASSUME NEW m \in Memories, Apart(m), NEW name \in PoolNames, NEW size \in Nat,
         NEW data \in Contents \cup {None}, NEW refused \in BOOLEAN
  PROVE  LET a == AllocPooled(m, name, size, data, refused)
         IN  Serves(m, a.m) /\ a.buffer \in Buffers \cup {None}
<1> DEFINE a == AllocPooled(m, name, size, data, refused)
           i == Slot(m, name)
           reuse == i # 0 /\ m.pool[i].buffer # None /\ size <= m.pool[i].capacity
<1>1. i # 0 => i \in DOMAIN m.pool
  BY SlotFacts
<1>2. CASE reuse
  <2> DEFINE p == [m.pool[i] EXCEPT !.epoch = m.epoch]
             n == [m EXCEPT !.pool[i] = p]
             pool == [m.pool EXCEPT ![i] = p]
             q == [m |-> n, buffer |-> m.pool[i].buffer]
  <2>1. i \in DOMAIN m.pool
    BY <1>1, <1>2
  <2>2. a = Put(q, data)
    BY <1>2, Zenon DEF AllocPooled
  <2>3. m.pool[i] \in PoolSlots /\ m.pool[i].buffer \in Buffers \cup {None}
    BY <2>1, MemoryFacts, PoolSlotFacts
  <2>4. p \in PoolSlots /\ p.buffer = m.pool[i].buffer
    BY <2>3, MemoryFacts DEF PoolSlots
  <2> HIDE DEF p, i
  <2>5. /\ pool \in Seq(PoolSlots) /\ DOMAIN pool = DOMAIN m.pool
        /\ \A j \in DOMAIN m.pool : pool[j].buffer = m.pool[j].buffer
    BY <2>1, <2>4, MemoryFacts
  <2>6. n = [m EXCEPT !.pool = pool]
    <3> DEFINE u == [m EXCEPT !.pool = pool]
    <3> HIDE DEF pool
    <3>1. m = [content |-> m.content, pool |-> m.pool, epoch |-> m.epoch, cache |-> m.cache,
               failed |-> m.failed]
      BY MemoryFacts, Zenon
    <3>2. u = [content |-> m.content, pool |-> pool, epoch |-> m.epoch, cache |-> m.cache,
               failed |-> m.failed]
      BY <3>1
    <3> HIDE DEF u
    <3>3. n = [content |-> m.content, pool |-> pool, epoch |-> m.epoch, cache |-> m.cache,
               failed |-> m.failed]
      <4>1. n = [m EXCEPT !.pool[i] = p]
        OBVIOUS
      <4> HIDE DEF n
      <4> QED BY <3>1, <4>1, Changed, Zenon DEF pool
    <3> QED BY <3>2, <3>3 DEF u
  <2> HIDE DEF pool
  <2>7. Serves(m, n)
    <3>1. Serves(m, [m EXCEPT !.pool = pool])
      BY <2>5, Repooled, Zenon
    <3> QED BY <2>6, <3>1, Zenon
  <2> HIDE DEF n
  <2>8. q.m = n /\ q.buffer = m.pool[i].buffer
    OBVIOUS
  <2> HIDE DEF q
  <2> QED BY <2>2, <2>3, <2>7, <2>8, PutServes
<1>3. CASE ~reuse
  <2> DEFINE k == IF i = 0 THEN Len(m.pool) + 1 ELSE i
             n == Emptied(m, i, name)
             b == Alloc(n, refused)
             q == Placed(b, k, size)
  <2>1. a = Put(q, data)
    BY <1>3, Zenon DEF AllocPooled, PooledAnew
  <2>2. Serves(m, n) /\ k \in DOMAIN n.pool /\ n.pool[k].buffer = None
    BY EmptiedFacts, Zenon
  <2> HIDE DEF n, k
  <2>3. n \in Memories /\ Apart(n)
    BY <2>2 DEF Serves
  <2>4. Grants(n, b)
    BY <2>3, AllocGrants, Zenon
  <2> HIDE DEF b
  <2>5. b.m \in Memories /\ b.m.pool[k].buffer = None /\ k \in DOMAIN b.m.pool
    <3>1. b.m \in Memories /\ Len(b.m.pool) = Len(n.pool) /\ b.m.pool[k].buffer = None
      BY <2>2, <2>4, Zenon DEF Grants, Shrinks, Serves
    <3> QED BY <2>2, <2>3, <3>1, MemoryFacts
  <2>6. Serves(n, q.m) /\ q.buffer = b.buffer
    <3>1. CASE b.buffer = None
      BY <2>4, <3>1, Zenon DEF Placed, Grants, Shrinks
    <3>2. CASE b.buffer # None
      BY <2>3, <2>4, <2>5, <3>2, PlacedServes, ZenonT(60)
    <3> QED BY <3>1, <3>2
  <2> HIDE DEF q
  <2>7. Serves(m, q.m)
    BY <2>2, <2>6, ServesTwice
  <2>8. q.buffer \in Buffers \cup {None}
    BY <2>4, <2>6 DEF Grants
  <2> QED BY <2>1, <2>7, <2>8, PutServes
<1> QED BY <1>2, <1>3

-------------------------------------------------------------------------------
(* The cache                                                               *)

LEMMA DropStaleShrinks ==
  ASSUME NEW m \in Memories, Apart(m), NEW c, NEW generation
  PROVE  Shrinks(m, DropStale(m, c, generation))
<1> DEFINE B == {m.cache[i].buffer : i \in Stale(m, c, generation)}
<1>1. B \subseteq {m.cache[i].buffer : i \in Unpinned(m)}
  BY DEF Stale, Unpinned
<1>2. DropStale(m, c, generation) = FreeEntries(m, B)
  BY DEF DropStale
<1> HIDE DEF B
<1> QED BY <1>1, <1>2, FreeUnpinned

(* An entry is added for a buffer that no other entry has.                 *)
LEMMA EntryAdded ==
  ASSUME NEW m \in Memories, Apart(m), NEW e \in Chunks, e.buffer \notin Owned(m),
         m.content[e.buffer] # Nothing
  PROVE  LET n == [m EXCEPT !.cache = Append(m.cache, e)]
         IN  /\ n \in Memories /\ Apart(n) /\ n.content = m.content
             /\ Owned(n) = Owned(m) \cup {e.buffer}
             /\ PinnedFor(n, e.buffer, e.pins)
             /\ \A b, k : PinnedFor(m, b, k) => PinnedFor(n, b, k)
             /\ n.pool = m.pool /\ n.epoch = m.epoch
             /\ \E j \in DOMAIN n.cache : n.cache[j] = e
             /\ \A j \in DOMAIN n.cache :
                  n.cache[j] = e \/ \E k \in DOMAIN m.cache : n.cache[j] = m.cache[k]
<1> DEFINE cache == Append(m.cache, e)
           n == [m EXCEPT !.cache = cache]
           l == Len(m.cache)
<1>1. n = [content |-> m.content, pool |-> m.pool, epoch |-> m.epoch, cache |-> cache,
           failed |-> m.failed]
  <2> HIDE DEF cache
  <2> QED BY MemoryFacts
<1>2. /\ cache \in Seq(Chunks) /\ l \in Nat /\ DOMAIN cache = 1 .. l + 1 /\ cache[l + 1] = e
      /\ DOMAIN m.cache = 1 .. l /\ \A i \in 1 .. l : cache[i] = m.cache[i]
  BY MemoryFacts
<1> HIDE DEF n, cache, l
<1>3. n \in Memories
  BY <1>1, <1>2, MemoryFacts DEF Memories
<1>4. n.content = m.content /\ n.pool = m.pool /\ n.cache = cache /\ n.epoch = m.epoch
  BY <1>1
<1>5. \A i \in DOMAIN cache : i = l + 1 \/ i \in DOMAIN m.cache
  BY <1>2
<1>6. l + 1 \in DOMAIN cache /\ \A j \in DOMAIN m.cache : j \in DOMAIN cache
  BY <1>2
<1>7. \A j \in DOMAIN m.cache : cache[j] = m.cache[j]
  BY <1>2
<1>8. Pooled(n) = Pooled(m) /\ Cached(n) = Cached(m) \cup {e.buffer}
  <2>1. Pooled(n) = Pooled(m)
    BY <1>4 DEF Pooled
  <2>2. ASSUME NEW b \in Cached(n)
        PROVE  b \in Cached(m) \cup {e.buffer}
    <3>1. PICK i \in DOMAIN cache : b = cache[i].buffer
      BY <1>4 DEF Cached
    <3> QED BY <1>2, <1>5, <3>1, <1>7 DEF Cached
  <2>3. ASSUME NEW b \in Cached(m) \cup {e.buffer}
        PROVE  b \in Cached(n)
    <3>1. CASE b = e.buffer
      BY <1>2, <1>4, <1>6, <3>1 DEF Cached
    <3>2. CASE b \in Cached(m)
      BY <1>4, <1>6, <1>7, <3>2 DEF Cached
    <3> QED BY <3>1, <3>2
  <2> QED BY <2>1, <2>2, <2>3
<1>9. Apart(n)
  <2>1. \A j \in DOMAIN m.cache : m.cache[j].buffer # e.buffer
    BY DEF Owned, Cached
  <2>2. \A i, j \in DOMAIN cache : cache[i].buffer = cache[j].buffer => i = j
    <3> TAKE i \in DOMAIN cache, j \in DOMAIN cache
    <3>1. i = l + 1 \/ i \in DOMAIN m.cache
      BY <1>5
    <3>2. j = l + 1 \/ j \in DOMAIN m.cache
      BY <1>5
    <3> QED BY <1>2, <1>7, <2>1, <3>1, <3>2, Zenon DEF Apart
  <2>3. Pooled(n) \cap Cached(n) = {}
    BY <1>8 DEF Apart, Owned
  <2>4. \A b \in Pooled(n) \cup Cached(n) : n.content[b] # Nothing
    BY <1>4, <1>8, Zenon DEF Apart
  <2>5. \A i, j \in DOMAIN n.pool :
          n.pool[i].buffer = n.pool[j].buffer => i = j \/ n.pool[i].buffer = None
    BY <1>4, Zenon DEF Apart
  <2> QED BY <1>4, <2>2, <2>3, <2>4, <2>5, Zenon DEF Apart
<1>10. PinnedFor(n, e.buffer, e.pins)
  <2>1. e.pins >= e.pins
    BY ChunkFacts
  <2> QED BY <1>2, <1>4, <1>6, <2>1 DEF PinnedFor
<1>11. \A b, k : PinnedFor(m, b, k) => PinnedFor(n, b, k)
  BY <1>4, <1>6, <1>7, Zenon DEF PinnedFor
<1>12. Owned(n) = Owned(m) \cup {e.buffer}
  BY <1>8 DEF Owned
<1>13. \E j \in DOMAIN n.cache : n.cache[j] = e
  BY <1>2, <1>4, <1>6, Zenon
<1>14. \A j \in DOMAIN n.cache :
         n.cache[j] = e \/ \E k \in DOMAIN m.cache : n.cache[j] = m.cache[k]
  BY <1>2, <1>4, <1>5, <1>7, Zenon
<1> QED BY <1>3, <1>4, <1>9, <1>10, <1>11, <1>12, <1>13, <1>14, Zenon DEF n, cache

(* A chunk that is held is pinned once more.                               *)
LEMMA PinFacts ==
  ASSUME NEW m \in Memories, Apart(m), NEW i \in DOMAIN m.cache
  PROVE  LET n == Pin(m, i)
             b == m.cache[i].buffer
         IN  /\ Serves(m, n) /\ PinnedFor(n, b, 1)
             /\ \A k \in Nat \ {0} : PinnedFor(m, b, k) => PinnedFor(n, b, k + 1)
             /\ Retains(m, n, {})
             /\ \E j \in DOMAIN n.cache : SameChunk(n.cache[j], m.cache[i])
<1> DEFINE f == m.cache[i]
           b == f.buffer
           e == [f EXCEPT !.uses = 2, !.pins = @ + 1]
           others == Others(m.cache, {b})
           cache == Append(others, e)
           l == Len(others)
           n == Pin(m, i)
<1>1. f \in Chunks /\ b \in Buffers /\ f.pins \in Nat /\ b \in Cached(m)
  BY MemoryFacts, ChunkFacts, OwnedFacts
<1>2. e \in Chunks /\ e.buffer = b /\ e.pins = f.pins + 1 /\ SameChunk(e, f)
  <2> HIDE DEF f
  <2>1. /\ f.column \in ScanColumns /\ f.generation \in Nat /\ f.chunk \in Nat
        /\ f.ready \in BOOLEAN /\ f.uses \in Nat
        /\ f = [column |-> f.column, generation |-> f.generation, chunk |-> f.chunk,
                buffer |-> f.buffer, ready |-> f.ready, uses |-> f.uses, pins |-> f.pins]
    BY <1>1, ChunkFacts
  <2>2. e = [column |-> f.column, generation |-> f.generation, chunk |-> f.chunk,
             buffer |-> f.buffer, ready |-> f.ready, uses |-> 2, pins |-> f.pins + 1]
    <3>1. e = [f EXCEPT !.uses = 2, !.pins = f.pins + 1]
      BY <2>1
    <3> HIDE DEF e
    <3> QED BY <2>1, <3>1
  <2> HIDE DEF e
  <2> QED BY <1>1, <2>1, <2>2 DEF Chunks, SameChunk
<1>3. LeftOf(others, m.cache, {b}, Len(m.cache))
  BY MemoryFacts, OthersFacts, Zenon DEF Apart
<1>4. n = [content |-> m.content, pool |-> m.pool, epoch |-> m.epoch, cache |-> cache,
           failed |-> m.failed]
  <2>1. n = [m EXCEPT !.cache = cache]
    BY Zenon DEF Pin
  <2>2. m = [content |-> m.content, pool |-> m.pool, epoch |-> m.epoch, cache |-> m.cache,
             failed |-> m.failed]
    BY MemoryFacts, Zenon
  <2> HIDE DEF n, cache
  <2> QED BY <2>1, <2>2, Changed, Zenon
<1> HIDE DEF n, others, e, f, b
<1>5. /\ others \in Seq(Chunks) /\ l \in Nat /\ DOMAIN others = 1 .. l
      /\ \A j \in DOMAIN others : \E k \in DOMAIN m.cache :
           others[j] = m.cache[k] /\ m.cache[k].buffer # b
      /\ \A k \in DOMAIN m.cache :
           m.cache[k].buffer # b => \E j \in DOMAIN others : others[j] = m.cache[k]
      /\ \A j, k \in DOMAIN others : others[j].buffer = others[k].buffer => j = k
  BY <1>3, MemoryFacts, SMTT(60) DEF LeftOf
<1>6. /\ cache \in Seq(Chunks) /\ DOMAIN cache = 1 .. l + 1 /\ cache[l + 1] = e
      /\ \A j \in 1 .. l : cache[j] = others[j]
  BY <1>2, <1>5
<1> HIDE DEF cache, l
<1>7. /\ l + 1 \in DOMAIN cache /\ \A j \in DOMAIN others : j \in DOMAIN cache /\ cache[j] = others[j]
      /\ \A j \in DOMAIN cache : j = l + 1 \/ j \in DOMAIN others
  BY <1>5, <1>6
<1>8. n \in Memories
  BY <1>4, <1>6, MemoryFacts DEF Memories
<1>9. n.content = m.content /\ n.pool = m.pool /\ n.cache = cache /\ n.epoch = m.epoch
  BY <1>4
<1>10. Pooled(n) = Pooled(m) /\ Cached(n) = Cached(m)
  <2>1. Pooled(n) = Pooled(m)
    BY <1>9 DEF Pooled
  <2>2. ASSUME NEW x \in Cached(n)
        PROVE  x \in Cached(m)
    <3>1. PICK j \in DOMAIN cache : x = cache[j].buffer
      BY <1>9 DEF Cached
    <3>2. CASE j = l + 1
      BY <1>1, <1>2, <1>6, <3>1, <3>2
    <3>3. CASE j \in DOMAIN others
      <4>1. PICK k \in DOMAIN m.cache : others[j] = m.cache[k]
        BY <1>5, <3>3
      <4> QED BY <1>7, <3>1, <3>3, <4>1 DEF Cached
    <3> QED BY <1>7, <3>2, <3>3
  <2>3. ASSUME NEW x \in Cached(m)
        PROVE  x \in Cached(n)
    <3>1. CASE x = b
      BY <1>2, <1>6, <1>7, <1>9, <3>1 DEF Cached
    <3>2. CASE x # b
      <4>1. PICK k \in DOMAIN m.cache : x = m.cache[k].buffer
        BY DEF Cached
      <4>2. PICK j \in DOMAIN others : others[j] = m.cache[k]
        BY <1>5, <3>2, <4>1
      <4> QED BY <1>7, <1>9, <4>1, <4>2 DEF Cached
    <3> QED BY <3>1, <3>2
  <2> QED BY <2>1, <2>2, <2>3
<1>11. Apart(n)
  <2>1. \A j \in DOMAIN others : others[j].buffer # b
    BY <1>5
  <2>2. \A j, k \in DOMAIN cache : cache[j].buffer = cache[k].buffer => j = k
    <3> TAKE j \in DOMAIN cache, k \in DOMAIN cache
    <3>1. (j = l + 1 \/ j \in DOMAIN others) /\ (k = l + 1 \/ k \in DOMAIN others)
      BY <1>7
    <3> QED BY <1>2, <1>5, <1>6, <1>7, <2>1, <3>1, Zenon
  <2>3. \A x \in Pooled(n) \cup Cached(n) : n.content[x] # Nothing
    BY <1>9, <1>10, Zenon DEF Apart
  <2>4. \A j, k \in DOMAIN n.pool :
          n.pool[j].buffer = n.pool[k].buffer => j = k \/ n.pool[j].buffer = None
    BY <1>9, Zenon DEF Apart
  <2> QED BY <1>9, <1>10, <2>2, <2>3, <2>4, Zenon DEF Apart
<1>12. \A k \in Nat : k <= f.pins + 1 => PinnedFor(n, b, k)
  <2> TAKE k \in Nat
  <2> HAVE k <= f.pins + 1
  <2>1. e.pins >= k
    BY <1>1, <1>2
  <2> QED BY <1>2, <1>6, <1>7, <1>9, <2>1 DEF PinnedFor
<1>13. \A k \in Nat : PinnedFor(m, b, k) => k <= f.pins
  <2> TAKE k \in Nat
  <2> HAVE PinnedFor(m, b, k)
  <2>1. PICK j \in DOMAIN m.cache : m.cache[j].buffer = b /\ m.cache[j].pins >= k
    BY DEF PinnedFor
  <2>2. j = i
    BY <2>1, Zenon DEF Apart, b, f
  <2> QED BY <1>1, <2>1, <2>2 DEF f
<1>14. \A x : \A k \in Nat \ {0} : PinnedFor(m, x, k) => PinnedFor(n, x, k)
  <2> TAKE x
  <2> TAKE k \in Nat \ {0}
  <2> HAVE PinnedFor(m, x, k)
  <2>1. CASE x = b
    <3>1. k <= f.pins + 1
      BY <1>1, <1>13, <2>1
    <3> QED BY <1>12, <2>1, <3>1
  <2>2. CASE x # b
    <3>1. PICK j \in DOMAIN m.cache : m.cache[j].buffer = x /\ m.cache[j].pins >= k
      BY DEF PinnedFor
    <3>2. PICK g \in DOMAIN others : others[g] = m.cache[j]
      BY <1>5, <2>2, <3>1
    <3>3. g \in DOMAIN n.cache /\ n.cache[g] = m.cache[j]
      BY <1>7, <1>9, <3>2
    <3> QED BY <3>1, <3>3 DEF PinnedFor
  <2> QED BY <2>1, <2>2
<1>15. Serves(m, n)
  BY <1>8, <1>9, <1>10, <1>11, <1>14, Zenon DEF Serves, Owned
<1>16. PinnedFor(n, b, 1)
  BY <1>1, <1>12
<1>17. \A k \in Nat \ {0} : PinnedFor(m, b, k) => PinnedFor(n, b, k + 1)
  BY <1>1, <1>12, <1>13
<1>18. Retains(m, n, {})
  <2>1. \A j \in DOMAIN m.pool : SlotStays(m, n, j)
    BY <1>9 DEF SlotStays
  <2>2. ASSUME NEW j \in DOMAIN n.cache PROVE EntryStays(m, n, n.cache[j])
    <3>1. CASE j = l + 1
      <4>1. n.cache[j] = e /\ SameChunk(e, m.cache[i])
        BY <1>2, <1>6, <1>9, <3>1 DEF f
      <4> QED BY <1>9, <4>1, Zenon DEF EntryStays
    <3>2. CASE j \in DOMAIN others
      <4>1. PICK k \in DOMAIN m.cache : others[j] = m.cache[k]
        BY <1>5, <3>2
      <4>2. SameChunk(n.cache[j], m.cache[k])
        BY <1>7, <1>9, <3>2, <4>1 DEF SameChunk
      <4> QED BY <1>9, <4>2, Zenon DEF EntryStays
    <3> QED BY <1>7, <1>9, <2>2, <3>1, <3>2, Zenon
  <2> QED BY <1>9, <2>1, <2>2, Zenon DEF Retains
<1>19. \E j \in DOMAIN n.cache : SameChunk(n.cache[j], m.cache[i])
  BY <1>2, <1>6, <1>7, <1>9, Zenon DEF f
<1> QED BY <1>15, <1>16, <1>17, <1>18, <1>19, Zenon DEF n, b, f

(* What an acquired buffer is: pinned, once more than it was.               *)
Acquires(m, a) ==
  /\ Serves(m, a.m) /\ a.buffer \in Buffers \cup {None}
  /\ a.buffer # None =>
       /\ PinnedFor(a.m, a.buffer, 1)
       /\ \A k \in Nat \ {0} : PinnedFor(m, a.buffer, k) => PinnedFor(a.m, a.buffer, k + 1)

(* It is that of an entry for the chunk: one whose rows are there, or a new  *)
(* one that only this caller knows.                                        *)
Finds(m, a, c, generation, chunk) ==
  /\ Retains(m, a.m, {})
  /\ a.buffer # None => \E k \in DOMAIN a.m.cache :
       /\ a.m.cache[k].buffer = a.buffer /\ a.m.cache[k].column = c
       /\ a.m.cache[k].generation = generation /\ a.m.cache[k].chunk = chunk
       /\ IF a.needs_copy THEN EntryNew(m, a.m.cache[k]) ELSE a.m.cache[k].ready

LEMMA KeptFacts ==
  ASSUME NEW m \in Memories, NEW l \in Memories, Apart(l), Serves(m, l), NEW a, Grants(l, a),
         Retains(m, l, {}), Retains(l, a.m, {}),
         NEW c \in ScanColumns, NEW generation \in Nat, NEW chunk \in Nat
  PROVE  /\ Acquires(m, Kept(a, c, generation, chunk))
         /\ Finds(m, Kept(a, c, generation, chunk), c, generation, chunk)
<1> DEFINE k == Kept(a, c, generation, chunk)
           b == a.buffer
           e == NewEntry(c, generation, chunk, b)
           n == [a.m EXCEPT !.cache = Append(a.m.cache, e)]
<1>1. /\ a.m \in Memories /\ Apart(a.m) /\ Serves(l, a.m) /\ b \in Buffers \cup {None}
  BY Zenon DEF Grants, Shrinks, Serves
<1>2. Serves(m, a.m)
  BY <1>1, ServesTwice
<1>r. Retains(m, a.m, {})
  BY RetainsTwice
<1>3. CASE b = None
  BY <1>2, <1>3, <1>r DEF Kept, Acquires, Finds
<1>4. CASE b # None
  <2>1. k.m = n /\ k.buffer = b /\ k.needs_copy
    BY <1>4 DEF Kept
  <2>2. /\ e \in Chunks /\ e.buffer = b /\ e.pins = 1 /\ ~e.ready
        /\ e.column = c /\ e.generation = generation /\ e.chunk = chunk
    BY <1>1, <1>4 DEF NewEntry, Chunks
  <2>3. b \notin Owned(a.m) /\ a.m.content[b] # Nothing
        /\ \A x \in Buffers \ Owned(l) : l.content[x] # Nothing => x # b
    BY <1>4, Zenon DEF Grants
  <2> HIDE DEF e, k
  <2>4. /\ n \in Memories /\ Apart(n) /\ n.content = a.m.content
        /\ Owned(n) = Owned(a.m) \cup {b}
        /\ PinnedFor(n, b, 1)
        /\ \A x, i : PinnedFor(a.m, x, i) => PinnedFor(n, x, i)
        /\ n.pool = a.m.pool /\ n.epoch = a.m.epoch
        /\ \E j \in DOMAIN n.cache : n.cache[j] = e
        /\ \A j \in DOMAIN n.cache :
             n.cache[j] = e \/ \E i \in DOMAIN a.m.cache : n.cache[j] = a.m.cache[i]
    <3>1. e.buffer \notin Owned(a.m) /\ a.m.content[e.buffer] # Nothing
      BY <2>2, <2>3
    <3> DEFINE v == a.m
    <3>2. v \in Memories /\ Apart(v) /\ e.buffer \notin Owned(v) /\ v.content[e.buffer] # Nothing
      BY <1>1, <3>1
    <3> DEFINE w == [v EXCEPT !.cache = Append(v.cache, e)]
    <3>3. n = w
      OBVIOUS
    <3> HIDE DEF v, n
    <3>4. /\ w \in Memories /\ Apart(w) /\ w.content = v.content
          /\ Owned(w) = Owned(v) \cup {e.buffer}
          /\ PinnedFor(w, e.buffer, e.pins)
          /\ \A x, i : PinnedFor(v, x, i) => PinnedFor(w, x, i)
          /\ w.pool = v.pool /\ w.epoch = v.epoch
          /\ \E j \in DOMAIN w.cache : w.cache[j] = e
          /\ \A j \in DOMAIN w.cache :
               w.cache[j] = e \/ \E i \in DOMAIN v.cache : w.cache[j] = v.cache[i]
      BY <2>2, <3>2, EntryAdded, ZenonT(60)
    <3> HIDE DEF w
    <3> QED BY <2>2, <3>3, <3>4 DEF v
  <2> HIDE DEF n
  <2>5. \A x : \A i \in Nat \ {0} : PinnedFor(m, x, i) => PinnedFor(n, x, i)
    BY <1>2, <2>4, Zenon DEF Serves
  <2>6. \A x \in Buffers \ Owned(m) :
          m.content[x] # Nothing => x \notin Owned(n) /\ n.content[x] # Nothing
    <3> TAKE x \in Buffers \ Owned(m)
    <3>1. m.content[x] # Nothing => x \notin Owned(l) /\ l.content[x] # Nothing
      BY Zenon DEF Serves
    <3>2. m.content[x] # Nothing => x \notin Owned(a.m) /\ a.m.content[x] # Nothing /\ x # b
      BY <1>1, <2>3, <3>1, Zenon DEF Serves
    <3> QED BY <2>4, <3>2
  <2>7. \A i \in Nat \ {0} : ~PinnedFor(m, b, i)
    <3> TAKE i \in Nat \ {0}
    <3> SUFFICES ASSUME PinnedFor(m, b, i) PROVE FALSE
      OBVIOUS
    <3>1. PinnedFor(a.m, b, i)
      BY <1>2, Zenon DEF Serves
    <3> QED BY <2>3, <3>1, Zenon DEF PinnedFor, Owned, Cached
  <2>8. Serves(m, n)
    BY <2>4, <2>5, <2>6, Zenon DEF Serves
  <2>9. Acquires(m, Kept(a, c, generation, chunk))
    BY <1>1, <2>1, <2>4, <2>7, <2>8, Zenon DEF Acquires, k, b
  <2>10. ~PinnedFor(m, b, 1)
    BY <2>7
  <2>11. Retains(a.m, n, {})
    <3>1. \A j \in DOMAIN a.m.pool : SlotStays(a.m, n, j)
      BY <2>4 DEF SlotStays
    <3>2. ~PinnedFor(a.m, b, 1)
      BY <2>3, Zenon DEF PinnedFor, Owned, Cached
    <3>3. \A j \in DOMAIN n.cache : EntryStays(a.m, n, n.cache[j]) \/ EntryNew(a.m, n.cache[j])
      BY <2>2, <2>4, <3>2, Zenon DEF EntryStays, EntryNew, SameChunk
    <3> QED BY <2>4, <3>1, <3>3, Zenon DEF Retains
  <2>12. Retains(m, n, {})
    BY <1>2, <1>r, <2>11, RetainsTwice
  <2>13. Finds(m, k, c, generation, chunk)
    BY <2>1, <2>2, <2>4, <2>10, <2>12, Zenon DEF Finds, EntryNew
  <2> QED BY <2>9, <2>13 DEF k
<1> QED BY <1>3, <1>4

LEMMA AcquireFacts ==
  ASSUME NEW m \in Memories, Apart(m), NEW c \in ScanColumns, NEW generation \in Nat,
         NEW chunk \in Nat, NEW refused \in BOOLEAN
  PROVE  /\ Acquires(m, Acquire(m, c, generation, chunk, refused))
         /\ Finds(m, Acquire(m, c, generation, chunk, refused), c, generation, chunk)
<1> DEFINE l == DropStale(m, c, generation)
           hits == Hits(l, c, generation, chunk)
           hit == CHOOSE i \in hits : TRUE
           refuses == Len(l.cache) >= MaxEntries \/ Budget = 0 \/ (Full(l) /\ Unpinned(l) = {})
           r == IF Full(l) THEN CacheEvict(l) ELSE l
           a == Acquire(m, c, generation, chunk, refused)
<1>1. Serves(m, l) /\ l \in Memories /\ Apart(l) /\ Retains(m, l, {})
  <2>1. {m.cache[i].buffer : i \in Stale(m, c, generation)} \subseteq Cached(m)
    BY OwnedFacts DEF Stale
  <2> QED BY <2>1, DropStaleShrinks, FreeRetains, Zenon DEF Shrinks, Serves, DropStale
<1>2. /\ hits # {} => a = [m |-> Pin(l, hit), buffer |-> l.cache[hit].buffer, needs_copy |-> FALSE]
      /\ hits = {} /\ refuses => a = [m |-> l, buffer |-> None, needs_copy |-> FALSE]
      /\ hits = {} /\ ~refuses => a = Kept(Alloc(r, refused), c, generation, chunk)
  BY Zenon DEF Acquire, AcquireAfter
<1> SUFFICES Acquires(m, a) /\ Finds(m, a, c, generation, chunk)
  OBVIOUS
<1> HIDE DEF l, a
<1>3. CASE hits # {}
  <2>1. hit \in DOMAIN l.cache
    BY <1>3 DEF Hits
  <2>h. /\ l.cache[hit].column = c /\ l.cache[hit].generation = generation
        /\ l.cache[hit].chunk = chunk /\ l.cache[hit].ready
    BY <1>3 DEF Hits
  <2> DEFINE b == l.cache[hit].buffer
             n == Pin(l, hit)
  <2>2. a.m = n /\ a.buffer = b /\ ~a.needs_copy
    BY <1>2, <1>3
  <2> HIDE DEF hit
  <2>3. /\ Serves(l, n) /\ PinnedFor(n, b, 1)
        /\ \A k \in Nat \ {0} : PinnedFor(l, b, k) => PinnedFor(n, b, k + 1)
        /\ Retains(l, n, {})
        /\ \E j \in DOMAIN n.cache : SameChunk(n.cache[j], l.cache[hit])
    BY <1>1, <2>1, PinFacts, Zenon
  <2>4. b \in Buffers
    BY <1>1, <2>1, MemoryFacts, ChunkFacts
  <2> HIDE DEF n, b
  <2>5. Serves(m, n)
    BY <1>1, <2>3, ServesTwice
  <2>6. \A k \in Nat \ {0} : PinnedFor(m, b, k) => PinnedFor(n, b, k + 1)
    BY <1>1, <2>3, Zenon DEF Serves
  <2>7. b \in Buffers \cup {None}
    BY <2>4
  <2>8. Acquires(m, a)
    BY <2>2, <2>3, <2>5, <2>6, <2>7, Zenon DEF Acquires
  <2>9. Retains(m, n, {})
    BY <1>1, <2>3, RetainsTwice
  <2>10. Finds(m, a, c, generation, chunk)
    BY <2>2, <2>3, <2>9, <2>h, Zenon DEF Finds, SameChunk, b
  <2> QED BY <2>8, <2>10
<1>4. CASE hits = {} /\ refuses
  <2>1. a.m = l /\ a.buffer = None
    BY <1>2, <1>4
  <2>2. None \in Buffers \cup {None}
    OBVIOUS
  <2> QED BY <1>1, <2>1, <2>2, Zenon DEF Acquires, Finds
<1>5. CASE hits = {} /\ ~refuses
  <2>1. Shrinks(l, r) /\ Retains(l, r, {})
    <3>1. CASE Full(l)
      <4>1. Unpinned(l) # {} /\ r = CacheEvict(l)
        BY <1>5, <3>1
      <4> QED BY <1>1, <4>1, CacheEvictShrinks, CacheEvictRetains
    <3>2. CASE ~Full(l)
      BY <1>1, <3>2, ServesItself, SameRetained
    <3> QED BY <3>1, <3>2
  <2> HIDE DEF r
  <2>2. r \in Memories /\ Apart(r) /\ Serves(m, r)
    BY <1>1, <2>1, ServesTwice DEF Shrinks, Serves
  <2>r. Retains(m, r, {})
    BY <1>1, <2>1, RetainsTwice
  <2>3. Grants(r, Alloc(r, refused)) /\ Retains(r, Alloc(r, refused).m, {})
    BY <2>2, AllocGrants, AllocRetains
  <2>4. a = Kept(Alloc(r, refused), c, generation, chunk)
    BY <1>2, <1>5
  <2> QED BY <2>2, <2>3, <2>4, <2>r, KeptFacts
<1> QED BY <1>3, <1>4, <1>5

-------------------------------------------------------------------------------
(* Chunks given back                                                       *)

LEMMA LetGoFacts ==
  ASSUME NEW e \in Chunks, NEW completed \in BOOLEAN
  PROVE  LET f == LetGo(e, completed)
         IN  /\ f \in Chunks /\ f.buffer = e.buffer
             /\ f.pins = IF e.pins > 0 THEN e.pins - 1 ELSE 0
             /\ f.ready = (e.ready \/ completed)
             /\ f.column = e.column /\ f.generation = e.generation /\ f.chunk = e.chunk
<1> DEFINE p == IF e.pins > 0 THEN e.pins - 1 ELSE 0
           r == e.ready \/ completed
           f == LetGo(e, completed)
<1>1. /\ e.column \in ScanColumns /\ e.generation \in Nat /\ e.chunk \in Nat
      /\ e.buffer \in Buffers /\ e.ready \in BOOLEAN /\ e.uses \in Nat /\ e.pins \in Nat
      /\ e = [column |-> e.column, generation |-> e.generation, chunk |-> e.chunk,
              buffer |-> e.buffer, ready |-> e.ready, uses |-> e.uses, pins |-> e.pins]
  BY ChunkFacts
<1>2. p \in Nat
  BY <1>1
<1>3. r \in BOOLEAN
  OBVIOUS
<1>4. f = [e EXCEPT !.pins = p, !.ready = r]
  BY Zenon DEF LetGo
<1> HIDE DEF f, p, r
<1>5. f = [column |-> e.column, generation |-> e.generation, chunk |-> e.chunk,
           buffer |-> e.buffer, ready |-> r, uses |-> e.uses, pins |-> p]
  BY <1>1, <1>4
<1>6. /\ f \in Chunks /\ f.buffer = e.buffer /\ f.pins = p /\ f.ready = r
      /\ f.column = e.column /\ f.generation = e.generation /\ f.chunk = e.chunk
  BY <1>1, <1>2, <1>3, <1>5 DEF Chunks
<1> QED BY <1>6, Zenon DEF f, p, r

(* The pins that are let go count down by one, the others stay.             *)
LEMMA AllLetGoFacts ==
  ASSUME NEW m \in Memories, Apart(m), NEW held, NEW completed \in BOOLEAN
  PROVE  LET n == AllLetGo(m, held, completed)
         IN  /\ n \in Memories /\ Apart(n) /\ n.content = m.content /\ n.pool = m.pool
             /\ Cached(n) = Cached(m)
             /\ \A b, k : b \notin held /\ PinnedFor(m, b, k) => PinnedFor(n, b, k)
             /\ \A b : \A k \in Nat : PinnedFor(m, b, k + 1) => PinnedFor(n, b, k)
             /\ completed => \A i \in DOMAIN n.cache : n.cache[i].buffer \in held => n.cache[i].ready
             /\ n.epoch = m.epoch
             /\ \A i \in DOMAIN n.cache : \E j \in DOMAIN m.cache :
                  LetGone(n.cache[i], m.cache[j], held, completed)
<1> DEFINE n == AllLetGo(m, held, completed)
           cache == [i \in DOMAIN m.cache |-> IF m.cache[i].buffer \in held
                                              THEN LetGo(m.cache[i], completed) ELSE m.cache[i]]
<1>1. n = [content |-> m.content, pool |-> m.pool, epoch |-> m.epoch, cache |-> cache,
           failed |-> m.failed]
  <2>1. n = [m EXCEPT !.cache = cache]
    BY Zenon DEF AllLetGo
  <2>2. m = [content |-> m.content, pool |-> m.pool, epoch |-> m.epoch, cache |-> m.cache,
             failed |-> m.failed]
    BY MemoryFacts, Zenon
  <2> HIDE DEF n, cache
  <2> QED BY <2>1, <2>2, Changed, Zenon
<1>2. DOMAIN cache = DOMAIN m.cache /\ DOMAIN m.cache = 1 .. Len(m.cache) /\ Len(m.cache) \in Nat
      /\ \A i \in DOMAIN m.cache : m.cache[i] \in Chunks
  BY MemoryFacts
<1>3. \A i \in DOMAIN m.cache :
        /\ m.cache[i].buffer \in held => cache[i] = LetGo(m.cache[i], completed)
        /\ m.cache[i].buffer \notin held => cache[i] = m.cache[i]
  OBVIOUS
<1> HIDE DEF n
<1>4. ASSUME NEW i \in DOMAIN m.cache
      PROVE  /\ cache[i] \in Chunks /\ cache[i].buffer = m.cache[i].buffer
             /\ m.cache[i].buffer \notin held => cache[i].pins = m.cache[i].pins
             /\ \A k \in Nat : m.cache[i].pins >= k + 1 => cache[i].pins >= k
             /\ m.cache[i].buffer \in held /\ completed => cache[i].ready
             /\ LetGone(cache[i], m.cache[i], held, completed)
  <2> DEFINE e == m.cache[i]
             f == cache[i]
  <2>1. e \in Chunks /\ e.pins \in Nat
    BY <1>2, ChunkFacts
  <2>2. CASE e.buffer \in held
    <3>1. f = LetGo(e, completed)
      BY <1>3, <2>2
    <3> HIDE DEF e, f
    <3>2. /\ f \in Chunks /\ f.buffer = e.buffer
          /\ f.pins = IF e.pins > 0 THEN e.pins - 1 ELSE 0
          /\ f.ready = (e.ready \/ completed)
          /\ f.column = e.column /\ f.generation = e.generation /\ f.chunk = e.chunk
      BY <2>1, <3>1, LetGoFacts
    <3>3. \A k \in Nat : e.pins >= k + 1 => f.pins >= k
      BY <2>1, <3>2
    <3>4. completed => f.ready
      BY <3>2, Zenon
    <3>5. LetGone(f, e, held, completed)
      BY <2>2, <3>2, Zenon DEF LetGone
    <3> QED BY <2>2, <3>2, <3>3, <3>4, <3>5, Zenon DEF e, f
  <2>3. CASE e.buffer \notin held
    <3>1. f = e
      BY <1>3, <2>3
    <3>2. \A k \in Nat : e.pins >= k + 1 => e.pins >= k
      BY <2>1
    <3> HIDE DEF f
    <3>3. LetGone(f, e, held, completed)
      BY <3>1, Zenon DEF LetGone
    <3> QED BY <2>1, <2>3, <3>1, <3>2, <3>3, Zenon DEF f
  <2> QED BY <2>2, <2>3
<1>5. cache \in Seq(Chunks)
  <2>1. cache \in [1 .. Len(m.cache) -> Chunks]
    BY <1>2, <1>4
  <2> HIDE DEF cache
  <2> QED BY <1>2, <2>1
<1> HIDE DEF cache
<1>6. n \in Memories
  BY <1>1, <1>5, MemoryFacts DEF Memories
<1>7. n.content = m.content /\ n.pool = m.pool /\ n.cache = cache /\ n.epoch = m.epoch
  BY <1>1
<1>8. Pooled(n) = Pooled(m) /\ Cached(n) = Cached(m)
  <2>1. Pooled(n) = Pooled(m)
    BY <1>7 DEF Pooled
  <2>2. \A b : b \in Cached(n) <=> b \in Cached(m)
    BY <1>2, <1>4, <1>7, Zenon DEF Cached
  <2> QED BY <2>1, <2>2
<1>9. Apart(n)
  <2>1. \A i, j \in DOMAIN cache : cache[i].buffer = cache[j].buffer => i = j
    BY <1>2, <1>4, Zenon DEF Apart
  <2>2. \A i, j \in DOMAIN n.pool :
          n.pool[i].buffer = n.pool[j].buffer => i = j \/ n.pool[i].buffer = None
    BY <1>7, Zenon DEF Apart
  <2>3. \A b \in Pooled(n) \cup Cached(n) : n.content[b] # Nothing
    BY <1>7, <1>8, Zenon DEF Apart
  <2> QED BY <1>7, <1>8, <2>1, <2>2, <2>3, Zenon DEF Apart
<1>10. \A b, k : b \notin held /\ PinnedFor(m, b, k) => PinnedFor(n, b, k)
  BY <1>2, <1>4, <1>7, Zenon DEF PinnedFor
<1>11. \A b : \A k \in Nat : PinnedFor(m, b, k + 1) => PinnedFor(n, b, k)
  BY <1>2, <1>4, <1>7, Zenon DEF PinnedFor
<1>12. completed => \A i \in DOMAIN n.cache : n.cache[i].buffer \in held => n.cache[i].ready
  BY <1>2, <1>4, <1>7, Zenon
<1>13. \A i \in DOMAIN n.cache : \E j \in DOMAIN m.cache :
         LetGone(n.cache[i], m.cache[j], held, completed)
  BY <1>2, <1>4, <1>7, Zenon
<1> QED BY <1>6, <1>7, <1>8, <1>9, <1>10, <1>11, <1>12, <1>13, Zenon DEF n

LEMMA UnpinFacts ==
  ASSUME NEW m \in Memories, Apart(m), NEW held, NEW completed \in BOOLEAN
  PROVE  LET n == Unpin(m, held, completed)
         IN  /\ n \in Memories /\ Apart(n) /\ Pooled(n) = Pooled(m) /\ Cached(n) \subseteq Cached(m)
             /\ \A b \in Buffers \ Owned(m) : n.content[b] = m.content[b]
             /\ n.pool = m.pool /\ n.epoch = m.epoch
             /\ \A b \in Buffers : b \notin Cached(m) \/ b \in Cached(n) \/ completed =>
                  n.content[b] = m.content[b]
             /\ \A i \in DOMAIN n.cache : \E j \in DOMAIN m.cache :
                  LetGone(n.cache[i], m.cache[j], held, completed)
             /\ completed =>
                  /\ \A b, k : b \notin held /\ PinnedFor(m, b, k) => PinnedFor(n, b, k)
                  /\ \A b : \A k \in Nat : PinnedFor(m, b, k + 1) => PinnedFor(n, b, k)
<1> DEFINE l == AllLetGo(m, held, completed)
           B == NeverFilled(l, held)
           n == FreeEntries(l, B)
<1>1. Unpin(m, held, completed) = n
  BY Zenon DEF Unpin
<1>2. /\ l \in Memories /\ Apart(l) /\ l.content = m.content /\ l.pool = m.pool
      /\ Cached(l) = Cached(m)
      /\ \A b, k : b \notin held /\ PinnedFor(m, b, k) => PinnedFor(l, b, k)
      /\ \A b : \A k \in Nat : PinnedFor(m, b, k + 1) => PinnedFor(l, b, k)
      /\ completed => \A i \in DOMAIN l.cache : l.cache[i].buffer \in held => l.cache[i].ready
      /\ l.epoch = m.epoch
      /\ \A i \in DOMAIN l.cache : \E j \in DOMAIN m.cache :
           LetGone(l.cache[i], m.cache[j], held, completed)
  BY AllLetGoFacts, Zenon
<1> HIDE DEF l
<1>3. B \subseteq Cached(l) /\ (completed => B = {})
  BY <1>2 DEF NeverFilled, Cached
<1> HIDE DEF B
<1>4. /\ n \in Memories /\ Apart(n) /\ n.pool = l.pool /\ Cached(n) = Cached(l) \ B
      /\ \A b \in Buffers \ B : n.content[b] = l.content[b]
      /\ \A b, k : b \notin B /\ PinnedFor(l, b, k) => PinnedFor(n, b, k)
      /\ n.epoch = l.epoch
      /\ \A i \in DOMAIN n.cache : \E j \in DOMAIN l.cache : n.cache[i] = l.cache[j]
  <2>1. B \subseteq Cached(l)
    BY <1>3
  <2> QED BY <1>2, <2>1, FreeEntriesFacts
<1> HIDE DEF n
<1>5. Pooled(n) = Pooled(m)
  BY <1>2, <1>4 DEF Pooled
<1>6. \A b \in Buffers \ Owned(m) : n.content[b] = m.content[b]
  BY <1>2, <1>3, <1>4 DEF Owned
<1>7. ASSUME completed
      PROVE  /\ \A b, k : b \notin held /\ PinnedFor(m, b, k) => PinnedFor(n, b, k)
             /\ \A b : \A k \in Nat : PinnedFor(m, b, k + 1) => PinnedFor(n, b, k)
  <2>1. \A b : b \notin B
    BY <1>3, <1>7
  <2> QED BY <1>2, <1>4, <2>1, Zenon
<1>8. Cached(n) \subseteq Cached(m)
  BY <1>2, <1>4
<1>9. \A b \in Buffers : b \notin Cached(m) \/ b \in Cached(n) \/ completed =>
        n.content[b] = m.content[b]
  BY <1>2, <1>3, <1>4
<1>10. \A i \in DOMAIN n.cache : \E j \in DOMAIN m.cache :
         LetGone(n.cache[i], m.cache[j], held, completed)
  BY <1>2, <1>4, Zenon
<1>11. n.pool = m.pool /\ n.epoch = m.epoch
  BY <1>2, <1>4
<1> QED BY <1>1, <1>4, <1>5, <1>6, <1>7, <1>8, <1>9, <1>10, <1>11, Zenon

-------------------------------------------------------------------------------
(* The slots of a stream                                                   *)

LEMMA ModFacts ==
  ASSUME NEW n \in Nat, NEW k \in Nat, k >= 1
  PROVE  /\ n % k \in 0 .. k - 1
         /\ k >= 2 /\ n # 0 => (n - 1) % k # n % k
<1>1. n % k \in 0 .. k - 1
  OBVIOUS
<1>2. ASSUME k >= 2, n # 0, (n - 1) % k = n % k PROVE FALSE
  <2> DEFINE r == n % k
             q == n \div k
             p == (n - 1) \div k
  <2>1. r \in Nat /\ q \in Nat /\ p \in Nat /\ n - 1 \in Nat
    BY <1>1, <1>2
  <2>2. n = k * q + r
    OBVIOUS
  <2>3. n - 1 = k * p + r
    BY <1>2, <2>1
  <2> HIDE DEF r, q, p
  <2>4. k * (q - p) = 1
    BY <2>1, <2>2, <2>3
  <2> DEFINE d == q - p
  <2>5. d \in Int /\ k * d = 1
    BY <2>1, <2>4
  <2> HIDE DEF d
  <2>6. CASE d <= 0
    BY <1>2, <2>5, <2>6
  <2>7. CASE d >= 1
    <3>1. k * d >= k
      BY <2>5, <2>7
    <3> QED BY <1>2, <2>5, <3>1
  <2> QED BY <2>5, <2>6, <2>7
<1> QED BY <1>1, <1>2

LEMMA StreamFacts ==
  ASSUME ScanTypes
  PROVE  /\ SlotCount \in Nat /\ 1 <= SlotCount /\ SlotCount <= Slots
         /\ QueryChunks \in Nat /\ (SlotCount = 1 => QueryChunks <= 1)
         /\ Current \in SlotIds
         /\ at # "drain" => Current = next % SlotCount
         /\ at \in {"next", "prepare"} /\ next # 0 /\ next < QueryChunks =>
              (next - 1) % SlotCount # Current
<1>1. QueryChunks \in Nat /\ next \in Nat
  BY DEF ScanTypes, QueryChunks
<1>2. Slots \in Nat /\ Slots >= 2
  BY Constants
<1>3. SlotCount = IF QueryChunks = 0 THEN 1 ELSE IF QueryChunks < Slots THEN QueryChunks ELSE Slots
  BY DEF SlotCount, QueryChunks
<1>4. /\ SlotCount \in Nat /\ 1 <= SlotCount /\ SlotCount <= Slots
      /\ (SlotCount = 1 => QueryChunks <= 1)
  BY <1>1, <1>2, <1>3
<1>5. \A n \in Nat : n % SlotCount \in SlotIds
  <2> TAKE n \in Nat
  <2>1. n % SlotCount \in 0 .. SlotCount - 1
    BY <1>4, ModFacts
  <2> QED BY <1>2, <1>4, <2>1 DEF SlotIds
<1>6. Current \in SlotIds
  <2>1. QueryChunks + next \in Nat
    BY <1>1
  <2> QED BY <1>1, <1>5, <2>1, Zenon DEF Current
<1>7. at # "drain" => Current = next % SlotCount
  BY DEF Current
<1>8. ASSUME at \in {"next", "prepare"}, next # 0, next < QueryChunks
      PROVE  (next - 1) % SlotCount # Current
  <2>1. SlotCount >= 2
    BY <1>1, <1>4, <1>8
  <2> QED BY <1>1, <1>4, <1>7, <1>8, <2>1, ModFacts
<1> QED BY <1>1, <1>4, <1>6, <1>7, <1>8

LEMMA HolderFacts ==
  ASSUME NEW b
  PROVE  /\ IsFiniteSet(Holders(b)) /\ Cardinality(Holders(b)) \in Nat
         /\ \A s \in SlotIds : b \in slot[s].held => Cardinality(Holders(b)) \in Nat \ {0}
         /\ IsFiniteSet(Holders(b)') /\ Cardinality(Holders(b)') \in Nat
<1>1. IsFiniteSet(SlotIds) /\ SlotIds' = SlotIds
  BY Constants, FS_Interval DEF SlotIds
<1>2. Holders(b) \in SUBSET SlotIds /\ Holders(b)' \in SUBSET SlotIds
  BY <1>1 DEF Holders
<1>3. /\ IsFiniteSet(Holders(b)) /\ Cardinality(Holders(b)) \in Nat
      /\ IsFiniteSet(Holders(b)') /\ Cardinality(Holders(b)') \in Nat
  BY <1>1, <1>2, FS_Subset, FS_CardinalityType
<1>4. \A s \in SlotIds : b \in slot[s].held => Cardinality(Holders(b)) # 0
  BY <1>3, FS_EmptySet DEF Holders
<1> QED BY <1>3, <1>4

(* What all the slots are: nothing here is about a slot in particular.      *)
LEMMA SlotTypes ==
  ASSUME ScanTypes, NEW s \in SlotIds
  PROVE  /\ slot[s] \in StreamSlots
         /\ slot[s].chunk \in Nat \cup {None} /\ slot[s].columns \in Seq(Buffers)
         /\ slot[s].transient \in [ScanColumns -> Buffers \cup {None}]
         /\ slot[s].held \subseteq Buffers
         /\ slot[s].copies \subseteq [to : Buffers, column : ScanColumns]
         /\ slot[s].grown \in BOOLEAN /\ slot[s].encoded \in [ScanColumns -> Contents \cup {Nothing}]
         /\ slot[s] = [chunk |-> slot[s].chunk, columns |-> slot[s].columns,
                       transient |-> slot[s].transient, held |-> slot[s].held,
                       copies |-> slot[s].copies, grown |-> slot[s].grown,
                       encoded |-> slot[s].encoded]
         /\ Own(s) \subseteq Buffers
         /\ InUse(s) \subseteq Buffers
<1>1. slot[s] \in StreamSlots
  BY DEF ScanTypes
<1>2. /\ slot[s].chunk \in Nat \cup {None} /\ slot[s].columns \in Seq(Buffers)
      /\ slot[s].transient \in [ScanColumns -> Buffers \cup {None}]
      /\ slot[s].held \subseteq Buffers
      /\ slot[s].copies \subseteq [to : Buffers, column : ScanColumns]
      /\ slot[s].grown \in BOOLEAN /\ slot[s].encoded \in [ScanColumns -> Contents \cup {Nothing}]
      /\ slot[s] = [chunk |-> slot[s].chunk, columns |-> slot[s].columns,
                    transient |-> slot[s].transient, held |-> slot[s].held,
                    copies |-> slot[s].copies, grown |-> slot[s].grown,
                    encoded |-> slot[s].encoded]
  BY <1>1 DEF StreamSlots
<1>3. Own(s) \subseteq Buffers
  BY <1>2 DEF Own
<1>4. InUse(s) \subseteq Buffers
  BY <1>2 DEF InUse
<1> QED BY <1>1, <1>2, <1>3, <1>4

(* A step by which no slot gives up or gains a buffer.                     *)
Spared == \A b \in Buffers \ Owned(memory) :
            memory.content[b] # Nothing => b \notin Owned(memory') /\ memory'.content[b] # Nothing

LEMMA OwnKept ==
  ASSUME ScanTypes, OwnInv, Spared, \A s \in SlotIds : Own(s)' \subseteq Own(s)
  PROVE  OwnInv'
<1>1. SlotIds' = SlotIds
  BY DEF SlotIds
<1>2. ASSUME NEW s \in SlotIds, NEW b \in Own(s)'
      PROVE  b \notin Owned(memory') /\ memory'.content[b] # Nothing
  <2>1. b \in Own(s) /\ b \in Buffers
    BY <1>2, SlotTypes
  <2>2. b \notin Owned(memory) /\ memory.content[b] # Nothing
    BY <2>1 DEF OwnInv, Owned
  <2> QED BY <2>1, <2>2 DEF Spared
<1>3. ASSUME NEW s \in SlotIds, NEW t \in SlotIds, s # t
      PROVE  Own(s)' \cap Own(t)' = {}
  <2>1. Own(s) \cap Own(t) = {}
    BY <1>3 DEF OwnInv
  <2> QED BY <2>1
<1>4. \A s \in SlotIds : Own(s)' \cap (Pooled(memory) \cup Cached(memory))' = {}
  BY <1>2 DEF Owned
<1> QED BY <1>1, <1>2, <1>3, <1>4 DEF OwnInv

LEMMA HeldKept ==
  ASSUME ScanTypes, HeldInv,
         \A b : \A k \in Nat \ {0} : PinnedFor(memory, b, k) => PinnedFor(memory', b, k),
         \A s \in SlotIds : /\ slot'[s].columns = slot[s].columns /\ slot'[s].held = slot[s].held
                            /\ slot'[s].transient = slot[s].transient
  PROVE  HeldInv'
<1>1. SlotIds' = SlotIds
  BY DEF SlotIds
<1>2. \A b : Holders(b)' = Holders(b)
  BY <1>1 DEF Holders
<1>3. ASSUME NEW s \in SlotIds
      PROVE  /\ InUse(s)' \subseteq Own(s)' \cup slot'[s].held
             /\ \A b \in slot'[s].held : PinnedFor(memory', b, Cardinality(Holders(b)'))
  <2>1. InUse(s)' = InUse(s) /\ Own(s)' = Own(s) /\ slot'[s].held = slot[s].held
    BY <1>3 DEF InUse, Own
  <2>2. /\ InUse(s) \subseteq Own(s) \cup slot[s].held
        /\ \A b \in slot[s].held : PinnedFor(memory, b, Cardinality(Holders(b)))
    BY DEF HeldInv
  <2>3. \A b \in slot[s].held : Cardinality(Holders(b)) \in Nat \ {0}
    BY HolderFacts
  <2> QED BY <1>2, <2>1, <2>2, <2>3
<1> QED BY <1>1, <1>3 DEF HeldInv

LEMMA ServedKeeps ==
  ASSUME ScanTypes, OwnInv, HeldInv, Serves(memory, memory'),
         \A s \in SlotIds : /\ slot'[s].columns = slot[s].columns /\ slot'[s].held = slot[s].held
                            /\ slot'[s].transient = slot[s].transient
  PROVE  OwnInv' /\ HeldInv' /\ Apart(memory')
<1>1. Spared
  BY DEF Spared, Serves
<1>2. \A s \in SlotIds : Own(s)' = Own(s)
  BY DEF Own
<1>3. OwnInv'
  BY <1>1, <1>2, OwnKept
<1>4. HeldInv'
  BY HeldKept DEF Serves
<1> QED BY <1>3, <1>4 DEF Serves

LEMMA ColumnTypes ==
  ASSUME ScanTypes, NEW c \in ScanColumns
  PROVE  /\ column[c] \in ColumnStates
         /\ column[c].write_generation \in Nat /\ column[c].rows \in Nat
         /\ column[c].upload_rows \in Nat
         /\ column[c] = [write_generation |-> column[c].write_generation, rows |-> column[c].rows,
                         upload_generation |-> column[c].upload_generation,
                         upload_rows |-> column[c].upload_rows,
                         agg_generation |-> column[c].agg_generation,
                         agg_buffer |-> column[c].agg_buffer]
BY DEF ScanTypes, ColumnStates

LEMMA ColumnChanged ==
  ASSUME NEW k \in ColumnStates, NEW x \in Nat, NEW y \in Nat
  PROVE  /\ [k EXCEPT !.write_generation = x, !.rows = y] \in ColumnStates
         /\ [k EXCEPT !.upload_generation = x, !.upload_rows = y] \in ColumnStates
         /\ [k EXCEPT !.agg_generation = x, !.agg_buffer = y] \in ColumnStates
BY DEF ColumnStates

LEMMA SameSlots ==
  ASSUME Apart(memory), OwnInv, HeldInv, EncodedInv, memory' = memory, slot' = slot
  PROVE  Apart(memory') /\ OwnInv' /\ HeldInv' /\ EncodedInv'
<1>1. \A s : Own(s)' = Own(s) /\ InUse(s)' = InUse(s) /\ Holders(s)' = Holders(s)
  BY DEF Own, InUse, Holders, SlotIds
<1> QED BY <1>1 DEF OwnInv, HeldInv, EncodedInv, SlotIds

-------------------------------------------------------------------------------
(* Beginning a query                                                       *)

LEMMA OrdersFacts ==
  ASSUME NEW order \in Orders
  PROVE  order \in Seq(ScanColumns)
<1>1. PICK S \in (SUBSET ScanColumns) \ {{}} : order = SetToSeq(S)
  BY DEF Orders
<1>2. IsFiniteSet(S) /\ S \subseteq ScanColumns
  BY Constants, FS_Subset
<1>3. PICK f : f \in Bijection(1 .. Cardinality(S), S)
  BY <1>2, FS_CardinalityType DEF ExistsBijection
<1>4. Cardinality(S) \in Nat
  BY <1>2, FS_CardinalityType
<1>5. f \in [1 .. Cardinality(S) -> S] /\ IsInjective(f)
  BY <1>3 DEF Bijection, Injection, IsInjective
<1>6. SetToSeq(S) \in [1 .. Cardinality(S) -> S]
  BY <1>5 DEF SetToSeq
<1> QED BY <1>1, <1>2, <1>4, <1>6

LEMMA ChunkLists ==
  /\ AllChunks \in Seq(Nat)
  /\ \A f \in Ascents : f \in Seq(Nat)
<1>1. MaxChunks \in Nat
  BY Constants
<1>2. AllChunks \in Seq(Nat)
  BY <1>1 DEF AllChunks
<1>3. ASSUME NEW f \in Ascents PROVE f \in Seq(Nat)
  <2>1. PICK n \in 0 .. MaxChunks : f \in [1 .. n -> 1 .. MaxChunks]
    BY <1>3 DEF Ascents
  <2>2. n \in Nat
    BY <1>1, <2>1
  <2>3. f \in [1 .. n -> Nat]
    BY <1>1, <2>1
  <2> QED BY <2>2, <2>3
<1> QED BY <1>2, <1>3

LEMMA FaultFacts ==
  ASSUME NEW f, NEW fault \in Fault(f)
  PROVE  fault \in BOOLEAN
BY DEF Fault

LEMMA AskKeeps ==
  ASSUME ScanInv, NEW kind, NEW order \in Orders, NEW chunks \in Seq(Nat), NEW fails \in BOOLEAN,
         Ask(kind, order, chunks, fails),
         at' \in (IF fails THEN {"drain"} ELSE {"bind", "next"})
  PROVE  ScanInv'
<1> USE DEF ScanInv
<1>1. /\ query' = [kind |-> kind, columns |-> order, chunks |-> chunks]
      /\ memory' = [memory EXCEPT !.epoch = @ + 1, !.failed = fails]
      /\ next' = 0 /\ deferred' = None /\ ok' = ~fails /\ bound' = <<>>
      /\ column' = column /\ slot' = slot /\ work' = work /\ at = "idle"
  BY DEF Ask, stream
<1>2. \A s \in SlotIds : slot[s] = IdleSlot /\ work[s] = "none"
  BY <1>1 DEF HostInv
<1>3. Shrinks(memory, memory')
  <2>1. memory \in Memories
    BY DEF ScanTypes
  <2>2. memory' = [content |-> memory.content, pool |-> memory.pool, epoch |-> memory.epoch + 1,
                   cache |-> memory.cache, failed |-> fails]
    <3>1. memory = [content |-> memory.content, pool |-> memory.pool, epoch |-> memory.epoch,
                    cache |-> memory.cache, failed |-> memory.failed]
      BY <2>1, MemoryFacts
    <3> QED BY <1>1, <3>1
  <2>3. /\ memory' \in Memories /\ memory'.content = memory.content
        /\ memory'.cache = memory.cache /\ memory'.pool = memory.pool
    BY <2>1, <2>2, MemoryFacts DEF Memories
  <2> QED BY <2>1, <2>3, SameServes
<1>4. ScanTypes'
  <2>1. memory' \in Memories
    BY <1>3 DEF Shrinks, Serves
  <2>2. order \in Seq(ScanColumns)
    BY OrdersFacts
  <2>3. at' \in {"idle", "bind", "next", "prepare", "drain"}
    OBVIOUS
  <2> QED BY <1>1, <2>1, <2>2, <2>3 DEF ScanTypes, SlotIds
<1>5. OwnInv' /\ HeldInv' /\ Apart(memory')
  BY <1>1, <1>3, ServedKeeps DEF Shrinks
<1>6. HostInv'
  BY <1>1, <1>2 DEF HostInv, SlotIds, IdleSlot
<1>7. ChunkInv'
  BY <1>1, <1>2 DEF ChunkInv, Busy, SlotIds, IdleSlot
<1>8. EncodedInv'
  BY <1>1, <1>2 DEF EncodedInv, SlotIds, IdleSlot
<1> QED BY <1>4, <1>5, <1>6, <1>7, <1>8

LEMMA BeginKeeps ==
  ASSUME ScanInv, BeginScan \/ BeginAll \/ BeginWhole \/ BeginResident
  PROVE  ScanInv'
<1>1. ASSUME NEW kind, NEW chunks \in Seq(Nat), Streamed(kind, chunks) PROVE ScanInv'
  <2>1. PICK order \in Orders, fails \in Fault("begin") :
          Ask(kind, order, chunks, fails) /\ at' = IF fails THEN "drain" ELSE "next"
    BY <1>1, Zenon DEF Streamed
  <2> QED BY <2>1, AskKeeps, FaultFacts
<1>2. ASSUME NEW kind, NEW order \in Orders, Ask(kind, order, <<>>, FALSE), at' = "bind"
      PROVE  ScanInv'
  <2>1. <<>> \in Seq(Nat) /\ FALSE \in BOOLEAN
    OBVIOUS
  <2>2. at' \in IF FALSE THEN {"drain"} ELSE {"bind", "next"}
    BY <1>2
  <2> QED BY <1>2, <2>1, <2>2, AskKeeps
<1>3. BeginScan => ScanInv'
  BY <1>1, ChunkLists, Zenon DEF BeginScan
<1>4. BeginAll => ScanInv'
  BY <1>1, ChunkLists, Zenon DEF BeginAll
<1>5. BeginWhole => ScanInv'
  BY <1>2, Zenon DEF BeginWhole
<1>6. BeginResident => ScanInv'
  BY <1>2, Zenon DEF BeginResident
<1> QED BY <1>3, <1>4, <1>5, <1>6

LEMMA WriteKeeps ==
  ASSUME ScanInv, NEW c \in ScanColumns, Write(c)
  PROVE  ScanInv'
<1> USE DEF ScanInv
<1>1. /\ UNCHANGED <<memory, query, at, next, ok, deferred, slot, work, bound>>
      /\ \E data \in 1 .. 2 :
           column' = [column EXCEPT ![c] = [column[c] EXCEPT !.write_generation = @ + 1, !.rows = data]]
  BY DEF Write, host, stream
<1>2. ScanTypes'
  <2>1. PICK data \in 1 .. 2 :
          column' = [column EXCEPT ![c] = [column[c] EXCEPT !.write_generation = @ + 1, !.rows = data]]
    BY <1>1
  <2>2. column' = [column EXCEPT ![c] = [column[c] EXCEPT
                                          !.write_generation = column[c].write_generation + 1,
                                          !.rows = data]]
    BY <2>1, Zenon
  <2>3. [column[c] EXCEPT !.write_generation = column[c].write_generation + 1, !.rows = data]
          \in ColumnStates
    <3>1. column[c] \in ColumnStates /\ column[c].write_generation \in Nat
      BY ColumnTypes, Zenon
    <3>2. column[c].write_generation + 1 \in Nat /\ data \in Nat
      BY <3>1
    <3> QED BY <3>1, <3>2, ColumnChanged, Zenon
  <2>4. column' \in [ScanColumns -> ColumnStates]
    BY <2>2, <2>3 DEF ScanTypes
  <2> QED BY <1>1, <2>4 DEF ScanTypes, SlotIds
<1>3. HostInv' /\ ChunkInv'
  BY <1>1 DEF HostInv, ChunkInv, Busy, SlotIds, SlotCount, QueryChunks, Current, IdleSlot
<1>4. Apart(memory') /\ OwnInv' /\ HeldInv' /\ EncodedInv'
  BY <1>1, SameSlots
<1> QED BY <1>2, <1>3, <1>4

(* A query reads a chunk that it asked for.                                *)
LEMMA ChunkAsked ==
  ASSUME ScanTypes, next < QueryChunks
  PROVE  query.chunks[next + 1] \in Nat
BY DEF ScanTypes, QueryChunks

-------------------------------------------------------------------------------
(* The stream                                                              *)

LEMMA RetireNothingKeeps ==
  ASSUME ScanInv, RetireNothing
  PROVE  ScanInv'
<1> USE DEF ScanInv
<1>1. /\ UNCHANGED <<memory, column, query, ok, deferred, slot, work, bound>>
      /\ Collecting(Current) /\ slot[Current].chunk = None /\ Resume
  BY DEF RetireNothing, stream
<1>2. \/ at = "next" /\ next < QueryChunks /\ at' = "prepare" /\ next' = next
      \/ at = "drain" /\ at' = at /\ next' = next + 1
  BY <1>1 DEF Collecting, Resume
<1>3. ScanTypes'
  BY <1>1, <1>2 DEF ScanTypes, SlotIds
<1>4. Apart(memory') /\ OwnInv' /\ HeldInv' /\ EncodedInv'
  BY <1>1, SameSlots
<1>5. ChunkInv'
  BY <1>1 DEF ChunkInv, Busy, SlotIds
<1>6. SlotCount' = SlotCount /\ QueryChunks' = QueryChunks
  BY <1>1 DEF SlotCount, QueryChunks
<1>7. at' = "prepare" => Current' = Current
  BY <1>1, <1>2, <1>6 DEF Current
<1>8. HostInv'
  BY <1>1, <1>2, <1>6, <1>7 DEF HostInv, SlotIds
<1> QED BY <1>3, <1>4, <1>5, <1>8

LEMMA WaitOnlyKeeps ==
  ASSUME ScanInv, WaitOnly
  PROVE  ScanInv'
<1> USE DEF ScanInv
<1>1. /\ UNCHANGED <<memory, column, query, at, ok, deferred, slot, work, bound>>
      /\ at = "drain" /\ ~ok /\ next' = next + 1
  BY DEF WaitOnly, stream
<1>2. ScanTypes'
  BY <1>1 DEF ScanTypes, SlotIds
<1>3. Apart(memory') /\ OwnInv' /\ HeldInv' /\ EncodedInv'
  BY <1>1, SameSlots
<1>4. ChunkInv' /\ HostInv'
  BY <1>1 DEF ChunkInv, HostInv, Busy, SlotIds
<1> QED BY <1>2, <1>3, <1>4

(* Submitting the slot before takes it out of the recorded ones.            *)
LEMMA SubmitLastKeeps ==
  ASSUME ScanInv, SubmitLast
  PROVE  ScanInv'
<1> USE DEF ScanInv
<1>1. /\ UNCHANGED <<memory, column, query, deferred, slot, bound>>
      /\ at = "next" /\ ok /\ next = QueryChunks /\ at' = "drain" /\ next' = 0
  BY DEF SubmitLast, stream
<1>2. PICK fails \in Fault("submit") : work' = SubmitDeferred(fails, work) /\ ok' = ~fails
  BY DEF SubmitLast
<1>3. fails \in BOOLEAN
  BY FaultFacts
<1>4. deferred = None => work' = work
  BY <1>2 DEF SubmitDeferred
<1>5. ASSUME deferred # None
      PROVE  /\ deferred \in SlotIds /\ work[deferred] = "recorded"
             /\ work' = [work EXCEPT ![deferred] = IF fails THEN "none" ELSE "submitted"]
  BY <1>1, <1>2, <1>5 DEF SubmitDeferred, ScanTypes, HostInv
<1>6. ScanTypes'
  <2>1. work' \in [SlotIds -> {"none", "recorded", "submitted", "copied", "done"}]
    BY <1>4, <1>5 DEF ScanTypes
  <2> QED BY <1>1, <1>2, <1>3, <2>1 DEF ScanTypes, SlotIds
<1>7. Apart(memory') /\ OwnInv' /\ HeldInv' /\ EncodedInv'
  BY <1>1, SameSlots
<1>8. \A s \in SlotIds : /\ work'[s] \in {"recorded", "submitted", "copied"} => Busy(s)
                         /\ work'[s] # "recorded"
  <2> TAKE s \in SlotIds
  <2>1. work \in [SlotIds -> {"none", "recorded", "submitted", "copied", "done"}]
    BY DEF ScanTypes
  <2>2. work[s] = "recorded" => deferred = s
    BY <1>1 DEF HostInv
  <2>3. CASE s = deferred
    <3>1. deferred # None
      BY <2>3, Constants DEF SlotIds
    <3> QED BY <1>5, <2>1, <2>3, <3>1 DEF Busy
  <2>4. CASE s # deferred
    BY <1>4, <1>5, <2>1, <2>2, <2>4 DEF Busy
  <2> QED BY <2>3, <2>4
<1>9. ChunkInv'
  BY <1>1, <1>8 DEF ChunkInv, Busy, SlotIds
<1>10. HostInv'
  BY <1>1, <1>8 DEF HostInv, SlotIds
<1> QED BY <1>6, <1>7, <1>9, <1>10

(* After a failure nothing is asked of the slots but to wait.               *)
LEMMA GiveUpKeeps ==
  ASSUME ScanTypes, GiveUp, at # "idle"
  PROVE  /\ ok' = FALSE /\ next' \in Nat /\ at' = "drain"
         /\ HostInv'
<1>1. ok' = FALSE /\ next' \in Nat /\ at' = "drain"
  BY DEF GiveUp, ScanTypes
<1> QED BY <1>1 DEF HostInv

LEMMA WorkTypes ==
  ASSUME ScanTypes, NEW s \in SlotIds,
         NEW d \in {"none", "recorded", "submitted", "copied", "done"}
  PROVE  LET w == [work EXCEPT ![s] = d]
         IN  /\ w \in [SlotIds -> {"none", "recorded", "submitted", "copied", "done"}]
             /\ w[s] = d /\ \A t \in SlotIds : t # s => w[t] = work[t]
BY DEF ScanTypes

LEMMA NewSlot ==
  ASSUME ScanTypes, NEW s \in SlotIds, NEW l \in StreamSlots
  PROVE  LET n == [slot EXCEPT ![s] = l]
         IN  /\ n \in [SlotIds -> StreamSlots]
             /\ n[s] = l /\ \A t \in SlotIds : t # s => n[t] = slot[t]
BY DEF ScanTypes

(* The slot that was recorded last waits for the next one.                  *)
LEMMA DeferredFacts ==
  ASSUME ScanTypes, HostInv, at \in {"next", "prepare"}, next # 0
  PROVE  /\ deferred \in SlotIds /\ deferred # None /\ work[deferred] = "recorded"
         /\ next < QueryChunks => deferred # Current
<1>1. deferred = (next - 1) % SlotCount /\ work[deferred] = "recorded"
  BY DEF HostInv
<1>2. SlotCount \in Nat /\ SlotCount >= 1 /\ SlotCount <= Slots /\ Slots \in Nat
  BY StreamFacts, Constants
<1>3. next - 1 \in Nat
  BY DEF ScanTypes
<1>4. (next - 1) % SlotCount \in 0 .. SlotCount - 1
  BY <1>2, <1>3, ModFacts
<1>5. deferred \in SlotIds /\ deferred # None
  BY <1>1, <1>2, <1>4, Constants DEF SlotIds
<1> QED BY <1>1, <1>5, StreamFacts

LEMMA SlotEmptied ==
  ASSUME NEW k \in StreamSlots
  PROVE  LET l == [k EXCEPT !.held = {}, !.chunk = None, !.columns = <<>>, !.copies = {}]
         IN  /\ l \in StreamSlots /\ l.chunk = None /\ l.columns = <<>> /\ l.held = {}
             /\ l.transient = k.transient /\ l.copies = {}
<1> DEFINE l == [k EXCEPT !.held = {}, !.chunk = None, !.columns = <<>>, !.copies = {}]
<1>1. <<>> \in Seq(Buffers) /\ {} \subseteq Buffers /\ {} \subseteq [to : Buffers, column : ScanColumns]
  OBVIOUS
<1>2. l \in StreamSlots
  BY <1>1 DEF StreamSlots
<1>3. l.chunk = None /\ l.columns = <<>> /\ l.held = {}
  BY DEF StreamSlots
<1>4. l.transient = k.transient /\ l.copies = {}
  BY DEF StreamSlots
<1> QED BY <1>2, <1>3, <1>4

LEMMA RetireOverflowKeeps ==
  ASSUME ScanInv, RetireOverflow
  PROVE  ScanInv'
<1> USE DEF ScanInv
<1> DEFINE s == Current
           l == [slot[s] EXCEPT !.grown = TRUE, !.copies = {}]
<1>1. PICK fails \in Fault("begin") :
        /\ memory' = [memory EXCEPT !.failed = @ \/ fails]
        /\ IF fails THEN GiveUp /\ UNCHANGED <<slot, work>>
           ELSE /\ slot' = [slot EXCEPT ![s] = l]
                /\ work' = [work EXCEPT ![s] = "submitted"]
                /\ UNCHANGED <<at, next, ok>>
  BY Zenon DEF RetireOverflow
<1>2. /\ UNCHANGED <<column, query, deferred, bound>>
      /\ Collecting(s) /\ slot[s].chunk # None /\ Waited(s)
  BY DEF RetireOverflow
<1>3. s \in SlotIds /\ s # None
  BY StreamFacts, Constants DEF SlotIds
<1>4. ok /\ (at = "drain" \/ (at = "next" /\ next < QueryChunks))
  BY <1>2 DEF Collecting
<1>5. Serves(memory, memory')
  <2>1. (memory.failed \/ fails) \in BOOLEAN
    OBVIOUS
  <2>2. memory' = [memory EXCEPT !.failed = (memory.failed \/ fails)]
    BY <1>1, Zenon
  <2> QED BY <2>1, <2>2, FailedServes DEF ScanTypes, Shrinks
<1>6. CASE fails
  <2>1. GiveUp /\ UNCHANGED <<slot, work>>
    BY <1>1, <1>6
  <2>2. ScanTypes' /\ HostInv'
    BY <1>2, <1>4, <1>5, <2>1, GiveUpKeeps DEF ScanTypes, SlotIds, Serves
  <2>3. OwnInv' /\ HeldInv' /\ Apart(memory')
    BY <1>5, <2>1, ServedKeeps
  <2>4. ChunkInv' /\ EncodedInv'
    BY <1>2, <2>1 DEF ChunkInv, EncodedInv, Busy, SlotIds
  <2> QED BY <2>2, <2>3, <2>4
<1>7. CASE ~fails
  <2>1. /\ slot' = [slot EXCEPT ![s] = l] /\ work' = [work EXCEPT ![s] = "submitted"]
        /\ UNCHANGED <<at, next, ok>>
    BY <1>1, <1>7
  <2>2. /\ l \in StreamSlots /\ l.chunk = slot[s].chunk /\ l.columns = slot[s].columns
        /\ l.held = slot[s].held /\ l.transient = slot[s].transient /\ l.copies = {}
    BY <1>3, SlotTypes DEF StreamSlots
  <2> HIDE DEF l
  <2>3. /\ slot' \in [SlotIds -> StreamSlots] /\ slot'[s] = l
        /\ \A t \in SlotIds : t # s => slot'[t] = slot[t]
    BY <1>3, <2>1, <2>2, NewSlot
  <2>4. /\ work' \in [SlotIds -> {"none", "recorded", "submitted", "copied", "done"}]
        /\ work'[s] = "submitted" /\ \A t \in SlotIds : t # s => work'[t] = work[t]
    BY <1>3, <2>1, WorkTypes
  <2> HIDE DEF s
  <2>5. ScanTypes'
    BY <1>2, <1>5, <2>1, <2>3, <2>4 DEF ScanTypes, SlotIds, Serves
  <2>6. OwnInv' /\ HeldInv' /\ Apart(memory')
    <3>1. \A t \in SlotIds : /\ slot'[t].columns = slot[t].columns
                             /\ slot'[t].held = slot[t].held
                             /\ slot'[t].transient = slot[t].transient
      BY <2>2, <2>3
    <3> QED BY <1>5, <3>1, ServedKeeps
  <2>7. SlotIds' = SlotIds /\ SlotCount' = SlotCount /\ QueryChunks' = QueryChunks
    BY <1>2 DEF SlotIds, SlotCount, QueryChunks
  <2>8. ChunkInv'
    <3>1. \A t \in SlotIds : slot'[t].chunk = slot[t].chunk /\ slot'[t].columns = slot[t].columns
      BY <2>2, <2>3
    <3>2. \A t \in SlotIds : (work'[t] \in {"recorded", "submitted", "copied"}) =>
                                Busy(t) \/ t = s
      BY <2>4 DEF Busy
    <3> QED BY <1>2, <2>7, <3>1, <3>2 DEF ChunkInv, Busy
  <2>9. EncodedInv'
    BY <2>2, <2>3, <2>7 DEF EncodedInv
  <2>10. HostInv'
    <3>1. at = "next" /\ next # 0 => deferred \in SlotIds /\ deferred # s
      BY <1>4, DeferredFacts DEF s
    <3>2. \A t \in SlotIds : work'[t] = "recorded" => work[t] = "recorded"
      BY <2>4
    <3>3. at = "next" /\ next # 0 => /\ deferred = (next - 1) % SlotCount
                                    /\ work'[deferred] = "recorded"
      <4> HAVE at = "next" /\ next # 0
      <4>1. deferred = (next - 1) % SlotCount /\ work[deferred] = "recorded"
        BY DEF HostInv
      <4> QED BY <2>4, <3>1, <4>1
    <3> QED BY <1>2, <1>4, <2>1, <2>7, <3>2, <3>3 DEF HostInv
  <2> QED BY <2>5, <2>6, <2>8, <2>9, <2>10
<1> QED BY <1>6, <1>7

(* What a slot holds is pinned for each of its holders; a slot that gives   *)
(* it back takes one of the pins.                                          *)
LEMMA RetireKeeps ==
  ASSUME ScanInv, Retire
  PROVE  ScanInv'
<1> USE DEF ScanInv
<1> DEFINE s == Current
           l == [slot[s] EXCEPT !.held = {}, !.chunk = None, !.columns = <<>>, !.copies = {}]
           n == Unpin(memory, slot[s].held, TRUE)
<1>1. /\ UNCHANGED <<column, query, ok, deferred, work, bound>>
      /\ Collecting(s) /\ slot[s].chunk # None /\ Waited(s)
      /\ memory' = n /\ slot' = [slot EXCEPT ![s] = l] /\ Resume
  BY Zenon DEF Retire
<1>2. s \in SlotIds /\ s # None
  BY StreamFacts, Constants DEF SlotIds
<1>3. /\ ok
      /\ \/ at = "next" /\ next < QueryChunks /\ at' = "prepare" /\ next' = next
         \/ at = "drain" /\ at' = at /\ next' = next + 1
  BY <1>1 DEF Collecting, Resume
<1>4. /\ n \in Memories /\ Apart(n) /\ Pooled(n) = Pooled(memory) /\ Cached(n) \subseteq Cached(memory)
      /\ \A b \in Buffers \ Owned(memory) : n.content[b] = memory.content[b]
      /\ \A b, k : b \notin slot[s].held /\ PinnedFor(memory, b, k) => PinnedFor(n, b, k)
      /\ \A b : \A k \in Nat : PinnedFor(memory, b, k + 1) => PinnedFor(n, b, k)
  <2>1. memory \in Memories /\ Apart(memory)
    BY DEF ScanTypes
  <2> QED BY <2>1, UnpinFacts, ZenonT(60)
<1> HIDE DEF n
<1>5. /\ l \in StreamSlots /\ l.chunk = None /\ l.columns = <<>> /\ l.held = {}
      /\ l.transient = slot[s].transient /\ l.copies = {}
  BY <1>2, SlotTypes, SlotEmptied
<1> HIDE DEF l
<1>6. /\ slot' \in [SlotIds -> StreamSlots] /\ slot'[s] = l
      /\ \A t \in SlotIds : t # s => slot'[t] = slot[t]
  BY <1>1, <1>2, <1>5, NewSlot
<1>7. ~Busy(s)
  <2>1. work[s] = "recorded" => deferred = s /\ at = "next"
    BY <1>2, <1>3 DEF HostInv
  <2>2. at = "next" /\ next = 0 => deferred = None
    BY DEF HostInv
  <2>3. at = "next" /\ next # 0 /\ next < QueryChunks => deferred # s
    BY DeferredFacts
  <2>4. work[s] # "recorded"
    BY <1>2, <1>3, <2>1, <2>2, <2>3, Zenon
  <2> QED BY <1>1, <2>4 DEF Busy, Waited
<1>8. SlotIds' = SlotIds /\ SlotCount' = SlotCount /\ QueryChunks' = QueryChunks
  BY <1>1 DEF SlotIds, SlotCount, QueryChunks
<1>9. at' = "prepare" => Current' = s
  BY <1>3, <1>8 DEF Current
<1> HIDE DEF s
<1>10. ScanTypes'
  <2>1. next' \in Nat /\ at' \in {"idle", "bind", "next", "prepare", "drain"}
    BY <1>3 DEF ScanTypes
  <2> QED BY <1>1, <1>4, <1>6, <1>8, <2>1 DEF ScanTypes
<1>11. OwnInv'
  <2>1. Spared
    <3>1. Owned(memory') \subseteq Owned(memory)
      BY <1>1, <1>4 DEF Owned
    <3> QED BY <1>1, <1>4, <3>1 DEF Spared
  <2>2. \A t \in SlotIds : Own(t)' \subseteq Own(t)
    BY <1>5, <1>6 DEF Own
  <2> QED BY <2>1, <2>2, OwnKept
<1>12. HeldInv'
  <2>1. ASSUME NEW t \in SlotIds, NEW b \in slot'[t].held
        PROVE  PinnedFor(memory', b, Cardinality(Holders(b)'))
    <3>1. t # s /\ b \in slot[t].held
      BY <1>5, <1>6, <2>1
    <3>2. PinnedFor(memory, b, Cardinality(Holders(b)))
      BY <3>1 DEF HeldInv
    <3>3. Holders(b)' = Holders(b) \ {s}
      BY <1>5, <1>6, <1>8 DEF Holders
    <3>4. CASE b \in slot[s].held
      <4>1. s \in Holders(b)
        BY <1>2, <3>4 DEF Holders
      <4>2. Cardinality(Holders(b)') = Cardinality(Holders(b)) - 1
        BY <3>3, <4>1, HolderFacts, FS_RemoveElement
      <4>3. Cardinality(Holders(b)') \in Nat /\ Cardinality(Holders(b)) \in Nat
        BY HolderFacts
      <4>4. Cardinality(Holders(b)) = Cardinality(Holders(b)') + 1
        BY <4>2, <4>3
      <4> QED BY <1>1, <1>4, <3>2, <4>3, <4>4
    <3>5. CASE b \notin slot[s].held
      <4>1. s \notin Holders(b)
        BY <3>5 DEF Holders
      <4>2. Holders(b)' = Holders(b)
        BY <3>3, <4>1
      <4> QED BY <1>1, <1>4, <3>2, <3>5, <4>2
    <3> QED BY <3>4, <3>5
  <2>2. \A t \in SlotIds : InUse(t)' \subseteq Own(t)' \cup slot'[t].held
    <3> TAKE t \in SlotIds
    <3>1. CASE t = s
      BY <1>5, <1>6, <3>1 DEF InUse
    <3>2. CASE t # s
      <4>1. InUse(t)' = InUse(t) /\ Own(t)' = Own(t) /\ slot'[t].held = slot[t].held
        BY <1>6, <3>2 DEF InUse, Own
      <4> QED BY <4>1 DEF HeldInv
    <3> QED BY <3>1, <3>2
  <2> QED BY <1>8, <2>1, <2>2 DEF HeldInv
<1>13. ChunkInv'
  BY <1>1, <1>5, <1>6, <1>7, <1>8 DEF ChunkInv, Busy
<1>14. EncodedInv'
  BY <1>5, <1>6, <1>8 DEF EncodedInv
<1>15. HostInv'
  <2>1. at' = "prepare" => next' < QueryChunks' /\ slot'[Current'].chunk = None
    BY <1>3, <1>5, <1>6, <1>8, <1>9
  <2>2. at' \notin {"idle", "bind", "next"}
    BY <1>3
  <2>3. at' = "prepare" =>
          /\ ok' /\ (next' = 0 => deferred' = None)
          /\ next' # 0 => deferred' = (next' - 1) % SlotCount' /\ work'[deferred'] = "recorded"
    BY <1>1, <1>3, <1>8 DEF HostInv
  <2>4. \A t \in SlotIds' : work'[t] = "recorded" /\ ok' =>
                              deferred' = t /\ at' \in {"next", "prepare"}
    BY <1>1, <1>3, <1>8 DEF HostInv
  <2> QED BY <2>1, <2>2, <2>3, <2>4 DEF HostInv
<1>16. Apart(memory')
  BY <1>1, <1>4
<1> QED BY <1>10, <1>11, <1>12, <1>13, <1>14, <1>15, <1>16

LEMMA LaunchKeeps ==
  ASSUME ScanInv, Launch
  PROVE  ScanInv'
<1> USE DEF ScanInv
<1> DEFINE s == Current
           l == [slot[s] EXCEPT !.chunk = query.chunks[next + 1], !.grown = FALSE]
           w == [work EXCEPT ![s] = "recorded"]
<1>1. PICK begins \in Fault("begin"), fails \in Fault("submit") :
        IF begins THEN GiveUp /\ UNCHANGED <<slot, work, deferred>>
        ELSE /\ slot' = [slot EXCEPT ![s] = l]
             /\ work' = SubmitDeferred(fails, w)
             /\ deferred' = s
             /\ IF fails THEN GiveUp ELSE at' = "next" /\ next' = next + 1 /\ UNCHANGED ok
  BY Zenon DEF Launch
<1>2. /\ UNCHANGED <<memory, column, query, bound>>
      /\ at = "prepare" /\ Len(slot[s].columns) = Len(query.columns)
  BY DEF Launch
<1>3. s \in SlotIds /\ s # None
  BY StreamFacts, Constants DEF SlotIds
<1>4. next < QueryChunks /\ next \in Nat /\ query.chunks[next + 1] \in Nat
  BY <1>2, ChunkAsked DEF HostInv, ScanTypes
<1>5. SlotIds' = SlotIds /\ SlotCount' = SlotCount /\ QueryChunks' = QueryChunks
  BY <1>2 DEF SlotIds, SlotCount, QueryChunks
<1>6. CASE begins
  <2>1. GiveUp /\ UNCHANGED <<slot, work, deferred>>
    BY <1>1, <1>6
  <2>2. ScanTypes' /\ HostInv'
    BY <1>2, <1>5, <2>1, GiveUpKeeps DEF ScanTypes
  <2>3. Apart(memory') /\ OwnInv' /\ HeldInv' /\ EncodedInv'
    BY <1>2, <2>1, SameSlots
  <2>4. ChunkInv'
    BY <1>2, <1>5, <2>1 DEF ChunkInv, Busy
  <2> QED BY <2>2, <2>3, <2>4
<1>7. CASE ~begins
  <2>1. /\ slot' = [slot EXCEPT ![s] = l] /\ work' = SubmitDeferred(fails, w) /\ deferred' = s
        /\ \/ fails /\ GiveUp
           \/ ~fails /\ at' = "next" /\ next' = next + 1 /\ ok' = ok
    BY <1>1, <1>7
  <2>2. /\ l \in StreamSlots /\ l.chunk = query.chunks[next + 1] /\ l.columns = slot[s].columns
        /\ l.held = slot[s].held /\ l.transient = slot[s].transient /\ l.copies = slot[s].copies
        /\ l.encoded = slot[s].encoded
    BY <1>3, <1>4, SlotTypes DEF StreamSlots
  <2> HIDE DEF l
  <2>3. /\ slot' \in [SlotIds -> StreamSlots] /\ slot'[s] = l
        /\ \A t \in SlotIds : t # s => slot'[t] = slot[t]
    BY <1>3, <2>1, <2>2, NewSlot
  <2>4. /\ w \in [SlotIds -> {"none", "recorded", "submitted", "copied", "done"}]
        /\ w[s] = "recorded" /\ \A t \in SlotIds : t # s => w[t] = work[t]
    BY <1>3, WorkTypes
  <2> HIDE DEF w
  <2>5. next # 0 => /\ deferred \in SlotIds /\ deferred # None /\ deferred # s
                   /\ work[deferred] = "recorded"
    BY <1>2, <1>4, DeferredFacts
  <2>6. next = 0 => deferred = None
    BY <1>2 DEF HostInv
  <2> HIDE DEF s
  <2>7. /\ work' \in [SlotIds -> {"none", "recorded", "submitted", "copied", "done"}]
        /\ work'[s] = "recorded"
        /\ \A t \in SlotIds : t # s =>
             /\ work'[t] # "recorded"
             /\ work'[t] \in {"submitted", "copied"} => Busy(t)
    <3>1. \A t \in SlotIds : t # s /\ w[t] = "recorded" => t = deferred
      BY <1>2, <2>4 DEF HostInv
    <3>2. CASE next = 0
      <4>1. work' = w
        BY <2>1, <2>6, <3>2 DEF SubmitDeferred
      <4>2. \A t \in SlotIds : t # None
        BY Constants DEF SlotIds
      <4> QED BY <2>4, <2>6, <3>1, <3>2, <4>1, <4>2 DEF Busy
    <3>3. CASE next # 0
      <4>1. work' = [w EXCEPT ![deferred] = IF fails THEN "none" ELSE "submitted"]
        BY <2>1, <2>5, <3>3 DEF SubmitDeferred
      <4>2. work'[s] = "recorded"
        BY <1>3, <2>4, <2>5, <3>3, <4>1
      <4>3. work' \in [SlotIds -> {"none", "recorded", "submitted", "copied", "done"}]
        BY <2>4, <4>1
      <4>4. \A t \in SlotIds : t # s => /\ work'[t] # "recorded"
                                        /\ work'[t] \in {"submitted", "copied"} => Busy(t)
        BY <2>4, <2>5, <3>1, <3>3, <4>1 DEF Busy
      <4> QED BY <4>2, <4>3, <4>4
    <3> QED BY <3>2, <3>3
  <2>8. ScanTypes'
    <3>1. next' \in Nat /\ at' \in {"idle", "bind", "next", "prepare", "drain"} /\ ok' \in BOOLEAN
      <4>1. CASE GiveUp
        BY <1>2, <4>1, GiveUpKeeps
      <4>2. CASE at' = "next" /\ next' = next + 1 /\ ok' = ok
        BY <1>4, <4>2 DEF ScanTypes
      <4> QED BY <2>1, <4>1, <4>2
    <3> QED BY <1>2, <1>3, <1>5, <2>1, <2>3, <2>7, <3>1 DEF ScanTypes
  <2>9. OwnInv' /\ HeldInv' /\ Apart(memory')
    <3>1. \A t \in SlotIds : /\ slot'[t].columns = slot[t].columns
                             /\ slot'[t].held = slot[t].held
                             /\ slot'[t].transient = slot[t].transient
      BY <2>2, <2>3
    <3>2. Serves(memory, memory')
      BY <1>2, ServesItself DEF Shrinks, ScanTypes
    <3> QED BY <3>1, <3>2, ServedKeeps
  <2>10. ChunkInv'
    <3>1. query' = query
      BY <1>2
    <3>2. \A t \in SlotIds : Busy(t)' => t = s \/ Busy(t)
      BY <2>7 DEF Busy
    <3>3. slot'[s].chunk # None /\ Len(slot'[s].columns) = Len(query.columns)
      BY <1>2, <1>4, <2>2, <2>3, Constants DEF s
    <3> QED BY <1>5, <2>3, <3>1, <3>2, <3>3 DEF ChunkInv
  <2>11. EncodedInv'
    BY <1>5, <2>2, <2>3 DEF EncodedInv
  <2>12. HostInv'
    <3>1. CASE fails
      BY <1>2, <2>1, <3>1, GiveUpKeeps
    <3>2. CASE ~fails
      <4>1. at' = "next" /\ next' = next + 1 /\ ok' = ok /\ ok
        BY <1>2, <2>1, <3>2 DEF HostInv
      <4>2. next' # 0 /\ next' - 1 = next /\ s = next % SlotCount
        BY <1>2, <1>4, <4>1, StreamFacts DEF s
      <4>3. deferred' = (next' - 1) % SlotCount' /\ work'[deferred'] = "recorded"
        BY <1>5, <2>1, <2>7, <4>2
      <4> QED BY <1>5, <2>1, <2>7, <4>1, <4>2, <4>3 DEF HostInv
    <3> QED BY <3>1, <3>2
  <2> QED BY <2>8, <2>9, <2>10, <2>11, <2>12
<1> QED BY <1>6, <1>7

(* What is left of a slot k when it reads column c from buffer b as well.   *)
BoundAs(l, k, c, b, is_held, copied, data) ==
  /\ l \in StreamSlots /\ l.chunk = k.chunk /\ l.columns = Append(k.columns, b)
  /\ l.held = IF is_held THEN k.held \cup {b} ELSE k.held
  /\ l.transient = IF is_held THEN k.transient ELSE [k.transient EXCEPT ![c] = b]
  /\ l.copies = IF copied THEN k.copies \cup {[to |-> b, column |-> c]} ELSE k.copies
  /\ l.encoded = IF copied /\ c \in Narrow THEN [k.encoded EXCEPT ![c] = data] ELSE k.encoded

LEMMA BoundToFacts ==
  ASSUME NEW k \in StreamSlots, NEW c \in ScanColumns, NEW b \in Buffers, NEW is_held \in BOOLEAN,
         NEW copied \in BOOLEAN, NEW data \in Contents
  PROVE  BoundAs(BoundTo(k, c, b, is_held, copied, data), k, c, b, is_held, copied, data)
<1> DEFINE columns == Append(k.columns, b)
           held == IF is_held THEN k.held \cup {b} ELSE k.held
           transient == IF is_held THEN k.transient ELSE [k.transient EXCEPT ![c] = b]
           copies == IF copied THEN k.copies \cup {[to |-> b, column |-> c]} ELSE k.copies
           encoded == IF copied /\ c \in Narrow THEN [k.encoded EXCEPT ![c] = data] ELSE k.encoded
           l == [k EXCEPT !.columns = columns, !.held = held, !.transient = transient,
                          !.copies = copies, !.encoded = encoded]
<1>1. BoundTo(k, c, b, is_held, copied, data) = l
  BY DEF BoundTo
<1>2. columns \in Seq(Buffers) /\ held \subseteq Buffers
  BY DEF StreamSlots
<1>3. transient \in [ScanColumns -> Buffers \cup {None}]
  BY DEF StreamSlots
<1>4. copies \subseteq [to : Buffers, column : ScanColumns]
  BY DEF StreamSlots
<1>5. encoded \in [ScanColumns -> Contents \cup {Nothing}]
  BY DEF StreamSlots
<1> HIDE DEF columns, held, transient, copies, encoded
<1>6. l \in StreamSlots
  BY <1>2, <1>3, <1>4, <1>5 DEF StreamSlots
<1>7. l.chunk = k.chunk /\ l.columns = columns /\ l.held = held
  BY DEF StreamSlots
<1>8. l.transient = transient /\ l.copies = copies /\ l.encoded = encoded
  BY DEF StreamSlots
<1> HIDE DEF l
<1> QED BY <1>1, <1>6, <1>7, <1>8 DEF BoundAs, columns, held, transient, copies, encoded

(* A slot has one more buffer of its own, that nobody had.                  *)
LEMMA OwnGained ==
  ASSUME ScanTypes, OwnInv, Spared, NEW s \in SlotIds, NEW b \in Buffers,
         b \notin Owned(memory'), memory'.content[b] # Nothing,
         \A t \in SlotIds : b \notin Own(t),
         Own(s)' \subseteq Own(s) \cup {b},
         \A t \in SlotIds : t # s => Own(t)' \subseteq Own(t)
  PROVE  OwnInv'
<1>1. SlotIds' = SlotIds
  BY DEF SlotIds
<1>2. \A t \in SlotIds : \A x \in Own(t)' : x \in Own(t) \/ (x = b /\ t = s)
  OBVIOUS
<1>3. \A t \in SlotIds : \A x \in Own(t) :
        /\ x \notin Owned(memory') /\ memory'.content[x] # Nothing /\ x # b
        /\ \A u \in SlotIds : u # t => x \notin Own(u)
  <2> TAKE t \in SlotIds
  <2> TAKE x \in Own(t)
  <2>1. x \in Buffers
    BY SlotTypes
  <2>2. x \notin Owned(memory) /\ memory.content[x] # Nothing
    BY DEF OwnInv, Owned
  <2>3. \A u \in SlotIds : u # t => x \notin Own(u)
    BY DEF OwnInv
  <2> QED BY <2>1, <2>2, <2>3 DEF Spared
<1>4. \A t \in SlotIds : \A x \in Own(t)' :
        x \notin Owned(memory') /\ memory'.content[x] # Nothing
  BY <1>2, <1>3
<1>5. ASSUME NEW t \in SlotIds, NEW u \in SlotIds, t # u, NEW x, x \in Own(t)', x \in Own(u)'
      PROVE  FALSE
  BY <1>2, <1>3, <1>5
<1>6. \A t \in SlotIds : Own(t)' \cap (Pooled(memory) \cup Cached(memory))' = {}
  BY <1>4 DEF Owned
<1>7. \A t, u \in SlotIds : t # u => Own(t)' \cap Own(u)' = {}
  BY <1>5
<1> QED BY <1>1, <1>4, <1>6, <1>7 DEF OwnInv

(* One slot has one more column bound: to a buffer of its own, or to one it *)
(* holds, that is pinned once more when the slot did not hold it already.   *)
LEMMA HeldGained ==
  ASSUME ScanTypes, HeldInv, NEW s \in SlotIds, NEW b,
         \A x : \A k \in Nat \ {0} : PinnedFor(memory, x, k) => PinnedFor(memory', x, k),
         \A t \in SlotIds : t # s => slot'[t] = slot[t],
         slot'[s].columns = Append(slot[s].columns, b), b \in Buffers,
         Own(s) \subseteq Own(s)',
         \/ slot'[s].held = slot[s].held /\ b \in Own(s)'
         \/ /\ slot'[s].held = slot[s].held \cup {b}
            /\ PinnedFor(memory', b, 1)
            /\ \A k \in Nat \ {0} : PinnedFor(memory, b, k) => PinnedFor(memory', b, k + 1)
  PROVE  HeldInv'
<1>1. SlotIds' = SlotIds
  BY DEF SlotIds
<1>2. InUse(s)' \subseteq InUse(s) \cup {b}
  <2>1. slot[s].columns \in Seq(Buffers)
    BY SlotTypes
  <2> QED BY <2>1 DEF InUse
<1>3. \A t \in SlotIds : InUse(t)' \subseteq Own(t)' \cup slot'[t].held
  <2> TAKE t \in SlotIds
  <2>1. InUse(t) \subseteq Own(t) \cup slot[t].held
    BY DEF HeldInv
  <2>2. CASE t = s
    BY <1>2, <2>1, <2>2
  <2>3. CASE t # s
    <3>1. InUse(t)' = InUse(t) /\ Own(t)' = Own(t) /\ slot'[t].held = slot[t].held
      BY <2>3 DEF InUse, Own
    <3> QED BY <2>1, <3>1
  <2> QED BY <2>2, <2>3
<1>4. ASSUME NEW t \in SlotIds, NEW x \in slot'[t].held
      PROVE  PinnedFor(memory', x, Cardinality(Holders(x)'))
  <2>1. ASSUME NEW u \in SlotIds, x \in slot[u].held
        PROVE  /\ PinnedFor(memory, x, Cardinality(Holders(x)))
               /\ Cardinality(Holders(x)) \in Nat \ {0}
    BY <2>1, HolderFacts DEF HeldInv
  <2>2. CASE Holders(x)' = Holders(x)
    <3>1. t \in Holders(x)
      BY <1>1, <1>4, <2>2 DEF Holders
    <3>2. x \in slot[t].held
      BY <3>1 DEF Holders
    <3> QED BY <2>1, <2>2, <3>2
  <2>3. CASE Holders(x)' # Holders(x)
    <3>1. x = b /\ slot'[s].held = slot[s].held \cup {b} /\ s \notin Holders(b)
      <4>1. \A u \in SlotIds : u # s => (x \in slot'[u].held <=> x \in slot[u].held)
        OBVIOUS
      <4> QED BY <1>1, <2>3, <4>1 DEF Holders
    <3>2. Holders(b)' = Holders(b) \cup {s}
      BY <1>1, <3>1 DEF Holders
    <3>3. Cardinality(Holders(b)') = Cardinality(Holders(b)) + 1
      BY <3>1, <3>2, HolderFacts, FS_AddElement
    <3>4. slot'[s].held # slot[s].held
      BY <3>1 DEF Holders
    <3>5. /\ PinnedFor(memory', b, 1)
          /\ \A k \in Nat \ {0} : PinnedFor(memory, b, k) => PinnedFor(memory', b, k + 1)
      BY <3>4
    <3>6. CASE Holders(b) = {}
      <4>1. Cardinality(Holders(b)) = 0
        BY <3>6, FS_EmptySet
      <4> QED BY <3>1, <3>3, <3>5, <4>1
    <3>7. CASE Holders(b) # {}
      <4>1. PICK u \in SlotIds : b \in slot[u].held
        BY <3>7 DEF Holders
      <4> QED BY <2>1, <3>1, <3>3, <3>5, <4>1
    <3> QED BY <3>6, <3>7
  <2> QED BY <2>2, <2>3
<1> QED BY <1>1, <1>3, <1>4 DEF HeldInv

(* The buffer a column is bound to: the chunk's, the slot's, or a new one.  *)
OwnBuffer(a, s, c) ==
  IF a.buffer # None THEN a
  ELSE IF slot[s].transient[c] # None THEN [m |-> a.m, buffer |-> slot[s].transient[c]]
  ELSE Alloc(a.m, FALSE)

LEMMA OwnBufferFacts ==
  ASSUME ScanTypes, OwnInv, Apart(memory), NEW s \in SlotIds, NEW c \in ScanColumns, NEW a,
         Acquires(memory, a)
  PROVE  LET own == OwnBuffer(a, s, c)
         IN  /\ Retains(a.m, own.m, {})
             /\ Serves(memory, own.m) /\ own.buffer \in Buffers \cup {None}
             /\ a.buffer # None => own = a
             /\ a.buffer = None /\ slot[s].transient[c] # None =>
                  own.buffer = slot[s].transient[c]
             /\ a.buffer = None /\ slot[s].transient[c] = None /\ own.buffer # None =>
                  /\ own.buffer \notin Owned(own.m) /\ own.m.content[own.buffer] # Nothing
                  /\ \A t \in SlotIds : own.buffer \notin Own(t)
<1> DEFINE own == OwnBuffer(a, s, c)
<1>1. Serves(memory, a.m) /\ a.buffer \in Buffers \cup {None} /\ memory \in Memories
  BY DEF Acquires, ScanTypes
<1>2. CASE a.buffer # None
  BY <1>1, <1>2, SameRetained DEF OwnBuffer, Serves
<1>3. CASE a.buffer = None /\ slot[s].transient[c] # None
  BY <1>1, <1>3, SlotTypes, SameRetained, ZenonT(60) DEF OwnBuffer, Serves
<1>4. CASE a.buffer = None /\ slot[s].transient[c] = None
  <2>1. own = Alloc(a.m, FALSE)
    BY <1>4 DEF OwnBuffer
  <2>2. a.m \in Memories /\ Apart(a.m)
    BY <1>1 DEF Serves
  <2>3. Grants(a.m, own)
    BY <2>1, <2>2, AllocGrants
  <2>r. Retains(a.m, own.m, {})
    BY <2>1, <2>2, AllocRetains
  <2> HIDE DEF own
  <2>4. Serves(memory, own.m)
    BY <1>1, <2>3, ServesTwice DEF Grants, Shrinks
  <2>5. ASSUME own.buffer # None, NEW t \in SlotIds, own.buffer \in Own(t)
        PROVE  FALSE
    <3>1. own.buffer \in Buffers /\ own.buffer \notin Owned(memory)
          /\ memory.content[own.buffer] # Nothing
      BY <2>5, SlotTypes DEF OwnInv, Owned
    <3>2. own.buffer \notin Owned(a.m) /\ a.m.content[own.buffer] # Nothing
      BY <1>1, <3>1 DEF Serves
    <3> QED BY <2>3, <2>5, <3>1, <3>2 DEF Grants
  <2> QED BY <1>4, <2>r, <2>3, <2>4, <2>5, Zenon DEF Grants, own
<1> QED BY <1>2, <1>3, <1>4

LEMMA PrepareKeeps ==
  ASSUME ScanInv, Prepare
  PROVE  ScanInv'
<1> USE DEF ScanInv
<1>s. PICK s \in SlotIds : s = Current
  BY StreamFacts
<1>c. PICK c, chunk : /\ c = query.columns[Len(slot[s].columns) + 1]
                      /\ chunk = query.chunks[next + 1]
  OBVIOUS
<1>2. /\ UNCHANGED <<column, query, deferred, work, bound>>
      /\ at = "prepare" /\ Len(slot[s].columns) < Len(query.columns)
  BY <1>s DEF Prepare
<1>3. s \in SlotIds
  BY <1>s
<1>4. chunk \in Nat /\ next < QueryChunks /\ slot[s].chunk = None
  BY <1>2, <1>s, <1>c, ChunkAsked DEF HostInv
<1>5. c \in ScanColumns
  <2>1. query.columns \in Seq(ScanColumns) /\ Len(slot[s].columns) \in Nat
    BY <1>3, SlotTypes DEF ScanTypes
  <2> QED BY <1>2, <1>c, <2>1
<1>6. column[c].write_generation \in Nat /\ Rows(c, chunk) \in Contents
  BY <1>4, <1>5, ColumnTypes DEF Rows, Contents
<1>7. SlotIds' = SlotIds /\ SlotCount' = SlotCount /\ QueryChunks' = QueryChunks
  BY <1>2 DEF SlotIds, SlotCount, QueryChunks
<1> DEFINE Taking(refused, t, d, k, a, own) ==
             /\ a = Acquire(memory, d, column[d].write_generation, k, refused)
             /\ own = OwnBuffer(a, t, d)
             /\ memory' = own.m
             /\ \/ own.buffer = None /\ GiveUp /\ slot' = slot
                \/ /\ own.buffer # None /\ UNCHANGED <<at, next, ok>>
                   /\ slot' = [slot EXCEPT ![t] = BoundTo(slot[t], d, own.buffer, a.buffer # None,
                                                          a.buffer = None \/ a.needs_copy,
                                                          Rows(d, k))]
<1>1. PICK refused \in Fault("alloc") :
        LET t == Current
            d == query.columns[Len(slot[t].columns) + 1]
            k == query.chunks[next + 1]
            a == Acquire(memory, d, column[d].write_generation, k, refused)
            own == OwnBuffer(a, t, d)
            b == own.buffer
        IN  /\ memory' = own.m
            /\ IF b = None THEN GiveUp /\ UNCHANGED slot
               ELSE /\ slot' = [slot EXCEPT ![t] = BoundTo(slot[t], d, b, a.buffer # None,
                                                           a.buffer = None \/ a.needs_copy,
                                                           Rows(d, k))]
                    /\ UNCHANGED <<at, next, ok>>
  BY ZenonT(60) DEF Prepare, OwnBuffer
<1>t. \E a, own : Taking(refused, Current, query.columns[Len(slot[Current].columns) + 1],
                         query.chunks[next + 1], a, own)
  BY <1>1
<1> HIDE DEF Taking
<1>p. PICK a, own : Taking(refused, s, c, chunk, a, own)
  BY <1>t, <1>s, <1>c
<1>8. Taking(refused, s, c, chunk, a, own)
  BY <1>p
<1> USE DEF Taking
<1>9. PICK b : b = own.buffer
  OBVIOUS
<1> DEFINE copied == a.buffer = None \/ a.needs_copy
           l == BoundTo(slot[s], c, b, a.buffer # None, copied, Rows(c, chunk))
<1>o. /\ memory' = own.m
      /\ \/ b = None /\ GiveUp /\ slot' = slot
         \/ b # None /\ slot' = [slot EXCEPT ![s] = l] /\ UNCHANGED <<at, next, ok>>
  BY <1>8, <1>9
<1>a. Acquires(memory, a) /\ own = OwnBuffer(a, s, c)
  <2>1. refused \in BOOLEAN
    BY <1>1, FaultFacts
  <2>2. memory \in Memories /\ Apart(memory)
    BY DEF ScanTypes
  <2> QED BY <1>4, <1>5, <1>6, <1>8, <2>1, <2>2, AcquireFacts
<1>10. /\ Serves(memory, own.m) /\ b \in Buffers \cup {None}
       /\ a.buffer # None => own = a
       /\ a.buffer = None /\ slot[s].transient[c] # None => b = slot[s].transient[c]
       /\ a.buffer = None /\ slot[s].transient[c] = None /\ b # None =>
            /\ b \notin Owned(own.m) /\ own.m.content[b] # Nothing
            /\ \A t \in SlotIds : b \notin Own(t)
  BY <1>3, <1>5, <1>9, <1>a, OwnBufferFacts
<1>11. Apart(memory') /\ memory' \in Memories
  BY <1>o, <1>10 DEF Serves
<1>12. CASE b = None
  <2>1. GiveUp /\ slot' = slot
    BY <1>o, <1>12
  <2>2. ScanTypes' /\ HostInv'
    BY <1>2, <1>7, <1>11, <2>1, GiveUpKeeps DEF ScanTypes
  <2>3. OwnInv' /\ HeldInv'
    BY <1>o, <1>10, <2>1, ServedKeeps
  <2>4. ChunkInv' /\ EncodedInv'
    BY <1>2, <1>7, <2>1 DEF ChunkInv, EncodedInv, Busy
  <2> QED BY <1>11, <2>2, <2>3, <2>4
<1>13. CASE b # None
  <2> DEFINE is_held == a.buffer # None
             data == Rows(c, chunk)
  <2>1. slot' = [slot EXCEPT ![s] = l] /\ UNCHANGED <<at, next, ok>> /\ b \in Buffers
    BY <1>o, <1>10, <1>13
  <2>2. copied \in BOOLEAN /\ is_held \in BOOLEAN
    OBVIOUS
  <2>3. /\ l \in StreamSlots /\ l.chunk = slot[s].chunk /\ l.columns = Append(slot[s].columns, b)
        /\ l.held = IF is_held THEN slot[s].held \cup {b} ELSE slot[s].held
        /\ l.transient = IF is_held THEN slot[s].transient
                         ELSE [slot[s].transient EXCEPT ![c] = b]
        /\ l.copies = IF copied THEN slot[s].copies \cup {[to |-> b, column |-> c]}
                      ELSE slot[s].copies
        /\ l.encoded = IF copied /\ c \in Narrow THEN [slot[s].encoded EXCEPT ![c] = data]
                       ELSE slot[s].encoded
    <3>1. slot[s] \in StreamSlots
      BY <1>3, SlotTypes
    <3>2. l = BoundTo(slot[s], c, b, is_held, copied, data) /\ data \in Contents
      BY <1>6
    <3> HIDE DEF l, copied, is_held, data
    <3>3. BoundAs(l, slot[s], c, b, is_held, copied, data)
      BY <1>5, <2>1, <2>2, <3>1, <3>2, BoundToFacts, Zenon
    <3> QED BY <3>3, Zenon DEF BoundAs
  <2> HIDE DEF l, copied
  <2>4. /\ slot' \in [SlotIds -> StreamSlots] /\ slot'[s] = l
        /\ \A t \in SlotIds : t # s => slot'[t] = slot[t]
    BY <1>3, <2>1, <2>3, NewSlot
  <2>5. ScanTypes'
    BY <1>2, <1>7, <1>11, <2>1, <2>4 DEF ScanTypes
  <2>6. Spared
    BY <1>o, <1>10 DEF Serves, Spared
  <2>7. slot[s].transient \in [ScanColumns -> Buffers \cup {None}]
    BY <1>3, SlotTypes
  <2>8. \A t \in SlotIds : t # s => Own(t)' = Own(t)
    BY <2>4 DEF Own
  <2>9. OwnInv'
    <3>1. CASE is_held \/ slot[s].transient[c] # None
      <4>1. l.transient = slot[s].transient
        BY <1>10, <2>3, <2>7, <3>1
      <4>2. \A t \in SlotIds : Own(t)' \subseteq Own(t)
        BY <2>4, <2>8, <4>1 DEF Own
      <4> QED BY <2>6, <4>2, OwnKept
    <3>2. CASE ~is_held /\ slot[s].transient[c] = None
      <4>1. Own(s)' \subseteq Own(s) \cup {b}
        BY <2>3, <2>4, <2>7, <3>2 DEF Own
      <4>2. /\ b \notin Owned(memory') /\ memory'.content[b] # Nothing
            /\ \A t \in SlotIds : b \notin Own(t)
        BY <1>o, <1>9, <1>10, <1>13, <3>2
      <4> QED BY <1>3, <2>1, <2>6, <2>8, <4>1, <4>2, OwnGained
    <3> QED BY <3>1, <3>2
  <2>10. HeldInv'
    <3>1. \A x : \A k \in Nat \ {0} : PinnedFor(memory, x, k) => PinnedFor(memory', x, k)
      BY <1>o, <1>10, Zenon DEF Serves
    <3>2. CASE is_held
      <4>1. Own(s) \subseteq Own(s)'
        BY <2>3, <2>4, <3>2 DEF Own
      <4>2. /\ PinnedFor(memory', b, 1)
            /\ \A k \in Nat \ {0} : PinnedFor(memory, b, k) => PinnedFor(memory', b, k + 1)
        BY <1>a, <1>o, <1>9, <1>10, <3>2 DEF Acquires
      <4>3. slot'[s].held = slot[s].held \cup {b} /\ slot'[s].columns = Append(slot[s].columns, b)
        BY <2>3, <2>4, <3>2
      <4> QED BY <1>3, <2>1, <2>4, <3>1, <4>1, <4>2, <4>3, HeldGained
    <3>3. CASE ~is_held
      <4>1. slot[s].transient[c] \in {None, b}
        BY <1>10, <3>3
      <4>2. Own(s) \subseteq Own(s)' /\ b \in Own(s)'
        BY <1>5, <1>13, <2>3, <2>4, <2>7, <3>3, <4>1 DEF Own
      <4>3. slot'[s].held = slot[s].held /\ slot'[s].columns = Append(slot[s].columns, b)
        BY <2>3, <2>4, <3>3
      <4> QED BY <1>3, <2>1, <2>4, <3>1, <4>2, <4>3, HeldGained
    <3> QED BY <3>2, <3>3
  <2>11. ChunkInv'
    <3>1. slot'[s].chunk = None
      BY <1>4, <2>3, <2>4
    <3>2. ~Busy(s)
      BY <1>3, <1>4 DEF ChunkInv
    <3> QED BY <1>2, <1>7, <2>4, <3>1, <3>2 DEF ChunkInv, Busy
  <2>12. EncodedInv'
    <3>1. \A copy \in slot[s].copies :
            copy.column \in Narrow => slot[s].encoded[copy.column] # Nothing
      BY <1>3 DEF EncodedInv
    <3>2. data # Nothing
      BY <1>6, Constants
    <3>3. slot[s].encoded \in [ScanColumns -> Contents \cup {Nothing}]
      BY <1>3, SlotTypes
    <3>4. \A x \in ScanColumns : slot[s].encoded[x] # Nothing => l.encoded[x] # Nothing
      BY <2>3, <3>2, <3>3
    <3>5. \A x \in Narrow : x \in ScanColumns
      BY Constants
    <3>6. copied /\ c \in Narrow => l.encoded[c] # Nothing
      BY <1>5, <2>3, <3>2, <3>3
    <3>7. \A copy \in l.copies : copy.column \in Narrow => l.encoded[copy.column] # Nothing
      BY <2>3, <3>1, <3>4, <3>5, <3>6
    <3> QED BY <1>7, <2>4, <3>7 DEF EncodedInv
  <2>13. HostInv'
    <3>1. Current' = Current
      BY <1>2, <1>7, <2>1 DEF Current
    <3>2. slot'[Current'].chunk = None
      BY <1>4, <1>s, <2>3, <2>4, <3>1
    <3> QED BY <1>2, <1>7, <2>1, <3>2 DEF HostInv
  <2> QED BY <1>11, <2>5, <2>9, <2>10, <2>11, <2>12, <2>13
<1> QED BY <1>12, <1>13

LEMMA IdleFacts ==
  /\ IdleSlot \in StreamSlots
  /\ IdleSlot.chunk = None /\ IdleSlot.columns = <<>> /\ IdleSlot.held = {} /\ IdleSlot.copies = {}
  /\ \A c \in ScanColumns : IdleSlot.transient[c] = None
BY DEF IdleSlot, StreamSlots

LEMMA ReleaseAllFacts ==
  ASSUME NEW m \in Memories, Apart(m), NEW B, B \cap Owned(m) = {}
  PROVE  ReleaseAll(m, B) \in Memories /\ Apart(ReleaseAll(m, B))
<1> DEFINE content == [b \in Buffers |-> IF b \in B THEN Nothing ELSE m.content[b]]
           n == ReleaseAll(m, B)
<1>1. n = [content |-> content, pool |-> m.pool, epoch |-> m.epoch, cache |-> m.cache,
           failed |-> m.failed]
  <2>1. n = [m EXCEPT !.content = content]
    BY Zenon DEF ReleaseAll
  <2> HIDE DEF content, n
  <2> QED BY <2>1, MemoryFacts, Changed, ZenonT(60)
<1>2. content \in [Buffers -> Contents \cup {Nothing, Garbage}]
  BY MemoryFacts
<1>3. \A b \in Owned(m) : content[b] # Nothing
  <2>1. \A b \in Owned(m) : b \in Buffers /\ b \notin B /\ m.content[b] # Nothing
    BY OwnedFacts DEF Apart, Owned
  <2> QED BY <2>1
<1> HIDE DEF content, n
<1>4. n \in Memories
  BY <1>1, <1>2, MemoryFacts DEF Memories
<1>5. n.content = content /\ n.pool = m.pool /\ n.cache = m.cache
  BY <1>1
<1>6. Pooled(n) = Pooled(m) /\ Cached(n) = Cached(m)
  BY <1>5 DEF Pooled, Cached
<1>7. Apart(n)
  <2>1. \A b \in Pooled(n) \cup Cached(n) : n.content[b] # Nothing
    BY <1>3, <1>5, <1>6 DEF Owned
  <2> QED BY <1>5, <1>6, <2>1, Zenon DEF Apart
<1> QED BY <1>4, <1>7 DEF n

LEMMA EndStreamKeeps ==
  ASSUME ScanInv, EndStream
  PROVE  ScanInv'
<1> USE DEF ScanInv
<1> DEFINE held == UNION {slot[s].held : s \in SlotIds}
           own == (UNION {{slot[s].transient[c] : c \in ScanColumns} : s \in SlotIds}) \ {None}
           n == Unpin(memory, held, FALSE)
<1>1. /\ memory' = ReleaseAll(n, own)
      /\ slot' = [s \in SlotIds |-> IdleSlot] /\ work' = [s \in SlotIds |-> "none"]
      /\ at' = "idle" /\ UNCHANGED <<column, query, next, ok, deferred, bound>>
  BY DEF EndStream
<1>2. /\ n \in Memories /\ Apart(n) /\ Pooled(n) = Pooled(memory)
      /\ Cached(n) \subseteq Cached(memory)
  <2>1. memory \in Memories /\ Apart(memory) /\ FALSE \in BOOLEAN
    BY DEF ScanTypes
  <2> HIDE DEF held
  <2> QED BY <2>1, UnpinFacts
<1> HIDE DEF n
<1>3. own \cap Owned(n) = {}
  <2>1. ASSUME NEW b \in own PROVE \E s \in SlotIds : b \in Own(s)
    <3> DEFINE T(s) == {slot[s].transient[c] : c \in ScanColumns}
               W == {T(s) : s \in SlotIds}
    <3>1. b \in UNION W /\ b # None
      <4>1. own = (UNION W) \ {None}
        OBVIOUS
      <4> HIDE DEF own, W
      <4> QED BY <4>1
    <3>2. PICK t \in W : b \in t
      <4> HIDE DEF W
      <4> QED BY <3>1
    <3>3. PICK s \in SlotIds : b \in T(s)
      <4> HIDE DEF T
      <4> QED BY <3>2
    <3> QED BY <3>1, <3>3 DEF Own
  <2> HIDE DEF own
  <2>2. \A b \in own : b \notin Owned(memory)
    BY <2>1 DEF OwnInv, Owned
  <2> QED BY <1>2, <2>2 DEF Owned
<1>4. memory' \in Memories /\ Apart(memory')
  BY <1>1, <1>2, <1>3, ReleaseAllFacts
<1>5. SlotIds' = SlotIds
  BY DEF SlotIds
<1>6. \A s \in SlotIds : slot'[s] = IdleSlot /\ work'[s] = "none"
  BY <1>1
<1>7. \A s \in SlotIds : Own(s)' = {} /\ InUse(s)' = {}
  BY <1>6, IdleFacts DEF Own, InUse
<1>8. ScanTypes'
  BY <1>1, <1>4, <1>5, IdleFacts DEF ScanTypes
<1>9. OwnInv'
  BY <1>5, <1>7 DEF OwnInv
<1>10. HeldInv' /\ EncodedInv'
  BY <1>5, <1>6, <1>7, IdleFacts DEF HeldInv, EncodedInv
<1>11. ChunkInv'
  BY <1>5, <1>6, IdleFacts DEF ChunkInv, Busy
<1>12. HostInv'
  <2>1. IdleSlot' = IdleSlot
    BY DEF IdleSlot
  <2> QED BY <1>1, <1>5, <1>6, <2>1 DEF HostInv
<1> QED BY <1>4, <1>8, <1>9, <1>10, <1>11, <1>12

-------------------------------------------------------------------------------
(* The device                                                              *)

LEMMA DeviceCopyKeeps ==
  ASSUME ScanInv, NEW s \in SlotIds, DeviceCopy(s)
  PROVE  ScanInv'
<1> USE DEF ScanInv
<1> DEFINE content == [b \in Buffers |-> Written(s, b)]
<1>1. /\ work[s] = "submitted" /\ work' = [work EXCEPT ![s] = "copied"]
      /\ memory' = [memory EXCEPT !.content = content]
      /\ UNCHANGED <<column, query, at, next, ok, deferred, slot, bound>>
  BY Zenon DEF DeviceCopy, host
<1>2. /\ work' \in [SlotIds -> {"none", "recorded", "submitted", "copied", "done"}]
      /\ work'[s] = "copied" /\ \A t \in SlotIds : t # s => work'[t] = work[t]
  BY <1>1, WorkTypes
<1>3. SlotIds' = SlotIds /\ SlotCount' = SlotCount /\ QueryChunks' = QueryChunks
      /\ Current' = Current /\ IdleSlot' = IdleSlot
  BY <1>1 DEF SlotIds, SlotCount, QueryChunks, Current, IdleSlot
<1>4. slot[s].chunk \in Nat
  BY <1>1, SlotTypes DEF ChunkInv, Busy
<1>5. ASSUME NEW copy \in slot[s].copies
      PROVE  SourceOf(s, copy.column) \in Contents
  <2>1. copy.column \in ScanColumns
    BY SlotTypes
  <2>2. CASE copy.column \in Narrow
    <3>1. slot[s].encoded[copy.column] \in Contents
      BY <2>1, <2>2, SlotTypes DEF EncodedInv
    <3> QED BY <2>2, <3>1 DEF SourceOf
  <2>3. CASE copy.column \notin Narrow
    BY <1>4, <2>1, <2>3, ColumnTypes DEF SourceOf, Rows, Contents
  <2> QED BY <2>2, <2>3
<1>6. \A b \in Buffers : \/ Written(s, b) = memory.content[b]
                         \/ Written(s, b) \in Contents
  <2> TAKE b \in Buffers
  <2>1. CASE Into(s, b) = {}
    BY <2>1 DEF Written
  <2>2. CASE Into(s, b) # {}
    <3>1. (CHOOSE copy \in Into(s, b) : TRUE) \in Into(s, b)
      BY <2>2
    <3>2. (CHOOSE copy \in Into(s, b) : TRUE) \in slot[s].copies
      BY <3>1 DEF Into
    <3> QED BY <1>5, <2>2, <3>2 DEF Written
  <2> QED BY <2>1, <2>2
<1>7. memory \in Memories /\ Apart(memory)
  BY DEF ScanTypes
<1>8. /\ content \in [Buffers -> Contents \cup {Nothing, Garbage}]
      /\ \A b \in Buffers : memory.content[b] # Nothing => content[b] # Nothing
  <2>1. \A b \in Buffers : memory.content[b] \in Contents \cup {Nothing, Garbage}
    BY <1>7, MemoryFacts
  <2> QED BY <1>6, <2>1, Constants
<1> HIDE DEF content
<1>9. memory' = [content |-> content, pool |-> memory.pool, epoch |-> memory.epoch,
                 cache |-> memory.cache, failed |-> memory.failed]
  BY <1>1, <1>7, MemoryFacts, Changed, ZenonT(60)
<1>10. memory' \in Memories
  BY <1>7, <1>8, <1>9, MemoryFacts DEF Memories
<1>11. /\ memory'.content = content /\ memory'.pool = memory.pool
       /\ memory'.cache = memory.cache
  BY <1>9
<1>12. Pooled(memory') = Pooled(memory) /\ Cached(memory') = Cached(memory)
  BY <1>11 DEF Pooled, Cached
<1>13. Apart(memory')
  <2>1. \A b \in Pooled(memory') \cup Cached(memory') : memory'.content[b] # Nothing
    BY <1>7, <1>8, <1>11, <1>12, OwnedFacts DEF Apart
  <2> QED BY <1>7, <1>11, <1>12, <2>1, Zenon DEF Apart
<1>14. Serves(memory, memory')
  <2>1. \A b : \A k \in Nat \ {0} : PinnedFor(memory, b, k) => PinnedFor(memory', b, k)
    BY <1>11, Zenon DEF PinnedFor
  <2> QED BY <1>8, <1>10, <1>11, <1>12, <1>13, <2>1 DEF Serves, Owned
<1>15. OwnInv' /\ HeldInv'
  BY <1>1, <1>14, ServedKeeps
<1>16. EncodedInv'
  BY <1>1, <1>3 DEF EncodedInv
<1>17. ScanTypes'
  BY <1>1, <1>2, <1>3, <1>10 DEF ScanTypes
<1>18. ChunkInv'
  BY <1>1, <1>2, <1>3 DEF ChunkInv, Busy
<1>19. HostInv'
  <2>1. at \notin {"idle", "bind"}
    BY <1>1 DEF HostInv
  <2>2. \A t \in SlotIds : work'[t] = "recorded" <=> work[t] = "recorded"
    BY <1>1, <1>2
  <2>3. at \in {"next", "prepare"} /\ next # 0 => deferred \in SlotIds
    BY DeferredFacts
  <2>4. at \in {"next", "prepare"} /\ next # 0 => work'[deferred] = "recorded"
    BY <2>2, <2>3 DEF HostInv
  <2> QED BY <1>1, <1>3, <2>1, <2>2, <2>4 DEF HostInv
<1> QED BY <1>13, <1>15, <1>16, <1>17, <1>18, <1>19

LEMMA DeviceKernelKeeps ==
  ASSUME ScanInv, NEW s \in SlotIds, DeviceKernel(s)
  PROVE  ScanInv'
<1> USE DEF ScanInv
<1>1. /\ work[s] = "copied" /\ work' = [work EXCEPT ![s] = "done"]
      /\ UNCHANGED <<memory, column, query, at, next, ok, deferred, slot, bound>>
  BY Zenon DEF DeviceKernel, host
<1>2. /\ work' \in [SlotIds -> {"none", "recorded", "submitted", "copied", "done"}]
      /\ work'[s] = "done" /\ \A t \in SlotIds : t # s => work'[t] = work[t]
  BY <1>1, WorkTypes
<1>3. SlotIds' = SlotIds /\ SlotCount' = SlotCount /\ QueryChunks' = QueryChunks
      /\ Current' = Current /\ IdleSlot' = IdleSlot
  BY <1>1 DEF SlotIds, SlotCount, QueryChunks, Current, IdleSlot
<1>4. Apart(memory') /\ OwnInv' /\ HeldInv' /\ EncodedInv'
  BY <1>1, SameSlots
<1>5. ScanTypes'
  BY <1>1, <1>2, <1>3 DEF ScanTypes
<1>6. ChunkInv'
  BY <1>1, <1>2, <1>3 DEF ChunkInv, Busy
<1>7. HostInv'
  <2>1. at \notin {"idle", "bind"}
    BY <1>1 DEF HostInv
  <2>2. \A t \in SlotIds : work'[t] = "recorded" <=> work[t] = "recorded"
    BY <1>1, <1>2
  <2>3. at \in {"next", "prepare"} /\ next # 0 => deferred \in SlotIds
    BY DeferredFacts
  <2>4. at \in {"next", "prepare"} /\ next # 0 => work'[deferred] = "recorded"
    BY <2>2, <2>3 DEF HostInv
  <2> QED BY <1>1, <1>3, <2>1, <2>2, <2>4 DEF HostInv
<1> QED BY <1>4, <1>5, <1>6, <1>7

-------------------------------------------------------------------------------
(* The columns that fit one buffer                                         *)

LEMMA MadeFacts ==
  ASSUME NEW m \in Memories, NEW name
  PROVE  MadeOf(m, name) \in Nat
<1>1. CASE Slot(m, name) = 0
  BY <1>1 DEF MadeOf
<1>2. CASE Slot(m, name) # 0
  <2>1. Slot(m, name) \in DOMAIN m.pool
    BY <1>2, SlotFacts
  <2> QED BY <1>2, <2>1, MemoryFacts, PoolSlotFacts DEF MadeOf
<1> QED BY <1>1, <1>2

(* A query that streams nothing changes the memory, the columns and what it *)
(* has bound, and leaves every slot as it is.                              *)
LEMMA BoundKeeps ==
  ASSUME ScanInv, at \in {"bind"}, at' \in {"bind", "idle"}, Serves(memory, memory'),
         column' \in [ScanColumns -> ColumnStates], bound' \in Seq(Buffers \cup {None}),
         UNCHANGED <<query, next, ok, deferred, slot, work>>
  PROVE  ScanInv'
<1> USE DEF ScanInv
<1>1. SlotIds' = SlotIds /\ IdleSlot' = IdleSlot
  BY DEF SlotIds, IdleSlot
<1>2. OwnInv' /\ HeldInv' /\ Apart(memory')
  BY ServedKeeps
<1>3. ScanTypes'
  BY <1>1 DEF ScanTypes, Serves
<1>4. EncodedInv' /\ ChunkInv'
  BY <1>1 DEF EncodedInv, ChunkInv, Busy
<1>5. HostInv'
  BY <1>1 DEF HostInv
<1> QED BY <1>2, <1>3, <1>4, <1>5

LEMMA NextBound ==
  ASSUME ScanTypes, Len(bound) < Len(query.columns)
  PROVE  query.columns[Len(bound) + 1] \in ScanColumns
<1>1. query.columns \in Seq(ScanColumns) /\ Len(bound) \in Nat
  BY DEF ScanTypes
<1> QED BY <1>1

LEMMA BindWholeKeeps ==
  ASSUME ScanInv, BindWhole
  PROVE  ScanInv'
<1> USE DEF ScanInv
<1> DEFINE c == query.columns[Len(bound) + 1]
           cached == TakenAsUploaded(c)
           size == IF cached THEN column[c].upload_rows ELSE column[c].rows
           data == IF cached THEN None ELSE Rows(c, 0)
<1>1. /\ at = "bind" /\ Len(bound) < Len(query.columns)
      /\ UNCHANGED <<query, at, next, ok, deferred, slot, work>>
  BY DEF BindWhole, host, stream
<1>2. PICK refused \in Fault("alloc") :
        LET a == AllocPooled(memory, PoolName(c), size, data, refused)
        IN  /\ memory' = a.m /\ bound' = Append(bound, a.buffer)
            /\ column' = IF cached THEN column
                         ELSE [column EXCEPT ![c] = [column[c] EXCEPT
                                !.upload_generation = column[c].write_generation,
                                !.upload_rows = size]]
  BY Zenon DEF BindWhole
<1>3. c \in ScanColumns
  BY <1>1, NextBound
<1> HIDE DEF c
<1>4. column[c] \in ColumnStates /\ column[c].write_generation \in Nat /\ size \in Nat
  BY <1>3, ColumnTypes
<1>5. data \in Contents \cup {None}
  BY <1>3, <1>4 DEF Rows, Contents
<1>6. PoolName(c) \in PoolNames
  BY <1>3 DEF PoolName, PoolNames
<1> DEFINE a == AllocPooled(memory, PoolName(c), size, data, refused)
<1>7. Serves(memory, a.m) /\ a.buffer \in Buffers \cup {None}
  <2>1. refused \in BOOLEAN /\ memory \in Memories /\ Apart(memory)
    BY <1>2, FaultFacts DEF ScanTypes
  <2> HIDE DEF size, data
  <2> QED BY <1>4, <1>5, <1>6, <2>1, PooledServes
<1>8. memory' = a.m /\ bound' = Append(bound, a.buffer)
  BY <1>2
<1> HIDE DEF a, size, cached
<1>9. column' \in [ScanColumns -> ColumnStates]
  <2>1. column \in [ScanColumns -> ColumnStates]
    BY DEF ScanTypes
  <2>2. [column[c] EXCEPT !.upload_generation = column[c].write_generation,
                          !.upload_rows = size] \in ColumnStates
    BY <1>4, ColumnChanged, Zenon
  <2> QED BY <1>2, <2>1, <2>2
<1>10. bound' \in Seq(Buffers \cup {None})
  BY <1>7, <1>8 DEF ScanTypes
<1> QED BY <1>1, <1>7, <1>8, <1>9, <1>10, BoundKeeps

LEMMA LookupFacts ==
  ASSUME ScanTypes, Apart(memory), NEW c \in ScanColumns, NEW refused \in BOOLEAN
  PROVE  LET l == Lookup(c, refused)
         IN  Serves(memory, l.m) /\ l.buffer \in Buffers \cup {None}
<1>1. memory \in Memories /\ column[c].rows \in Nat
  BY ColumnTypes DEF ScanTypes
<1>2. <<"agg", c>> \in PoolNames
  BY DEF PoolNames
<1> DEFINE a == LookedUp(c, refused)
<1>3. Serves(memory, a.m) /\ a.buffer \in Buffers \cup {None}
  <2>1. a = AllocPooled(memory, <<"agg", c>>, column[c].rows, None, refused)
    BY DEF LookedUp
  <2>2. None \in Contents \cup {None}
    OBVIOUS
  <2> HIDE DEF a
  <2> QED BY <1>1, <1>2, <2>1, <2>2, PooledServes
<1>4. CASE AggKnown(c)
  <2>1. Lookup(c, refused) = Checked(a, c)
    BY <1>4 DEF Lookup
  <2> HIDE DEF a
  <2>2. Checked(a, c) = a \/ Checked(a, c) = [m |-> a.m, buffer |-> None]
    BY DEF Checked
  <2> QED BY <1>3, <2>1, <2>2
<1>5. CASE ~AggKnown(c)
  <2>1. Lookup(c, refused) = [m |-> memory, buffer |-> None]
    BY <1>5 DEF Lookup
  <2> QED BY <1>1, <2>1, ServesItself DEF Shrinks
<1> QED BY <1>4, <1>5

LEMMA BindResidentKeeps ==
  ASSUME ScanInv, BindResident
  PROVE  ScanInv'
<1> USE DEF ScanInv
<1> DEFINE c == query.columns[Len(bound) + 1]
           data == Rows(c, 0)
<1>1. /\ at = "bind" /\ Len(bound) < Len(query.columns)
      /\ UNCHANGED <<query, at, next, ok, deferred, slot, work>>
  BY DEF BindResident, host, stream
<1>2. PICK refused \in Fault("alloc") :
        LET l == Lookup(c, refused)
            a == IF l.buffer # None THEN l
                 ELSE AllocPooled(l.m, <<"agg", c>>, column[c].rows, data, refused)
        IN  /\ memory' = a.m /\ bound' = Append(bound, a.buffer)
            /\ column' = IF a.buffer = None \/ l.buffer # None THEN column
                         ELSE [column EXCEPT ![c] = [column[c] EXCEPT
                                !.agg_generation = column[c].write_generation,
                                !.agg_buffer = MadeOf(a.m, <<"agg", c>>)]]
  BY ZenonT(60) DEF BindResident
<1>3. c \in ScanColumns
  BY <1>1, NextBound
<1> HIDE DEF c
<1>4. /\ column[c] \in ColumnStates /\ column[c].write_generation \in Nat
      /\ column[c].rows \in Nat
  BY <1>3, ColumnTypes
<1>5. data \in Contents \cup {None}
  BY <1>3, <1>4 DEF Rows, Contents
<1>6. <<"agg", c>> \in PoolNames
  BY <1>3 DEF PoolNames
<1> DEFINE l == Lookup(c, refused)
           a == IF l.buffer # None THEN l
                ELSE AllocPooled(l.m, <<"agg", c>>, column[c].rows, data, refused)
<1>7. refused \in BOOLEAN /\ memory \in Memories /\ Apart(memory)
  BY <1>2, FaultFacts DEF ScanTypes
<1>8. Serves(memory, l.m) /\ l.buffer \in Buffers \cup {None}
  BY <1>3, <1>7, LookupFacts
<1>9. /\ memory' = a.m /\ bound' = Append(bound, a.buffer)
      /\ column' = IF a.buffer = None \/ l.buffer # None THEN column
                   ELSE [column EXCEPT ![c] = [column[c] EXCEPT
                           !.agg_generation = column[c].write_generation,
                           !.agg_buffer = MadeOf(a.m, <<"agg", c>>)]]
  BY <1>2
<1> HIDE DEF l, data
<1>10. Serves(memory, a.m) /\ a.buffer \in Buffers \cup {None}
  <2>1. CASE l.buffer # None
    BY <1>8, <2>1
  <2>2. CASE l.buffer = None
    <3> DEFINE p == AllocPooled(l.m, <<"agg", c>>, column[c].rows, data, refused)
    <3>1. Serves(l.m, p.m) /\ p.buffer \in Buffers \cup {None}
      <4>1. l.m \in Memories /\ Apart(l.m)
        BY <1>8 DEF Serves
      <4> QED BY <1>4, <1>5, <1>6, <1>7, <4>1, PooledServes
    <3>2. a = p
      BY <2>2
    <3> HIDE DEF p, a
    <3> QED BY <1>7, <1>8, <3>1, <3>2, ServesTwice
  <2> QED BY <2>1, <2>2
<1> HIDE DEF a
<1>11. column' \in [ScanColumns -> ColumnStates]
  <2>1. column \in [ScanColumns -> ColumnStates]
    BY DEF ScanTypes
  <2>2. MadeOf(a.m, <<"agg", c>>) \in Nat
    BY <1>10, MadeFacts DEF Serves
  <2>3. [column[c] EXCEPT !.agg_generation = column[c].write_generation,
                          !.agg_buffer = MadeOf(a.m, <<"agg", c>>)] \in ColumnStates
    BY <1>4, <2>2, ColumnChanged, Zenon
  <2> QED BY <1>9, <2>1, <2>3
<1>12. bound' \in Seq(Buffers \cup {None})
  BY <1>9, <1>10 DEF ScanTypes
<1> QED BY <1>1, <1>9, <1>10, <1>11, <1>12, BoundKeeps

LEMMA RunWholeKeeps ==
  ASSUME ScanInv, RunWhole
  PROVE  ScanInv'
<1> USE DEF ScanInv
<1> DEFINE missing == None \in {bound[i] : i \in DOMAIN bound}
<1>1. /\ at = "bind" /\ at' = "idle"
      /\ memory' = [memory EXCEPT !.failed = @ \/ missing]
      /\ UNCHANGED <<column, query, next, ok, deferred, slot, work, bound>>
  BY DEF RunWhole, stream
<1>2. Serves(memory, memory')
  <2>1. (memory.failed \/ missing) \in BOOLEAN
    OBVIOUS
  <2>2. memory' = [memory EXCEPT !.failed = (memory.failed \/ missing)]
    BY <1>1, Zenon
  <2> HIDE DEF missing
  <2> QED BY <2>1, <2>2, FailedServes DEF ScanTypes, Shrinks
<1>3. column' \in [ScanColumns -> ColumnStates] /\ bound' \in Seq(Buffers \cup {None})
  BY <1>1 DEF ScanTypes
<1> QED BY <1>1, <1>2, <1>3, BoundKeeps

-------------------------------------------------------------------------------
(* The theorems                                                            *)

LEMMA InitHolds == ScanInit => ScanInv
<1> SUFFICES ASSUME ScanInit PROVE ScanInv
  OBVIOUS
<1> USE DEF ScanInit
<1>1. memory = EmptyMemory /\ \A s \in SlotIds : slot[s] = IdleSlot /\ work[s] = "none"
  OBVIOUS
<1>2. /\ memory \in Memories /\ DOMAIN memory.pool = {} /\ DOMAIN memory.cache = {}
  <2>1. <<>> \in Seq(PoolSlots) /\ <<>> \in Seq(Chunks) /\ DOMAIN <<>> = {}
    OBVIOUS
  <2>2. [b \in Buffers |-> Nothing] \in [Buffers -> Contents \cup {Nothing, Garbage}]
    OBVIOUS
  <2> QED BY <1>1, <2>1, <2>2 DEF EmptyMemory, Memories
<1>3. Apart(memory)
  BY <1>2 DEF Apart, Pooled, Cached
<1>4. ScanTypes
  <2>1. column \in [ScanColumns -> ColumnStates]
    BY DEF ColumnStates
  <2>2. query.columns \in Seq(ScanColumns) /\ query.chunks \in Seq(Nat)
        /\ bound \in Seq(Buffers \cup {None})
    BY DEF NoQuery
  <2>3. slot \in [SlotIds -> StreamSlots]
    BY IdleFacts
  <2> QED BY <1>2, <2>1, <2>2, <2>3 DEF ScanTypes
<1>5. HostInv
  BY <1>1 DEF HostInv
<1>6. ChunkInv /\ EncodedInv
  BY <1>1, IdleFacts DEF ChunkInv, Busy, EncodedInv
<1>7. \A s \in SlotIds : Own(s) = {} /\ InUse(s) = {} /\ slot[s].held = {}
  BY <1>1, IdleFacts DEF Own, InUse
<1>8. OwnInv /\ HeldInv
  BY <1>7 DEF OwnInv, HeldInv
<1> QED BY <1>3, <1>4, <1>5, <1>6, <1>8 DEF ScanInv

LEMMA StepKeeps == ScanInv /\ [ScanNext]_scan_vars => ScanInv'
<1> SUFFICES ASSUME ScanInv, [ScanNext]_scan_vars PROVE ScanInv'
  OBVIOUS
<1>1. CASE BeginScan \/ BeginAll \/ BeginWhole \/ BeginResident
  BY <1>1, BeginKeeps
<1>2. ASSUME NEW c \in ScanColumns, Write(c) PROVE ScanInv'
  BY <1>2, WriteKeeps
<1>3. CASE RetireNothing
  BY <1>3, RetireNothingKeeps
<1>4. CASE Retire
  BY <1>4, RetireKeeps
<1>5. CASE RetireOverflow
  BY <1>5, RetireOverflowKeeps
<1>6. CASE Prepare
  BY <1>6, PrepareKeeps
<1>7. CASE Launch
  BY <1>7, LaunchKeeps
<1>8. CASE SubmitLast
  BY <1>8, SubmitLastKeeps
<1>9. CASE WaitOnly
  BY <1>9, WaitOnlyKeeps
<1>10. CASE EndStream
  BY <1>10, EndStreamKeeps
<1>11. CASE BindWhole
  BY <1>11, BindWholeKeeps
<1>12. CASE BindResident
  BY <1>12, BindResidentKeeps
<1>13. CASE RunWhole
  BY <1>13, RunWholeKeeps
<1>14. ASSUME NEW s \in SlotIds, DeviceCopy(s) PROVE ScanInv'
  BY <1>14, DeviceCopyKeeps
<1>15. ASSUME NEW s \in SlotIds, DeviceKernel(s) PROVE ScanInv'
  BY <1>15, DeviceKernelKeeps
<1>16. CASE UNCHANGED scan_vars
  <2>1. UNCHANGED <<memory, column, query, at, next, ok, deferred, slot, work, bound>>
    BY <1>16, Zenon DEF scan_vars, host, stream
  <2>2. Apart(memory') /\ OwnInv' /\ HeldInv' /\ EncodedInv'
    BY <2>1, SameSlots DEF ScanInv
  <2>3. ScanTypes' /\ ChunkInv'
    BY <2>1 DEF ScanInv, ScanTypes, ChunkInv, Busy, SlotIds
  <2>4. HostInv'
    BY <2>1 DEF ScanInv, HostInv, SlotIds, SlotCount, QueryChunks, Current, IdleSlot
  <2> QED BY <2>2, <2>3, <2>4 DEF ScanInv
<1> QED
  BY <1>1, <1>2, <1>3, <1>4, <1>5, <1>6, <1>7, <1>8, <1>9, <1>10, <1>11, <1>12, <1>13, <1>14,
     <1>15, <1>16, Zenon DEF ScanNext, Host, Device

LEMMA HeldIsPinned == ScanInv => InUseIsHeld
<1> SUFFICES ASSUME ScanInv PROVE InUseIsHeld
  OBVIOUS
<1>1. ASSUME NEW s \in SlotIds, work[s] \in {"recorded", "submitted", "copied"}
      PROVE  /\ Len(slot[s].columns) = Len(query.columns)
             /\ InUse(s) \subseteq Own(s) \cup Pinned(memory)
  <2>1. Len(slot[s].columns) = Len(query.columns)
    BY <1>1 DEF ScanInv, ChunkInv, Busy
  <2>2. ASSUME NEW b \in slot[s].held PROVE b \in Pinned(memory)
    <3>1. PinnedFor(memory, b, Cardinality(Holders(b))) /\ Cardinality(Holders(b)) \in Nat \ {0}
      BY HolderFacts DEF ScanInv, HeldInv
    <3>2. PICK i \in DOMAIN memory.cache :
            memory.cache[i].buffer = b /\ memory.cache[i].pins >= Cardinality(Holders(b))
      BY <3>1 DEF PinnedFor
    <3>3. memory.cache[i].pins \in Nat
      BY <3>2, MemoryFacts, ChunkFacts DEF ScanInv, ScanTypes
    <3>4. memory.cache[i].pins > 0
      BY <3>1, <3>2, <3>3
    <3> QED BY <3>2, <3>4 DEF Pinned
  <2>3. InUse(s) \subseteq Own(s) \cup slot[s].held
    BY DEF ScanInv, HeldInv
  <2> QED BY <2>1, <2>2, <2>3
<1>2. Pooled(memory) \cap Cached(memory) = {}
  BY DEF ScanInv, Apart
<1>3. /\ \A s \in SlotIds : Own(s) \cap (Pooled(memory) \cup Cached(memory)) = {}
      /\ \A s, t \in SlotIds : s # t => Own(s) \cap Own(t) = {}
  BY DEF ScanInv, OwnInv
<1> QED BY <1>1, <1>2, <1>3 DEF InUseIsHeld

(* The pool, the cache and each slot have buffers of their own, and what a  *)
(* slot holds is pinned at least once for each slot that holds it, however  *)
(* queries, writes, faults and the device's steps interleave                *)
(* (qe_scan_filter_streamed, qe_resident_acquire, gpu_vulkan_pool_evict).   *)
THEOREM StreamsWellFormed == ScanSpec => []ScanInv
BY InitHolds, StepKeeps, PTL DEF ScanSpec

(* While the device works for a slot, each column has a buffer that is the  *)
(* slot's own or pinned, and no buffer has two owners: neither an eviction  *)
(* for another allocation nor the end of another chunk can take it          *)
(* (qe_resident_pick_victim, qe_resident_unpin, qe_stream_slot_retire).     *)
THEOREM InUseStaysHeld == ScanSpec => []InUseIsHeld
BY InitHolds, StepKeeps, HeldIsPinned, PTL DEF ScanSpec

-------------------------------------------------------------------------------
(* What a slot of a stream reads                                           *)

EntryRows(e) == <<e.column, e.generation, e.chunk>>
RowsAt(col, c, chunk) == <<c, col[c].write_generation, chunk>>

(* A chunk that can be found holds the rows it is found by.                 *)
CacheRight(m) ==
  \A k \in DOMAIN m.cache :
    m.cache[k].ready => m.content[m.cache[k].buffer] = EntryRows(m.cache[k])
EntryFor(m, b, r) ==
  \A k \in DOMAIN m.cache : m.cache[k].buffer = b => EntryRows(m.cache[k]) = r

(* The rows of a column are where the kernel of slot l looks, or will be    *)
(* there after the copies.                                                 *)
Copied(l, w) == l.chunk # None /\ w \in {"copied", "done"}
ColumnRight(m, l, w, b, c, r) ==
  /\ b \in l.held \cup {l.transient[c]}
  /\ b \in l.held => EntryFor(m, b, r)
  /\ IF Copied(l, w) \/ [to |-> b, column |-> c] \notin l.copies
     THEN m.content[b] = r
     ELSE c \in Narrow => l.encoded[c] = r

(* What a kernel over the columns q of a chunk has to give.                 *)
Reading(q, col, chunk) ==
  [chunk |-> chunk, rows |-> [i \in DOMAIN q |-> RowsAt(col, q[i], chunk)]]

SlotRight(m, q, col, l, w, g, chunk) ==
  /\ Len(l.columns) <= Len(q)
  /\ \A i, j \in DOMAIN l.columns : l.columns[i] = l.columns[j] => i = j
  /\ \A i \in DOMAIN l.columns :
       ColumnRight(m, l, w, l.columns[i], q[i], RowsAt(col, q[i], chunk))
  /\ \A b \in l.held : \E i \in DOMAIN l.columns : l.columns[i] = b
  /\ \A copy \in l.copies : \E i \in DOMAIN l.columns :
       copy = [to |-> l.columns[i], column |-> q[i]]
  /\ \A c, d \in ScanColumns :
       l.transient[c] = l.transient[d] => c = d \/ l.transient[c] = None
  /\ l.chunk # None =>
       l.chunk = chunk /\ w # "none" /\ (w = "done" => g = Reading(q, col, chunk))

(* A slot that a step leaves alone.                                        *)
LEMMA FrameRight ==
  ASSUME NEW m, NEW n, NEW q, NEW col, NEW l, NEW w, NEW v, NEW g, NEW chunk,
         SlotRight(m, q, col, l, w, g, chunk),
         v = w \/ (w = "recorded" /\ v = "submitted"),
         \A i \in DOMAIN l.columns : n.content[l.columns[i]] = m.content[l.columns[i]],
         \A b \in l.held : \A r : EntryFor(m, b, r) => EntryFor(n, b, r)
  PROVE  SlotRight(n, q, col, l, v, g, chunk)
<1>1. Copied(l, v) <=> Copied(l, w)
  BY DEF Copied
<1>2. ASSUME NEW i \in DOMAIN l.columns
      PROVE  ColumnRight(n, l, v, l.columns[i], q[i], RowsAt(col, q[i], chunk))
  <2>1. ColumnRight(m, l, w, l.columns[i], q[i], RowsAt(col, q[i], chunk))
    BY DEF SlotRight
  <2>2. n.content[l.columns[i]] = m.content[l.columns[i]]
    OBVIOUS
  <2>3. l.columns[i] \in l.held /\ EntryFor(m, l.columns[i], RowsAt(col, q[i], chunk)) =>
          EntryFor(n, l.columns[i], RowsAt(col, q[i], chunk))
    OBVIOUS
  <2> QED BY <1>1, <2>1, <2>2, <2>3, Zenon DEF ColumnRight
<1>3. l.chunk # None =>
        l.chunk = chunk /\ v # "none" /\ (v = "done" => g = Reading(q, col, chunk))
  BY DEF SlotRight
<1> QED BY <1>2, <1>3 DEF SlotRight

LEMMA EmptyRight ==
  ASSUME NEW m, NEW q \in Seq(ScanColumns), NEW col, NEW l, NEW w, NEW g, NEW chunk,
         l.columns = <<>>, l.held = {}, l.copies = {}, l.chunk = None,
         \A c, d \in ScanColumns :
           l.transient[c] = l.transient[d] => c = d \/ l.transient[c] = None
  PROVE  SlotRight(m, q, col, l, w, g, chunk)
<1>1. DOMAIN l.columns = {} /\ Len(l.columns) = 0 /\ Len(q) \in Nat
  OBVIOUS
<1>2. Len(l.columns) <= Len(q)
  BY <1>1
<1> QED BY <1>1, <1>2 DEF SlotRight

(* One more column is bound.                                               *)
Binds(m, q, col, k, w, g, chunk, c, b, is_held, copied, l) ==
  /\ q \in Seq(ScanColumns) /\ k \in StreamSlots /\ b \in Buffers
  /\ is_held \in BOOLEAN /\ copied \in BOOLEAN
  /\ \A i, j \in DOMAIN q : q[i] = q[j] => i = j
  /\ SlotRight(m, q, col, k, w, g, chunk) /\ k.chunk = None
  /\ Len(k.columns) < Len(q) /\ c = q[Len(k.columns) + 1]
  /\ BoundAs(l, k, c, b, is_held, copied, RowsAt(col, c, chunk))
  /\ \A i \in DOMAIN k.columns : k.columns[i] # b
  /\ is_held => EntryFor(m, b, RowsAt(col, c, chunk))
  /\ ~is_held => \A d \in ScanColumns : k.transient[d] = b => c = d
  /\ ~is_held => b \notin k.held
  /\ ~copied => m.content[b] = RowsAt(col, c, chunk)

LEMMA BindRight ==
  ASSUME NEW m, NEW q, NEW col, NEW k, NEW w, NEW g, NEW chunk, NEW c, NEW b,
         NEW is_held, NEW copied, NEW l,
         Binds(m, q, col, k, w, g, chunk, c, b, is_held, copied, l)
  PROVE  SlotRight(m, q, col, l, w, g, chunk)
<1>b. /\ q \in Seq(ScanColumns) /\ k \in StreamSlots /\ b \in Buffers
      /\ is_held \in BOOLEAN /\ copied \in BOOLEAN
      /\ \A i, j \in DOMAIN q : q[i] = q[j] => i = j
      /\ SlotRight(m, q, col, k, w, g, chunk) /\ k.chunk = None
      /\ Len(k.columns) < Len(q) /\ c = q[Len(k.columns) + 1]
      /\ BoundAs(l, k, c, b, is_held, copied, RowsAt(col, c, chunk))
      /\ \A i \in DOMAIN k.columns : k.columns[i] # b
      /\ is_held => EntryFor(m, b, RowsAt(col, c, chunk))
      /\ ~is_held => \A d \in ScanColumns : k.transient[d] = b => c = d
      /\ ~is_held => b \notin k.held
      /\ ~copied => m.content[b] = RowsAt(col, c, chunk)
  BY Zenon DEF Binds
<1> USE <1>b
<1> DEFINE n == Len(k.columns)
           e == [to |-> b, column |-> c]
<1>1. /\ l \in StreamSlots /\ l.chunk = None /\ l.columns = Append(k.columns, b)
      /\ l.held = IF is_held THEN k.held \cup {b} ELSE k.held
      /\ l.transient = IF is_held THEN k.transient ELSE [k.transient EXCEPT ![c] = b]
      /\ l.copies = IF copied THEN k.copies \cup {e} ELSE k.copies
      /\ l.encoded = IF copied /\ c \in Narrow THEN [k.encoded EXCEPT ![c] = RowsAt(col, c, chunk)]
                     ELSE k.encoded
  BY Zenon DEF BoundAs
<1>2. /\ k.columns \in Seq(Buffers) /\ k.transient \in [ScanColumns -> Buffers \cup {None}]
      /\ k.encoded \in [ScanColumns -> Contents \cup {Nothing}]
  BY DEF StreamSlots
<1>3. /\ n \in Nat /\ Len(q) \in Nat /\ n + 1 \in DOMAIN q /\ c \in ScanColumns
      /\ DOMAIN k.columns = 1 .. n
  BY <1>2
<1>4. /\ Len(l.columns) = n + 1 /\ DOMAIN l.columns = 1 .. n + 1 /\ l.columns[n + 1] = b
      /\ \A i \in 1 .. n : l.columns[i] = k.columns[i]
  BY <1>1, <1>2
<1> HIDE DEF n
<1>5. /\ \A i \in DOMAIN l.columns : i = n + 1 \/ i \in DOMAIN k.columns
      /\ \A i \in DOMAIN k.columns : /\ l.columns[i] = k.columns[i] /\ i \in DOMAIN l.columns
                                     /\ i # n + 1 /\ i \in DOMAIN q
      /\ n + 1 \in DOMAIN l.columns
  <2>1. n <= Len(q) /\ DOMAIN q = 1 .. Len(q)
    BY DEF n, SlotRight
  <2> QED BY <1>3, <1>4, <2>1
<1>s. /\ \A i, j \in DOMAIN k.columns : k.columns[i] = k.columns[j] => i = j
      /\ \A x \in k.held : \E i \in DOMAIN k.columns : k.columns[i] = x
      /\ \A copy \in k.copies : \E i \in DOMAIN k.columns :
           copy = [to |-> k.columns[i], column |-> q[i]]
  BY Zenon DEF SlotRight
<1>6. Len(l.columns) <= Len(q)
  BY <1>3, <1>4 DEF n
<1>7. \A i, j \in DOMAIN l.columns : l.columns[i] = l.columns[j] => i = j
  <2> TAKE i \in DOMAIN l.columns, j \in DOMAIN l.columns
  <2>1. (i = n + 1 \/ i \in DOMAIN k.columns) /\ (j = n + 1 \/ j \in DOMAIN k.columns)
    BY <1>5
  <2> QED BY <1>4, <1>5, <1>s, <2>1
<1>8. \A x \in l.held : \E i \in DOMAIN l.columns : l.columns[i] = x
  <2> TAKE x \in l.held
  <2>1. CASE x = b
    BY <1>4, <1>5, <2>1
  <2>2. CASE x \in k.held
    BY <1>5, <1>s, <2>2
  <2> QED BY <1>1, <2>1, <2>2
<1>9. \A copy \in l.copies : \E i \in DOMAIN l.columns :
        copy = [to |-> l.columns[i], column |-> q[i]]
  <2> TAKE copy \in l.copies
  <2>1. CASE copy = e
    <3>1. e = [to |-> l.columns[n + 1], column |-> q[n + 1]]
      BY <1>4 DEF n
    <3> QED BY <1>5, <2>1, <3>1
  <2>2. CASE copy \in k.copies
    <3>1. PICK i \in DOMAIN k.columns : copy = [to |-> k.columns[i], column |-> q[i]]
      BY <1>s, <2>2
    <3> QED BY <1>5, <3>1
  <2> QED BY <1>1, <2>1, <2>2
<1>10. \A x, y \in ScanColumns :
         l.transient[x] = l.transient[y] => x = y \/ l.transient[x] = None
  <2> TAKE x \in ScanColumns, y \in ScanColumns
  <2>1. k.transient[x] = k.transient[y] => x = y \/ k.transient[x] = None
    BY DEF SlotRight
  <2>2. CASE is_held
    BY <1>1, <2>1, <2>2
  <2>3. CASE ~is_held
    <3>1. \A d \in ScanColumns : l.transient[d] = IF d = c THEN b ELSE k.transient[d]
      BY <1>1, <1>2, <2>3
    <3>2. \A d \in ScanColumns : k.transient[d] = b => c = d
      BY <2>3
    <3> QED BY <2>1, <3>1, <3>2
  <2> QED BY <2>2, <2>3
<1>11. ~Copied(l, w) /\ ~Copied(k, w)
  BY <1>1 DEF Copied
<1>12. ASSUME NEW i \in DOMAIN k.columns
       PROVE  ColumnRight(m, l, w, k.columns[i], q[i], RowsAt(col, q[i], chunk))
  <2> DEFINE x == k.columns[i]
             d == q[i]
             r == RowsAt(col, d, chunk)
  <2>1. /\ x \in k.held \cup {k.transient[d]}
        /\ x \in k.held => EntryFor(m, x, r)
        /\ IF [to |-> x, column |-> d] \notin k.copies
           THEN m.content[x] = r ELSE d \in Narrow => k.encoded[d] = r
    BY <1>11, Zenon DEF SlotRight, ColumnRight
  <2>2. x # b /\ d # c /\ d \in ScanColumns
    BY <1>3, <1>5 DEF n
  <2> HIDE DEF x, d, r
  <2>3. x \in l.held <=> x \in k.held
    BY <1>1, <2>2
  <2>4. l.transient[d] = k.transient[d] /\ l.encoded[d] = k.encoded[d]
    BY <1>1, <1>2, <2>2
  <2>5. [to |-> x, column |-> d] \in l.copies <=> [to |-> x, column |-> d] \in k.copies
    BY <1>1, <2>2
  <2>6. ColumnRight(m, l, w, x, d, r)
    BY <1>11, <2>1, <2>3, <2>4, <2>5 DEF ColumnRight
  <2> QED BY <2>6 DEF x, d, r
<1>13. ColumnRight(m, l, w, b, c, RowsAt(col, c, chunk))
  <2> DEFINE r == RowsAt(col, c, chunk)
  <2>1. b \in l.held \cup {l.transient[c]}
    BY <1>1, <1>2, <1>3
  <2>2. b \in l.held => EntryFor(m, b, r)
    BY <1>1, Zenon
  <2>3. copied /\ c \in Narrow => l.encoded[c] = r
    BY <1>1, <1>2, <1>3
  <2>4. e \in l.copies <=> copied
    <3>1. e \notin k.copies
      <4> SUFFICES ASSUME e \in k.copies PROVE FALSE
        OBVIOUS
      <4>1. PICK i \in DOMAIN k.columns : e = [to |-> k.columns[i], column |-> q[i]]
        BY DEF SlotRight
      <4>2. e.to = b /\ e.to = k.columns[i]
        BY <4>1
      <4> QED BY <4>2
    <3> QED BY <1>1, <3>1
  <2> HIDE DEF r
  <2> QED BY <1>11, <2>1, <2>2, <2>3, <2>4, Zenon DEF ColumnRight, r
<1>14. \A i \in DOMAIN l.columns :
         ColumnRight(m, l, w, l.columns[i], q[i], RowsAt(col, q[i], chunk))
  <2> TAKE i \in DOMAIN l.columns
  <2>1. CASE i = n + 1
    BY <1>4, <1>13, <2>1 DEF n
  <2>2. CASE i \in DOMAIN k.columns
    BY <1>5, <1>12, <2>2
  <2> QED BY <1>5, <2>1, <2>2
<1> QED BY <1>1, <1>6, <1>7, <1>8, <1>9, <1>10, <1>14, Zenon DEF SlotRight

(* The chunk is launched; nothing was copied for it yet.                    *)
LEMMA LaunchRight ==
  ASSUME NEW m, NEW q, NEW col, NEW k, NEW l, NEW w, NEW g, NEW h, NEW chunk,
         SlotRight(m, q, col, k, w, g, chunk), k.chunk = None, l.chunk = chunk,
         l.columns = k.columns, l.held = k.held, l.transient = k.transient,
         l.copies = k.copies, l.encoded = k.encoded
  PROVE  SlotRight(m, q, col, l, "recorded", h, chunk)
<1>1. ~Copied(k, w) /\ ~Copied(l, "recorded")
  BY DEF Copied
<1>2. \A i \in DOMAIN l.columns :
        ColumnRight(m, l, "recorded", l.columns[i], q[i], RowsAt(col, q[i], chunk))
  BY <1>1 DEF SlotRight, ColumnRight
<1> QED BY <1>2 DEF SlotRight

(* A second dispatch, over what the first one read.                         *)
LEMMA OverflowRight ==
  ASSUME NEW m, NEW q, NEW col, NEW k, NEW l, NEW g, NEW chunk,
         SlotRight(m, q, col, k, "done", g, chunk), k.chunk # None, l.chunk = k.chunk,
         l.columns = k.columns, l.held = k.held, l.transient = k.transient, l.copies = {}
  PROVE  SlotRight(m, q, col, l, "submitted", g, chunk)
<1>1. Copied(k, "done")
  BY DEF Copied
<1>2. \A i \in DOMAIN l.columns :
        ColumnRight(m, l, "submitted", l.columns[i], q[i], RowsAt(col, q[i], chunk))
  BY <1>1 DEF SlotRight, ColumnRight
<1> QED BY <1>2 DEF SlotRight

(* The copies of a submitted slot have run.                                *)
CopiedInto(m, n, col, l) ==
  \A b \in Buffers :
    LET into == {copy \in l.copies : copy.to = b}
    IN  n.content[b] = IF into = {} THEN m.content[b]
                       ELSE LET c == (CHOOSE copy \in into : TRUE).column
                            IN  IF c \in Narrow THEN l.encoded[c] ELSE RowsAt(col, c, l.chunk)

LEMMA CopyRight ==
  ASSUME NEW m, NEW n, NEW q, NEW col, NEW l \in StreamSlots, NEW g, NEW chunk,
         SlotRight(m, q, col, l, "submitted", g, chunk), l.chunk # None,
         CopiedInto(m, n, col, l), n.cache = m.cache
  PROVE  SlotRight(n, q, col, l, "copied", g, chunk)
<1>1. ~Copied(l, "submitted") /\ Copied(l, "copied") /\ l.chunk = chunk
  BY DEF Copied, SlotRight
<1>2. ASSUME NEW i \in DOMAIN l.columns
      PROVE  n.content[l.columns[i]] = RowsAt(col, q[i], chunk)
  <2> DEFINE b == l.columns[i]
             r == RowsAt(col, q[i], chunk)
             e == [to |-> b, column |-> q[i]]
             into == {copy \in l.copies : copy.to = b}
             d == CHOOSE copy \in into : TRUE
  <2>1. b \in Buffers
    BY <1>2 DEF StreamSlots
  <2>2. n.content[b] = IF into = {} THEN m.content[b]
                       ELSE IF d.column \in Narrow THEN l.encoded[d.column]
                            ELSE RowsAt(col, d.column, l.chunk)
    BY <2>1 DEF CopiedInto
  <2>3. IF e \notin l.copies THEN m.content[b] = r ELSE q[i] \in Narrow => l.encoded[q[i]] = r
    BY <1>1, <1>2, Zenon DEF SlotRight, ColumnRight
  <2>4. \A copy \in into : copy = e
    <3> TAKE copy \in into
    <3>1. PICK j \in DOMAIN l.columns : copy = [to |-> l.columns[j], column |-> q[j]]
      BY DEF SlotRight
    <3>2. l.columns[j] = b
      BY <3>1
    <3>3. j = i
      BY <3>2 DEF SlotRight
    <3> QED BY <3>1, <3>3
  <2>5. CASE into = {}
    <3>1. e \notin l.copies
      BY <2>5
    <3> QED BY <2>2, <2>3, <2>5, <3>1
  <2>6. CASE into # {}
    <3>1. d \in into
      BY <2>6
    <3>2. d = e /\ e \in l.copies
      BY <2>4, <3>1
    <3> HIDE DEF d, into
    <3>3. d.column = q[i]
      BY <3>2
    <3>4. RowsAt(col, d.column, l.chunk) = r
      BY <1>1, <3>3, Zenon
    <3> HIDE DEF r, e
    <3>5. n.content[b] = IF d.column \in Narrow THEN l.encoded[d.column] ELSE r
      BY <2>2, <2>6, <3>4
    <3>6. n.content[b] = r
      BY <2>3, <3>2, <3>3, <3>5
    <3> QED BY <3>6 DEF r
  <2> QED BY <2>5, <2>6
<1>3. \A i \in DOMAIN l.columns :
        ColumnRight(n, l, "copied", l.columns[i], q[i], RowsAt(col, q[i], chunk))
  <2> TAKE i \in DOMAIN l.columns
  <2>1. /\ l.columns[i] \in l.held \cup {l.transient[q[i]]}
        /\ l.columns[i] \in l.held => EntryFor(n, l.columns[i], RowsAt(col, q[i], chunk))
    <3>1. ColumnRight(m, l, "submitted", l.columns[i], q[i], RowsAt(col, q[i], chunk))
      BY DEF SlotRight
    <3> QED BY <3>1, Zenon DEF ColumnRight, EntryFor
  <2> QED BY <1>1, <1>2, <2>1, Zenon DEF ColumnRight
<1> QED BY <1>1, <1>3 DEF SlotRight

(* What the kernel gives.                                                  *)
FoundBy(m, q, l) ==
  [chunk |-> l.chunk, rows |-> [i \in DOMAIN q |-> m.content[l.columns[i]]]]

LEMMA KernelRight ==
  ASSUME NEW m, NEW q, NEW col, NEW l, NEW g, NEW chunk,
         SlotRight(m, q, col, l, "copied", g, chunk), l.chunk # None,
         DOMAIN l.columns = DOMAIN q
  PROVE  /\ SlotRight(m, q, col, l, "done", FoundBy(m, q, l), chunk)
         /\ FoundBy(m, q, l) = Reading(q, col, chunk)
<1>1. Copied(l, "copied") /\ Copied(l, "done") /\ l.chunk = chunk
  BY DEF Copied, SlotRight
<1>2. \A i \in DOMAIN q : m.content[l.columns[i]] = RowsAt(col, q[i], chunk)
  BY <1>1, Zenon DEF SlotRight, ColumnRight
<1>3. FoundBy(m, q, l) = Reading(q, col, chunk)
  BY <1>1, <1>2 DEF Reading, FoundBy
<1>4. \A i \in DOMAIN l.columns :
        ColumnRight(m, l, "done", l.columns[i], q[i], RowsAt(col, q[i], chunk))
  BY <1>1, Zenon DEF SlotRight, ColumnRight
<1> QED BY <1>1, <1>3, <1>4 DEF SlotRight

-------------------------------------------------------------------------------
(* The answer of a stream                                                  *)

(* A stream nothing of which has failed.                                   *)
Going == ok /\ at \in {"next", "prepare", "drain"}
Preparing(s) == at = "prepare" /\ s = Current
ChunkAt(s) == IF slot[s].chunk # None THEN slot[s].chunk ELSE query.chunks[next + 1]

(* How many chunks were launched, and how many of them collected.           *)
Turn == IF at = "drain" THEN QueryChunks + next ELSE next
Launched == IF at = "drain" THEN QueryChunks ELSE next
Behind(n) == IF QueryChunks = 0 \/ n < SlotCount THEN 0 ELSE n - SlotCount
Collected == Behind(IF at = "prepare" THEN next + 1 ELSE Turn)

QueryInv ==
  /\ at \in {"next", "prepare", "drain"} => query.kind \in {"scan", "dense", "probe", "global"}
  /\ at = "bind" => query.kind \in {"whole", "resident"}
  /\ at # "idle" => answer = "none"
  /\ \A i, j \in DOMAIN query.columns : query.columns[i] = query.columns[j] => i = j
  /\ query.kind = "probe" =>
       \A i, j \in DOMAIN query.chunks : query.chunks[i] = query.chunks[j] => i = j

(* What is copied to is a slot's own, or a chunk only it holds and nobody    *)
(* finds.                                                                  *)
CopiedTo(s, b) ==
  \/ b \in Own(s)
  \/ /\ b \in slot[s].held /\ \A t \in SlotIds : b \in slot[t].held => t = s
     /\ \A k \in DOMAIN memory.cache : memory.cache[k].buffer = b => ~ memory.cache[k].ready
CopyInv == \A s \in SlotIds : \A copy \in slot[s].copies : CopiedTo(s, copy.to)

SlotGood(s) ==
  /\ SlotRight(memory, query.columns, column, slot[s], work[s], got[s], ChunkAt(s))
  /\ slot[s].chunk = None /\ ~ Preparing(s) => slot[s].columns = <<>>
SlotsInv == Going => \A s \in SlotIds : SlotGood(s)

(* The chunks launched and not collected are in the slots in their order.   *)
PlaceInv ==
  Going =>
    /\ Launched <= QueryChunks /\ Collected <= Launched /\ Launched <= Collected + SlotCount
    /\ at # "drain" \/ next <= SlotCount
    /\ \A p \in Collected .. Launched - 1 : slot[p % SlotCount].chunk = query.chunks[p + 1]
    /\ \A s \in SlotIds : slot[s].chunk # None =>
         \E p \in Collected .. Launched - 1 : s = p % SlotCount

(* The chunks read so far: those collected, or of the probe those its        *)
(* kernels are done with.                                                  *)
Done == {s \in SlotIds : slot[s].chunk # None /\ work[s] = "done"}
InOrder(n) == [i \in 1 .. n |-> Reading(query.columns, column, query.chunks[i])]
Readings == {Reading(query.columns, column, p) : p \in Nat}
Firsts(n) == {query.chunks[i] : i \in 1 .. n}
ChunksIn(r) == {r[i].chunk : i \in DOMAIN r}
ResultsInv ==
  Going =>
    /\ query.kind # "probe" => results = InOrder(Collected)
    /\ query.kind = "probe" =>
         /\ results \in Seq(Readings)
         /\ ChunksIn(results) = Firsts(Collected) \cup {slot[s].chunk : s \in Done}
         /\ \A i, j \in DOMAIN results : results[i].chunk = results[j].chunk => i = j

GotInv == DOMAIN got = SlotIds
StreamInv == /\ QueryInv /\ GotInv /\ CacheRight(memory) /\ CopyInv /\ SlotsInv /\ PlaceInv /\ ResultsInv

-------------------------------------------------------------------------------
(* What a step leaves as it was                                            *)

(* Numbers that are equal modulo k are k apart.                             *)
LEMMA ModApart ==
  ASSUME NEW k \in Nat, k >= 1, NEW a \in Nat, NEW b \in Nat, a < b, a % k = b % k
  PROVE  a + k <= b
<1> DEFINE r == a % k
           p == a \div k
           q == b \div k
<1>1. r \in Nat /\ p \in Nat /\ q \in Nat
  OBVIOUS
<1>2. a = k * p + r /\ b = k * q + r
  OBVIOUS
<1> HIDE DEF r, p, q
<1> DEFINE d == q - p
<1>3. d \in Int /\ k * d = b - a
  BY <1>1, <1>2
<1> HIDE DEF d
<1>4. CASE d <= 0
  <2>1. k * d <= 0
    BY <1>3, <1>4
  <2> QED BY <1>3, <2>1
<1>5. CASE d >= 1
  <2>1. k * d >= k
    BY <1>3, <1>5
  <2> QED BY <1>3, <2>1
<1> QED BY <1>3, <1>4, <1>5

LEMMA ModBack ==
  ASSUME NEW k \in Nat, k >= 1, NEW n \in Nat, n >= k
  PROVE  (n - k) \in Nat /\ (n - k) % k = n % k
<1> DEFINE r == n % k
           q == n \div k
           p == (n - k) \div k
           t == (n - k) % k
<1>1. /\ r \in 0 .. k - 1 /\ t \in 0 .. k - 1 /\ q \in Int /\ p \in Int
      /\ n - k \in Nat
  OBVIOUS
<1>2. n = k * q + r
  OBVIOUS
<1>3. n - k = k * p + t
  BY <1>1
<1> HIDE DEF r, q, p, t
<1> DEFINE d == q - p - 1
<1>4. d \in Int /\ k * d = t - r
  <2>1. k * (q - p - 1) = k * q - k * p - k
    BY <1>1
  <2> QED BY <1>1, <1>2, <1>3, <2>1
<1> HIDE DEF d
<1>5. ~ d >= 1
  <2>1. d >= 1 => k * d >= k
    BY <1>4
  <2> QED BY <1>1, <1>4, <2>1
<1>6. ~ d <= -1
  <2>1. d <= -1 => k * d <= -k
    BY <1>4
  <2> QED BY <1>1, <1>4, <2>1
<1>7. d = 0
  BY <1>4, <1>5, <1>6
<1>8. t = r
  BY <1>1, <1>4, <1>7
<1> QED BY <1>1, <1>8 DEF t, r

LEMMA ChunkTyped ==
  ASSUME ScanTypes
  PROVE  /\ \A p \in 1 .. QueryChunks : query.chunks[p] \in Nat /\ query.chunks[p] # None
         /\ DOMAIN query.chunks = 1 .. QueryChunks
BY Constants DEF ScanTypes, QueryChunks

(* What a slot holds is in the cache with a pin, and its own is not.        *)
LEMMA HeldFacts ==
  ASSUME ScanInv, NEW s \in SlotIds
  PROVE  /\ \A b \in slot[s].held : PinnedFor(memory, b, 1) /\ b \in Cached(memory) /\ b \in Buffers
         /\ \A b \in Own(s) : b \in Buffers \ Owned(memory) /\ memory.content[b] # Nothing
         /\ \A i \in DOMAIN slot[s].columns : slot[s].columns[i] \in Own(s) \cup slot[s].held
<1>1. ScanTypes /\ OwnInv /\ HeldInv /\ memory \in Memories
  BY DEF ScanInv, ScanTypes
<1>2. ASSUME NEW b \in slot[s].held
      PROVE  PinnedFor(memory, b, 1) /\ b \in Cached(memory) /\ b \in Buffers
  <2>1. PinnedFor(memory, b, Cardinality(Holders(b))) /\ Cardinality(Holders(b)) \in Nat \ {0}
    BY <1>1, HolderFacts DEF HeldInv
  <2>2. PICK i \in DOMAIN memory.cache :
          memory.cache[i].buffer = b /\ memory.cache[i].pins >= Cardinality(Holders(b))
    BY <2>1 DEF PinnedFor
  <2>3. memory.cache[i].pins \in Nat
    BY <1>1, MemoryFacts, ChunkFacts
  <2>4. PinnedFor(memory, b, 1)
    BY <2>1, <2>2, <2>3 DEF PinnedFor
  <2>5. b \in Cached(memory)
    BY <2>2 DEF Cached
  <2>6. b \in Buffers
    BY <1>1, <2>5, OwnedFacts
  <2> QED BY <2>4, <2>5, <2>6
<1>3. ASSUME NEW b \in Own(s)
      PROVE  b \in Buffers \ Owned(memory) /\ memory.content[b] # Nothing
  BY <1>1, <1>3, SlotTypes DEF OwnInv, Owned
<1>4. \A i \in DOMAIN slot[s].columns : slot[s].columns[i] \in Own(s) \cup slot[s].held
  BY <1>1 DEF HeldInv, InUse
<1> QED BY <1>2, <1>3, <1>4

(* An operation on the memory leaves what a slot has.                       *)
LEMMA HeldFrame ==
  ASSUME ScanInv, NEW n, NEW T, Serves(memory, n), Retains(memory, n, T), NEW s \in SlotIds
  PROVE  /\ \A b \in slot[s].held \cup Own(s) : n.content[b] = memory.content[b]
         /\ \A b \in slot[s].held : b \in Cached(n) /\
              \A k \in DOMAIN n.cache : n.cache[k].buffer = b => EntryStays(memory, n, n.cache[k])
         /\ \A b \in Own(s) : b \notin Owned(n)
<1>1. ASSUME NEW b \in slot[s].held
      PROVE  /\ b \in Cached(n) /\ n.content[b] = memory.content[b]
             /\ \A k \in DOMAIN n.cache :
                  n.cache[k].buffer = b => EntryStays(memory, n, n.cache[k])
  <2>1. PinnedFor(memory, b, 1)
    BY HeldFacts
  <2>2. PinnedFor(n, b, 1)
    BY <2>1 DEF Serves
  <2>3. PICK i \in DOMAIN n.cache : n.cache[i].buffer = b
    BY <2>2 DEF PinnedFor
  <2>4. ASSUME NEW k \in DOMAIN n.cache, n.cache[k].buffer = b
        PROVE  EntryStays(memory, n, n.cache[k])
    <3>1. ~ EntryNew(memory, n.cache[k])
      BY <2>1, <2>4 DEF EntryNew
    <3> QED BY <3>1, Zenon DEF Retains
  <2>5. n.content[b] = memory.content[b]
    BY <2>3, <2>4 DEF EntryStays
  <2> QED BY <2>3, <2>4, <2>5 DEF Cached
<1>2. ASSUME NEW b \in Own(s)
      PROVE  n.content[b] = memory.content[b] /\ b \notin Owned(n)
  <2>1. b \in Buffers \ Owned(memory) /\ memory.content[b] # Nothing
    BY HeldFacts
  <2>2. n.content[b] = memory.content[b]
    BY <2>1, Zenon DEF Retains
  <2>3. b \notin Owned(n)
    BY <2>1, Zenon DEF Serves
  <2> QED BY <2>2, <2>3
<1> QED BY <1>1, <1>2

LEMMA EntryForKept ==
  ASSUME NEW m, NEW n, NEW b,
         \A k \in DOMAIN n.cache : n.cache[k].buffer = b => EntryStays(m, n, n.cache[k])
  PROVE  \A r : EntryFor(m, b, r) => EntryFor(n, b, r)
BY DEF EntryFor, EntryStays, SameChunk, EntryRows

LEMMA CacheKept ==
  ASSUME NEW m, NEW n, NEW T, Retains(m, n, T), CacheRight(m)
  PROVE  CacheRight(n)
<1> SUFFICES ASSUME NEW k \in DOMAIN n.cache, n.cache[k].ready
             PROVE  n.content[n.cache[k].buffer] = EntryRows(n.cache[k])
  BY DEF CacheRight
<1>1. EntryStays(m, n, n.cache[k]) \/ EntryNew(m, n.cache[k])
  BY Zenon DEF Retains
<1> QED BY <1>1 DEF EntryNew, EntryStays, SameChunk, CacheRight, EntryRows

LEMMA EmptySlot ==
  ASSUME NEW m, NEW q, NEW col, NEW l, NEW w, NEW g, NEW chunk,
         SlotRight(m, q, col, l, w, g, chunk), l.columns = <<>>
  PROVE  l.held = {} /\ l.copies = {}
<1>1. DOMAIN l.columns = {}
  OBVIOUS
<1>2. \A b \in l.held : \E i \in DOMAIN l.columns : l.columns[i] = b
  BY Zenon DEF SlotRight
<1>3. \A copy \in l.copies : \E i \in DOMAIN l.columns :
        copy = [to |-> l.columns[i], column |-> q[i]]
  BY Zenon DEF SlotRight
<1> QED BY <1>1, <1>2, <1>3

LEMMA QueryTyped ==
  ASSUME ScanTypes
  PROVE  query.columns \in Seq(ScanColumns) /\ Len(query.columns) \in Nat
BY DEF ScanTypes

(* A slot that the step does not touch, in a stream that goes on.           *)
LEMMA UntouchedGood ==
  ASSUME ScanInv, NEW s \in SlotIds, SlotGood(s), UNCHANGED <<query, column>>,
         slot'[s] = slot[s], got'[s] = got[s],
         work'[s] = work[s] \/ (work[s] = "recorded" /\ work'[s] = "submitted"),
         \A b \in slot[s].held \cup Own(s) : memory'.content[b] = memory.content[b],
         \A b \in slot[s].held : \A r : EntryFor(memory, b, r) => EntryFor(memory', b, r),
         slot[s].chunk = None /\ Preparing(s) => UNCHANGED <<at, next>>
  PROVE  SlotGood(s)'
<1>1. SlotRight(memory, query.columns, column, slot[s], work[s], got[s], ChunkAt(s))
  BY DEF SlotGood
<1>2. \A i \in DOMAIN slot[s].columns :
        memory'.content[slot[s].columns[i]] = memory.content[slot[s].columns[i]]
  BY HeldFacts
<1>3. SlotRight(memory', query.columns, column, slot[s], work'[s], got[s], ChunkAt(s))
  BY <1>1, <1>2, FrameRight
<1>4. CASE slot[s].chunk # None
  <2>1. ChunkAt(s)' = ChunkAt(s)
    BY <1>4 DEF ChunkAt
  <2> QED BY <1>3, <1>4, <2>1 DEF SlotGood
<1>5. CASE slot[s].chunk = None /\ Preparing(s)
  <2>1. at' = at /\ next' = next /\ query' = query
    BY <1>5
  <2>2. ChunkAt(s)' = ChunkAt(s) /\ (Preparing(s))' = Preparing(s)
    BY <2>1 DEF ChunkAt, Preparing, Current, SlotCount, QueryChunks
  <2> QED BY <1>3, <1>5, <2>2 DEF SlotGood
<1>6. CASE slot[s].chunk = None /\ ~ Preparing(s)
  <2>1. slot[s].columns = <<>>
    BY <1>6 DEF SlotGood
  <2>2. slot[s].held = {} /\ slot[s].copies = {}
    BY <1>1, <2>1, EmptySlot
  <2>3. \A c, d \in ScanColumns :
          slot[s].transient[c] = slot[s].transient[d] => c = d \/ slot[s].transient[c] = None
    BY <1>1, Zenon DEF SlotRight
  <2>4. query.columns \in Seq(ScanColumns)
    BY QueryTyped DEF ScanInv
  <2>5. SlotRight(memory', query.columns, column, slot[s], work'[s], got[s], ChunkAt(s)')
    BY <1>6, <2>1, <2>2, <2>3, <2>4, EmptyRight
  <2> QED BY <2>1, <2>5 DEF SlotGood
<1> QED BY <1>4, <1>5, <1>6

LEMMA QueryKept ==
  ASSUME QueryInv, at \in {"next", "prepare", "drain"}, at' \in {"next", "prepare", "drain"},
         UNCHANGED <<query, answer>>
  PROVE  QueryInv'
BY DEF QueryInv

(* Nothing is said of a stream that has failed, or has ended.                *)
LEMMA StoppedKeeps ==
  ASSUME ~ Going'
  PROVE  SlotsInv' /\ PlaceInv' /\ ResultsInv'
BY DEF SlotsInv, PlaceInv, ResultsInv

(* No slot gains or loses its chunk.                                       *)
LEMMA PlacesSame ==
  ASSUME PlaceInv, Going, query' = query, Collected' = Collected, Launched' = Launched,
         \A s \in SlotIds : slot'[s].chunk = slot[s].chunk, ScanTypes,
         at' # "drain" \/ next' <= SlotCount
  PROVE  PlaceInv'
<1>1. SlotCount' = SlotCount /\ QueryChunks' = QueryChunks /\ SlotIds' = SlotIds
  BY DEF SlotCount, QueryChunks, SlotIds
<1>2. \A p \in Collected .. Launched - 1 : p % SlotCount \in SlotIds
  <2> TAKE p \in Collected .. Launched - 1
  <2>1. Collected \in Nat
    BY StreamFacts DEF Collected, Behind, Turn, ScanTypes
  <2>2. p \in Nat
    BY <2>1
  <2>3. SlotCount \in Nat /\ 1 <= SlotCount /\ SlotCount <= Slots /\ Slots \in Nat
    BY StreamFacts, Constants
  <2>4. p % SlotCount \in 0 .. SlotCount - 1
    BY <2>2, <2>3, ModFacts
  <2> QED BY <2>3, <2>4 DEF SlotIds
<1> QED BY <1>1, <1>2 DEF PlaceInv

LEMMA ResultsSame ==
  ASSUME ResultsInv, Going, UNCHANGED <<query, column, results>>, Collected' = Collected,
         Done' = Done, \A s \in Done : slot'[s].chunk = slot[s].chunk
  PROVE  ResultsInv'
<1>1. /\ InOrder(Collected)' = InOrder(Collected) /\ Readings' = Readings
      /\ Firsts(Collected)' = Firsts(Collected) /\ ChunksIn(results)' = ChunksIn(results)
      /\ Done \subseteq SlotIds
  BY DEF InOrder, Readings, Firsts, ChunksIn, Done
<1>2. {slot[s].chunk : s \in Done}' = {slot[s].chunk : s \in Done}
  BY <1>1
<1>3. (query.kind = "probe") => /\ results \in Seq(Readings)
         /\ ChunksIn(results) = Firsts(Collected) \cup {slot[s].chunk : s \in Done}
         /\ \A i, j \in DOMAIN results : results[i].chunk = results[j].chunk => i = j
  BY Zenon DEF ResultsInv
<1>4. query.kind # "probe" => results = InOrder(Collected)
  BY Zenon DEF ResultsInv
<1>5. query' = query /\ results' = results
  OBVIOUS
<1>6. (query.kind # "probe" => results = InOrder(Collected))'
  BY <1>1, <1>4, <1>5
<1>7. ((query.kind = "probe") => /\ results \in Seq(Readings)
         /\ ChunksIn(results) = Firsts(Collected) \cup {slot[s].chunk : s \in Done}
         /\ \A i, j \in DOMAIN results : results[i].chunk = results[j].chunk => i = j)'
  BY <1>1, <1>2, <1>3, <1>5
<1> QED BY <1>6, <1>7 DEF ResultsInv

(* An operation on the memory by which no slot changes.                     *)
LEMMA MemoryFrame ==
  ASSUME ScanInv, CacheRight(memory), CopyInv, Serves(memory, memory'),
         Retains(memory, memory', {}), slot' = slot
  PROVE  CacheRight(memory') /\ CopyInv'
<1>1. CacheRight(memory')
  BY CacheKept
<1>2. ASSUME NEW s \in SlotIds, NEW copy \in slot[s].copies
      PROVE  CopiedTo(s, copy.to)'
  <2> DEFINE b == copy.to
  <2>1. CopiedTo(s, b)
    BY <1>2 DEF CopyInv
  <2>2. Own(s)' = Own(s)
    BY DEF Own
  <2>3. CASE b \in Own(s)
    BY <2>2, <2>3 DEF CopiedTo
  <2>4. CASE b \notin Own(s)
    <3>1. /\ b \in slot[s].held /\ \A t \in SlotIds : b \in slot[t].held => t = s
          /\ \A k \in DOMAIN memory.cache : memory.cache[k].buffer = b => ~ memory.cache[k].ready
      BY <2>1, <2>4 DEF CopiedTo
    <3>2. \A k \in DOMAIN memory'.cache :
            memory'.cache[k].buffer = b => EntryStays(memory, memory', memory'.cache[k])
      BY <3>1, HeldFrame
    <3>3. \A k \in DOMAIN memory'.cache : memory'.cache[k].buffer = b => ~ memory'.cache[k].ready
      BY <3>1, <3>2 DEF EntryStays, SameChunk
    <3> QED BY <3>1, <3>3 DEF CopiedTo, SlotIds
  <2> QED BY <2>3, <2>4
<1>3. CopyInv'
  BY <1>2 DEF CopyInv, SlotIds
<1> QED BY <1>1, <1>3

-------------------------------------------------------------------------------
(* The chunks in their order                                               *)

LEMMA TurnFacts ==
  ASSUME ScanTypes
  PROVE  /\ SlotCount \in Nat /\ 1 <= SlotCount /\ QueryChunks \in Nat /\ next \in Nat
         /\ Turn \in Nat /\ Launched \in Nat /\ Collected \in Nat /\ Current = Turn % SlotCount
         /\ QueryChunks # 0 => SlotCount <= QueryChunks
         /\ Current \in SlotIds
<1>1. SlotCount \in Nat /\ 1 <= SlotCount /\ QueryChunks \in Nat /\ Current \in SlotIds
  BY StreamFacts
<1>2. next \in Nat
  BY DEF ScanTypes
<1>3. Turn \in Nat /\ Launched \in Nat /\ Current = Turn % SlotCount
  BY <1>1, <1>2 DEF Turn, Launched, Current
<1>4. Collected \in Nat
  BY <1>1, <1>2, <1>3 DEF Collected, Behind
<1>5. QueryChunks # 0 => SlotCount <= QueryChunks
  BY <1>1, Constants DEF SlotCount, QueryChunks
<1> QED BY <1>1, <1>2, <1>3, <1>4, <1>5

(* The slot at hand has the first chunk that is not collected, or none.     *)
LEMMA CollectsNext ==
  ASSUME ScanInv, PlaceInv, Collecting(Current)
  PROVE  /\ Going /\ Behind(Turn + 1) \in Nat
         /\ slot[Current].chunk = None => Behind(Turn + 1) = Collected
         /\ slot[Current].chunk # None =>
              /\ Collected < Launched /\ Current = Collected % SlotCount
              /\ slot[Current].chunk = query.chunks[Collected + 1]
              /\ Behind(Turn + 1) = Collected + 1
<1> DEFINE C == SlotCount
           N == QueryChunks
           T == Turn
           L == Launched
           k == Collected
           s == Current
<1>1. /\ ok
      /\ \/ at = "next" /\ next < QueryChunks
         \/ at = "drain" /\ next < SlotCount
  BY DEF Collecting
<1>2. Going
  BY <1>1 DEF Going
<1>3. /\ C \in Nat /\ 1 <= C /\ N \in Nat /\ T \in Nat /\ L \in Nat /\ k \in Nat
      /\ s = T % C /\ (N # 0 => C <= N) /\ next \in Nat /\ s \in SlotIds
  BY TurnFacts DEF ScanInv
<1>4. L <= T /\ L <= N /\ k = Behind(T) /\ T < L + C
  BY <1>1, <1>3 DEF Launched, Turn, Collected
<1>5. \A n \in Nat : Behind(n) = IF N = 0 \/ n < C THEN 0 ELSE n - C
  BY DEF Behind
<1>6. /\ \A p \in k .. L - 1 : slot[p % C].chunk = query.chunks[p + 1]
      /\ \A t \in SlotIds : slot[t].chunk # None => \E p \in k .. L - 1 : t = p % C
  BY <1>2 DEF PlaceInv
<1> HIDE DEF C, N, T, L, k, s
<1>7. T + 1 \in Nat /\ Behind(T + 1) \in Nat
  BY <1>3, <1>5
<1>8. ASSUME slot[s].chunk = None PROVE Behind(T + 1) = k
  <2>1. CASE N = 0 \/ T < C
    <3>1. k = 0
      BY <1>3, <1>4, <1>5, <2>1
    <3>2. Behind(T + 1) = 0
      BY <1>3, <1>5, <1>7, <2>1
    <3> QED BY <3>1, <3>2
  <2>2. CASE N # 0 /\ T >= C
    <3>1. k = T - C /\ k < L
      BY <1>3, <1>4, <1>5, <2>2
    <3>2. k % C = s
      BY <1>3, <2>2, <3>1, ModBack
    <3>3. slot[k % C].chunk = query.chunks[k + 1]
      <4>1. k \in k .. L - 1
        BY <1>3, <3>1
      <4> QED BY <1>6, <4>1
    <3>4. query.chunks[k + 1] # None
      <4>1. k + 1 \in 1 .. N
        BY <1>3, <1>4, <3>1
      <4> QED BY <4>1, ChunkTyped DEF N, ScanInv
    <3> QED BY <1>8, <3>2, <3>3, <3>4
  <2> QED BY <1>3, <2>1, <2>2
<1>9. ASSUME slot[s].chunk # None
      PROVE  /\ k < L /\ s = k % C /\ slot[s].chunk = query.chunks[k + 1]
             /\ Behind(T + 1) = k + 1
  <2>1. PICK p \in k .. L - 1 : s = p % C
    BY <1>3, <1>6, <1>9
  <2>2. p \in Nat /\ p < T
    BY <1>3, <1>4, <2>1
  <2>3. p + C <= T
    BY <1>3, <2>1, <2>2, ModApart
  <2>4. N # 0 /\ T >= C /\ k = T - C /\ p = k
    BY <1>3, <1>4, <1>5, <2>1, <2>2, <2>3
  <2>5. Behind(T + 1) = k + 1
    BY <1>3, <1>5, <1>7, <2>4
  <2>6. slot[s].chunk = query.chunks[k + 1]
    BY <1>6, <2>1, <2>4
  <2>7. k < L
    BY <1>3, <2>1, <2>4
  <2> QED BY <2>1, <2>4, <2>5, <2>6, <2>7
<1> QED BY <1>2, <1>7, <1>8, <1>9 DEF C, T, L, k, s

LEMMA ResumeFacts ==
  ASSUME ScanTypes, query' = query, Collecting(Current), Resume, ok' = ok
  PROVE  /\ Collected' = Behind(Turn + 1) /\ Launched' = Launched /\ Going'
         /\ at' # "drain" \/ next' <= SlotCount
         /\ SlotCount' = SlotCount /\ QueryChunks' = QueryChunks
         /\ at' \in {"prepare", "drain"} /\ at \in {"next", "drain"}
         /\ at' = "prepare" => Current' = Current /\ next' = next
         /\ at' = "drain" => at = "drain"
<1>1. /\ ok
      /\ \/ at = "next" /\ next < QueryChunks /\ at' = "prepare" /\ next' = next
         \/ at = "drain" /\ next < SlotCount /\ at' = at /\ next' = next + 1
  BY DEF Collecting, Resume
<1>2. SlotCount' = SlotCount /\ QueryChunks' = QueryChunks
  BY DEF SlotCount, QueryChunks
<1>3. \A n : Behind(n)' = Behind(n')
  BY <1>2 DEF Behind
<1>4. /\ SlotCount \in Nat /\ QueryChunks \in Nat /\ next \in Nat
  BY TurnFacts
<1>5. CASE at = "next"
  BY <1>1, <1>2, <1>4, <1>5 DEF Collected, Launched, Turn, Going, Current, Behind
<1>6. CASE at = "drain"
  BY <1>1, <1>2, <1>4, <1>6 DEF Collected, Launched, Turn, Going, Current, Behind
<1> QED BY <1>1, <1>5, <1>6

-------------------------------------------------------------------------------
(* Each step keeps what a stream reads                                      *)

LEMMA MemorySame ==
  ASSUME CacheRight(memory), CopyInv, memory' = memory, slot' = slot
  PROVE  CacheRight(memory') /\ CopyInv'
<1>1. \A s : Own(s)' = Own(s)
  BY DEF Own
<1>2. \A s, b : CopiedTo(s, b) => CopiedTo(s, b)'
  BY <1>1 DEF CopiedTo, SlotIds
<1> QED BY <1>2 DEF CopyInv, SlotIds

LEMMA StreamRetireNothing ==
  ASSUME ScanInv, StreamInv, RetireNothing
  PROVE  StreamInv'
<1> USE DEF StreamInv, ScanInv
<1>1. /\ UNCHANGED <<memory, column, query, ok, slot, work, got, results, answer>>
      /\ Collecting(Current) /\ slot[Current].chunk = None /\ Resume
  BY DEF RetireNothing, stream
<1>2. /\ Collected' = Collected /\ Launched' = Launched /\ Going /\ Going'
      /\ at' # "drain" \/ next' <= SlotCount
      /\ at' \in {"prepare", "drain"} /\ at \in {"next", "drain"}
  BY <1>1, ResumeFacts, CollectsNext
<1>3. QueryInv' /\ GotInv'
  BY <1>1, <1>2, QueryKept DEF GotInv, SlotIds
<1>4. CacheRight(memory') /\ CopyInv'
  BY <1>1, MemorySame
<1>5. SlotsInv'
  <2>1. ASSUME NEW s \in SlotIds PROVE SlotGood(s)'
    <3>1. SlotGood(s) /\ ~ Preparing(s)
      BY <1>2 DEF SlotsInv, Preparing
    <3> QED BY <1>1, <3>1, UntouchedGood
  <2> QED BY <2>1 DEF SlotsInv, SlotIds
<1>6. PlaceInv'
  BY <1>1, <1>2, PlacesSame
<1>7. ResultsInv'
  <2>1. Done' = Done
    BY <1>1 DEF Done, SlotIds
  <2> QED BY <1>1, <1>2, <2>1, ResultsSame
<1> QED BY <1>3, <1>4, <1>5, <1>6, <1>7

LEMMA StreamWaitOnly ==
  ASSUME ScanInv, StreamInv, WaitOnly
  PROVE  StreamInv'
<1> USE DEF StreamInv
<1>1. /\ UNCHANGED <<memory, query, ok, slot, got, answer>> /\ ~ ok /\ at = "drain" /\ at' = at
  BY DEF WaitOnly, stream
<1>2. QueryInv' /\ GotInv'
  BY <1>1, QueryKept DEF GotInv, SlotIds
<1>3. CacheRight(memory') /\ CopyInv'
  BY <1>1, MemorySame
<1>4. ~ Going'
  BY <1>1 DEF Going
<1> QED BY <1>2, <1>3, <1>4, StoppedKeeps

(* The slot before is submitted, or not at all.                             *)
LEMMA Submitted ==
  ASSUME ScanInv, NEW w \in [SlotIds -> {"none", "recorded", "submitted", "copied", "done"}],
         \A t \in SlotIds : w[t] = "recorded" => work[t] = "recorded" \/ t = Current,
         deferred # None => w[deferred] = "recorded", NEW v, v = SubmitDeferred(FALSE, w)
  PROVE  \A t \in SlotIds : v[t] = w[t] \/ (w[t] = "recorded" /\ v[t] = "submitted")
<1>1. deferred \in SlotIds \cup {None}
  BY DEF ScanInv, ScanTypes
<1>2. CASE deferred = None
  BY <1>2 DEF SubmitDeferred
<1>3. CASE deferred # None
  <2>1. v = [w EXCEPT ![deferred] = "submitted"]
    BY <1>3 DEF SubmitDeferred
  <2> QED BY <1>1, <1>3, <2>1
<1> QED BY <1>2, <1>3

LEMMA DeferredRecorded ==
  ASSUME ScanInv, at \in {"next", "prepare"}, deferred # None
  PROVE  deferred \in SlotIds /\ work[deferred] = "recorded" /\ next # 0
<1>1. next # 0
  BY DEF ScanInv, HostInv
<1> QED BY <1>1, DeferredFacts DEF ScanInv

LEMMA StreamSubmitLast ==
  ASSUME ScanInv, StreamInv, SubmitLast
  PROVE  StreamInv'
<1> USE DEF StreamInv, ScanInv
<1>1. PICK fails \in Fault("submit") :
        work' = SubmitDeferred(fails, work) /\ ok' = ~fails
  BY DEF SubmitLast
<1>2. /\ at = "next" /\ ok /\ next = QueryChunks /\ at' = "drain" /\ next' = 0
      /\ UNCHANGED <<memory, column, query, slot, got, results, answer>>
  BY DEF SubmitLast
<1>3. fails \in BOOLEAN
  BY <1>1, FaultFacts
<1>4. QueryInv' /\ GotInv'
  BY <1>2, QueryKept DEF GotInv, SlotIds
<1>5. CacheRight(memory') /\ CopyInv'
  BY <1>2, MemorySame
<1>6. CASE fails
  <2>1. ~ Going'
    BY <1>1, <1>6 DEF Going
  <2> QED BY <1>4, <1>5, <2>1, StoppedKeeps
<1>7. CASE ~fails
  <2>1. Going
    BY <1>2 DEF Going
  <2>2. work' = SubmitDeferred(FALSE, work)
    BY <1>1, <1>3, <1>7
  <2>3. \A t \in SlotIds :
          work'[t] = work[t] \/ (work[t] = "recorded" /\ work'[t] = "submitted")
    <3>1. work \in [SlotIds -> {"none", "recorded", "submitted", "copied", "done"}]
      BY DEF ScanTypes
    <3>2. deferred # None => work[deferred] = "recorded"
      BY <1>2, DeferredRecorded
    <3> QED BY <2>2, <3>1, <3>2, Submitted
  <2>4. /\ Collected' = Collected /\ Launched' = Launched
        /\ SlotCount' = SlotCount /\ QueryChunks' = QueryChunks
    <3>1. SlotCount' = SlotCount /\ QueryChunks' = QueryChunks
      BY <1>2 DEF SlotCount, QueryChunks
    <3>2. QueryChunks \in Nat
      BY StreamFacts
    <3>3. Turn' = Turn
      BY <1>2, <3>1, <3>2 DEF Turn
    <3> QED BY <1>2, <3>1, <3>3 DEF Collected, Launched, Behind
  <2>5. SlotsInv'
    <3>1. ASSUME NEW s \in SlotIds PROVE SlotGood(s)'
      <4>1. SlotGood(s) /\ ~ Preparing(s)
        BY <1>2, <2>1 DEF SlotsInv, Preparing
      <4> QED BY <1>2, <2>3, <4>1, UntouchedGood
    <3> QED BY <3>1 DEF SlotsInv, SlotIds
  <2>6. PlaceInv'
    <3>1. next' <= SlotCount
      BY <1>2, StreamFacts
    <3> QED BY <1>2, <2>1, <2>4, <3>1, PlacesSame
  <2>7. ResultsInv'
    <3>1. Done' = Done
      BY <1>2, <2>3 DEF Done, SlotIds
    <3> QED BY <1>2, <2>1, <2>4, <3>1, ResultsSame
  <2> QED BY <1>4, <1>5, <2>5, <2>6, <2>7
<1> QED BY <1>3, <1>6, <1>7

LEMMA GiveUpFacts ==
  ASSUME GiveUp, at \in {"next", "prepare", "drain"}
  PROVE  ~ Going' /\ at' = "drain"
BY DEF GiveUp, Going

LEMMA StreamRetireOverflow ==
  ASSUME ScanInv, StreamInv, RetireOverflow
  PROVE  StreamInv'
<1> USE DEF StreamInv, ScanInv
<1>6. PICK s \in SlotIds : s = Current
  BY StreamFacts
<1> DEFINE l == [slot[s] EXCEPT !.grown = TRUE, !.copies = {}]
<1>1. PICK fails \in Fault("begin") :
        /\ memory' = [memory EXCEPT !.failed = @ \/ fails]
        /\ IF fails THEN GiveUp /\ UNCHANGED <<slot, work>>
           ELSE /\ slot' = [slot EXCEPT ![s] = l] /\ work' = [work EXCEPT ![s] = "submitted"]
                /\ UNCHANGED <<at, next, ok>>
  BY <1>6, Zenon DEF RetireOverflow
<1>2. /\ Collecting(s) /\ query.kind = "scan" /\ slot[s].chunk # None /\ Waited(s)
      /\ UNCHANGED <<column, query, got, results, answer>>
  BY <1>6 DEF RetireOverflow
<1>3. fails \in BOOLEAN
  BY <1>1, FaultFacts
<1>4. /\ memory'.content = memory.content /\ memory'.cache = memory.cache
      /\ Serves(memory, memory') /\ Retains(memory, memory', {})
  <2>1. memory \in Memories /\ Apart(memory) /\ (memory.failed \/ fails) \in BOOLEAN
    BY <1>3 DEF ScanTypes
  <2>2. memory' = [memory EXCEPT !.failed = memory.failed \/ fails]
    BY <1>1
  <2>3. Serves(memory, memory')
    BY <2>1, <2>2, FailedServes, Zenon DEF Shrinks
  <2>4. /\ memory'.content = memory.content /\ memory'.pool = memory.pool
        /\ memory'.epoch = memory.epoch /\ memory'.cache = memory.cache
    BY <2>1, <2>2, MemoryFacts, Changed, SMTT(60)
  <2> QED BY <2>1, <2>3, <2>4, SameRetained
<1>5. at \in {"next", "drain"} /\ Going
  BY <1>2 DEF Collecting, Going
<1>7. CASE fails
  <2>1. GiveUp /\ slot' = slot
    BY <1>1, <1>7
  <2>2. ~ Going' /\ at' = "drain"
    BY <1>5, <2>1, GiveUpFacts
  <2>3. QueryInv' /\ GotInv'
    BY <1>2, <1>5, <2>2, QueryKept DEF GotInv, SlotIds
  <2>4. CacheRight(memory') /\ CopyInv'
    BY <1>4, <2>1, MemoryFrame
  <2> QED BY <2>2, <2>3, <2>4, StoppedKeeps
<1>8. CASE ~fails
  <2>1. /\ slot' = [slot EXCEPT ![s] = l] /\ work' = [work EXCEPT ![s] = "submitted"]
        /\ UNCHANGED <<at, next, ok>>
    BY <1>1, <1>8
  <2>2. l \in StreamSlots /\ l.chunk = slot[s].chunk /\ l.columns = slot[s].columns
        /\ l.held = slot[s].held /\ l.transient = slot[s].transient /\ l.copies = {}
    <3>1. slot[s] \in StreamSlots
      BY <1>6, SlotTypes
    <3> QED BY <3>1 DEF StreamSlots
  <2> HIDE DEF l
  <2>3. /\ slot'[s] = l /\ \A t \in SlotIds : t # s => slot'[t] = slot[t]
        /\ \A t \in SlotIds : slot'[t].chunk = slot[t].chunk
    BY <1>6, <2>1, <2>2, NewSlot
  <2>4. work'[s] = "submitted" /\ \A t \in SlotIds : t # s => work'[t] = work[t]
    BY <1>6, <2>1, WorkTypes
  <2>5. /\ QueryChunks' = QueryChunks /\ SlotCount' = SlotCount /\ Turn' = Turn
        /\ Launched' = Launched /\ Current' = Current
    BY <1>2, <2>1 DEF QueryChunks, SlotCount, Turn, Launched, Current
  <2>6. Collected' = Collected
    BY <1>2, <2>1, <2>5 DEF Collected, Behind
  <2>7. Going'
    BY <1>5, <2>1 DEF Going
  <2>8. SlotGood(s) /\ work[s] = "done"
    <3>1. SlotGood(s)
      BY <1>5, <1>6 DEF SlotsInv
    <3>2. work[s] # "none"
      BY <1>2, <3>1 DEF SlotGood, SlotRight
    <3>3. work[s] # "recorded"
      <4>1. work[s] = "recorded" => deferred = s /\ at = "next"
        BY <1>2, <1>5, <1>6 DEF HostInv, Collecting
      <4>2. deferred = s => deferred # None
        BY <1>6, Constants DEF SlotIds
      <4>3. at = "next" /\ deferred # None => deferred # s
        <5>1. at = "next" => next < QueryChunks
          BY <1>2 DEF Collecting
        <5> QED BY <1>6, <5>1, DeferredRecorded, DeferredFacts
      <4> QED BY <4>1, <4>2, <4>3
    <3>4. work[s] \in {"none", "recorded", "submitted", "copied", "done"}
      BY <1>6 DEF ScanTypes
    <3> QED BY <1>2, <3>1, <3>2, <3>3, <3>4 DEF Waited
  <2>9. SlotGood(s)'
    <3>1. SlotRight(memory, query.columns, column, slot[s], "done", got[s], ChunkAt(s))
      BY <2>8 DEF SlotGood
    <3>2. SlotRight(memory, query.columns, column, l, "submitted", got[s], ChunkAt(s))
      BY <1>2, <2>2, <3>1, OverflowRight
    <3>3. SlotRight(memory', query.columns, column, l, "submitted", got[s], ChunkAt(s))
      BY <1>4, <3>2, FrameRight, Zenon DEF EntryFor
    <3>4. ChunkAt(s)' = ChunkAt(s)
      BY <1>2, <2>2, <2>3 DEF ChunkAt
    <3> QED BY <1>2, <2>2, <2>3, <2>4, <3>3, <3>4 DEF SlotGood
  <2>10. SlotsInv'
    <3>1. ASSUME NEW t \in SlotIds, t # s PROVE SlotGood(t)'
      <4>1. SlotGood(t) /\ ~ Preparing(t)
        BY <1>5 DEF SlotsInv, Preparing
      <4> QED BY <1>2, <1>4, <2>3, <2>4, <3>1, <4>1, UntouchedGood DEF EntryFor
    <3> QED BY <2>9, <3>1 DEF SlotsInv, SlotIds
  <2>11. CopyInv'
    <3>1. ASSUME NEW t \in SlotIds, NEW copy \in slot'[t].copies PROVE CopiedTo(t, copy.to)'
      <4>1. t # s /\ copy \in slot[t].copies
        BY <2>2, <2>3, <3>1
      <4>2. CopiedTo(t, copy.to)
        BY <4>1 DEF CopyInv
      <4>3. Own(t)' = Own(t)
        BY <2>3, <4>1 DEF Own
      <4>4. \A u \in SlotIds : slot'[u].held = slot[u].held
        BY <2>2, <2>3
      <4> QED BY <1>4, <4>2, <4>3, <4>4 DEF CopiedTo, SlotIds
    <3> QED BY <3>1 DEF CopyInv, SlotIds
  <2>12. CacheRight(memory')
    BY <1>4, CacheKept
  <2>13. QueryInv' /\ GotInv'
    BY <1>2, <1>5, <2>1, QueryKept DEF GotInv, SlotIds
  <2>14. PlaceInv'
    BY <1>2, <1>5, <2>1, <2>3, <2>5, <2>6, PlacesSame DEF PlaceInv
  <2>15. ResultsInv'
    <3>1. results = InOrder(Collected)
      BY <1>2, <1>5 DEF ResultsInv
    <3>2. InOrder(Collected)' = InOrder(Collected)
      BY <1>2, <2>6 DEF InOrder
    <3> QED BY <1>2, <3>1, <3>2 DEF ResultsInv
  <2> QED BY <2>10, <2>11, <2>12, <2>13, <2>14, <2>15
<1> QED BY <1>3, <1>7, <1>8

(* A chunk of the probe is in one slot, and was not collected.              *)
LEMMA ChunkOnce ==
  ASSUME ScanInv, PlaceInv, QueryInv, Going, query.kind = "probe",
         NEW s \in SlotIds, slot[s].chunk # None
  PROVE  /\ slot[s].chunk \notin Firsts(Collected)
         /\ \A t \in SlotIds : slot[t].chunk = slot[s].chunk => t = s
<1>1. /\ Launched <= QueryChunks /\ Launched \in Nat /\ Collected \in Nat /\ QueryChunks \in Nat
      /\ DOMAIN query.chunks = 1 .. QueryChunks
  BY TurnFacts, ChunkTyped DEF PlaceInv, ScanInv
<1>2. /\ \A p \in Collected .. Launched - 1 : slot[p % SlotCount].chunk = query.chunks[p + 1]
      /\ \A t \in SlotIds : slot[t].chunk # None => \E p \in Collected .. Launched - 1 : t = p % SlotCount
  BY DEF PlaceInv
<1>3. \A i, j \in DOMAIN query.chunks : query.chunks[i] = query.chunks[j] => i = j
  BY DEF QueryInv
<1>4. PICK p \in Collected .. Launched - 1 : s = p % SlotCount
  BY <1>2
<1>5. slot[s].chunk = query.chunks[p + 1] /\ p + 1 \in DOMAIN query.chunks
  BY <1>1, <1>2, <1>4
<1>6. slot[s].chunk \notin Firsts(Collected)
  <2> SUFFICES ASSUME NEW i \in 1 .. Collected, query.chunks[i] = slot[s].chunk PROVE FALSE
    BY DEF Firsts
  <2>1. i \in DOMAIN query.chunks
    BY <1>1, <1>4
  <2>2. i = p + 1
    BY <1>3, <1>5, <2>1
  <2> QED BY <1>1, <1>4, <2>2
<1>7. ASSUME NEW t \in SlotIds, slot[t].chunk = slot[s].chunk PROVE t = s
  <2>1. PICK r \in Collected .. Launched - 1 : t = r % SlotCount
    BY <1>2, <1>7
  <2>2. slot[t].chunk = query.chunks[r + 1] /\ r + 1 \in DOMAIN query.chunks
    BY <1>1, <1>2, <2>1
  <2>3. r + 1 = p + 1
    BY <1>3, <1>5, <1>7, <2>2
  <2>4. r = p
    BY <1>1, <1>4, <2>1, <2>3
  <2> QED BY <1>4, <2>1, <2>4
<1> QED BY <1>6, <1>7

LEMMA OneMore ==
  ASSUME NEW R, NEW r \in Seq(R), NEW x \in R, x.chunk \notin ChunksIn(r),
         \A i, j \in DOMAIN r : r[i].chunk = r[j].chunk => i = j
  PROVE  /\ Append(r, x) \in Seq(R) /\ ChunksIn(Append(r, x)) = ChunksIn(r) \cup {x.chunk}
         /\ \A i, j \in DOMAIN Append(r, x) :
              Append(r, x)[i].chunk = Append(r, x)[j].chunk => i = j
<1> DEFINE u == Append(r, x)
           n == Len(r)
<1>1. /\ u \in Seq(R) /\ n \in Nat /\ DOMAIN r = 1 .. n /\ DOMAIN u = 1 .. n + 1
      /\ u[n + 1] = x /\ \A i \in 1 .. n : u[i] = r[i]
  OBVIOUS
<1> HIDE DEF u, n
<1>2. \A i \in DOMAIN u : i = n + 1 \/ i \in DOMAIN r
  BY <1>1
<1>3. /\ n + 1 \in DOMAIN u /\ \A i \in DOMAIN r : i \in DOMAIN u /\ u[i] = r[i]
  BY <1>1
<1>4. ChunksIn(u) = ChunksIn(r) \cup {x.chunk}
  BY <1>1, <1>2, <1>3 DEF ChunksIn
<1>5. \A i \in DOMAIN r : r[i].chunk # x.chunk
  BY DEF ChunksIn
<1>6. ASSUME NEW i \in DOMAIN u, NEW j \in DOMAIN u, u[i].chunk = u[j].chunk PROVE i = j
  <2>1. (i = n + 1 \/ i \in DOMAIN r) /\ (j = n + 1 \/ j \in DOMAIN r)
    BY <1>2
  <2> QED BY <1>1, <1>3, <1>5, <1>6, <2>1
<1> QED BY <1>1, <1>4, <1>6 DEF u

LEMMA SameTurn ==
  ASSUME UNCHANGED <<query, at, next, ok>>
  PROVE  /\ Collected' = Collected /\ Launched' = Launched /\ Going' = Going
         /\ \A s : Preparing(s)' = Preparing(s)
BY DEF Collected, Launched, Going, Behind, Turn, QueryChunks, SlotCount, Preparing, Current

LEMMA StreamKernel ==
  ASSUME ScanInv, StreamInv, NEW s \in SlotIds, DeviceKernel(s)
  PROVE  StreamInv'
<1> USE DEF StreamInv, ScanInv
<1>1. /\ work[s] = "copied" /\ work' = [work EXCEPT ![s] = "done"]
      /\ got' = [got EXCEPT ![s] = Found(s)]
      /\ results' = IF query.kind = "probe" THEN Append(results, Found(s)) ELSE results
      /\ UNCHANGED <<memory, column, query, at, next, ok, slot, answer>>
  BY Zenon DEF DeviceKernel, host
<1>2. work'[s] = "done" /\ \A t \in SlotIds : t # s => work'[t] = work[t]
  BY <1>1, WorkTypes
<1>3. \A t \in SlotIds : t # s => got'[t] = got[t]
  BY <1>1
<1>4. QueryInv' /\ GotInv'
  BY <1>1 DEF QueryInv, GotInv, SlotIds
<1>5. CacheRight(memory') /\ CopyInv'
  BY <1>1, MemorySame
<1>6. Going' = Going /\ Collected' = Collected /\ Launched' = Launched
  BY <1>1, SameTurn
<1>7. CASE ~ Going
  BY <1>4, <1>5, <1>6, <1>7, StoppedKeeps
<1>8. CASE Going
  <2> DEFINE h == Found(s)
  <2>1. SlotGood(s) /\ slot[s].chunk # None /\ Len(slot[s].columns) = Len(query.columns)
    BY <1>1, <1>8 DEF SlotsInv, ChunkInv, Busy
  <2>2. DOMAIN slot[s].columns = DOMAIN query.columns
    <3>1. slot[s].columns \in Seq(Buffers) /\ query.columns \in Seq(ScanColumns)
      BY SlotTypes, QueryTyped
    <3> QED BY <2>1, <3>1
  <2>3. h = FoundBy(memory, query.columns, slot[s]) /\ h.chunk = slot[s].chunk
    BY DEF Found, FoundBy
  <2>4. SlotRight(memory, query.columns, column, slot[s], "copied", got[s], ChunkAt(s))
    BY <1>1, <2>1 DEF SlotGood
  <2> HIDE DEF h
  <2>5. /\ SlotRight(memory, query.columns, column, slot[s], "done", h, ChunkAt(s))
        /\ h = Reading(query.columns, column, ChunkAt(s))
    BY <2>1, <2>2, <2>3, <2>4, KernelRight
  <2>6. got'[s] = h
    BY <1>1 DEF h, GotInv
  <2>7. ChunkAt(s) = slot[s].chunk /\ ChunkAt(s)' = ChunkAt(s)
    BY <1>1, <2>1 DEF ChunkAt
  <2>8. SlotGood(s)'
    <3> QED BY <1>1, <1>2, <2>1, <2>5, <2>6, <2>7 DEF SlotGood
  <2>9. SlotsInv'
    <3>1. ASSUME NEW t \in SlotIds, t # s PROVE SlotGood(t)'
      <4>1. SlotGood(t)
        BY <1>8 DEF SlotsInv
      <4> QED BY <1>1, <1>2, <1>3, <3>1, <4>1, UntouchedGood
    <3> QED BY <2>8, <3>1 DEF SlotsInv, SlotIds
  <2>10. PlaceInv'
    BY <1>1, <1>6, <1>8, PlacesSame DEF PlaceInv
  <2>11. CASE query.kind # "probe"
    <3>1. results = InOrder(Collected) /\ InOrder(Collected)' = InOrder(Collected)
      BY <1>1, <1>6, <1>8, <2>11 DEF ResultsInv, InOrder
    <3>2. ResultsInv'
      BY <1>1, <2>11, <3>1 DEF ResultsInv
    <3> QED BY <1>4, <1>5, <2>9, <2>10, <3>2
  <2>12. CASE query.kind = "probe"
    <3>1. /\ results \in Seq(Readings)
          /\ ChunksIn(results) = Firsts(Collected) \cup {slot[t].chunk : t \in Done}
          /\ \A i, j \in DOMAIN results : results[i].chunk = results[j].chunk => i = j
      BY <1>8, <2>12, Zenon DEF ResultsInv
    <3>2. h.chunk = slot[s].chunk /\ h \in Readings
      <4>1. slot[s].chunk \in Nat
        BY <2>1, SlotTypes
      <4> QED BY <2>3, <2>5, <2>7, <4>1 DEF Readings
    <3>3. h.chunk \notin ChunksIn(results)
      <4>1. /\ slot[s].chunk \notin Firsts(Collected)
            /\ \A t \in SlotIds : slot[t].chunk = slot[s].chunk => t = s
        BY <1>8, <2>1, <2>12, ChunkOnce
      <4>2. \A t \in Done : t \in SlotIds /\ t # s
        BY <1>1 DEF Done
      <4>3. slot[s].chunk \notin {slot[t].chunk : t \in Done}
        BY <4>1, <4>2
      <4> QED BY <3>1, <3>2, <4>1, <4>3
    <3>4. /\ Append(results, h) \in Seq(Readings)
          /\ ChunksIn(Append(results, h)) = ChunksIn(results) \cup {h.chunk}
          /\ \A i, j \in DOMAIN Append(results, h) :
               Append(results, h)[i].chunk = Append(results, h)[j].chunk => i = j
      BY <3>1, <3>2, <3>3, OneMore
    <3>5. Done' = Done \cup {s}
      BY <1>1, <1>2, <2>1 DEF Done, SlotIds
    <3>6. /\ results' = Append(results, h) /\ Readings' = Readings
          /\ Firsts(Collected)' = Firsts(Collected) /\ slot' = slot /\ query' = query
      BY <1>1, <1>6, <2>12 DEF h, Readings, Firsts
    <3>7. {slot[t].chunk : t \in Done}' = {slot[t].chunk : t \in Done} \cup {h.chunk}
      BY <3>2, <3>5, <3>6
    <3>8. /\ (results \in Seq(Readings))'
          /\ (\A i, j \in DOMAIN results : results[i].chunk = results[j].chunk => i = j)'
      BY <3>4, <3>6
    <3>9. (ChunksIn(results) = Firsts(Collected) \cup {slot[t].chunk : t \in Done})'
      <4>1. ChunksIn(results)' = ChunksIn(results')
        BY DEF ChunksIn
      <4> QED BY <3>1, <3>4, <3>6, <3>7, <4>1
    <3>10. ResultsInv'
      BY <2>12, <3>6, <3>8, <3>9 DEF ResultsInv
    <3> QED BY <1>4, <1>5, <2>9, <2>10, <3>10
  <2> QED BY <2>11, <2>12
<1> QED BY <1>7, <1>8

(* The copies of a slot go to none of the buffers of another, to no chunk   *)
(* that can be found and to no named buffer.                                *)
LEMMA CopyTargets ==
  ASSUME ScanInv, CopyInv, NEW s \in SlotIds, NEW copy \in slot[s].copies
  PROVE  /\ \A t \in SlotIds : t # s => copy.to \notin slot[t].held \cup Own(t)
         /\ \A k \in DOMAIN memory.cache : memory.cache[k].ready => memory.cache[k].buffer # copy.to
         /\ copy.to \notin Pooled(memory)
<1> DEFINE b == copy.to
<1>1. CopiedTo(s, b)
  BY DEF CopyInv
<1>2. memory \in Memories /\ Apart(memory) /\ OwnInv
  BY DEF ScanInv, ScanTypes
<1> HIDE DEF b
<1>3. CASE b \in Own(s)
  <2>1. b \notin Owned(memory)
    BY <1>3, HeldFacts
  <2>2. b \notin Cached(memory) /\ b \notin Pooled(memory)
    BY <2>1 DEF Owned
  <2>3. \A k \in DOMAIN memory.cache : memory.cache[k].buffer # b
    BY <1>2, <2>2, OwnedFacts
  <2>4. \A t \in SlotIds : t # s => b \notin Own(t)
    BY <1>2, <1>3 DEF OwnInv
  <2>5. \A t \in SlotIds : b \notin slot[t].held
    BY <2>2, HeldFacts
  <2> QED BY <2>2, <2>3, <2>4, <2>5 DEF b
<1>4. CASE b \notin Own(s)
  <2>1. /\ b \in slot[s].held /\ \A t \in SlotIds : b \in slot[t].held => t = s
        /\ \A k \in DOMAIN memory.cache : memory.cache[k].buffer = b => ~ memory.cache[k].ready
    BY <1>1, <1>4 DEF CopiedTo
  <2>2. b \in Cached(memory)
    BY <2>1, HeldFacts
  <2>3. b \notin Pooled(memory)
    BY <1>2, <2>2 DEF Apart
  <2>4. \A t \in SlotIds : b \notin Own(t)
    BY <2>2 DEF ScanInv, OwnInv
  <2> QED BY <2>1, <2>3, <2>4 DEF b
<1> QED BY <1>3, <1>4

LEMMA CopyFacts ==
  ASSUME ScanInv, CopyInv, NEW s \in SlotIds, DeviceCopy(s)
  PROVE  /\ memory'.cache = memory.cache /\ memory'.pool = memory.pool /\ memory'.epoch = memory.epoch
         /\ CopiedInto(memory, memory', column, slot[s])
         /\ \A t \in SlotIds : t # s =>
              \A b \in slot[t].held \cup Own(t) : memory'.content[b] = memory.content[b]
         /\ \A k \in DOMAIN memory.cache : memory.cache[k].ready =>
              memory'.content[memory.cache[k].buffer] = memory.content[memory.cache[k].buffer]
         /\ \A b \in Pooled(memory) : memory'.content[b] = memory.content[b]
<1> DEFINE content == [b \in Buffers |-> Written(s, b)]
<1>1. memory' = [memory EXCEPT !.content = content] /\ memory \in Memories
  BY Zenon DEF DeviceCopy, ScanInv, ScanTypes
<1>2. \A b \in Buffers : content[b] = Written(s, b)
  OBVIOUS
<1> HIDE DEF content
<1>3. memory' = [content |-> content, pool |-> memory.pool, epoch |-> memory.epoch,
                 cache |-> memory.cache, failed |-> memory.failed]
  BY <1>1, MemoryFacts, Changed, ZenonT(60)
<1>4. /\ memory'.content = content /\ memory'.pool = memory.pool /\ memory'.epoch = memory.epoch
      /\ memory'.cache = memory.cache
  BY <1>3
<1>5. CopiedInto(memory, memory', column, slot[s])
  <2>1. \A b \in Buffers :
          Written(s, b) = IF {copy \in slot[s].copies : copy.to = b} = {} THEN memory.content[b]
                          ELSE LET c == (CHOOSE copy \in {copy \in slot[s].copies : copy.to = b} :
                                           TRUE).column
                               IN  IF c \in Narrow THEN slot[s].encoded[c]
                                   ELSE RowsAt(column, c, slot[s].chunk)
    BY Zenon DEF Written, Into, SourceOf, Rows, RowsAt
  <2> QED BY <1>2, <1>4, <2>1, Zenon DEF CopiedInto
<1>6. ASSUME NEW b \in Buffers, \A copy \in slot[s].copies : copy.to # b
      PROVE  memory'.content[b] = memory.content[b]
  <2>1. Into(s, b) = {}
    BY <1>6 DEF Into
  <2> QED BY <1>2, <1>4, <2>1 DEF Written
<1>7. ASSUME NEW t \in SlotIds, t # s, NEW b \in slot[t].held \cup Own(t)
      PROVE  memory'.content[b] = memory.content[b]
  <2>1. b \in Buffers
    BY <1>7, HeldFacts
  <2>2. \A copy \in slot[s].copies : copy.to # b
    BY <1>7, CopyTargets
  <2> QED BY <1>6, <2>1, <2>2
<1>8. ASSUME NEW k \in DOMAIN memory.cache, memory.cache[k].ready
      PROVE  memory'.content[memory.cache[k].buffer] = memory.content[memory.cache[k].buffer]
  <2>1. memory.cache[k].buffer \in Buffers
    BY <1>1, MemoryFacts, ChunkFacts
  <2>2. \A copy \in slot[s].copies : copy.to # memory.cache[k].buffer
    BY <1>8, CopyTargets
  <2> QED BY <1>6, <2>1, <2>2
<1>9. ASSUME NEW b \in Pooled(memory) PROVE memory'.content[b] = memory.content[b]
  <2>1. b \in Buffers
    BY <1>1, OwnedFacts
  <2>2. \A copy \in slot[s].copies : copy.to # b
    BY <1>9, CopyTargets
  <2> QED BY <1>6, <2>1, <2>2
<1> QED BY <1>4, <1>5, <1>7, <1>8, <1>9

LEMMA StreamCopy ==
  ASSUME ScanInv, StreamInv, NEW s \in SlotIds, DeviceCopy(s)
  PROVE  StreamInv'
<1> USE DEF StreamInv, ScanInv
<1>1. /\ work[s] = "submitted" /\ work' = [work EXCEPT ![s] = "copied"]
      /\ UNCHANGED <<column, query, at, next, ok, slot, got, results, answer>>
  BY Zenon DEF DeviceCopy, host
<1>2. work'[s] = "copied" /\ \A t \in SlotIds : t # s => work'[t] = work[t]
  BY <1>1, WorkTypes
<1>3. QueryInv' /\ GotInv'
  BY <1>1 DEF QueryInv, GotInv, SlotIds
<1>4. /\ memory'.cache = memory.cache
      /\ CopiedInto(memory, memory', column, slot[s])
      /\ \A t \in SlotIds : t # s =>
           \A b \in slot[t].held \cup Own(t) : memory'.content[b] = memory.content[b]
      /\ \A k \in DOMAIN memory.cache : memory.cache[k].ready =>
           memory'.content[memory.cache[k].buffer] = memory.content[memory.cache[k].buffer]
  BY CopyFacts
<1>5. CacheRight(memory')
  BY <1>4 DEF CacheRight
<1>6. CopyInv'
  <2>1. \A t : Own(t)' = Own(t)
    BY <1>1 DEF Own
  <2>2. \A t, b : CopiedTo(t, b) => CopiedTo(t, b)'
    BY <1>1, <1>4, <2>1 DEF CopiedTo, SlotIds
  <2> QED BY <1>1, <2>2 DEF CopyInv, SlotIds
<1>7. Going' = Going /\ Collected' = Collected /\ Launched' = Launched
  BY <1>1, SameTurn
<1>8. CASE ~ Going
  BY <1>3, <1>5, <1>6, <1>7, <1>8, StoppedKeeps
<1>9. CASE Going
  <2>1. SlotGood(s) /\ slot[s].chunk # None /\ slot[s] \in StreamSlots
    BY <1>1, <1>9, SlotTypes DEF SlotsInv, ChunkInv, Busy
  <2>2. SlotGood(s)'
    <3>1. SlotRight(memory, query.columns, column, slot[s], "submitted", got[s], ChunkAt(s))
      BY <1>1, <2>1 DEF SlotGood
    <3>2. SlotRight(memory', query.columns, column, slot[s], "copied", got[s], ChunkAt(s))
      BY <1>4, <2>1, <3>1, CopyRight
    <3>3. ChunkAt(s)' = ChunkAt(s)
      BY <1>1, <2>1 DEF ChunkAt
    <3> QED BY <1>1, <1>2, <2>1, <3>2, <3>3 DEF SlotGood
  <2>3. SlotsInv'
    <3>1. ASSUME NEW t \in SlotIds, t # s PROVE SlotGood(t)'
      <4>1. SlotGood(t)
        BY <1>9 DEF SlotsInv
      <4>2. \A b : \A r : EntryFor(memory, b, r) => EntryFor(memory', b, r)
        BY <1>4, Zenon DEF EntryFor
      <4> QED BY <1>1, <1>2, <1>4, <3>1, <4>1, <4>2, UntouchedGood
    <3> QED BY <2>2, <3>1 DEF SlotsInv, SlotIds
  <2>4. PlaceInv'
    BY <1>1, <1>7, <1>9, PlacesSame DEF PlaceInv
  <2>5. ResultsInv'
    <3>1. Done' = Done
      BY <1>1, <1>2 DEF Done, SlotIds
    <3> QED BY <1>1, <1>7, <1>9, <3>1, ResultsSame
  <2> QED BY <1>3, <1>5, <1>6, <2>3, <2>4, <2>5
<1> QED BY <1>8, <1>9

LEMMA StreamLaunch ==
  ASSUME ScanInv, StreamInv, Launch
  PROVE  StreamInv'
<1> USE DEF StreamInv, ScanInv
<1>s. PICK s \in SlotIds : s = Current
  BY StreamFacts
<1> DEFINE l == [slot[s] EXCEPT !.chunk = query.chunks[next + 1], !.grown = FALSE]
<1>1. PICK begins \in Fault("begin"), fails \in Fault("submit") :
        IF begins THEN GiveUp /\ UNCHANGED <<slot, work, deferred>>
        ELSE /\ slot' = [slot EXCEPT ![s] = l]
             /\ work' = SubmitDeferred(fails, [work EXCEPT ![s] = "recorded"])
             /\ IF fails THEN GiveUp ELSE at' = "next" /\ next' = next + 1 /\ UNCHANGED ok
  BY <1>s, Zenon DEF Launch
<1>2. /\ at = "prepare" /\ Len(slot[s].columns) = Len(query.columns)
      /\ UNCHANGED <<memory, column, query, got, results, answer>>
  BY <1>s DEF Launch
<1>3. begins \in BOOLEAN /\ fails \in BOOLEAN
  BY <1>1, FaultFacts
<1>4. /\ ok /\ next < QueryChunks /\ slot[s].chunk = None /\ next \in Nat /\ QueryChunks \in Nat
      /\ Going
  BY <1>s, <1>2, TurnFacts DEF HostInv, Going
<1>5. ASSUME GiveUp PROVE ~ Going' /\ at' = "drain"
  BY <1>2, <1>5, GiveUpFacts
<1>6. ASSUME at' \in {"next", "drain"} PROVE QueryInv' /\ GotInv'
  BY <1>2, <1>6, QueryKept DEF GotInv, SlotIds
<1>7. CASE begins
  <2>1. GiveUp /\ slot' = slot
    BY <1>1, <1>7
  <2>2. CacheRight(memory') /\ CopyInv'
    BY <1>2, <2>1, MemorySame
  <2> QED BY <1>5, <1>6, <2>1, <2>2, StoppedKeeps
<1>8. CASE ~begins
  <2>1. slot' = [slot EXCEPT ![s] = l]
    BY <1>1, <1>8
  <2>2. query.chunks[next + 1] \in Nat /\ query.chunks[next + 1] # None
    BY <1>4, ChunkTyped
  <2>3. /\ l \in StreamSlots /\ l.chunk = query.chunks[next + 1] /\ l.columns = slot[s].columns
        /\ l.held = slot[s].held /\ l.transient = slot[s].transient /\ l.copies = slot[s].copies
        /\ l.encoded = slot[s].encoded
    <3>1. slot[s] \in StreamSlots
      BY SlotTypes
    <3> QED BY <2>2, <3>1 DEF StreamSlots
  <2> HIDE DEF l
  <2>4. /\ slot'[s] = l /\ \A t \in SlotIds : t # s => slot'[t] = slot[t]
    BY <2>1, <2>3, NewSlot
  <2>5. CacheRight(memory') /\ CopyInv'
    <3>1. \A t \in SlotIds : /\ Own(t)' = Own(t) /\ slot'[t].held = slot[t].held
                             /\ slot'[t].copies = slot[t].copies
      BY <2>3, <2>4 DEF Own
    <3>2. \A t \in SlotIds : \A b : CopiedTo(t, b) => CopiedTo(t, b)'
      BY <1>2, <3>1 DEF CopiedTo, SlotIds
    <3> QED BY <1>2, <3>1, <3>2 DEF CopyInv, SlotIds
  <2>6. CASE fails
    <3>1. GiveUp
      BY <1>1, <1>8, <2>6
    <3> QED BY <1>5, <1>6, <2>5, <3>1, StoppedKeeps
  <2>7. CASE ~fails
    <3> DEFINE w == [work EXCEPT ![s] = "recorded"]
    <3>1. /\ at' = "next" /\ next' = next + 1 /\ ok' = ok /\ work' = SubmitDeferred(FALSE, w)
      BY <1>1, <1>3, <1>8, <2>7
    <3>2. /\ w \in [SlotIds -> {"none", "recorded", "submitted", "copied", "done"}]
          /\ w[s] = "recorded" /\ \A t \in SlotIds : t # s => w[t] = work[t]
      BY WorkTypes
    <3> HIDE DEF w
    <3>3. deferred # None => deferred \in SlotIds /\ deferred # s /\ work[deferred] = "recorded"
      BY <1>s, <1>2, <1>4, DeferredRecorded, DeferredFacts
    <3>4. \A t \in SlotIds : work'[t] = w[t] \/ (w[t] = "recorded" /\ work'[t] = "submitted")
      <4>1. \A t \in SlotIds : w[t] = "recorded" => work[t] = "recorded" \/ t = Current
        BY <1>s, <3>2
      <4>2. deferred # None => w[deferred] = "recorded"
        BY <3>2, <3>3
      <4> QED BY <3>1, <3>2, <4>1, <4>2, Submitted
    <3>5. work'[s] = "recorded"
      BY <3>1, <3>2, <3>3 DEF SubmitDeferred
    <3>6. /\ SlotCount' = SlotCount /\ QueryChunks' = QueryChunks /\ Going'
          /\ Launched' = Launched + 1 /\ Launched = next /\ Collected' = Collected
      BY <1>2, <1>4, <3>1 DEF SlotCount, QueryChunks, Going, Launched, Collected, Turn, Behind
    <3>7. SlotGood(s)'
      <4>1. SlotRight(memory, query.columns, column, slot[s], work[s], got[s], ChunkAt(s))
        BY <1>4 DEF SlotsInv, SlotGood
      <4>2. ChunkAt(s) = l.chunk
        BY <1>4, <2>3 DEF ChunkAt
      <4>3. SlotRight(memory, query.columns, column, l, "recorded", got[s], ChunkAt(s))
        BY <1>4, <2>3, <4>1, <4>2, LaunchRight
      <4>4. ChunkAt(s)' = ChunkAt(s) /\ slot'[s].chunk # None
        BY <2>2, <2>3, <2>4, <4>2 DEF ChunkAt
      <4> QED BY <1>2, <2>4, <3>5, <4>3, <4>4 DEF SlotGood
    <3>8. SlotsInv'
      <4>1. ASSUME NEW t \in SlotIds, t # s PROVE SlotGood(t)'
        <5>1. SlotGood(t) /\ ~ Preparing(t)
          BY <1>s, <1>4, <4>1 DEF SlotsInv, Preparing
        <5>2. work'[t] = work[t] \/ (work[t] = "recorded" /\ work'[t] = "submitted")
          BY <3>2, <3>4, <4>1
        <5> QED BY <1>2, <2>4, <4>1, <5>1, <5>2, UntouchedGood
      <4> QED BY <3>7, <4>1 DEF SlotsInv, SlotIds
    <3>9. PlaceInv'
      <4>1. /\ Collected \in Nat /\ Launched \in Nat /\ SlotCount \in Nat /\ 1 <= SlotCount
            /\ s = next % SlotCount
        BY <1>s, <1>2, TurnFacts, StreamFacts
      <4>2. /\ Collected <= Launched
            /\ \A p \in Collected .. Launched - 1 : slot[p % SlotCount].chunk = query.chunks[p + 1]
            /\ \A t \in SlotIds : slot[t].chunk # None =>
                 \E p \in Collected .. Launched - 1 : t = p % SlotCount
        BY <1>4 DEF PlaceInv
      <4>3. Launched + 1 <= QueryChunks /\ Collected <= Launched + 1
            /\ Launched + 1 <= Collected + SlotCount
        BY <1>2, <1>4, <3>6, <4>1, <4>2 DEF Collected, Behind
      <4>4. ASSUME NEW p \in Collected .. Launched
            PROVE  slot'[p % SlotCount].chunk = query.chunks[p + 1]
        <5>1. CASE p = next
          BY <2>3, <2>4, <4>1, <5>1
        <5>2. CASE p # next
          <6>1. p \in Collected .. Launched - 1 /\ p \in Nat
            BY <3>6, <4>1, <5>2
          <6>2. slot[p % SlotCount].chunk = query.chunks[p + 1]
            BY <4>2, <6>1
          <6>3. query.chunks[p + 1] # None
            <7>1. p + 1 \in 1 .. QueryChunks
              BY <1>4, <3>6, <6>1
            <7> QED BY <7>1, ChunkTyped
          <6>4. p % SlotCount # s
            BY <1>4, <6>2, <6>3
          <6>5. p % SlotCount \in SlotIds
            <7>1. p % SlotCount \in 0 .. SlotCount - 1 /\ SlotCount <= Slots /\ Slots \in Nat
              BY <4>1, <6>1, ModFacts, StreamFacts, Constants
            <7> QED BY <4>1, <7>1 DEF SlotIds
          <6> QED BY <2>4, <6>2, <6>4, <6>5
        <5> QED BY <5>1, <5>2
      <4>5. ASSUME NEW t \in SlotIds, slot'[t].chunk # None
            PROVE  \E p \in Collected .. Launched : t = p % SlotCount
        <5>1. CASE t = s
          <6>1. next \in Collected .. Launched
            BY <1>4, <3>6, <4>1, <4>2
          <6> QED BY <4>1, <5>1, <6>1
        <5>2. CASE t # s
          BY <2>4, <4>1, <4>2, <4>5, <5>2
        <5> QED BY <5>1, <5>2
      <4>6. Launched' - 1 = Launched
        BY <3>6, <4>1
      <4> QED BY <1>2, <3>1, <3>6, <4>3, <4>4, <4>5, <4>6 DEF PlaceInv, SlotIds
    <3>10. ResultsInv'
      <4>1. Done' = Done /\ \A t \in Done : slot'[t].chunk = slot[t].chunk
        BY <1>4, <2>4, <3>2, <3>4, <3>5 DEF Done, SlotIds
      <4> QED BY <1>2, <1>4, <3>6, <4>1, ResultsSame
    <3> QED BY <1>6, <2>5, <3>1, <3>8, <3>9, <3>10
  <2> QED BY <1>3, <2>6, <2>7
<1> QED BY <1>3, <1>7, <1>8

(* A slot that is collected is one the device has done with.                *)
LEMMA CollectedDone ==
  ASSUME ScanInv, SlotsInv, NEW s \in SlotIds, s = Current, Collecting(s), slot[s].chunk # None,
         Waited(s)
  PROVE  work[s] = "done" /\ SlotGood(s) /\ at \in {"next", "drain"} /\ Going
<1>1. at \in {"next", "drain"} /\ Going /\ (at = "next" => next < QueryChunks)
  BY DEF Collecting, Going
<1>2. SlotGood(s)
  BY <1>1 DEF SlotsInv
<1>3. work[s] # "none"
  BY <1>2 DEF SlotGood, SlotRight
<1>4. work[s] # "recorded"
  <2>1. work[s] = "recorded" => deferred = s /\ at = "next"
    BY <1>1 DEF ScanInv, HostInv, Going
  <2>2. deferred = s => deferred # None
    BY Constants DEF SlotIds
  <2>3. at = "next" /\ deferred # None => deferred # s
    BY <1>1, DeferredRecorded, DeferredFacts DEF ScanInv
  <2> QED BY <2>1, <2>2, <2>3
<1>5. work[s] \in {"none", "recorded", "submitted", "copied", "done"}
  BY DEF ScanInv, ScanTypes
<1> QED BY <1>1, <1>2, <1>3, <1>4, <1>5 DEF Waited

(* The chunks a slot is done with have its rows.                            *)
LEMMA UnpinRight ==
  ASSUME NEW m \in Memories, Apart(m), CacheRight(m), NEW held, NEW completed \in BOOLEAN,
         NEW n, n = Unpin(m, held, completed),
         completed => \A b \in held : EntryFor(m, b, m.content[b])
  PROVE  CacheRight(n)
<1>1. /\ n \in Memories
      /\ \A b \in Buffers : b \notin Cached(m) \/ b \in Cached(n) \/ completed =>
                n.content[b] = m.content[b]
      /\ \A i \in DOMAIN n.cache : \E j \in DOMAIN m.cache :
           LetGone(n.cache[i], m.cache[j], held, completed)
  BY UnpinFacts
<1> SUFFICES ASSUME NEW i \in DOMAIN n.cache, n.cache[i].ready
             PROVE  n.content[n.cache[i].buffer] = EntryRows(n.cache[i])
  BY DEF CacheRight
<1>2. PICK j \in DOMAIN m.cache : LetGone(n.cache[i], m.cache[j], held, completed)
  BY <1>1
<1>3. /\ n.cache[i].buffer = m.cache[j].buffer /\ EntryRows(n.cache[i]) = EntryRows(m.cache[j])
      /\ m.cache[j].ready \/ (completed /\ m.cache[j].buffer \in held)
  BY <1>2, Zenon DEF LetGone, EntryRows
<1>4. n.cache[i].buffer \in Buffers /\ n.cache[i].buffer \in Cached(n)
  BY <1>1, OwnedFacts
<1>5. n.content[n.cache[i].buffer] = m.content[m.cache[j].buffer]
  BY <1>1, <1>3, <1>4
<1>6. CASE m.cache[j].ready
  BY <1>3, <1>5, <1>6 DEF CacheRight
<1>7. CASE completed /\ m.cache[j].buffer \in held
  <2>1. EntryFor(m, m.cache[j].buffer, m.content[m.cache[j].buffer])
    BY <1>7
  <2> QED BY <1>3, <1>5, <2>1 DEF EntryFor
<1> QED BY <1>3, <1>6, <1>7

LEMMA InOrderGrows ==
  ASSUME NEW n \in Nat
  PROVE  Append(InOrder(n), Reading(query.columns, column, query.chunks[n + 1])) = InOrder(n + 1)
<1> DEFINE r == InOrder(n)
           x == Reading(query.columns, column, query.chunks[n + 1])
           F(i) == Reading(query.columns, column, query.chunks[i])
<1>1. r = [i \in 1 .. n |-> F(i)] /\ InOrder(n + 1) = [i \in 1 .. n + 1 |-> F(i)]
      /\ x = F(n + 1)
  BY DEF InOrder
<1> HIDE DEF r, x, F
<1> DEFINE S == {F(i) : i \in 1 .. n + 1}
           u == Append(r, x)
           v == InOrder(n + 1)
<1>2. r \in Seq(S) /\ x \in S /\ Len(r) = n
  BY <1>1
<1>3. u \in [1 .. n + 1 -> S] /\ v \in [1 .. n + 1 -> S]
  <2>1. v \in [1 .. n + 1 -> S]
    BY <1>1
  <2> HIDE DEF S, v
  <2>2. u \in Seq(S) /\ Len(u) = n + 1
    BY <1>2
  <2> HIDE DEF u
  <2>3. u \in [1 .. n + 1 -> S]
    BY <2>2
  <2> QED BY <2>1, <2>3
<1>4. \A i \in 1 .. n + 1 : u[i] = v[i]
  BY <1>1, <1>2
<1> HIDE DEF u, v, S
<1>5. u = v
  BY <1>3, <1>4
<1> QED BY <1>5 DEF u, v, r, x

LEMMA StreamRetire ==
  ASSUME ScanInv, StreamInv, Retire
  PROVE  StreamInv'
<1> USE DEF StreamInv, ScanInv
<1>s. PICK s \in SlotIds : s = Current
  BY StreamFacts
<1> DEFINE l == [slot[s] EXCEPT !.held = {}, !.chunk = None, !.columns = <<>>, !.copies = {}]
<1>1. /\ UNCHANGED <<column, query, ok, work, got, answer>>
      /\ Collecting(s) /\ slot[s].chunk # None /\ Waited(s)
      /\ results' = IF query.kind = "probe" THEN results ELSE Append(results, got[s])
      /\ memory' = Unpin(memory, slot[s].held, TRUE) /\ slot' = [slot EXCEPT ![s] = l] /\ Resume
  BY <1>s, Zenon DEF Retire
<1>2. work[s] = "done" /\ SlotGood(s) /\ at \in {"next", "drain"} /\ Going
  BY <1>s, <1>1, CollectedDone
<1>3. /\ l \in StreamSlots /\ l.chunk = None /\ l.columns = <<>> /\ l.held = {}
      /\ l.transient = slot[s].transient /\ l.copies = {}
  BY SlotTypes, SlotEmptied
<1> HIDE DEF l
<1>4. /\ slot'[s] = l /\ \A t \in SlotIds : t # s => slot'[t] = slot[t]
  BY <1>1, <1>3, NewSlot
<1>5. /\ Collected < Launched /\ s = Collected % SlotCount
      /\ slot[s].chunk = query.chunks[Collected + 1]
      /\ Behind(Turn + 1) = Collected + 1
  BY <1>s, <1>1, CollectsNext
<1>6. /\ Collected' = Collected + 1 /\ Launched' = Launched /\ Going'
      /\ at' # "drain" \/ next' <= SlotCount
      /\ SlotCount' = SlotCount /\ QueryChunks' = QueryChunks
      /\ at' \in {"prepare", "drain"}
  BY <1>s, <1>1, <1>5, ResumeFacts
<1>7. /\ Collected \in Nat /\ Launched \in Nat /\ QueryChunks \in Nat /\ SlotCount \in Nat
      /\ 1 <= SlotCount
  BY TurnFacts
<1>8. /\ ChunkAt(s) = slot[s].chunk
      /\ SlotRight(memory, query.columns, column, slot[s], "done", got[s], slot[s].chunk)
      /\ got[s] = Reading(query.columns, column, slot[s].chunk)
  <2>1. ChunkAt(s) = slot[s].chunk
    BY <1>1 DEF ChunkAt
  <2>2. SlotRight(memory, query.columns, column, slot[s], "done", got[s], slot[s].chunk)
    BY <1>2, <2>1 DEF SlotGood
  <2>3. got[s] = Reading(query.columns, column, slot[s].chunk)
    BY <1>1, <2>2 DEF SlotRight
  <2> QED BY <2>1, <2>2, <2>3
<1>9. \A b \in slot[s].held : EntryFor(memory, b, memory.content[b])
  <2> TAKE b \in slot[s].held
  <2>1. PICK i \in DOMAIN slot[s].columns : slot[s].columns[i] = b
    BY <1>8 DEF SlotRight
  <2>2. ColumnRight(memory, slot[s], "done", b, query.columns[i],
                    RowsAt(column, query.columns[i], slot[s].chunk))
    BY <1>8, <2>1 DEF SlotRight
  <2> QED BY <1>1, <2>2 DEF ColumnRight, Copied
<1>10. memory \in Memories /\ Apart(memory)
  BY DEF ScanTypes
<1>11. CacheRight(memory')
  BY <1>1, <1>9, <1>10, UnpinRight
<1>12. /\ \A b \in Buffers : memory'.content[b] = memory.content[b]
       /\ \A i \in DOMAIN memory'.cache : \E j \in DOMAIN memory.cache :
            LetGone(memory'.cache[i], memory.cache[j], slot[s].held, TRUE)
  BY <1>1, <1>10, UnpinFacts
<1>13. QueryInv' /\ GotInv'
  BY <1>1, <1>2, <1>6, QueryKept DEF GotInv, SlotIds
<1>14. CopyInv'
  <2>1. ASSUME NEW t \in SlotIds, NEW copy \in slot'[t].copies PROVE CopiedTo(t, copy.to)'
    <3>1. t # s /\ copy \in slot[t].copies /\ slot'[t] = slot[t]
      BY <1>3, <1>4, <2>1
    <3>2. PICK b : b = copy.to
      OBVIOUS
    <3>3. CopiedTo(t, b)
      BY <3>1, <3>2 DEF CopyInv
    <3>4. Own(t)' = Own(t)
      BY <3>1 DEF Own
    <3>5. CASE b \in Own(t)
      BY <3>2, <3>4, <3>5 DEF CopiedTo
    <3>6. CASE b \notin Own(t)
      <4>1. /\ b \in slot[t].held /\ \A u \in SlotIds : b \in slot[u].held => u = t
            /\ \A k \in DOMAIN memory.cache : memory.cache[k].buffer = b => ~ memory.cache[k].ready
        BY <3>3, <3>6 DEF CopiedTo
      <4>2. b \notin slot[s].held
        BY <3>1, <4>1
      <4>3. ASSUME NEW i \in DOMAIN memory'.cache, memory'.cache[i].buffer = b
            PROVE  ~ memory'.cache[i].ready
        <5>1. PICK j \in DOMAIN memory.cache :
                LetGone(memory'.cache[i], memory.cache[j], slot[s].held, TRUE)
          BY <1>12
        <5> QED BY <4>1, <4>2, <4>3, <5>1 DEF LetGone
      <4>4. \A u \in SlotIds : b \in slot'[u].held => u = t
        BY <1>3, <1>4, <4>1
      <4>5. b \in slot'[t].held
        BY <3>1, <4>1
      <4> QED BY <3>2, <4>3, <4>4, <4>5 DEF CopiedTo, SlotIds
    <3> QED BY <3>5, <3>6
  <2> QED BY <2>1 DEF CopyInv, SlotIds
<1>15. SlotsInv'
  <2>1. SlotGood(s)'
    <3>1. \A c, d \in ScanColumns :
            l.transient[c] = l.transient[d] => c = d \/ l.transient[c] = None
      BY <1>3, <1>8 DEF SlotRight
    <3>2. \A chunk : SlotRight(memory', query.columns, column, l, work[s], got[s], chunk)
      BY <1>3, <3>1, EmptyRight, QueryTyped
    <3> QED BY <1>1, <1>3, <1>4, <3>2 DEF SlotGood
  <2>2. ASSUME NEW t \in SlotIds, t # s PROVE SlotGood(t)'
    <3>1. SlotGood(t) /\ ~ Preparing(t)
      BY <1>2, <2>2 DEF SlotsInv, Preparing
    <3>2. \A b \in slot[t].held \cup Own(t) : memory'.content[b] = memory.content[b]
      BY <1>12, HeldFacts
    <3>3. \A b : \A r : EntryFor(memory, b, r) => EntryFor(memory', b, r)
      <4> TAKE b
      <4> TAKE r
      <4> HAVE EntryFor(memory, b, r)
      <4>1. ASSUME NEW i \in DOMAIN memory'.cache, memory'.cache[i].buffer = b
            PROVE  EntryRows(memory'.cache[i]) = r
        <5>1. PICK j \in DOMAIN memory.cache :
                LetGone(memory'.cache[i], memory.cache[j], slot[s].held, TRUE)
          BY <1>12
        <5> QED BY <4>1, <5>1 DEF LetGone, EntryRows, EntryFor
      <4> QED BY <4>1 DEF EntryFor
    <3> QED BY <1>1, <1>4, <2>2, <3>1, <3>2, <3>3, UntouchedGood
  <2> QED BY <2>1, <2>2 DEF SlotsInv, SlotIds
<1>16. PlaceInv'
  <2>1. /\ Launched <= QueryChunks /\ Launched <= Collected + SlotCount
        /\ \A p \in Collected .. Launched - 1 : slot[p % SlotCount].chunk = query.chunks[p + 1]
        /\ \A t \in SlotIds : slot[t].chunk # None =>
             \E p \in Collected .. Launched - 1 : t = p % SlotCount
    BY <1>2 DEF PlaceInv
  <2>2. ASSUME NEW p \in Collected + 1 .. Launched - 1
        PROVE  slot'[p % SlotCount].chunk = query.chunks[p + 1]
    <3>1. p \in Collected .. Launched - 1 /\ p \in Nat /\ Collected < p
          /\ p < Collected + SlotCount
      BY <1>7, <2>1
    <3>2. p % SlotCount # s
      <4>1. p % SlotCount = Collected % SlotCount => Collected + SlotCount <= p
        BY <1>7, <3>1, ModApart
      <4> QED BY <1>5, <1>7, <3>1, <4>1
    <3>3. p % SlotCount \in SlotIds
      <4>1. p % SlotCount \in 0 .. SlotCount - 1 /\ SlotCount <= Slots /\ Slots \in Nat
        BY <1>7, <3>1, ModFacts, StreamFacts, Constants
      <4> QED BY <1>7, <4>1 DEF SlotIds
    <3> QED BY <1>4, <2>1, <3>1, <3>2, <3>3
  <2>3. ASSUME NEW t \in SlotIds, slot'[t].chunk # None
        PROVE  \E p \in Collected + 1 .. Launched - 1 : t = p % SlotCount
    <3>1. t # s /\ slot[t].chunk # None
      BY <1>3, <1>4, <2>3
    <3>2. PICK p \in Collected .. Launched - 1 : t = p % SlotCount
      BY <2>1, <3>1
    <3>3. p # Collected
      BY <1>5, <3>1, <3>2
    <3>4. p \in Collected + 1 .. Launched - 1
      BY <1>7, <3>2, <3>3
    <3> QED BY <3>2, <3>4
  <2>4. Collected + 1 <= Launched /\ Launched <= Collected + 1 + SlotCount
    BY <1>5, <1>7, <2>1
  <2> QED BY <1>1, <1>6, <2>1, <2>2, <2>3, <2>4 DEF PlaceInv, SlotIds
<1>17. ResultsInv'
  <2>1. CASE query.kind # "probe"
    <3>1. results = InOrder(Collected)
      BY <1>2, <2>1 DEF ResultsInv
    <3>2. results' = InOrder(Collected + 1)
      BY <1>1, <1>5, <1>7, <1>8, <2>1, <3>1, InOrderGrows
    <3>3. InOrder(Collected)' = InOrder(Collected + 1)
      BY <1>1, <1>6 DEF InOrder
    <3> QED BY <1>1, <2>1, <3>2, <3>3 DEF ResultsInv
  <2>2. CASE query.kind = "probe"
    <3>1. /\ results \in Seq(Readings)
          /\ ChunksIn(results) = Firsts(Collected) \cup {slot[t].chunk : t \in Done}
          /\ \A i, j \in DOMAIN results : results[i].chunk = results[j].chunk => i = j
      BY <1>2, <2>2, Zenon DEF ResultsInv
    <3>2. Done' = Done \ {s} /\ s \in Done
      BY <1>1, <1>2, <1>3, <1>4 DEF Done, SlotIds
    <3>3. Firsts(Collected)' = Firsts(Collected) \cup {slot[s].chunk}
      <4>1. Firsts(Collected)' = {query.chunks[i] : i \in 1 .. Collected + 1}
        BY <1>1, <1>6 DEF Firsts
      <4>2. \A i : i \in 1 .. Collected + 1 <=> i \in 1 .. Collected \/ i = Collected + 1
        BY <1>7
      <4> QED BY <1>5, <4>1, <4>2 DEF Firsts
    <3>4. {slot[t].chunk : t \in Done}' = {slot[t].chunk : t \in Done \ {s}}
      <4>1. {slot[t].chunk : t \in Done}' = {slot'[t].chunk : t \in Done'}
        OBVIOUS
      <4>2. \A t \in Done \ {s} : slot'[t].chunk = slot[t].chunk
        BY <1>4 DEF Done
      <4> QED BY <3>2, <4>1, <4>2
    <3>5. {slot[t].chunk : t \in Done} = {slot[t].chunk : t \in Done \ {s}} \cup {slot[s].chunk}
      BY <3>2
    <3>6. results' = results /\ Readings' = Readings /\ ChunksIn(results)' = ChunksIn(results)
      BY <1>1, <2>2 DEF Readings, ChunksIn
    <3>7. (ChunksIn(results) = Firsts(Collected) \cup {slot[t].chunk : t \in Done})'
      BY <3>1, <3>3, <3>4, <3>5, <3>6
    <3> QED BY <1>1, <2>2, <3>1, <3>6, <3>7 DEF ResultsInv
  <2> QED BY <2>1, <2>2
<1> QED BY <1>11, <1>13, <1>14, <1>15, <1>16, <1>17

(* A column c of the chunk is bound in slot s: to the chunk's buffer a, or   *)
(* to the slot's own.                                                      *)
Prepares(s, c, chunk, a, own) ==
  /\ s = Current /\ c = query.columns[Len(slot[s].columns) + 1] /\ chunk = query.chunks[next + 1]
  /\ at = "prepare" /\ Len(slot[s].columns) < Len(query.columns)
  /\ UNCHANGED <<column, query, work, got, results, answer>>
  /\ Acquires(memory, a) /\ Finds(memory, a, c, column[c].write_generation, chunk)
  /\ own = OwnBuffer(a, s, c) /\ memory' = own.m
  /\ \/ own.buffer = None /\ GiveUp /\ slot' = slot
     \/ /\ own.buffer # None /\ UNCHANGED <<at, next, ok>>
        /\ slot' = [slot EXCEPT ![s] = BoundTo(slot[s], c, own.buffer, a.buffer # None,
                                               a.buffer = None \/ a.needs_copy, Rows(c, chunk))]

LEMMA PrepareStep ==
  ASSUME ScanInv, Prepare
  PROVE  \E s \in SlotIds, c \in ScanColumns, chunk \in Nat : \E a, own : Prepares(s, c, chunk, a, own)
<1> USE DEF ScanInv
<1>s. PICK s \in SlotIds : s = Current
  BY StreamFacts
<1>c. PICK c, chunk : /\ c = query.columns[Len(slot[s].columns) + 1]
                      /\ chunk = query.chunks[next + 1]
  OBVIOUS
<1>2. /\ UNCHANGED <<column, query, work, got, results, answer>>
      /\ at = "prepare" /\ Len(slot[s].columns) < Len(query.columns)
  BY <1>s DEF Prepare
<1>4. chunk \in Nat /\ next < QueryChunks
  BY <1>2, <1>s, <1>c, ChunkAsked DEF HostInv
<1>5. c \in ScanColumns
  <2>1. query.columns \in Seq(ScanColumns) /\ Len(slot[s].columns) \in Nat
    BY SlotTypes DEF ScanTypes
  <2> QED BY <1>2, <1>c, <2>1
<1> DEFINE Taking(refused, t, d, k, a, own) ==
             /\ a = Acquire(memory, d, column[d].write_generation, k, refused)
             /\ own = OwnBuffer(a, t, d)
             /\ memory' = own.m
             /\ \/ own.buffer = None /\ GiveUp /\ slot' = slot
                \/ /\ own.buffer # None /\ UNCHANGED <<at, next, ok>>
                   /\ slot' = [slot EXCEPT ![t] = BoundTo(slot[t], d, own.buffer, a.buffer # None,
                                                          a.buffer = None \/ a.needs_copy,
                                                          Rows(d, k))]
<1>1. PICK refused \in Fault("alloc") :
        LET t == Current
            d == query.columns[Len(slot[t].columns) + 1]
            k == query.chunks[next + 1]
            a == Acquire(memory, d, column[d].write_generation, k, refused)
            own == OwnBuffer(a, t, d)
            b == own.buffer
        IN  /\ memory' = own.m
            /\ IF b = None THEN GiveUp /\ UNCHANGED slot
               ELSE /\ slot' = [slot EXCEPT ![t] = BoundTo(slot[t], d, b, a.buffer # None,
                                                           a.buffer = None \/ a.needs_copy,
                                                           Rows(d, k))]
                    /\ UNCHANGED <<at, next, ok>>
  BY ZenonT(60) DEF Prepare, OwnBuffer
<1>t. \E a, own : Taking(refused, Current, query.columns[Len(slot[Current].columns) + 1],
                         query.chunks[next + 1], a, own)
  BY <1>1
<1> HIDE DEF Taking
<1>p. PICK a, own : Taking(refused, s, c, chunk, a, own)
  BY <1>t, <1>s, <1>c
<1>8. Taking(refused, s, c, chunk, a, own)
  BY <1>p
<1>6. a = Acquire(memory, c, column[c].write_generation, chunk, refused)
  BY <1>8 DEF Taking
<1>a. Acquires(memory, a) /\ Finds(memory, a, c, column[c].write_generation, chunk)
  <2>1. refused \in BOOLEAN
    BY <1>1, FaultFacts
  <2>2. memory \in Memories /\ Apart(memory) /\ column[c].write_generation \in Nat
    BY <1>5, ColumnTypes DEF ScanTypes
  <2> QED BY <1>4, <1>5, <1>6, <2>1, <2>2, AcquireFacts
<1>9. Prepares(s, c, chunk, a, own)
  BY <1>s, <1>c, <1>2, <1>8, <1>a DEF Prepares, Taking
<1> QED BY <1>4, <1>5, <1>9

(* Where the rows of a column that is bound are, and whose the buffer is.    *)
TakesFor(s, c, chunk, b, is_held, copied) ==
  /\ is_held => /\ \A t \in SlotIds : b \notin Own(t)
                /\ b \in Cached(memory') /\ EntryFor(memory', b, RowsAt(column, c, chunk))
  /\ is_held /\ copied =>
       /\ \A t \in SlotIds : b \notin slot[t].held
       /\ \A k \in DOMAIN memory'.cache : memory'.cache[k].buffer = b => ~ memory'.cache[k].ready
  /\ is_held /\ ~copied =>
       \E k \in DOMAIN memory'.cache : memory'.cache[k].buffer = b /\ memory'.cache[k].ready
  /\ ~is_held => /\ copied /\ b \notin slot[s].held
                 /\ b = slot[s].transient[c] \/
                      (slot[s].transient[c] = None /\ \A t \in SlotIds : b \notin Own(t))

LEMMA PreparedBuffer ==
  ASSUME ScanInv, NEW s \in SlotIds, NEW c \in ScanColumns, NEW chunk \in Nat, NEW a, NEW own,
         Prepares(s, c, chunk, a, own)
  PROVE  /\ Serves(memory, memory') /\ Retains(memory, memory', {})
         /\ own.buffer \in Buffers \cup {None}
         /\ own.buffer # None =>
              TakesFor(s, c, chunk, own.buffer, a.buffer # None, a.buffer = None \/ a.needs_copy)
<1>1. /\ Acquires(memory, a) /\ Finds(memory, a, c, column[c].write_generation, chunk)
      /\ own = OwnBuffer(a, s, c) /\ memory' = own.m
  BY Zenon DEF Prepares
<1>2. ScanTypes /\ OwnInv /\ Apart(memory) /\ memory \in Memories
  BY DEF ScanInv, ScanTypes
<1>3. /\ Retains(a.m, memory', {}) /\ Serves(memory, memory') /\ own.buffer \in Buffers \cup {None}
      /\ a.buffer # None => own = a
      /\ a.buffer = None /\ slot[s].transient[c] # None => own.buffer = slot[s].transient[c]
      /\ a.buffer = None /\ slot[s].transient[c] = None /\ own.buffer # None =>
           /\ own.buffer \notin Owned(memory')
           /\ \A t \in SlotIds : own.buffer \notin Own(t)
  BY <1>1, <1>2, OwnBufferFacts
<1>4. Retains(memory, memory', {})
  <2>1. Serves(memory, a.m) /\ Retains(memory, a.m, {})
    BY <1>1 DEF Acquires, Finds
  <2> QED BY <1>2, <1>3, <2>1, RetainsTwice
<1>5. memory' \in Memories /\ Apart(memory')
  BY <1>3 DEF Serves
<1>6. ASSUME own.buffer # None
      PROVE  TakesFor(s, c, chunk, own.buffer, a.buffer # None, a.buffer = None \/ a.needs_copy)
  <2>1. PICK b : b = own.buffer
    OBVIOUS
  <2>2. CASE a.buffer # None
    <3>1. own = a /\ a.buffer = b /\ memory' = a.m
      BY <1>1, <1>3, <2>1, <2>2
    <3>2. PICK k \in DOMAIN memory'.cache :
            /\ memory'.cache[k].buffer = b /\ memory'.cache[k].column = c
            /\ memory'.cache[k].generation = column[c].write_generation
            /\ memory'.cache[k].chunk = chunk
            /\ IF a.needs_copy THEN EntryNew(memory, memory'.cache[k]) ELSE memory'.cache[k].ready
      BY <1>1, <2>2, <3>1 DEF Finds
    <3>3. b \in Cached(memory')
      BY <3>2 DEF Cached
    <3>4. \A i \in DOMAIN memory'.cache : memory'.cache[i].buffer = b => i = k
      BY <1>5, <3>2 DEF Apart
    <3>5. EntryFor(memory', b, RowsAt(column, c, chunk))
      BY <3>2, <3>4 DEF EntryFor, EntryRows, RowsAt
    <3>6. \A t \in SlotIds : b \notin Own(t)
      <4> TAKE t \in SlotIds
      <4>1. b \in Own(t) => b \notin Owned(memory')
        BY <1>3, <1>4, HeldFrame
      <4> QED BY <3>3, <4>1 DEF Owned
    <3>7. a.needs_copy => \A t \in SlotIds : b \notin slot[t].held
      BY <3>2, HeldFacts DEF EntryNew
    <3>8. a.needs_copy => \A i \in DOMAIN memory'.cache :
                            memory'.cache[i].buffer = b => ~ memory'.cache[i].ready
      BY <3>2, <3>4 DEF EntryNew
    <3> QED BY <2>1, <2>2, <3>1, <3>2, <3>3, <3>5, <3>6, <3>7, <3>8 DEF TakesFor
  <2>3. CASE a.buffer = None
    <3>1. b \notin slot[s].held
      <4>1. CASE slot[s].transient[c] # None
        <5>1. b \in Own(s)
          BY <1>3, <2>1, <2>3, <4>1 DEF Own
        <5> QED BY <5>1, HeldFacts DEF Owned
      <4>2. CASE slot[s].transient[c] = None
        <5>1. b \notin Cached(memory')
          BY <1>3, <1>6, <2>1, <2>3, <4>2 DEF Owned
        <5> QED BY <1>3, <1>4, <5>1, HeldFrame
      <4> QED BY <4>1, <4>2
    <3>2. b = slot[s].transient[c] \/
            (slot[s].transient[c] = None /\ \A t \in SlotIds : b \notin Own(t))
      BY <1>3, <1>6, <2>1, <2>3
    <3> QED BY <2>1, <2>3, <3>1, <3>2 DEF TakesFor
  <2> QED BY <2>2, <2>3
<1> QED BY <1>3, <1>4, <1>6

LEMMA StreamPrepare ==
  ASSUME ScanInv, StreamInv, Prepare
  PROVE  StreamInv'
<1> USE DEF StreamInv, ScanInv
<1>1. PICK s \in SlotIds, c \in ScanColumns, chunk \in Nat :
        \E a, own : Prepares(s, c, chunk, a, own)
  BY PrepareStep
<1>2. PICK a, own : Prepares(s, c, chunk, a, own)
  BY <1>1
<1>3. PICK b, is_held, copied :
        b = own.buffer /\ is_held = (a.buffer # None) /\ copied = (a.buffer = None \/ a.needs_copy)
  OBVIOUS
<1>4. /\ s = Current /\ c = query.columns[Len(slot[s].columns) + 1] /\ chunk = query.chunks[next + 1]
      /\ at = "prepare" /\ Len(slot[s].columns) < Len(query.columns)
      /\ UNCHANGED <<column, query, work, got, results, answer>>
      /\ \/ b = None /\ GiveUp /\ slot' = slot
         \/ /\ b # None /\ UNCHANGED <<at, next, ok>>
            /\ slot' = [slot EXCEPT ![s] = BoundTo(slot[s], c, b, is_held, copied, Rows(c, chunk))]
  BY <1>2, <1>3 DEF Prepares
<1>5. /\ Serves(memory, memory') /\ Retains(memory, memory', {}) /\ b \in Buffers \cup {None}
      /\ b # None => TakesFor(s, c, chunk, b, is_held, copied)
  BY <1>2, <1>3, PreparedBuffer
<1>6. is_held \in BOOLEAN /\ copied \in BOOLEAN
  BY <1>3
<1>7. ok /\ Going /\ slot[s].chunk = None
  BY <1>4 DEF HostInv, Going
<1>8. CacheRight(memory')
  BY <1>5, CacheKept
<1>9. ASSUME at' \in {"prepare", "drain"} PROVE QueryInv' /\ GotInv'
  BY <1>4, <1>9, QueryKept DEF GotInv, SlotIds
<1>10. CASE b = None
  <2>1. GiveUp /\ slot' = slot
    BY <1>4, <1>10
  <2>2. ~ Going' /\ at' = "drain"
    BY <1>4, <2>1, GiveUpFacts
  <2>3. CopyInv'
    BY <1>5, <2>1, MemoryFrame
  <2> QED BY <1>8, <1>9, <2>2, <2>3, StoppedKeeps
<1>11. CASE b # None
  <2>1. PICK l : l = BoundTo(slot[s], c, b, is_held, copied, Rows(c, chunk))
    OBVIOUS
  <2>2. /\ UNCHANGED <<at, next, ok>> /\ slot' = [slot EXCEPT ![s] = l] /\ b \in Buffers
        /\ TakesFor(s, c, chunk, b, is_held, copied)
    BY <1>4, <1>5, <1>11, <2>1
  <2>3. /\ slot[s] \in StreamSlots /\ slot[s].transient \in [ScanColumns -> Buffers \cup {None}]
        /\ slot[s].columns \in Seq(Buffers)
    BY SlotTypes
  <2>4. BoundAs(l, slot[s], c, b, is_held, copied, RowsAt(column, c, chunk))
    <3>1. Rows(c, chunk) = RowsAt(column, c, chunk) /\ Rows(c, chunk) \in Contents
      BY ColumnTypes DEF Rows, RowsAt, Contents
    <3> QED BY <1>6, <2>1, <2>2, <2>3, <3>1, BoundToFacts, Zenon
  <2>5. /\ l \in StreamSlots /\ l.chunk = None /\ l.columns = Append(slot[s].columns, b)
        /\ l.held = IF is_held THEN slot[s].held \cup {b} ELSE slot[s].held
        /\ l.transient = IF is_held THEN slot[s].transient
                         ELSE [slot[s].transient EXCEPT ![c] = b]
        /\ l.copies = IF copied THEN slot[s].copies \cup {[to |-> b, column |-> c]}
                      ELSE slot[s].copies
    BY <1>7, <2>4, Zenon DEF BoundAs
  <2>6. /\ slot'[s] = l /\ \A t \in SlotIds : t # s => slot'[t] = slot[t]
        /\ \A t \in SlotIds : slot'[t].chunk = slot[t].chunk
    BY <1>7, <2>2, <2>5, NewSlot
  <2>7. /\ \A t \in SlotIds : t # s => Own(t)' = Own(t)
        /\ Own(s) \subseteq Own(s)' /\ (~is_held => b \in Own(s)')
    <3>1. \A t \in SlotIds : t # s => Own(t)' = Own(t)
      BY <2>6 DEF Own
    <3>2. CASE is_held
      BY <2>5, <2>6, <3>2 DEF Own
    <3>3. CASE ~is_held
      <4>1. slot[s].transient[c] \in {None, b}
        BY <2>2, <3>3 DEF TakesFor
      <4> QED BY <1>11, <2>3, <2>5, <2>6, <3>3, <4>1 DEF Own
    <3> QED BY <3>1, <3>2, <3>3
  <2>8. CopyInv'
    <3>1. ASSUME NEW t \in SlotIds, NEW copy \in slot[t].copies PROVE CopiedTo(t, copy.to)'
      <4>1. PICK x : x = copy.to
        OBVIOUS
      <4>2. CopiedTo(t, x)
        BY <3>1, <4>1 DEF CopyInv
      <4>3. CASE x \in Own(t)
        <5>1. x \in Own(t)'
          BY <2>7, <4>3
        <5> QED BY <4>1, <5>1 DEF CopiedTo
      <4>4. CASE x \notin Own(t)
        <5>1. /\ x \in slot[t].held /\ \A u \in SlotIds : x \in slot[u].held => u = t
              /\ \A k \in DOMAIN memory.cache : memory.cache[k].buffer = x => ~ memory.cache[k].ready
          BY <4>2, <4>4 DEF CopiedTo
        <5>2. \A k \in DOMAIN memory'.cache :
                memory'.cache[k].buffer = x => EntryStays(memory, memory', memory'.cache[k])
          BY <1>5, <5>1, HeldFrame
        <5>3. \A k \in DOMAIN memory'.cache :
                memory'.cache[k].buffer = x => ~ memory'.cache[k].ready
          BY <5>1, <5>2 DEF EntryStays, SameChunk
        <5>4. is_held => x # b
          <6>1. is_held /\ copied => x # b
            BY <2>2, <5>1 DEF TakesFor
          <6>2. is_held /\ ~copied => x # b
            BY <2>2, <5>3 DEF TakesFor
          <6> QED BY <6>1, <6>2
        <5>5. \A u \in SlotIds : x \in slot'[u].held => u = t
          BY <2>5, <2>6, <5>1, <5>4
        <5>6. x \in slot'[t].held
          BY <2>5, <2>6, <5>1
        <5> QED BY <4>1, <5>3, <5>5, <5>6 DEF CopiedTo, SlotIds
      <4> QED BY <4>3, <4>4
    <3>2. ASSUME copied PROVE CopiedTo(s, b)'
      <4>1. CASE is_held
        <5>1. \A u \in SlotIds : b \in slot'[u].held => u = s
          BY <2>2, <2>6, <3>2, <4>1 DEF TakesFor
        <5>2. b \in slot'[s].held
          BY <2>5, <2>6, <4>1
        <5>3. \A k \in DOMAIN memory'.cache :
                memory'.cache[k].buffer = b => ~ memory'.cache[k].ready
          BY <2>2, <3>2, <4>1 DEF TakesFor
        <5> QED BY <5>1, <5>2, <5>3 DEF CopiedTo, SlotIds
      <4>2. CASE ~is_held
        BY <2>7, <4>2 DEF CopiedTo
      <4> QED BY <4>1, <4>2
    <3>3. ASSUME NEW t \in SlotIds, NEW copy \in slot'[t].copies PROVE CopiedTo(t, copy.to)'
      <4>1. CASE copy \in slot[t].copies
        BY <3>1, <4>1
      <4>2. CASE copy \notin slot[t].copies
        <5>1. t = s /\ copied /\ copy = [to |-> b, column |-> c]
          BY <2>5, <2>6, <3>3, <4>2
        <5>2. copy.to = b
          BY <5>1
        <5> QED BY <3>2, <5>1, <5>2
      <4> QED BY <4>1, <4>2
    <3> QED BY <3>3 DEF CopyInv, SlotIds
  <2>9. SlotGood(s)'
    <3>1. SlotGood(s) /\ Preparing(s) /\ ChunkAt(s) = chunk
      BY <1>4, <1>7 DEF SlotsInv, Preparing, ChunkAt
    <3>2. SlotRight(memory, query.columns, column, slot[s], work[s], got[s], chunk)
      BY <3>1 DEF SlotGood
    <3>3. /\ \A x \in slot[s].held \cup Own(s) : memory'.content[x] = memory.content[x]
          /\ \A x \in slot[s].held : \A r : EntryFor(memory, x, r) => EntryFor(memory', x, r)
      <4>1. \A x \in slot[s].held : \A k \in DOMAIN memory'.cache :
              memory'.cache[k].buffer = x => EntryStays(memory, memory', memory'.cache[k])
        BY <1>5, HeldFrame
      <4>2. \A x \in slot[s].held \cup Own(s) : memory'.content[x] = memory.content[x]
        BY <1>5, HeldFrame
      <4>3. \A x \in slot[s].held : \A r : EntryFor(memory, x, r) => EntryFor(memory', x, r)
        BY <4>1, EntryForKept
      <4> QED BY <4>2, <4>3
    <3>4. \A i \in DOMAIN slot[s].columns :
            memory'.content[slot[s].columns[i]] = memory.content[slot[s].columns[i]]
      BY <3>3, HeldFacts
    <3>5. SlotRight(memory', query.columns, column, slot[s], work[s], got[s], chunk)
      BY <3>2, <3>3, <3>4, FrameRight
    <3>6. \A i \in DOMAIN slot[s].columns : slot[s].columns[i] # b
      <4> SUFFICES ASSUME NEW i \in DOMAIN slot[s].columns, slot[s].columns[i] = b PROVE FALSE
        OBVIOUS
      <4>1. ColumnRight(memory', slot[s], work[s], b, query.columns[i],
                        RowsAt(column, query.columns[i], chunk))
        BY <3>5 DEF SlotRight
      <4>2. /\ b \in slot[s].held \cup {slot[s].transient[query.columns[i]]}
            /\ b \in slot[s].held => EntryFor(memory', b, RowsAt(column, query.columns[i], chunk))
        BY <4>1, Zenon DEF ColumnRight
      <4>3. /\ query.columns[i] # c /\ query.columns[i] \in ScanColumns
        <5>1. /\ query.columns \in Seq(ScanColumns) /\ i \in Nat /\ i <= Len(slot[s].columns)
              /\ Len(slot[s].columns) \in Nat /\ 1 <= i
          BY <2>3, QueryTyped
        <5>2. /\ i \in DOMAIN query.columns /\ Len(slot[s].columns) + 1 \in DOMAIN query.columns
              /\ i # Len(slot[s].columns) + 1
          BY <1>4, <5>1
        <5> QED BY <1>4, <5>1, <5>2 DEF QueryInv
      <4>4. \A d \in ScanColumns : slot[s].transient[d] = b => b \in Own(s)
        BY <1>11 DEF Own
      <4>5. CASE is_held
        <5>1. b \notin Own(s) /\ b \in Cached(memory') /\ EntryFor(memory', b, RowsAt(column, c, chunk))
          BY <2>2, <4>5 DEF TakesFor
        <5>2. EntryFor(memory', b, RowsAt(column, query.columns[i], chunk))
          BY <4>2, <4>3, <4>4, <5>1
        <5>3. PICK k \in DOMAIN memory'.cache : memory'.cache[k].buffer = b
          BY <5>1 DEF Cached
        <5>4. RowsAt(column, c, chunk) = RowsAt(column, query.columns[i], chunk)
          BY <5>1, <5>2, <5>3 DEF EntryFor
        <5> QED BY <4>3, <5>4 DEF RowsAt
      <4>6. CASE ~is_held
        <5>1. /\ b \notin slot[s].held
              /\ \/ b = slot[s].transient[c]
                 \/ slot[s].transient[c] = None /\ b \notin Own(s)
          BY <2>2, <4>6 DEF TakesFor
        <5>2. b = slot[s].transient[query.columns[i]]
          BY <4>2, <5>1
        <5>3. b \in Own(s)
          BY <4>3, <4>4, <5>2
        <5>4. slot[s].transient[c] = slot[s].transient[query.columns[i]]
          BY <5>1, <5>2, <5>3
        <5>5. \A x, y \in ScanColumns : slot[s].transient[x] = slot[s].transient[y] =>
                x = y \/ slot[s].transient[x] = None
          BY <3>2, Zenon DEF SlotRight
        <5> QED BY <1>11, <4>3, <5>2, <5>4, <5>5
      <4> QED BY <1>6, <4>5, <4>6
    <3>7. is_held => EntryFor(memory', b, RowsAt(column, c, chunk))
      BY <2>2 DEF TakesFor
    <3>8. ~is_held => b \notin slot[s].held
      BY <2>2 DEF TakesFor
    <3>9. ~is_held => \A d \in ScanColumns : slot[s].transient[d] = b => c = d
      <4> SUFFICES ASSUME ~is_held, NEW d \in ScanColumns, slot[s].transient[d] = b PROVE c = d
        OBVIOUS
      <4>1. b \in Own(s)
        BY <1>11 DEF Own
      <4>2. b = slot[s].transient[c]
        BY <2>2, <4>1 DEF TakesFor
      <4>3. \A x, y \in ScanColumns : slot[s].transient[x] = slot[s].transient[y] =>
              x = y \/ slot[s].transient[x] = None
        BY <3>2, Zenon DEF SlotRight
      <4> QED BY <1>11, <4>2, <4>3
    <3>10. ~copied => memory'.content[b] = RowsAt(column, c, chunk)
      <4> SUFFICES ASSUME ~copied PROVE memory'.content[b] = RowsAt(column, c, chunk)
        OBVIOUS
      <4>1. is_held
        BY <1>3
      <4>2. PICK k \in DOMAIN memory'.cache : memory'.cache[k].buffer = b /\ memory'.cache[k].ready
        BY <2>2, <4>1 DEF TakesFor
      <4>3. EntryRows(memory'.cache[k]) = RowsAt(column, c, chunk)
        BY <3>7, <4>1, <4>2 DEF EntryFor
      <4> QED BY <1>8, <4>2, <4>3 DEF CacheRight
    <3>11. SlotRight(memory', query.columns, column, l, work[s], got[s], chunk)
      <4> PICK k, m, q, w, g : k = slot[s] /\ m = memory' /\ q = query.columns
                               /\ w = work[s] /\ g = got[s]
        OBVIOUS
      <4>0. k \in StreamSlots /\ b \in Buffers /\ is_held \in BOOLEAN /\ copied \in BOOLEAN
        BY <1>6, <2>2, <2>3
      <4>1. q \in Seq(ScanColumns)
        BY QueryTyped
      <4>2. \A i, j \in DOMAIN q : q[i] = q[j] => i = j
        BY DEF QueryInv
      <4>3. k.chunk = None /\ Len(k.columns) < Len(q) /\ c = q[Len(k.columns) + 1]
        BY <1>4, <1>7
      <4>4. SlotRight(m, q, column, k, w, g, chunk)
        BY <3>5
      <4>5. BoundAs(l, k, c, b, is_held, copied, RowsAt(column, c, chunk))
        BY <2>4
      <4>6. \A i \in DOMAIN k.columns : k.columns[i] # b
        BY <3>6
      <4>7. is_held => EntryFor(m, b, RowsAt(column, c, chunk))
        BY <3>7
      <4>8. ~is_held => \A d \in ScanColumns : k.transient[d] = b => c = d
        BY <3>9
      <4>9. ~is_held => b \notin k.held
        BY <3>8
      <4>10. ~copied => m.content[b] = RowsAt(column, c, chunk)
        BY <3>10
      <4>11. SlotRight(m, q, column, l, w, g, chunk)
        <5>1. Binds(m, q, column, k, w, g, chunk, c, b, is_held, copied, l)
          BY <4>0, <4>1, <4>2, <4>3, <4>4, <4>5, <4>6, <4>7, <4>8, <4>9, <4>10, Zenon DEF Binds
        <5> QED BY <5>1, BindRight
      <4> QED BY <4>11
    <3>12. ChunkAt(s)' = chunk /\ Preparing(s)'
      <4>1. Current' = Current
        BY <1>4, <2>2 DEF Current, SlotCount, QueryChunks
      <4> QED BY <1>4, <2>2, <2>5, <2>6, <4>1 DEF ChunkAt, Preparing
    <3> QED BY <1>4, <2>6, <3>11, <3>12 DEF SlotGood
  <2>10. SlotsInv'
    <3>1. ASSUME NEW t \in SlotIds, t # s PROVE SlotGood(t)'
      <4>1. SlotGood(t)
        BY <1>7 DEF SlotsInv
      <4>2. \A x \in slot[t].held : \A k \in DOMAIN memory'.cache :
              memory'.cache[k].buffer = x => EntryStays(memory, memory', memory'.cache[k])
        BY <1>5, HeldFrame
      <4>3. \A x \in slot[t].held : \A r : EntryFor(memory, x, r) => EntryFor(memory', x, r)
        BY <4>2, EntryForKept
      <4>4. \A x \in slot[t].held \cup Own(t) : memory'.content[x] = memory.content[x]
        BY <1>5, HeldFrame
      <4> QED BY <1>4, <2>2, <2>6, <3>1, <4>1, <4>3, <4>4, UntouchedGood
    <3> QED BY <2>9, <3>1 DEF SlotsInv, SlotIds
  <2>11. Collected' = Collected /\ Launched' = Launched
    BY <1>4, <2>2, SameTurn
  <2>12. PlaceInv'
    BY <1>4, <1>7, <2>2, <2>6, <2>11, PlacesSame
  <2>13. ResultsInv'
    <3>1. Done' = Done /\ \A t \in Done : slot'[t].chunk = slot[t].chunk
      BY <1>4, <2>6 DEF Done, SlotIds
    <3> QED BY <1>4, <1>7, <2>11, <3>1, ResultsSame
  <2> QED BY <1>4, <1>8, <1>9, <2>2, <2>8, <2>10, <2>12, <2>13
<1> QED BY <1>10, <1>11

-------------------------------------------------------------------------------
(* Where a stream begins and ends                                           *)

(* No slot has anything to do between streams.                             *)
LEMMA RestingSlots ==
  ASSUME ScanInv, at \in {"idle", "bind"}
  PROVE  \A s \in SlotIds : /\ slot[s] = IdleSlot /\ work[s] = "none" /\ slot[s].copies = {}
                            /\ slot[s].chunk = None /\ slot[s].columns = <<>> /\ slot[s].held = {}
                            /\ \A c \in ScanColumns : slot[s].transient[c] = None
BY IdleFacts DEF ScanInv, HostInv

LEMMA RestingKeeps ==
  ASSUME ScanInv, StreamInv, at \in {"idle", "bind"}, at' \in {"idle", "bind"}, CacheRight(memory'),
         UNCHANGED <<query, slot, got>>, at' = "bind" => at = "bind" /\ answer' = answer
  PROVE  StreamInv'
<1> USE DEF StreamInv
<1>1. ~ Going'
  BY DEF Going
<1>2. QueryInv'
  BY DEF QueryInv
<1>3. CopyInv' /\ GotInv'
  BY RestingSlots DEF CopyInv, GotInv, SlotIds
<1> QED BY <1>1, <1>2, <1>3, StoppedKeeps

LEMMA OrdersDiffer ==
  ASSUME NEW order \in Orders
  PROVE  \A i, j \in DOMAIN order : order[i] = order[j] => i = j
<1>1. PICK S \in (SUBSET ScanColumns) \ {{}} : order = SetToSeq(S)
  BY DEF Orders
<1>2. IsFiniteSet(S) /\ S \subseteq ScanColumns
  BY Constants, FS_Subset
<1>3. PICK f : f \in Bijection(1 .. Cardinality(S), S)
  BY <1>2, FS_CardinalityType DEF ExistsBijection
<1>4. f \in [1 .. Cardinality(S) -> S] /\ IsInjective(f)
  BY <1>3 DEF Bijection, Injection, IsInjective
<1>5. IsInjective(SetToSeq(S))
  BY <1>4 DEF SetToSeq
<1> QED BY <1>1, <1>5 DEF IsInjective

LEMMA AskRight ==
  ASSUME ScanInv, StreamInv, NEW kind, NEW order \in Orders, NEW chunks \in Seq(Nat),
         NEW fails \in BOOLEAN, Ask(kind, order, chunks, fails),
         \/ at' = "bind" /\ kind \in {"whole", "resident"}
         \/ /\ at' = (IF fails THEN "drain" ELSE "next")
            /\ kind \in {"scan", "dense", "probe", "global"},
         kind = "probe" => \A i, j \in DOMAIN chunks : chunks[i] = chunks[j] => i = j
  PROVE  StreamInv' /\ answer' = "none"
<1> USE DEF StreamInv, ScanInv
<1>1. /\ query' = [kind |-> kind, columns |-> order, chunks |-> chunks]
      /\ memory' = [memory EXCEPT !.epoch = @ + 1, !.failed = fails]
      /\ next' = 0 /\ ok' = ~fails /\ results' = <<>> /\ answer' = "none"
      /\ column' = column /\ slot' = slot /\ work' = work /\ got' = got /\ at = "idle"
  BY DEF Ask, stream
<1>2. /\ query'.kind = kind /\ query'.columns = order /\ query'.chunks = chunks
  BY <1>1
<1>3. memory'.content = memory.content /\ memory'.cache = memory.cache
  <2>1. memory = [content |-> memory.content, pool |-> memory.pool, epoch |-> memory.epoch,
                  cache |-> memory.cache, failed |-> memory.failed]
    BY MemoryFacts DEF ScanTypes
  <2> QED BY <1>1, <2>1
<1>4. CacheRight(memory')
  BY <1>3 DEF CacheRight
<1>5. QueryInv'
  BY <1>1, <1>2, OrdersDiffer DEF QueryInv
<1>6. CopyInv' /\ GotInv'
  BY <1>1, RestingSlots DEF CopyInv, GotInv, SlotIds
<1>7. CASE fails \/ at' = "bind"
  <2>1. ~ Going'
    BY <1>1, <1>7 DEF Going
  <2> QED BY <1>1, <1>4, <1>5, <1>6, <2>1, StoppedKeeps
<1>8. CASE ~fails /\ at' # "bind"
  <2>1. at' = "next"
    BY <1>8
  <2>2. order \in Seq(ScanColumns)
    BY OrdersFacts
  <2>3. SlotsInv'
    <3>1. ASSUME NEW s \in SlotIds PROVE SlotGood(s)'
      <4>1. /\ slot'[s].columns = <<>> /\ slot'[s].held = {} /\ slot'[s].copies = {}
            /\ slot'[s].chunk = None
            /\ \A c, d \in ScanColumns : slot'[s].transient[c] = slot'[s].transient[d] =>
                 c = d \/ slot'[s].transient[c] = None
        BY <1>1, RestingSlots
      <4>2. SlotRight(memory', order, column', slot'[s], work'[s], got'[s], ChunkAt(s)')
        BY <2>2, <4>1, EmptyRight
      <4> QED BY <1>2, <4>1, <4>2 DEF SlotGood
    <3> QED BY <3>1 DEF SlotsInv, SlotIds
  <2>4. /\ Launched' = 0 /\ Collected' = 0 /\ SlotCount' \in Nat /\ 1 <= SlotCount'
        /\ QueryChunks' \in Nat
    <3>1. QueryChunks' = Len(chunks) /\ Len(chunks) \in Nat
      BY <1>2 DEF QueryChunks
    <3>2. SlotCount' \in Nat /\ 1 <= SlotCount'
      BY <1>2, <3>1, Constants DEF SlotCount
    <3>3. Launched' = 0 /\ Turn' = 0
      BY <1>1, <2>1 DEF Launched, Turn
    <3>4. Collected' = IF QueryChunks' = 0 \/ Turn' < SlotCount' THEN 0 ELSE Turn' - SlotCount'
      BY <2>1 DEF Collected, Behind
    <3>5. 0 < SlotCount'
      BY <3>2
    <3>6. Collected' = 0
      BY <3>3, <3>4, <3>5
    <3> QED BY <3>1, <3>2, <3>3, <3>6
  <2>5. PlaceInv'
    <3>1. \A s \in SlotIds : slot'[s].chunk = None
      BY <1>1, RestingSlots
    <3>2. PICK L, C, N, K : L = Launched' /\ C = Collected' /\ N = QueryChunks' /\ K = SlotCount'
      OBVIOUS
    <3>3. /\ L <= N /\ C <= L /\ L <= C + K /\ \A p : p \notin C .. L - 1
      <4>1. L = 0 /\ C = 0 /\ N \in Nat /\ K \in Nat
        BY <2>4, <3>2
      <4> QED BY ONLY <4>1
    <3>4. /\ (Launched <= QueryChunks /\ Collected <= Launched /\ Launched <= Collected + SlotCount)'
          /\ \A p : p \notin (Collected .. Launched - 1)'
      BY <3>2, <3>3
    <3> QED BY <2>1, <3>1, <3>4 DEF PlaceInv, SlotIds
  <2>6. ResultsInv'
    <3>1. results' = InOrder(0)'
      <4>1. 1 .. 0 = {}
        OBVIOUS
      <4> QED BY <1>1, <4>1 DEF InOrder
    <3>2. /\ results' \in Seq(Readings') /\ ChunksIn(results)' = {} /\ DOMAIN results' = {}
      BY <1>1 DEF ChunksIn
    <3>3. Firsts(0)' = {}
      BY DEF Firsts
    <3>4. Done' = {}
      BY <1>1, RestingSlots DEF Done, SlotIds
    <3>5. {slot[s].chunk : s \in Done}' = {}
      BY <3>4
    <3> QED BY <2>4, <3>1, <3>2, <3>3, <3>5 DEF ResultsInv
  <2> QED BY <1>1, <1>4, <1>5, <1>6, <2>3, <2>5, <2>6
<1> QED BY <1>7, <1>8

LEMMA AllDiffer == \A i, j \in DOMAIN AllChunks : AllChunks[i] = AllChunks[j] => i = j
BY DEF AllChunks

LEMMA StreamBegin ==
  ASSUME ScanInv, StreamInv, BeginScan \/ BeginAll \/ BeginWhole \/ BeginResident
  PROVE  StreamInv' /\ answer' = "none"
<1>1. ASSUME NEW kind \in {"scan", "dense", "probe", "global"}, NEW chunks \in Seq(Nat),
             Streamed(kind, chunks),
             kind = "probe" => \A i, j \in DOMAIN chunks : chunks[i] = chunks[j] => i = j
      PROVE  StreamInv' /\ answer' = "none"
  <2>1. PICK order \in Orders, fails \in Fault("begin") :
          Ask(kind, order, chunks, fails) /\ at' = IF fails THEN "drain" ELSE "next"
    BY <1>1, Zenon DEF Streamed
  <2>2. fails \in BOOLEAN
    BY <2>1, FaultFacts
  <2> QED BY <1>1, <2>1, <2>2, AskRight
<1>2. ASSUME NEW kind \in {"whole", "resident"}, NEW order \in Orders,
             Ask(kind, order, <<>>, FALSE), at' = "bind"
      PROVE  StreamInv' /\ answer' = "none"
  <2>1. <<>> \in Seq(Nat) /\ FALSE \in BOOLEAN /\ kind # "probe"
    OBVIOUS
  <2> QED BY <1>2, <2>1, AskRight
<1>3. CASE BeginScan
  BY <1>1, <1>3, ChunkLists DEF BeginScan
<1>4. CASE BeginAll
  <2>1. PICK kind \in {"dense", "probe", "global"} : Streamed(kind, AllChunks)
    BY <1>4 DEF BeginAll
  <2> QED BY <1>1, <2>1, ChunkLists, AllDiffer
<1>5. CASE BeginWhole
  BY <1>2, <1>5 DEF BeginWhole
<1>6. CASE BeginResident
  BY <1>2, <1>6 DEF BeginResident
<1> QED BY <1>3, <1>4, <1>5, <1>6

LEMMA StreamWrite ==
  ASSUME ScanInv, StreamInv, NEW c \in ScanColumns, Write(c)
  PROVE  StreamInv' /\ answer' = "none"
<1>1. /\ UNCHANGED <<memory, query, at, slot, got>> /\ at = "idle" /\ answer' = "none"
  BY DEF Write, host, stream
<1>2. CacheRight(memory')
  BY <1>1 DEF StreamInv
<1> QED BY <1>1, <1>2, RestingKeeps

(* Lists without repetition of the same things are of the same length.      *)
LEMMA ListedOnce ==
  ASSUME NEW n \in Nat, NEW T, NEW f \in [1 .. n -> T],
         \A i, j \in 1 .. n : f[i] = f[j] => i = j, \A x \in T : \E i \in 1 .. n : f[i] = x
  PROVE  IsFiniteSet(T) /\ Cardinality(T) = n
<1>1. f \in Bijection(1 .. n, T)
  BY DEF Bijection, Injection, Surjection, IsInjective
<1>2. ExistsBijection(1 .. n, T)
  BY <1>1 DEF ExistsBijection
<1>3. IsFiniteSet(1 .. n) /\ Cardinality(1 .. n) = n
  BY FS_Interval
<1> QED BY <1>2, <1>3, FS_Bijection

(* When the last slot is drained every chunk has been collected.            *)
LEMMA AllCollected ==
  ASSUME ScanInv, StreamInv, ok, at = "drain", next = SlotCount
  PROVE  Going /\ Collected = QueryChunks /\ Done = {}
<1> USE DEF StreamInv, ScanInv
<1>1. Going
  BY DEF Going
<1>2. /\ SlotCount \in Nat /\ 1 <= SlotCount /\ QueryChunks \in Nat
      /\ QueryChunks # 0 => SlotCount <= QueryChunks
  BY TurnFacts
<1>3. Collected = QueryChunks /\ Launched = QueryChunks
  <2>1. Turn = QueryChunks + SlotCount
    BY DEF Turn
  <2>2. Collected = IF QueryChunks = 0 \/ Turn < SlotCount THEN 0 ELSE Turn - SlotCount
    BY DEF Collected, Behind
  <2> QED BY <1>2, <2>1, <2>2 DEF Launched
<1>4. \A s \in SlotIds : slot[s].chunk # None => \E p \in Collected .. Launched - 1 : s = p % SlotCount
  BY <1>1 DEF PlaceInv
<1>5. \A p : p \notin QueryChunks .. QueryChunks - 1
  <2> PICK n : n = QueryChunks
    OBVIOUS
  <2>1. n \in Nat
    BY <1>2
  <2>2. \A p : p \notin n .. n - 1
    BY ONLY <2>1
  <2> QED BY <2>2
<1>6. Done = {}
  BY <1>3, <1>4, <1>5 DEF Done
<1> QED BY <1>1, <1>3, <1>6

(* What the stream collected is what was asked for.                         *)
LEMMA CollectedRight ==
  ASSUME ScanInv, StreamInv, ok, at = "drain", next = SlotCount
  PROVE  /\ \A i \in DOMAIN results : RightRows(results[i])
         /\ Len(results) = Len(Asked)
         /\ query.kind # "probe" => ChunksOf(results) = Asked
         /\ {results[i].chunk : i \in DOMAIN results} = {Asked[i] : i \in DOMAIN Asked}
<1> USE DEF StreamInv, ScanInv
<1>1. Going /\ Collected = QueryChunks /\ Done = {}
  BY AllCollected
<1> DEFINE N == QueryChunks
           R(p) == Reading(query.columns, column, p)
<1>2. N \in Nat /\ query.chunks \in Seq(Nat) /\ Len(query.chunks) = N
  BY TurnFacts DEF ScanTypes, QueryChunks
<1>3. Asked = query.chunks
  BY DEF QueryInv, Asked
<1>4. \A p : R(p).chunk = p /\ RightRows(R(p))
  BY Zenon DEF Reading, RightRows, RowsAt, Rows
<1>5. CASE query.kind # "probe"
  <2>1. results = [i \in 1 .. N |-> R(query.chunks[i])]
    BY <1>1, <1>5 DEF ResultsInv, InOrder
  <2> HIDE DEF R, N
  <2>2. DOMAIN results = 1 .. N /\ \A i \in 1 .. N : results[i] = R(query.chunks[i])
    BY <2>1
  <2>3. Len(results) = N
    BY <1>2, <2>2
  <2>4. \A i \in 1 .. N : results[i].chunk = query.chunks[i] /\ RightRows(results[i])
    BY <1>4, <2>2
  <2>5. ChunksOf(results) = query.chunks
    <3>1. ChunksOf(results) = [i \in 1 .. N |-> query.chunks[i]]
      BY <2>2, <2>4 DEF ChunksOf
    <3>2. query.chunks = [i \in 1 .. N |-> query.chunks[i]]
      BY <1>2
    <3> QED BY <3>1, <3>2
  <2>6. {results[i].chunk : i \in DOMAIN results} = {query.chunks[i] : i \in DOMAIN query.chunks}
    <3>1. DOMAIN query.chunks = 1 .. N
      BY <1>2
    <3> QED BY <2>2, <2>4, <3>1
  <2> QED BY <1>2, <1>3, <2>2, <2>3, <2>4, <2>5, <2>6
<1>6. CASE query.kind = "probe"
  <2>1. /\ results \in Seq(Readings)
        /\ ChunksIn(results) = Firsts(Collected) \cup {slot[s].chunk : s \in Done}
        /\ \A i, j \in DOMAIN results : results[i].chunk = results[j].chunk => i = j
    BY <1>1, <1>6, Zenon DEF ResultsInv
  <2>2. \A i, j \in DOMAIN query.chunks : query.chunks[i] = query.chunks[j] => i = j
    BY <1>6 DEF QueryInv
  <2> DEFINE K == Len(results)
  <2>3. K \in Nat /\ DOMAIN results = 1 .. K
    BY <2>1
  <2>4. \A i \in DOMAIN results : RightRows(results[i])
    <3> TAKE i \in DOMAIN results
    <3>1. results[i] \in Readings
      BY <2>1
    <3>2. PICK p \in Nat : results[i] = R(p)
      BY <3>1 DEF Readings
    <3> HIDE DEF R
    <3> QED BY <1>4, <3>2
  <2>5. ChunksIn(results) = {query.chunks[i] : i \in 1 .. N}
    BY <1>1, <2>1 DEF Firsts
  <2> HIDE DEF N, K, R
  <2>6. DOMAIN query.chunks = 1 .. N
    BY <1>2
  <2>7. K = N
    <3> DEFINE T == ChunksIn(results)
               f == [i \in 1 .. K |-> results[i].chunk]
               g == [i \in 1 .. N |-> query.chunks[i]]
    <3>1. /\ f \in [1 .. K -> T] /\ \A i, j \in 1 .. K : f[i] = f[j] => i = j
          /\ \A x \in T : \E i \in 1 .. K : f[i] = x
      BY <2>1, <2>3 DEF ChunksIn
    <3>2. /\ g \in [1 .. N -> T] /\ \A i, j \in 1 .. N : g[i] = g[j] => i = j
          /\ \A x \in T : \E i \in 1 .. N : g[i] = x
      BY <2>2, <2>5, <2>6
    <3> HIDE DEF f, g, T
    <3>3. Cardinality(T) = K
      BY <2>3, <3>1, ListedOnce
    <3>4. Cardinality(T) = N
      BY <1>2, <3>2, ListedOnce
    <3> QED BY <3>3, <3>4
  <2> QED BY <1>2, <1>3, <1>6, <2>4, <2>5, <2>6, <2>7 DEF ChunksIn, K
<1> QED BY <1>5, <1>6

LEMMA StreamEnds ==
  ASSUME ScanInv, StreamInv, EndStream
  PROVE  StreamInv' /\ AnswerRight'
<1> USE DEF ScanInv
<1> DEFINE held == UNION {slot[s].held : s \in SlotIds}
           own == (UNION {{slot[s].transient[c] : c \in ScanColumns} : s \in SlotIds}) \ {None}
           n == Unpin(memory, held, FALSE)
<1>1. /\ memory' = ReleaseAll(n, own) /\ at = "drain" /\ next = SlotCount
      /\ slot' = [s \in SlotIds |-> IdleSlot] /\ got' = [s \in SlotIds |-> <<>>]
      /\ at' = "idle" /\ UNCHANGED <<column, query, results>>
      /\ answer' = IF memory.failed THEN "failed" ELSE IF ok THEN "rows" ELSE "cpu"
  BY DEF EndStream
<1>2. CacheRight(memory) /\ QueryInv
  BY DEF StreamInv
<1>3. /\ n \in Memories /\ Apart(n) /\ Cached(n) \subseteq Cached(memory) /\ CacheRight(n)
  <2>1. memory \in Memories /\ Apart(memory) /\ FALSE \in BOOLEAN
    BY DEF ScanTypes
  <2> HIDE DEF held
  <2> QED BY <1>2, <2>1, UnpinFacts, UnpinRight
<1> HIDE DEF n
<1>4. own \cap Cached(n) = {}
  <2>1. ASSUME NEW b \in own PROVE \E s \in SlotIds : b \in Own(s)
    <3> DEFINE T(s) == {slot[s].transient[c] : c \in ScanColumns}
               W == {T(s) : s \in SlotIds}
    <3>1. b \in UNION W /\ b # None
      <4>1. own = (UNION W) \ {None}
        OBVIOUS
      <4> HIDE DEF own, W
      <4> QED BY <4>1
    <3>2. PICK t \in W : b \in t
      <4> HIDE DEF W
      <4> QED BY <3>1
    <3>3. PICK s \in SlotIds : b \in T(s)
      <4> HIDE DEF T
      <4> QED BY <3>2
    <3> QED BY <3>1, <3>3 DEF Own
  <2> HIDE DEF own
  <2>2. \A b \in own : b \notin Cached(memory)
    BY <2>1 DEF OwnInv
  <2> QED BY <1>3, <2>2
<1>5. CacheRight(memory')
  <2> HIDE DEF own
  <2>1. /\ memory'.cache = n.cache
        /\ \A b \in Buffers : b \notin own => memory'.content[b] = n.content[b]
    <3> DEFINE content == [b \in Buffers |-> IF b \in own THEN Nothing ELSE n.content[b]]
    <3>1. memory' = [n EXCEPT !.content = content]
      BY <1>1, Zenon DEF ReleaseAll
    <3>2. \A b \in Buffers : b \notin own => content[b] = n.content[b]
      OBVIOUS
    <3> HIDE DEF content
    <3>3. memory'.cache = n.cache /\ memory'.content = content
      BY <1>3, <3>1, MemoryFacts, Changed, SMTT(60)
    <3> QED BY <3>2, <3>3
  <2>2. ASSUME NEW k \in DOMAIN n.cache
        PROVE  memory'.content[n.cache[k].buffer] = n.content[n.cache[k].buffer]
    <3>1. n.cache[k].buffer \in Cached(n) /\ n.cache[k].buffer \in Buffers
      BY <1>3, OwnedFacts DEF Cached
    <3> QED BY <1>4, <2>1, <3>1
  <2> QED BY <1>3, <2>1, <2>2 DEF CacheRight
<1>6. StreamInv'
  <2>1. ~ Going' /\ QueryInv'
    BY <1>1, <1>2 DEF Going, QueryInv
  <2>2. CopyInv' /\ GotInv'
    BY <1>1, IdleFacts DEF CopyInv, GotInv, SlotIds
  <2> QED BY <1>5, <2>1, <2>2, StoppedKeeps DEF StreamInv
<1>7. AnswerRight'
  <2>1. CASE answer' # "rows"
    BY <2>1 DEF AnswerRight
  <2>2. CASE answer' = "rows"
    <3>1. ok
      BY <1>1, <2>2
    <3>2. /\ \A i \in DOMAIN results : RightRows(results[i])
          /\ Len(results) = Len(Asked)
          /\ query.kind # "probe" => ChunksOf(results) = Asked
          /\ {results[i].chunk : i \in DOMAIN results} = {Asked[i] : i \in DOMAIN Asked}
      BY <1>1, <3>1, CollectedRight
    <3>3. /\ \A r : RightRows(r)' = RightRows(r)'
          /\ Asked' = Asked /\ ChunksOf(results)' = ChunksOf(results) /\ results' = results
          /\ query' = query
      BY <1>1 DEF Asked, ChunksOf
    <3>4. \A i \in DOMAIN results' : RightRows(results[i])'
      BY <1>1, <3>2 DEF RightRows, Rows
    <3> QED BY <3>2, <3>3, <3>4 DEF AnswerRight
  <2> QED BY <2>1, <2>2
<1> QED BY <1>6, <1>7

-------------------------------------------------------------------------------
(* What a name of the pool is given                                         *)

(* The buffer that a name has is written.                                  *)
LEMMA PutFacts ==
  ASSUME NEW a, a.m \in Memories, Apart(a.m), a.buffer \in Buffers \cup {None},
         NEW i \in DOMAIN a.m.pool, a.m.pool[i].buffer = a.buffer, NEW data \in Contents \cup {None}
  PROVE  LET p == Put(a, data)
         IN  /\ p.buffer = a.buffer /\ Serves(a.m, p.m) /\ Retains(a.m, p.m, {a.m.pool[i].name})
             /\ p.m.pool = a.m.pool
             /\ data = None => p.m = a.m
             /\ data # None /\ a.buffer # None => p.m.content[a.buffer] = data
<1>1. CASE data = None \/ a.buffer = None
  <2>1. Put(a, data) = a
    BY <1>1 DEF Put
  <2>2. Serves(a.m, a.m) /\ Retains(a.m, a.m, {a.m.pool[i].name})
    BY ServesItself, SameRetained, RetainsMore DEF Shrinks
  <2> QED BY <1>1, <2>1, <2>2
<1>2. CASE data # None /\ a.buffer # None
  <2> PICK m, b : m = a.m /\ b = a.buffer
    OBVIOUS
  <2> DEFINE n == Fill(m, b, data)
  <2>1. Put(a, data) = [m |-> n, buffer |-> b]
    BY <1>2 DEF Put
  <2>2. m \in Memories /\ Apart(m) /\ b \in Buffers /\ m.pool[i].buffer = b /\ i \in DOMAIN m.pool
    BY <1>2
  <2>3. /\ Serves(m, n) /\ n.pool = m.pool /\ n.cache = m.cache /\ n.epoch = m.epoch
        /\ n.content[b] = data /\ \A x \in Buffers : x # b => n.content[x] = m.content[x]
    <3>1. data \in Contents \cup {Garbage}
      BY <1>2
    <3>2. Shrinks(m, n)
      BY <2>2, <3>1, FillServes
    <3>3. /\ n.pool = m.pool /\ n.cache = m.cache /\ n.epoch = m.epoch
          /\ n.content[b] = data /\ \A x \in Buffers : x # b => n.content[x] = m.content[x]
      BY <2>2, <3>1, FillServes
    <3> HIDE DEF n
    <3> QED BY <3>2, <3>3 DEF Shrinks
  <2> HIDE DEF n
  <2>4. b \in Pooled(m) /\ b \notin Cached(m)
    BY <1>2, <2>2, OwnedFacts DEF Apart
  <2>5. ASSUME NEW k \in DOMAIN m.pool, m.pool[k].name # m.pool[i].name PROVE SlotStays(m, n, k)
    <3>1. m.pool[k].buffer # None => m.pool[k].buffer \in Buffers /\ m.pool[k].buffer # b
      <4>1. m.pool[k].buffer # None => m.pool[k].buffer \in Buffers
        BY <2>2, OwnedFacts
      <4>2. m.pool[k].buffer = b => k = i \/ b = None
        BY <2>2 DEF Apart
      <4> QED BY <1>2, <2>5, <4>1, <4>2
    <3> QED BY <2>3, <3>1 DEF SlotStays
  <2>6. ASSUME NEW k \in DOMAIN n.cache PROVE EntryStays(m, n, n.cache[k])
    <3>1. m.cache[k].buffer \in Cached(m) /\ m.cache[k].buffer \in Buffers
      BY <2>2, <2>3, <2>6, OwnedFacts
    <3> QED BY <2>3, <2>4, <3>1 DEF EntryStays, SameChunk
  <2>7. Retains(m, n, {m.pool[i].name})
    <3>1. \A k \in DOMAIN m.pool : k \in DOMAIN n.pool /\ n.pool[k].name = m.pool[k].name
      BY <2>3
    <3>2. \A x \in Buffers \ Owned(m) : n.content[x] = m.content[x]
      BY <2>3, <2>4 DEF Owned
    <3> QED BY <2>3, <2>5, <2>6, <3>1, <3>2 DEF Retains
  <2> QED BY <1>2, <2>1, <2>3, <2>7
<1> QED BY <1>1, <1>2

(* The name had the buffer, or one was taken for it, or none was left.       *)
Reused(m, a, i, data) ==
  /\ i \in DOMAIN m.pool /\ m.pool[i].buffer = a.buffer /\ a.buffer # None
  /\ a.m.pool[i].made = m.pool[i].made
  /\ data = None => a.m.content[a.buffer] = m.content[a.buffer]
Renewed(m, a, i) ==
  i \in DOMAIN m.pool =>
    a.m.pool[i].made = IF a.buffer = None THEN m.pool[i].made ELSE m.pool[i].made + 1
Roomy(m, name, size) ==
  \E i \in DOMAIN m.pool :
    m.pool[i].name = name /\ m.pool[i].buffer # None /\ size <= m.pool[i].capacity
Given(m, a, name, size, data) ==
  \E i \in DOMAIN a.m.pool :
    /\ a.m.pool[i].name = name /\ a.m.pool[i].buffer = a.buffer /\ a.m.pool[i].epoch = m.epoch
    /\ a.buffer # None => size <= a.m.pool[i].capacity
    /\ a.buffer # None /\ data # None => a.m.content[a.buffer] = data
    /\ Reused(m, a, i, data) \/ (Renewed(m, a, i) /\ ~ Roomy(m, name, size))

LEMMA ReusedFacts ==
  ASSUME NEW m \in Memories, Apart(m), NamesInv(m), NEW name \in PoolNames, NEW size \in Nat,
         NEW data \in Contents \cup {None}, NEW refused \in BOOLEAN, Slot(m, name) # 0,
         m.pool[Slot(m, name)].buffer # None, size <= m.pool[Slot(m, name)].capacity
  PROVE  LET a == AllocPooled(m, name, size, data, refused)
         IN  /\ Retains(m, a.m, {name}) /\ NamesInv(a.m) /\ Given(m, a, name, size, data)
<1> PICK i : i = Slot(m, name)
  OBVIOUS
<1> DEFINE p == [m.pool[i] EXCEPT !.epoch = m.epoch]
           pool == [m.pool EXCEPT ![i] = p]
           n == [m EXCEPT !.pool[i] = p]
           b == m.pool[i].buffer
           q == [m |-> n, buffer |-> b]
           a == AllocPooled(m, name, size, data, refused)
<1>1. i \in DOMAIN m.pool /\ m.pool[i].name = name /\ b # None /\ size <= m.pool[i].capacity
  BY SlotFacts
<1>2. a = Put(q, data)
  BY Zenon DEF AllocPooled
<1> HIDE DEF a
<1>3. m.pool[i] \in PoolSlots /\ b \in Buffers \cup {None} /\ m.pool \in Seq(PoolSlots)
      /\ m.epoch \in Nat
  BY <1>1, MemoryFacts, PoolSlotFacts
<1>4. /\ p \in PoolSlots /\ p.buffer = b /\ p.name = name /\ p.epoch = m.epoch
      /\ p.capacity = m.pool[i].capacity /\ p.made = m.pool[i].made
  <2> DEFINE s == m.pool[i]
             e == m.epoch
  <2>1. p = [s EXCEPT !.epoch = e]
    OBVIOUS
  <2>2. /\ s.name \in PoolNames /\ s.capacity \in Nat /\ s.made \in Nat /\ s.buffer = b
        /\ s = [name |-> s.name, buffer |-> s.buffer, capacity |-> s.capacity,
                epoch |-> s.epoch, made |-> s.made]
    BY <1>3, PoolSlotFacts
  <2>3. e \in Nat /\ b \in Buffers \cup {None} /\ s.name = name
    BY <1>1, <1>3
  <2> HIDE DEF p, b, s, e
  <2>4. p = [name |-> s.name, buffer |-> b, capacity |-> s.capacity, epoch |-> e,
             made |-> s.made]
    BY <2>1, <2>2
  <2> QED BY <2>2, <2>3, <2>4 DEF PoolSlots, s, e
<1> HIDE DEF p, b
<1>5. /\ pool \in Seq(PoolSlots) /\ DOMAIN pool = DOMAIN m.pool /\ pool[i] = p
      /\ \A j \in DOMAIN m.pool : j # i => pool[j] = m.pool[j]
  BY <1>1, <1>3, <1>4
<1>6. n = [content |-> m.content, pool |-> pool, epoch |-> m.epoch, cache |-> m.cache,
           failed |-> m.failed]
  <2>1. m = [content |-> m.content, pool |-> m.pool, epoch |-> m.epoch, cache |-> m.cache,
             failed |-> m.failed]
    BY MemoryFacts, Zenon
  <2>2. n = [m EXCEPT !.pool[i] = p]
    OBVIOUS
  <2> HIDE DEF n
  <2> QED BY <2>1, <2>2, Changed, Zenon DEF pool
<1> HIDE DEF n, pool
<1>7. /\ n.content = m.content /\ n.pool = pool /\ n.epoch = m.epoch /\ n.cache = m.cache
  BY <1>6
<1>8. n \in Memories /\ Apart(n)
  <2>1. n \in Memories
    BY <1>5, <1>6, MemoryFacts DEF Memories
  <2>2. \A j \in DOMAIN pool : pool[j].buffer = m.pool[j].buffer
    BY <1>4, <1>5 DEF b
  <2>3. Pooled(n) = Pooled(m) /\ Cached(n) = Cached(m)
    BY <1>5, <1>7, <2>2 DEF Pooled, Cached
  <2> QED BY <1>5, <1>7, <2>1, <2>2, <2>3 DEF Apart
<1>9. Retains(m, n, {name}) /\ NamesInv(n)
  <2>1. \A j \in DOMAIN m.pool : /\ j \in DOMAIN n.pool /\ n.pool[j].name = m.pool[j].name
                                 /\ m.pool[j].name \notin {name} => n.pool[j] = m.pool[j]
    BY <1>1, <1>4, <1>5, <1>7
  <2>2. \A j \in DOMAIN n.pool : j \in DOMAIN m.pool
    BY <1>5, <1>7
  <2>3. Retains(m, n, {name})
    BY <1>7, <2>1, <2>2, PoolRetains, Zenon
  <2> QED BY <2>2, <2>3, NamesKept
<1>10. Serves(m, n)
  <2>1. \A x, k : PinnedFor(m, x, k) => PinnedFor(n, x, k)
    BY <1>7 DEF PinnedFor
  <2>2. Owned(n) = Owned(m)
    <3>1. \A j \in DOMAIN pool : pool[j].buffer = m.pool[j].buffer
      BY <1>4, <1>5 DEF b
    <3> QED BY <1>5, <1>7, <3>1 DEF Pooled, Cached, Owned
  <2> QED BY <1>7, <1>8, <2>1, <2>2 DEF Serves
<1>11. q.m = n /\ q.buffer = b /\ i \in DOMAIN n.pool /\ n.pool[i] = p
  BY <1>1, <1>5, <1>7
<1> HIDE DEF q
<1>12. /\ a.buffer = b /\ Serves(n, a.m) /\ Retains(n, a.m, {name}) /\ a.m.pool = pool
       /\ data = None => a.m = n
       /\ data # None /\ b # None => a.m.content[b] = data
  <2>1. n.pool[i].buffer = b /\ n.pool[i].name = name
    BY <1>4, <1>11
  <2> QED BY <1>2, <1>3, <1>7, <1>8, <1>11, <2>1, PutFacts, ZenonT(60)
<1>13. Retains(m, a.m, {name})
  BY <1>9, <1>10, <1>12, RetainsTwice
<1>14. NamesInv(a.m)
  BY <1>7, <1>9, <1>12 DEF NamesInv
<1>15. Reused(m, a, i, data)
  BY <1>1, <1>4, <1>5, <1>7, <1>12 DEF Reused, b
<1>16. Given(m, a, name, size, data)
  BY <1>1, <1>4, <1>5, <1>12, <1>15 DEF Given
<1> QED BY <1>13, <1>14, <1>16 DEF a

LEMMA RenewedFacts ==
  ASSUME NEW m \in Memories, Apart(m), NamesInv(m), NEW name \in PoolNames, NEW size \in Nat,
         NEW data \in Contents \cup {None}, NEW refused \in BOOLEAN,
         ~ (/\ Slot(m, name) # 0 /\ m.pool[Slot(m, name)].buffer # None
            /\ size <= m.pool[Slot(m, name)].capacity)
  PROVE  LET a == AllocPooled(m, name, size, data, refused)
         IN  /\ Retains(m, a.m, {name}) /\ NamesInv(a.m) /\ Given(m, a, name, size, data)
<1> PICK i : i = Slot(m, name)
  OBVIOUS
<1> DEFINE k == IF i = 0 THEN Len(m.pool) + 1 ELSE i
           n == Emptied(m, i, name)
           b == Alloc(n, refused)
           q == Placed(b, k, size)
           a == AllocPooled(m, name, size, data, refused)
<1>1. a = Put(q, data)
  BY Zenon DEF AllocPooled, PooledAnew
<1>2. /\ Serves(m, n) /\ k \in DOMAIN n.pool /\ n.pool[k].buffer = None
      /\ Retains(m, n, {name}) /\ NamesInv(n)
      /\ n.pool[k].name = name /\ n.pool[k].epoch = m.epoch
      /\ i # 0 => n.pool[k].made = m.pool[i].made
  BY EmptiedFacts, Zenon
<1>3. /\ i # 0 => i \in DOMAIN m.pool /\ k = i
      /\ i = 0 => k \notin DOMAIN m.pool
  BY SlotFacts, MemoryFacts
<1> HIDE DEF a, n, k
<1>4. n \in Memories /\ Apart(n) /\ n.epoch = m.epoch
  BY <1>2 DEF Serves, Retains
<1>5. Grants(n, b) /\ Retains(n, b.m, {})
  BY <1>4, AllocGrants, AllocRetains
<1> HIDE DEF b
<1>6. /\ b.m \in Memories /\ Apart(b.m) /\ Serves(n, b.m) /\ DOMAIN b.m.pool = DOMAIN n.pool
      /\ b.m.pool[k].buffer = None /\ k \in DOMAIN b.m.pool /\ b.buffer \in Buffers \cup {None}
  <2>1. /\ b.m \in Memories /\ Apart(b.m) /\ Serves(n, b.m) /\ Len(b.m.pool) = Len(n.pool)
        /\ b.m.pool[k].buffer = None /\ b.buffer \in Buffers \cup {None}
    BY <1>2, <1>5, Zenon DEF Grants, Shrinks, Serves
  <2> QED BY <1>2, <1>4, <2>1, MemoryFacts
<1>7. /\ b.m.pool[k].name = name /\ b.m.pool[k].epoch = m.epoch
      /\ b.m.pool[k].made = n.pool[k].made /\ b.m.epoch = m.epoch /\ NamesInv(b.m)
  <2>1. b.m.pool[k].name = n.pool[k].name /\ SlotStays(n, b.m, k) /\ b.m.epoch = n.epoch
    BY <1>2, <1>5 DEF Retains
  <2>2. NamesInv(b.m)
    BY <1>2, <1>5, <1>6, NamesKept
  <2> QED BY <1>2, <1>4, <2>1, <2>2 DEF SlotStays
<1>8. /\ Serves(n, q.m) /\ Retains(b.m, q.m, {name}) /\ q.buffer = b.buffer
      /\ DOMAIN q.m.pool = DOMAIN b.m.pool /\ NamesInv(q.m)
      /\ q.m.pool[k].name = name /\ q.m.pool[k].epoch = m.epoch /\ q.m.pool[k].buffer = b.buffer
      /\ b.buffer # None => size <= q.m.pool[k].capacity
      /\ q.m.pool[k].made = IF b.buffer = None THEN n.pool[k].made ELSE n.pool[k].made + 1
  <2>1. CASE b.buffer = None
    <3>1. q = b
      BY <2>1 DEF Placed
    <3>2. Retains(b.m, b.m, {name})
      BY <1>6, SameRetained, RetainsMore
    <3> HIDE DEF q
    <3> QED BY <1>6, <1>7, <2>1, <3>1, <3>2
  <2>2. CASE b.buffer # None
    <3>1. /\ Serves(n, q.m) /\ q.buffer = b.buffer
          /\ q.m.content = b.m.content /\ q.m.epoch = b.m.epoch /\ q.m.cache = b.m.cache
          /\ DOMAIN q.m.pool = DOMAIN b.m.pool
          /\ \A j \in DOMAIN b.m.pool : j # k => q.m.pool[j] = b.m.pool[j]
          /\ q.m.pool[k] = [name |-> b.m.pool[k].name, buffer |-> b.buffer, capacity |-> size,
                            epoch |-> b.m.pool[k].epoch, made |-> b.m.pool[k].made + 1]
      BY <1>4, <1>5, <1>6, <2>2, PlacedServes
    <3> HIDE DEF q
    <3>2. /\ q.m.pool[k].name = name /\ q.m.pool[k].epoch = m.epoch
          /\ q.m.pool[k].buffer = b.buffer /\ q.m.pool[k].capacity = size
          /\ q.m.pool[k].made = n.pool[k].made + 1
      BY <1>7, <3>1
    <3>3. \A j \in DOMAIN b.m.pool : /\ j \in DOMAIN q.m.pool /\ q.m.pool[j].name = b.m.pool[j].name
                                     /\ b.m.pool[j].name \notin {name} => q.m.pool[j] = b.m.pool[j]
      BY <1>7, <3>1, <3>2
    <3>4. Retains(b.m, q.m, {name})
      BY <1>6, <3>1, <3>3, PoolRetains
    <3>5. NamesInv(q.m)
      BY <1>7, <3>1, <3>4, NamesKept
    <3>6. q.m \in Memories /\ Apart(q.m)
      BY <3>1 DEF Serves
    <3> QED BY <2>2, <3>1, <3>2, <3>4, <3>5, <3>6
  <2> QED BY <2>1, <2>2
<1> HIDE DEF q
<1>9. q.m \in Memories /\ Apart(q.m)
  BY <1>8 DEF Serves
<1>10. /\ a.buffer = q.buffer /\ Retains(q.m, a.m, {name}) /\ a.m.pool = q.m.pool
       /\ data # None /\ q.buffer # None => a.m.content[q.buffer] = data
  BY <1>1, <1>6, <1>8, <1>9, PutFacts, ZenonT(60)
<1>11. Retains(m, a.m, {name})
  <2>1. Retains(m, b.m, {name})
    BY <1>2, <1>5, RetainsMore, RetainsTwice
  <2>2. Serves(m, b.m) /\ Serves(m, q.m)
    BY <1>2, <1>6, <1>8, ServesTwice
  <2>3. Retains(m, q.m, {name})
    BY <1>8, <2>1, <2>2, RetainsTwice
  <2> QED BY <1>10, <2>2, <2>3, RetainsTwice
<1>12. NamesInv(a.m)
  BY <1>8, <1>10 DEF NamesInv
<1>13. Renewed(m, a, k)
  BY <1>2, <1>3, <1>8, <1>10 DEF Renewed
<1>14. ~ Roomy(m, name, size)
  <2> SUFFICES ASSUME NEW j \in DOMAIN m.pool, m.pool[j].name = name, m.pool[j].buffer # None,
                      size <= m.pool[j].capacity
               PROVE  FALSE
    BY DEF Roomy
  <2>1. i # 0 /\ m.pool[i].name = name /\ i \in DOMAIN m.pool
    BY SlotFacts
  <2>2. i = j
    BY <2>1 DEF NamesInv
  <2> QED BY <2>1, <2>2
<1>15. Given(m, a, name, size, data)
  BY <1>6, <1>8, <1>10, <1>13, <1>14 DEF Given
<1> QED BY <1>11, <1>12, <1>15 DEF a

LEMMA PooledFacts ==
  ASSUME NEW m \in Memories, Apart(m), NamesInv(m), NEW name \in PoolNames, NEW size \in Nat,
         NEW data \in Contents \cup {None}, NEW refused \in BOOLEAN
  PROVE  LET a == AllocPooled(m, name, size, data, refused)
         IN  /\ Retains(m, a.m, {name}) /\ NamesInv(a.m) /\ Given(m, a, name, size, data)
BY ReusedFacts, RenewedFacts, Zenon

-------------------------------------------------------------------------------
(* What the columns believe of the named buffers                           *)

(* A column that was uploaded as it is now fits the buffer it has.          *)
UploadFits(m, r, c) ==
  r.upload_generation = r.write_generation =>
    \A i \in DOMAIN m.pool :
      m.pool[i].name = PoolName(c) /\ m.pool[i].buffer # None => r.upload_rows <= m.pool[i].capacity

(* The record an aggregate remembers is the last one made under the name, or *)
(* one made before; if it is the last, the buffer has the rows.             *)
AggHolds(m, r, c) ==
  r.agg_buffer # None =>
    \E i \in DOMAIN m.pool :
      /\ m.pool[i].name = <<"agg", c>> /\ r.agg_buffer <= m.pool[i].made
      /\ m.pool[i].made = r.agg_buffer /\ m.pool[i].buffer # None =>
           m.content[m.pool[i].buffer] = <<c, r.agg_generation, 0>>

PoolRight(m, col) ==
  /\ NamesInv(m)
  /\ \A c \in ScanColumns : /\ col[c].upload_generation <= col[c].write_generation
                            /\ UploadFits(m, col[c], c) /\ AggHolds(m, col[c], c)

(* A buffer that was bound has the rows of its column, and was looked up in  *)
(* this epoch.                                                             *)
BufferRight(m, b, c, r) ==
  /\ m.content[b] = r
  /\ \E j \in DOMAIN m.pool :
       /\ m.pool[j].buffer = b /\ m.pool[j].epoch = m.epoch
       /\ m.pool[j].name \in {PoolName(c), <<"agg", c>>}
BoundRight(m, col, q, f) ==
  /\ Len(f) <= Len(q)
  /\ \A i \in DOMAIN f : f[i] # None => BufferRight(m, f[i], q[i], RowsAt(col, q[i], 0))

PoolInv == PoolRight(memory, column) /\ (at = "bind" => BoundRight(memory, column, query.columns, bound))

(* What Retains says of the pool; the epoch may be another.                 *)
PoolKeeps(m, n, T) ==
  /\ \A i \in DOMAIN m.pool :
       /\ i \in DOMAIN n.pool /\ n.pool[i].name = m.pool[i].name
       /\ m.pool[i].name \notin T => SlotStays(m, n, i)
  /\ \A i \in DOMAIN n.pool : i \in DOMAIN m.pool \/ n.pool[i].name \in T

LEMMA RetainsPool ==
  ASSUME NEW m, NEW n, NEW T, Retains(m, n, T)
  PROVE  PoolKeeps(m, n, T) /\ n.epoch = m.epoch
BY Zenon DEF Retains, PoolKeeps

LEMMA SamePool ==
  ASSUME NEW m \in Memories, NEW n, n.pool = m.pool,
         \A b \in Pooled(m) : n.content[b] = m.content[b]
  PROVE  PoolKeeps(m, n, {})
<1>1. ASSUME NEW i \in DOMAIN m.pool PROVE SlotStays(m, n, i)
  <2>1. m.pool[i].buffer # None => m.pool[i].buffer \in Pooled(m)
    BY DEF Pooled
  <2> QED BY <2>1 DEF SlotStays
<1> QED BY <1>1 DEF PoolKeeps

LEMMA UploadStays ==
  ASSUME NEW m, NEW n, NEW T, PoolKeeps(m, n, T), NEW r, NEW c, PoolName(c) \notin T,
         UploadFits(m, r, c)
  PROVE  UploadFits(n, r, c)
<1> SUFFICES ASSUME r.upload_generation = r.write_generation, NEW i \in DOMAIN n.pool,
                    n.pool[i].name = PoolName(c), n.pool[i].buffer # None
             PROVE  r.upload_rows <= n.pool[i].capacity
  BY DEF UploadFits
<1>1. i \in DOMAIN m.pool /\ m.pool[i].name = PoolName(c) /\ SlotStays(m, n, i)
  BY DEF PoolKeeps
<1>2. n.pool[i] = m.pool[i]
  BY <1>1 DEF SlotStays
<1> QED BY <1>1, <1>2 DEF UploadFits

LEMMA AggStays ==
  ASSUME NEW m, NEW n, NEW T, PoolKeeps(m, n, T), NEW r, NEW c, <<"agg", c>> \notin T,
         AggHolds(m, r, c)
  PROVE  AggHolds(n, r, c)
<1> SUFFICES ASSUME r.agg_buffer # None
             PROVE  \E i \in DOMAIN n.pool :
                      /\ n.pool[i].name = <<"agg", c>> /\ r.agg_buffer <= n.pool[i].made
                      /\ n.pool[i].made = r.agg_buffer /\ n.pool[i].buffer # None =>
                           n.content[n.pool[i].buffer] = <<c, r.agg_generation, 0>>
  BY DEF AggHolds
<1>1. PICK i \in DOMAIN m.pool :
        /\ m.pool[i].name = <<"agg", c>> /\ r.agg_buffer <= m.pool[i].made
        /\ m.pool[i].made = r.agg_buffer /\ m.pool[i].buffer # None =>
             m.content[m.pool[i].buffer] = <<c, r.agg_generation, 0>>
  BY DEF AggHolds
<1>2. i \in DOMAIN n.pool /\ n.pool[i].name = m.pool[i].name /\ SlotStays(m, n, i)
  BY <1>1 DEF PoolKeeps
<1>3. n.pool[i].made = m.pool[i].made
  BY <1>2 DEF SlotStays
<1>4. n.pool[i].buffer # None =>
        n.pool[i] = m.pool[i] /\ n.content[m.pool[i].buffer] = m.content[m.pool[i].buffer]
  BY <1>2 DEF SlotStays
<1>5. n.pool[i].made = r.agg_buffer /\ n.pool[i].buffer # None =>
        n.content[n.pool[i].buffer] = <<c, r.agg_generation, 0>>
  BY <1>1, <1>3, <1>4
<1> QED BY <1>1, <1>2, <1>3, <1>5

LEMMA BufferStays ==
  ASSUME NEW m, NEW n, NEW T, PoolKeeps(m, n, T), n.epoch = m.epoch, NEW b, b # None, NEW c, NEW r,
         PoolName(c) \notin T, <<"agg", c>> \notin T, BufferRight(m, b, c, r)
  PROVE  BufferRight(n, b, c, r)
<1>1. PICK j \in DOMAIN m.pool :
        /\ m.pool[j].buffer = b /\ m.pool[j].epoch = m.epoch
        /\ m.pool[j].name \in {PoolName(c), <<"agg", c>>}
  BY DEF BufferRight
<1>2. j \in DOMAIN n.pool /\ n.pool[j].name = m.pool[j].name /\ SlotStays(m, n, j)
  BY <1>1 DEF PoolKeeps
<1>3. n.pool[j] = m.pool[j] /\ n.content[b] = m.content[b]
  BY <1>1, <1>2 DEF SlotStays
<1> QED BY <1>1, <1>2, <1>3 DEF BufferRight

LEMMA NamesStay ==
  ASSUME NEW m, NEW n, PoolKeeps(m, n, {}), NamesInv(m)
  PROVE  NamesInv(n)
<1>1. \A i \in DOMAIN n.pool : i \in DOMAIN m.pool /\ n.pool[i].name = m.pool[i].name
  BY DEF PoolKeeps
<1> QED BY <1>1 DEF NamesInv

LEMMA PoolStays ==
  ASSUME NEW m, NEW n, PoolKeeps(m, n, {}), NEW col, PoolRight(m, col)
  PROVE  PoolRight(n, col)
<1>1. NamesInv(n)
  BY NamesStay DEF PoolRight
<1>2. ASSUME NEW c \in ScanColumns
      PROVE  UploadFits(n, col[c], c) /\ AggHolds(n, col[c], c)
  <2>1. UploadFits(m, col[c], c) /\ AggHolds(m, col[c], c)
    BY DEF PoolRight
  <2>2. PICK T : T = {}
    OBVIOUS
  <2>3. PoolKeeps(m, n, T) /\ PoolName(c) \notin T /\ <<"agg", c>> \notin T
    BY <2>2
  <2> HIDE <2>2
  <2> QED BY <2>1, <2>3, UploadStays, AggStays
<1> QED BY <1>1, <1>2 DEF PoolRight

(* A step of a stream or of the device.                                    *)
LEMMA PoolStep ==
  ASSUME PoolInv, PoolKeeps(memory, memory', {}), column' = column,
         query'.columns \in Seq(ScanColumns), at' = "bind" => bound' = <<>>
  PROVE  PoolInv'
<1>1. PoolRight(memory', column')
  BY PoolStays DEF PoolInv
<1>2. at' = "bind" => BoundRight(memory', column', query.columns', bound')
  <2> SUFFICES ASSUME at' = "bind"
               PROVE  BoundRight(memory', column', query.columns', bound')
    OBVIOUS
  <2>1. Len(bound') = 0 /\ DOMAIN bound' = {} /\ Len(query'.columns) \in Nat
    OBVIOUS
  <2> QED BY <2>1 DEF BoundRight
<1> QED BY <1>1, <1>2 DEF PoolInv

(* The steps that leave the columns and the pool as they are.               *)
LEMMA FailedPool ==
  ASSUME NEW m \in Memories, NEW failed \in BOOLEAN, NEW epoch \in Nat
  PROVE  /\ PoolKeeps(m, [m EXCEPT !.failed = failed], {})
         /\ PoolKeeps(m, [m EXCEPT !.epoch = epoch, !.failed = failed], {})
<1> DEFINE n == [m EXCEPT !.failed = failed]
           k == [m EXCEPT !.epoch = epoch, !.failed = failed]
<1>1. /\ n.content = m.content /\ n.pool = m.pool /\ k.content = m.content /\ k.pool = m.pool
  BY DEF Memories
<1> HIDE DEF n, k
<1>2. PoolKeeps(m, n, {})
  BY <1>1, SamePool
<1>3. PoolKeeps(m, k, {})
  BY <1>1, SamePool
<1> QED BY <1>2, <1>3 DEF n, k

LEMMA UnpinPool ==
  ASSUME NEW m \in Memories, Apart(m), NEW held, NEW completed \in BOOLEAN
  PROVE  LET n == Unpin(m, held, completed)
         IN  n.pool = m.pool /\ \A b \in Pooled(m) : n.content[b] = m.content[b]
<1> DEFINE n == Unpin(m, held, completed)
<1>1. /\ n.pool = m.pool
      /\ \A b \in Buffers : b \notin Cached(m) \/ b \in Cached(n) \/ completed =>
           n.content[b] = m.content[b]
  BY UnpinFacts
<1>2. \A b \in Pooled(m) : b \in Buffers /\ b \notin Cached(m)
  BY OwnedFacts DEF Apart
<1> HIDE DEF n
<1>3. \A b \in Pooled(m) : n.content[b] = m.content[b]
  BY <1>1, <1>2
<1> QED BY <1>1, <1>3 DEF n

LEMMA PoolOfStream ==
  ASSUME ScanInv, StreamInv, PoolInv, ScanInv',
         \/ RetireNothing \/ Retire \/ RetireOverflow \/ Prepare \/ Launch \/ SubmitLast \/ WaitOnly
         \/ EndStream
  PROVE  PoolInv'
<1>1. memory \in Memories /\ Apart(memory) /\ query'.columns \in Seq(ScanColumns)
  BY DEF ScanInv, ScanTypes
<1>2. column' = column /\ at' # "bind"
  BY DEF RetireNothing, Retire, RetireOverflow, Prepare, Launch, SubmitLast, WaitOnly, EndStream,
         Resume, GiveUp, Collecting
<1>3. CASE memory' = memory
  <2>1. PoolKeeps(memory, memory', {})
    BY <1>1, <1>3, SamePool
  <2> QED BY <1>1, <1>2, <2>1, PoolStep
<1>4. CASE Retire
  <2>1. PICK held : memory' = Unpin(memory, held, TRUE)
    BY <1>4 DEF Retire
  <2>2. memory'.pool = memory.pool /\ \A b \in Pooled(memory) : memory'.content[b] = memory.content[b]
    BY <1>1, <2>1, UnpinPool
  <2>3. PoolKeeps(memory, memory', {})
    BY <1>1, <2>2, SamePool
  <2> QED BY <1>1, <1>2, <2>3, PoolStep
<1>5. CASE RetireOverflow
  <2>1. PICK fails \in BOOLEAN : memory' = [memory EXCEPT !.failed = @ \/ fails]
    BY <1>5, FaultFacts DEF RetireOverflow
  <2>2. PICK failed \in BOOLEAN : memory' = [memory EXCEPT !.failed = failed]
    BY <1>1, <2>1, MemoryFacts
  <2>3. PoolKeeps(memory, memory', {})
    <3>1. memory.epoch \in Nat
      BY <1>1, MemoryFacts
    <3> QED BY <1>1, <2>2, <3>1, FailedPool
  <2> QED BY <1>1, <1>2, <2>3, PoolStep
<1>6. CASE Prepare
  <2>1. Retains(memory, memory', {})
    BY <1>6, PrepareStep, PreparedBuffer
  <2>2. PoolKeeps(memory, memory', {})
    BY <2>1, RetainsPool
  <2> QED BY <1>1, <1>2, <2>2, PoolStep
<1>7. CASE EndStream
  <2> DEFINE held == UNION {slot[s].held : s \in SlotIds}
             own == (UNION {{slot[s].transient[c] : c \in ScanColumns} : s \in SlotIds}) \ {None}
  <2>1. memory' = ReleaseAll(Unpin(memory, held, FALSE), own)
    BY <1>7 DEF EndStream
  <2> PICK n : n = Unpin(memory, held, FALSE)
    OBVIOUS
  <2>2. /\ n \in Memories /\ n.pool = memory.pool
        /\ \A b \in Pooled(memory) : n.content[b] = memory.content[b]
    <3> HIDE DEF held
    <3> QED BY <1>1, UnpinPool, UnpinFacts
  <2>3. ASSUME NEW b \in own PROVE \E s \in SlotIds : b \in Own(s)
    <3> DEFINE T(s) == {slot[s].transient[c] : c \in ScanColumns}
               W == {T(s) : s \in SlotIds}
    <3>1. b \in UNION W /\ b # None
      <4>1. own = (UNION W) \ {None}
        OBVIOUS
      <4> HIDE DEF own, W
      <4> QED BY <2>3, <4>1
    <3>2. PICK t \in W : b \in t
      <4> HIDE DEF W
      <4> QED BY <3>1
    <3>3. PICK s \in SlotIds : b \in T(s)
      <4> HIDE DEF T
      <4> QED BY <3>2
    <3> QED BY <3>1, <3>3 DEF Own
  <2> HIDE DEF own, held
  <2>4. \A b \in own : b \notin Pooled(memory)
    BY <2>3 DEF ScanInv, OwnInv
  <2>5. memory'.pool = n.pool /\ \A b \in Buffers \ own : memory'.content[b] = n.content[b]
    <3> DEFINE content == [b \in Buffers |-> IF b \in own THEN Nothing ELSE n.content[b]]
    <3>1. memory' = [n EXCEPT !.content = content]
      BY <2>1, Zenon DEF ReleaseAll
    <3>2. \A b \in Buffers : b \notin own => content[b] = n.content[b]
      OBVIOUS
    <3> HIDE DEF content
    <3>3. memory'.pool = n.pool /\ memory'.content = content
      BY <2>2, <3>1, MemoryFacts, Changed, Zenon
    <3> QED BY <3>2, <3>3
  <2>6. \A b \in Pooled(memory) : memory'.content[b] = memory.content[b]
    <3>1. \A b \in Pooled(memory) : b \in Buffers
      BY <1>1, OwnedFacts
    <3> QED BY <2>2, <2>4, <2>5, <3>1
  <2>7. PoolKeeps(memory, memory', {})
    BY <1>1, <2>2, <2>5, <2>6, SamePool
  <2> QED BY <1>1, <1>2, <2>7, PoolStep
<1>8. CASE RetireNothing \/ Launch \/ SubmitLast \/ WaitOnly
  BY <1>3, <1>8 DEF RetireNothing, Launch, SubmitLast, WaitOnly
<1> QED BY <1>4, <1>5, <1>6, <1>7, <1>8

LEMMA PoolOfDevice ==
  ASSUME ScanInv, StreamInv, PoolInv, ScanInv', NEW s \in SlotIds, DeviceCopy(s) \/ DeviceKernel(s)
  PROVE  PoolInv' /\ answer' = "none"
<1>1. memory \in Memories /\ Apart(memory) /\ query'.columns \in Seq(ScanColumns)
  BY DEF ScanInv, ScanTypes
<1>2. at \notin {"idle", "bind"}
  BY DEF DeviceCopy, DeviceKernel, ScanInv, HostInv
<1>3. column' = column /\ at' = at /\ answer' = answer
  BY DEF DeviceCopy, DeviceKernel, host
<1>4. PoolKeeps(memory, memory', {})
  <2>1. CASE DeviceCopy(s)
    BY <1>1, <2>1, CopyFacts, SamePool DEF StreamInv
  <2>2. CASE DeviceKernel(s)
    BY <1>1, <2>2, SamePool DEF DeviceKernel
  <2> QED BY <2>1, <2>2
<1>5. answer = "none"
  BY <1>2 DEF StreamInv, QueryInv
<1> QED BY <1>1, <1>2, <1>3, <1>4, <1>5, PoolStep

LEMMA NoAnswerYet ==
  ASSUME ScanInv, StreamInv,
         \/ RetireNothing \/ Retire \/ RetireOverflow \/ Prepare \/ Launch \/ SubmitLast \/ WaitOnly
         \/ BindWhole \/ BindResident
  PROVE  answer' = "none"
<1>1. at # "idle" /\ answer' = answer
  BY DEF RetireNothing, Retire, RetireOverflow, Prepare, Launch, SubmitLast, WaitOnly, BindWhole,
         BindResident, Collecting
<1> QED BY <1>1 DEF StreamInv, QueryInv

LEMMA PoolOfQuery ==
  ASSUME ScanInv, PoolInv, ScanInv', BeginScan \/ BeginAll \/ BeginWhole \/ BeginResident
  PROVE  PoolInv'
<1>1. memory \in Memories /\ query'.columns \in Seq(ScanColumns)
  BY DEF ScanInv, ScanTypes
<1>2. PICK kind, order, chunks : \E fails \in BOOLEAN : Ask(kind, order, chunks, fails)
  BY FaultFacts DEF BeginScan, BeginAll, BeginWhole, BeginResident, Streamed
<1>3. PICK fails \in BOOLEAN : Ask(kind, order, chunks, fails)
  BY <1>2
<1>4. /\ memory' = [memory EXCEPT !.epoch = @ + 1, !.failed = fails]
      /\ column' = column /\ bound' = <<>>
  BY <1>3 DEF Ask
<1>5. PoolKeeps(memory, memory', {})
  <2>1. memory.epoch \in Nat
    BY <1>1, MemoryFacts
  <2>2. PICK epoch \in Nat : epoch = memory.epoch + 1
    BY <2>1
  <2>3. memory' = [memory EXCEPT !.epoch = epoch, !.failed = fails]
    BY <1>4, <2>2
  <2> QED BY <1>1, <2>3, FailedPool
<1> QED BY <1>1, <1>4, <1>5, PoolStep

(* A column that is written was not uploaded as it is then.                 *)
LEMMA PoolOfWrite ==
  ASSUME ScanInv, PoolInv, NEW c \in ScanColumns, Write(c)
  PROVE  PoolInv'
<1>1. /\ memory' = memory /\ at' = "idle" /\ column \in [ScanColumns -> ColumnStates]
  BY DEF Write, host, ScanInv, ScanTypes
<1>2. PICK n \in 1 .. 2 :
        column' = [column EXCEPT ![c] = [column[c] EXCEPT !.write_generation = @ + 1, !.rows = n]]
  BY Zenon DEF Write
<1>3. /\ column[c].write_generation \in Nat /\ column[c].upload_generation \in Nat
      /\ column[c] \in ColumnStates
  BY <1>1 DEF ColumnStates
<1>4. /\ \A d \in ScanColumns : d # c => column'[d] = column[d]
      /\ column'[c] = [column[c] EXCEPT !.write_generation = column[c].write_generation + 1,
                                        !.rows = n]
  BY <1>1, <1>2
<1>5. /\ column'[c].write_generation = column[c].write_generation + 1
      /\ column'[c].upload_generation = column[c].upload_generation
      /\ column'[c].agg_generation = column[c].agg_generation
      /\ column'[c].agg_buffer = column[c].agg_buffer
  BY <1>3, <1>4 DEF ColumnStates
<1>6. \A d \in ScanColumns : /\ column[d].upload_generation <= column[d].write_generation
                             /\ UploadFits(memory, column[d], d) /\ AggHolds(memory, column[d], d)
  BY DEF PoolInv, PoolRight
<1>7. \A d : PoolName(d)' = PoolName(d)
  BY DEF PoolName
<1>8. /\ column'[c].upload_generation <= column'[c].write_generation
      /\ UploadFits(memory, column'[c], c)
  BY <1>3, <1>5, <1>6 DEF UploadFits
<1>9. AggHolds(memory, column'[c], c)
  BY <1>5, <1>6 DEF AggHolds
<1>10. PoolRight(memory, column')
  BY <1>4, <1>6, <1>8, <1>9 DEF PoolInv, PoolRight
<1> QED BY <1>1, <1>10 DEF PoolInv

-------------------------------------------------------------------------------
(* Binding a column that fits one buffer                                    *)

(* What a binding of column c gives.                                       *)
Bound(c, b, T) ==
  /\ memory' \in Memories /\ PoolKeeps(memory, memory', T) /\ memory'.epoch = memory.epoch
  /\ T \subseteq {PoolName(c), <<"agg", c>>}
  /\ NamesInv(memory') /\ bound' = Append(bound, b) /\ b \in Buffers \cup {None}
  /\ b # None => BufferRight(memory', b, c, RowsAt(column, c, 0))
  /\ \A d \in ScanColumns : d # c => column'[d] = column[d]
  /\ column'[c].write_generation = column[c].write_generation
  /\ column'[c].upload_generation <= column'[c].write_generation
  /\ UploadFits(memory', column'[c], c) /\ AggHolds(memory', column'[c], c)

LEMMA OtherNames ==
  ASSUME SameName = {}, NEW c \in ScanColumns, NEW d \in ScanColumns, c # d, NEW T,
         T \subseteq {PoolName(c), <<"agg", c>>}
  PROVE  PoolName(d) \notin T /\ <<"agg", d>> \notin T
<1>1. PoolName(c) = <<"scan_col", c>> /\ PoolName(d) = <<"scan_col", d>>
  BY DEF PoolName
<1>2. /\ <<"scan_col", d>> # <<"scan_col", c>> /\ <<"scan_col", d>> # <<"agg", c>>
      /\ <<"agg", d>> # <<"scan_col", c>> /\ <<"agg", d>> # <<"agg", c>>
  OBVIOUS
<1> QED BY <1>1, <1>2

LEMMA BoundMore ==
  ASSUME SameName = {}, ScanInv, StreamInv, PoolInv, at = "bind", at' = "bind", query' = query,
         Len(bound) < Len(query.columns), NEW c, c = query.columns[Len(bound) + 1], NEW b, NEW T,
         Bound(c, b, T)
  PROVE  PoolInv'
<1>1. /\ query.columns \in Seq(ScanColumns) /\ bound \in Seq(Buffers \cup {None})
      /\ memory \in Memories
  BY DEF ScanInv, ScanTypes
<1>2. c \in ScanColumns
  BY <1>1
<1>3. /\ PoolKeeps(memory, memory', T) /\ memory'.epoch = memory.epoch
      /\ T \subseteq {PoolName(c), <<"agg", c>>}
      /\ NamesInv(memory') /\ bound' = Append(bound, b) /\ b \in Buffers \cup {None}
      /\ b # None => BufferRight(memory', b, c, RowsAt(column, c, 0))
      /\ \A d \in ScanColumns : d # c => column'[d] = column[d]
      /\ column'[c].write_generation = column[c].write_generation
      /\ column'[c].upload_generation <= column'[c].write_generation
      /\ UploadFits(memory', column'[c], c) /\ AggHolds(memory', column'[c], c)
  BY Zenon DEF Bound
<1>4. ASSUME NEW d \in ScanColumns, d # c
      PROVE  /\ column'[d].upload_generation <= column'[d].write_generation
             /\ UploadFits(memory', column'[d], d) /\ AggHolds(memory', column'[d], d)
  <2>1. PoolName(d) \notin T /\ <<"agg", d>> \notin T
    BY <1>2, <1>3, <1>4, OtherNames
  <2>2. /\ column[d].upload_generation <= column[d].write_generation
        /\ UploadFits(memory, column[d], d) /\ AggHolds(memory, column[d], d)
    BY DEF PoolInv, PoolRight
  <2>3. UploadFits(memory', column[d], d)
    BY <1>3, <2>1, <2>2, UploadStays
  <2>4. AggHolds(memory', column[d], d)
    BY <1>3, <2>1, <2>2, AggStays
  <2>5. column'[d] = column[d]
    BY <1>3, <1>4
  <2> QED BY <2>2, <2>3, <2>4, <2>5
<1>5. PoolRight(memory', column')
  BY <1>3, <1>4 DEF PoolRight
<1>6. \A d \in ScanColumns : RowsAt(column', d, 0) = RowsAt(column, d, 0)
  BY <1>3 DEF RowsAt
<1>7. BoundRight(memory', column', query.columns, bound')
  <2> DEFINE n == Len(bound)
             q == query.columns
  <2>1. /\ n \in Nat /\ Len(bound') = n + 1 /\ DOMAIN bound' = 1 .. n + 1 /\ bound'[n + 1] = b
        /\ \A i \in 1 .. n : bound'[i] = bound[i] /\ i \in DOMAIN bound
        /\ Len(q) \in Nat /\ n + 1 <= Len(q) /\ DOMAIN q = 1 .. Len(q)
    BY <1>1, <1>3
  <2> HIDE DEF n
  <2>2. ASSUME NEW i \in 1 .. n, bound'[i] # None
        PROVE  BufferRight(memory', bound'[i], q[i], RowsAt(column', q[i], 0))
    <3>1. q[i] \in ScanColumns /\ i \in DOMAIN q /\ n + 1 \in DOMAIN q /\ i # n + 1
      BY <1>1, <2>1
    <3>2. q[i] # c
      BY <3>1 DEF StreamInv, QueryInv, n
    <3>3. PoolName(q[i]) \notin T /\ <<"agg", q[i]>> \notin T
      BY <1>2, <1>3, <3>1, <3>2, OtherNames
    <3>4. BufferRight(memory, bound[i], q[i], RowsAt(column, q[i], 0)) /\ bound'[i] = bound[i]
      BY <2>1, <2>2 DEF PoolInv, BoundRight
    <3> HIDE DEF q
    <3>5. BufferRight(memory', bound[i], q[i], RowsAt(column, q[i], 0))
      BY <1>3, <2>2, <3>3, <3>4, BufferStays
    <3>6. RowsAt(column', q[i], 0) = RowsAt(column, q[i], 0)
      BY <1>6, <3>1
    <3> QED BY <3>4, <3>5, <3>6
  <2>3. b # None => BufferRight(memory', b, c, RowsAt(column', c, 0))
    BY <1>2, <1>3, <1>6
  <2>4. ASSUME NEW i \in DOMAIN bound', bound'[i] # None
        PROVE  BufferRight(memory', bound'[i], q[i], RowsAt(column', q[i], 0))
    <3>1. CASE i = n + 1
      BY <2>1, <2>3, <2>4, <3>1 DEF n
    <3>2. CASE i # n + 1
      <4>1. i \in 1 .. n
        BY <2>1, <2>4, <3>2
      <4> QED BY <2>2, <2>4, <4>1
    <3> QED BY <3>1, <3>2
  <2> QED BY <2>1, <2>4 DEF BoundRight
<1> QED BY <1>5, <1>7 DEF PoolInv

(* What AllocPooled has given under the name of a column.                   *)
LEMMA GivenFacts ==
  ASSUME NEW m, NEW a, NEW c, NEW name \in {PoolName(c), <<"agg", c>>}, NEW size, NEW data,
         Given(m, a, name, size, data), a.m.epoch = m.epoch, a.buffer # None
  PROVE  BufferRight(a.m, a.buffer, c, a.m.content[a.buffer])
BY DEF Given, BufferRight

LEMMA GivenFits ==
  ASSUME NEW m, NEW a, NEW c, NEW size, NEW data, NamesInv(a.m),
         Given(m, a, PoolName(c), size, data), NEW r, r.upload_rows = size
  PROVE  UploadFits(a.m, r, c)
<1> SUFFICES ASSUME NEW j \in DOMAIN a.m.pool, a.m.pool[j].name = PoolName(c),
                    a.m.pool[j].buffer # None
             PROVE  size <= a.m.pool[j].capacity
  BY DEF UploadFits
<1>1. PICK i \in DOMAIN a.m.pool :
        /\ a.m.pool[i].name = PoolName(c) /\ a.m.pool[i].buffer = a.buffer
        /\ a.buffer # None => size <= a.m.pool[i].capacity
  BY DEF Given
<1>2. i = j
  BY <1>1 DEF NamesInv
<1> QED BY <1>1, <1>2

(* A buffer with room for what is asked is the one that is given.           *)
LEMMA RoomyGiven ==
  ASSUME NEW m, NEW a, NEW name, NEW size, NamesInv(m), Retains(m, a.m, {name}),
         Given(m, a, name, size, None), NEW i \in DOMAIN m.pool, m.pool[i].name = name,
         m.pool[i].buffer # None, size <= m.pool[i].capacity
  PROVE  a.buffer = m.pool[i].buffer /\ a.m.content[a.buffer] = m.content[a.buffer]
<1>1. Roomy(m, name, size)
  BY DEF Roomy
<1>2. PICK j \in DOMAIN a.m.pool : a.m.pool[j].name = name /\ Reused(m, a, j, None)
  BY <1>1 DEF Given
<1>3. j \in DOMAIN m.pool /\ m.pool[j].buffer = a.buffer /\ a.m.content[a.buffer] = m.content[a.buffer]
  BY <1>2 DEF Reused
<1>4. m.pool[j].name = name
  BY <1>2, <1>3 DEF Retains
<1>5. i = j
  BY <1>3, <1>4 DEF NamesInv
<1> QED BY <1>3, <1>5

LEMMA AggSame ==
  ASSUME NEW m, NEW c, NEW k, NEW r, AggHolds(m, k, c), r.agg_buffer = k.agg_buffer,
         r.agg_generation = k.agg_generation
  PROVE  AggHolds(m, r, c)
BY DEF AggHolds

LEMMA MadeIs ==
  ASSUME NEW m \in Memories, NamesInv(m), NEW i \in DOMAIN m.pool
  PROVE  MadeOf(m, m.pool[i].name) = m.pool[i].made
<1> PICK k : k = Slot(m, m.pool[i].name)
  OBVIOUS
<1>1. k # 0 /\ k \in DOMAIN m.pool /\ m.pool[k].name = m.pool[i].name
  BY SlotFacts
<1>2. k = i
  BY <1>1 DEF NamesInv
<1> QED BY <1>1, <1>2 DEF MadeOf

(* Looking a name up leaves what an aggregate remembers true, and if the     *)
(* record is the one it remembers the rows are those it uploaded.           *)
LEMMA AggAgain ==
  ASSUME NEW m \in Memories, NEW c, NEW name, name = <<"agg", c>>, NEW a, a.m \in Memories,
         NamesInv(a.m), Retains(m, a.m, {name}), NEW size, NEW data, Given(m, a, name, size, data),
         NEW r, r.agg_buffer \in Nat \cup {None}, AggHolds(m, r, c),
         data = None \/ a.buffer = None
  PROVE  /\ AggHolds(a.m, r, c)
         /\ r.agg_buffer # None /\ MadeOf(a.m, name) = r.agg_buffer /\ a.buffer # None =>
              a.m.content[a.buffer] = <<c, r.agg_generation, 0>>
<1> SUFFICES ASSUME r.agg_buffer # None
             PROVE  /\ AggHolds(a.m, r, c)
                    /\ MadeOf(a.m, name) = r.agg_buffer /\ a.buffer # None =>
                         a.m.content[a.buffer] = <<c, r.agg_generation, 0>>
  BY DEF AggHolds
<1> PICK x : x = <<c, r.agg_generation, 0>>
  OBVIOUS
<1> PICK g \in Nat : g = r.agg_buffer
  OBVIOUS
<1>1. PICK j \in DOMAIN m.pool :
        /\ m.pool[j].name = name /\ g <= m.pool[j].made
        /\ m.pool[j].made = g /\ m.pool[j].buffer # None => m.content[m.pool[j].buffer] = x
  BY DEF AggHolds
<1>2. PICK i \in DOMAIN a.m.pool :
        /\ a.m.pool[i].name = name /\ a.m.pool[i].buffer = a.buffer
        /\ Reused(m, a, i, data) \/ (Renewed(m, a, i) /\ ~ Roomy(m, name, size))
  BY DEF Given
<1>3. j \in DOMAIN a.m.pool /\ a.m.pool[j].name = name
  BY <1>1 DEF Retains
<1>4. i = j
  BY <1>2, <1>3 DEF NamesInv
<1>5. m.pool[i].made \in Nat /\ a.m.pool[i].made \in Nat
  BY <1>1, <1>2, <1>4, MemoryFacts, PoolSlotFacts
<1>6. g <= a.m.pool[i].made /\ (a.m.pool[i].made = g /\ a.buffer # None => a.m.content[a.buffer] = x)
  <2>1. CASE Reused(m, a, i, data)
    <3>1. /\ m.pool[i].buffer = a.buffer /\ a.buffer # None
          /\ a.m.pool[i].made = m.pool[i].made /\ data = None
          /\ a.m.content[a.buffer] = m.content[a.buffer]
      BY <2>1 DEF Reused
    <3> QED BY <1>1, <1>4, <3>1
  <2>2. CASE Renewed(m, a, i)
    <3>1. a.m.pool[i].made = IF a.buffer = None THEN m.pool[i].made ELSE m.pool[i].made + 1
      BY <1>1, <1>4, <2>2 DEF Renewed
    <3> QED BY <1>1, <1>4, <1>5, <3>1
  <2> QED BY <1>2, <2>1, <2>2
<1>7. MadeOf(a.m, name) = a.m.pool[i].made
  BY <1>2, MadeIs
<1>8. AggHolds(a.m, r, c)
  BY <1>2, <1>6 DEF AggHolds
<1> QED BY <1>6, <1>7, <1>8

LEMMA AggAnew ==
  ASSUME NEW m, NEW c, NEW name, name = <<"agg", c>>, NEW a, a.m \in Memories, NamesInv(a.m),
         NEW size, NEW data, data # None, Given(m, a, name, size, data), a.buffer # None,
         NEW r, r.agg_buffer = MadeOf(a.m, name), data = <<c, r.agg_generation, 0>>
  PROVE  AggHolds(a.m, r, c)
<1>1. PICK i \in DOMAIN a.m.pool :
        /\ a.m.pool[i].name = name /\ a.m.pool[i].buffer = a.buffer
        /\ a.m.content[a.buffer] = data
  BY DEF Given
<1>2. MadeOf(a.m, name) = a.m.pool[i].made
  BY <1>1, MadeIs
<1>3. a.m.pool[i].made \in Nat
  BY <1>1, MemoryFacts, PoolSlotFacts
<1>4. r.agg_buffer <= a.m.pool[i].made
  BY <1>2, <1>3
<1> QED BY <1>1, <1>4 DEF AggHolds

(* What both ways of binding have to show.                                 *)
LEMMA BindSteps ==
  ASSUME SameName = {}, ScanInv, StreamInv, PoolInv, at = "bind",
         UNCHANGED <<query, at, answer, slot, got>>, Len(bound) < Len(query.columns),
         NEW c, c = query.columns[Len(bound) + 1], NEW b, NEW T,
         Retains(memory, memory', T), Bound(c, b, T)
  PROVE  StreamInv' /\ PoolInv'
<1>1. PoolInv'
  BY BoundMore
<1>2. CacheRight(memory')
  BY CacheKept DEF StreamInv
<1>3. StreamInv'
  BY <1>2, RestingKeeps
<1> QED BY <1>1, <1>3

LEMMA BindWholeRight ==
  ASSUME SameName = {}, "forgotten" \notin Histories, ScanInv, StreamInv, PoolInv, BindWhole
  PROVE  StreamInv' /\ PoolInv'
<1> PICK c : c = query.columns[Len(bound) + 1]
  OBVIOUS
<1> DEFINE cached == TakenAsUploaded(c)
           size == IF cached THEN column[c].upload_rows ELSE column[c].rows
           data == IF cached THEN None ELSE Rows(c, 0)
           name == PoolName(c)
<1>1. /\ at = "bind" /\ Len(bound) < Len(query.columns)
      /\ UNCHANGED <<query, at, answer, slot, got>>
      /\ cached => PoolHolds(c)
  BY DEF BindWhole, host, stream
<1>2. PICK refused \in Fault("alloc") :
        LET a == AllocPooled(memory, name, size, data, refused)
        IN  /\ memory' = a.m /\ bound' = Append(bound, a.buffer)
            /\ column' = IF cached THEN column
                         ELSE [column EXCEPT ![c] = [column[c] EXCEPT
                                !.upload_generation = column[c].write_generation,
                                !.upload_rows = size]]
  BY Zenon DEF BindWhole
<1>3. c \in ScanColumns /\ ScanTypes /\ Apart(memory) /\ memory \in Memories
  BY <1>1, NextBound DEF ScanInv, ScanTypes
<1>4. column[c] \in ColumnStates /\ column[c].write_generation \in Nat /\ size \in Nat
  BY <1>3, ColumnTypes
<1>5. data \in Contents \cup {None} /\ Rows(c, 0) \in Contents /\ Rows(c, 0) = RowsAt(column, c, 0)
  BY <1>3, <1>4 DEF Rows, Contents, RowsAt
<1>6. name \in PoolNames
  BY <1>3 DEF PoolName, PoolNames
<1>7. NamesInv(memory) /\ UploadFits(memory, column[c], c) /\ AggHolds(memory, column[c], c)
      /\ column[c].upload_generation <= column[c].write_generation
  BY <1>3 DEF PoolInv, PoolRight
<1> PICK a : a = AllocPooled(memory, name, size, data, refused)
  OBVIOUS
<1>8. refused \in BOOLEAN
  BY <1>2, FaultFacts
<1>9. /\ Retains(memory, a.m, {name}) /\ NamesInv(a.m) /\ Given(memory, a, name, size, data)
      /\ a.m \in Memories /\ a.buffer \in Buffers \cup {None}
  <2> HIDE DEF size, data, name
  <2>1. Retains(memory, a.m, {name}) /\ NamesInv(a.m) /\ Given(memory, a, name, size, data)
    BY <1>3, <1>4, <1>5, <1>6, <1>7, <1>8, PooledFacts
  <2>2. Serves(memory, a.m) /\ a.buffer \in Buffers \cup {None}
    BY <1>3, <1>4, <1>5, <1>6, <1>8, PooledServes
  <2> QED BY <2>1, <2>2 DEF Serves
<1>10. /\ memory' = a.m /\ bound' = Append(bound, a.buffer)
       /\ column' = IF cached THEN column
                    ELSE [column EXCEPT ![c] = [column[c] EXCEPT
                           !.upload_generation = column[c].write_generation,
                           !.upload_rows = size]]
  BY <1>2
<1>11. /\ \A d \in ScanColumns : d # c => column'[d] = column[d]
       /\ column'[c].write_generation = column[c].write_generation
       /\ column'[c].upload_generation <= column'[c].write_generation
       /\ column'[c].upload_rows = size
       /\ column'[c].agg_buffer = column[c].agg_buffer
       /\ column'[c].agg_generation = column[c].agg_generation
  <2>1. column \in [ScanColumns -> ColumnStates]
    BY <1>3 DEF ScanTypes
  <2>2. CASE cached
    BY <1>7, <1>10, <2>2
  <2>3. CASE ~cached
    <3>1. column' = [column EXCEPT ![c] = [column[c] EXCEPT
                           !.upload_generation = column[c].write_generation,
                           !.upload_rows = size]]
      BY <1>10, <2>3
    <3> HIDE DEF cached, size
    <3>2. /\ \A d \in ScanColumns : d # c => column'[d] = column[d]
          /\ column'[c] = [column[c] EXCEPT !.upload_generation = column[c].write_generation,
                                            !.upload_rows = size]
      BY <1>3, <2>1, <3>1
    <3> QED BY <1>4, <3>2 DEF ColumnStates
  <2> QED BY <2>2, <2>3
<1>12. a.m.epoch = memory.epoch /\ PoolKeeps(memory, a.m, {name})
  BY <1>9, RetainsPool
<1>13. ASSUME a.buffer # None PROVE a.m.content[a.buffer] = Rows(c, 0)
  <2>1. CASE cached
    <3>1. PICK i \in DOMAIN memory.pool :
            /\ memory.pool[i].name = name /\ memory.pool[i].buffer # None
            /\ memory.content[memory.pool[i].buffer] = Rows(c, 0)
      BY <1>1, <2>1 DEF PoolHolds
    <3>2. size <= memory.pool[i].capacity
      BY <1>7, <2>1, <3>1 DEF UploadFits, TakenAsUploaded
    <3>3. Given(memory, a, name, size, None)
      BY <1>9, <2>1
    <3>4. /\ NamesInv(memory) /\ Retains(memory, a.m, {name}) /\ memory.pool[i].name = name
          /\ memory.pool[i].buffer # None
      BY <1>7, <1>9, <3>1
    <3> HIDE DEF name, size, data, cached
    <3>5. a.buffer = memory.pool[i].buffer /\ a.m.content[a.buffer] = memory.content[a.buffer]
      BY <3>2, <3>3, <3>4, RoomyGiven, Zenon
    <3> QED BY <3>1, <3>5
  <2>2. CASE ~cached
    <3>1. data = Rows(c, 0) /\ data # None
      BY <1>5, <2>2, Constants
    <3> QED BY <1>9, <1>13, <3>1 DEF Given
  <2> QED BY <2>1, <2>2
<1>14. a.buffer # None => BufferRight(a.m, a.buffer, c, RowsAt(column, c, 0))
  <2>1. name \in {PoolName(c), <<"agg", c>>}
    OBVIOUS
  <2> HIDE DEF name, size, data
  <2> QED BY <1>5, <1>9, <1>12, <1>13, <2>1, GivenFacts
<1>15. UploadFits(a.m, column'[c], c)
  <2> PICK r : r = column'[c]
    OBVIOUS
  <2>1. r.upload_rows = size
    BY <1>11
  <2> HIDE DEF size, data
  <2>2. UploadFits(a.m, r, c)
    BY <1>9, <2>1, GivenFits
  <2> QED BY <2>2
<1>16. AggHolds(a.m, column'[c], c)
  <2> PICK T, m, n, r : T = {name} /\ m = memory /\ n = a.m /\ r = column[c]
    OBVIOUS
  <2>1. <<"agg", c>> \notin T
    BY DEF PoolName
  <2>2. PoolKeeps(m, n, T) /\ AggHolds(m, r, c)
    BY <1>7, <1>12
  <2>3. AggHolds(n, r, c)
    BY ONLY <2>1, <2>2, AggStays
  <2> PICK s : s = column'[c]
    OBVIOUS
  <2>4. s.agg_buffer = r.agg_buffer /\ s.agg_generation = r.agg_generation
    BY <1>11
  <2>5. AggHolds(n, s, c)
    BY ONLY <2>3, <2>4, AggSame
  <2> QED BY <2>5
<1>17. Bound(c, a.buffer, {name})
  BY <1>9, <1>10, <1>11, <1>12, <1>14, <1>15, <1>16 DEF Bound
<1>18. Retains(memory, memory', {name})
  BY <1>9, <1>10
<1> HIDE DEF name, cached
<1> QED BY <1>1, <1>17, <1>18, BindSteps

(* What is known after the buffer of an aggregate was looked up.            *)
Looked(l, c) ==
  /\ l.m \in Memories /\ Apart(l.m) /\ Serves(memory, l.m) /\ Retains(memory, l.m, {<<"agg", c>>})
  /\ NamesInv(l.m) /\ AggHolds(l.m, column[c], c) /\ l.buffer \in Buffers \cup {None}
  /\ l.buffer # None => BufferRight(l.m, l.buffer, c, RowsAt(column, c, 0))

LEMMA LookupRight ==
  ASSUME ScanInv, PoolInv, NEW c \in ScanColumns, NEW refused \in BOOLEAN
  PROVE  Looked(Lookup(c, refused), c)
<1> PICK name : name = <<"agg", c>>
  OBVIOUS
<1>1. /\ ScanTypes /\ memory \in Memories /\ Apart(memory) /\ column[c].rows \in Nat
      /\ column[c].agg_buffer \in Nat \cup {None} /\ name \in PoolNames
  BY ColumnTypes DEF ScanInv, ScanTypes, PoolNames, ColumnStates
<1>2. NamesInv(memory) /\ AggHolds(memory, column[c], c)
  BY DEF PoolInv, PoolRight
<1>3. CASE ~AggKnown(c)
  <2>1. Lookup(c, refused) = [m |-> memory, buffer |-> None]
    BY <1>3 DEF Lookup
  <2>2. Serves(memory, memory) /\ Retains(memory, memory, {name})
    BY <1>1, ServesItself, SameRetained, RetainsMore DEF Shrinks
  <2> QED BY <1>1, <1>2, <2>1, <2>2 DEF Looked
<1>4. CASE AggKnown(c)
  <2> PICK a : a = AllocPooled(memory, name, column[c].rows, None, refused)
    OBVIOUS
  <2> PICK k : k = column[c].rows
    OBVIOUS
  <2>1. Lookup(c, refused) = Checked(a, c)
    BY <1>4 DEF Lookup, LookedUp
  <2>2. None \in Contents \cup {None}
    OBVIOUS
  <2>3. /\ Retains(memory, a.m, {name}) /\ NamesInv(a.m) /\ Given(memory, a, name, k, None)
    BY <1>1, <1>2, <2>2, PooledFacts
  <2>4. Serves(memory, a.m) /\ a.buffer \in Buffers \cup {None}
    BY <1>1, <2>2, PooledServes
  <2>5. a.m \in Memories /\ Apart(a.m) /\ a.m.epoch = memory.epoch
    BY <2>3, <2>4, RetainsPool DEF Serves
  <2> PICK r : r = column[c]
    OBVIOUS
  <2>6. /\ AggHolds(a.m, r, c)
        /\ r.agg_buffer # None /\ MadeOf(a.m, name) = r.agg_buffer /\ a.buffer # None =>
             a.m.content[a.buffer] = <<c, r.agg_generation, 0>>
    <3> PICK m, data : m = memory /\ data = None
      OBVIOUS
    <3>1. /\ AggHolds(m, r, c) /\ r.agg_buffer \in Nat \cup {None} /\ m \in Memories
          /\ Retains(m, a.m, {name}) /\ Given(m, a, name, k, data)
      BY <1>1, <1>2, <2>3
    <3>2. NamesInv(a.m) /\ a.m \in Memories /\ name = <<"agg", c>> /\ data = None
      BY <2>3, <2>5
    <3> QED BY ONLY <3>1, <3>2, AggAgain
  <2>7. CASE MadeOf(a.m, name) = r.agg_buffer
    <3>1. Checked(a, c) = a
      BY <2>7 DEF Checked
    <3>2. a.buffer # None => a.m.content[a.buffer] = RowsAt(column, c, 0)
      BY <1>4, <2>6, <2>7 DEF AggKnown, RowsAt
    <3>3. a.buffer # None => BufferRight(a.m, a.buffer, c, a.m.content[a.buffer])
      BY <2>3, <2>5, GivenFacts
    <3>4. a.buffer # None => BufferRight(a.m, a.buffer, c, RowsAt(column, c, 0))
      BY <3>2, <3>3
    <3>5. Looked(a, c)
      BY <2>3, <2>4, <2>5, <2>6, <3>4 DEF Looked
    <3> QED BY <2>1, <3>1, <3>5
  <2>8. CASE MadeOf(a.m, name) # r.agg_buffer
    <3>1. Checked(a, c) = [m |-> a.m, buffer |-> None]
      BY <2>8 DEF Checked
    <3>2. Looked([m |-> a.m, buffer |-> None], c)
      BY <2>3, <2>4, <2>5, <2>6 DEF Looked
    <3> QED BY <2>1, <3>1, <3>2
  <2> QED BY <2>7, <2>8
<1> QED BY <1>3, <1>4

LEMMA UploadSame ==
  ASSUME NEW m, NEW c, NEW k, NEW r, UploadFits(m, k, c),
         r.upload_generation = k.upload_generation, r.write_generation = k.write_generation,
         r.upload_rows = k.upload_rows
  PROVE  UploadFits(m, r, c)
BY DEF UploadFits

LEMMA BindResidentRight ==
  ASSUME SameName = {}, ScanInv, StreamInv, PoolInv, BindResident
  PROVE  StreamInv' /\ PoolInv'
<1> DEFINE c == query.columns[Len(bound) + 1]
<1>1. /\ at = "bind" /\ Len(bound) < Len(query.columns)
      /\ UNCHANGED <<query, at, answer, slot, got>>
  BY DEF BindResident, host, stream
<1>2. PICK refused \in Fault("alloc") :
        LET l == Lookup(c, refused)
            a == IF l.buffer # None THEN l
                 ELSE AllocPooled(l.m, <<"agg", c>>, column[c].rows, Rows(c, 0), refused)
        IN  /\ memory' = a.m /\ bound' = Append(bound, a.buffer)
            /\ column' = IF a.buffer = None \/ l.buffer # None THEN column
                         ELSE [column EXCEPT ![c] = [column[c] EXCEPT
                                !.agg_generation = column[c].write_generation,
                                !.agg_buffer = MadeOf(a.m, <<"agg", c>>)]]
  BY ZenonT(60) DEF BindResident
<1>c. c = query.columns[Len(bound) + 1]
  OBVIOUS
<1> HIDE DEF c
<1> PICK name : name = <<"agg", c>>
  OBVIOUS
<1> PICK data : data = Rows(c, 0)
  OBVIOUS
<1>3. c \in ScanColumns /\ memory \in Memories /\ column \in [ScanColumns -> ColumnStates]
  BY <1>1, <1>c, NextBound DEF ScanInv, ScanTypes
<1>4. /\ column[c].write_generation \in Nat /\ column[c].rows \in Nat
      /\ column[c] \in ColumnStates
  BY <1>3, ColumnTypes DEF ScanInv
<1>5. /\ data \in Contents \cup {None} /\ data # None /\ data = RowsAt(column, c, 0)
      /\ data = <<c, column[c].write_generation, 0>>
  <2>1. data \in Contents /\ data = RowsAt(column, c, 0) /\ data = <<c, column[c].write_generation, 0>>
    BY <1>3, <1>4 DEF Rows, Contents, RowsAt
  <2> QED BY <2>1, Constants
<1>6. name \in PoolNames /\ refused \in BOOLEAN
  BY <1>2, <1>3, FaultFacts DEF PoolNames
<1> PICK l : l = Lookup(c, refused)
  OBVIOUS
<1> PICK k : k = column[c].rows
  OBVIOUS
<1> PICK p : p = AllocPooled(l.m, name, k, data, refused)
  OBVIOUS
<1>7. /\ l.m \in Memories /\ Apart(l.m) /\ Serves(memory, l.m) /\ Retains(memory, l.m, {name})
      /\ NamesInv(l.m) /\ AggHolds(l.m, column[c], c) /\ l.buffer \in Buffers \cup {None}
      /\ l.buffer # None => BufferRight(l.m, l.buffer, c, RowsAt(column, c, 0))
  BY <1>3, <1>6, LookupRight DEF Looked
<1>8. /\ UploadFits(memory, column[c], c)
      /\ column[c].upload_generation <= column[c].write_generation
  BY <1>3 DEF PoolInv, PoolRight
<1>9. \A n : Retains(memory, n, {name}) => UploadFits(n, column[c], c)
  <2> SUFFICES ASSUME NEW n, Retains(memory, n, {name}) PROVE UploadFits(n, column[c], c)
    OBVIOUS
  <2> PICK T, m, r : T = {name} /\ m = memory /\ r = column[c]
    OBVIOUS
  <2>1. PoolName(c) \notin T
    BY DEF PoolName
  <2>2. PoolKeeps(m, n, T) /\ UploadFits(m, r, c)
    BY <1>8, RetainsPool
  <2>3. UploadFits(n, r, c)
    BY ONLY <2>1, <2>2, UploadStays
  <2> QED BY <2>3
<1>10. name \in {PoolName(c), <<"agg", c>>}
  OBVIOUS
<1>11. CASE l.buffer # None
  <2>1. memory' = l.m /\ bound' = Append(bound, l.buffer) /\ column' = column
    BY <1>2, <1>11
  <2>2. Retains(memory, memory', {name}) /\ UploadFits(memory', column[c], c)
    BY <1>7, <1>9, <2>1
  <2>3. PoolKeeps(memory, memory', {name}) /\ memory'.epoch = memory.epoch
    BY <2>2, RetainsPool
  <2>4. Bound(c, l.buffer, {name})
    BY <1>7, <1>8, <1>10, <1>11, <2>1, <2>2, <2>3 DEF Bound
  <2> QED BY <1>1, <2>2, <2>4, <1>c, BindSteps
<1>12. CASE l.buffer = None
  <2>1. /\ memory' = p.m /\ bound' = Append(bound, p.buffer)
        /\ column' = IF p.buffer = None THEN column
                     ELSE [column EXCEPT ![c] = [column[c] EXCEPT
                             !.agg_generation = column[c].write_generation,
                             !.agg_buffer = MadeOf(p.m, name)]]
    BY <1>2, <1>12
  <2> PICK m : m = l.m
    OBVIOUS
  <2>2. /\ Retains(m, p.m, {name}) /\ NamesInv(p.m) /\ Given(m, p, name, k, data)
        /\ m \in Memories /\ AggHolds(m, column[c], c)
    BY <1>4, <1>5, <1>6, <1>7, PooledFacts
  <2>3. Serves(l.m, p.m) /\ p.buffer \in Buffers \cup {None}
    BY <1>4, <1>5, <1>6, <1>7, PooledServes
  <2>4. p.m \in Memories /\ p.m.epoch = m.epoch
    BY <2>2, <2>3, RetainsPool DEF Serves
  <2>5. Retains(memory, p.m, {name})
    BY <1>3, <1>7, <2>2, RetainsTwice
  <2>6. PoolKeeps(memory, p.m, {name}) /\ p.m.epoch = memory.epoch /\ UploadFits(p.m, column[c], c)
    BY <1>9, <2>5, RetainsPool
  <2>7. ASSUME p.buffer # None PROVE BufferRight(p.m, p.buffer, c, RowsAt(column, c, 0))
    <3>1. p.m.content[p.buffer] = data
      BY <1>5, <2>2, <2>7 DEF Given
    <3>2. BufferRight(p.m, p.buffer, c, p.m.content[p.buffer])
      BY ONLY <1>10, <2>2, <2>4, <2>7, GivenFacts
    <3> QED BY <1>5, <3>1, <3>2
  <2>8. CASE p.buffer = None
    <3>1. column' = column
      BY <2>1, <2>8
    <3>2. AggHolds(p.m, column[c], c)
      <4> PICK r : r = column[c]
        OBVIOUS
      <4>1. /\ r.agg_buffer \in Nat \cup {None} /\ AggHolds(m, r, c) /\ name = <<"agg", c>>
            /\ data = None \/ p.buffer = None
        BY <1>4, <2>2, <2>8 DEF ColumnStates
      <4>2. AggHolds(p.m, r, c)
        BY ONLY <2>2, <2>4, <4>1, AggAgain
      <4> QED BY <4>2
    <3>3. Bound(c, p.buffer, {name})
      BY <1>8, <1>10, <2>1, <2>2, <2>3, <2>4, <2>6, <2>7, <3>1, <3>2 DEF Bound
    <3>4. Retains(memory, memory', {name})
      BY <2>1, <2>5
    <3> QED BY <1>1, <3>3, <3>4, <1>c, BindSteps
  <2>9. CASE p.buffer # None
    <3> PICK made : made = MadeOf(p.m, name)
      OBVIOUS
    <3>1. /\ \A d \in ScanColumns : d # c => column'[d] = column[d]
          /\ column'[c] = [column[c] EXCEPT !.agg_generation = column[c].write_generation,
                                            !.agg_buffer = made]
      BY <1>3, <2>1, <2>9
    <3>2. /\ column'[c].write_generation = column[c].write_generation
          /\ column'[c].upload_generation = column[c].upload_generation
          /\ column'[c].upload_rows = column[c].upload_rows
          /\ column'[c].agg_generation = column[c].write_generation
          /\ column'[c].agg_buffer = made
      BY <1>4, <3>1 DEF ColumnStates
    <3>3. UploadFits(p.m, column'[c], c)
      <4> PICK r, q : r = column'[c] /\ q = column[c]
        OBVIOUS
      <4>1. /\ UploadFits(p.m, q, c) /\ r.upload_generation = q.upload_generation
            /\ r.write_generation = q.write_generation /\ r.upload_rows = q.upload_rows
        BY <2>6, <3>2
      <4>2. UploadFits(p.m, r, c)
        BY ONLY <4>1, UploadSame
      <4> QED BY <4>2
    <3>4. AggHolds(p.m, column'[c], c)
      <4> PICK r : r = column'[c]
        OBVIOUS
      <4>1. r.agg_buffer = MadeOf(p.m, name) /\ data = <<c, r.agg_generation, 0>> /\ data # None
        BY <1>5, <3>2
      <4>2. AggHolds(p.m, r, c)
        BY <2>2, <2>4, <2>9, <4>1, AggAnew
      <4> QED BY <4>2
    <3>5. Bound(c, p.buffer, {name})
      BY <1>8, <1>10, <2>1, <2>2, <2>3, <2>4, <2>6, <2>7, <3>1, <3>2, <3>3, <3>4 DEF Bound
    <3>6. Retains(memory, memory', {name})
      BY <2>1, <2>5
    <3> QED BY <1>1, <3>5, <3>6, <1>c, BindSteps
  <2> QED BY <2>8, <2>9
<1> QED BY <1>11, <1>12

(* One batch over what was bound.                                          *)
LEMMA RunWholeRight ==
  ASSUME ScanInv, StreamInv, PoolInv, RunWhole
  PROVE  StreamInv' /\ PoolInv' /\ AnswerRight'
<1> DEFINE missing == None \in {bound[i] : i \in DOMAIN bound}
<1> PICK r : r = [chunk |-> 0, rows |-> [i \in DOMAIN bound |-> memory.content[bound[i]]]]
  OBVIOUS
<1>1. /\ at = "bind" /\ Len(bound) = Len(query.columns) /\ at' = "idle"
      /\ results' = IF missing THEN <<>> ELSE <<r>>
      /\ memory' = [memory EXCEPT !.failed = @ \/ missing]
      /\ answer' = IF memory.failed \/ missing THEN "failed" ELSE "rows"
      /\ UNCHANGED <<column, query, slot, got>>
  BY DEF RunWhole, stream
<1>2. /\ memory \in Memories /\ query'.columns \in Seq(ScanColumns)
      /\ query.columns \in Seq(ScanColumns) /\ bound \in Seq(Buffers \cup {None})
  BY <1>1 DEF ScanInv, ScanTypes
<1>3. PICK failed \in BOOLEAN : memory' = [memory EXCEPT !.failed = failed]
  <2>1. (memory.failed \/ missing) \in BOOLEAN
    OBVIOUS
  <2>2. memory' = [memory EXCEPT !.failed = (memory.failed \/ missing)]
    BY <1>1, Zenon
  <2> HIDE DEF missing
  <2> QED BY <2>1, <2>2, Zenon
<1>4. PoolInv'
  <2>1. PoolKeeps(memory, memory', {})
    <3>1. memory.epoch \in Nat
      BY <1>2, MemoryFacts
    <3> QED BY <1>2, <1>3, <3>1, FailedPool
  <2> QED BY <1>1, <1>2, <2>1, PoolStep
<1>5. StreamInv'
  <2>1. memory'.content = memory.content /\ memory'.cache = memory.cache
    BY <1>2, <1>3 DEF Memories
  <2>2. CacheRight(memory')
    BY <2>1 DEF StreamInv, CacheRight
  <2> QED BY <1>1, <2>2, RestingKeeps
<1>6. ASSUME answer' = "rows" PROVE AnswerRight'
  <2>1. ~ missing /\ results' = <<r>>
    BY <1>1, <1>6
  <2>2. \A i \in DOMAIN bound : bound[i] # None
    BY <2>1
  <2>3. DOMAIN bound = DOMAIN query.columns
    BY <1>1, <1>2
  <2>4. \A i \in DOMAIN bound : memory.content[bound[i]] = Rows(query.columns[i], 0)
    BY <1>1, <2>2 DEF PoolInv, BoundRight, BufferRight, RowsAt, Rows
  <2>5. r.chunk = 0 /\ DOMAIN r.rows = DOMAIN bound
        /\ \A i \in DOMAIN r.rows : r.rows[i] = Rows(query.columns[i], r.chunk)
    BY <2>4
  <2>6. RightRows(r)'
    BY <1>1, <2>5 DEF RightRows, Rows
  <2> HIDE DEF missing
  <2>7. Asked' = <<0>>
    BY <1>1 DEF StreamInv, QueryInv, Asked
  <2>8. /\ DOMAIN results' = {1} /\ Len(results') = 1 /\ results'[1] = r
    BY <2>1
  <2>9. ChunksOf(results)' = <<0>>
    <3>1. ChunksOf(results)' = [i \in {1} |-> results'[i].chunk]
      BY <2>8 DEF ChunksOf
    <3>2. ChunksOf(results)' = [i \in {1} |-> 0]
      BY <2>5, <2>8, <3>1
    <3> QED BY <3>2
  <2>10. \A i \in DOMAIN results' : RightRows(results[i])'
    BY <2>6, <2>8 DEF RightRows, Rows
  <2>11. {results'[i].chunk : i \in DOMAIN results'} = {0}
    BY <2>5, <2>8
  <2>12. DOMAIN Asked' = {1} /\ Asked'[1] = 0 /\ Len(Asked') = 1
    BY <2>7
  <2>13. {Asked'[i] : i \in DOMAIN Asked'} = {0}
    BY <2>12
  <2> QED BY <2>7, <2>8, <2>9, <2>10, <2>11, <2>12, <2>13 DEF AnswerRight
<1>7. ASSUME answer' # "rows" PROVE AnswerRight'
  BY <1>7 DEF AnswerRight
<1> QED BY <1>4, <1>5, <1>6, <1>7

-------------------------------------------------------------------------------
(* Every answer is of the rows as they are                                 *)

(* What holds of a query at each of its steps: the ownership of the buffers, *)
(* what a stream has read and will read, what the pool has under each name,  *)
(* and with them the answer itself.                                        *)
AnswerInv == ScanInv /\ StreamInv /\ PoolInv /\ AnswerRight

LEMMA AnswersInit == ScanInit => AnswerInv
<1> SUFFICES ASSUME ScanInit PROVE AnswerInv
  OBVIOUS
<1>1. ScanInv
  BY InitHolds
<1>2. /\ at = "idle" /\ answer = "none" /\ memory = EmptyMemory /\ query = NoQuery
      /\ got = [s \in SlotIds |-> <<>>] /\ slot = [s \in SlotIds |-> IdleSlot]
      /\ \A c \in ScanColumns : /\ column[c].write_generation = 1 /\ column[c].upload_generation = 0
                                /\ column[c].agg_buffer = None
  BY DEF ScanInit
<1>3. ~ Going
  BY <1>2 DEF Going
<1>4. SlotsInv /\ PlaceInv /\ ResultsInv
  BY <1>3 DEF SlotsInv, PlaceInv, ResultsInv
<1>5. query.columns = <<>> /\ query.chunks = <<>>
  BY <1>2 DEF NoQuery
<1>6. QueryInv
  BY <1>2, <1>5 DEF QueryInv
<1>7. memory.cache = <<>> /\ memory.pool = <<>>
  BY <1>2 DEF EmptyMemory
<1>8. CacheRight(memory)
  BY <1>7 DEF CacheRight
<1>9. CopyInv
  <2>1. \A s \in SlotIds : slot[s].copies = {}
    BY <1>2 DEF IdleSlot
  <2> QED BY <2>1 DEF CopyInv
<1>10. StreamInv
  BY <1>2, <1>4, <1>6, <1>8, <1>9 DEF StreamInv, GotInv
<1>11. PoolInv
  <2>1. NamesInv(memory)
    BY <1>7 DEF NamesInv
  <2>2. \A c \in ScanColumns :
          /\ column[c].upload_generation <= column[c].write_generation
          /\ UploadFits(memory, column[c], c) /\ AggHolds(memory, column[c], c)
    BY <1>2 DEF UploadFits, AggHolds
  <2> QED BY <1>2, <2>1, <2>2 DEF PoolInv, PoolRight
<1> QED BY <1>1, <1>2, <1>10, <1>11 DEF AnswerInv, AnswerRight

(* A step of something else.                                               *)
LEMMA AnswersIdle ==
  ASSUME AnswerInv, UNCHANGED scan_vars
  PROVE  StreamInv' /\ PoolInv' /\ AnswerRight'
<1> USE DEF AnswerInv, StreamInv
<1>1. UNCHANGED <<memory, column, query, at, next, ok, deferred, slot, work, got, results, bound, answer>>
  BY Zenon DEF scan_vars, host, stream
<1>2. SlotCount' = SlotCount /\ QueryChunks' = QueryChunks
  BY <1>1 DEF SlotCount, QueryChunks
<1>3. Collected' = Collected /\ Launched' = Launched /\ Going' = Going
  BY <1>1, <1>2 DEF Collected, Launched, Behind, Turn, Going
<1>4. QueryInv' /\ GotInv'
  BY <1>1 DEF QueryInv, GotInv, SlotIds
<1>5. CacheRight(memory') /\ CopyInv'
  BY <1>1, MemorySame
<1>6. SlotsInv' /\ PlaceInv' /\ ResultsInv'
  <2>1. CASE Going
    <3>1. SlotsInv'
      <4>1. ASSUME NEW s \in SlotIds PROVE SlotGood(s)'
        BY <1>1, <2>1, UntouchedGood DEF SlotsInv
      <4> QED BY <4>1 DEF SlotsInv, SlotIds
    <3>2. PlaceInv'
      <4>1. at # "drain" \/ next <= SlotCount
        BY <2>1 DEF PlaceInv
      <4> QED BY <1>1, <1>2, <1>3, <2>1, <4>1, PlacesSame DEF ScanInv
    <3>3. ResultsInv'
      <4>1. Done' = Done
        BY <1>1 DEF Done, SlotIds
      <4> QED BY <1>1, <1>3, <2>1, <4>1, ResultsSame
    <3> QED BY <3>1, <3>2, <3>3
  <2>2. CASE ~ Going
    BY <1>3, <2>2, StoppedKeeps
  <2> QED BY <2>1, <2>2
<1>7. PoolInv'
  BY <1>1 DEF PoolInv
<1>8. AnswerRight'
  <2>1. Asked' = Asked /\ ChunksOf(results)' = ChunksOf(results)
    BY <1>1 DEF Asked, ChunksOf
  <2>2. \A r : RightRows(r)' = RightRows(r)
    BY <1>1 DEF RightRows, Rows
  <2> QED BY <1>1, <2>1, <2>2 DEF AnswerRight
<1> QED BY <1>4, <1>5, <1>6, <1>7, <1>8

(* While a query runs, and after a write, there is no answer to be wrong.    *)
LEMMA NoAnswer == ASSUME answer' = "none" PROVE AnswerRight'
BY DEF AnswerRight

(* One case for each action of ScanNext.                                   *)
LEMMA AnswersStep ==
  ASSUME SameName = {}, "forgotten" \notin Histories, AnswerInv, [ScanNext]_scan_vars
  PROVE  AnswerInv'
<1> USE DEF AnswerInv
<1>1. ScanInv'
  BY StepKeeps
<1> SUFFICES StreamInv' /\ PoolInv' /\ AnswerRight'
  BY <1>1
<1>2. CASE BeginScan \/ BeginAll \/ BeginWhole \/ BeginResident
  BY <1>1, <1>2, StreamBegin, PoolOfQuery, NoAnswer
<1>3. ASSUME NEW c \in ScanColumns, Write(c) PROVE StreamInv' /\ PoolInv' /\ AnswerRight'
  BY <1>3, StreamWrite, PoolOfWrite, NoAnswer
<1>4. CASE \/ RetireNothing \/ Retire \/ RetireOverflow \/ Prepare \/ Launch \/ SubmitLast
           \/ WaitOnly
  <2>1. StreamInv'
    BY <1>4, StreamRetireNothing, StreamRetire, StreamRetireOverflow, StreamPrepare, StreamLaunch,
       StreamSubmitLast, StreamWaitOnly
  <2>2. PoolInv'
    BY <1>1, <1>4, PoolOfStream
  <2>3. answer' = "none"
    BY <1>4, NoAnswerYet
  <2> QED BY <2>1, <2>2, <2>3, NoAnswer
<1>5. CASE EndStream
  BY <1>1, <1>5, StreamEnds, PoolOfStream
<1>6. CASE BindWhole
  BY <1>6, BindWholeRight, NoAnswerYet, NoAnswer
<1>7. CASE BindResident
  BY <1>7, BindResidentRight, NoAnswerYet, NoAnswer
<1>8. CASE RunWhole
  BY <1>8, RunWholeRight
<1>9. ASSUME NEW s \in SlotIds, DeviceCopy(s) \/ DeviceKernel(s)
      PROVE  StreamInv' /\ PoolInv' /\ AnswerRight'
  <2>1. StreamInv'
    BY <1>9, StreamCopy, StreamKernel
  <2>2. PoolInv' /\ answer' = "none"
    BY <1>1, <1>9, PoolOfDevice
  <2> QED BY <2>1, <2>2, NoAnswer
<1>10. CASE UNCHANGED scan_vars
  BY <1>10, AnswersIdle
<1> QED
  BY <1>2, <1>3, <1>4, <1>5, <1>6, <1>7, <1>8, <1>9, <1>10 DEF ScanNext, Host, Device

(* A query that ends with an answer read every chunk it was asked for, once,  *)
(* and of each column the rows of its last write: no buffer was reused,      *)
(* evicted or overwritten between its filling and the kernel, no chunk was   *)
(* found in the cache for rows written over since, and no slot of the ring    *)
(* was collected twice or not at all.  So it is for every number of slots,   *)
(* columns and chunks, if no two columns share a pool name and no column is   *)
(* bound whose buffer is gone (qe_scan_filter_streamed,                      *)
(* qe_stream_slot_retire, qe_resident_acquire, gpu_buffer_alloc_pooled).      *)
THEOREM AnswersAreRight ==
  ASSUME SameName = {}, "forgotten" \notin Histories
  PROVE  ScanSpec => []AnswerRight
<1>1. AnswerInv /\ [ScanNext]_scan_vars => AnswerInv'
  BY AnswersStep
<1>2. AnswerInv => AnswerRight
  BY DEF AnswerInv
<1> QED BY <1>1, <1>2, AnswersInit, PTL DEF ScanSpec

===============================================================================
