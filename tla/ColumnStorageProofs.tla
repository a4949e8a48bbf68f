-------------------------- MODULE ColumnStorageProofs --------------------------
(***************************************************************************)
(* Proofs about the storage of a column, for any values, any number of rows *)
(* and any thresholds, over the histories in which no row is appended to a  *)
(* column that was loaded from its file and read since, and in which the    *)
(* process ends neither between a removal and the save after it nor inside  *)
(* of a save (Allowed).  The argument: the rows of the last save stay where *)
(* the next load finds them, because until a removal the file is only       *)
(* written behind them; and a save is only refused after a removal, so one  *)
(* that was refused is not loaded.                                         *)
(***************************************************************************)
EXTENDS ColumnStorage, SequenceTheorems, TLAPS

Cells == Values \cup {Junk}

TypeInv ==
  /\ row_count \in Nat /\ row_count <= MaxRows
  /\ data \in Seq(Cells) /\ dat \in Seq(Cells)
  /\ is_disk_backed \in BOOLEAN
  /\ file \in {"none", "rw", "ro"}
  /\ pending \in Seq(Values)
  /\ file_map \in Int
  /\ view \in [min : Nat, max : Int]
  /\ leaked \in BOOLEAN
  /\ meta \in [row_count : Nat, capacity : Nat]
  /\ saving \in {"no", "data", "write"}
  /\ unsaved \subseteq {"append", "remove"}
  /\ saved \in Seq(Values)

(* The rows that are not pending.                                          *)
Written_count == row_count - Len(pending)

(* Where the rows of a column in memory are.                               *)
MemoryInv ==
  ~is_disk_backed =>
    /\ pending = <<>> /\ file_map = NoMap
    /\ row_count <= Len(data)
    /\ \A j \in 1 .. row_count : data[j] \in Values

(* Where those of a disk backed one are.                                   *)
DiskInv ==
  is_disk_backed =>
    /\ Written_count \in 0 .. Len(dat)
    /\ \A j \in 1 .. Written_count : dat[j] \in Values
    /\ file = "ro" => pending = <<>>
    /\ file_map \in {NoMap, Len(dat)}
    /\ Len(dat) > Threshold

(* What the next load finds.                                               *)
SavedInv ==
  /\ Len(saved) <= MaxRows
  /\ saving # "no" => meta.row_count = row_count /\ meta.capacity = Len(data)
  /\ saving = "no" /\ "remove" \notin unsaved =>
       /\ meta.row_count = Len(saved)
       /\ Len(dat) > Threshold \/ meta.row_count <= meta.capacity
  /\ "remove" \notin unsaved =>
       /\ Len(saved) <= Written_count
       /\ ~is_disk_backed => \A j \in 1 .. Len(saved) : data[j] = saved[j]
       /\ saving # "write" => /\ Len(saved) <= Len(dat)
                              /\ \A j \in 1 .. Len(saved) : dat[j] = saved[j]
  /\ unsaved = {} => row_count = Len(saved) /\ pending = <<>>

(* Which save may be refused, and which file is truncated.                 *)
SavingInv ==
  /\ ~is_disk_backed /\ leaked => "remove" \in unsaved
  /\ saving = "write" => ~is_disk_backed /\ ~leaked

IInv == TypeInv /\ MemoryInv /\ DiskInv /\ SavedInv /\ SavingInv

(* The row j of the column, from where it is.                              *)
Row(j) ==
  IF ~is_disk_backed THEN data[j]
  ELSE IF j <= Written_count THEN dat[j] ELSE pending[j - Written_count]

-------------------------------------------------------------------------------
(* Sequences of cells                                                      *)

LEMMA Sizes == Threshold \in Nat /\ MaxRows \in Nat
BY ColumnStorageAssumption

LEMMA UptoFacts ==
  ASSUME NEW s \in Seq(Cells), NEW n \in Nat
  PROVE  /\ Upto(s, n) \in Seq(Cells)
         /\ Len(Upto(s, n)) = n
         /\ \A j \in 1 .. n : Upto(s, n)[j] = IF j <= Len(s) THEN s[j] ELSE Junk
BY DEF Upto, Cells

LEMMA WrittenFacts ==
  ASSUME NEW f \in Seq(Cells), NEW offset \in 0 .. Len(f), NEW s \in Seq(Cells)
  PROVE  /\ Written(f, offset, s) \in Seq(Cells)
         /\ Len(Written(f, offset, s)) = AtLeast(Len(f), offset + Len(s))
         /\ \A j \in 1 .. Len(f) :
              (j <= offset \/ offset + Len(s) < j) => Written(f, offset, s)[j] = f[j]
         /\ \A j \in 1 .. Len(s) : Written(f, offset, s)[offset + j] = s[j]
<1> DEFINE n == AtLeast(Len(f), offset + Len(s))
<1>1. n \in Nat /\ Len(f) <= n /\ offset + Len(s) <= n /\ offset \in Nat
  BY DEF AtLeast
<1>2. \A j \in 1 .. n :
        (IF offset < j /\ j <= offset + Len(s) THEN s[j - offset]
         ELSE IF j <= Len(f) THEN f[j] ELSE Junk) \in Cells
  BY <1>1 DEF Cells
<1>3. Written(f, offset, s) = [j \in 1 .. n |->
        IF offset < j /\ j <= offset + Len(s) THEN s[j - offset]
        ELSE IF j <= Len(f) THEN f[j] ELSE Junk]
  BY DEF Written
<1> HIDE DEF n
<1>4. Written(f, offset, s) \in Seq(Cells) /\ Len(Written(f, offset, s)) = n
  BY <1>1, <1>2, <1>3
<1>5. \A j \in 1 .. Len(f) :
        (j <= offset \/ offset + Len(s) < j) => Written(f, offset, s)[j] = f[j]
  BY <1>1, <1>3
<1>6. \A j \in 1 .. Len(s) : Written(f, offset, s)[offset + j] = s[j]
  <2> TAKE j \in 1 .. Len(s)
  <2>1. offset + j \in 1 .. n /\ offset < offset + j /\ offset + j <= offset + Len(s)
    BY <1>1
  <2>2. (offset + j) - offset = j
    BY <1>1
  <2> QED BY <1>3, <2>1, <2>2
<1> QED BY <1>4, <1>5, <1>6 DEF n

(* The rows of the column are those Row finds one by one.                  *)
LEMMA ContentsFacts ==
  ASSUME IInv
  PROVE  /\ Contents \in Seq(Values)
         /\ Len(Contents) = row_count
         /\ \A j \in 1 .. row_count : Contents[j] = Row(j)
<1>1. CASE ~is_disk_backed
  <2>1. /\ row_count \in Nat /\ data \in Seq(Cells) /\ row_count <= Len(data)
        /\ \A j \in 1 .. row_count : data[j] \in Values
    BY <1>1 DEF IInv, TypeInv, MemoryInv
  <2>2. Contents = Upto(data, row_count)
    BY <1>1 DEF Contents
  <2>3. Contents = [j \in 1 .. row_count |-> data[j]]
    BY <2>1, <2>2 DEF Upto
  <2> QED BY <1>1, <2>1, <2>3 DEF Row
<1>2. CASE is_disk_backed
  <2> DEFINE w == Written_count
             front == Upto(dat, w)
  <2>1. /\ row_count \in Nat /\ dat \in Seq(Cells) /\ pending \in Seq(Values)
        /\ w \in 0 .. Len(dat) /\ w = row_count - Len(pending)
        /\ \A j \in 1 .. w : dat[j] \in Values
    BY <1>2 DEF IInv, TypeInv, DiskInv, Written_count
  <2>2. Contents = front \o pending
    BY <1>2 DEF Contents, Written_count
  <2> HIDE DEF w
  <2>3. front = [j \in 1 .. w |-> dat[j]]
    BY <2>1 DEF Upto
  <2> HIDE DEF front
  <2>4. front \in Seq(Values) /\ Len(front) = w /\ \A j \in 1 .. w : front[j] = dat[j]
    BY <2>1, <2>3
  <2>5. /\ Contents \in Seq(Values)
        /\ Len(Contents) = w + Len(pending)
        /\ \A j \in 1 .. w + Len(pending) :
             Contents[j] = IF j <= w THEN front[j] ELSE pending[j - w]
    BY <2>1, <2>2, <2>4, ConcatProperties
  <2>6. \A j \in 1 .. row_count : Contents[j] = Row(j)
    <3> TAKE j \in 1 .. row_count
    <3>1. j \in 1 .. w + Len(pending) /\ w \in Nat /\ Len(pending) \in Nat
      BY <2>1
    <3>2. Contents[j] = IF j <= w THEN dat[j] ELSE pending[j - w]
      BY <2>4, <2>5, <3>1
    <3> QED BY <1>2, <3>2 DEF Row, w
  <2> QED BY <2>1, <2>5, <2>6
<1> QED BY <1>1, <1>2

(* A flush leaves in the file the rows of the column, one after the other.  *)
LEMMA FlushedFacts ==
  ASSUME IInv
  PROVE  /\ Flushed \in Seq(Cells) /\ Len(dat) <= Len(Flushed)
         /\ pending = <<>> => Flushed = dat
         /\ is_disk_backed => /\ row_count <= Len(Flushed)
                              /\ \A j \in 1 .. row_count : Flushed[j] = Row(j)
         /\ \A j \in 1 .. Written_count : j <= Len(dat) => Flushed[j] = dat[j]
<1>1. CASE ~is_disk_backed
  <2>1. pending = <<>> /\ dat \in Seq(Cells)
    BY <1>1 DEF IInv, TypeInv, MemoryInv
  <2>2. Flushed = dat
    BY <2>1 DEF Flushed
  <2> QED BY <1>1, <2>1, <2>2
<1>2. CASE is_disk_backed
  <2> DEFINE w == Written_count
  <2>1. /\ row_count \in Nat /\ dat \in Seq(Cells) /\ pending \in Seq(Values)
        /\ w \in 0 .. Len(dat) /\ w = row_count - Len(pending)
        /\ file = "ro" => pending = <<>>
    BY <1>2 DEF IInv, TypeInv, DiskInv, Written_count
  <2>2. CASE pending = <<>>
    <3>1. Flushed = dat /\ w = row_count
      BY <2>1, <2>2 DEF Flushed
    <3>2. \A j \in 1 .. row_count : Row(j) = dat[j]
      BY <1>2, <2>1, <3>1 DEF Row
    <3> QED BY <2>1, <3>1, <3>2 DEF w
  <2>3. CASE pending # <<>>
    <3>1. Flushed = Written(dat, w, pending)
      BY <2>1, <2>3 DEF Flushed, Written_count
    <3>2. pending \in Seq(Cells) /\ Len(pending) \in Nat
      BY <2>1 DEF Cells
    <3> HIDE DEF w
    <3>3. /\ Flushed \in Seq(Cells)
          /\ Len(Flushed) = AtLeast(Len(dat), w + Len(pending))
          /\ \A j \in 1 .. Len(dat) : (j <= w \/ w + Len(pending) < j) => Flushed[j] = dat[j]
          /\ \A j \in 1 .. Len(pending) : Flushed[w + j] = pending[j]
      <4> DEFINE f == Written(dat, w, pending)
      <4>1. dat \in Seq(Cells) /\ w \in 0 .. Len(dat) /\ pending \in Seq(Cells)
        BY <2>1, <3>2
      <4>2. /\ f \in Seq(Cells)
            /\ Len(f) = AtLeast(Len(dat), w + Len(pending))
            /\ \A j \in 1 .. Len(dat) : (j <= w \/ w + Len(pending) < j) => f[j] = dat[j]
            /\ \A j \in 1 .. Len(pending) : f[w + j] = pending[j]
        BY <4>1, WrittenFacts
      <4> HIDE DEF f
      <4>3. Flushed = f
        BY <3>1 DEF f
      <4> QED BY <4>2, <4>3
    <3>4. Len(dat) <= Len(Flushed) /\ row_count <= Len(Flushed)
      BY <2>1, <3>2, <3>3 DEF AtLeast
    <3>5. \A j \in 1 .. row_count : Flushed[j] = Row(j)
      <4> TAKE j \in 1 .. row_count
      <4>1. CASE j <= w
        BY <1>2, <2>1, <3>3, <4>1 DEF Row, w
      <4>2. CASE ~(j <= w)
        <5>1. j - w \in 1 .. Len(pending) /\ w + (j - w) = j
          BY <2>1, <4>2
        <5>2. Flushed[j] = pending[j - w]
          BY <3>3, <5>1
        <5> QED BY <1>2, <4>2, <5>2 DEF Row, w
      <4> QED BY <4>1, <4>2
    <3>6. \A j \in 1 .. w : j <= Len(dat) => Flushed[j] = dat[j]
      BY <2>1, <3>3
    <3> QED BY <2>3, <3>3, <3>4, <3>5, <3>6 DEF w
  <2> QED BY <2>2, <2>3
<1> QED BY <1>1, <1>2

(* Contents and Row agree.                                                 *)
RowByRow ==
  /\ Contents \in Seq(Values)
  /\ Len(Contents) = row_count
  /\ \A j \in 1 .. row_count : Contents[j] = Row(j)

LEMMA Rows == IInv => RowByRow
BY ContentsFacts DEF RowByRow

LEMMA RowsNext == IInv' => RowByRow'
BY Rows, PTL

LEMMA RowType ==
  ASSUME IInv, NEW j \in 1 .. row_count
  PROVE  Row(j) \in Values
BY ContentsFacts, ElementOfSeq

-------------------------------------------------------------------------------
(* Each operation keeps the invariant and does to the rows what it promises.*)

Room     == IF row_count = Len(data) THEN Upto(data, GrownCapacity) ELSE data
Added(v) == [Room EXCEPT ![row_count + 1] = v]

LEMMA AddedFacts ==
  ASSUME IInv, ~is_disk_backed, NEW v \in Values
  PROVE  /\ Added(v) \in Seq(Cells) /\ row_count + 1 <= Len(Added(v))
         /\ \A j \in 1 .. row_count : Added(v)[j] = data[j]
         /\ Added(v)[row_count + 1] = v
<1>1. row_count \in Nat /\ data \in Seq(Cells) /\ Len(data) \in Nat /\ row_count <= Len(data)
  BY DEF IInv, TypeInv, MemoryInv
<1>2. GrownCapacity \in Nat /\ Len(data) < GrownCapacity
  <2> DEFINE c == Len(data)
             twice == IF c > 0 THEN c * 2 ELSE ExpandCount
  <2>1. c \in Nat /\ MaxGrow \in Nat \ {0} /\ ExpandCount \in Nat \ {0}
    BY <1>1, ColumnStorageAssumption
  <2> HIDE DEF c
  <2>2. twice \in Nat /\ c < twice
    BY <2>1
  <2> HIDE DEF twice
  <2>3. AtMost(twice, c + MaxGrow) \in Nat /\ c < AtMost(twice, c + MaxGrow)
    BY <2>1, <2>2 DEF AtMost
  <2> QED BY <2>3 DEF GrownCapacity, c, twice
<1>3. /\ Room \in Seq(Cells) /\ row_count + 1 <= Len(Room)
      /\ \A j \in 1 .. row_count : Room[j] = data[j]
  <2>1. CASE row_count = Len(data)
    <3>1. Room = Upto(data, GrownCapacity)
      BY <2>1 DEF Room
    <3>2. /\ Room \in Seq(Cells) /\ Len(Room) = GrownCapacity
          /\ \A j \in 1 .. GrownCapacity : Room[j] = IF j <= Len(data) THEN data[j] ELSE Junk
      BY <1>1, <1>2, <3>1, UptoFacts
    <3> QED BY <1>1, <1>2, <2>1, <3>2
  <2>2. CASE row_count # Len(data)
    BY <1>1, <2>2 DEF Room
  <2> QED BY <2>1, <2>2
<1>4. v \in Cells /\ row_count + 1 \in 1 .. Len(Room)
  BY <1>1, <1>3 DEF Cells
<1> HIDE DEF Room
<1> QED BY <1>1, <1>3, <1>4, ExceptSeq DEF Added

LEMMA AppendInMemoryKeeps ==
  ASSUME Allowed = {}, IInv, NEW v \in Values, AppendRow(v), ~is_disk_backed
  PROVE  /\ IInv'
         /\ \A j \in 1 .. row_count + 1 : Row(j)' = IF j <= row_count THEN Row(j) ELSE v
<1> DEFINE n == row_count
<1>1. /\ n \in Nat /\ dat \in Seq(Cells) /\ data \in Seq(Cells) /\ pending = <<>> /\ file_map = NoMap
      /\ \A j \in 1 .. n : data[j] \in Values
  BY DEF IInv, TypeInv, MemoryInv
<1>2. /\ n' = n + 1 /\ n + 1 <= MaxRows /\ unsaved' = unsaved \cup {"append"}
      /\ saving = "no" /\ UNCHANGED <<meta, saving, saved, pending, file_map, view, leaked>>
  BY ColumnStorageAssumption, <1>1 DEF AppendRow, AppendInMemory, AppendOnDisk
<1>3. /\ Added(v) \in Seq(Cells) /\ n + 1 <= Len(Added(v))
      /\ \A j \in 1 .. n : Added(v)[j] = data[j]
      /\ Added(v)[n + 1] = v
  BY AddedFacts
<1>4. \A j \in 1 .. n : Row(j) = data[j]
  BY DEF Row
<1>5. CASE n + 1 > Threshold
  <2> DEFINE s == Upto(Added(v), n + 1)
  <2>1. /\ dat' = Written(dat, 0, s) /\ is_disk_backed' = TRUE /\ file' = "rw" /\ data' = <<>>
    BY <1>5 DEF AppendRow, AppendInMemory, AppendOnDisk, Added, Room
  <2>2. /\ s \in Seq(Cells) /\ Len(s) = n + 1
        /\ \A j \in 1 .. n + 1 : s[j] = Added(v)[j]
    <3>1. n + 1 \in Nat
      BY <1>1
    <3>2. /\ s \in Seq(Cells) /\ Len(s) = n + 1
          /\ \A j \in 1 .. n + 1 : s[j] = IF j <= Len(Added(v)) THEN Added(v)[j] ELSE Junk
      BY <1>3, <3>1, UptoFacts
    <3> HIDE DEF s
    <3>3. \A j \in 1 .. n + 1 : j <= Len(Added(v))
      BY <1>1, <1>3
    <3> QED BY <3>2, <3>3
  <2> HIDE DEF s
  <2>3. /\ dat' \in Seq(Cells) /\ n + 1 <= Len(dat') /\ Len(dat') \in Nat /\ Len(dat) <= Len(dat')
        /\ \A j \in 1 .. n + 1 : dat'[0 + j] = s[j]
    <3>1. 0 \in 0 .. Len(dat) /\ Len(dat) \in Nat
      BY <1>1
    <3>2. /\ dat' \in Seq(Cells) /\ Len(dat') = AtLeast(Len(dat), 0 + Len(s))
          /\ \A j \in 1 .. Len(s) : dat'[0 + j] = s[j]
      BY <1>1, <2>1, <2>2, <3>1, WrittenFacts, ZenonT(60)
    <3> QED BY <1>1, <2>2, <3>1, <3>2 DEF AtLeast
  <2>4. \A j \in 1 .. n + 1 : dat'[j] = Added(v)[j]
    BY <2>2, <2>3
  <2>5. Written_count' = n + 1 /\ Written_count = n
    BY <1>1, <1>2 DEF Written_count
  <2>6. TypeInv'
    BY <1>1, <1>2, <2>1, <2>3 DEF IInv, TypeInv
  <2>7. MemoryInv'
    BY <2>1 DEF MemoryInv
  <2>8. DiskInv'
    <3>1. \A j \in 1 .. n + 1 : dat'[j] \in Values
      BY <1>1, <1>3, <2>4
    <3> QED BY <1>1, <1>2, <1>5, <2>1, <2>3, <2>5, <3>1, ColumnStorageAssumption DEF DiskInv
  <2>9. SavedInv'
    <3>1. Len(dat') > Threshold
      BY <1>1, <1>5, <2>3, ColumnStorageAssumption
    <3>2. ASSUME "remove" \notin unsaved'
          PROVE  /\ Len(saved) <= Len(dat') /\ Len(saved) <= n + 1
                 /\ \A j \in 1 .. Len(saved) : dat'[j] = saved[j]
      <4>1. Len(saved) <= n /\ \A j \in 1 .. Len(saved) : data[j] = saved[j]
        BY <1>2, <2>5, <3>2 DEF IInv, SavedInv
      <4>2. Len(saved) \in Nat /\ saved \in Seq(Values)
        BY DEF IInv, TypeInv
      <4>3. \A j \in 1 .. Len(saved) : dat'[j] = saved[j]
        <5> TAKE j \in 1 .. Len(saved)
        <5>1. j \in 1 .. n /\ j \in 1 .. n + 1
          BY <1>1, <4>1, <4>2
        <5>2. dat'[j] = Added(v)[j] /\ Added(v)[j] = data[j]
          BY <1>3, <2>4, <5>1
        <5> QED BY <4>1, <5>2
      <4> QED BY <1>1, <2>3, <4>1, <4>2, <4>3
    <3>3. Len(saved) <= MaxRows /\ ("remove" \notin unsaved => meta.row_count = Len(saved))
      BY <1>2 DEF IInv, SavedInv
    <3> QED BY <1>2, <2>1, <2>5, <3>1, <3>2, <3>3 DEF SavedInv
  <2>10. \A j \in 1 .. n + 1 : Row(j)' = Added(v)[j]
    BY <1>1, <2>1, <2>4, <2>5 DEF Row
  <2>11. IInv'
    <3>1. SavingInv'
      BY <1>2, <2>1 DEF SavingInv
    <3> QED BY <2>6, <2>7, <2>8, <2>9, <3>1 DEF IInv
  <2> QED BY <1>1, <1>3, <1>4, <2>10, <2>11
<1>6. CASE ~(n + 1 > Threshold)
  <2>1. data' = Added(v) /\ UNCHANGED <<dat, is_disk_backed, file>>
    BY <1>6 DEF AppendRow, AppendInMemory, AppendOnDisk, Added, Room
  <2>2. Written_count' = n + 1 /\ Written_count = n
    BY <1>1, <1>2 DEF Written_count
  <2>3. TypeInv'
    BY <1>1, <1>2, <1>3, <2>1 DEF IInv, TypeInv
  <2>4. MemoryInv'
    <3>1. \A j \in 1 .. n + 1 : data'[j] \in Values
      BY <1>1, <1>3, <2>1
    <3> QED BY <1>1, <1>2, <1>3, <2>1, <3>1 DEF MemoryInv
  <2>5. DiskInv'
    BY <2>1 DEF DiskInv
  <2>6. SavedInv'
    <3>1. ASSUME "remove" \notin unsaved'
          PROVE  /\ Len(saved) <= Len(dat) /\ Len(saved) <= n + 1
                 /\ \A j \in 1 .. Len(saved) : dat[j] = saved[j]
                 /\ \A j \in 1 .. Len(saved) : data'[j] = saved[j]
      <4>1. /\ Len(saved) <= n /\ \A j \in 1 .. Len(saved) : data[j] = saved[j]
            /\ Len(saved) <= Len(dat) /\ \A j \in 1 .. Len(saved) : dat[j] = saved[j]
        BY <1>2, <2>2, <3>1 DEF IInv, SavedInv
      <4>2. Len(saved) \in Nat /\ saved \in Seq(Values)
        BY DEF IInv, TypeInv
      <4> QED BY <1>1, <1>3, <2>1, <4>1, <4>2
    <3>2. /\ Len(saved) <= MaxRows
          /\ "remove" \notin unsaved =>
               /\ meta.row_count = Len(saved)
               /\ Len(dat) > Threshold \/ meta.row_count <= meta.capacity
      BY <1>2 DEF IInv, SavedInv
    <3> QED BY <1>2, <2>1, <2>2, <3>1, <3>2 DEF SavedInv
  <2>7. \A j \in 1 .. n + 1 : Row(j)' = Added(v)[j]
    BY <2>1 DEF Row
  <2>8. IInv'
    <3>1. SavingInv'
      BY <1>2, <2>1 DEF SavingInv, IInv
    <3> QED BY <2>3, <2>4, <2>5, <2>6, <3>1 DEF IInv
  <2> QED BY <1>1, <1>3, <1>4, <2>7, <2>8
<1> QED BY <1>5, <1>6

LEMMA AppendOnDiskKeeps ==
  ASSUME Allowed = {}, IInv, NEW v \in Values, AppendRow(v), is_disk_backed
  PROVE  /\ IInv'
         /\ \A j \in 1 .. row_count + 1 : Row(j)' = IF j <= row_count THEN Row(j) ELSE v
<1> DEFINE n == row_count
           w == Written_count
<1>1. /\ n \in Nat /\ dat \in Seq(Cells) /\ pending \in Seq(Values) /\ Len(pending) \in Nat
      /\ w \in 0 .. Len(dat) /\ w = n - Len(pending) /\ Len(dat) \in Nat /\ Len(dat) > Threshold
      /\ \A j \in 1 .. w : dat[j] \in Values
      /\ saved \in Seq(Values) /\ Len(saved) \in Nat /\ Len(saved) <= MaxRows
  BY DEF IInv, TypeInv, DiskInv, SavedInv, Written_count
<1>2. /\ n' = n + 1 /\ n + 1 <= MaxRows /\ unsaved' = unsaved \cup {"append"}
      /\ saving = "no" /\ UNCHANGED <<meta, saving, saved, data, is_disk_backed>>
      /\ file_map' = NoMap /\ view' = NoView /\ file # "ro" /\ leaked' \in BOOLEAN
  <2>1. AppendOnDisk(v)
    BY DEF AppendRow, AppendInMemory
  <2>2. /\ n' = n + 1 /\ n < MaxRows /\ unsaved' = unsaved \cup {"append"}
        /\ saving = "no" /\ UNCHANGED <<meta, saving, saved>> /\ file # "ro"
    BY DEF AppendRow
  <2>3. /\ UNCHANGED <<data, is_disk_backed>> /\ file_map' = NoMap /\ view' = NoView
        /\ leaked' \in LeakedByDrop
    BY <2>1 DEF AppendOnDisk
  <2>4. leaked' \in BOOLEAN
    BY <2>3 DEF LeakedByDrop, IInv, TypeInv
  <2> QED BY ColumnStorageAssumption, <1>1, <2>2, <2>3, <2>4
<1>3. "remove" \notin unsaved' =>
        /\ meta.row_count = Len(saved)
        /\ Len(saved) <= w /\ \A j \in 1 .. Len(saved) : dat[j] = saved[j]
  BY <1>2 DEF IInv, SavedInv
<1>6. SavingInv'
  BY <1>2 DEF SavingInv
<1>4. CASE Len(pending) + 1 > PendingCapacity
  <2>1. dat' = Flushed /\ file' = FlushHandle /\ pending' = <<v>>
    BY <1>4 DEF AppendRow, AppendInMemory, AppendOnDisk
  <2>2. /\ Flushed \in Seq(Cells) /\ Len(Flushed) \in Nat
        /\ Len(dat) <= Len(Flushed) /\ n <= Len(Flushed)
        /\ \A j \in 1 .. n : Flushed[j] = Row(j)
        /\ \A j \in 1 .. w : j <= Len(dat) => Flushed[j] = dat[j]
    BY FlushedFacts
  <2>3. pending' \in Seq(Values) /\ Len(pending') = 1 /\ pending'[1] = v
    BY <2>1
  <2>4. Written_count' = n
    BY <1>1, <1>2, <2>3 DEF Written_count
  <2>5. file' \in {"none", "rw"}
    BY <1>2, <2>1 DEF FlushHandle, IInv, TypeInv
  <2>6. TypeInv'
    BY <1>1, <1>2, <2>1, <2>2, <2>3, <2>5 DEF IInv, TypeInv, NoMap, NoView
  <2>7. MemoryInv' 
    BY <1>2 DEF MemoryInv
  <2>8. DiskInv'
    <3>1. \A j \in 1 .. n : dat'[j] \in Values
      BY <2>1, <2>2, RowType
    <3> QED BY <1>1, <1>2, <2>1, <2>2, <2>4, <2>5, <3>1, ColumnStorageAssumption DEF DiskInv
  <2>9. SavedInv'
    <3>1. ASSUME "remove" \notin unsaved'
          PROVE  /\ Len(saved) <= Len(dat') /\ Len(saved) <= n
                 /\ \A j \in 1 .. Len(saved) : dat'[j] = saved[j]
      <4>1. Len(saved) <= w /\ \A j \in 1 .. Len(saved) : dat[j] = saved[j]
        BY <1>3, <3>1, Zenon
      <4>2. Len(saved) <= Len(dat) /\ Len(saved) <= n
        BY <1>1, <4>1
      <4>3. Len(saved) <= Len(Flushed)
        BY <1>1, <2>2, <4>2
      <4>4. ASSUME NEW j \in 1 .. Len(saved)
            PROVE  Flushed[j] = saved[j]
        <5>1. j \in 1 .. w /\ j <= Len(dat)
          BY <1>1, <4>1, <4>2
        <5> QED BY <2>2, <4>1, <5>1, Zenon
      <4> QED BY <2>1, <4>2, <4>3, <4>4, Zenon
    <3>2. Len(dat') > Threshold
      BY <1>1, <2>1, <2>2, ColumnStorageAssumption
    <3> QED BY <1>1, <1>2, <1>3, <2>4, <3>1, <3>2 DEF SavedInv
  <2>10. \A j \in 1 .. n : Row(j)' = Row(j)
    BY <1>1, <1>2, <2>1, <2>2, <2>4 DEF Row
  <2>11. \A j \in 1 .. n + 1 : ~(j <= n) => Row(j)' = v
    <3> TAKE j \in 1 .. n + 1
    <3>1. HAVE ~(j <= n)
    <3>2. j = n + 1 /\ j - n = 1
      BY <1>1, <3>1
    <3> QED BY <1>2, <2>3, <2>4, <3>1, <3>2 DEF Row
  <2> QED BY <1>1, <1>6, <2>6, <2>7, <2>8, <2>9, <2>10, <2>11 DEF IInv
<1>5. CASE ~(Len(pending) + 1 > PendingCapacity)
  <2>1. pending' = Append(pending, v) /\ UNCHANGED <<dat, file>>
    BY <1>5 DEF AppendRow, AppendInMemory, AppendOnDisk
  <2>2. /\ pending' \in Seq(Values) /\ Len(pending') = Len(pending) + 1
        /\ \A j \in 1 .. Len(pending) : pending'[j] = pending[j]
        /\ pending'[Len(pending) + 1] = v
    BY <1>1, <2>1, AppendProperties
  <2>3. Written_count' = w
    BY <1>1, <1>2, <2>2 DEF Written_count
  <2>4. TypeInv'
    BY <1>1, <1>2, <2>1, <2>2 DEF IInv, TypeInv, NoMap, NoView
  <2>5. MemoryInv'
    BY <1>2 DEF MemoryInv
  <2>6. DiskInv'
    BY <1>1, <1>2, <2>1, <2>3 DEF DiskInv
  <2>7. SavedInv'
    BY <1>1, <1>2, <1>3, <2>1, <2>3 DEF SavedInv
  <2>8. \A j \in 1 .. n + 1 : Row(j)' = IF j <= w THEN dat[j] ELSE pending'[j - w]
    BY <1>2, <2>1, <2>3 DEF Row
  <2>9. \A j \in 1 .. n : Row(j)' = Row(j)
    <3> TAKE j \in 1 .. n
    <3>1. Row(j) = IF j <= w THEN dat[j] ELSE pending[j - w]
      BY DEF Row
    <3>2. ~(j <= w) => j - w \in 1 .. Len(pending)
      BY <1>1
    <3>3. Row(j)' = IF j <= w THEN dat[j] ELSE pending'[j - w]
      BY <1>1, <2>8
    <3> QED BY <2>2, <3>1, <3>2, <3>3
  <2>10. \A j \in 1 .. n + 1 : ~(j <= n) => Row(j)' = v
    <3> TAKE j \in 1 .. n + 1
    <3>1. HAVE ~(j <= n)
    <3>2. j = n + 1
      BY <1>1, <3>1
    <3>3. j - w = Len(pending) + 1 /\ ~(j <= w)
      BY <1>1, <3>2
    <3> QED BY <2>2, <2>8, <3>3
  <2> QED BY <1>1, <1>6, <2>4, <2>5, <2>6, <2>7, <2>9, <2>10 DEF IInv
<1> QED BY <1>4, <1>5

(* What a read of a disk backed column finds behind the pointer.           *)
LEMMA BehindFacts ==
  ASSUME IInv, is_disk_backed, NEW lo \in 0 .. row_count, NEW hi \in 0 .. row_count, lo <= hi
  PROVE  /\ MappedSize = Len(Flushed)
         /\ Behind(lo, hi) \in Seq(Values) /\ Len(Behind(lo, hi)) = hi - lo
         /\ \A j \in 1 .. hi - lo : Behind(lo, hi)[j] = Row(lo + j)
<1>1. /\ row_count \in Nat /\ Flushed \in Seq(Cells) /\ Len(Flushed) \in Nat
      /\ row_count <= Len(Flushed) /\ \A j \in 1 .. row_count : Flushed[j] = Row(j)
  BY FlushedFacts DEF IInv, TypeInv
<1>2. MappedSize = Len(Flushed)
  BY FlushedFacts DEF MappedSize, FlushedMap, IInv, DiskInv
<1>3. ViewFor(lo, hi).max \in Int /\ hi <= ViewFor(lo, hi).max
  <2>1. AtMost(hi, Len(Flushed)) = hi /\ hi <= MappedSize
    BY <1>1, <1>2 DEF AtMost
  <2>2. \/ ViewFor(lo, hi) = FlushedView /\ hi <= FlushedView.max
        \/ ViewFor(lo, hi) = [min |-> lo, max |-> hi]
    BY <2>1 DEF ViewFor
  <2>3. FlushedView.max \in Int
    BY DEF IInv, TypeInv, FlushedView, NoView
  <2> QED BY <1>1, <2>2, <2>3
<1>4. Behind(lo, hi) = [j \in 1 .. hi - lo |-> Row(lo + j)]
  <2>1. ASSUME NEW j \in 1 .. hi - lo
        PROVE  /\ lo + j \in 1 .. row_count
               /\ lo + j <= ViewFor(lo, hi).max /\ lo + j <= Len(Flushed)
    BY <1>1, <1>3
  <2>2. \A j \in 1 .. hi - lo :
          (IF lo + j <= ViewFor(lo, hi).max /\ lo + j <= Len(Flushed) THEN Flushed[lo + j] ELSE Junk)
            = Row(lo + j)
    BY <1>1, <2>1
  <2> QED BY <2>2 DEF Behind
<1>5. \A j \in 1 .. hi - lo : Row(lo + j) \in Values
  BY <1>1, RowType
<1>6. hi - lo \in Nat
  BY <1>1
<1> QED BY <1>2, <1>4, <1>5, <1>6

LEMMA ReadRowsKeeps ==
  ASSUME IInv, NEW lo \in 0 .. row_count, NEW hi \in 0 .. row_count, lo <= hi, ReadRows(lo, hi)
  PROVE  /\ IInv' /\ row_count' = row_count
         /\ \A j \in 1 .. row_count : Row(j)' = Row(j)
         /\ answer' \in Seq(Values) /\ Len(answer') = hi - lo
         /\ \A j \in 1 .. hi - lo : answer'[j] = Row(lo + j)
<1>1. /\ saving = "no" /\ pending' = <<>>
      /\ UNCHANGED <<row_count, data, is_disk_backed, meta, saving, unsaved, saved>>
  BY DEF ReadRows
<1>2. row_count \in Nat /\ Written_count' = row_count
  BY <1>1 DEF Written_count, IInv, TypeInv
<1>3. CASE is_disk_backed
  <2>1. /\ answer' = Behind(lo, hi) /\ dat' = Flushed /\ file_map' = MappedSize
        /\ view' \in {FlushedView, ViewFor(lo, hi)} /\ leaked' \in BOOLEAN
        /\ file' = IF FlushHandle = "none" THEN "ro" ELSE FlushHandle
    BY <1>3 DEF ReadRows, IInv, TypeInv
  <2>2. /\ Flushed \in Seq(Cells) /\ Len(Flushed) \in Nat
        /\ Len(dat) <= Len(Flushed) /\ row_count <= Len(Flushed)
        /\ \A j \in 1 .. row_count : Flushed[j] = Row(j)
        /\ \A j \in 1 .. Written_count : j <= Len(dat) => Flushed[j] = dat[j]
        /\ Len(dat) \in Nat /\ Len(dat) > Threshold
        /\ Written_count \in 0 .. Len(dat) /\ Written_count <= row_count
    BY <1>3, FlushedFacts, SMTT(60) DEF IInv, DiskInv, TypeInv, Written_count
  <2>9. Len(dat') = Len(Flushed) /\ Len(dat') > Threshold
    <3>1. Len(dat) <= Len(Flushed) /\ Len(dat) > Threshold /\ Len(dat) \in Nat /\ Len(Flushed) \in Nat
      BY <2>2
    <3> QED BY <2>1, <3>1, Sizes
  <2>3. TypeInv'
    <3>1. view' \in [min : Nat, max : Int]
      <4>1. FlushedView \in [min : Nat, max : Int] /\ NoView \in [min : Nat, max : Int] /\ lo \in Nat
        BY <1>2 DEF IInv, TypeInv, FlushedView, NoView
      <4>2. AtMost(hi, Len(Flushed)) \in Nat
        BY <1>2, <2>2 DEF AtMost
      <4>3. ViewFor(lo, hi) \in [min : Nat, max : Int]
        BY <4>1, <4>2 DEF ViewFor
      <4> QED BY <2>1, <4>1, <4>3
    <3>2. file' \in {"none", "rw", "ro"}
      BY <2>1 DEF FlushHandle, IInv, TypeInv
    <3>3. file_map' \in Int
      BY <1>3, <2>1, <2>2, BehindFacts
    <3> QED BY <1>1, <2>1, <2>2, <3>1, <3>2, <3>3 DEF IInv, TypeInv
  <2>4. MemoryInv'
    BY <1>1, <1>3 DEF MemoryInv
  <2>5. DiskInv'
    <3>1. \A j \in 1 .. row_count : dat'[j] \in Values
      BY <2>1, <2>2, RowType
    <3>2. file_map' = Len(dat')
      BY <1>3, <2>1, BehindFacts
    <3>3. row_count \in 0 .. Len(dat')
      BY <1>2, <2>1, <2>2
    <3> QED BY <1>1, <1>2, <2>9, <3>1, <3>2, <3>3 DEF DiskInv
  <2>6. SavedInv'
    <3>1. /\ Len(saved) <= MaxRows /\ Len(saved) \in Nat
          /\ unsaved = {} => row_count = Len(saved)
          /\ "remove" \notin unsaved => /\ Len(saved) <= Len(dat) /\ Len(saved) <= Written_count
                                        /\ \A j \in 1 .. Len(saved) : dat[j] = saved[j]
                                        /\ meta.row_count = Len(saved)
      BY <1>1 DEF IInv, SavedInv, TypeInv
    <3>3. "remove" \notin unsaved => /\ Len(saved) <= Len(dat') /\ Len(saved) <= row_count
                                     /\ \A j \in 1 .. Len(saved) : dat'[j] = saved[j]
      BY <1>2, <2>1, <2>2, <3>1
    <3> QED BY <1>1, <1>2, <1>3, <2>9, <3>1, <3>3 DEF SavedInv
  <2>7. \A j \in 1 .. row_count : Row(j)' = Row(j)
    BY <1>1, <1>2, <1>3, <2>1, <2>2 DEF Row
  <2>8. IInv'
    <3>1. SavingInv'
      BY <1>1, <1>3 DEF SavingInv
    <3> QED BY <2>3, <2>4, <2>5, <2>6, <3>1 DEF IInv
  <2> QED BY <1>1, <1>3, <2>1, <2>7, <2>8, BehindFacts
<1>4. CASE ~is_disk_backed
  <2>1. answer' = SubSeq(data, lo + 1, hi) /\ UNCHANGED <<dat, file, file_map, view, leaked>>
    BY <1>4 DEF ReadRows
  <2>2. UNCHANGED pending
    BY <1>1, <1>4 DEF IInv, MemoryInv
  <2>3. IInv'
    BY <1>1, <2>1, <2>2 DEF IInv, TypeInv, MemoryInv, DiskInv, SavedInv, SavingInv, Written_count
  <2>4. \A j \in 1 .. row_count : Row(j)' = Row(j)
    BY <1>1, <1>4 DEF Row
  <2>5. /\ data \in Seq(Cells) /\ row_count <= Len(data)
        /\ \A j \in 1 .. row_count : data[j] \in Values /\ Row(j) = data[j]
    BY <1>4 DEF IInv, TypeInv, MemoryInv, Row
  <2>6. lo + 1 \in Int /\ hi \in Int /\ \A j \in lo + 1 .. hi : data[j] \in Values
    BY <1>2, <2>5
  <2>7. /\ answer' \in Seq(Values)
        /\ Len(answer') = IF lo + 1 <= hi THEN hi - (lo + 1) + 1 ELSE 0
        /\ \A j \in 1 .. hi - (lo + 1) + 1 : answer'[j] = data[lo + 1 + j - 1]
    BY <2>1, <2>6, SubSeqProperties
  <2>8. Len(answer') = hi - lo
    BY <1>2, <2>7
  <2>9. \A j \in 1 .. hi - lo : answer'[j] = Row(lo + j)
    <3> TAKE j \in 1 .. hi - lo
    <3>1. j \in 1 .. hi - (lo + 1) + 1 /\ lo + 1 + j - 1 = lo + j /\ lo + j \in 1 .. row_count
      BY <1>2
    <3> QED BY <2>5, <2>7, <3>1
  <2> QED BY <1>1, <2>3, <2>4, <2>7, <2>8, <2>9
<1> QED BY <1>3, <1>4

(* A removal shifts the rows behind it.                                    *)
LEMMA RemoveRowKeeps ==
  ASSUME IInv, NEW i \in 1 .. row_count, RemoveRow(i)
  PROVE  /\ IInv' /\ row_count' = row_count - 1
         /\ \A j \in 1 .. row_count - 1 : Row(j)' = IF i <= j THEN Row(j + 1) ELSE Row(j)
<1> DEFINE n == row_count
           M == Materialized
<1>1. n \in Nat \ {0} /\ n <= MaxRows
  BY DEF IInv, TypeInv
<1>2. /\ data' = [j \in 1 .. Len(M) |-> IF i <= j /\ j < n THEN M[j + 1] ELSE M[j]]
      /\ dat' = IF is_disk_backed THEN Flushed ELSE dat
      /\ is_disk_backed' = FALSE /\ pending' = <<>> /\ file' = "none" /\ file_map' = NoMap
      /\ view' = NoView /\ n' = n - 1 /\ unsaved' = unsaved \cup {"remove"}
      /\ saving = "no" /\ leaked' \in BOOLEAN /\ UNCHANGED <<meta, saving, saved>>
  BY DEF RemoveRow, IInv, TypeInv
<1>3. /\ M \in Seq(Cells) /\ n <= Len(M) /\ Len(M) \in Nat
      /\ \A j \in 1 .. n : M[j] = Row(j)
  <2>1. CASE is_disk_backed
    <3> DEFINE b == Behind(0, n)
    <3>1. M = Upto(b, n)
      BY <1>1, <2>1 DEF Materialized, AtLeast
    <3>2. 0 \in 0 .. n /\ n \in 0 .. n /\ 0 <= n /\ n - 0 = n
      BY <1>1
    <3>3. /\ b \in Seq(Values) /\ Len(b) = n - 0
          /\ \A j \in 1 .. n - 0 : b[j] = Row(0 + j)
      BY <2>1, <3>2, BehindFacts
    <3>4. b \in Seq(Cells) /\ Len(b) = n /\ \A j \in 1 .. n : b[j] = Row(j)
      BY <1>1, <3>2, <3>3 DEF Cells
    <3> HIDE DEF b
    <3>5. /\ Upto(b, n) \in Seq(Cells) /\ Len(Upto(b, n)) = n
          /\ \A j \in 1 .. n : Upto(b, n)[j] = IF j <= Len(b) THEN b[j] ELSE Junk
      BY <1>1, <3>4, UptoFacts
    <3> QED BY <1>1, <3>1, <3>4, <3>5
  <2>2. CASE ~is_disk_backed
    BY <2>2 DEF Materialized, IInv, TypeInv, MemoryInv, Row
  <2> QED BY <2>1, <2>2
<1> HIDE DEF M
<1>4. /\ data' \in Seq(Cells) /\ Len(data') = Len(M)
      /\ \A j \in 1 .. n - 1 : data'[j] = IF i <= j THEN Row(j + 1) ELSE Row(j)
  <2>1. \A j \in 1 .. Len(M) : (IF i <= j /\ j < n THEN M[j + 1] ELSE M[j]) \in Cells
    BY <1>1, <1>3
  <2>2. data' \in Seq(Cells) /\ Len(data') = Len(M)
    BY <1>2, <1>3, <2>1
  <2>3. ASSUME NEW j \in 1 .. n - 1
        PROVE  data'[j] = IF i <= j THEN Row(j + 1) ELSE Row(j)
    <3>1. j \in 1 .. Len(M) /\ j < n /\ j \in 1 .. n /\ j + 1 \in 1 .. n
      BY <1>1, <1>3
    <3> QED BY <1>2, <1>3, <3>1
  <2> QED BY <2>2, <2>3
<1>5. dat' \in Seq(Cells) /\ Len(dat') \in Nat /\ Len(dat) <= Len(dat') /\ Len(dat) \in Nat
  BY <1>2, FlushedFacts DEF IInv, TypeInv
<1>6. TypeInv'
  <2>1. n' \in Nat /\ n' <= MaxRows
    BY <1>1, <1>2, Sizes
  <2>2. view' \in [min : Nat, max : Int] /\ file_map' \in Int
    BY <1>2 DEF NoMap, NoView
  <2>3. pending' \in Seq(Values) /\ unsaved' \subseteq {"append", "remove"}
    BY <1>2 DEF IInv, TypeInv
  <2> QED BY <1>2, <1>4, <1>5, <2>1, <2>2, <2>3 DEF IInv, TypeInv
<1>7. MemoryInv'
  <2>1. \A j \in 1 .. n - 1 : data'[j] \in Values
    <3> TAKE j \in 1 .. n - 1
    <3>1. j \in 1 .. n /\ j + 1 \in 1 .. n
      BY <1>1
    <3> QED BY <1>4, <3>1, RowType
  <2>2. n - 1 <= Len(data')
    BY <1>1, <1>3, <1>4
  <2> QED BY <1>2, <2>1, <2>2 DEF MemoryInv
<1>8. DiskInv'
  BY <1>2 DEF DiskInv
<1>9. SavedInv' /\ SavingInv'
  <2>1. Len(saved) <= MaxRows
    BY DEF IInv, SavedInv
  <2>2. "remove" \in unsaved'
    BY <1>2
  <2> QED BY <1>2, <2>1, <2>2 DEF SavedInv, SavingInv
<1>10. \A j \in 1 .. n - 1 : Row(j)' = IF i <= j THEN Row(j + 1) ELSE Row(j)
  BY <1>2, <1>4 DEF Row
<1>11. IInv'
  BY <1>6, <1>7, <1>8, <1>9 DEF IInv
<1> QED BY <1>2, <1>10, <1>11

(* The steps of a save.                                                    *)
LEMMA SaveMetaKeeps ==
  ASSUME IInv, SaveMeta
  PROVE  IInv' /\ Contents' = Contents
<1>1. /\ saving = "no" /\ saving' = "data"
      /\ meta' = [row_count |-> row_count, capacity |-> Len(data)]
      /\ UNCHANGED <<row_count, data, is_disk_backed, file, pending, file_map, view, dat,
                     leaked, unsaved, saved>>
  BY DEF SaveMeta, ramVars, diskVars
<1>2. TypeInv' /\ MemoryInv' /\ DiskInv' /\ SavingInv'
  BY <1>1 DEF IInv, TypeInv, MemoryInv, DiskInv, SavingInv, Written_count
<1>3. SavedInv'
  BY <1>1 DEF IInv, TypeInv, SavedInv, Written_count
<1> QED BY <1>1, <1>2, <1>3 DEF IInv, Contents

LEMMA SaveRefusedKeeps ==
  ASSUME IInv, SaveRefused
  PROVE  IInv' /\ Contents' = Contents
<1>1. /\ saving = "data" /\ ~is_disk_backed /\ leaked /\ saving' = "no"
      /\ UNCHANGED <<row_count, data, is_disk_backed, file, pending, file_map, view, dat,
                     leaked, meta, unsaved, saved>>
  BY DEF SaveRefused, ramVars, diskVars
<1>2. TypeInv' /\ MemoryInv' /\ DiskInv' /\ SavingInv'
  BY <1>1 DEF IInv, TypeInv, MemoryInv, DiskInv, SavingInv, Written_count
<1>3. SavedInv'
  BY <1>1 DEF IInv, SavedInv, SavingInv, Written_count
<1> QED BY <1>1, <1>2, <1>3 DEF IInv, Contents

LEMMA SaveTruncatesKeeps ==
  ASSUME IInv, SaveTruncates
  PROVE  IInv' /\ Contents' = Contents
<1>1. /\ saving = "data" /\ ~is_disk_backed /\ ~leaked /\ saving' = "write" /\ dat' = <<>>
      /\ UNCHANGED <<row_count, data, is_disk_backed, file, pending, file_map, view,
                     leaked, meta, unsaved, saved>>
  BY DEF SaveTruncates, ramVars
<1>2. TypeInv' /\ MemoryInv' /\ DiskInv' /\ SavingInv'
  BY <1>1 DEF IInv, TypeInv, MemoryInv, DiskInv, SavingInv
<1>3. SavedInv'
  BY <1>1 DEF IInv, SavedInv, Written_count
<1> QED BY <1>1, <1>2, <1>3 DEF IInv, Contents

(* The two ways a save ends when it is not refused: the file has the rows.  *)
LEMMA SavedKeeps ==
  ASSUME IInv, saving # "no", saving' = "no", unsaved' = {}, saved' = Contents,
         pending' = <<>>, UNCHANGED <<row_count, data, is_disk_backed, meta, leaked>>,
         dat' \in Seq(Cells), row_count <= Len(dat'),
         \A j \in 1 .. row_count : dat'[j] = Row(j),
         file' \in {"none", "rw", "ro"}, file_map' \in Int, view' \in [min : Nat, max : Int],
         is_disk_backed => Len(dat') > Threshold /\ file_map' \in {NoMap, Len(dat')},
         ~is_disk_backed => ~leaked /\ file_map' = NoMap
  PROVE  /\ IInv'
         /\ \A j \in 1 .. row_count : Row(j)' = Row(j)
<1>1. /\ Contents \in Seq(Values) /\ Len(Contents) = row_count /\ row_count \in Nat
      /\ row_count <= MaxRows /\ data \in Seq(Cells) /\ Len(data) \in Nat
      /\ \A j \in 1 .. row_count : Contents[j] = Row(j)
  BY ContentsFacts DEF IInv, TypeInv
<1>2. Written_count' = row_count
  BY <1>1 DEF Written_count
<1>3. \A j \in 1 .. row_count : Row(j)' = Row(j)
  BY <1>1, <1>2 DEF Row
<1>4. TypeInv'
  BY <1>1 DEF IInv, TypeInv
<1>5. MemoryInv' /\ SavingInv'
  BY DEF IInv, MemoryInv, SavingInv
<1>6. DiskInv'
  <2>1. \A j \in 1 .. row_count : dat'[j] \in Values
    BY RowType
  <2> QED BY <1>1, <1>2, <2>1 DEF DiskInv
<1>7. SavedInv'
  <2>1. Len(dat') > Threshold \/ row_count <= Len(data)
    BY DEF IInv, MemoryInv
  <2>2. ~is_disk_backed => \A j \in 1 .. row_count : data[j] = Contents[j]
    BY <1>1 DEF Row
  <2>3. meta.row_count = row_count /\ meta.capacity = Len(data)
    BY DEF IInv, SavedInv
  <2> QED BY <1>1, <1>2, <2>1, <2>2, <2>3 DEF SavedInv
<1> QED BY <1>3, <1>4, <1>5, <1>6, <1>7 DEF IInv

LEMMA SaveOnDiskKeeps ==
  ASSUME IInv, SaveOnDisk
  PROVE  /\ IInv' /\ row_count' = row_count /\ saved' = Contents
         /\ \A j \in 1 .. row_count : Row(j)' = Row(j)
<1>1. /\ saving = "data" /\ is_disk_backed
      /\ dat' = Flushed /\ file' = FlushHandle /\ file_map' = FlushedMap /\ view' = FlushedView
      /\ pending' = <<>> /\ saving' = "no" /\ unsaved' = {} /\ saved' = Contents
      /\ UNCHANGED <<row_count, data, is_disk_backed, meta, leaked>>
  BY DEF SaveOnDisk, ramVars
<1>2. /\ dat' \in Seq(Cells) /\ row_count <= Len(dat') /\ Len(dat') \in Nat
      /\ \A j \in 1 .. row_count : dat'[j] = Row(j)
      /\ Len(dat) <= Len(dat') /\ (pending = <<>> => dat' = dat)
  BY <1>1, FlushedFacts
<1>3. /\ file' \in {"none", "rw", "ro"} /\ file_map' \in Int /\ view' \in [min : Nat, max : Int]
  BY <1>1 DEF FlushHandle, FlushedMap, FlushedView, NoMap, NoView, IInv, TypeInv
<1>4. Len(dat') > Threshold /\ file_map' \in {NoMap, Len(dat')}
  <2>1. Len(dat) > Threshold /\ Len(dat) \in Nat /\ file_map \in {NoMap, Len(dat)}
    BY <1>1 DEF IInv, DiskInv, TypeInv
  <2>2. Len(dat') > Threshold
    BY <1>2, <2>1, Sizes
  <2>3. file_map' \in {NoMap, Len(dat')}
    BY <1>1, <1>2, <2>1 DEF FlushedMap
  <2> QED BY <2>2, <2>3
<1> QED BY <1>1, <1>2, <1>3, <1>4, SavedKeeps

LEMMA SaveWritesKeeps ==
  ASSUME IInv, SaveWrites
  PROVE  /\ IInv' /\ row_count' = row_count /\ saved' = Contents
         /\ \A j \in 1 .. row_count : Row(j)' = Row(j)
<1>1. /\ saving = "write" /\ dat' = data /\ saving' = "no" /\ unsaved' = {} /\ saved' = Contents
      /\ UNCHANGED <<row_count, data, is_disk_backed, file, pending, file_map, view, leaked, meta>>
  BY DEF SaveWrites, ramVars
<1>2. ~is_disk_backed /\ ~leaked /\ pending = <<>> /\ file_map = NoMap /\ row_count <= Len(data)
  BY <1>1 DEF IInv, SavingInv, MemoryInv
<1>3. /\ data \in Seq(Cells) /\ file \in {"none", "rw", "ro"} /\ file_map \in Int
      /\ view \in [min : Nat, max : Int]
  BY DEF IInv, TypeInv
<1>4. \A j \in 1 .. row_count : data[j] = Row(j)
  BY <1>2 DEF Row
<1> QED BY <1>1, <1>2, <1>3, <1>4, SavedKeeps

(* What is loaded are the rows of the last save.                           *)
LEMMA LoadKeeps ==
  ASSUME Allowed = {}, IInv, Load
  PROVE  /\ IInv' /\ row_count' = Len(saved) /\ saved' = saved
         /\ \A j \in 1 .. Len(saved) : Row(j)' = saved[j]
<1> DEFINE n == Len(saved)
<1>1. "remove" \notin unsaved /\ saving = "no"
  BY DEF Load
<1>2. /\ saved \in Seq(Values) /\ n \in Nat /\ n <= MaxRows /\ meta.row_count = n
      /\ dat \in Seq(Cells) /\ Len(dat) \in Nat /\ n <= Len(dat)
      /\ \A j \in 1 .. n : dat[j] = saved[j] /\ saved[j] \in Values
      /\ Len(dat) > Threshold \/ n <= meta.capacity
      /\ meta.capacity \in Nat
  BY <1>1 DEF IInv, TypeInv, SavedInv
<1>3. /\ row_count' = n /\ is_disk_backed' = (Len(dat) > Threshold)
      /\ data' = IF Len(dat) > Threshold THEN <<>> ELSE Upto(dat, meta.capacity)
      /\ file' = "none" /\ pending' = <<>> /\ file_map' = NoMap /\ view' = NoView /\ unsaved' = {}
      /\ leaked' = FALSE /\ saving' = "no" /\ UNCHANGED <<dat, meta, saved>>
  BY <1>2 DEF Load
<1>7. SavingInv'
  BY <1>3 DEF SavingInv
<1>4. Written_count' = n
  BY <1>2, <1>3 DEF Written_count
<1>5. CASE Len(dat) > Threshold
  <2>1. is_disk_backed' = TRUE /\ data' = <<>> /\ pending' = <<>>
    BY <1>3, <1>5, Zenon
  <2>2. TypeInv'
    <3>1. view' \in [min : Nat, max : Int] /\ file_map' \in Int
      BY <1>3 DEF NoMap, NoView
    <3>2. data' \in Seq(Cells) /\ pending' \in Seq(Values)
      BY <2>1
    <3>3. is_disk_backed' \in BOOLEAN
      BY <2>1
    <3> QED BY <1>2, <1>3, <3>1, <3>2, <3>3 DEF IInv, TypeInv
  <2>3. MemoryInv'
    BY <2>1 DEF MemoryInv
  <2>4. DiskInv'
    BY <1>2, <1>3, <1>4, <1>5 DEF DiskInv
  <2>5. SavedInv'
    BY <1>2, <1>3, <1>4, <2>1 DEF SavedInv
  <2>6. \A j \in 1 .. n : Row(j)' = saved[j]
    BY <1>2, <1>3, <1>4, <2>1 DEF Row
  <2>7. IInv'
    BY <1>7, <2>2, <2>3, <2>4, <2>5 DEF IInv
  <2> QED BY <1>3, <2>6, <2>7
<1>6. CASE ~(Len(dat) > Threshold)
  <2> DEFINE s == Upto(dat, meta.capacity)
  <2>1. is_disk_backed' = FALSE /\ data' = s /\ n <= meta.capacity
    <3> DEFINE big == Len(dat) > Threshold
    <3>3. big \in BOOLEAN /\ is_disk_backed' = big /\ ~big
      BY <1>3, <1>6
    <3> HIDE DEF big
    <3>1. is_disk_backed' = FALSE
      BY <3>3
    <3>2. data' = s /\ n <= meta.capacity
      BY <1>2, <1>3, <1>6
    <3> QED BY <3>1, <3>2
  <2>2. /\ s \in Seq(Cells) /\ Len(s) = meta.capacity
        /\ \A j \in 1 .. meta.capacity : s[j] = IF j <= Len(dat) THEN dat[j] ELSE Junk
    BY <1>2, UptoFacts
  <2> HIDE DEF s
  <2>3. \A j \in 1 .. n : data'[j] = saved[j]
    BY <1>2, <2>1, <2>2
  <2>4. TypeInv'
    <3>1. view' \in [min : Nat, max : Int] /\ file_map' \in Int
      BY <1>3 DEF NoMap, NoView
    <3>2. data' \in Seq(Cells) /\ <<>> \in Seq(Values)
      BY <2>1, <2>2
    <3> QED BY <1>2, <1>3, <2>1, <3>1, <3>2 DEF IInv, TypeInv
  <2>5. MemoryInv'
    BY <1>2, <1>3, <2>1, <2>2, <2>3 DEF MemoryInv
  <2>6. DiskInv'
    BY <2>1 DEF DiskInv
  <2>7. SavedInv'
    BY <1>2, <1>3, <1>4, <2>1, <2>3 DEF SavedInv
  <2>8. \A j \in 1 .. n : Row(j)' = saved[j]
    BY <2>1, <2>3 DEF Row
  <2>9. IInv'
    BY <1>7, <2>4, <2>5, <2>6, <2>7 DEF IInv
  <2> QED BY <1>3, <2>8, <2>9
<1> QED BY <1>5, <1>6

-------------------------------------------------------------------------------
(* The invariant, and what follows from it                                 *)

LEMMA InitInv == Init => IInv
<1> SUFFICES ASSUME Init PROVE IInv
  OBVIOUS
<1>1. Len(<<>>) = 0
  OBVIOUS
<1>2. TypeInv
  <2>1. <<>> \in Seq(Cells) /\ <<>> \in Seq(Values)
    OBVIOUS
  <2>2. /\ meta \in [row_count : Nat, capacity : Nat] /\ view \in [min : Nat, max : Int]
        /\ leaked \in BOOLEAN /\ saving \in {"no", "data", "write"}
    <3>1. meta = [row_count |-> 0, capacity |-> 0] /\ view = [min |-> 0, max |-> -1]
      BY DEF Init, NoView
    <3>2. leaked = FALSE /\ saving = "no"
      BY DEF Init
    <3>3. meta \in [row_count : Nat, capacity : Nat]
      BY <3>1
    <3>4. -1 \in Int /\ 0 \in Nat
      OBVIOUS
    <3>5. view \in [min : Nat, max : Int]
      BY <3>1, <3>4, Zenon
    <3> QED BY <3>2, <3>3, <3>5
  <2>3. row_count = 0 /\ file_map = -1 /\ is_disk_backed = FALSE /\ file = "none" /\ unsaved = {}
    BY DEF Init, NoMap
  <2>4. row_count \in Nat /\ row_count <= MaxRows /\ file_map \in Int
    BY Sizes, <2>3
  <2>5. /\ data \in Seq(Cells) /\ dat \in Seq(Cells)
        /\ pending \in Seq(Values) /\ saved \in Seq(Values)
    BY <2>1 DEF Init
  <2> QED BY <2>2, <2>3, <2>4, <2>5 DEF TypeInv
<1>3. MemoryInv
  BY <1>1 DEF Init, MemoryInv
<1>4. DiskInv
  BY DEF Init, DiskInv
<1>5. SavedInv
  <2>1. meta.row_count = 0 /\ meta.capacity = 0
    BY DEF Init
  <2> QED BY Sizes, <1>1, <2>1 DEF Init, SavedInv, Written_count
<1>6. SavingInv
  BY DEF Init, SavingInv
<1> QED BY <1>2, <1>3, <1>4, <1>5, <1>6 DEF IInv

LEMMA NextInv ==
  ASSUME Allowed = {}, IInv, [Next]_vars
  PROVE  IInv'
<1>1. CASE \E v \in Values : AppendRow(v)
  BY <1>1, AppendInMemoryKeeps, AppendOnDiskKeeps
<1>2. CASE \E lo, hi \in 0 .. row_count : (lo < hi \/ (lo = 0 /\ hi = 0)) /\ ReadRows(lo, hi)
  <2>1. PICK lo \in 0 .. row_count, hi \in 0 .. row_count : (lo < hi \/ (lo = 0 /\ hi = 0)) /\ ReadRows(lo, hi)
    BY <1>2
  <2>2. lo <= hi
    <3>1. row_count \in Nat
      BY DEF IInv, TypeInv
    <3> QED BY <2>1, <3>1
  <2> QED BY <2>1, <2>2, ReadRowsKeeps
<1>3. CASE \E i \in 1 .. row_count : RemoveRow(i)
  BY <1>3, RemoveRowKeeps
<1>4. CASE Save
  BY <1>4, SaveMetaKeeps, SaveOnDiskKeeps, SaveRefusedKeeps, SaveTruncatesKeeps, SaveWritesKeeps
     DEF Save
<1>5. CASE Load
  BY <1>5, LoadKeeps
<1>6. CASE UNCHANGED vars
  BY <1>6 DEF vars, IInv, TypeInv, MemoryInv, DiskInv, SavedInv, SavingInv, Written_count
<1> QED BY <1>1, <1>2, <1>3, <1>4, <1>5, <1>6 DEF Next

(* The inductive invariant: where the rows are, in memory and on disk, and  *)
(* that the rows of the last save are where the next load looks for them.   *)
THEOREM StorageInvariance ==
  ASSUME Allowed = {}
  PROVE  Spec => []IInv
<1>1. IInv /\ [Next]_vars => IInv'
  BY NextInv
<1> QED BY <1>1, InitInv, PTL DEF Spec

(* A flush never loses a row: of a disk backed column the file holds every  *)
(* row that is not pending (cql_column_flush_pending).                     *)
THEOREM FlushesLoseNothing ==
  ASSUME Allowed = {}
  PROVE  Spec => []FileHoldsFlushed
<1>1. IInv => FileHoldsFlushed
  BY DEF IInv, TypeInv, DiskInv, FileHoldsFlushed, Written_count
<1> QED BY <1>1, StorageInvariance, PTL

(* After a save that did not fail the files alone give back the rows, and   *)
(* until the next one they hold those rows, unless rows were removed since  *)
(* (cql_table_save): the process may end before the next change.           *)
THEOREM SavesAreDurable ==
  ASSUME Allowed = {}
  PROVE  Spec => []SavedIsOnDisk
<1>1. IInv => SavedIsOnDisk
  <2> SUFFICES ASSUME IInv PROVE SavedIsOnDisk
    OBVIOUS
  <2> DEFINE n == Len(saved)
  <2>1. /\ saved \in Seq(Values) /\ n \in Nat /\ saved \in Seq(Cells)
        /\ dat \in Seq(Cells) /\ Len(dat) \in Nat /\ row_count \in Nat /\ Len(pending) \in Nat
    BY DEF IInv, TypeInv, Cells
  <2>2. ASSUME saving # "write", "remove" \notin unsaved
        PROVE  n <= meta.row_count /\ Upto(dat, n) = saved
    <3>1. /\ n <= Written_count /\ n <= Len(dat) /\ \A j \in 1 .. n : dat[j] = saved[j]
          /\ meta.row_count \in {row_count, n}
      BY <2>2 DEF IInv, SavedInv
    <3>2. n <= row_count
      BY <2>1, <3>1 DEF Written_count
    <3> DEFINE s == Upto(dat, n)
    <3>3. /\ s \in Seq(Cells) /\ Len(s) = n
          /\ \A j \in 1 .. n : s[j] = IF j <= Len(dat) THEN dat[j] ELSE Junk
      BY <2>1, UptoFacts
    <3> HIDE DEF s
    <3>4. \A j \in 1 .. n : s[j] = saved[j]
      BY <2>1, <3>1, <3>3
    <3>5. s = saved
      BY <2>1, <3>3, <3>4, SeqEqual
    <3> QED BY <2>1, <3>1, <3>2, <3>5 DEF s
  <2>3. ASSUME saving = "no", unsaved = {}
        PROVE  Upto(dat, meta.row_count) = saved /\ saved = Contents
    <3>1. /\ row_count = n /\ pending = <<>> /\ meta.row_count = n
          /\ \A j \in 1 .. n : dat[j] = saved[j]
          /\ ~is_disk_backed => \A j \in 1 .. n : data[j] = saved[j]
      BY <2>3 DEF IInv, SavedInv
    <3>2. Written_count = n
      BY <2>1, <3>1 DEF Written_count
    <3>3. \A j \in 1 .. n : Row(j) = saved[j]
      BY <2>1, <3>1, <3>2 DEF Row
    <3>4. Contents \in Seq(Values) /\ Len(Contents) = n /\ \A j \in 1 .. n : Contents[j] = Row(j)
      BY <3>1, ContentsFacts
    <3>5. saved = Contents
      BY <2>1, <3>3, <3>4, SeqEqual
    <3> QED BY <2>2, <2>3, <3>1, <3>5
  <2>4. ~is_disk_backed /\ leaked => "remove" \in unsaved
    BY DEF IInv, SavingInv
  <2> QED BY <2>2, <2>3, <2>4 DEF SavedIsOnDisk
<1> QED BY <1>1, StorageInvariance, PTL

-------------------------------------------------------------------------------
(* The column is a row store: what each operation does to Contents.         *)

(* Rows that stay where they are, rows that come back.                     *)
LEMMA SameRows ==
  ASSUME IInv, IInv', row_count' = row_count, \A j \in 1 .. row_count : Row(j)' = Row(j)
  PROVE  Contents' = Contents
<1>1. /\ Contents \in Seq(Values) /\ Len(Contents) = row_count
      /\ \A j \in 1 .. row_count : Contents[j] = Row(j)
  BY ContentsFacts
<1>2. /\ Contents' \in Seq(Values) /\ Len(Contents') = row_count
      /\ \A j \in 1 .. row_count : Contents'[j] = Row(j)'
  BY RowsNext DEF RowByRow
<1> QED BY <1>1, <1>2, SeqEqual

LEMMA AppendImplements ==
  ASSUME Allowed = {}, IInv, NEW v \in Values, AppendRow(v)
  PROVE  Abstract!AppendRow(v)
<1> DEFINE n == row_count
<1>1. IInv' /\ \A j \in 1 .. n + 1 : Row(j)' = IF j <= n THEN Row(j) ELSE v
  BY AppendInMemoryKeeps, AppendOnDiskKeeps
<1>2. n < MaxRows /\ n' = n + 1 /\ n \in Nat /\ answer' = <<>> /\ UNCHANGED saved
  BY DEF AppendRow, IInv, TypeInv
<1>3. /\ Contents \in Seq(Values) /\ Len(Contents) = n
      /\ \A j \in 1 .. n : Contents[j] = Row(j)
  BY ContentsFacts
<1>4. /\ Contents' \in Seq(Values) /\ Len(Contents') = n + 1
      /\ \A j \in 1 .. n + 1 : Contents'[j] = Row(j)'
  BY <1>1, <1>2, RowsNext DEF RowByRow
<1> DEFINE more == Append(Contents, v)
<1>5. /\ more \in Seq(Values) /\ Len(more) = n + 1
      /\ \A j \in 1 .. n : more[j] = Contents[j]
      /\ more[n + 1] = v
  BY <1>3, AppendProperties
<1> HIDE DEF more
<1>6. \A j \in 1 .. n + 1 : Contents'[j] = more[j]
  <2> TAKE j \in 1 .. n + 1
  <2>1. CASE j <= n
    BY <1>1, <1>2, <1>3, <1>4, <1>5, <2>1
  <2>2. CASE ~(j <= n)
    <3>1. j = n + 1
      BY <1>2, <2>2
    <3> QED BY <1>1, <1>4, <1>5, <2>2, <3>1
  <2> QED BY <2>1, <2>2
<1>7. Contents' = more
  BY <1>4, <1>5, <1>6, SeqEqual
<1> QED BY <1>2, <1>3, <1>7 DEF Abstract!AppendRow, more

LEMMA RemoveImplements ==
  ASSUME IInv, NEW i \in 1 .. row_count, RemoveRow(i)
  PROVE  Abstract!RemoveRow(i)
<1> DEFINE n == row_count
           front == SubSeq(Contents, 1, i - 1)
           back  == SubSeq(Contents, i + 1, n)
<1>1. /\ IInv' /\ n' = n - 1
      /\ \A j \in 1 .. n - 1 : Row(j)' = IF i <= j THEN Row(j + 1) ELSE Row(j)
  BY RemoveRowKeeps
<1>2. n \in Nat /\ i \in Nat /\ 1 <= i /\ i <= n /\ answer' = <<>> /\ UNCHANGED saved
  BY DEF IInv, TypeInv, RemoveRow
<1>3. /\ Contents \in Seq(Values) /\ Len(Contents) = n
      /\ \A j \in 1 .. n : Contents[j] = Row(j)
  BY ContentsFacts
<1>4. /\ Contents' \in Seq(Values) /\ Len(Contents') = n - 1
      /\ \A j \in 1 .. n - 1 : Contents'[j] = Row(j)'
  BY <1>1, RowsNext DEF RowByRow
<1>5. /\ front \in Seq(Values) /\ Len(front) = i - 1
      /\ \A j \in 1 .. i - 1 : front[j] = Contents[j]
  <2>1. \A j \in 1 .. i - 1 : Contents[j] \in Values
    BY <1>2, <1>3
  <2> QED BY <1>2, <2>1, SubSeqProperties
<1>6. /\ back \in Seq(Values) /\ Len(back) = n - i
      /\ \A j \in 1 .. n - i : back[j] = Contents[i + j]
  <2>1. \A j \in i + 1 .. n : Contents[j] \in Values
    BY <1>2, <1>3
  <2> QED BY <1>2, <2>1, SubSeqProperties
<1> HIDE DEF front, back
<1> DEFINE rest == front \o back
<1>7. /\ rest \in Seq(Values) /\ Len(rest) = n - 1
      /\ \A j \in 1 .. n - 1 : rest[j] = IF j <= i - 1 THEN front[j] ELSE back[j - (i - 1)]
  <2>1. /\ rest \in Seq(Values) /\ Len(rest) = Len(front) + Len(back)
        /\ \A j \in 1 .. Len(front) + Len(back) :
             rest[j] = IF j <= Len(front) THEN front[j] ELSE back[j - Len(front)]
    BY <1>5, <1>6, ConcatProperties
  <2>2. Len(front) + Len(back) = n - 1 /\ Len(front) = i - 1
    BY <1>2, <1>5, <1>6
  <2> QED BY <2>1, <2>2
<1> HIDE DEF rest
<1>8. \A j \in 1 .. n - 1 : Contents'[j] = rest[j]
  <2> TAKE j \in 1 .. n - 1
  <2>1. CASE j <= i - 1
    <3>1. ~(i <= j) /\ j \in 1 .. i - 1 /\ j \in 1 .. n
      BY <1>2, <2>1
    <3> QED BY <1>1, <1>3, <1>4, <1>5, <1>7, <2>1, <3>1
  <2>2. CASE ~(j <= i - 1)
    <3>1. i <= j /\ j - (i - 1) \in 1 .. n - i /\ i + (j - (i - 1)) = j + 1 /\ j + 1 \in 1 .. n
      BY <1>2, <2>2
    <3>2. rest[j] = Contents[j + 1]
      BY <1>6, <1>7, <2>2, <3>1
    <3> QED BY <1>1, <1>3, <1>4, <3>1, <3>2
  <2> QED BY <2>1, <2>2
<1>9. Contents' = rest
  BY <1>4, <1>7, <1>8, SeqEqual
<1>10. RemoveAt(Contents, i) = rest
  BY <1>3 DEF RemoveAt, rest, front, back
<1>11. Contents' = Abstract!RemoveAt(Contents, i)
  BY <1>9, <1>10 DEF RemoveAt, Abstract!RemoveAt
<1> QED BY <1>2, <1>11 DEF Abstract!RemoveRow

LEMMA ReadImplements ==
  ASSUME IInv, NEW lo \in 0 .. row_count, NEW hi \in 0 .. row_count, lo <= hi, ReadRows(lo, hi)
  PROVE  Abstract!ReadRows(lo, hi)
<1> DEFINE part == SubSeq(Contents, lo + 1, hi)
<1>1. /\ IInv' /\ row_count' = row_count
      /\ \A j \in 1 .. row_count : Row(j)' = Row(j)
      /\ answer' \in Seq(Values) /\ Len(answer') = hi - lo
      /\ \A j \in 1 .. hi - lo : answer'[j] = Row(lo + j)
  BY ReadRowsKeeps
<1>2. Contents' = Contents /\ UNCHANGED saved
  BY <1>1, SameRows DEF ReadRows
<1>3. /\ row_count \in Nat /\ Contents \in Seq(Values) /\ Len(Contents) = row_count
      /\ \A j \in 1 .. row_count : Contents[j] = Row(j)
  BY ContentsFacts DEF IInv, TypeInv
<1>4. lo + 1 \in Int /\ hi \in Int /\ \A j \in lo + 1 .. hi : Contents[j] \in Values
  BY <1>3
<1>5. /\ part \in Seq(Values)
      /\ Len(part) = IF lo + 1 <= hi THEN hi - (lo + 1) + 1 ELSE 0
      /\ \A j \in 1 .. hi - (lo + 1) + 1 : part[j] = Contents[lo + 1 + j - 1]
  BY <1>4, SubSeqProperties
<1> HIDE DEF part
<1>6. Len(part) = hi - lo
  BY <1>3, <1>5
<1>7. \A j \in 1 .. hi - lo : answer'[j] = part[j]
  <2> TAKE j \in 1 .. hi - lo
  <2>1. j \in 1 .. hi - (lo + 1) + 1 /\ lo + 1 + j - 1 = lo + j /\ lo + j \in 1 .. row_count
    BY <1>3
  <2> QED BY <1>1, <1>3, <1>5, <2>1
<1>8. answer' = part
  BY <1>1, <1>5, <1>6, <1>7, SeqEqual
<1> QED BY <1>2, <1>8 DEF Abstract!ReadRows, part

(* The last step of a save that is not refused is the save of the rows; its *)
(* other steps change no row, and neither does a refusal.                  *)
LEMMA SaveImplements ==
  ASSUME IInv, Save
  PROVE  Abstract!SaveRows \/ UNCHANGED Abstract!vars
<1>1. CASE SaveMeta \/ SaveRefused
  BY <1>1, SaveMetaKeeps, SaveRefusedKeeps
     DEF SaveMeta, SaveRefused, ramVars, diskVars, Contents, Abstract!vars
<1>2. CASE SaveTruncates
  BY <1>2, SaveTruncatesKeeps DEF SaveTruncates, ramVars, Contents, Abstract!vars
<1>3. CASE SaveOnDisk
  <2>1. saved' = Contents /\ Contents' = Contents
    BY <1>3, SaveOnDiskKeeps, SameRows
  <2> QED BY <1>3, <2>1 DEF SaveOnDisk, Abstract!SaveRows
<1>4. CASE SaveWrites
  <2>1. saved' = Contents /\ Contents' = Contents
    BY <1>4, SaveWritesKeeps, SameRows
  <2> QED BY <1>4, <2>1 DEF SaveWrites, Abstract!SaveRows
<1> QED BY <1>1, <1>2, <1>3, <1>4 DEF Save

LEMMA LoadImplements ==
  ASSUME Allowed = {}, IInv, Load
  PROVE  Abstract!LoadRows
<1>1. /\ IInv' /\ row_count' = Len(saved) /\ saved' = saved
      /\ \A j \in 1 .. Len(saved) : Row(j)' = saved[j]
  BY LoadKeeps
<1>2. /\ Contents' \in Seq(Values) /\ Len(Contents') = Len(saved)
      /\ \A j \in 1 .. Len(saved) : Contents'[j] = saved[j]
  BY <1>1, RowsNext DEF RowByRow
<1>3. Contents' = saved
  BY <1>2, SeqEqual DEF IInv, TypeInv
<1> QED BY <1>3 DEF Load, Abstract!LoadRows

LEMMA StepImplements ==
  ASSUME Allowed = {}, IInv, [Next]_vars
  PROVE  [Abstract!Next]_(Abstract!vars)
<1>1. row_count = Len(Contents)
  BY ContentsFacts
<1>2. CASE \E v \in Values : AppendRow(v)
  BY <1>2, AppendImplements DEF Abstract!Next
<1>3. CASE \E lo, hi \in 0 .. row_count : (lo < hi \/ (lo = 0 /\ hi = 0)) /\ ReadRows(lo, hi)
  <2>1. PICK lo \in 0 .. row_count, hi \in 0 .. row_count : (lo < hi \/ (lo = 0 /\ hi = 0)) /\ ReadRows(lo, hi)
    BY <1>3
  <2>2. lo <= hi /\ lo \in 0 .. Len(Contents) /\ hi \in 0 .. Len(Contents)
    <3>1. row_count \in Nat
      BY DEF IInv, TypeInv
    <3> QED BY <1>1, <2>1, <3>1
  <2> QED BY <2>1, <2>2, ReadImplements DEF Abstract!Next
<1>4. CASE \E i \in 1 .. row_count : RemoveRow(i)
  BY <1>1, <1>4, RemoveImplements DEF Abstract!Next
<1>5. CASE Save
  BY <1>5, SaveImplements DEF Abstract!Next
<1>6. CASE Load
  BY <1>6, LoadImplements DEF Abstract!Next
<1>7. CASE UNCHANGED vars
  BY <1>7 DEF vars, Abstract!vars, Contents
<1> QED BY <1>2, <1>3, <1>4, <1>5, <1>6, <1>7 DEF Next

(* A column is a row store: appends, removals, reads, saves and restarts do *)
(* to its rows what they do to a plain sequence, whichever of memory,       *)
(* pending buffer, file and mapping holds the rows at that moment.         *)
THEOREM ColumnIsRowStore ==
  ASSUME Allowed = {}
  PROVE  Spec => ImplementsRowStore
<1>1. Init => Abstract!Init
  BY DEF Init, Abstract!Init, Contents, Upto
<1>2. IInv /\ [Next]_vars => [Abstract!Next]_(Abstract!vars)
  BY StepImplements
<1> QED BY <1>1, <1>2, StorageInvariance, PTL DEF Spec, ImplementsRowStore, Abstract!Spec

===============================================================================
