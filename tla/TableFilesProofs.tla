--------------------------- MODULE TableFilesProofs ---------------------------
(***************************************************************************)
(* Proofs about a table and its files, for any names, values, constraints  *)
(* and histories of statements, failing writes, stops and restarts.        *)
(*                                                                         *)
(* First what each statement makes of a table, and what a save writes of   *)
(* one (WriteSet), each file once.  A directory that holds all of it       *)
(* (Match) is whole and loads as exactly that table (MatchLoads), whatever *)
(* else is in it.  Then the invariants:                                    *)
(*   TypeInv   tables in memory and at the last good save are well formed, *)
(*             and every file is empty or one of some such table, though   *)
(*             not all of the same one;                                    *)
(*   SaveInv   a save without an error has written what it has not left to *)
(*             do, and truncates no file but the one it writes next;       *)
(*   QuietInv  if nothing was done since the last good save, the files     *)
(*             hold the table, as they do after a query without an error;  *)
(*   OrderInv  indexes are sorted, unless a failed save was loaded;        *)
(*   KeepInv   while rows are only appended, the table and its files both  *)
(*             begin with the rows of the last good save, so that any      *)
(*             mixture of files of the old save and of a new one does.     *)
(* QuietInv and KeepInv speak of Disk, the files with the truncated one    *)
(* written: truncating and then writing makes of Disk what writing makes   *)
(* of the files.                                                           *)
(***************************************************************************)
EXTENDS TableFiles, IndexOrderProofs

Declarations == {None} \cup {Declared[c] : c \in ColumnNames}
Columns ==
  [name : ColumnNames, declared : Declarations, data : Seq(Values),
   null_flags : Seq(BOOLEAN) \cup {None}, capacity : Nat]
Indexes == [name : IndexNames, column : ColumnNames, order : Seq(Nat)]

(* A table: all columns and flags have a place for every row and a capacity *)
(* of that many, and an index of one of the columns lists every row once.   *)
AsLong(column, n) ==
  /\ Len(column.data) = n /\ n <= column.capacity
  /\ column.null_flags # None => Len(column.null_flags) = n
WellFormed(t) ==
  /\ t = [row_count |-> t.row_count, columns |-> t.columns, indexes |-> t.indexes]
  /\ t.row_count \in Nat /\ t.row_count <= MaxRows
  /\ t.columns \in Seq(Columns) /\ NamedApart(t.columns)
  /\ \A i \in DOMAIN t.columns : AsLong(t.columns[i], t.row_count)
  /\ t.indexes \in Seq(Indexes) /\ NamedApart(t.indexes)
  /\ \A i \in DOMAIN t.indexes :
       t.indexes[i].column \in Names(t) /\ IsOrder(t.indexes[i].order, t.row_count)
Ordered(t) ==
  \A i \in DOMAIN t.indexes :
    Sorted(t.indexes[i].order, ColumnOf(t, t.indexes[i].column).data)

(* Files that tables have been written to, not all the same one, some of    *)
(* them empty.                                                             *)
IndexHeads == [name : IndexNames, column : ColumnNames]
DataFiles == [rows : Seq(Values), size : Nat]
MetaFormed(m) ==
  /\ m.row_count \in Nat /\ m.row_count <= MaxRows
  /\ m.columns \in Seq(ColumnNames)
  /\ \A i, j \in DOMAIN m.columns : m.columns[i] = m.columns[j] => i = j
  /\ DOMAIN m.capacity = {m.columns[i] : i \in DOMAIN m.columns}
  /\ \A c \in DOMAIN m.capacity : m.capacity[c] \in Nat /\ m.row_count <= m.capacity[c]
  /\ \A c \in DOMAIN m.declared : m.declared[c] \in Declarations
  /\ m.indexes \in Seq(IndexHeads) /\ NamedApart(m.indexes)
  /\ \A i \in DOMAIN m.indexes : \E j \in DOMAIN m.columns : m.indexes[i].column = m.columns[j]
FilesFormed(fs) ==
  /\ fs = [meta |-> fs.meta, dat |-> fs.dat, null |-> fs.null, idx |-> fs.idx]
  /\ fs.meta # <<>> => MetaFormed(fs.meta)
  /\ \A c \in DOMAIN fs.dat : fs.dat[c] \in DataFiles
  /\ \A c \in DOMAIN fs.null : fs.null[c] \in Seq(BOOLEAN)
  /\ \A x \in DOMAIN fs.idx : fs.idx[x] \in Seq(Nat) /\ IsOrder(fs.idx[x], Len(fs.idx[x]))

(* What a save of table t writes, and whether it has.                       *)
WriteSet(t) ==
  {MetaWrite(t)} \cup {DataWrite(t.columns[i]) : i \in DOMAIN t.columns}
    \cup {FlagsWrite(t.columns[i]) : i \in {k \in DOMAIN t.columns : t.columns[k].null_flags # None}}
    \cup {IndexWrite(t.indexes[i]) : i \in DOMAIN t.indexes}
Holds(f, x, y) == x \in DOMAIN f /\ f[x] = y
Present(fs, w) ==
  /\ w.file = "meta" => fs.meta = w.content
  /\ w.file = "dat" => Holds(fs.dat, w.name, w.content)
  /\ w.file = "null" => Holds(fs.null, w.name, w.content)
  /\ w.file = "idx" => Holds(fs.idx, w.name, w.content)
Listed(w, s) == \E k \in DOMAIN s : s[k] = w
Match(fs, t) == \A w \in WriteSet(t) : Present(fs, w)

Kinds == {"append", "grow", "remove", "schema", "index"}
TypeInv ==
  /\ WellFormed(table) /\ WellFormed(saved) /\ FilesFormed(files)
  /\ at \in {"idle", "query", "save", "unreadable"} /\ errors \in BOOLEAN
  /\ since \subseteq Kinds \cup {"lost", "torn"}
  /\ at = "save" => todo \in Seq(WriteSet(table))
  /\ emptied \in BOOLEAN /\ (emptied => at = "save" /\ todo # <<>>)

(* The files as they are once the one that is open and truncated is written.*)
Disk == IF emptied THEN Written(files, todo[1]) ELSE files

(* A save without an error so far has written what it has not left to do.   *)
SaveInv ==
  at = "save" /\ ~errors => \A w \in WriteSet(table) : Present(files, w) \/ Listed(w, todo)

(* While nothing has been done since the last good save, the files are the  *)
(* table, as when a query has ended without an error.                      *)
QuietInv ==
  /\ at = "idle" /\ ~errors => since \subseteq {"lost"}
  /\ since \subseteq {"lost"} => saved = table /\ Match(Disk, table) /\ at # "unreadable"

(* While rows have only been appended, the table and its files begin with   *)
(* the values of the last good save, and with the same capacities unless a  *)
(* column grew.                                                            *)
Begins(data, other, n) == Len(data) >= n /\ \A r \in 1 .. n : data[r] = other[r]
Grows(t, s, kept) ==
  /\ t.row_count >= s.row_count /\ Len(t.columns) = Len(s.columns)
  /\ \A i \in DOMAIN s.columns :
       /\ t.columns[i].name = s.columns[i].name
       /\ Begins(t.columns[i].data, s.columns[i].data, s.row_count)
       /\ kept => t.columns[i].capacity = s.columns[i].capacity
DataGrows(file, column, n, kept) ==
  /\ Begins(file.rows, column.data, n) /\ file.size >= n
  /\ kept => file.size = column.capacity
FilesGrow(fs, s, kept) ==
  /\ fs.meta # <<>>
  /\ fs.meta.row_count >= s.row_count /\ Len(fs.meta.columns) = Len(s.columns)
  /\ \A i \in DOMAIN s.columns :
       /\ fs.meta.columns[i] = s.columns[i].name
       /\ kept => fs.meta.capacity[s.columns[i].name] = s.columns[i].capacity
       /\ s.columns[i].name \in DOMAIN fs.dat
       /\ DataGrows(fs.dat[s.columns[i].name], s.columns[i], s.row_count, kept)
Appending == {"append", "grow", "index", "lost"}
KeepInv ==
  since \subseteq Appending =>
    Grows(table, saved, "grow" \notin since) /\ FilesGrow(Disk, saved, "grow" \notin since)

(* The indexes of a table that was not loaded from a failed save.           *)
OrderInv == "lost" \notin since => Ordered(table)

-------------------------------------------------------------------------------
(* Statements keep a table well formed.                                    *)

LEMMA ColumnsReplaced ==
  ASSUME NEW t, WellFormed(t), NEW columns
  PROVE  [t EXCEPT !.columns = columns]
           = [row_count |-> t.row_count, columns |-> columns, indexes |-> t.indexes]
BY DEF WellFormed

LEMMA IndexesReplaced ==
  ASSUME NEW t, WellFormed(t), NEW indexes
  PROVE  [t EXCEPT !.indexes = indexes]
           = [row_count |-> t.row_count, columns |-> t.columns, indexes |-> indexes]
BY DEF WellFormed

LEMMA BothReplaced ==
  ASSUME NEW t, WellFormed(t), NEW columns, NEW indexes
  PROVE  [t EXCEPT !.columns = columns, !.indexes = indexes]
           = [row_count |-> t.row_count, columns |-> columns, indexes |-> indexes]
<1> DEFINE u == [t EXCEPT !.columns = columns]
<1>1. [t EXCEPT !.columns = columns, !.indexes = indexes] = [u EXCEPT !.indexes = indexes]
  BY Zenon
<1>2. u = [row_count |-> t.row_count, columns |-> columns, indexes |-> t.indexes]
  BY ColumnsReplaced
<1> HIDE DEF u
<1> QED BY <1>1, <1>2

LEMMA ColumnsCounted ==
  ASSUME NEW t, WellFormed(t), NEW n, NEW columns
  PROVE  [t EXCEPT !.columns = columns, !.row_count = n]
           = [row_count |-> n, columns |-> columns, indexes |-> t.indexes]
<1> DEFINE u == [t EXCEPT !.columns = columns]
<1>1. [t EXCEPT !.columns = columns, !.row_count = n] = [u EXCEPT !.row_count = n]
  BY Zenon
<1>2. u = [row_count |-> t.row_count, columns |-> columns, indexes |-> t.indexes]
  BY ColumnsReplaced
<1> HIDE DEF u
<1> QED BY <1>1, <1>2

LEMMA TableRewritten ==
  ASSUME NEW t, WellFormed(t), NEW n, NEW columns, NEW indexes
  PROVE  [t EXCEPT !.row_count = n, !.columns = columns, !.indexes = indexes]
           = [row_count |-> n, columns |-> columns, indexes |-> indexes]
<1> DEFINE u == [t EXCEPT !.row_count = n]
           w == [u EXCEPT !.columns = columns]
<1>1. [t EXCEPT !.row_count = n, !.columns = columns, !.indexes = indexes]
        = [w EXCEPT !.indexes = indexes]
  BY Zenon
<1>2. u = [row_count |-> n, columns |-> t.columns, indexes |-> t.indexes]
  BY DEF WellFormed
<1> HIDE DEF u
<1>3. w = [row_count |-> n, columns |-> columns, indexes |-> t.indexes]
  BY <1>2
<1> HIDE DEF w
<1> QED BY <1>1, <1>3

LEMMA SameNames ==
  ASSUME NEW t, NEW u, DOMAIN u.columns = DOMAIN t.columns,
         \A i \in DOMAIN t.columns : u.columns[i].name = t.columns[i].name
  PROVE  Names(u) = Names(t) /\ (NamedApart(t.columns) => NamedApart(u.columns))
BY DEF Names, NamedApart

(* A name finds its column.                                                *)
LEMMA ColumnOfFacts ==
  ASSUME NEW t, NamedApart(t.columns)
  PROVE  /\ \A i \in DOMAIN t.columns :
              t.columns[i].name \in Names(t) /\ ColumnOf(t, t.columns[i].name) = t.columns[i]
         /\ \A c \in Names(t) : \E i \in DOMAIN t.columns :
              t.columns[i].name = c /\ ColumnOf(t, c) = t.columns[i]
<1>1. ASSUME NEW i \in DOMAIN t.columns
      PROVE  t.columns[i].name \in Names(t) /\ ColumnOf(t, t.columns[i].name) = t.columns[i]
  <2> DEFINE j == CHOOSE k \in DOMAIN t.columns : t.columns[k].name = t.columns[i].name
  <2>1. j \in DOMAIN t.columns /\ t.columns[j].name = t.columns[i].name
    OBVIOUS
  <2>2. ColumnOf(t, t.columns[i].name) = t.columns[j]
    BY DEF ColumnOf
  <2> HIDE DEF j
  <2>3. j = i
    BY <2>1 DEF NamedApart
  <2> QED BY <2>2, <2>3 DEF Names
<1>2. ASSUME NEW c \in Names(t)
      PROVE  \E i \in DOMAIN t.columns : t.columns[i].name = c
  BY DEF Names
<1> QED BY <1>1, <1>2

LEMMA ValuesInt ==
  ASSUME NEW data \in Seq(Values)
  PROVE  data \in Seq(Int)
<1>1. Values \subseteq Int
  BY TableFilesAssumption
<1>2. /\ Len(data) \in Nat /\ data = [i \in 1 .. Len(data) |-> data[i]]
      /\ \A i \in 1 .. Len(data) : data[i] \in Values
  OBVIOUS
<1>3. [i \in 1 .. Len(data) |-> data[i]] \in Seq(Int)
  BY <1>1, <1>2
<1> QED BY <1>2, <1>3

LEMMA CapacityForFacts ==
  ASSUME NEW n \in Nat, n <= MaxRows
  PROVE  CapacityFor(n) \in Nat /\ n <= CapacityFor(n)
<1>1. MaxRows \in Nat /\ Capacities \subseteq Nat /\ n \in 0 .. MaxRows
  BY TableFilesAssumption
<1>2. \E k \in Capacities : n <= k /\ \A j \in Capacities : n <= j => k <= j
  BY <1>1, TableFilesAssumption
<1>3. CapacityFor(n) \in Capacities /\ n <= CapacityFor(n)
  BY <1>2 DEF CapacityFor
<1> QED BY <1>1, <1>3

LEMMA AddValueFacts ==
  ASSUME NEW column \in Columns, NEW n \in Nat, AsLong(column, n), n < MaxRows,
         NEW v \in Values \cup {Null}
  PROVE  /\ AddValue(column, v) \in Columns /\ AsLong(AddValue(column, v), n + 1)
         /\ AddValue(column, v).name = column.name
         /\ column.capacity # n => AddValue(column, v).capacity = column.capacity
         /\ \A r \in 1 .. n : AddValue(column, v).data[r] = column.data[r]
<1> DEFINE data == Append(column.data, Stored(v))
           flags == FlagsWith(column, v)
           capacity == IF Len(column.data) = column.capacity THEN CapacityFor(column.capacity + 1)
                       ELSE column.capacity
<1>1. AddValue(column, v)
        = [name |-> column.name, declared |-> column.declared, data |-> data, null_flags |-> flags,
           capacity |-> capacity]
  <2>1. column = [name |-> column.name, declared |-> column.declared, data |-> column.data,
                  null_flags |-> column.null_flags, capacity |-> column.capacity]
    BY DEF Columns
  <2> HIDE DEF flags
  <2>2. AddValue(column, v)
          = [column EXCEPT !.data = data, !.null_flags = flags, !.capacity = capacity]
    BY Zenon DEF AddValue, flags
  <2> HIDE DEF data, capacity
  <2> QED BY <2>1, <2>2
<1>2. /\ column.name \in ColumnNames /\ column.declared \in Declarations
      /\ column.data \in Seq(Values) /\ Len(column.data) = n
      /\ column.capacity \in Nat /\ n <= column.capacity
      /\ column.null_flags \in Seq(BOOLEAN) \cup {None}
      /\ column.null_flags # None => Len(column.null_flags) = n
  BY DEF Columns, AsLong
<1>3. Stored(v) \in Values
  BY TableFilesAssumption DEF Stored
<1>4. data \in Seq(Values) /\ Len(data) = n + 1 /\ \A r \in 1 .. n : data[r] = column.data[r]
  BY <1>2, <1>3
<1>5. flags \in Seq(BOOLEAN) \cup {None} /\ (flags # None => Len(flags) = n + 1)
  <2>1. CASE column.null_flags # None
    <3> DEFINE b == v = Null
    <3>1. b \in BOOLEAN
      OBVIOUS
    <3>2. flags = Append(column.null_flags, b)
      BY <2>1 DEF FlagsWith
    <3> HIDE DEF b
    <3>3. column.null_flags \in Seq(BOOLEAN) /\ Len(column.null_flags) = n
      BY <1>2, <2>1
    <3> QED BY <3>1, <3>2, <3>3
  <2>2. CASE column.null_flags = None /\ v = Null
    <3>1. flags = [r \in 1 .. n + 1 |-> r > n]
      BY <1>2, <2>2 DEF FlagsWith
    <3> QED BY <3>1
  <2>3. CASE column.null_flags = None /\ v # Null
    BY <2>3 DEF FlagsWith
  <2> QED BY <2>1, <2>2, <2>3
<1>6. capacity \in Nat /\ n + 1 <= capacity /\ (column.capacity # n => capacity = column.capacity)
  <2>1. CASE column.capacity = n
    <3>1. n + 1 \in Nat /\ n + 1 <= MaxRows
      BY TableFilesAssumption
    <3>2. CapacityFor(n + 1) \in Nat /\ n + 1 <= CapacityFor(n + 1)
      BY <3>1, CapacityForFacts
    <3> QED BY <1>2, <2>1, <3>2
  <2>2. CASE column.capacity # n
    BY <1>2, <2>2
  <2> QED BY <2>1, <2>2
<1> HIDE DEF data, flags, capacity
<1> QED BY <1>1, <1>2, <1>4, <1>5, <1>6 DEF Columns, AsLong

(* cql_table_add_row                                                       *)
LEMMA GrownFacts ==
  ASSUME NEW t, WellFormed(t), t.row_count < MaxRows, NEW row \in [Names(t) -> Values \cup {Null}]
  PROVE  LET g == Grown(t, row)
         IN  /\ g = [row_count |-> t.row_count + 1, columns |-> g.columns, indexes |-> t.indexes]
             /\ g.columns \in Seq(Columns) /\ Len(g.columns) = Len(t.columns)
             /\ \A i \in DOMAIN t.columns :
                  /\ AsLong(g.columns[i], t.row_count + 1)
                  /\ g.columns[i].name = t.columns[i].name
                  /\ t.columns[i].capacity # t.row_count =>
                       g.columns[i].capacity = t.columns[i].capacity
                  /\ \A r \in 1 .. t.row_count : g.columns[i].data[r] = t.columns[i].data[r]
             /\ NamedApart(g.columns) /\ Names(g) = Names(t)
<1> DEFINE g == Grown(t, row)
           columns == [i \in DOMAIN t.columns |-> AddValue(t.columns[i], row[t.columns[i].name])]
<1>1. g = [row_count |-> t.row_count + 1, columns |-> columns, indexes |-> t.indexes]
  <2>1. g = [t EXCEPT !.columns = columns, !.row_count = t.row_count + 1]
    BY Zenon DEF Grown
  <2> HIDE DEF g, columns
  <2> QED BY <2>1, ColumnsCounted
<1>2. /\ t.row_count \in Nat /\ t.columns \in Seq(Columns) /\ NamedApart(t.columns)
      /\ \A i \in DOMAIN t.columns : AsLong(t.columns[i], t.row_count)
  BY DEF WellFormed
<1>3. ASSUME NEW i \in DOMAIN t.columns
      PROVE  /\ columns[i] \in Columns /\ AsLong(columns[i], t.row_count + 1)
             /\ columns[i].name = t.columns[i].name
             /\ t.columns[i].capacity # t.row_count => columns[i].capacity = t.columns[i].capacity
             /\ \A r \in 1 .. t.row_count : columns[i].data[r] = t.columns[i].data[r]
  <2> DEFINE column == t.columns[i]
             v == row[t.columns[i].name]
  <2>1. column \in Columns /\ AsLong(column, t.row_count) /\ v \in Values \cup {Null}
    BY <1>2 DEF Names
  <2>2. columns[i] = AddValue(column, v)
    OBVIOUS
  <2> HIDE DEF column, v, columns
  <2>3. /\ AddValue(column, v) \in Columns /\ AsLong(AddValue(column, v), t.row_count + 1)
        /\ AddValue(column, v).name = column.name
        /\ column.capacity # t.row_count => AddValue(column, v).capacity = column.capacity
        /\ \A r \in 1 .. t.row_count : AddValue(column, v).data[r] = column.data[r]
    BY <1>2, <2>1, AddValueFacts
  <2> QED BY <2>2, <2>3 DEF column
<1>4. columns = [i \in 1 .. Len(t.columns) |-> columns[i]] /\ DOMAIN t.columns = 1 .. Len(t.columns)
      /\ Len(t.columns) \in Nat /\ DOMAIN columns = DOMAIN t.columns
  BY <1>2
<1> HIDE DEF columns
<1>5. columns \in Seq(Columns) /\ Len(columns) = Len(t.columns)
  BY <1>3, <1>4
<1>6. Names(g) = Names(t) /\ NamedApart(columns)
  <2> HIDE DEF g
  <2>1. g.columns = columns
    BY <1>1
  <2>2. /\ DOMAIN columns = DOMAIN t.columns
        /\ \A i \in DOMAIN t.columns : columns[i].name = t.columns[i].name
    BY <1>3, <1>4
  <2> QED BY <1>2, <2>1, <2>2, SameNames
<1> HIDE DEF g
<1> QED BY <1>1, <1>3, <1>5, <1>6 DEF g

(* An index is extended by the last row, wherever its key belongs.          *)
LEMMA ExtendedFacts ==
  ASSUME NEW x \in Indexes, NEW g, NEW n \in Nat, g.row_count = n + 1, IsOrder(x.order, n)
  PROVE  /\ Extended(x, g) \in Indexes
         /\ Extended(x, g).name = x.name /\ Extended(x, g).column = x.column
         /\ Extended(x, g).order = InsertRow(x.order, ColumnOf(g, x.column).data, n + 1)
         /\ IsOrder(Extended(x, g).order, n + 1)
<1> DEFINE keys == ColumnOf(g, x.column).data
           order == InsertRow(x.order, keys, n + 1)
<1>1. x = [name |-> x.name, column |-> x.column, order |-> x.order]
      /\ x.name \in IndexNames /\ x.column \in ColumnNames /\ x.order \in Seq(Nat)
  BY DEF Indexes
<1>2. Extended(x, g) = [x EXCEPT !.order = order]
  BY Zenon DEF Extended
<1> HIDE DEF keys
<1>3. order \in Seq(Nat) /\ IsOrder(order, n + 1)
  BY <1>1, InsertRowIsOrder
<1> HIDE DEF order
<1>4. Extended(x, g) = [name |-> x.name, column |-> x.column, order |-> order]
  BY <1>1, <1>2
<1> QED BY <1>1, <1>3, <1>4 DEF Indexes, order, keys

LEMMA AddRowFacts ==
  ASSUME NEW t, WellFormed(t), t.row_count < MaxRows, NEW row \in [Names(t) -> Values \cup {Null}]
  PROVE  LET u == AddRow(t, row)
         IN  /\ WellFormed(u) /\ u.row_count = t.row_count + 1
             /\ Len(u.columns) = Len(t.columns)
             /\ \A i \in DOMAIN t.columns :
                  /\ u.columns[i].name = t.columns[i].name
                  /\ t.columns[i].capacity # t.row_count =>
                       u.columns[i].capacity = t.columns[i].capacity
                  /\ \A r \in 1 .. t.row_count : u.columns[i].data[r] = t.columns[i].data[r]
             /\ Ordered(t) => Ordered(u)
<1> DEFINE u == AddRow(t, row)
           n == t.row_count
           g == Grown(t, row)
           indexes == [i \in DOMAIN t.indexes |-> Extended(t.indexes[i], g)]
<1>1. /\ n \in Nat /\ n <= MaxRows /\ t.columns \in Seq(Columns)
      /\ t.indexes \in Seq(Indexes) /\ NamedApart(t.indexes)
      /\ \A i \in DOMAIN t.indexes :
           t.indexes[i].column \in Names(t) /\ IsOrder(t.indexes[i].order, n)
      /\ \A i \in DOMAIN t.columns : AsLong(t.columns[i], n)
      /\ NamedApart(t.columns)
  BY DEF WellFormed
<1>2. /\ g = [row_count |-> n + 1, columns |-> g.columns, indexes |-> t.indexes]
      /\ g.columns \in Seq(Columns) /\ Len(g.columns) = Len(t.columns)
      /\ \A i \in DOMAIN t.columns :
           /\ AsLong(g.columns[i], n + 1)
           /\ g.columns[i].name = t.columns[i].name
           /\ t.columns[i].capacity # n => g.columns[i].capacity = t.columns[i].capacity
           /\ \A r \in 1 .. n : g.columns[i].data[r] = t.columns[i].data[r]
      /\ NamedApart(g.columns) /\ Names(g) = Names(t)
  <2> HIDE DEF g
  <2> QED BY GrownFacts DEF g
<1>3. u = [row_count |-> n + 1, columns |-> g.columns, indexes |-> indexes]
  <2>1. u = [g EXCEPT !.indexes = [i \in DOMAIN g.indexes |-> Extended(g.indexes[i], g)]]
    BY Zenon DEF AddRow
  <2> HIDE DEF u, g
  <2>2. g.indexes = t.indexes
    BY <1>2
  <2>3. u = [g EXCEPT !.indexes = indexes]
    BY <2>1, <2>2
  <2> HIDE DEF indexes
  <2> QED BY <1>2, <2>3
<1> HIDE DEF u, g, n
<1>4. ASSUME NEW i \in DOMAIN t.indexes
      PROVE  /\ indexes[i] \in Indexes
             /\ indexes[i].name = t.indexes[i].name /\ indexes[i].column = t.indexes[i].column
             /\ indexes[i].order
                  = InsertRow(t.indexes[i].order, ColumnOf(g, t.indexes[i].column).data, n + 1)
             /\ IsOrder(indexes[i].order, n + 1)
  <2>1. t.indexes[i] \in Indexes /\ IsOrder(t.indexes[i].order, n) /\ g.row_count = n + 1
    BY <1>1, <1>2
  <2>2. indexes[i] = Extended(t.indexes[i], g)
    OBVIOUS
  <2> HIDE DEF indexes
  <2> QED BY <1>1, <2>1, <2>2, ExtendedFacts
<1>5. DOMAIN indexes = DOMAIN t.indexes /\ DOMAIN t.indexes = 1 .. Len(t.indexes)
      /\ Len(t.indexes) \in Nat
  BY <1>1
<1>6. indexes \in Seq(Indexes) /\ NamedApart(indexes)
  <2>1. \A i \in 1 .. Len(t.indexes) : indexes[i] \in Indexes
    BY <1>4, <1>5
  <2>2. indexes = [i \in 1 .. Len(t.indexes) |-> indexes[i]]
    BY <1>5
  <2> HIDE DEF indexes
  <2>3. [i \in 1 .. Len(t.indexes) |-> indexes[i]] \in Seq(Indexes)
    BY <1>5, <2>1
  <2>4. NamedApart(indexes)
    BY <1>1, <1>4, <1>5 DEF NamedApart
  <2> QED BY <2>2, <2>3, <2>4
<1> HIDE DEF indexes
<1>7. /\ u.row_count = n + 1 /\ u.columns = g.columns /\ u.indexes = indexes
      /\ u = [row_count |-> u.row_count, columns |-> u.columns, indexes |-> u.indexes]
  BY <1>3
<1>8. Names(u) = Names(t) /\ \A c : ColumnOf(u, c) = ColumnOf(g, c)
  <2>1. Names(u) = Names(g)
    BY <1>7, Zenon DEF Names
  <2>2. \A c : ColumnOf(u, c) = ColumnOf(g, c)
    BY <1>7, Zenon DEF ColumnOf
  <2> QED BY <1>2, <2>1, <2>2, Zenon
<1>9. DOMAIN g.columns = DOMAIN t.columns
  BY <1>1, <1>2
<1>10. WellFormed(u)
  <2>1. n + 1 \in Nat /\ n + 1 <= MaxRows
    BY <1>1, TableFilesAssumption DEF n
  <2>2. \A i \in DOMAIN u.columns : AsLong(u.columns[i], u.row_count)
    BY <1>2, <1>7, <1>9
  <2>3. \A i \in DOMAIN u.indexes :
          u.indexes[i].column \in Names(u) /\ IsOrder(u.indexes[i].order, u.row_count)
    BY <1>1, <1>4, <1>5, <1>7, <1>8
  <2> QED BY <1>2, <1>6, <1>7, <2>1, <2>2, <2>3 DEF WellFormed
<1>11. ASSUME Ordered(t), NEW i \in DOMAIN t.indexes
       PROVE  Sorted(indexes[i].order, ColumnOf(u, indexes[i].column).data)
  <2> DEFINE c == t.indexes[i].column
             order == t.indexes[i].order
             old == ColumnOf(t, c).data
             keys == ColumnOf(g, c).data
  <2>1. c \in Names(t) /\ c \in Names(g) /\ order \in Seq(Nat) /\ IsOrder(order, n)
        /\ Sorted(order, old)
    <3>1. t.indexes[i] \in Indexes /\ c \in Names(t) /\ IsOrder(order, n)
      BY <1>1
    <3>2. order \in Seq(Nat)
      BY <3>1 DEF Indexes
    <3>3. Sorted(order, old)
      BY <1>11 DEF Ordered
    <3> QED BY <1>2, <3>1, <3>2, <3>3
  <2>2. PICK j \in DOMAIN t.columns : t.columns[j].name = c /\ ColumnOf(t, c) = t.columns[j]
    BY <1>1, <2>1, ColumnOfFacts
  <2>3. ColumnOf(g, c) = g.columns[j]
    BY <1>2, <1>9, <2>2, ColumnOfFacts
  <2> HIDE DEF c, order
  <2>4. old = t.columns[j].data /\ keys = g.columns[j].data
    BY <2>2, <2>3
  <2> HIDE DEF old, keys
  <2>5. keys \in Seq(Int) /\ Len(keys) = n + 1 /\ \A r \in 1 .. n : keys[r] = old[r]
    <3>1. /\ j \in DOMAIN g.columns /\ g.columns[j] \in Columns /\ AsLong(g.columns[j], n + 1)
          /\ \A r \in 1 .. n : g.columns[j].data[r] = t.columns[j].data[r]
      BY <1>2, <1>9, <2>2
    <3>2. g.columns[j].data \in Seq(Int) /\ Len(g.columns[j].data) = n + 1
      BY <3>1, ValuesInt DEF AsLong, Columns
    <3> QED BY <2>4, <3>1, <3>2
  <2>6. Ascending(order, keys)
    <3>1. \A k \in DOMAIN order : order[k] \in 1 .. n
      BY <2>1 DEF IsOrder
    <3>2. Ascending(order, old)
      BY <2>1 DEF Sorted
    <3> QED BY <2>5, <3>1, <3>2 DEF Ascending
  <2>7. Sorted(InsertRow(order, keys, n + 1), keys)
    BY <1>1, <2>1, <2>5, <2>6, InsertRowKeepsOrder
  <2>8. indexes[i].order = InsertRow(order, keys, n + 1) /\ indexes[i].column = c
    BY <1>4 DEF order, keys, c
  <2> QED BY <1>8, <2>7, <2>8 DEF keys
<1>12. Ordered(t) => Ordered(u)
  BY <1>5, <1>7, <1>11 DEF Ordered
<1> QED BY <1>2, <1>7, <1>10, <1>12 DEF u, n

(* cql_table_remove_row                                                    *)
LEMMA RemoveValueFacts ==
  ASSUME NEW column \in Columns, NEW n \in Nat, AsLong(column, n), NEW r \in 1 .. n
  PROVE  /\ RemoveValue(column, r) \in Columns /\ AsLong(RemoveValue(column, r), n - 1)
         /\ RemoveValue(column, r).name = column.name
         /\ RemoveValue(column, r).data = KeysWithout(column.data, r)
<1> DEFINE data == RemoveAt(column.data, r)
           flags == IF column.null_flags = None THEN None ELSE RemoveAt(column.null_flags, r)
<1>1. /\ column.name \in ColumnNames /\ column.declared \in Declarations
      /\ column.data \in Seq(Values) /\ Len(column.data) = n
      /\ column.null_flags \in Seq(BOOLEAN) \cup {None}
      /\ column.null_flags # None => Len(column.null_flags) = n
      /\ column.capacity \in Nat /\ n <= column.capacity
      /\ column = [name |-> column.name, declared |-> column.declared, data |-> column.data,
                   null_flags |-> column.null_flags, capacity |-> column.capacity]
  BY DEF Columns, AsLong
<1>2. RemoveValue(column, r)
        = [name |-> column.name, declared |-> column.declared, data |-> data, null_flags |-> flags,
           capacity |-> column.capacity]
  <2>1. RemoveValue(column, r) = [column EXCEPT !.data = data, !.null_flags = flags]
    BY Zenon DEF RemoveValue
  <2> HIDE DEF data, flags
  <2> QED BY <1>1, <2>1
<1>3. /\ data \in Seq(Values) /\ Len(data) = n - 1
      /\ \A j \in 1 .. n - 1 : data[j] = IF j < r THEN column.data[j] ELSE column.data[j + 1]
  BY <1>1, RemoveAtFacts
<1>4. flags \in Seq(BOOLEAN) \cup {None} /\ (flags # None => Len(flags) = n - 1)
  <2>1. CASE column.null_flags = None
    BY <2>1
  <2>2. CASE column.null_flags # None
    <3> DEFINE old == column.null_flags
    <3>1. old \in Seq(BOOLEAN) /\ Len(old) = n /\ flags = RemoveAt(old, r)
      BY <1>1, <2>2
    <3> HIDE DEF old
    <3>2. RemoveAt(old, r) \in Seq(BOOLEAN) /\ Len(RemoveAt(old, r)) = n - 1
      BY <3>1, RemoveAtFacts
    <3> HIDE DEF flags
    <3> QED BY <3>1, <3>2
  <2> QED BY <2>1, <2>2
<1>6. n - 1 <= column.capacity
  BY <1>1
<1> HIDE DEF data, flags
<1>5. data = KeysWithout(column.data, r)
  <2>1. n - 1 \in Nat /\ DOMAIN data = 1 .. n - 1 /\ data = [j \in 1 .. n - 1 |-> data[j]]
    BY <1>3
  <2> QED BY <1>1, <1>3, <2>1 DEF KeysWithout
<1> QED BY <1>1, <1>2, <1>3, <1>4, <1>5, <1>6 DEF Columns, AsLong

LEMMA ShortenedFacts ==
  ASSUME NEW x \in Indexes, NEW n \in Nat, IsOrder(x.order, n), NEW r \in 1 .. n
  PROVE  /\ Shortened(x, r) \in Indexes
         /\ Shortened(x, r).name = x.name /\ Shortened(x, r).column = x.column
         /\ Shortened(x, r).order = RemoveRow(x.order, r)
         /\ IsOrder(Shortened(x, r).order, n - 1)
<1> DEFINE order == RemoveRow(x.order, r)
<1>1. x = [name |-> x.name, column |-> x.column, order |-> x.order]
      /\ x.name \in IndexNames /\ x.column \in ColumnNames /\ x.order \in Seq(Nat)
  BY DEF Indexes
<1>2. Shortened(x, r) = [x EXCEPT !.order = order]
  BY Zenon DEF Shortened
<1>3. order \in Seq(Nat) /\ IsOrder(order, n - 1)
  BY <1>1, RemovedIsOrder
<1> HIDE DEF order
<1>4. Shortened(x, r) = [name |-> x.name, column |-> x.column, order |-> order]
  BY <1>1, <1>2
<1> QED BY <1>1, <1>3, <1>4 DEF Indexes, order

LEMMA RemoveTableRowFacts ==
  ASSUME NEW t, WellFormed(t), NEW r \in 1 .. t.row_count
  PROVE  LET u == RemoveTableRow(t, r)
         IN  WellFormed(u) /\ (Ordered(t) => Ordered(u))
<1> DEFINE u == RemoveTableRow(t, r)
           n == t.row_count
           columns == [i \in DOMAIN t.columns |-> RemoveValue(t.columns[i], r)]
           indexes == [i \in DOMAIN t.indexes |-> Shortened(t.indexes[i], r)]
<1>1. /\ n \in Nat /\ n <= MaxRows /\ t.columns \in Seq(Columns)
      /\ t.indexes \in Seq(Indexes) /\ NamedApart(t.indexes)
      /\ \A i \in DOMAIN t.indexes :
           t.indexes[i].column \in Names(t) /\ IsOrder(t.indexes[i].order, n)
      /\ \A i \in DOMAIN t.columns : AsLong(t.columns[i], n)
      /\ NamedApart(t.columns)
  BY DEF WellFormed
<1>2. u = [row_count |-> n - 1, columns |-> columns, indexes |-> indexes]
  <2>1. u = [t EXCEPT !.row_count = n - 1, !.columns = columns, !.indexes = indexes]
    BY Zenon DEF RemoveTableRow
  <2> DEFINE m == n - 1
  <2> HIDE DEF u, columns, indexes, m
  <2>2. [t EXCEPT !.row_count = m, !.columns = columns, !.indexes = indexes]
          = [row_count |-> m, columns |-> columns, indexes |-> indexes]
    BY TableRewritten, ZenonT(60)
  <2> QED BY <2>1, <2>2 DEF m
<1> HIDE DEF u
<1>3. n - 1 \in Nat /\ n - 1 <= MaxRows
  BY TableFilesAssumption DEF WellFormed
<1>4. ASSUME NEW i \in DOMAIN t.columns
      PROVE  /\ columns[i] \in Columns /\ AsLong(columns[i], n - 1)
             /\ columns[i].name = t.columns[i].name
             /\ columns[i].data = KeysWithout(t.columns[i].data, r)
  <2>1. t.columns[i] \in Columns /\ AsLong(t.columns[i], n)
    BY <1>1
  <2>2. columns[i] = RemoveValue(t.columns[i], r)
    OBVIOUS
  <2> HIDE DEF columns
  <2> QED BY <1>1, <2>1, <2>2, RemoveValueFacts
<1>5. ASSUME NEW i \in DOMAIN t.indexes
      PROVE  /\ indexes[i] \in Indexes
             /\ indexes[i].name = t.indexes[i].name /\ indexes[i].column = t.indexes[i].column
             /\ indexes[i].order = RemoveRow(t.indexes[i].order, r)
             /\ IsOrder(indexes[i].order, n - 1)
  <2>1. t.indexes[i] \in Indexes /\ IsOrder(t.indexes[i].order, n)
    BY <1>1
  <2>2. indexes[i] = Shortened(t.indexes[i], r)
    OBVIOUS
  <2> HIDE DEF indexes
  <2> QED BY <1>1, <2>1, <2>2, ShortenedFacts
<1>6. /\ DOMAIN indexes = DOMAIN t.indexes /\ DOMAIN t.indexes = 1 .. Len(t.indexes)
      /\ DOMAIN columns = DOMAIN t.columns /\ DOMAIN t.columns = 1 .. Len(t.columns)
      /\ Len(t.indexes) \in Nat /\ Len(t.columns) \in Nat
      /\ indexes = [i \in DOMAIN t.indexes |-> indexes[i]]
      /\ columns = [i \in DOMAIN t.columns |-> columns[i]]
  BY <1>1
<1> HIDE DEF columns, indexes
<1>7. indexes \in Seq(Indexes) /\ columns \in Seq(Columns)
  <2>1. \A i \in 1 .. Len(t.indexes) : indexes[i] \in Indexes
    BY <1>5, <1>6
  <2>2. \A i \in 1 .. Len(t.columns) : columns[i] \in Columns
    BY <1>4, <1>6
  <2>3. [i \in 1 .. Len(t.indexes) |-> indexes[i]] \in Seq(Indexes)
    BY <1>6, <2>1, SMTT(60)
  <2>4. [i \in 1 .. Len(t.columns) |-> columns[i]] \in Seq(Columns)
    BY <1>6, <2>2, SMTT(60)
  <2> QED BY <1>6, <2>3, <2>4
<1>8. /\ u.row_count = n - 1 /\ u.columns = columns /\ u.indexes = indexes
      /\ u = [row_count |-> u.row_count, columns |-> u.columns, indexes |-> u.indexes]
  BY <1>2
<1>9. Names(u) = Names(t) /\ NamedApart(columns) /\ NamedApart(indexes)
  <2>1. Names(u) = Names(t) /\ NamedApart(columns)
    BY <1>1, <1>4, <1>6, <1>8, SameNames
  <2>2. NamedApart(indexes)
    BY <1>1, <1>5, <1>6 DEF NamedApart
  <2> QED BY <2>1, <2>2
<1>10. WellFormed(u)
  <2>1. \A i \in DOMAIN u.columns : AsLong(u.columns[i], u.row_count)
    BY <1>4, <1>6, <1>8
  <2>2. \A i \in DOMAIN u.indexes :
          u.indexes[i].column \in Names(u) /\ IsOrder(u.indexes[i].order, u.row_count)
    BY <1>1, <1>5, <1>6, <1>8, <1>9
  <2> QED BY <1>3, <1>7, <1>8, <1>9, <2>1, <2>2 DEF WellFormed
<1>11. ASSUME Ordered(t), NEW i \in DOMAIN t.indexes
       PROVE  Sorted(indexes[i].order, ColumnOf(u, indexes[i].column).data)
  <2> DEFINE c == t.indexes[i].column
             order == t.indexes[i].order
             old == ColumnOf(t, c).data
  <2>1. c \in Names(t) /\ order \in Seq(Nat) /\ Sorted(order, old)
    <3>1. t.indexes[i] \in Indexes /\ c \in Names(t)
      BY <1>1
    <3>2. order \in Seq(Nat)
      BY <3>1 DEF Indexes
    <3>3. Sorted(order, old)
      BY <1>11 DEF Ordered
    <3> QED BY <3>1, <3>2, <3>3
  <2>2. PICK j \in DOMAIN t.columns : t.columns[j].name = c /\ ColumnOf(t, c) = t.columns[j]
    BY <1>1, <2>1, ColumnOfFacts
  <2>3. ColumnOf(u, c) = columns[j]
    <3>1. columns[j].name = c /\ j \in DOMAIN u.columns /\ NamedApart(u.columns)
      BY <1>4, <1>6, <1>8, <1>9, <2>2
    <3> HIDE DEF c
    <3> QED BY <1>8, <3>1, ColumnOfFacts
  <2> HIDE DEF c, order
  <2>4. old = t.columns[j].data /\ ColumnOf(u, c).data = KeysWithout(old, r)
    BY <1>4, <2>2, <2>3
  <2> HIDE DEF old
  <2>5. old \in Seq(Int) /\ Len(old) = n
    <3>1. t.columns[j] \in Columns /\ AsLong(t.columns[j], n)
      BY <1>1, <2>2
    <3> QED BY <2>4, <3>1, ValuesInt DEF AsLong, Columns
  <2>6. Sorted(RemoveRow(order, r), KeysWithout(old, r))
    BY <1>1, <2>1, <2>5, RemoveKeepsOrder
  <2>7. indexes[i].order = RemoveRow(order, r) /\ indexes[i].column = c
    BY <1>5 DEF order, c
  <2> QED BY <2>4, <2>6, <2>7
<1>12. Ordered(t) => Ordered(u)
  BY <1>6, <1>8, <1>11 DEF Ordered
<1> QED BY <1>10, <1>12 DEF u

(* ALTER TABLE ... ADD COLUMN and DROP COLUMN                               *)
LEMMA WithColumnFacts ==
  ASSUME NEW t, WellFormed(t), NEW c \in ColumnNames \ Names(t)
  PROVE  LET u == WithColumn(t, c)
         IN  WellFormed(u) /\ (Ordered(t) => Ordered(u))
<1> DEFINE u == WithColumn(t, c)
           n == t.row_count
           k == Len(t.columns)
           new == NewColumn(c, n, None)
           column == IF n = 0 THEN new ELSE [new EXCEPT !.null_flags = [r \in 1 .. n |-> TRUE]]
           columns == Append(t.columns, column)
<1>1. /\ n \in Nat /\ n <= MaxRows /\ t.columns \in Seq(Columns)
      /\ t.indexes \in Seq(Indexes) /\ NamedApart(t.indexes)
      /\ \A i \in DOMAIN t.indexes :
           t.indexes[i].column \in Names(t) /\ IsOrder(t.indexes[i].order, n)
      /\ \A i \in DOMAIN t.columns : AsLong(t.columns[i], n)
      /\ NamedApart(t.columns)
  BY DEF WellFormed
<1>2. u = [row_count |-> n, columns |-> columns, indexes |-> t.indexes]
  <2>1. u = [t EXCEPT !.columns = columns]
    BY Zenon DEF WithColumn
  <2> HIDE DEF u, columns
  <2> QED BY <2>1, ColumnsReplaced
<1> HIDE DEF u
<1>3. column \in Columns /\ AsLong(column, n) /\ column.name = c
  <2> DEFINE data == [r \in 1 .. n |-> 0]
             flags == IF n = 0 THEN None ELSE [r \in 1 .. n |-> TRUE]
             capacity == CapacityFor(n)
  <2>1. column = [name |-> c, declared |-> None, data |-> data, null_flags |-> flags,
                  capacity |-> capacity]
    <3>1. new = [name |-> c, declared |-> None, data |-> data, null_flags |-> None,
                 capacity |-> capacity]
      BY DEF NewColumn
    <3> HIDE DEF new, data, capacity
    <3> QED BY <3>1
  <2>2. data \in Seq(Values) /\ Len(data) = n
    BY <1>1, TableFilesAssumption
  <2>5. capacity \in Nat /\ n <= capacity
    BY CapacityForFacts DEF WellFormed
  <2>3. flags \in Seq(BOOLEAN) \cup {None} /\ (flags # None => Len(flags) = n)
    <3> DEFINE b == TRUE
    <3>0. b \in BOOLEAN /\ flags = IF n = 0 THEN None ELSE [r \in 1 .. n |-> b]
      OBVIOUS
    <3> HIDE DEF b, flags
    <3>1. [r \in 1 .. n |-> b] \in Seq(BOOLEAN) /\ Len([r \in 1 .. n |-> b]) = n
      BY <1>1, <3>0
    <3>2. CASE n = 0
      BY <3>0, <3>2
    <3>3. CASE n # 0
      BY <3>0, <3>1, <3>3
    <3> QED BY <3>2, <3>3
  <2>4. None \in Declarations
    BY DEF Declarations
  <2> HIDE DEF data, flags, column, capacity
  <2> QED BY <2>1, <2>2, <2>3, <2>4, <2>5 DEF Columns, AsLong
<1> HIDE DEF column
<1>4. /\ columns \in Seq(Columns) /\ DOMAIN columns = 1 .. k + 1 /\ DOMAIN t.columns = 1 .. k
      /\ k \in Nat /\ columns[k + 1] = column /\ \A i \in 1 .. k : columns[i] = t.columns[i]
  <2> DEFINE s == t.columns
  <2>1. s \in Seq(Columns)
    BY <1>1
  <2> HIDE DEF s
  <2>2. /\ Append(s, column) \in Seq(Columns) /\ DOMAIN Append(s, column) = 1 .. Len(s) + 1
        /\ DOMAIN s = 1 .. Len(s) /\ Len(s) \in Nat /\ Append(s, column)[Len(s) + 1] = column
        /\ \A i \in 1 .. Len(s) : Append(s, column)[i] = s[i]
    BY <1>3, <2>1
  <2> QED BY <2>2 DEF s
<1> HIDE DEF columns, k
<1>5. /\ u.row_count = n /\ u.columns = columns /\ u.indexes = t.indexes
      /\ u = [row_count |-> u.row_count, columns |-> u.columns, indexes |-> u.indexes]
  BY <1>2
<1>6. \A i \in DOMAIN columns : i # k + 1 => i \in DOMAIN t.columns
  BY <1>4
<1>7. NamedApart(columns)
  <2>1. \A i \in DOMAIN t.columns : t.columns[i].name # c
    BY DEF Names
  <2> QED BY <1>1, <1>3, <1>4, <1>6, <2>1 DEF NamedApart
<1>8. ASSUME NEW d \in Names(t)
      PROVE  d \in Names(u) /\ ColumnOf(u, d) = ColumnOf(t, d)
  <2>1. PICK i \in DOMAIN t.columns : t.columns[i].name = d /\ ColumnOf(t, d) = t.columns[i]
    BY <1>1, ColumnOfFacts
  <2>2. i \in DOMAIN columns /\ columns[i] = t.columns[i]
    BY <1>4
  <2>3. NamedApart(u.columns)
    BY <1>5, <1>7
  <2>4. \A j \in DOMAIN u.columns :
          u.columns[j].name \in Names(u) /\ ColumnOf(u, u.columns[j].name) = u.columns[j]
    BY <2>3, ColumnOfFacts
  <2> QED BY <1>5, <2>1, <2>2, <2>4
<1>9. WellFormed(u)
  <2>1. \A i \in DOMAIN u.columns : AsLong(u.columns[i], u.row_count)
    BY <1>1, <1>3, <1>4, <1>5, <1>6
  <2>2. \A i \in DOMAIN u.indexes :
          u.indexes[i].column \in Names(u) /\ IsOrder(u.indexes[i].order, u.row_count)
    BY <1>1, <1>5, <1>8
  <2> QED BY <1>1, <1>4, <1>5, <1>7, <2>1, <2>2 DEF WellFormed
<1>10. Ordered(t) => Ordered(u)
  BY <1>1, <1>5, <1>8 DEF Ordered
<1> QED BY <1>9, <1>10 DEF u

LEMMA WithoutColumnFacts ==
  ASSUME NEW t, WellFormed(t), NEW p \in DOMAIN t.columns
  PROVE  LET u == WithoutColumn(t, p)
         IN  WellFormed(u) /\ (Ordered(t) => Ordered(u))
<1> DEFINE u == WithoutColumn(t, p)
           n == t.row_count
           k == Len(t.columns)
           c == t.columns[p].name
           columns == RemoveAt(t.columns, p)
           indexes == IndexesWithout(t.indexes, c)
<1>1. /\ n \in Nat /\ n <= MaxRows /\ t.columns \in Seq(Columns)
      /\ t.indexes \in Seq(Indexes) /\ NamedApart(t.indexes)
      /\ \A i \in DOMAIN t.indexes :
           t.indexes[i].column \in Names(t) /\ IsOrder(t.indexes[i].order, n)
      /\ \A i \in DOMAIN t.columns : AsLong(t.columns[i], n)
      /\ NamedApart(t.columns)
  BY DEF WellFormed
<1>2. u = [row_count |-> n, columns |-> columns, indexes |-> indexes]
  <2>1. u = [t EXCEPT !.columns = columns, !.indexes = indexes]
    BY Zenon DEF WithoutColumn
  <2> HIDE DEF u, columns, indexes
  <2> QED BY <2>1, BothReplaced
<1> HIDE DEF u
<1>3. /\ columns \in Seq(Columns) /\ DOMAIN columns = 1 .. k - 1 /\ DOMAIN t.columns = 1 .. k
      /\ k \in Nat
      /\ \A i \in 1 .. k - 1 : columns[i] = IF i < p THEN t.columns[i] ELSE t.columns[i + 1]
  <2> DEFINE s == t.columns
  <2>1. s \in Seq(Columns) /\ p \in 1 .. Len(s) /\ DOMAIN s = 1 .. Len(s) /\ Len(s) \in Nat
    BY <1>1
  <2> HIDE DEF s
  <2> DEFINE w == RemoveAt(s, p)
  <2>2. /\ w \in Seq(Columns) /\ Len(w) = Len(s) - 1
        /\ \A i \in 1 .. Len(s) - 1 : w[i] = IF i < p THEN s[i] ELSE s[i + 1]
    BY <2>1, RemoveAtFacts
  <2> HIDE DEF w
  <2>3. DOMAIN w = 1 .. Len(s) - 1
    BY <2>2
  <2> QED BY <2>1, <2>2, <2>3 DEF s, w
<1>4. /\ indexes \in Seq(Indexes) /\ NamedApart(indexes)
      /\ \A i \in DOMAIN indexes : \E j \in DOMAIN t.indexes :
           indexes[i] = t.indexes[j] /\ t.indexes[j].column # c
  <2> PICK s : s = t.indexes
    OBVIOUS
  <2> PICK d : d = c
    OBVIOUS
  <2> PICK S : S = Indexes
    OBVIOUS
  <2>1. s \in Seq(S) /\ NamedApart(s)
    BY <1>1
  <2>2. /\ IndexesWithout(s, d) \in Seq(S)
        /\ \A i \in DOMAIN IndexesWithout(s, d) : \E j \in DOMAIN s :
             IndexesWithout(s, d)[i] = s[j] /\ s[j].column # d
        /\ NamedApart(s) => NamedApart(IndexesWithout(s, d))
    BY ONLY <2>1, IndexesWithoutFacts
  <2>3. indexes = IndexesWithout(s, d)
    OBVIOUS
  <2> HIDE DEF c, indexes
  <2> QED BY <2>1, <2>2, <2>3
<1> HIDE DEF columns, indexes, k
<1> DEFINE Old(i) == IF i < p THEN i ELSE i + 1
<1>5. \A i \in DOMAIN columns : Old(i) \in DOMAIN t.columns /\ columns[i] = t.columns[Old(i)]
  BY <1>3
<1>6. \A i, j \in DOMAIN columns : Old(i) = Old(j) => i = j
  BY <1>3
<1>7. \A j \in DOMAIN t.columns : j # p => \E i \in DOMAIN columns : Old(i) = j
  <2> TAKE j \in DOMAIN t.columns
  <2>1. j < p => j \in DOMAIN columns /\ Old(j) = j
    BY <1>3
  <2>2. j > p => j - 1 \in DOMAIN columns /\ Old(j - 1) = j
    BY <1>3
  <2>3. j < p \/ j > p \/ j = p
    BY <1>3
  <2> HIDE DEF Old
  <2> QED BY <2>1, <2>2, <2>3
<1> HIDE DEF Old
<1>8. /\ u.row_count = n /\ u.columns = columns /\ u.indexes = indexes
      /\ u = [row_count |-> u.row_count, columns |-> u.columns, indexes |-> u.indexes]
  BY <1>2
<1>9. NamedApart(u.columns)
  BY <1>1, <1>5, <1>6, <1>8 DEF NamedApart
<1>10. ASSUME NEW d \in Names(t) \ {c}
       PROVE  d \in Names(u) /\ ColumnOf(u, d) = ColumnOf(t, d)
  <2>1. PICK j \in DOMAIN t.columns : t.columns[j].name = d /\ ColumnOf(t, d) = t.columns[j]
    BY <1>1, ColumnOfFacts
  <2>2. PICK i \in DOMAIN columns : Old(i) = j
    BY <1>7, <2>1
  <2>3. \A i2 \in DOMAIN u.columns :
          u.columns[i2].name \in Names(u) /\ ColumnOf(u, u.columns[i2].name) = u.columns[i2]
    BY <1>9, ColumnOfFacts
  <2> QED BY <1>5, <1>8, <2>1, <2>2, <2>3
<1>11. ASSUME NEW i \in DOMAIN u.indexes
       PROVE  \E j \in DOMAIN t.indexes :
                u.indexes[i] = t.indexes[j] /\ t.indexes[j].column \in Names(t) \ {c}
  BY <1>1, <1>4, <1>8
<1> HIDE DEF c
<1>12. WellFormed(u)
  <2>1. \A i \in DOMAIN u.columns : AsLong(u.columns[i], u.row_count)
    BY <1>1, <1>5, <1>8
  <2>2. \A i \in DOMAIN u.indexes :
          u.indexes[i].column \in Names(u) /\ IsOrder(u.indexes[i].order, u.row_count)
    BY <1>1, <1>8, <1>10, <1>11
  <2> QED BY <1>1, <1>3, <1>4, <1>8, <1>9, <2>1, <2>2 DEF WellFormed
<1>13. Ordered(t) => Ordered(u)
  BY <1>10, <1>11 DEF Ordered
<1> QED BY <1>12, <1>13 DEF u

(* CREATE INDEX and DROP INDEX                                              *)
LEMMA WithIndexFacts ==
  ASSUME NEW t, WellFormed(t), NEW x \in IndexNames \ {t.indexes[i].name : i \in DOMAIN t.indexes},
         NEW c \in Names(t), NEW order \in Orders(ColumnOf(t, c).data)
  PROVE  LET u == WithIndex(t, x, c, order)
         IN  /\ WellFormed(u) /\ (Ordered(t) => Ordered(u))
             /\ u.row_count = t.row_count /\ u.columns = t.columns
<1> DEFINE u == WithIndex(t, x, c, order)
           n == t.row_count
           k == Len(t.indexes)
           index == [name |-> x, column |-> c, order |-> order]
           indexes == Append(t.indexes, index)
<1>1. /\ n \in Nat /\ n <= MaxRows /\ t.columns \in Seq(Columns)
      /\ t.indexes \in Seq(Indexes) /\ NamedApart(t.indexes)
      /\ \A i \in DOMAIN t.indexes :
           t.indexes[i].column \in Names(t) /\ IsOrder(t.indexes[i].order, n)
      /\ \A i \in DOMAIN t.columns : AsLong(t.columns[i], n)
      /\ NamedApart(t.columns)
  BY DEF WellFormed
<1>2. u = [row_count |-> n, columns |-> t.columns, indexes |-> indexes]
  <2>1. u = [t EXCEPT !.indexes = indexes]
    BY Zenon DEF WithIndex
  <2> HIDE DEF u, indexes
  <2> QED BY <2>1, IndexesReplaced
<1> HIDE DEF u
<1>3. /\ order \in Seq(Nat) /\ Sorted(order, ColumnOf(t, c).data) /\ IsOrder(order, n)
      /\ c \in ColumnNames
  <2>1. PICK i \in DOMAIN t.columns : t.columns[i].name = c /\ ColumnOf(t, c) = t.columns[i]
    BY <1>1, ColumnOfFacts
  <2> DEFINE keys == ColumnOf(t, c).data
  <2>2. keys \in Seq(Int) /\ Len(keys) = n /\ c \in ColumnNames
    <3>1. t.columns[i] \in Columns /\ AsLong(t.columns[i], n)
      BY <1>1
    <3> QED BY <2>1, <3>1, ValuesInt DEF Columns, AsLong
  <2> HIDE DEF keys
  <2>3. order \in Seq(Nat) /\ Sorted(order, keys)
    <3>1. order \in Orders(keys)
      BY DEF keys
    <3> QED BY <2>2, <3>1, OrdersFacts
  <2> QED BY <2>2, <2>3 DEF Sorted, keys
<1>4. index \in Indexes /\ index.name = x /\ index.column = c /\ index.order = order
  BY <1>3 DEF Indexes
<1> HIDE DEF index
<1>5. /\ indexes \in Seq(Indexes) /\ DOMAIN indexes = 1 .. k + 1 /\ DOMAIN t.indexes = 1 .. k
      /\ k \in Nat /\ indexes[k + 1] = index /\ \A i \in 1 .. k : indexes[i] = t.indexes[i]
  <2> DEFINE s == t.indexes
  <2>1. s \in Seq(Indexes)
    BY <1>1
  <2> HIDE DEF s
  <2>2. /\ Append(s, index) \in Seq(Indexes) /\ DOMAIN Append(s, index) = 1 .. Len(s) + 1
        /\ DOMAIN s = 1 .. Len(s) /\ Len(s) \in Nat /\ Append(s, index)[Len(s) + 1] = index
        /\ \A i \in 1 .. Len(s) : Append(s, index)[i] = s[i]
    BY <1>4, <2>1
  <2> QED BY <2>2 DEF s
<1> HIDE DEF indexes, k
<1>6. /\ u.row_count = n /\ u.columns = t.columns /\ u.indexes = indexes
      /\ u = [row_count |-> u.row_count, columns |-> u.columns, indexes |-> u.indexes]
  BY <1>2
<1>7. \A i \in DOMAIN indexes : i # k + 1 => i \in DOMAIN t.indexes
  BY <1>5
<1>8. NamedApart(indexes)
  <2>1. \A i \in DOMAIN t.indexes : t.indexes[i].name # x
    OBVIOUS
  <2> QED BY <1>1, <1>4, <1>5, <1>7, <2>1 DEF NamedApart
<1>9. Names(u) = Names(t) /\ \A d : ColumnOf(u, d) = ColumnOf(t, d)
  BY <1>6 DEF Names, ColumnOf
<1>10. WellFormed(u)
  <2>1. \A i \in DOMAIN u.indexes :
          u.indexes[i].column \in Names(u) /\ IsOrder(u.indexes[i].order, u.row_count)
    BY <1>1, <1>3, <1>4, <1>5, <1>6, <1>7, <1>9
  <2> QED BY <1>1, <1>5, <1>6, <1>8, <2>1 DEF WellFormed
<1>11. Ordered(t) => Ordered(u)
  BY <1>3, <1>4, <1>5, <1>6, <1>7, <1>9 DEF Ordered
<1> QED BY <1>6, <1>10, <1>11 DEF u

LEMMA WithoutIndexFacts ==
  ASSUME NEW t, WellFormed(t), NEW p \in DOMAIN t.indexes
  PROVE  LET u == WithoutIndex(t, p)
         IN  /\ WellFormed(u) /\ (Ordered(t) => Ordered(u))
             /\ u.row_count = t.row_count /\ u.columns = t.columns
<1> DEFINE u == WithoutIndex(t, p)
           n == t.row_count
           indexes == RemoveAt(t.indexes, p)
<1>1. /\ n \in Nat /\ n <= MaxRows /\ t.columns \in Seq(Columns)
      /\ t.indexes \in Seq(Indexes) /\ NamedApart(t.indexes)
      /\ \A i \in DOMAIN t.indexes :
           t.indexes[i].column \in Names(t) /\ IsOrder(t.indexes[i].order, n)
      /\ \A i \in DOMAIN t.columns : AsLong(t.columns[i], n)
      /\ NamedApart(t.columns)
  BY DEF WellFormed
<1>2. u = [row_count |-> n, columns |-> t.columns, indexes |-> indexes]
  <2>1. u = [t EXCEPT !.indexes = indexes]
    BY Zenon DEF WithoutIndex
  <2> HIDE DEF u, indexes
  <2> QED BY <2>1, IndexesReplaced
<1> HIDE DEF u
<1> DEFINE Old(i) == IF i < p THEN i ELSE i + 1
<1>3. /\ indexes \in Seq(Indexes)
      /\ \A i \in DOMAIN indexes : Old(i) \in DOMAIN t.indexes /\ indexes[i] = t.indexes[Old(i)]
      /\ \A i, j \in DOMAIN indexes : Old(i) = Old(j) => i = j
  <2> DEFINE s == t.indexes
  <2>1. s \in Seq(Indexes) /\ p \in 1 .. Len(s) /\ DOMAIN s = 1 .. Len(s) /\ Len(s) \in Nat
    BY <1>1
  <2> HIDE DEF s
  <2> DEFINE w == RemoveAt(s, p)
  <2>2. /\ w \in Seq(Indexes) /\ Len(w) = Len(s) - 1
        /\ \A i \in 1 .. Len(s) - 1 : w[i] = IF i < p THEN s[i] ELSE s[i + 1]
    BY <2>1, RemoveAtFacts
  <2> HIDE DEF w
  <2>3. DOMAIN w = 1 .. Len(s) - 1
    BY <2>2
  <2>4. \A i \in DOMAIN w : Old(i) \in DOMAIN s /\ w[i] = s[Old(i)]
    BY <2>1, <2>2, <2>3
  <2>5. \A i, j \in DOMAIN w : Old(i) = Old(j) => i = j
    BY <2>1, <2>3
  <2> QED BY <2>2, <2>4, <2>5 DEF s, w
<1> HIDE DEF indexes, Old
<1>4. /\ u.row_count = n /\ u.columns = t.columns /\ u.indexes = indexes
      /\ u = [row_count |-> u.row_count, columns |-> u.columns, indexes |-> u.indexes]
  BY <1>2
<1>5. Names(u) = Names(t) /\ \A d : ColumnOf(u, d) = ColumnOf(t, d)
  BY <1>4 DEF Names, ColumnOf
<1>6. NamedApart(indexes)
  BY <1>1, <1>3 DEF NamedApart
<1>7. WellFormed(u)
  <2>1. \A i \in DOMAIN u.indexes :
          u.indexes[i].column \in Names(u) /\ IsOrder(u.indexes[i].order, u.row_count)
    BY <1>1, <1>3, <1>4, <1>5
  <2> QED BY <1>1, <1>3, <1>4, <1>6, <2>1 DEF WellFormed
<1>8. Ordered(t) => Ordered(u)
  BY <1>3, <1>4, <1>5 DEF Ordered
<1> QED BY <1>4, <1>7, <1>8 DEF u

-------------------------------------------------------------------------------
(* What a save writes.                                                     *)

AllListed(s, u) == \A w : Listed(w, s) => Listed(w, u)

LEMMA ConcatFacts ==
  ASSUME NEW S, NEW s \in Seq(S), NEW u \in Seq(S)
  PROVE  s \o u \in Seq(S) /\ AllListed(s, s \o u) /\ AllListed(u, s \o u)
<1>1. s \o u \in Seq(S) /\ DOMAIN (s \o u) = 1 .. Len(s) + Len(u)
  OBVIOUS
<1>2. ASSUME NEW i \in DOMAIN s PROVE i \in DOMAIN (s \o u) /\ (s \o u)[i] = s[i]
  BY <1>1
<1>3. ASSUME NEW i \in DOMAIN u
      PROVE  Len(s) + i \in DOMAIN (s \o u) /\ (s \o u)[Len(s) + i] = u[i]
  BY <1>1
<1> QED BY <1>1, <1>2, <1>3 DEF Listed, AllListed

IsWriting(f, columns, m) ==
  f = [k \in 0 .. m |-> IF k = 0 THEN <<>> ELSE f[k - 1] \o ColumnWrites(columns[k])]

LEMMA ColumnsWritesIsWriting ==
  ASSUME NEW columns
  PROVE  ColumnsWrites(columns)
           = (CHOOSE f : IsWriting(f, columns, Len(columns)))[Len(columns)]
BY DEF ColumnsWrites, IsWriting

LEMMA WritingExists ==
  ASSUME NEW columns, NEW m \in Nat
  PROVE  \E f : IsWriting(f, columns, m)
<1> DEFINE Bad == {k \in Nat : ~ \E f : IsWriting(f, columns, k)}
<1>1. Bad = {}
  <2> SUFFICES ASSUME Bad # {} PROVE FALSE
    OBVIOUS
  <2>1. PICK k \in Bad : \A j \in Bad : k <= j
    <3>1. Bad \subseteq Nat
      OBVIOUS
    <3> HIDE DEF Bad
    <3> QED BY <3>1, LeastNat
  <2>2. k \in Nat /\ ~ \E f : IsWriting(f, columns, k)
    OBVIOUS
  <2>3. k # 0
    <3>1. IsWriting([j \in 0 .. 0 |-> <<>>], columns, 0)
      BY DEF IsWriting
    <3> QED BY <2>2, <3>1
  <2>4. k - 1 \in Nat /\ k - 1 \notin Bad
    <3>1. k - 1 \in Nat /\ ~(k <= k - 1)
      BY <2>2, <2>3
    <3> HIDE DEF Bad
    <3> QED BY <2>1, <3>1
  <2>5. PICK f : IsWriting(f, columns, k - 1)
    BY <2>4
  <2> HIDE DEF Bad
  <2> DEFINE Step(j, x) == x \o ColumnWrites(columns[j])
             g == [j \in 0 .. k |-> IF j = k THEN Step(k, f[k - 1]) ELSE f[j]]
  <2>6. \A j \in 0 .. k - 1 : f[j] = IF j = 0 THEN <<>> ELSE Step(j, f[j - 1])
    BY <2>5 DEF IsWriting
  <2>7. \A j \in 0 .. k : (j # 0 => j - 1 \in 0 .. k - 1 /\ g[j - 1] = f[j - 1])
                          /\ (j # k => j \in 0 .. k - 1)
    BY <2>2, <2>3
  <2> HIDE DEF Step
  <2>8. ASSUME NEW j \in 0 .. k
        PROVE  (IF j = k THEN Step(k, f[k - 1]) ELSE f[j])
                 = IF j = 0 THEN <<>> ELSE Step(j, g[j - 1])
    <3>1. CASE j = k
      <4>1. g[j - 1] = f[k - 1]
        BY <2>3, <2>7, <3>1
      <4> HIDE DEF g
      <4> QED BY <2>3, <3>1, <4>1
    <3>2. CASE j # k
      <4>1. j \in 0 .. k - 1 /\ (j # 0 => g[j - 1] = f[j - 1])
        BY <2>7, <3>2
      <4> HIDE DEF g
      <4> QED BY <2>6, <3>2, <4>1
    <3> QED BY <3>1, <3>2
  <2>9. IsWriting(g, columns, k)
    BY <2>8 DEF IsWriting, Step
  <2> QED BY <2>2, <2>9
<1> QED BY <1>1

(* All files of all columns.                                               *)
LEMMA ColumnsWritesFacts ==
  ASSUME NEW columns, NEW n \in Nat, Len(columns) = n, NEW S,
         \A i \in 1 .. n : ColumnWrites(columns[i]) \in Seq(S)
  PROVE  /\ ColumnsWrites(columns) \in Seq(S)
         /\ \A i \in 1 .. n : AllListed(ColumnWrites(columns[i]), ColumnsWrites(columns))
<1> DEFINE f == CHOOSE h : IsWriting(h, columns, n)
           Good(m) == f[m] \in Seq(S) /\ \A i \in 1 .. m : AllListed(ColumnWrites(columns[i]), f[m])
           Bad == {m \in 0 .. n : ~Good(m)}
<1>1. IsWriting(f, columns, n)
  BY WritingExists
<1>2. ColumnsWrites(columns) = f[n]
  BY ColumnsWritesIsWriting
<1> HIDE DEF f
<1>3. \A m \in 0 .. n : f[m] = IF m = 0 THEN <<>> ELSE f[m - 1] \o ColumnWrites(columns[m])
  BY <1>1 DEF IsWriting
<1>4. Good(0)
  <2>1. f[0] = <<>>
    BY <1>3
  <2>2. <<>> \in Seq(S)
    OBVIOUS
  <2> QED BY <2>1, <2>2
<1>5. ASSUME NEW m \in 1 .. n, Good(m - 1) PROVE Good(m)
  <2> DEFINE s == f[m - 1]
             u == ColumnWrites(columns[m])
  <2>1. f[m] = s \o u
    <3>1. m \in 0 .. n /\ m # 0
      OBVIOUS
    <3> HIDE DEF u
    <3>2. f[m] = f[m - 1] \o ColumnWrites(columns[m])
      BY <1>3, <3>1
    <3> QED BY <3>2 DEF u
  <2>2. s \in Seq(S) /\ u \in Seq(S) /\ \A i \in 1 .. m - 1 : AllListed(ColumnWrites(columns[i]), s)
    BY <1>5
  <2> HIDE DEF s, u
  <2>3. s \o u \in Seq(S) /\ AllListed(s, s \o u) /\ AllListed(u, s \o u)
    BY <2>2, ConcatFacts
  <2>4. \A i \in 1 .. m - 1 : AllListed(ColumnWrites(columns[i]), s \o u)
    BY <2>2, <2>3 DEF AllListed
  <2>5. \A i \in 1 .. m : i = m \/ i \in 1 .. m - 1
    OBVIOUS
  <2>6. \A i \in 1 .. m : AllListed(ColumnWrites(columns[i]), s \o u)
    BY <2>3, <2>4, <2>5 DEF u
  <2> QED BY <2>1, <2>3, <2>6
<1>6. Bad = {}
  <2> SUFFICES ASSUME Bad # {} PROVE FALSE
    OBVIOUS
  <2>1. PICK m \in Bad : \A j \in Bad : m <= j
    <3>1. Bad \subseteq Nat
      OBVIOUS
    <3> HIDE DEF Bad
    <3> QED BY <3>1, LeastNat
  <2>2. m \in 0 .. n /\ ~Good(m)
    OBVIOUS
  <2> HIDE DEF Good
  <2>3. m # 0
    BY <1>4, <2>2
  <2>4. m \in 1 .. n /\ m - 1 \in 0 .. n /\ ~(m <= m - 1)
    BY <2>2, <2>3
  <2>5. Good(m - 1)
    BY <2>1, <2>4
  <2> QED BY <1>5, <2>2, <2>4, <2>5
<1>7. Good(n)
  <2>1. n \in 0 .. n
    OBVIOUS
  <2> HIDE DEF Good
  <2> QED BY <1>6, <2>1
<1> QED BY <1>2, <1>7

LEMMA IndexWritesFacts ==
  ASSUME NEW t, WellFormed(t)
  PROVE  /\ IndexWrites(t) \in Seq(WriteSet(t))
         /\ \A i \in DOMAIN t.indexes :
              i \in DOMAIN IndexWrites(t) /\ IndexWrites(t)[i] = IndexWrite(t.indexes[i])
<1>1. DOMAIN t.indexes = 1 .. Len(t.indexes) /\ Len(t.indexes) \in Nat
  BY DEF WellFormed
<1>2. \A i \in 1 .. Len(t.indexes) : IndexWrite(t.indexes[i]) \in WriteSet(t)
  BY <1>1 DEF WriteSet
<1>3. IndexWrites(t) = [i \in 1 .. Len(t.indexes) |-> IndexWrite(t.indexes[i])]
  BY <1>1 DEF IndexWrites
<1> DEFINE W == WriteSet(t)
<1>4. \A i \in 1 .. Len(t.indexes) : IndexWrite(t.indexes[i]) \in W
  BY <1>2
<1> HIDE DEF W
<1>5. [i \in 1 .. Len(t.indexes) |-> IndexWrite(t.indexes[i])] \in Seq(W)
  BY <1>1, <1>4
<1> QED BY <1>1, <1>3, <1>5 DEF W

LEMMA WritesFacts ==
  ASSUME NEW t, WellFormed(t)
  PROVE  /\ Writes(t) \in Seq(WriteSet(t))
         /\ \A w \in WriteSet(t) : Listed(w, Writes(t))
<1> DEFINE W == WriteSet(t)
           n == Len(t.columns)
           a == <<MetaWrite(t)>>
           b == ColumnsWrites(t.columns)
           d == IndexWrites(t)
<1>1. n \in Nat /\ DOMAIN t.columns = 1 .. n
  BY DEF WellFormed
<1>2. /\ MetaWrite(t) \in W
      /\ \A i \in 1 .. n : /\ DataWrite(t.columns[i]) \in W
                           /\ t.columns[i].null_flags # None => FlagsWrite(t.columns[i]) \in W
  BY <1>1 DEF WriteSet
<1> HIDE DEF W
<1>3. ASSUME NEW i \in 1 .. n
      PROVE  /\ ColumnWrites(t.columns[i]) \in Seq(W)
             /\ Listed(DataWrite(t.columns[i]), ColumnWrites(t.columns[i]))
             /\ t.columns[i].null_flags # None =>
                  Listed(FlagsWrite(t.columns[i]), ColumnWrites(t.columns[i]))
  <2> DEFINE x == DataWrite(t.columns[i])
             y == FlagsWrite(t.columns[i])
  <2>1. CASE t.columns[i].null_flags = None
    <3>1. ColumnWrites(t.columns[i]) = <<x>> /\ x \in W
      BY <1>2, <2>1 DEF ColumnWrites
    <3> HIDE DEF x
    <3>2. <<x>> \in Seq(W) /\ 1 \in DOMAIN <<x>> /\ <<x>>[1] = x
      BY <3>1
    <3>3. Listed(x, <<x>>)
      BY <3>2 DEF Listed
    <3> QED BY <2>1, <3>1, <3>2, <3>3 DEF x
  <2>2. CASE t.columns[i].null_flags # None
    <3>1. ColumnWrites(t.columns[i]) = <<x, y>> /\ x \in W /\ y \in W
      BY <1>2, <2>2 DEF ColumnWrites
    <3> HIDE DEF x, y
    <3>2. <<x, y>> \in Seq(W) /\ 1 \in DOMAIN <<x, y>> /\ <<x, y>>[1] = x
          /\ 2 \in DOMAIN <<x, y>> /\ <<x, y>>[2] = y
      BY <3>1
    <3>3. Listed(x, <<x, y>>) /\ Listed(y, <<x, y>>)
      BY <3>2 DEF Listed
    <3> QED BY <3>1, <3>2, <3>3 DEF x, y
  <2> QED BY <2>1, <2>2
<1>4. b \in Seq(W) /\ \A i \in 1 .. n : AllListed(ColumnWrites(t.columns[i]), b)
  <2>1. \A i \in 1 .. n : ColumnWrites(t.columns[i]) \in Seq(W)
    BY <1>3
  <2> QED BY <1>1, <2>1, ColumnsWritesFacts
<1>5. d \in Seq(W) /\ \A i \in DOMAIN t.indexes : Listed(IndexWrite(t.indexes[i]), d)
  BY IndexWritesFacts DEF W, Listed
<1>6. a \in Seq(W) /\ Listed(MetaWrite(t), a)
  <2> DEFINE x == MetaWrite(t)
  <2>1. x \in W
    BY <1>2
  <2> HIDE DEF x
  <2>2. <<x>> \in Seq(W) /\ 1 \in DOMAIN <<x>> /\ <<x>>[1] = x
    BY <2>1
  <2> QED BY <2>2 DEF x, Listed
<1> DEFINE ab == a \o b
           all == ab \o d
<1> HIDE DEF a, b, d
<1>7. ab \in Seq(W) /\ AllListed(a, ab) /\ AllListed(b, ab)
  BY <1>4, <1>6, ConcatFacts
<1> HIDE DEF ab
<1>8. all \in Seq(W) /\ AllListed(ab, all) /\ AllListed(d, all)
  BY <1>5, <1>7, ConcatFacts
<1>9. Writes(t) = all
  BY DEF Writes, a, b, d, ab
<1> HIDE DEF all
<1>10. AllListed(a, all) /\ AllListed(b, all)
  BY <1>7, <1>8 DEF AllListed
<1>11. ASSUME NEW w \in W PROVE Listed(w, all)
  <2>1. CASE w = MetaWrite(t)
    BY <1>6, <1>10, <2>1 DEF AllListed
  <2>2. ASSUME NEW i \in DOMAIN t.columns, w = DataWrite(t.columns[i]) PROVE Listed(w, all)
    BY <1>1, <1>3, <1>4, <1>10, <2>2 DEF AllListed
  <2>3. ASSUME NEW i \in DOMAIN t.columns, t.columns[i].null_flags # None,
               w = FlagsWrite(t.columns[i])
        PROVE  Listed(w, all)
    BY <1>1, <1>3, <1>4, <1>10, <2>3 DEF AllListed
  <2>4. ASSUME NEW i \in DOMAIN t.indexes, w = IndexWrite(t.indexes[i]) PROVE Listed(w, all)
    BY <1>5, <1>8, <2>4 DEF AllListed
  <2> QED BY <2>1, <2>2, <2>3, <2>4 DEF W, WriteSet
<1> QED BY <1>8, <1>9, <1>11 DEF W

(* cql_table_save_metadata and the files of the columns and the indexes.    *)
LEMMA WriteKinds ==
  ASSUME NEW t, NEW w \in WriteSet(t)
  PROVE  \/ w = MetaWrite(t)
         \/ \E i \in DOMAIN t.columns : w = DataWrite(t.columns[i])
         \/ \E i \in DOMAIN t.columns :
              t.columns[i].null_flags # None /\ w = FlagsWrite(t.columns[i])
         \/ \E i \in DOMAIN t.indexes : w = IndexWrite(t.indexes[i])
BY DEF WriteSet

(* No two writes of a save are to the same file.                           *)
LEMMA OneWritePerFile ==
  ASSUME NEW t, WellFormed(t), NEW v \in WriteSet(t), NEW w \in WriteSet(t),
         v.file = w.file, v.name = w.name
  PROVE  v = w
<1>1. NamedApart(t.columns) /\ NamedApart(t.indexes)
  BY DEF WellFormed
<1>2. CASE w.file = "meta"
  <2>1. v = MetaWrite(t) /\ w = MetaWrite(t)
    BY <1>2, WriteKinds DEF MetaWrite, DataWrite, FlagsWrite, IndexWrite
  <2> QED BY <2>1
<1>3. CASE w.file = "dat"
  <2>1. PICK i \in DOMAIN t.columns : w = DataWrite(t.columns[i])
    BY <1>3, WriteKinds DEF MetaWrite, DataWrite, FlagsWrite, IndexWrite
  <2>2. PICK j \in DOMAIN t.columns : v = DataWrite(t.columns[j])
    BY <1>3, WriteKinds DEF MetaWrite, DataWrite, FlagsWrite, IndexWrite
  <2>3. t.columns[i].name = t.columns[j].name
    BY <2>1, <2>2 DEF DataWrite
  <2>4. i = j
    BY <1>1, <2>3 DEF NamedApart
  <2> QED BY <2>1, <2>2, <2>4
<1>4. CASE w.file = "null"
  <2>1. PICK i \in DOMAIN t.columns : w = FlagsWrite(t.columns[i])
    BY <1>4, WriteKinds DEF MetaWrite, DataWrite, FlagsWrite, IndexWrite
  <2>2. PICK j \in DOMAIN t.columns : v = FlagsWrite(t.columns[j])
    BY <1>4, WriteKinds DEF MetaWrite, DataWrite, FlagsWrite, IndexWrite
  <2>3. t.columns[i].name = t.columns[j].name
    BY <2>1, <2>2 DEF FlagsWrite
  <2>4. i = j
    BY <1>1, <2>3 DEF NamedApart
  <2> QED BY <2>1, <2>2, <2>4
<1>5. CASE w.file = "idx"
  <2>1. PICK i \in DOMAIN t.indexes : w = IndexWrite(t.indexes[i])
    BY <1>5, WriteKinds DEF MetaWrite, DataWrite, FlagsWrite, IndexWrite
  <2>2. PICK j \in DOMAIN t.indexes : v = IndexWrite(t.indexes[j])
    BY <1>5, WriteKinds DEF MetaWrite, DataWrite, FlagsWrite, IndexWrite
  <2>3. t.indexes[i].name = t.indexes[j].name
    BY <2>1, <2>2 DEF IndexWrite
  <2>4. i = j
    BY <1>1, <2>3 DEF NamedApart
  <2> QED BY <2>1, <2>2, <2>4
<1>6. w.file \in {"meta", "dat", "null", "idx"}
  BY WriteKinds DEF MetaWrite, DataWrite, FlagsWrite, IndexWrite
<1> QED BY <1>2, <1>3, <1>4, <1>5, <1>6

LEMMA WrittenFacts ==
  ASSUME NEW fs, fs = [meta |-> fs.meta, dat |-> fs.dat, null |-> fs.null, idx |-> fs.idx], NEW w
  PROVE  /\ w.file = "meta" =>
              Written(fs, w) = [meta |-> w.content, dat |-> fs.dat, null |-> fs.null, idx |-> fs.idx]
         /\ w.file = "dat" =>
              Written(fs, w) = [meta |-> fs.meta, dat |-> Put(fs.dat, w.name, w.content),
                                null |-> fs.null, idx |-> fs.idx]
         /\ w.file = "null" =>
              Written(fs, w) = [meta |-> fs.meta, dat |-> fs.dat,
                                null |-> Put(fs.null, w.name, w.content), idx |-> fs.idx]
         /\ w.file = "idx" =>
              Written(fs, w) = [meta |-> fs.meta, dat |-> fs.dat, null |-> fs.null,
                                idx |-> Put(fs.idx, w.name, w.content)]
<1>1. CASE w.file = "meta"
  <2>1. Written(fs, w) = [fs EXCEPT !.meta = w.content]
    BY <1>1 DEF Written
  <2> QED BY <1>1, <2>1
<1>2. CASE w.file = "dat"
  <2> DEFINE new == Put(fs.dat, w.name, w.content)
  <2>1. Written(fs, w) = [fs EXCEPT !.dat = new]
    BY <1>2 DEF Written
  <2> HIDE DEF new
  <2>2. Written(fs, w) = [meta |-> fs.meta, dat |-> new, null |-> fs.null, idx |-> fs.idx]
    BY <2>1
  <2> QED BY <1>2, <2>2 DEF new
<1>3. CASE w.file = "null"
  <2> DEFINE new == Put(fs.null, w.name, w.content)
  <2>1. Written(fs, w) = [fs EXCEPT !.null = new]
    BY <1>3 DEF Written
  <2> HIDE DEF new
  <2>2. Written(fs, w) = [meta |-> fs.meta, dat |-> fs.dat, null |-> new, idx |-> fs.idx]
    BY <2>1
  <2> QED BY <1>3, <2>2 DEF new
<1>4. CASE w.file = "idx"
  <2> DEFINE new == Put(fs.idx, w.name, w.content)
  <2>1. Written(fs, w) = [fs EXCEPT !.idx = new]
    BY <1>4 DEF Written
  <2> HIDE DEF new
  <2>2. Written(fs, w) = [meta |-> fs.meta, dat |-> fs.dat, null |-> fs.null, idx |-> new]
    BY <2>1
  <2> QED BY <1>4, <2>2 DEF new
<1> QED BY <1>1, <1>2, <1>3, <1>4

(* A write puts its file there and takes no other file of the save away.    *)
LEMMA WrittenPresent ==
  ASSUME NEW fs, FilesFormed(fs), NEW t, WellFormed(t), NEW v \in WriteSet(t)
  PROVE  /\ Present(Written(fs, v), v)
         /\ \A w \in WriteSet(t) : Present(fs, w) => Present(Written(fs, v), w)
<1>1. fs = [meta |-> fs.meta, dat |-> fs.dat, null |-> fs.null, idx |-> fs.idx]
  BY DEF FilesFormed
<1>2. v.file \in {"meta", "dat", "null", "idx"}
  BY WriteKinds DEF MetaWrite, DataWrite, FlagsWrite, IndexWrite
<1> DEFINE gs == Written(fs, v)
<1>3. /\ v.file = "meta" => gs.meta = v.content /\ gs.dat = fs.dat /\ gs.null = fs.null /\ gs.idx = fs.idx
      /\ v.file = "dat" => /\ gs.dat = Put(fs.dat, v.name, v.content)
                           /\ gs.meta = fs.meta /\ gs.null = fs.null /\ gs.idx = fs.idx
      /\ v.file = "null" => /\ gs.null = Put(fs.null, v.name, v.content)
                            /\ gs.meta = fs.meta /\ gs.dat = fs.dat /\ gs.idx = fs.idx
      /\ v.file = "idx" => /\ gs.idx = Put(fs.idx, v.name, v.content)
                           /\ gs.meta = fs.meta /\ gs.dat = fs.dat /\ gs.null = fs.null
  <2>1. CASE v.file = "meta"
    <3>1. gs = [meta |-> v.content, dat |-> fs.dat, null |-> fs.null, idx |-> fs.idx]
      BY <1>1, <2>1, WrittenFacts
    <3> HIDE DEF gs
    <3> QED BY <2>1, <3>1
  <2>2. CASE v.file = "dat"
    <3>1. gs = [meta |-> fs.meta, dat |-> Put(fs.dat, v.name, v.content), null |-> fs.null, idx |-> fs.idx]
      BY <1>1, <2>2, WrittenFacts
    <3> HIDE DEF gs
    <3> QED BY <2>2, <3>1
  <2>3. CASE v.file = "null"
    <3>1. gs = [meta |-> fs.meta, dat |-> fs.dat, null |-> Put(fs.null, v.name, v.content), idx |-> fs.idx]
      BY <1>1, <2>3, WrittenFacts
    <3> HIDE DEF gs
    <3> QED BY <2>3, <3>1
  <2>4. CASE v.file = "idx"
    <3>1. gs = [meta |-> fs.meta, dat |-> fs.dat, null |-> fs.null, idx |-> Put(fs.idx, v.name, v.content)]
      BY <1>1, <2>4, WrittenFacts
    <3> HIDE DEF gs
    <3> QED BY <2>4, <3>1
  <2> HIDE DEF gs
  <2> QED BY <1>2, <2>1, <2>2, <2>3, <2>4
<1> HIDE DEF gs
<1>4. \A f : Holds(Put(f, v.name, v.content), v.name, v.content)
  BY DEF Holds, Put
<1>5. Present(gs, v)
  BY <1>3, <1>4 DEF Present
<1>6. ASSUME NEW f, NEW w, v.name = w.name => v.content = w.content, Holds(f, w.name, w.content)
      PROVE  Holds(Put(f, v.name, v.content), w.name, w.content)
  BY <1>6 DEF Holds, Put
<1>7. ASSUME NEW w \in WriteSet(t), Present(fs, w) PROVE Present(gs, w)
  <2>1. v.file = w.file /\ v.name = w.name => v.content = w.content
    <3>1. v.file = w.file /\ v.name = w.name => v = w
      BY OneWritePerFile
    <3> QED BY <3>1
  <2>2. v.file = "meta" /\ w.file = "meta" => v.name = w.name
    BY WriteKinds DEF MetaWrite, DataWrite, FlagsWrite, IndexWrite
  <2>3. ASSUME w.file = "meta" PROVE gs.meta = w.content
    BY <1>2, <1>3, <1>7, <2>1, <2>2, <2>3 DEF Present
  <2>4. ASSUME w.file = "dat" PROVE Holds(gs.dat, w.name, w.content)
    BY <1>2, <1>3, <1>6, <1>7, <2>1, <2>4 DEF Present
  <2>5. ASSUME w.file = "null" PROVE Holds(gs.null, w.name, w.content)
    BY <1>2, <1>3, <1>6, <1>7, <2>1, <2>5 DEF Present
  <2>6. ASSUME w.file = "idx" PROVE Holds(gs.idx, w.name, w.content)
    BY <1>2, <1>3, <1>6, <1>7, <2>1, <2>6 DEF Present
  <2> QED BY <2>3, <2>4, <2>5, <2>6 DEF Present
<1> QED BY <1>5, <1>7 DEF gs

LEMMA MetaFormedOf ==
  ASSUME NEW t, WellFormed(t)
  PROVE  MetaFormed(MetaOf(t))
<1> DEFINE m == MetaOf(t)
           names == [i \in DOMAIN t.columns |-> t.columns[i].name]
           heads == [i \in DOMAIN t.indexes |->
                      [name |-> t.indexes[i].name, column |-> t.indexes[i].column]]
<1>1. /\ t.row_count \in Nat /\ t.row_count <= MaxRows /\ t.columns \in Seq(Columns)
      /\ \A i \in DOMAIN t.columns : AsLong(t.columns[i], t.row_count)
      /\ t.indexes \in Seq(Indexes) /\ NamedApart(t.indexes)
      /\ \A i \in DOMAIN t.indexes : t.indexes[i].column \in Names(t)
      /\ NamedApart(t.columns)
      /\ DOMAIN t.columns = 1 .. Len(t.columns) /\ Len(t.columns) \in Nat
      /\ DOMAIN t.indexes = 1 .. Len(t.indexes) /\ Len(t.indexes) \in Nat
  BY DEF WellFormed
<1>2. /\ m.row_count = t.row_count /\ m.columns = names /\ m.declared = DeclaredIn(t)
      /\ m.indexes = heads /\ m.capacity = [c \in Names(t) |-> ColumnOf(t, c).capacity]
  BY DEF MetaOf
<1> HIDE DEF m
<1>3. \A i \in 1 .. Len(t.columns) : names[i] \in ColumnNames
  <2> TAKE i \in 1 .. Len(t.columns)
  <2>1. t.columns[i] \in Columns
    BY <1>1
  <2> QED BY <1>1, <2>1 DEF Columns
<1>4. \A i \in 1 .. Len(t.indexes) : heads[i] \in IndexHeads
  <2> TAKE i \in 1 .. Len(t.indexes)
  <2>1. t.indexes[i] \in Indexes
    BY <1>1
  <2> QED BY <1>1, <2>1 DEF Indexes, IndexHeads
<1>5. /\ names = [i \in 1 .. Len(t.columns) |-> names[i]]
      /\ heads = [i \in 1 .. Len(t.indexes) |-> heads[i]]
      /\ DOMAIN names = DOMAIN t.columns /\ DOMAIN heads = DOMAIN t.indexes
      /\ \A i \in DOMAIN t.columns : names[i] = t.columns[i].name
      /\ \A i \in DOMAIN t.indexes :
           heads[i].name = t.indexes[i].name /\ heads[i].column = t.indexes[i].column
  BY <1>1
<1> HIDE DEF names, heads
<1>6. names \in Seq(ColumnNames)
  <2>1. [i \in 1 .. Len(t.columns) |-> names[i]] \in Seq(ColumnNames)
    BY <1>1, <1>3
  <2> QED BY <1>5, <2>1
<1>7. heads \in Seq(IndexHeads)
  <2>1. [i \in 1 .. Len(t.indexes) |-> heads[i]] \in Seq(IndexHeads)
    BY <1>1, <1>4
  <2> QED BY <1>5, <2>1
<1>8. \A i, j \in DOMAIN names : names[i] = names[j] => i = j
  BY <1>1, <1>5 DEF NamedApart
<1>9. NamedApart(heads)
  BY <1>1, <1>5 DEF NamedApart
<1>10. \A i \in DOMAIN heads : \E j \in DOMAIN names : heads[i].column = names[j]
  <2> TAKE i \in DOMAIN heads
  <2>1. t.indexes[i].column \in Names(t) /\ heads[i].column = t.indexes[i].column
    BY <1>1, <1>5
  <2>2. \E j \in DOMAIN t.columns : t.indexes[i].column = t.columns[j].name
    BY <2>1 DEF Names
  <2> QED BY <1>5, <2>1, <2>2
<1>11. \A c \in DOMAIN DeclaredIn(t) : DeclaredIn(t)[c] \in Declarations
  <2>1. \A c \in DOMAIN DeclaredIn(t) :
          c \in Names(t) /\ DeclaredIn(t)[c] = ColumnOf(t, c).declared
    BY DEF DeclaredIn
  <2>2. ASSUME NEW c \in Names(t) PROVE ColumnOf(t, c).declared \in Declarations
    <3>1. PICK i \in DOMAIN t.columns : ColumnOf(t, c) = t.columns[i]
      BY <1>1, ColumnOfFacts
    <3>2. t.columns[i] \in Columns
      BY <1>1
    <3> QED BY <3>1, <3>2 DEF Columns
  <2> QED BY <2>1, <2>2
<1>12. DOMAIN m.capacity = {names[i] : i \in DOMAIN names}
  <2>1. \A c : c \in DOMAIN m.capacity <=> \E i \in DOMAIN t.columns : c = t.columns[i].name
    BY <1>2 DEF Names
  <2>2. DOMAIN names = DOMAIN t.columns /\ \A i \in DOMAIN t.columns : names[i] = t.columns[i].name
    BY <1>5
  <2>3. \A c : c \in DOMAIN m.capacity <=> \E i \in DOMAIN names : c = names[i]
    BY ONLY <2>1, <2>2
  <2> QED BY ONLY <2>3
<1>13. \A c \in DOMAIN m.capacity : m.capacity[c] \in Nat /\ t.row_count <= m.capacity[c]
  <2>1. ASSUME NEW c \in Names(t)
        PROVE  ColumnOf(t, c).capacity \in Nat /\ t.row_count <= ColumnOf(t, c).capacity
    <3>1. PICK i \in DOMAIN t.columns : ColumnOf(t, c) = t.columns[i]
      BY <1>1, ColumnOfFacts
    <3>2. t.columns[i] \in Columns /\ AsLong(t.columns[i], t.row_count)
      BY <1>1
    <3> QED BY <3>1, <3>2 DEF Columns, AsLong
  <2> QED BY <1>2, <2>1
<1> QED BY <1>1, <1>2, <1>6, <1>7, <1>8, <1>9, <1>10, <1>11, <1>12, <1>13 DEF MetaFormed, m

LEMMA MetaIsThere ==
  ASSUME NEW t
  PROVE  MetaOf(t) # <<>>
<1>1. "row_count" \in DOMAIN MetaOf(t)
  BY DEF MetaOf
<1>2. DOMAIN <<>> = {}
  OBVIOUS
<1> HIDE DEF MetaOf
<1> QED BY <1>1, <1>2

LEMMA WrittenFormed ==
  ASSUME NEW fs, FilesFormed(fs), NEW t, WellFormed(t), NEW w \in WriteSet(t)
  PROVE  FilesFormed(Written(fs, w))
<1> DEFINE gs == Written(fs, w)
<1>1. /\ fs = [meta |-> fs.meta, dat |-> fs.dat, null |-> fs.null, idx |-> fs.idx]
      /\ fs.meta # <<>> => MetaFormed(fs.meta)
      /\ \A c \in DOMAIN fs.dat : fs.dat[c] \in DataFiles
      /\ \A c \in DOMAIN fs.null : fs.null[c] \in Seq(BOOLEAN)
      /\ \A x \in DOMAIN fs.idx : fs.idx[x] \in Seq(Nat) /\ IsOrder(fs.idx[x], Len(fs.idx[x]))
  BY DEF FilesFormed
<1>2. /\ t.row_count \in Nat /\ t.columns \in Seq(Columns) /\ t.indexes \in Seq(Indexes)
      /\ \A i \in DOMAIN t.indexes : IsOrder(t.indexes[i].order, t.row_count)
  BY DEF WellFormed
<1>3. CASE w = MetaWrite(t)
  <2>1. w.file = "meta" /\ w.content = MetaOf(t)
    BY <1>3 DEF MetaWrite
  <2>2. gs = [meta |-> w.content, dat |-> fs.dat, null |-> fs.null, idx |-> fs.idx]
    BY <1>1, <2>1, WrittenFacts
  <2>3. MetaFormed(w.content)
    BY <2>1, MetaFormedOf
  <2> HIDE DEF gs
  <2> QED BY <1>1, <2>2, <2>3 DEF FilesFormed, gs
<1>4. ASSUME NEW i \in DOMAIN t.columns, w = DataWrite(t.columns[i]) PROVE FilesFormed(gs)
  <2> DEFINE dat == Put(fs.dat, w.name, w.content)
  <2>1. w.file = "dat" /\ w.content = [rows |-> t.columns[i].data, size |-> t.columns[i].capacity]
    BY <1>4 DEF DataWrite
  <2>2. gs = [meta |-> fs.meta, dat |-> dat, null |-> fs.null, idx |-> fs.idx]
    BY <1>1, <2>1, WrittenFacts
  <2>3. t.columns[i] \in Columns
    BY <1>2
  <2>4. w.content \in DataFiles
    BY <2>1, <2>3 DEF Columns, DataFiles
  <2>5. \A c \in DOMAIN dat : dat[c] \in DataFiles
    BY <1>1, <2>4 DEF Put
  <2> HIDE DEF gs, dat
  <2> QED BY <1>1, <2>2, <2>5 DEF FilesFormed
<1>5. ASSUME NEW i \in DOMAIN t.columns, t.columns[i].null_flags # None,
             w = FlagsWrite(t.columns[i])
      PROVE  FilesFormed(gs)
  <2> DEFINE null == Put(fs.null, w.name, w.content)
  <2>1. w.file = "null" /\ w.content = t.columns[i].null_flags
    BY <1>5 DEF FlagsWrite
  <2>2. gs = [meta |-> fs.meta, dat |-> fs.dat, null |-> null, idx |-> fs.idx]
    BY <1>1, <2>1, WrittenFacts
  <2>3. t.columns[i] \in Columns
    BY <1>2
  <2>4. w.content \in Seq(BOOLEAN)
    BY <1>5, <2>1, <2>3 DEF Columns
  <2>5. \A c \in DOMAIN null : null[c] \in Seq(BOOLEAN)
    BY <1>1, <2>4 DEF Put
  <2> HIDE DEF gs, null
  <2> QED BY <1>1, <2>2, <2>5 DEF FilesFormed
<1>6. ASSUME NEW i \in DOMAIN t.indexes, w = IndexWrite(t.indexes[i]) PROVE FilesFormed(gs)
  <2> DEFINE idx == Put(fs.idx, w.name, w.content)
  <2>1. w.file = "idx" /\ w.content = t.indexes[i].order
    BY <1>6 DEF IndexWrite
  <2>2. gs = [meta |-> fs.meta, dat |-> fs.dat, null |-> fs.null, idx |-> idx]
    BY <1>1, <2>1, WrittenFacts
  <2>3. t.indexes[i] \in Indexes /\ IsOrder(t.indexes[i].order, t.row_count)
    BY <1>2
  <2>4. w.content \in Seq(Nat)
    BY <2>1, <2>3 DEF Indexes
  <2>5. DOMAIN w.content = 1 .. t.row_count
    BY <2>1, <2>3 DEF IsOrder
  <2> DEFINE l == w.content
  <2>6. Len(l) = t.row_count
    <3> HIDE DEF l
    <3>1. l \in Seq(Nat) /\ DOMAIN l = 1 .. t.row_count
      BY <2>4, <2>5 DEF l
    <3> QED BY <1>2, <3>1, OrderLength
  <2>7. IsOrder(w.content, Len(w.content))
    BY <2>1, <2>3, <2>6
  <2>8. \A x \in DOMAIN idx : idx[x] \in Seq(Nat) /\ IsOrder(idx[x], Len(idx[x]))
    <3>1. \A x \in DOMAIN idx : idx[x] = w.content \/ (x \in DOMAIN fs.idx /\ idx[x] = fs.idx[x])
      BY DEF Put
    <3> HIDE DEF idx
    <3> QED BY <1>1, <2>4, <2>7, <3>1
  <2> HIDE DEF gs, idx
  <2> QED BY <1>1, <2>2, <2>8 DEF FilesFormed
<1> QED BY <1>3, <1>4, <1>5, <1>6, WriteKinds

(* The file of a write while it is open and truncated.                      *)
LEMMA EmptiedFacts ==
  ASSUME NEW t, NEW w \in WriteSet(t)
  PROVE  /\ Emptied(w).file = w.file /\ Emptied(w).name = w.name
         /\ w.file = "dat" => Emptied(w).content = Empty
         /\ w.file # "dat" => Emptied(w).content = <<>>
<1>1. w = [file |-> w.file, name |-> w.name, content |-> w.content]
  BY WriteKinds DEF MetaWrite, DataWrite, FlagsWrite, IndexWrite
<1> DEFINE content == IF w.file = "dat" THEN Empty ELSE <<>>
<1>2. Emptied(w) = [w EXCEPT !.content = content]
  BY Zenon DEF Emptied
<1>3. (w.file = "dat" => content = Empty) /\ (w.file # "dat" => content = <<>>)
  OBVIOUS
<1> HIDE DEF content
<1>4. Emptied(w) = [file |-> w.file, name |-> w.name, content |-> content]
  BY <1>1, <1>2
<1> QED BY <1>3, <1>4

LEMMA EmptiedFormed ==
  ASSUME NEW fs, FilesFormed(fs), NEW t, NEW w \in WriteSet(t)
  PROVE  FilesFormed(Written(fs, Emptied(w)))
<1> PICK v : v = Emptied(w)
  OBVIOUS
<1> PICK gs : gs = Written(fs, v)
  OBVIOUS
<1>1. /\ fs = [meta |-> fs.meta, dat |-> fs.dat, null |-> fs.null, idx |-> fs.idx]
      /\ fs.meta # <<>> => MetaFormed(fs.meta)
      /\ \A c \in DOMAIN fs.dat : fs.dat[c] \in DataFiles
      /\ \A c \in DOMAIN fs.null : fs.null[c] \in Seq(BOOLEAN)
      /\ \A x \in DOMAIN fs.idx : fs.idx[x] \in Seq(Nat) /\ IsOrder(fs.idx[x], Len(fs.idx[x]))
  BY DEF FilesFormed
<1>2. /\ v.file \in {"meta", "dat", "null", "idx"}
      /\ v.file = "dat" => v.content = Empty
      /\ v.file # "dat" => v.content = <<>>
  <2>1. w.file \in {"meta", "dat", "null", "idx"}
    BY WriteKinds DEF MetaWrite, DataWrite, FlagsWrite, IndexWrite
  <2> QED BY <2>1, EmptiedFacts
<1>3. CASE v.file = "meta"
  <2>1. gs = [meta |-> v.content, dat |-> fs.dat, null |-> fs.null, idx |-> fs.idx]
    BY <1>1, <1>3, WrittenFacts
  <2>2. v.content = <<>>
    BY <1>2, <1>3
  <2> QED BY <1>1, <2>1, <2>2 DEF FilesFormed
<1>4. CASE v.file = "dat"
  <2> DEFINE dat == Put(fs.dat, v.name, v.content)
  <2>1. gs = [meta |-> fs.meta, dat |-> dat, null |-> fs.null, idx |-> fs.idx]
    BY <1>1, <1>4, WrittenFacts
  <2>2. v.content \in DataFiles
    <3> PICK none : none = <<>>
      OBVIOUS
    <3>1. none \in Seq(Values)
      OBVIOUS
    <3>2. v.content = [rows |-> none, size |-> 0]
      BY <1>2, <1>4 DEF Empty
    <3> QED BY <3>1, <3>2 DEF DataFiles
  <2>3. \A c \in DOMAIN dat : dat[c] \in DataFiles
    BY <1>1, <2>2 DEF Put
  <2> HIDE DEF dat
  <2> QED BY <1>1, <2>1, <2>3 DEF FilesFormed
<1>5. CASE v.file = "null"
  <2> DEFINE null == Put(fs.null, v.name, v.content)
  <2>1. gs = [meta |-> fs.meta, dat |-> fs.dat, null |-> null, idx |-> fs.idx]
    BY <1>1, <1>5, WrittenFacts
  <2>2. v.content \in Seq(BOOLEAN)
    <3> PICK none : none = <<>>
      OBVIOUS
    <3>1. none \in Seq(BOOLEAN)
      OBVIOUS
    <3> QED BY <1>2, <1>5, <3>1
  <2>3. \A c \in DOMAIN null : null[c] \in Seq(BOOLEAN)
    BY <1>1, <2>2 DEF Put
  <2> HIDE DEF null
  <2> QED BY <1>1, <2>1, <2>3 DEF FilesFormed
<1>6. CASE v.file = "idx"
  <2> DEFINE idx == Put(fs.idx, v.name, v.content)
  <2>1. gs = [meta |-> fs.meta, dat |-> fs.dat, null |-> fs.null, idx |-> idx]
    BY <1>1, <1>6, WrittenFacts
  <2>2. v.content \in Seq(Nat) /\ IsOrder(v.content, Len(v.content))
    <3> DEFINE none == <<>>
    <3>1. none \in Seq(Nat) /\ Len(none) = 0 /\ DOMAIN none = {}
      OBVIOUS
    <3>2. v.content = none
      BY <1>2, <1>6
    <3> HIDE DEF none
    <3>3. IsOrder(none, 0)
      BY <3>1 DEF IsOrder
    <3> QED BY <3>1, <3>2, <3>3
  <2>3. \A x \in DOMAIN idx : idx[x] \in Seq(Nat) /\ IsOrder(idx[x], Len(idx[x]))
    <3>1. \A x \in DOMAIN idx : idx[x] = v.content \/ (x \in DOMAIN fs.idx /\ idx[x] = fs.idx[x])
      BY DEF Put
    <3> HIDE DEF idx
    <3> QED BY <1>1, <2>2, <3>1
  <2> HIDE DEF idx
  <2> QED BY <1>1, <2>1, <2>3 DEF FilesFormed
<1> QED BY <1>2, <1>3, <1>4, <1>5, <1>6

(* Every other file of the save is still there while one is truncated.      *)
LEMMA EmptiedPresent ==
  ASSUME NEW fs, FilesFormed(fs), NEW t, WellFormed(t), NEW v \in WriteSet(t),
         NEW w \in WriteSet(t), Present(fs, w), w # v
  PROVE  Present(Written(fs, Emptied(v)), w)
<1> PICK u : u = Emptied(v)
  OBVIOUS
<1> PICK gs : gs = Written(fs, u)
  OBVIOUS
<1>1. fs = [meta |-> fs.meta, dat |-> fs.dat, null |-> fs.null, idx |-> fs.idx]
  BY DEF FilesFormed
<1>2. /\ v.file \in {"meta", "dat", "null", "idx"} /\ u.file = v.file /\ u.name = v.name
  <2>1. v.file \in {"meta", "dat", "null", "idx"}
    BY WriteKinds DEF MetaWrite, DataWrite, FlagsWrite, IndexWrite
  <2> QED BY <2>1, EmptiedFacts
<1>3. /\ ~(v.file = w.file /\ v.name = w.name)
      /\ v.file = "meta" /\ w.file = "meta" => v.name = w.name
  <2>1. v.file = w.file /\ v.name = w.name => v = w
    BY OneWritePerFile
  <2>2. v.file = "meta" /\ w.file = "meta" => v.name = w.name
    BY WriteKinds DEF MetaWrite, DataWrite, FlagsWrite, IndexWrite
  <2> QED BY <2>1, <2>2
<1>4. /\ u.file # "meta" => gs.meta = fs.meta
      /\ u.file # "dat" => gs.dat = fs.dat
      /\ u.file # "null" => gs.null = fs.null
      /\ u.file # "idx" => gs.idx = fs.idx
      /\ u.file = "dat" => gs.dat = Put(fs.dat, u.name, u.content)
      /\ u.file = "null" => gs.null = Put(fs.null, u.name, u.content)
      /\ u.file = "idx" => gs.idx = Put(fs.idx, u.name, u.content)
  <2> DEFINE dat == Put(fs.dat, u.name, u.content)
             null == Put(fs.null, u.name, u.content)
             idx == Put(fs.idx, u.name, u.content)
  <2>1. /\ u.file = "meta" => gs = [meta |-> u.content, dat |-> fs.dat, null |-> fs.null, idx |-> fs.idx]
        /\ u.file = "dat" => gs = [meta |-> fs.meta, dat |-> dat, null |-> fs.null, idx |-> fs.idx]
        /\ u.file = "null" => gs = [meta |-> fs.meta, dat |-> fs.dat, null |-> null, idx |-> fs.idx]
        /\ u.file = "idx" => gs = [meta |-> fs.meta, dat |-> fs.dat, null |-> fs.null, idx |-> idx]
    BY <1>1, WrittenFacts
  <2> HIDE DEF dat, null, idx
  <2>2. CASE u.file = "meta"
    BY <2>1, <2>2
  <2>3. CASE u.file = "dat"
    BY <2>1, <2>3 DEF dat
  <2>4. CASE u.file = "null"
    BY <2>1, <2>4 DEF null
  <2>5. CASE u.file = "idx"
    BY <2>1, <2>5 DEF idx
  <2> QED BY <1>2, <2>2, <2>3, <2>4, <2>5
<1>5. \A f : Holds(f, w.name, w.content) /\ u.name # w.name =>
             Holds(Put(f, u.name, u.content), w.name, w.content)
  BY DEF Holds, Put
<1>6. ASSUME w.file = "meta" PROVE gs.meta = w.content
  BY <1>2, <1>3, <1>4, <1>6 DEF Present
<1>7. ASSUME w.file = "dat" PROVE Holds(gs.dat, w.name, w.content)
  BY <1>2, <1>3, <1>4, <1>5, <1>7 DEF Present
<1>8. ASSUME w.file = "null" PROVE Holds(gs.null, w.name, w.content)
  BY <1>2, <1>3, <1>4, <1>5, <1>8 DEF Present
<1>9. ASSUME w.file = "idx" PROVE Holds(gs.idx, w.name, w.content)
  BY <1>2, <1>3, <1>4, <1>5, <1>9 DEF Present
<1> QED BY <1>6, <1>7, <1>8, <1>9 DEF Present

(* Writing the file brings back what was there before it was truncated.     *)
LEMMA EmptiedWritten ==
  ASSUME NEW fs, FilesFormed(fs), NEW t, NEW w \in WriteSet(t)
  PROVE  Written(Written(fs, Emptied(w)), w) = Written(fs, w)
<1> PICK v : v = Emptied(w)
  OBVIOUS
<1> PICK gs : gs = Written(fs, v)
  OBVIOUS
<1>1. fs = [meta |-> fs.meta, dat |-> fs.dat, null |-> fs.null, idx |-> fs.idx]
  BY DEF FilesFormed
<1>2. v.file = w.file /\ v.name = w.name /\ w.file \in {"meta", "dat", "null", "idx"}
  <2>1. w.file \in {"meta", "dat", "null", "idx"}
    BY WriteKinds DEF MetaWrite, DataWrite, FlagsWrite, IndexWrite
  <2> QED BY <2>1, EmptiedFacts
<1>3. \A f, x, y : Put(Put(f, w.name, x), w.name, y) = Put(f, w.name, y)
  <2> TAKE f, x, y
  <2>1. DOMAIN Put(f, w.name, x) \cup {w.name} = DOMAIN f \cup {w.name}
    BY DEF Put
  <2>2. \A z \in DOMAIN f \cup {w.name} :
          (IF z = w.name THEN y ELSE Put(f, w.name, x)[z]) = IF z = w.name THEN y ELSE f[z]
    BY DEF Put
  <2>3. Put(Put(f, w.name, x), w.name, y)
          = [z \in DOMAIN f \cup {w.name} |-> IF z = w.name THEN y ELSE Put(f, w.name, x)[z]]
    BY <2>1, Zenon DEF Put
  <2>4. Put(f, w.name, y) = [z \in DOMAIN f \cup {w.name} |-> IF z = w.name THEN y ELSE f[z]]
    BY Zenon DEF Put
  <2> QED BY <2>2, <2>3, <2>4
<1>4. CASE w.file = "meta"
  <2>1. gs = [meta |-> v.content, dat |-> fs.dat, null |-> fs.null, idx |-> fs.idx]
    BY <1>1, <1>2, <1>4, WrittenFacts
  <2>2. Written(gs, w) = [meta |-> w.content, dat |-> fs.dat, null |-> fs.null, idx |-> fs.idx]
    <3>1. gs = [meta |-> gs.meta, dat |-> gs.dat, null |-> gs.null, idx |-> gs.idx]
      BY <2>1
    <3>2. Written(gs, w) = [meta |-> w.content, dat |-> gs.dat, null |-> gs.null, idx |-> gs.idx]
      BY <1>4, <3>1, WrittenFacts
    <3> QED BY <2>1, <3>2
  <2>3. Written(fs, w) = [meta |-> w.content, dat |-> fs.dat, null |-> fs.null, idx |-> fs.idx]
    BY <1>1, <1>4, WrittenFacts
  <2> QED BY <2>2, <2>3
<1>5. CASE w.file = "dat"
  <2> PICK a : a = Put(fs.dat, w.name, v.content)
    OBVIOUS
  <2> PICK b : b = Put(fs.dat, w.name, w.content)
    OBVIOUS
  <2>1. gs = [meta |-> fs.meta, dat |-> a, null |-> fs.null, idx |-> fs.idx]
    BY <1>1, <1>2, <1>5, WrittenFacts
  <2>2. Written(gs, w) = [meta |-> fs.meta, dat |-> Put(a, w.name, w.content),
                          null |-> fs.null, idx |-> fs.idx]
    <3>1. /\ gs = [meta |-> gs.meta, dat |-> gs.dat, null |-> gs.null, idx |-> gs.idx]
          /\ gs.meta = fs.meta /\ gs.dat = a /\ gs.null = fs.null /\ gs.idx = fs.idx
      BY <2>1
    <3>2. Written(gs, w) = [meta |-> gs.meta, dat |-> Put(gs.dat, w.name, w.content),
                            null |-> gs.null, idx |-> gs.idx]
      BY <1>5, <3>1, WrittenFacts
    <3> QED BY ONLY <3>1, <3>2
  <2>3. Written(fs, w) = [meta |-> fs.meta, dat |-> b, null |-> fs.null, idx |-> fs.idx]
    BY <1>1, <1>5, WrittenFacts
  <2>4. Put(a, w.name, w.content) = b
    BY <1>3
  <2> QED BY <2>2, <2>3, <2>4
<1>6. CASE w.file = "null"
  <2> PICK a : a = Put(fs.null, w.name, v.content)
    OBVIOUS
  <2> PICK b : b = Put(fs.null, w.name, w.content)
    OBVIOUS
  <2>1. gs = [meta |-> fs.meta, dat |-> fs.dat, null |-> a, idx |-> fs.idx]
    BY <1>1, <1>2, <1>6, WrittenFacts
  <2>2. Written(gs, w) = [meta |-> fs.meta, dat |-> fs.dat,
                          null |-> Put(a, w.name, w.content), idx |-> fs.idx]
    <3>1. /\ gs = [meta |-> gs.meta, dat |-> gs.dat, null |-> gs.null, idx |-> gs.idx]
          /\ gs.meta = fs.meta /\ gs.dat = fs.dat /\ gs.null = a /\ gs.idx = fs.idx
      BY <2>1
    <3>2. Written(gs, w) = [meta |-> gs.meta, dat |-> gs.dat,
                            null |-> Put(gs.null, w.name, w.content), idx |-> gs.idx]
      BY <1>6, <3>1, WrittenFacts
    <3> QED BY ONLY <3>1, <3>2
  <2>3. Written(fs, w) = [meta |-> fs.meta, dat |-> fs.dat, null |-> b, idx |-> fs.idx]
    BY <1>1, <1>6, WrittenFacts
  <2>4. Put(a, w.name, w.content) = b
    BY <1>3
  <2> QED BY <2>2, <2>3, <2>4
<1>7. CASE w.file = "idx"
  <2> PICK a : a = Put(fs.idx, w.name, v.content)
    OBVIOUS
  <2> PICK b : b = Put(fs.idx, w.name, w.content)
    OBVIOUS
  <2>1. gs = [meta |-> fs.meta, dat |-> fs.dat, null |-> fs.null, idx |-> a]
    BY <1>1, <1>2, <1>7, WrittenFacts
  <2>2. Written(gs, w) = [meta |-> fs.meta, dat |-> fs.dat, null |-> fs.null,
                          idx |-> Put(a, w.name, w.content)]
    <3>1. /\ gs = [meta |-> gs.meta, dat |-> gs.dat, null |-> gs.null, idx |-> gs.idx]
          /\ gs.meta = fs.meta /\ gs.dat = fs.dat /\ gs.null = fs.null /\ gs.idx = a
      BY <2>1
    <3>2. Written(gs, w) = [meta |-> gs.meta, dat |-> gs.dat, null |-> gs.null,
                            idx |-> Put(gs.idx, w.name, w.content)]
      BY <1>7, <3>1, WrittenFacts
    <3> QED BY ONLY <3>1, <3>2
  <2>3. Written(fs, w) = [meta |-> fs.meta, dat |-> fs.dat, null |-> fs.null, idx |-> b]
    BY <1>1, <1>7, WrittenFacts
  <2>4. Put(a, w.name, w.content) = b
    BY <1>3
  <2> QED BY <2>2, <2>3, <2>4
<1> QED BY <1>2, <1>4, <1>5, <1>6, <1>7

-------------------------------------------------------------------------------
(* Loading (cql_table_load).                                               *)

LEMMA NotLost ==
  ASSUME NEW fs, FilesFormed(fs), ~Lost(fs)
  PROVE  /\ MetaFormed(fs.meta)
         /\ \A c : c \in DOMAIN fs.meta.capacity <=> \E i \in DOMAIN fs.meta.columns : c = fs.meta.columns[i]
         /\ \A c \in DOMAIN fs.meta.capacity :
              c \in ColumnNames /\ c \in DOMAIN fs.dat /\ fs.dat[c].rows \in Seq(Values)
<1>1. MetaFormed(fs.meta)
  BY DEF FilesFormed, Lost
<1>2. \A i \in DOMAIN fs.meta.columns :
        fs.meta.columns[i] \in DOMAIN fs.dat /\ fs.dat[fs.meta.columns[i]] \in DataFiles
  BY DEF FilesFormed, Lost
<1>3. /\ DOMAIN fs.meta.capacity = {fs.meta.columns[i] : i \in DOMAIN fs.meta.columns}
      /\ fs.meta.columns \in Seq(ColumnNames)
  BY <1>1 DEF MetaFormed
<1>4. \A i \in DOMAIN fs.meta.columns : fs.meta.columns[i] \in ColumnNames
  <2> PICK s : s = fs.meta.columns
    OBVIOUS
  <2>1. s \in Seq(ColumnNames)
    BY <1>3
  <2>2. \A i \in DOMAIN s : s[i] \in ColumnNames
    BY <2>1
  <2> QED BY <2>2
<1>5. \A c : c \in DOMAIN fs.meta.capacity <=> \E i \in DOMAIN fs.meta.columns : c = fs.meta.columns[i]
  BY <1>3
<1>6. ASSUME NEW c \in DOMAIN fs.meta.capacity
      PROVE  c \in ColumnNames /\ c \in DOMAIN fs.dat /\ fs.dat[c].rows \in Seq(Values)
  <2>1. PICK i \in DOMAIN fs.meta.columns : c = fs.meta.columns[i]
    BY <1>5
  <2>2. c \in ColumnNames /\ c \in DOMAIN fs.dat /\ fs.dat[c] \in DataFiles
    BY <1>2, <1>4, <2>1
  <2> QED BY <2>2 DEF DataFiles
<1> QED BY <1>1, <1>5, <1>6

(* The values of a loaded column are those of its file as far as it has any,*)
(* and its flags those of its file.                                        *)
LEMMA LoadedDataFacts ==
  ASSUME NEW fs, FilesFormed(fs), ~Lost(fs), NEW c, NEW data \in LoadedData(fs, c)
  PROVE  /\ data \in Seq(Values) /\ Len(data) = fs.meta.row_count
         /\ \A r \in 1 .. fs.meta.row_count :
              r <= Len(fs.dat[c].rows) => data[r] = fs.dat[c].rows[r]
<1> PICK n : n = fs.meta.row_count
  OBVIOUS
<1>1. n \in Nat
  BY NotLost DEF MetaFormed
<1>2. /\ data \in [1 .. n -> Values]
      /\ \A r \in 1 .. n : r <= Len(fs.dat[c].rows) => data[r] = fs.dat[c].rows[r]
  BY DEF LoadedData
<1>3. data \in Seq(Values) /\ Len(data) = n
  BY <1>1, <1>2
<1> QED BY <1>2, <1>3

LEMMA LoadedColumnFacts ==
  ASSUME NEW fs, FilesFormed(fs), ~Lost(fs), NEW c \in DOMAIN fs.meta.capacity,
         NEW data \in LoadedData(fs, c)
  PROVE  LET column == LoadedColumn(fs, c, data)
         IN  /\ column \in Columns /\ AsLong(column, fs.meta.row_count)
             /\ column.name = c /\ column.data = data /\ column.capacity = fs.meta.capacity[c]
<1> DEFINE n == fs.meta.row_count
           column == LoadedColumn(fs, c, data)
           flags == LoadedFlags(fs, c)
           declared == LoadedDeclared(fs, c)
           capacity == fs.meta.capacity[c]
<1>1. /\ n \in Nat /\ c \in ColumnNames /\ capacity \in Nat /\ n <= capacity
      /\ \A d \in DOMAIN fs.null : fs.null[d] \in Seq(BOOLEAN)
      /\ \A d \in DOMAIN fs.meta.declared : fs.meta.declared[d] \in Declarations
  BY NotLost DEF FilesFormed, MetaFormed
<1>2. column = [name |-> c, declared |-> declared, capacity |-> capacity,
                data |-> data, null_flags |-> flags]
  BY DEF LoadedColumn
<1>3. data \in Seq(Values) /\ Len(data) = n
  BY LoadedDataFacts
<1> HIDE DEF column, n, capacity
<1>4. flags \in Seq(BOOLEAN) \cup {None} /\ (flags # None => Len(flags) = n)
  <2> PICK s : s = FlagsIn(fs, c)
    OBVIOUS
  <2>1. s \in Seq(BOOLEAN)
    <3> PICK none : none = <<>>
      OBVIOUS
    <3>1. none \in Seq(BOOLEAN)
      OBVIOUS
    <3> QED BY <1>1, <3>1 DEF FlagsIn
  <2>2. CASE c \in fs.meta.nulls /\ Len(s) >= n
    <3>1. flags = SubSeq(s, 1, n)
      BY <2>2 DEF LoadedFlags, n
    <3> HIDE DEF flags
    <3>2. SubSeq(s, 1, n) \in Seq(BOOLEAN) /\ Len(SubSeq(s, 1, n)) = n
      BY <1>1, <2>1, <2>2
    <3> QED BY <3>1, <3>2
  <2>3. CASE ~(c \in fs.meta.nulls /\ Len(s) >= n)
    BY <2>3 DEF LoadedFlags, n
  <2> QED BY <2>2, <2>3
<1>5. declared \in Declarations
  BY <1>1 DEF LoadedDeclared, Declarations
<1> HIDE DEF flags, declared
<1> QED BY <1>1, <1>2, <1>3, <1>4, <1>5 DEF Columns, AsLong, column, n, capacity

AllData(fs, data) == \A c \in DOMAIN fs.meta.capacity : data[c] \in LoadedData(fs, c)
LoadedColumns(fs, data) ==
  [i \in DOMAIN fs.meta.columns |->
     LoadedColumn(fs, fs.meta.columns[i], data[fs.meta.columns[i]])]

LEMMA LoadedColumnsFacts ==
  ASSUME NEW fs, FilesFormed(fs), ~Lost(fs), NEW data, AllData(fs, data)
  PROVE  LET columns == LoadedColumns(fs, data)
         IN  /\ columns \in Seq(Columns) /\ DOMAIN columns = DOMAIN fs.meta.columns
             /\ Len(columns) = Len(fs.meta.columns)
             /\ \A i \in DOMAIN columns :
                  /\ columns[i].name = fs.meta.columns[i]
                  /\ columns[i].data = data[fs.meta.columns[i]]
                  /\ columns[i].capacity = fs.meta.capacity[fs.meta.columns[i]]
                  /\ AsLong(columns[i], fs.meta.row_count)
             /\ NamedApart(columns)
<1> DEFINE n == Len(fs.meta.columns)
           columns == LoadedColumns(fs, data)
<1>1. /\ fs.meta.columns \in Seq(ColumnNames)
      /\ \A i, j \in DOMAIN fs.meta.columns : fs.meta.columns[i] = fs.meta.columns[j] => i = j
  BY NotLost DEF MetaFormed
<1>2. n \in Nat /\ DOMAIN fs.meta.columns = 1 .. n
  BY <1>1
<1>3. columns = [i \in 1 .. n |-> LoadedColumn(fs, fs.meta.columns[i], data[fs.meta.columns[i]])]
  BY <1>2 DEF LoadedColumns
<1> HIDE DEF columns, n
<1>4. ASSUME NEW i \in 1 .. n
      PROVE  /\ columns[i] \in Columns
             /\ columns[i].name = fs.meta.columns[i]
             /\ columns[i].data = data[fs.meta.columns[i]]
             /\ columns[i].capacity = fs.meta.capacity[fs.meta.columns[i]]
             /\ AsLong(columns[i], fs.meta.row_count)
  <2> PICK c : c = fs.meta.columns[i]
    OBVIOUS
  <2> PICK d : d = data[c]
    OBVIOUS
  <2>1. columns[i] = LoadedColumn(fs, c, d)
    BY <1>3
  <2>2. c \in DOMAIN fs.meta.capacity /\ d \in LoadedData(fs, c)
    BY <1>2, NotLost DEF AllData
  <2> HIDE DEF columns
  <2> QED BY <2>1, <2>2, LoadedColumnFacts
<1>5. columns \in Seq(Columns) /\ Len(columns) = n /\ DOMAIN columns = 1 .. n
  <2>1. columns = [i \in 1 .. n |-> columns[i]]
    BY <1>3
  <2>2. [i \in 1 .. n |-> columns[i]] \in Seq(Columns) /\ Len([i \in 1 .. n |-> columns[i]]) = n
    BY <1>2, <1>4
  <2> QED BY <1>2, <2>1, <2>2
<1>6. NamedApart(columns)
  BY <1>1, <1>2, <1>4, <1>5 DEF NamedApart
<1> QED BY <1>2, <1>4, <1>5, <1>6 DEF columns, n

(* The order of an index is in its file, or is made from the column.        *)
LEMMA OrdersAtFacts ==
  ASSUME NEW fs, FilesFormed(fs), ~Lost(fs), NEW data, AllData(fs, data),
         NEW i \in DOMAIN fs.meta.indexes
  PROVE  \A order \in OrdersAt(fs, data, i) :
           order \in Seq(Nat) /\ IsOrder(order, fs.meta.row_count)
<1> DEFINE index == fs.meta.indexes[i]
           name == index.name
<1> PICK n : n = fs.meta.row_count
  OBVIOUS
<1> PICK keys : keys = data[index.column]
  OBVIOUS
<1>1. /\ \A x \in DOMAIN fs.idx : fs.idx[x] \in Seq(Nat) /\ IsOrder(fs.idx[x], Len(fs.idx[x]))
      /\ index.column \in DOMAIN fs.meta.capacity
  BY NotLost DEF FilesFormed, MetaFormed
<1>2. keys \in Seq(Int) /\ Len(keys) = n
  <2>1. keys \in LoadedData(fs, index.column)
    BY <1>1 DEF AllData
  <2>2. keys \in Seq(Values) /\ Len(keys) = n
    BY <2>1, LoadedDataFacts
  <2> QED BY <2>2, ValuesInt
<1>3. OrdersAt(fs, data, i)
        = IF name \in DOMAIN fs.idx /\ Len(fs.idx[name]) = n THEN {fs.idx[name]} ELSE Orders(keys)
  BY DEF OrdersAt, LoadedOrders
<1> HIDE DEF name
<1>4. CASE name \in DOMAIN fs.idx /\ Len(fs.idx[name]) = n
  <2>1. OrdersAt(fs, data, i) = {fs.idx[name]}
    BY <1>3, <1>4
  <2>2. fs.idx[name] \in Seq(Nat) /\ IsOrder(fs.idx[name], n)
    BY <1>1, <1>4
  <2> QED BY <2>1, <2>2
<1>5. CASE ~(name \in DOMAIN fs.idx /\ Len(fs.idx[name]) = n)
  <2>1. OrdersAt(fs, data, i) = Orders(keys)
    BY <1>3, <1>5
  <2>2. \A order \in Orders(keys) : order \in Seq(Nat) /\ Sorted(order, keys)
    BY <1>2, OrdersFacts
  <2> QED BY <1>2, <2>1, <2>2 DEF Sorted
<1> QED BY <1>4, <1>5

LEMMA LoadedTablesFacts ==
  ASSUME NEW fs
  PROVE  /\ \A t \in LoadedTables(fs) : \E data, orders :
              /\ t = Loaded(fs, data, orders) /\ AllData(fs, data)
              /\ \A i \in DOMAIN fs.meta.indexes : orders[i] \in OrdersAt(fs, data, i)
         /\ \A data, orders :
              /\ data = [c \in DOMAIN fs.meta.capacity |-> data[c]] /\ AllData(fs, data)
              /\ orders = [i \in DOMAIN fs.meta.indexes |-> orders[i]]
              /\ \A i \in DOMAIN fs.meta.indexes : orders[i] \in OrdersAt(fs, data, i)
              => Loaded(fs, data, orders) \in LoadedTables(fs)
<1>1. \A data \in DataChoices(fs) : AllData(fs, data)
  BY DEF DataChoices, AllData
<1>2. ASSUME NEW data, data = [c \in DOMAIN fs.meta.capacity |-> data[c]], AllData(fs, data)
      PROVE  data \in DataChoices(fs)
  <2> DEFINE names == DOMAIN fs.meta.capacity
             U == UNION {LoadedData(fs, c) : c \in names}
  <2>1. \A c \in names : data[c] \in LoadedData(fs, c)
    BY <1>2 DEF AllData
  <2>2. \A c \in names : data[c] \in U
    BY <2>1
  <2> HIDE DEF U
  <2>3. data \in [names -> U]
    BY <1>2, <2>2
  <2> QED BY <2>1, <2>3 DEF DataChoices, U
<1>3. \A data, orders : orders \in OrderChoices(fs, data) =>
        \A i \in DOMAIN fs.meta.indexes : orders[i] \in OrdersAt(fs, data, i)
  BY DEF OrderChoices
<1>4. ASSUME NEW data, NEW orders, orders = [i \in DOMAIN fs.meta.indexes |-> orders[i]],
             \A i \in DOMAIN fs.meta.indexes : orders[i] \in OrdersAt(fs, data, i)
      PROVE  orders \in OrderChoices(fs, data)
  <2> DEFINE indexes == DOMAIN fs.meta.indexes
             U == UNION {OrdersAt(fs, data, i) : i \in indexes}
  <2>1. \A i \in indexes : orders[i] \in U
    BY <1>4
  <2> HIDE DEF U
  <2>2. orders \in [indexes -> U]
    BY <1>4, <2>1
  <2> QED BY <1>4, <2>2 DEF OrderChoices, U
<1>5. \A t : t \in LoadedTables(fs) <=>
        \E data \in DataChoices(fs) : \E orders \in OrderChoices(fs, data) : t = Loaded(fs, data, orders)
  BY DEF LoadedTables
<1>6. ASSUME NEW t \in LoadedTables(fs)
      PROVE  \E data, orders :
               /\ t = Loaded(fs, data, orders) /\ AllData(fs, data)
               /\ \A i \in DOMAIN fs.meta.indexes : orders[i] \in OrdersAt(fs, data, i)
  <2>1. PICK data \in DataChoices(fs) : \E orders \in OrderChoices(fs, data) : t = Loaded(fs, data, orders)
    BY <1>5
  <2>2. PICK orders \in OrderChoices(fs, data) : t = Loaded(fs, data, orders)
    BY <2>1
  <2> QED BY <1>1, <1>3, <2>1, <2>2
<1>7. ASSUME NEW data, NEW orders,
             data = [c \in DOMAIN fs.meta.capacity |-> data[c]], AllData(fs, data),
             orders = [i \in DOMAIN fs.meta.indexes |-> orders[i]],
             \A i \in DOMAIN fs.meta.indexes : orders[i] \in OrdersAt(fs, data, i)
      PROVE  Loaded(fs, data, orders) \in LoadedTables(fs)
  <2>1. data \in DataChoices(fs)
    BY <1>2, <1>7
  <2>2. orders \in OrderChoices(fs, data)
    BY <1>4, <1>7
  <2> QED BY <1>5, <2>1, <2>2
<1> QED BY <1>6, <1>7

LEMMA LoadedFacts ==
  ASSUME NEW fs, FilesFormed(fs), ~Lost(fs), NEW t \in LoadedTables(fs)
  PROVE  /\ WellFormed(t) /\ t.row_count = fs.meta.row_count
         /\ \E data : AllData(fs, data) /\ t.columns = LoadedColumns(fs, data)
<1> DEFINE n == fs.meta.row_count
           heads == fs.meta.indexes
<1>1. /\ n \in Nat /\ n <= MaxRows /\ heads \in Seq(IndexHeads) /\ NamedApart(heads)
      /\ DOMAIN heads = 1 .. Len(heads) /\ Len(heads) \in Nat
      /\ \A i \in DOMAIN heads : \E j \in DOMAIN fs.meta.columns : heads[i].column = fs.meta.columns[j]
  BY NotLost DEF MetaFormed
<1>2. PICK data, orders : /\ t = Loaded(fs, data, orders) /\ AllData(fs, data)
                          /\ \A i \in DOMAIN heads : orders[i] \in OrdersAt(fs, data, i)
  BY LoadedTablesFacts
<1> DEFINE columns == LoadedColumns(fs, data)
           indexes == [i \in DOMAIN heads |->
                        [name |-> heads[i].name, column |-> heads[i].column, order |-> orders[i]]]
<1>3. t = [row_count |-> n, columns |-> columns, indexes |-> indexes]
  BY <1>2 DEF Loaded, LoadedColumns
<1>4. /\ columns \in Seq(Columns) /\ DOMAIN columns = DOMAIN fs.meta.columns
      /\ \A i \in DOMAIN columns : columns[i].name = fs.meta.columns[i] /\ AsLong(columns[i], n)
      /\ NamedApart(columns)
  BY <1>2, LoadedColumnsFacts
<1>5. ASSUME NEW i \in DOMAIN heads
      PROVE  /\ indexes[i] \in Indexes
             /\ indexes[i].name = heads[i].name /\ indexes[i].column = heads[i].column
             /\ IsOrder(indexes[i].order, n)
  <2>1. orders[i] \in Seq(Nat) /\ IsOrder(orders[i], n)
    BY <1>2, OrdersAtFacts
  <2>2. heads[i].name \in IndexNames /\ heads[i].column \in ColumnNames
    <3>1. heads[i] \in IndexHeads
      BY <1>1
    <3> QED BY <3>1 DEF IndexHeads
  <2>3. indexes[i] = [name |-> heads[i].name, column |-> heads[i].column, order |-> orders[i]]
    OBVIOUS
  <2> HIDE DEF indexes, heads
  <2> QED BY <2>1, <2>2, <2>3 DEF Indexes
<1>6. DOMAIN indexes = DOMAIN heads /\ indexes = [i \in 1 .. Len(heads) |-> indexes[i]]
  BY <1>1
<1> HIDE DEF columns, indexes, heads, n
<1>7. indexes \in Seq(Indexes)
  <2>1. \A i \in 1 .. Len(heads) : indexes[i] \in Indexes
    BY <1>1, <1>5
  <2>2. [i \in 1 .. Len(heads) |-> indexes[i]] \in Seq(Indexes)
    BY <1>1, <2>1
  <2> QED BY <1>6, <2>2
<1>8. NamedApart(indexes)
  BY <1>1, <1>5, <1>6 DEF NamedApart
<1>9. /\ t.row_count = n /\ t.columns = columns /\ t.indexes = indexes
      /\ t = [row_count |-> t.row_count, columns |-> t.columns, indexes |-> t.indexes]
  BY <1>3
<1>10. \A i \in DOMAIN indexes : indexes[i].column \in Names(t)
  <2> TAKE i \in DOMAIN indexes
  <2>1. PICK j \in DOMAIN fs.meta.columns : heads[i].column = fs.meta.columns[j]
    BY <1>1, <1>6
  <2>2. j \in DOMAIN t.columns /\ t.columns[j].name = indexes[i].column
    BY <1>4, <1>5, <1>6, <1>9, <2>1
  <2> QED BY <2>2 DEF Names
<1>11. \A i \in DOMAIN indexes : IsOrder(indexes[i].order, n)
  BY <1>5, <1>6
<1>12. WellFormed(t)
  BY <1>1, <1>4, <1>7, <1>8, <1>9, <1>10, <1>11 DEF WellFormed
<1> QED BY <1>2, <1>9, <1>12 DEF columns, n

(* Files that a save has written load as the table, and as no other.        *)
LEMMA MatchFacts ==
  ASSUME NEW fs, NEW t, Match(fs, t)
  PROVE  /\ fs.meta = MetaOf(t)
         /\ \A i \in DOMAIN t.columns :
              /\ Holds(fs.dat, t.columns[i].name,
                       [rows |-> t.columns[i].data, size |-> t.columns[i].capacity])
              /\ t.columns[i].null_flags # None =>
                   Holds(fs.null, t.columns[i].name, t.columns[i].null_flags)
         /\ \A i \in DOMAIN t.indexes : Holds(fs.idx, t.indexes[i].name, t.indexes[i].order)
<1>1. fs.meta = MetaOf(t)
  <2>1. MetaWrite(t) \in WriteSet(t)
    BY DEF WriteSet
  <2>2. Present(fs, MetaWrite(t))
    BY <2>1 DEF Match
  <2> QED BY <2>2 DEF Present, MetaWrite
<1>2. ASSUME NEW i \in DOMAIN t.columns
      PROVE  /\ Holds(fs.dat, t.columns[i].name,
                      [rows |-> t.columns[i].data, size |-> t.columns[i].capacity])
             /\ t.columns[i].null_flags # None =>
                  Holds(fs.null, t.columns[i].name, t.columns[i].null_flags)
  <2>1. Present(fs, DataWrite(t.columns[i]))
    <3>1. DataWrite(t.columns[i]) \in WriteSet(t)
      BY DEF WriteSet
    <3> QED BY <3>1 DEF Match
  <2>2. ASSUME t.columns[i].null_flags # None PROVE Present(fs, FlagsWrite(t.columns[i]))
    <3>1. FlagsWrite(t.columns[i]) \in WriteSet(t)
      BY <2>2 DEF WriteSet
    <3> QED BY <3>1 DEF Match
  <2>3. Holds(fs.dat, t.columns[i].name,
              [rows |-> t.columns[i].data, size |-> t.columns[i].capacity])
    BY <2>1 DEF Present, DataWrite
  <2>4. ASSUME t.columns[i].null_flags # None
        PROVE  Holds(fs.null, t.columns[i].name, t.columns[i].null_flags)
    BY <2>2, <2>4 DEF Present, FlagsWrite
  <2> QED BY <2>3, <2>4
<1>3. ASSUME NEW i \in DOMAIN t.indexes
      PROVE  Holds(fs.idx, t.indexes[i].name, t.indexes[i].order)
  <2>1. IndexWrite(t.indexes[i]) \in WriteSet(t)
    BY DEF WriteSet
  <2>2. Present(fs, IndexWrite(t.indexes[i]))
    BY <2>1 DEF Match
  <2> QED BY <2>2 DEF Present, IndexWrite
<1> QED BY <1>1, <1>2, <1>3

LEMMA MatchingColumn ==
  ASSUME NEW fs, NEW t, WellFormed(t), Match(fs, t), NEW i \in DOMAIN t.columns
  PROVE  LET column == t.columns[i]
         IN  /\ LoadedData(fs, column.name) = {column.data}
             /\ LoadedColumn(fs, column.name, column.data) = column
             /\ column.name \in DOMAIN fs.dat /\ column.name \in DOMAIN fs.meta.capacity
             /\ fs.dat[column.name].size = column.capacity
             /\ fs.meta.capacity[column.name] = column.capacity
             /\ column.capacity \in Nat
<1> PICK column : column = t.columns[i]
  OBVIOUS
<1> PICK c : c = column.name
  OBVIOUS
<1> PICK n : n = t.row_count
  OBVIOUS
<1>1. /\ column \in Columns /\ AsLong(column, n) /\ n \in Nat /\ NamedApart(t.columns)
  BY DEF WellFormed
<1>2. c \in Names(t) /\ ColumnOf(t, c) = column
  BY <1>1, ColumnOfFacts
<1>3. /\ fs.meta = MetaOf(t)
      /\ Holds(fs.dat, c, [rows |-> column.data, size |-> column.capacity])
      /\ column.null_flags # None => Holds(fs.null, c, column.null_flags)
  BY MatchFacts
<1>4. /\ fs.meta.row_count = n /\ fs.meta.declared = DeclaredIn(t)
      /\ fs.meta.nulls = {d \in Names(t) : ColumnOf(t, d).null_flags # None}
      /\ fs.meta.capacity = [d \in Names(t) |-> ColumnOf(t, d).capacity]
  BY <1>3 DEF MetaOf
<1>5. /\ column = [name |-> column.name, declared |-> column.declared, data |-> column.data,
                   null_flags |-> column.null_flags, capacity |-> column.capacity]
      /\ column.data \in Seq(Values) /\ Len(column.data) = n
      /\ column.null_flags \in Seq(BOOLEAN) \cup {None}
      /\ column.null_flags # None => Len(column.null_flags) = n
      /\ column.capacity \in Nat
  BY <1>1 DEF Columns, AsLong
<1>6. LoadedDeclared(fs, c) = column.declared
  BY <1>2, <1>4 DEF LoadedDeclared, DeclaredIn
<1>7. LoadedData(fs, c) = {column.data}
  <2> PICK s : s = column.data
    OBVIOUS
  <2>1. fs.dat[c].rows = s
    BY <1>3 DEF Holds
  <2>2. s \in Seq(Values) /\ Len(s) = n
    BY <1>5
  <2>3. s \in [1 .. n -> Values]
    BY <1>1, <2>2
  <2>4. LoadedData(fs, c) = {data \in [1 .. n -> Values] : \A r \in 1 .. n : r <= n => data[r] = s[r]}
    BY <1>4, <2>1, <2>2 DEF LoadedData
  <2>5. ASSUME NEW data \in [1 .. n -> Values], \A r \in 1 .. n : data[r] = s[r]
        PROVE  data = s
    <3>1. data = [r \in 1 .. n |-> data[r]] /\ s = [r \in 1 .. n |-> s[r]]
      BY <2>3
    <3> QED BY <2>5, <3>1
  <2>6. \A r \in 1 .. n : r <= n
    BY <1>1
  <2> QED BY <2>3, <2>4, <2>5, <2>6
<1>8. LoadedFlags(fs, c) = column.null_flags
  <2>1. CASE column.null_flags = None
    <3>1. c \notin fs.meta.nulls
      BY <1>2, <1>4, <2>1
    <3> QED BY <2>1, <3>1 DEF LoadedFlags
  <2>2. CASE column.null_flags # None
    <3> PICK s : s = column.null_flags
      OBVIOUS
    <3>1. s \in Seq(BOOLEAN) /\ Len(s) = n /\ c \in fs.meta.nulls /\ FlagsIn(fs, c) = s
      BY <1>2, <1>3, <1>4, <1>5, <2>2 DEF Holds, FlagsIn
    <3>2. SubSeq(s, 1, n) = s /\ Len(s) >= n
      BY <1>1, <3>1
    <3> QED BY <1>4, <3>1, <3>2 DEF LoadedFlags
  <2> QED BY <2>1, <2>2
<1>9. fs.meta.capacity[c] = column.capacity /\ c \in DOMAIN fs.meta.capacity
  BY <1>2, <1>4
<1>10. LoadedColumn(fs, c, column.data)
        = [name |-> c, declared |-> column.declared, capacity |-> column.capacity,
           data |-> column.data, null_flags |-> column.null_flags]
  BY <1>6, <1>8, <1>9 DEF LoadedColumn
<1>11. LoadedColumn(fs, c, column.data) = column
  BY <1>5, <1>10
<1>12. c \in DOMAIN fs.dat /\ fs.dat[c].size = column.capacity
  BY <1>3 DEF Holds
<1> QED BY <1>5, <1>7, <1>9, <1>11, <1>12

(* cql_table_load after cql_table_save: files that hold everything that is  *)
(* written of a table are read, and as exactly that table.                *)
THEOREM MatchLoads ==
  ASSUME NEW fs, NEW t, WellFormed(t), Match(fs, t)
  PROVE  Whole(fs) /\ LoadedTables(fs) = {t}
<1> DEFINE names == [i \in DOMAIN t.columns |-> t.columns[i].name]
           heads == [i \in DOMAIN t.indexes |->
                      [name |-> t.indexes[i].name, column |-> t.indexes[i].column]]
<1> PICK n : n = t.row_count
  OBVIOUS
<1>1. /\ t = [row_count |-> n, columns |-> t.columns, indexes |-> t.indexes]
      /\ t.columns \in Seq(Columns) /\ t.indexes \in Seq(Indexes)
      /\ \A i \in DOMAIN t.indexes : IsOrder(t.indexes[i].order, n)
      /\ n \in Nat
  BY DEF WellFormed
<1>2. /\ fs.meta = MetaOf(t)
      /\ \A i \in DOMAIN t.indexes : Holds(fs.idx, t.indexes[i].name, t.indexes[i].order)
  BY MatchFacts
<1>3. /\ fs.meta.row_count = n /\ fs.meta.columns = names /\ fs.meta.indexes = heads
      /\ DOMAIN fs.meta.capacity = Names(t)
  BY <1>2 DEF MetaOf
<1>4. /\ DOMAIN names = DOMAIN t.columns /\ \A i \in DOMAIN t.columns : names[i] = t.columns[i].name
      /\ DOMAIN heads = DOMAIN t.indexes
      /\ \A i \in DOMAIN t.indexes :
           heads[i].name = t.indexes[i].name /\ heads[i].column = t.indexes[i].column
  OBVIOUS
<1> HIDE DEF names, heads
<1>5. Whole(fs)
  <2>1. fs.meta # <<>>
    BY <1>2, MetaIsThere
  <2>2. ASSUME NEW i \in DOMAIN fs.meta.columns, NEW c, c = fs.meta.columns[i]
        PROVE  /\ c \in DOMAIN fs.dat /\ ~(fs.dat[c].size = 0 /\ fs.meta.capacity[c] > 0)
               /\ ~(fs.dat[c].size < fs.meta.capacity[c])
    <3>1. i \in DOMAIN t.columns /\ c = t.columns[i].name
      BY <1>3, <1>4, <2>2
    <3>2. c \in DOMAIN fs.dat /\ fs.dat[c].size = fs.meta.capacity[c] /\ fs.meta.capacity[c] \in Nat
      BY <3>1, MatchingColumn
    <3> QED BY <3>2
  <2> QED BY <2>1, <2>2 DEF Whole, Lost, Short
<1>6. \A c \in Names(t) : LoadedData(fs, c) = {ColumnOf(t, c).data}
  <2> TAKE c \in Names(t)
  <2>1. PICK i \in DOMAIN t.columns : t.columns[i].name = c /\ ColumnOf(t, c) = t.columns[i]
    BY ColumnOfFacts DEF WellFormed
  <2> QED BY <2>1, MatchingColumn
<1>7. ASSUME NEW data, \A c \in Names(t) : data[c] = ColumnOf(t, c).data
      PROVE  LoadedColumns(fs, data) = t.columns
  <2>1. \A i \in DOMAIN t.columns : LoadedColumn(fs, names[i], data[names[i]]) = t.columns[i]
    <3> TAKE i \in DOMAIN t.columns
    <3>1. t.columns[i].name \in Names(t) /\ ColumnOf(t, t.columns[i].name) = t.columns[i]
      BY ColumnOfFacts DEF WellFormed
    <3>2. data[names[i]] = t.columns[i].data
      BY <1>4, <1>7, <3>1
    <3> QED BY <1>4, <3>2, MatchingColumn
  <2>2. LoadedColumns(fs, data) = [i \in DOMAIN t.columns |-> t.columns[i]]
    BY <1>3, <1>4, <2>1 DEF LoadedColumns
  <2>3. t.columns = [i \in DOMAIN t.columns |-> t.columns[i]]
    BY <1>1
  <2> QED BY <2>2, <2>3
<1>8. ASSUME NEW data, NEW i \in DOMAIN t.indexes
      PROVE  OrdersAt(fs, data, i) = {t.indexes[i].order}
  <2> PICK order : order = t.indexes[i].order
    OBVIOUS
  <2>1. order \in Seq(Nat) /\ DOMAIN order = 1 .. n
    <3>1. t.indexes[i] \in Indexes /\ IsOrder(order, n)
      BY <1>1
    <3> QED BY <3>1 DEF Indexes, IsOrder
  <2>2. heads[i].name \in DOMAIN fs.idx /\ fs.idx[heads[i].name] = order
    BY <1>2, <1>4 DEF Holds
  <2>3. Len(order) = n
    BY <1>1, <2>1, OrderLength
  <2> QED BY <1>3, <2>2, <2>3 DEF OrdersAt, LoadedOrders
<1>9. ASSUME NEW data, \A c \in Names(t) : data[c] = ColumnOf(t, c).data,
             NEW orders, \A i \in DOMAIN t.indexes : orders[i] = t.indexes[i].order
      PROVE  Loaded(fs, data, orders) = t
  <2> DEFINE indexes == [i \in DOMAIN heads |->
                          [name |-> heads[i].name, column |-> heads[i].column, order |-> orders[i]]]
  <2>1. Loaded(fs, data, orders) = [row_count |-> n, columns |-> t.columns, indexes |-> indexes]
    <3>1. Loaded(fs, data, orders)
            = [row_count |-> n, columns |-> LoadedColumns(fs, data), indexes |-> indexes]
      BY <1>3 DEF Loaded, LoadedColumns
    <3>2. LoadedColumns(fs, data) = t.columns
      BY <1>7, <1>9
    <3> QED BY <3>1, <3>2
  <2>2. \A i \in DOMAIN t.indexes : indexes[i] = t.indexes[i]
    <3> TAKE i \in DOMAIN t.indexes
    <3>1. t.indexes[i] \in Indexes
      BY <1>1
    <3>2. indexes[i] = [name |-> t.indexes[i].name, column |-> t.indexes[i].column,
                        order |-> t.indexes[i].order]
      BY <1>4, <1>9
    <3> HIDE DEF indexes
    <3> QED BY <3>1, <3>2 DEF Indexes
  <2>3. indexes = t.indexes
    <3>1. indexes = [i \in DOMAIN t.indexes |-> indexes[i]]
      BY <1>4
    <3>2. t.indexes = [i \in DOMAIN t.indexes |-> t.indexes[i]]
      BY <1>1
    <3> HIDE DEF indexes
    <3> QED BY <2>2, <3>1, <3>2
  <2> QED BY <1>1, <2>1, <2>3
<1>10. \A u \in LoadedTables(fs) : u = t
  <2> TAKE u \in LoadedTables(fs)
  <2>1. PICK data, orders :
          /\ u = Loaded(fs, data, orders) /\ AllData(fs, data)
          /\ \A i \in DOMAIN fs.meta.indexes : orders[i] \in OrdersAt(fs, data, i)
    BY LoadedTablesFacts
  <2>2. \A i \in DOMAIN t.indexes : orders[i] = t.indexes[i].order
    BY <1>3, <1>4, <1>8, <2>1
  <2>3. \A c \in Names(t) : data[c] = ColumnOf(t, c).data
    BY <1>3, <1>6, <2>1 DEF AllData
  <2> QED BY <1>9, <2>1, <2>2, <2>3
<1>11. t \in LoadedTables(fs)
  <2> PICK data : data = [c \in DOMAIN fs.meta.capacity |-> ColumnOf(t, c).data]
    OBVIOUS
  <2> PICK orders : orders = [i \in DOMAIN fs.meta.indexes |-> t.indexes[i].order]
    OBVIOUS
  <2>1. /\ orders = [i \in DOMAIN fs.meta.indexes |-> orders[i]]
        /\ \A i \in DOMAIN t.indexes : orders[i] = t.indexes[i].order
    BY <1>3, <1>4
  <2>2. /\ data = [c \in DOMAIN fs.meta.capacity |-> data[c]]
        /\ \A c \in Names(t) : data[c] = ColumnOf(t, c).data
    BY <1>3
  <2>3. \A i \in DOMAIN fs.meta.indexes : orders[i] \in OrdersAt(fs, data, i)
    BY <1>3, <1>4, <1>8, <2>1
  <2>4. AllData(fs, data)
    BY <1>3, <1>6, <2>2 DEF AllData
  <2>5. Loaded(fs, data, orders) \in LoadedTables(fs)
    BY <2>1, <2>2, <2>3, <2>4, LoadedTablesFacts
  <2> QED BY <1>9, <2>1, <2>2, <2>5
<1> QED BY <1>5, <1>10, <1>11

(* Files that rows have only been appended to.                             *)
LEMMA MatchGrows ==
  ASSUME NEW fs, NEW t, WellFormed(t), Match(fs, t), NEW kept
  PROVE  FilesGrow(fs, t, kept)
<1>1. /\ fs.meta = MetaOf(t) /\ fs.meta # <<>>
      /\ \A i \in DOMAIN t.columns :
           Holds(fs.dat, t.columns[i].name,
                 [rows |-> t.columns[i].data, size |-> t.columns[i].capacity])
  BY MatchFacts, MetaIsThere
<1>2. t.row_count \in Nat /\ \A i \in DOMAIN t.columns : AsLong(t.columns[i], t.row_count)
  BY DEF WellFormed
<1>3. fs.meta.row_count = t.row_count /\ fs.meta.columns = [i \in DOMAIN t.columns |-> t.columns[i].name]
  BY <1>1 DEF MetaOf
<1>4. Len(fs.meta.columns) = Len(t.columns)
  <2>1. DOMAIN t.columns = 1 .. Len(t.columns) /\ Len(t.columns) \in Nat
    BY DEF WellFormed
  <2> QED BY <1>3, <2>1
<1>5. ASSUME NEW i \in DOMAIN t.columns
      PROVE  /\ fs.meta.columns[i] = t.columns[i].name
             /\ fs.meta.capacity[t.columns[i].name] = t.columns[i].capacity
             /\ t.columns[i].name \in DOMAIN fs.dat
             /\ DataGrows(fs.dat[t.columns[i].name], t.columns[i], t.row_count, kept)
  <2> PICK column : column = t.columns[i]
    OBVIOUS
  <2>1. /\ column.name \in DOMAIN fs.dat
        /\ fs.dat[column.name] = [rows |-> column.data, size |-> column.capacity]
    BY <1>1 DEF Holds
  <2>2. Len(column.data) = t.row_count /\ t.row_count <= column.capacity /\ column.capacity \in Nat
    <3>1. AsLong(column, t.row_count) /\ column \in Columns
      BY <1>2 DEF WellFormed
    <3> QED BY <3>1 DEF AsLong, Columns
  <2>3. Begins(column.data, column.data, t.row_count)
    BY <1>2, <2>2 DEF Begins
  <2>4. DataGrows(fs.dat[column.name], column, t.row_count, kept)
    BY <1>2, <2>1, <2>2, <2>3 DEF DataGrows
  <2>5. fs.meta.capacity[column.name] = column.capacity
    BY MatchingColumn
  <2> QED BY <1>3, <2>1, <2>4, <2>5
<1>6. fs.meta.row_count >= t.row_count
  BY <1>2, <1>3
<1> QED BY <1>1, <1>4, <1>5, <1>6 DEF FilesGrow

LEMMA WrittenGrows ==
  ASSUME NEW fs, FilesFormed(fs), NEW t, WellFormed(t), NEW w \in WriteSet(t),
         NEW s, WellFormed(s), NEW kept, Grows(t, s, kept), FilesGrow(fs, s, kept)
  PROVE  FilesGrow(Written(fs, w), s, kept)
<1> PICK gs : gs = Written(fs, w)
  OBVIOUS
<1> PICK n : n = s.row_count
  OBVIOUS
<1>1. fs = [meta |-> fs.meta, dat |-> fs.dat, null |-> fs.null, idx |-> fs.idx]
  BY DEF FilesFormed
<1>2. /\ NamedApart(t.columns) /\ DOMAIN t.columns = 1 .. Len(t.columns) /\ Len(t.columns) \in Nat
      /\ DOMAIN s.columns = 1 .. Len(s.columns) /\ n \in Nat /\ t.row_count \in Nat
      /\ \A i \in DOMAIN t.columns : t.columns[i] \in Columns /\ AsLong(t.columns[i], t.row_count)
  BY DEF WellFormed
<1>3. /\ t.row_count >= n /\ Len(t.columns) = Len(s.columns) /\ DOMAIN s.columns = DOMAIN t.columns
      /\ \A i \in DOMAIN s.columns :
           /\ t.columns[i].name = s.columns[i].name /\ Begins(t.columns[i].data, s.columns[i].data, n)
           /\ kept => t.columns[i].capacity = s.columns[i].capacity
  BY <1>2 DEF Grows
<1>4. /\ fs.meta # <<>> /\ fs.meta.row_count >= n /\ Len(fs.meta.columns) = Len(s.columns)
      /\ \A i \in DOMAIN s.columns :
           /\ fs.meta.columns[i] = s.columns[i].name
           /\ kept => fs.meta.capacity[s.columns[i].name] = s.columns[i].capacity
           /\ s.columns[i].name \in DOMAIN fs.dat
           /\ DataGrows(fs.dat[s.columns[i].name], s.columns[i], n, kept)
  BY DEF FilesGrow
<1>5. CASE w = MetaWrite(t)
  <2>1. w.file = "meta" /\ w.content = MetaOf(t)
    BY <1>5 DEF MetaWrite
  <2>2. gs = [meta |-> MetaOf(t), dat |-> fs.dat, null |-> fs.null, idx |-> fs.idx]
    BY <1>1, <2>1, WrittenFacts
  <2>3. gs.meta = MetaOf(t) /\ gs.dat = fs.dat /\ gs.meta # <<>>
    BY <2>2, MetaIsThere
  <2>4. /\ gs.meta.row_count = t.row_count
        /\ gs.meta.columns = [i \in DOMAIN t.columns |-> t.columns[i].name]
        /\ gs.meta.capacity = [c \in Names(t) |-> ColumnOf(t, c).capacity]
    BY <2>3 DEF MetaOf
  <2>5. Len(gs.meta.columns) = Len(s.columns)
    BY <1>2, <1>3, <2>4
  <2>6. ASSUME NEW i \in DOMAIN s.columns
        PROVE  /\ gs.meta.columns[i] = s.columns[i].name
               /\ kept => gs.meta.capacity[s.columns[i].name] = s.columns[i].capacity
    <3>1. t.columns[i].name \in Names(t) /\ ColumnOf(t, t.columns[i].name) = t.columns[i]
      BY <1>2, <1>3, ColumnOfFacts
    <3> QED BY <1>3, <2>4, <3>1
  <2> QED BY <1>3, <1>4, <2>3, <2>4, <2>5, <2>6 DEF FilesGrow
<1>6. ASSUME NEW j \in DOMAIN t.columns, w = DataWrite(t.columns[j]) PROVE FilesGrow(gs, s, kept)
  <2> PICK file : file = [rows |-> t.columns[j].data, size |-> t.columns[j].capacity]
    OBVIOUS
  <2> PICK dat : dat = Put(fs.dat, w.name, file)
    OBVIOUS
  <2>1. w.file = "dat" /\ w.name = t.columns[j].name /\ w.content = file
    BY <1>6 DEF DataWrite
  <2>2. gs = [meta |-> fs.meta, dat |-> dat, null |-> fs.null, idx |-> fs.idx]
    BY <1>1, <2>1, WrittenFacts
  <2>3. DataGrows(file, s.columns[j], n, kept)
    <3>1. file.rows = t.columns[j].data /\ file.size = t.columns[j].capacity
      OBVIOUS
    <3>2. t.columns[j].capacity \in Nat /\ t.row_count <= t.columns[j].capacity
      BY <1>2 DEF Columns, AsLong
    <3>3. file.size >= n
      BY <1>2, <1>3, <3>1, <3>2
    <3> QED BY <1>3, <3>1, <3>3 DEF DataGrows
  <2>4. ASSUME NEW i \in DOMAIN s.columns
        PROVE  s.columns[i].name \in DOMAIN dat
               /\ DataGrows(dat[s.columns[i].name], s.columns[i], n, kept)
    <3>1. CASE s.columns[i].name = w.name
      <4>1. i = j
        BY <1>2, <1>3, <2>1, <3>1 DEF NamedApart
      <4>2. dat[s.columns[i].name] = file /\ s.columns[i].name \in DOMAIN dat
        BY <3>1 DEF Put
      <4> QED BY <2>3, <4>1, <4>2
    <3>2. CASE s.columns[i].name # w.name
      <4>1. dat[s.columns[i].name] = fs.dat[s.columns[i].name] /\ s.columns[i].name \in DOMAIN dat
        BY <1>4, <3>2 DEF Put
      <4> QED BY <1>4, <4>1
    <3> QED BY <3>1, <3>2
  <2>5. gs.meta = fs.meta /\ gs.dat = dat
    BY <2>2
  <2> QED BY <1>4, <2>4, <2>5 DEF FilesGrow
<1>7. ASSUME w.file = "null" \/ w.file = "idx" PROVE FilesGrow(gs, s, kept)
  <2>1. gs.meta = fs.meta /\ gs.dat = fs.dat
    <3>1. CASE w.file = "null"
      <4>1. gs = [meta |-> fs.meta, dat |-> fs.dat, null |-> Put(fs.null, w.name, w.content), idx |-> fs.idx]
        BY <1>1, <3>1, WrittenFacts
      <4> QED BY <4>1
    <3>2. CASE w.file = "idx"
      <4>1. gs = [meta |-> fs.meta, dat |-> fs.dat, null |-> fs.null, idx |-> Put(fs.idx, w.name, w.content)]
        BY <1>1, <3>2, WrittenFacts
      <4> QED BY <4>1
    <3> QED BY <1>7, <3>1, <3>2
  <2> QED BY <1>4, <2>1 DEF FilesGrow
<1>8. ASSUME NEW i \in DOMAIN t.columns, w = FlagsWrite(t.columns[i]) PROVE FilesGrow(gs, s, kept)
  BY <1>7, <1>8 DEF FlagsWrite
<1>9. ASSUME NEW i \in DOMAIN t.indexes, w = IndexWrite(t.indexes[i]) PROVE FilesGrow(gs, s, kept)
  BY <1>7, <1>9 DEF IndexWrite
<1> QED BY <1>5, <1>6, <1>8, <1>9, WriteKinds

(* They can be loaded if the saved table had rows, and all of them if no    *)
(* column grew.                                                            *)
LEMMA GrownIsThere ==
  ASSUME NEW fs, FilesFormed(fs), NEW s, WellFormed(s), NEW kept, FilesGrow(fs, s, kept)
  PROVE  (s.row_count > 0 => ~Lost(fs)) /\ (kept => Whole(fs))
<1> PICK n : n = s.row_count
  OBVIOUS
<1>1. /\ fs.meta # <<>> /\ Len(fs.meta.columns) = Len(s.columns)
      /\ \A i \in DOMAIN s.columns :
           /\ fs.meta.columns[i] = s.columns[i].name
           /\ kept => fs.meta.capacity[s.columns[i].name] = s.columns[i].capacity
           /\ s.columns[i].name \in DOMAIN fs.dat
           /\ DataGrows(fs.dat[s.columns[i].name], s.columns[i], n, kept)
  BY DEF FilesGrow
<1>2. /\ n \in Nat /\ DOMAIN s.columns = 1 .. Len(s.columns)
      /\ DOMAIN fs.meta.columns = 1 .. Len(fs.meta.columns)
      /\ \A i \in DOMAIN s.columns : s.columns[i] \in Columns
      /\ \A c \in DOMAIN fs.dat : fs.dat[c] \in DataFiles
  BY <1>1 DEF WellFormed, FilesFormed, MetaFormed
<1>3. ASSUME NEW i \in DOMAIN fs.meta.columns, NEW c, c = fs.meta.columns[i]
      PROVE  /\ c \in DOMAIN fs.dat /\ fs.dat[c].size \in Nat /\ fs.dat[c].size >= n
             /\ kept => fs.dat[c].size = fs.meta.capacity[c]
  <2>1. i \in DOMAIN s.columns /\ c = s.columns[i].name
    BY <1>1, <1>2, <1>3
  <2>2. c \in DOMAIN fs.dat /\ fs.dat[c] \in DataFiles /\ DataGrows(fs.dat[c], s.columns[i], n, kept)
    BY <1>1, <1>2, <2>1
  <2> QED BY <1>1, <2>1, <2>2 DEF DataFiles, DataGrows
<1>4. ASSUME n > 0 PROVE ~Lost(fs)
  <2> SUFFICES ASSUME NEW i \in DOMAIN fs.meta.columns, NEW c, c = fs.meta.columns[i]
               PROVE  c \in DOMAIN fs.dat /\ ~(fs.dat[c].size = 0)
    BY <1>1 DEF Lost
  <2> QED BY <1>2, <1>3, <1>4
<1>5. ASSUME kept PROVE Whole(fs)
  <2> SUFFICES ASSUME NEW i \in DOMAIN fs.meta.columns, NEW c, c = fs.meta.columns[i]
               PROVE  /\ c \in DOMAIN fs.dat /\ ~(fs.dat[c].size = 0 /\ fs.meta.capacity[c] > 0)
                      /\ ~(fs.dat[c].size < fs.meta.capacity[c])
    BY <1>1 DEF Whole, Lost, Short
  <2> QED BY <1>3, <1>5
<1> QED BY <1>4, <1>5

LEMMA LoadedGrows ==
  ASSUME NEW fs, FilesFormed(fs), ~Lost(fs), NEW s, WellFormed(s), NEW kept, FilesGrow(fs, s, kept),
         NEW t \in LoadedTables(fs)
  PROVE  Grows(t, s, kept)
<1> PICK n : n = s.row_count
  OBVIOUS
<1>1. /\ fs.meta.row_count >= n /\ Len(fs.meta.columns) = Len(s.columns)
      /\ \A i \in DOMAIN s.columns :
           /\ fs.meta.columns[i] = s.columns[i].name
           /\ kept => fs.meta.capacity[s.columns[i].name] = s.columns[i].capacity
           /\ DataGrows(fs.dat[s.columns[i].name], s.columns[i], n, kept)
  BY DEF FilesGrow
<1>2. /\ n \in Nat /\ fs.meta.row_count \in Nat
      /\ DOMAIN s.columns = 1 .. Len(s.columns) /\ fs.meta.columns \in Seq(ColumnNames)
  BY NotLost DEF WellFormed, MetaFormed
<1>3. DOMAIN fs.meta.columns = DOMAIN s.columns
  BY <1>1, <1>2
<1>4. PICK data : AllData(fs, data) /\ t.columns = LoadedColumns(fs, data)
  BY LoadedFacts
<1>5. t.row_count = fs.meta.row_count
  BY LoadedFacts
<1>6. /\ DOMAIN t.columns = DOMAIN fs.meta.columns /\ Len(t.columns) = Len(fs.meta.columns)
      /\ \A i \in DOMAIN t.columns :
           /\ t.columns[i].name = fs.meta.columns[i]
           /\ t.columns[i].data = data[fs.meta.columns[i]]
           /\ t.columns[i].capacity = fs.meta.capacity[fs.meta.columns[i]]
  BY <1>4, LoadedColumnsFacts
<1>7. ASSUME NEW i \in DOMAIN s.columns
      PROVE  /\ t.columns[i].name = s.columns[i].name
             /\ Begins(t.columns[i].data, s.columns[i].data, n)
             /\ kept => t.columns[i].capacity = s.columns[i].capacity
  <2> PICK c : c = fs.meta.columns[i]
    OBVIOUS
  <2> PICK d : d = data[c]
    OBVIOUS
  <2> PICK rows : rows = fs.dat[c].rows
    OBVIOUS
  <2>1. /\ c = s.columns[i].name /\ t.columns[i].name = c /\ t.columns[i].data = d
        /\ t.columns[i].capacity = fs.meta.capacity[c]
    BY <1>1, <1>3, <1>6
  <2>2. c \in DOMAIN fs.meta.capacity /\ d \in LoadedData(fs, c)
    BY <1>3, <1>4, NotLost DEF AllData
  <2>3. /\ Len(d) = fs.meta.row_count
        /\ \A r \in 1 .. fs.meta.row_count : r <= Len(rows) => d[r] = rows[r]
    BY <2>2, LoadedDataFacts
  <2>4. rows \in Seq(Values)
    BY <2>2, NotLost
  <2>5. Begins(rows, s.columns[i].data, n)
    BY <1>1, <2>1 DEF DataGrows
  <2>6. \A r \in 1 .. n : r \in 1 .. fs.meta.row_count /\ r <= Len(rows)
    <3>1. Len(rows) >= n
      BY ONLY <2>5 DEF Begins
    <3>2. Len(rows) \in Nat
      BY ONLY <2>4
    <3> QED BY <1>1, <1>2, <3>1, <3>2
  <2>7. \A r \in 1 .. n : d[r] = s.columns[i].data[r]
    BY <2>3, <2>5, <2>6 DEF Begins
  <2>8. Begins(d, s.columns[i].data, n)
    BY <1>1, <2>3, <2>7 DEF Begins
  <2>9. kept => t.columns[i].capacity = s.columns[i].capacity
    BY <1>1, <2>1
  <2> QED BY <2>1, <2>8, <2>9
<1> QED BY <1>1, <1>5, <1>6, <1>7 DEF Grows

(* The table that CREATE TABLE made and saved.                             *)
LEMMA CreatedFacts ==
  WellFormed(Created) /\ Ordered(Created) /\ FilesFormed(CreatedFiles) /\ Match(CreatedFiles, Created)
<1> DEFINE names == SetToSeq(ColumnNames)
           k == Cardinality(ColumnNames)
           columns == [i \in DOMAIN names |-> NewColumn(names[i], 0, Declared[names[i]])]
           t == Created
           fs == CreatedFiles
<1>1. k \in Nat /\ names \in [1 .. k -> ColumnNames] /\ IsInjective(names)
  <2>1. IsFiniteSet(ColumnNames)
    BY TableFilesAssumption
  <2>2. k \in Nat /\ ExistsBijection(1 .. k, ColumnNames)
    BY <2>1, FS_CardinalityType
  <2>3. \E f \in [1 .. k -> ColumnNames] : IsInjective(f)
    BY <2>2 DEF ExistsBijection, Bijection, Injection
  <2> QED BY <2>2, <2>3 DEF SetToSeq
<1> HIDE DEF names, k
<1>2. t = [row_count |-> 0, indexes |-> <<>>, columns |-> columns]
  BY DEF Created, names
<1>3. ASSUME NEW i \in 1 .. k
      PROVE  /\ columns[i] \in Columns /\ columns[i].name = names[i] /\ columns[i].data = <<>>
             /\ columns[i].null_flags = None /\ AsLong(columns[i], 0)
             /\ columns[i].capacity = CapacityFor(0)
  <2>1. names[i] \in ColumnNames
    BY <1>1
  <2>2. Declared[names[i]] \in Declarations
    BY <2>1 DEF Declarations
  <2> DEFINE data == [r \in 1 .. 0 |-> 0]
  <2>3. columns[i] = [name |-> names[i], declared |-> Declared[names[i]], data |-> data,
                      null_flags |-> None, capacity |-> CapacityFor(0)]
    BY <1>1 DEF NewColumn
  <2>4. data = <<>> /\ data \in Seq(Values) /\ Len(data) = 0
    OBVIOUS
  <2>5. CapacityFor(0) \in Nat /\ 0 <= CapacityFor(0)
    <3>1. 0 \in Nat /\ 0 <= MaxRows
      BY TableFilesAssumption
    <3> QED BY <3>1, CapacityForFacts
  <2> HIDE DEF data, columns
  <2> QED BY <2>1, <2>2, <2>3, <2>4, <2>5 DEF Columns, AsLong
<1>4. DOMAIN columns = 1 .. k /\ columns = [i \in 1 .. k |-> columns[i]]
  BY <1>1
<1> HIDE DEF columns
<1>5. columns \in Seq(Columns)
  <2>1. [i \in 1 .. k |-> columns[i]] \in Seq(Columns)
    BY <1>1, <1>3
  <2> QED BY <1>4, <2>1
<1>6. NamedApart(columns)
  BY <1>1, <1>3, <1>4 DEF NamedApart, IsInjective
<1>7. t.row_count = 0 /\ t.indexes = <<>> /\ t.columns = columns
      /\ t = [row_count |-> t.row_count, columns |-> t.columns, indexes |-> t.indexes]
  BY <1>2
<1> DEFINE none == <<>>
<1>8. none \in Seq(Indexes) /\ DOMAIN none = {} /\ NamedApart(none)
  BY DEF NamedApart
<1> HIDE DEF none, t
<1>9. t.indexes = none
  BY <1>7 DEF none
<1>10. WellFormed(t)
  <2>1. 0 <= MaxRows
    BY TableFilesAssumption
  <2> QED BY <1>3, <1>4, <1>5, <1>6, <1>7, <1>8, <1>9, <2>1 DEF WellFormed
<1>11. Ordered(t)
  BY <1>8, <1>9 DEF Ordered
<1> PICK file : file = [rows |-> <<>>, size |-> CapacityFor(0)]
  OBVIOUS
<1>12. fs = [meta |-> MetaOf(t), dat |-> [c \in ColumnNames |-> file], null |-> <<>>, idx |-> <<>>]
  BY DEF CreatedFiles, t
<1>13. /\ fs.meta = MetaOf(t) /\ fs.dat = [c \in ColumnNames |-> file]
       /\ DOMAIN fs.null = {} /\ DOMAIN fs.idx = {}
       /\ fs = [meta |-> fs.meta, dat |-> fs.dat, null |-> fs.null, idx |-> fs.idx]
  BY <1>12
<1> HIDE DEF fs
<1>14. FilesFormed(fs)
  <2>1. MetaFormed(fs.meta)
    BY <1>10, <1>13, MetaFormedOf
  <2>2. \A c \in DOMAIN fs.dat : fs.dat[c] \in DataFiles
    <3> PICK empty : empty = <<>>
      OBVIOUS
    <3>1. 0 \in Nat /\ 0 <= MaxRows
      BY TableFilesAssumption
    <3>2. CapacityFor(0) \in Nat /\ empty \in Seq(Values)
      BY <3>1, CapacityForFacts
    <3>3. file = [rows |-> empty, size |-> CapacityFor(0)]
      OBVIOUS
    <3>4. file \in DataFiles
      BY <3>2, <3>3 DEF DataFiles
    <3> QED BY <1>13, <3>4
  <2> QED BY <1>13, <2>1, <2>2 DEF FilesFormed
<1>15. ASSUME NEW w \in WriteSet(t) PROVE Present(fs, w)
  <2>1. CASE w = MetaWrite(t)
    BY <1>13, <2>1 DEF Present, MetaWrite
  <2>2. ASSUME NEW i \in DOMAIN t.columns, w = DataWrite(t.columns[i]) PROVE Present(fs, w)
    <3>1. /\ t.columns[i].name \in ColumnNames /\ t.columns[i].data = <<>>
          /\ t.columns[i].capacity = CapacityFor(0)
      BY <1>1, <1>3, <1>4, <1>7
    <3>2. Holds(fs.dat, t.columns[i].name, file)
      BY <1>13, <3>1 DEF Holds
    <3>3. file = [rows |-> t.columns[i].data, size |-> t.columns[i].capacity]
      BY <3>1
    <3> QED BY <2>2, <3>2, <3>3 DEF Present, DataWrite
  <2>3. \A i \in DOMAIN t.columns : t.columns[i].null_flags = None
    BY <1>3, <1>4, <1>7
  <2>4. DOMAIN t.indexes = {}
    BY <1>8, <1>9
  <2> QED BY <2>1, <2>2, <2>3, <2>4, WriteKinds
<1> QED BY <1>10, <1>11, <1>14, <1>15 DEF Match, t, fs

-------------------------------------------------------------------------------
(* The invariants, from the types on.                                      *)

LEMMA DroppedFormed ==
  ASSUME NEW fs, FilesFormed(fs), NEW cs, NEW xs
  PROVE  /\ FilesFormed([fs EXCEPT !.dat = Drop(@, cs), !.idx = Drop(@, xs)])
         /\ FilesFormed([fs EXCEPT !.idx = Drop(@, xs)])
         /\ [fs EXCEPT !.idx = Drop(@, xs)]
              = [meta |-> fs.meta, dat |-> fs.dat, null |-> fs.null, idx |-> Drop(fs.idx, xs)]
<1> DEFINE dat == Drop(fs.dat, cs)
           idx == Drop(fs.idx, xs)
           gs == [fs EXCEPT !.dat = dat]
           hs == [fs EXCEPT !.idx = idx]
           is == [gs EXCEPT !.idx = idx]
<1>1. /\ fs = [meta |-> fs.meta, dat |-> fs.dat, null |-> fs.null, idx |-> fs.idx]
      /\ fs.meta # <<>> => MetaFormed(fs.meta)
      /\ \A c \in DOMAIN fs.dat : fs.dat[c] \in DataFiles
      /\ \A c \in DOMAIN fs.null : fs.null[c] \in Seq(BOOLEAN)
      /\ \A x \in DOMAIN fs.idx : fs.idx[x] \in Seq(Nat) /\ IsOrder(fs.idx[x], Len(fs.idx[x]))
  BY DEF FilesFormed
<1>2. [fs EXCEPT !.dat = Drop(@, cs), !.idx = Drop(@, xs)] = is
  BY <1>1
<1>3. [fs EXCEPT !.idx = Drop(@, xs)] = hs
  BY Zenon
<1>4. \A c \in DOMAIN dat : c \in DOMAIN fs.dat /\ dat[c] = fs.dat[c]
  BY DEF Drop
<1>5. \A x \in DOMAIN idx : x \in DOMAIN fs.idx /\ idx[x] = fs.idx[x]
  BY DEF Drop
<1> HIDE DEF dat, idx
<1>6. hs = [meta |-> fs.meta, dat |-> fs.dat, null |-> fs.null, idx |-> idx]
  BY <1>1
<1>7. gs = [meta |-> fs.meta, dat |-> dat, null |-> fs.null, idx |-> fs.idx]
  BY <1>1
<1> HIDE DEF gs, hs
<1>8. is = [meta |-> fs.meta, dat |-> dat, null |-> fs.null, idx |-> idx]
  BY <1>7
<1> HIDE DEF is
<1>9. FilesFormed(is)
  BY <1>1, <1>4, <1>5, <1>8 DEF FilesFormed
<1>10. FilesFormed(hs)
  BY <1>1, <1>5, <1>6 DEF FilesFormed
<1> QED BY <1>2, <1>3, <1>6, <1>9, <1>10 DEF idx

LEMMA TailFacts ==
  ASSUME NEW S, NEW s \in Seq(S), s # <<>>
  PROVE  s[1] \in S /\ Tail(s) \in Seq(S) /\ \A w : Listed(w, s) => w = s[1] \/ Listed(w, Tail(s))
<1>1. s[1] \in S /\ Tail(s) \in Seq(S) /\ Len(Tail(s)) = Len(s) - 1
      /\ \A i \in 1 .. Len(s) - 1 : Tail(s)[i] = s[i + 1]
  OBVIOUS
<1>2. ASSUME NEW i \in DOMAIN s, i # 1 PROVE Listed(s[i], Tail(s))
  <2>1. i - 1 \in 1 .. Len(s) - 1 /\ (i - 1) + 1 = i
    BY <1>2
  <2>2. i - 1 \in DOMAIN Tail(s) /\ Tail(s)[i - 1] = s[i]
    BY <1>1, <2>1
  <2> QED BY <2>2 DEF Listed
<1> QED BY <1>1, <1>2 DEF Listed

(* The table and files of one save are of the right shape, whatever         *)
(* statements, faults and restarts came before.                            *)
LEMMA TypeInit == Init => TypeInv
<1> SUFFICES ASSUME Init PROVE TypeInv
  OBVIOUS
<1>1. WellFormed(table) /\ WellFormed(saved) /\ FilesFormed(files)
  BY CreatedFacts DEF Init
<1> QED BY <1>1 DEF Init, TypeInv

LEMMA TypeNext == TypeInv /\ [Next]_vars => TypeInv'
<1> SUFFICES ASSUME TypeInv, [Next]_vars PROVE TypeInv'
  OBVIOUS
<1>1. /\ WellFormed(table) /\ WellFormed(saved) /\ FilesFormed(files)
      /\ at \in {"idle", "query", "save", "unreadable"} /\ errors \in BOOLEAN
      /\ since \subseteq Kinds \cup {"lost", "torn"}
      /\ at = "save" => todo \in Seq(WriteSet(table))
      /\ emptied \in BOOLEAN /\ (emptied => at = "save" /\ todo # <<>>)
  BY DEF TypeInv
<1>2. ASSUME NEW t, NEW kinds \in SUBSET Kinds, Change(t, kinds),
             WellFormed(t), FilesFormed(files')
      PROVE  TypeInv'
  <2>1. /\ table' = t /\ saved' = saved /\ at' = at /\ errors' = errors
        /\ since' = since \cup kinds /\ at = "query" /\ emptied' = emptied
    BY <1>2 DEF Change
  <2>2. since' \subseteq Kinds \cup {"lost", "torn"}
    BY <1>1, <2>1
  <2> QED BY <1>1, <1>2, <2>1, <2>2 DEF TypeInv
<1>3. CASE Begin
  BY <1>1, <1>3 DEF Begin, TypeInv
<1>4. CASE Insert
  <2>1. PICK row \in [Names(table) -> Values \cup {Null}] :
          Change(AddRow(table, row), IF Full(table) = {} THEN {"append"} ELSE {"append", "grow"})
    BY <1>4 DEF Insert
  <2>2. WellFormed(AddRow(table, row))
    BY <1>1, <1>4, AddRowFacts DEF Insert
  <2>3. files' = files
    BY <1>4 DEF Insert
  <2>4. (IF Full(table) = {} THEN {"append"} ELSE {"append", "grow"}) \in SUBSET Kinds
    BY DEF Kinds
  <2> QED BY <1>1, <1>2, <2>1, <2>2, <2>3, <2>4
<1>5. CASE Delete
  <2>1. PICK r \in 1 .. table.row_count : Change(RemoveTableRow(table, r), {"remove"})
    BY <1>5 DEF Delete
  <2>2. WellFormed(RemoveTableRow(table, r))
    BY <1>1, RemoveTableRowFacts
  <2>3. files' = files /\ {"remove"} \in SUBSET Kinds
    BY <1>5 DEF Delete, Kinds
  <2> QED BY <1>1, <1>2, <2>1, <2>2, <2>3
<1>6. CASE AddColumn
  <2>1. PICK c \in ColumnNames \ Names(table) : Change(WithColumn(table, c), {"schema"})
    BY <1>6 DEF AddColumn
  <2>2. WellFormed(WithColumn(table, c))
    BY <1>1, WithColumnFacts
  <2>3. files' = files /\ {"schema"} \in SUBSET Kinds
    BY <1>6 DEF AddColumn, Kinds
  <2> QED BY <1>1, <1>2, <2>1, <2>2, <2>3
<1>7. CASE DropColumn
  <2>1. PICK i \in DOMAIN table.columns :
          /\ Change(WithoutColumn(table, i), {"schema"})
          /\ files' = [files EXCEPT !.dat = Drop(@, {table.columns[i].name}),
                                    !.idx = Drop(@, IndexesOf(table, table.columns[i].name))]
    BY <1>7 DEF DropColumn
  <2>2. WellFormed(WithoutColumn(table, i))
    BY <1>1, WithoutColumnFacts
  <2>3. FilesFormed(files')
    BY <1>1, <2>1, DroppedFormed
  <2>4. {"schema"} \in SUBSET Kinds
    BY DEF Kinds
  <2> QED BY <1>2, <2>1, <2>2, <2>3, <2>4
<1>8. CASE CreateIndex
  <2>1. PICK x \in IndexNames \ {table.indexes[i].name : i \in DOMAIN table.indexes},
             c \in Names(table) : \E order \in Orders(ColumnOf(table, c).data) :
               Change(WithIndex(table, x, c, order), {"index"})
    BY <1>8 DEF CreateIndex
  <2>2. PICK order \in Orders(ColumnOf(table, c).data) : Change(WithIndex(table, x, c, order), {"index"})
    BY <2>1
  <2>3. WellFormed(WithIndex(table, x, c, order))
    BY <1>1, WithIndexFacts
  <2>4. files' = files /\ {"index"} \in SUBSET Kinds
    BY <1>8 DEF CreateIndex, Kinds
  <2> QED BY <1>1, <1>2, <2>2, <2>3, <2>4
<1>9. CASE DropIndex
  <2>1. PICK i \in DOMAIN table.indexes :
          /\ Change(WithoutIndex(table, i), {"index"})
          /\ files' = [files EXCEPT !.idx = Drop(@, {table.indexes[i].name})]
    BY <1>9 DEF DropIndex
  <2>2. WellFormed(WithoutIndex(table, i))
    BY <1>1, WithoutIndexFacts
  <2>3. FilesFormed(files')
    BY <1>1, <2>1, DroppedFormed
  <2>4. {"index"} \in SUBSET Kinds
    BY DEF Kinds
  <2> QED BY <1>2, <2>1, <2>2, <2>3, <2>4
<1>10. CASE BeginSave
  <2>1. /\ at = "query" /\ at' = "save" /\ todo' = Writes(table) /\ emptied' = emptied
        /\ table' = table /\ saved' = saved /\ files' = files /\ errors' = errors /\ since' = since
    BY <1>10 DEF BeginSave
  <2>2. todo' \in Seq(WriteSet(table))
    BY <1>1, <2>1, WritesFacts
  <2> QED BY <1>1, <2>1, <2>2 DEF TypeInv
<1>11. CASE Truncate
  <2>1. /\ at = "save" /\ todo # <<>> /\ files' = Written(files, Emptied(todo[1])) /\ todo' = todo
        /\ emptied' = TRUE
        /\ table' = table /\ saved' = saved /\ at' = at /\ errors' = errors /\ since' = since
    BY <1>11 DEF Truncate
  <2>2. todo[1] \in WriteSet(table)
    BY <1>1, <2>1, TailFacts
  <2>3. FilesFormed(files')
    BY <1>1, <2>1, <2>2, EmptiedFormed
  <2> QED BY <1>1, <2>1, <2>3 DEF TypeInv
<1>12. CASE Write
  <2>1. /\ at = "save" /\ todo # <<>> /\ files' = Written(files, todo[1]) /\ todo' = Tail(todo)
        /\ emptied' = FALSE
        /\ table' = table /\ saved' = saved /\ at' = at /\ errors' = errors /\ since' = since
    BY <1>12 DEF Write
  <2>2. todo[1] \in WriteSet(table) /\ todo' \in Seq(WriteSet(table))
    BY <1>1, <2>1, TailFacts
  <2>3. FilesFormed(files')
    BY <1>1, <2>1, <2>2, WrittenFormed
  <2> QED BY <1>1, <2>1, <2>2, <2>3 DEF TypeInv
<1>13. CASE WriteFails
  <2>1. /\ at = "save" /\ todo # <<>> /\ todo' = AfterFailure(todo, table) /\ errors' = TRUE
        /\ ~emptied /\ emptied' = emptied
        /\ table' = table /\ saved' = saved /\ at' = at /\ files' = files /\ since' = since
    BY <1>13 DEF WriteFails
  <2>2. todo' \in Seq(WriteSet(table))
    <3> DEFINE W == WriteSet(table)
    <3>1. Tail(todo) \in Seq(W)
      BY <1>1, <2>1, TailFacts
    <3>2. IndexWrites(table) \in Seq(W)
      BY <1>1, IndexWritesFacts
    <3> HIDE DEF W
    <3>3. <<>> \in Seq(W)
      OBVIOUS
    <3>4. todo' \in {<<>>, IndexWrites(table), Tail(todo)}
      BY <2>1 DEF AfterFailure
    <3> QED BY <3>1, <3>2, <3>3, <3>4 DEF W
  <2> QED BY <1>1, <2>1, <2>2 DEF TypeInv
<1>14. CASE EndSave
  <2>1. /\ at' = "idle" /\ table' = table /\ saved' \in {saved, table} /\ files' = files
        /\ errors' = errors /\ since' \subseteq since
    BY <1>14 DEF EndSave
  <2>2. emptied' = FALSE
    BY <1>1, <1>14 DEF EndSave
  <2> QED BY <1>1, <2>1, <2>2 DEF TypeInv
<1>15. CASE Restart
  <2>1. /\ errors' = (errors \/ at # "idle") /\ saved' = saved /\ files' = files /\ emptied' = FALSE
        /\ since' = since \cup (IF emptied THEN {"lost", "torn"}
                                ELSE IF errors' /\ since # {} THEN {"lost"} ELSE {})
    BY <1>15 DEF Restart
  <2>2. errors' \in BOOLEAN
    BY <2>1
  <2>3. since' \subseteq Kinds \cup {"lost", "torn"}
    BY <1>1, <2>1
  <2>4. CASE ~Lost(files) /\ at' = "idle" /\ table' \in LoadedTables(files)
    <3>1. WellFormed(table')
      BY <1>1, <2>4, LoadedFacts
    <3> QED BY <1>1, <2>1, <2>2, <2>3, <2>4, <3>1 DEF TypeInv
  <2>5. CASE at' = "unreadable" /\ table' = table
    BY <1>1, <2>1, <2>2, <2>3, <2>5 DEF TypeInv
  <2> QED BY <1>15, <2>4, <2>5 DEF Restart
<1>16. CASE UNCHANGED vars
  BY <1>1, <1>16 DEF vars, TypeInv
<1> QED BY <1>3, <1>4, <1>5, <1>6, <1>7, <1>8, <1>9, <1>10, <1>11, <1>12,
           <1>13, <1>14, <1>15, <1>16 DEF Next

(* A table and its files stay well formed, whatever statements, failed      *)
(* writes and restarts come in whatever order.                             *)
THEOREM TypesHold == Spec => []TypeInv
<1> QED BY TypeInit, TypeNext, PTL DEF Spec

-------------------------------------------------------------------------------
(* What a save has written.                                                *)

LEMMA SavedInit == Init => SaveInv /\ QuietInv
<1> SUFFICES ASSUME Init PROVE SaveInv /\ QuietInv
  OBVIOUS
<1> QED BY CreatedFacts DEF Init, SaveInv, QuietInv, Disk

(* A save without an error that has nothing left to write has written all.  *)
LEMMA SaveEnds ==
  ASSUME SaveInv, at = "save", ~errors, todo = <<>>
  PROVE  Match(files, table)
<1>1. \A w : ~Listed(w, todo)
  BY DEF Listed
<1> QED BY <1>1 DEF SaveInv, Match

(* The kinds of statement, apart from the order they come in.               *)
LEMMA ChangeKinds ==
  ASSUME Insert \/ Delete \/ AddColumn \/ DropColumn \/ CreateIndex \/ DropIndex
  PROVE  /\ at = "query" /\ at' = "query"
         /\ \E kind \in Kinds : kind \in since'
<1>1. ASSUME NEW t, NEW kinds, Change(t, kinds), NEW kind \in Kinds, kind \in kinds
      PROVE  at = "query" /\ at' = "query" /\ \E k \in Kinds : k \in since'
  BY <1>1 DEF Change
<1>2. CASE Insert
  <2>1. PICK t, kinds : Change(t, kinds) /\ "append" \in kinds
    BY <1>2 DEF Insert
  <2> QED BY <1>1, <2>1 DEF Kinds
<1>3. CASE Delete
  BY <1>1, <1>3 DEF Delete, Kinds
<1>4. CASE AddColumn
  BY <1>1, <1>4 DEF AddColumn, Kinds
<1>5. CASE DropColumn
  BY <1>1, <1>5 DEF DropColumn, Kinds
<1>6. CASE CreateIndex
  BY <1>1, <1>6 DEF CreateIndex, Kinds
<1>7. CASE DropIndex
  BY <1>1, <1>7 DEF DropIndex, Kinds
<1> QED BY <1>2, <1>3, <1>4, <1>5, <1>6, <1>7

LEMMA SavedNext == TypeInv /\ SaveInv /\ QuietInv /\ [Next]_vars => (SaveInv /\ QuietInv)'
<1> SUFFICES ASSUME TypeInv, SaveInv, QuietInv, [Next]_vars PROVE SaveInv' /\ QuietInv'
  OBVIOUS
<1>1. /\ WellFormed(table) /\ FilesFormed(files)
      /\ at = "save" => todo \in Seq(WriteSet(table))
      /\ errors \in BOOLEAN /\ (emptied => at = "save" /\ todo # <<>>)
  BY DEF TypeInv
<1>2. CASE Begin
  BY <1>1, <1>2 DEF Begin, SaveInv, QuietInv, Disk
<1>3. CASE Insert \/ Delete \/ AddColumn \/ DropColumn \/ CreateIndex \/ DropIndex
  <2>1. /\ at' = "query"
        /\ \E kind \in Kinds : kind \in since'
    BY <1>3, ChangeKinds
  <2>2. ~(since' \subseteq {"lost"})
    BY <2>1 DEF Kinds
  <2> QED BY <2>1, <2>2 DEF SaveInv, QuietInv
<1>4. CASE BeginSave
  <2>1. /\ at = "query" /\ at' = "save" /\ todo' = Writes(table) /\ emptied' = emptied
        /\ table' = table /\ saved' = saved /\ files' = files /\ since' = since
    BY <1>4 DEF BeginSave
  <2>2. \A w \in WriteSet(table) : Listed(w, todo')
    BY <1>1, <2>1, WritesFacts
  <2>3. Disk' = Disk
    BY <1>1, <2>1 DEF Disk
  <2> QED BY <2>1, <2>2, <2>3 DEF SaveInv, QuietInv
<1>5. CASE Truncate
  <2>1. /\ at = "save" /\ todo # <<>> /\ files' = Written(files, Emptied(todo[1])) /\ todo' = todo
        /\ ~emptied /\ emptied' = TRUE
        /\ table' = table /\ saved' = saved /\ at' = at /\ errors' = errors /\ since' = since
    BY <1>5 DEF Truncate
  <2>2. todo[1] \in WriteSet(table) /\ Listed(todo[1], todo)
    BY <1>1, <2>1, TailFacts DEF Listed
  <2>3. \A w \in WriteSet(table) : Present(files, w) /\ w # todo[1] => Present(files', w)
    BY <1>1, <2>1, <2>2, EmptiedPresent
  <2>4. SaveInv'
    BY <2>1, <2>2, <2>3 DEF SaveInv
  <2>5. Disk = files /\ Disk' = Written(files, todo[1])
    BY <1>1, <2>1, <2>2, EmptiedWritten DEF Disk
  <2>6. \A w \in WriteSet(table) : Present(files, w) => Present(Written(files, todo[1]), w)
    BY <1>1, <2>2, WrittenPresent
  <2>7. QuietInv'
    BY <2>1, <2>5, <2>6 DEF QuietInv, Match
  <2> QED BY <2>4, <2>7
<1>6. CASE Write
  <2>1. /\ at = "save" /\ todo # <<>> /\ files' = Written(files, todo[1]) /\ todo' = Tail(todo)
        /\ emptied /\ emptied' = FALSE
        /\ table' = table /\ saved' = saved /\ at' = at /\ errors' = errors /\ since' = since
    BY <1>6 DEF Write
  <2>2. /\ todo[1] \in WriteSet(table)
        /\ \A w : Listed(w, todo) => w = todo[1] \/ Listed(w, todo')
    BY <1>1, <2>1, TailFacts
  <2>3. /\ Present(files', todo[1])
        /\ \A w \in WriteSet(table) : Present(files, w) => Present(files', w)
    BY <1>1, <2>1, <2>2, WrittenPresent
  <2>4. SaveInv'
    BY <2>1, <2>2, <2>3 DEF SaveInv
  <2>5. Disk' = Disk
    BY <2>1 DEF Disk
  <2>6. QuietInv'
    BY <2>1, <2>5 DEF QuietInv
  <2> QED BY <2>4, <2>6
<1>7. CASE WriteFails
  BY <1>7 DEF WriteFails, SaveInv, QuietInv, Disk
<1>8. CASE EndSave
  <2>1. /\ at = "save" /\ todo = <<>> /\ at' = "idle"
        /\ table' = table /\ files' = files /\ errors' = errors /\ emptied' = emptied
    BY <1>8 DEF EndSave
  <2>2. Disk = files /\ Disk' = files
    BY <1>1, <2>1 DEF Disk
  <2>3. CASE errors
    BY <1>8, <2>1, <2>2, <2>3 DEF EndSave, SaveInv, QuietInv
  <2>4. CASE ~errors
    <3>1. saved' = table /\ since' = since \cap {"lost"}
      BY <1>8, <2>4 DEF EndSave
    <3>2. Match(files, table)
      BY <2>1, <2>4, SaveEnds
    <3> QED BY <2>1, <2>2, <3>1, <3>2 DEF SaveInv, QuietInv
  <2> QED BY <2>3, <2>4
<1>9. CASE Restart
  <2>1. /\ at # "unreadable" /\ errors' = (errors \/ at # "idle")
        /\ \/ ~Whole(files) /\ at' = "unreadable"
           \/ at' = "idle" /\ table' \in LoadedTables(files)
        /\ files' = files /\ saved' = saved /\ emptied' = FALSE
        /\ since' = since \cup (IF emptied THEN {"lost", "torn"}
                                ELSE IF errors' /\ since # {} THEN {"lost"} ELSE {})
    BY <1>9 DEF Restart
  <2>2. Disk' = files
    BY <2>1 DEF Disk
  <2>3. since' \subseteq {"lost"} => ~emptied /\ since \subseteq {"lost"}
    BY <2>1
  <2>4. since' \subseteq {"lost"} => Match(files, table) /\ saved = table
    BY <2>3 DEF QuietInv, Disk
  <2>5. since' \subseteq {"lost"} => at' = "idle" /\ table' = table
    BY <1>1, <2>1, <2>4, MatchLoads
  <2>6. at' = "idle" /\ ~errors' => ~emptied /\ since' \subseteq {"lost"}
    BY <1>1, <2>1 DEF QuietInv
  <2> QED BY <2>1, <2>2, <2>4, <2>5, <2>6 DEF SaveInv, QuietInv
<1>10. CASE UNCHANGED vars
  <2>1. /\ table' = table /\ files' = files /\ at' = at /\ todo' = todo /\ errors' = errors
        /\ saved' = saved /\ since' = since /\ emptied' = emptied
    BY <1>10 DEF vars
  <2> QED BY <2>1 DEF SaveInv, QuietInv, Disk
<1> QED BY <1>2, <1>3, <1>4, <1>5, <1>6, <1>7, <1>8, <1>9, <1>10 DEF Next

LEMMA SavedHold == Spec => [](TypeInv /\ SaveInv /\ QuietInv)
<1> QED BY TypeInit, TypeNext, SavedInit, SavedNext, PTL DEF Spec

(* A query that ended without an error is on disk: a restart at that moment *)
(* reads every file and finds the columns, values, NULLs and index orders   *)
(* of the memory, whatever earlier and failed saves have left.             *)
THEOREM ReportedIsSaved == Spec => []ReportedSaved
<1>1. TypeInv /\ QuietInv => ReportedSaved
  <2> SUFFICES ASSUME TypeInv, QuietInv, at = "idle", ~errors
               PROVE  Whole(files) /\ LoadedTables(files) = {table}
    BY DEF ReportedSaved
  <2>1. WellFormed(table) /\ Match(files, table)
    BY DEF TypeInv, QuietInv, Disk
  <2> QED BY <2>1, MatchLoads
<1> QED BY <1>1, SavedHold, PTL

-------------------------------------------------------------------------------
(* The indexes.                                                            *)

LEMMA OrderInit == Init => OrderInv
<1> QED BY CreatedFacts DEF Init, OrderInv

LEMMA OrderNext == TypeInv /\ QuietInv /\ OrderInv /\ [Next]_vars => OrderInv'
<1> SUFFICES ASSUME TypeInv, QuietInv, OrderInv, [Next]_vars, "lost" \notin since'
             PROVE  Ordered(table')
  BY DEF OrderInv
<1>1. WellFormed(table)
  BY DEF TypeInv
<1>2. ASSUME NEW t, NEW kinds, Change(t, kinds)
      PROVE  table' = t /\ Ordered(table)
  BY <1>2 DEF Change, OrderInv
<1>3. CASE Begin \/ BeginSave \/ Truncate \/ Write \/ WriteFails \/ EndSave \/ UNCHANGED vars
  <2>1. table' = table
    BY <1>3 DEF Begin, BeginSave, Truncate, Write, WriteFails, EndSave, vars
  <2>2. "lost" \notin since
    BY <1>3 DEF Begin, BeginSave, Truncate, Write, WriteFails, EndSave, vars
  <2> QED BY <2>1, <2>2 DEF OrderInv
<1>4. CASE Insert
  <2>1. PICK row \in [Names(table) -> Values \cup {Null}] :
          Change(AddRow(table, row), IF Full(table) = {} THEN {"append"} ELSE {"append", "grow"})
    BY <1>4 DEF Insert
  <2>2. table.row_count < MaxRows
    BY <1>4 DEF Insert
  <2> QED BY <1>1, <1>2, <2>1, <2>2, AddRowFacts
<1>5. CASE Delete
  <2>1. PICK r \in 1 .. table.row_count : Change(RemoveTableRow(table, r), {"remove"})
    BY <1>5 DEF Delete
  <2> QED BY <1>1, <1>2, <2>1, RemoveTableRowFacts
<1>6. CASE AddColumn
  <2>1. PICK c \in ColumnNames \ Names(table) : Change(WithColumn(table, c), {"schema"})
    BY <1>6 DEF AddColumn
  <2> QED BY <1>1, <1>2, <2>1, WithColumnFacts
<1>7. CASE DropColumn
  <2>1. PICK i \in DOMAIN table.columns : Change(WithoutColumn(table, i), {"schema"})
    BY <1>7 DEF DropColumn
  <2> QED BY <1>1, <1>2, <2>1, WithoutColumnFacts
<1>8. CASE CreateIndex
  <2>1. PICK x \in IndexNames \ {table.indexes[i].name : i \in DOMAIN table.indexes},
             c \in Names(table) : \E order \in Orders(ColumnOf(table, c).data) :
               Change(WithIndex(table, x, c, order), {"index"})
    BY <1>8 DEF CreateIndex
  <2>2. PICK order \in Orders(ColumnOf(table, c).data) : Change(WithIndex(table, x, c, order), {"index"})
    BY <2>1
  <2> QED BY <1>1, <1>2, <2>2, WithIndexFacts
<1>9. CASE DropIndex
  <2>1. PICK i \in DOMAIN table.indexes : Change(WithoutIndex(table, i), {"index"})
    BY <1>9 DEF DropIndex
  <2> QED BY <1>1, <1>2, <2>1, WithoutIndexFacts
<1>10. CASE Restart
  <2>1. /\ errors' = (errors \/ at # "idle")
        /\ table' = table \/ table' \in LoadedTables(files)
        /\ since' = since \cup (IF emptied THEN {"lost", "torn"}
                                ELSE IF errors' /\ since # {} THEN {"lost"} ELSE {})
    BY <1>10 DEF Restart
  <2>2. ~emptied /\ "lost" \notin since /\ (since = {} \/ (at = "idle" /\ ~errors))
    BY <2>1
  <2>3. since \subseteq {"lost"}
    BY <2>2 DEF QuietInv
  <2>4. Match(files, table)
    BY <2>2, <2>3 DEF QuietInv, Disk
  <2>5. table' = table
    BY <1>1, <2>1, <2>4, MatchLoads
  <2> QED BY <2>2, <2>5 DEF OrderInv
<1> QED BY <1>3, <1>4, <1>5, <1>6, <1>7, <1>8, <1>9, <1>10 DEF Next

(* Every index lists the rows of a column of the table in order, after any  *)
(* statements, saves and restarts, unless a failed save was loaded.        *)
THEOREM IndexesAreSound == Spec => []IndexSound
<1>1. TypeInv /\ OrderInv => IndexSound
  BY DEF TypeInv, WellFormed, OrderInv, Ordered, IndexSound
<1> QED BY <1>1, SavedHold, OrderInit, OrderNext, PTL DEF Spec

-------------------------------------------------------------------------------
(* Rows that were saved, while rows are only appended.                     *)

LEMMA AppendGrows ==
  ASSUME NEW t, WellFormed(t), NEW s, WellFormed(s), NEW kept, Grows(t, s, kept), NEW u,
         u.row_count >= t.row_count, u.row_count \in Nat, Len(u.columns) = Len(t.columns),
         \A i \in DOMAIN t.columns :
           /\ u.columns[i].name = t.columns[i].name
           /\ Len(u.columns[i].data) = u.row_count
           /\ kept => u.columns[i].capacity = t.columns[i].capacity
           /\ \A r \in 1 .. t.row_count : u.columns[i].data[r] = t.columns[i].data[r]
  PROVE  Grows(u, s, kept)
<1>1. /\ t.row_count \in Nat /\ s.row_count \in Nat /\ t.row_count >= s.row_count
      /\ t.columns \in Seq(Columns) /\ s.columns \in Seq(Columns)
      /\ Len(t.columns) = Len(s.columns)
  BY DEF WellFormed, Grows
<1>2. DOMAIN s.columns = DOMAIN t.columns
  BY <1>1
<1>3. ASSUME NEW i \in DOMAIN s.columns
      PROVE  /\ u.columns[i].name = s.columns[i].name
             /\ Begins(u.columns[i].data, s.columns[i].data, s.row_count)
             /\ kept => u.columns[i].capacity = s.columns[i].capacity
  <2>1. /\ t.columns[i].name = s.columns[i].name
        /\ kept => t.columns[i].capacity = s.columns[i].capacity
        /\ \A r \in 1 .. s.row_count : t.columns[i].data[r] = s.columns[i].data[r]
    BY DEF Grows, Begins
  <2>2. \A r \in 1 .. s.row_count : r \in 1 .. t.row_count
    BY <1>1
  <2>3. Len(u.columns[i].data) >= s.row_count
    BY <1>1, <1>2
  <2> QED BY <1>2, <2>1, <2>2, <2>3 DEF Begins
<1>4. u.row_count >= s.row_count /\ Len(u.columns) = Len(s.columns)
  BY <1>1
<1> QED BY <1>3, <1>4 DEF Grows

LEMMA GrowsItself ==
  ASSUME NEW t, WellFormed(t), NEW kept
  PROVE  Grows(t, t, kept)
<1>1. t.row_count \in Nat /\ t.columns \in Seq(Columns)
      /\ \A i \in DOMAIN t.columns : Len(t.columns[i].data) = t.row_count
  BY DEF WellFormed, AsLong
<1> QED BY <1>1 DEF Grows, Begins

LEMMA GrowsAnyway ==
  ASSUME NEW t, NEW fs, NEW s, NEW kept, NEW still, still => kept, Grows(t, s, kept), FilesGrow(fs, s, kept)
  PROVE  Grows(t, s, still) /\ FilesGrow(fs, s, still)
BY DEF Grows, FilesGrow, DataGrows

LEMMA KeepInit == Init => KeepInv
<1> SUFFICES ASSUME Init PROVE KeepInv
  OBVIOUS
<1>1. table = Created /\ saved = Created /\ Disk = CreatedFiles
  BY DEF Init, Disk
<1>2. \A kept : Grows(Created, Created, kept) /\ FilesGrow(CreatedFiles, Created, kept)
  BY CreatedFacts, GrowsItself, MatchGrows
<1> QED BY <1>1, <1>2 DEF KeepInv

LEMMA KeepNext == TypeInv /\ SaveInv /\ KeepInv /\ [Next]_vars => KeepInv'
<1> SUFFICES ASSUME TypeInv, SaveInv, KeepInv, [Next]_vars, since' \subseteq Appending
             PROVE  Grows(table', saved', "grow" \notin since') /\ FilesGrow(Disk', saved', "grow" \notin since')
  BY DEF KeepInv
<1> PICK kept : kept = ("grow" \notin since')
  OBVIOUS
<1> SUFFICES Grows(table', saved', kept) /\ FilesGrow(Disk', saved', kept)
  OBVIOUS
<1>1. /\ WellFormed(table) /\ WellFormed(saved) /\ FilesFormed(files)
      /\ at = "save" => todo \in Seq(WriteSet(table))
      /\ emptied => at = "save" /\ todo # <<>>
  BY DEF TypeInv
<1>2. since \subseteq since' => Grows(table, saved, kept) /\ FilesGrow(Disk, saved, kept)
  <2> SUFFICES ASSUME since \subseteq since' PROVE Grows(table, saved, kept) /\ FilesGrow(Disk, saved, kept)
    OBVIOUS
  <2>1. since \subseteq Appending /\ (kept => "grow" \notin since)
    OBVIOUS
  <2>2. Grows(table, saved, "grow" \notin since) /\ FilesGrow(Disk, saved, "grow" \notin since)
    BY <2>1 DEF KeepInv
  <2> QED BY <2>1, <2>2, GrowsAnyway
<1>3. ASSUME NEW t, NEW kinds, Change(t, kinds)
      PROVE  /\ table' = t /\ saved' = saved /\ kinds \subseteq since' /\ kinds \subseteq Appending
             /\ ~emptied /\ Disk = files /\ Disk' = files'
             /\ Grows(table, saved, kept) /\ FilesGrow(files, saved, kept)
  <2>1. /\ table' = t /\ saved' = saved /\ at = "query" /\ since' = since \cup kinds
        /\ emptied' = emptied
    BY <1>3 DEF Change
  <2>2. ~emptied /\ Disk = files /\ Disk' = files'
    BY <1>1, <2>1 DEF Disk
  <2> QED BY <1>2, <2>1, <2>2
<1>4. CASE Begin \/ BeginSave \/ WriteFails \/ UNCHANGED vars
  <2>1. /\ table' = table /\ saved' = saved /\ files' = files /\ since' = since
        /\ emptied' = emptied /\ (todo' = todo \/ ~emptied)
    BY <1>1, <1>4 DEF Begin, BeginSave, WriteFails, vars
  <2>2. Disk' = Disk
    BY <2>1 DEF Disk
  <2> QED BY <1>2, <2>1, <2>2
<1>5. CASE Insert
  <2>1. PICK row \in [Names(table) -> Values \cup {Null}] :
          Change(AddRow(table, row), IF Full(table) = {} THEN {"append"} ELSE {"append", "grow"})
    BY <1>5 DEF Insert
  <2>2. files' = files /\ table.row_count < MaxRows
    BY <1>5 DEF Insert
  <2> DEFINE u == AddRow(table, row)
  <2>3. /\ WellFormed(u) /\ u.row_count = table.row_count + 1
        /\ Len(u.columns) = Len(table.columns)
        /\ \A i \in DOMAIN table.columns :
             /\ u.columns[i].name = table.columns[i].name
             /\ table.columns[i].capacity # table.row_count =>
                  u.columns[i].capacity = table.columns[i].capacity
             /\ \A r \in 1 .. table.row_count : u.columns[i].data[r] = table.columns[i].data[r]
    BY <1>1, <2>2, AddRowFacts
  <2>4. /\ table' = u /\ saved' = saved /\ Disk' = files'
        /\ Grows(table, saved, kept) /\ FilesGrow(files, saved, kept)
        /\ (IF Full(table) = {} THEN {"append"} ELSE {"append", "grow"}) \subseteq since'
    BY <1>3, <2>1
  <2> HIDE DEF u
  <2>5. /\ table.row_count \in Nat /\ u.row_count \in Nat /\ u.row_count >= table.row_count
        /\ DOMAIN u.columns = DOMAIN table.columns
    BY <1>1, <2>3 DEF WellFormed
  <2>6. \A i \in DOMAIN table.columns : Len(u.columns[i].data) = u.row_count
    BY <2>3, <2>5 DEF WellFormed, AsLong
  <2>7. kept => Full(table) = {}
    BY <2>4
  <2>8. kept => \A i \in DOMAIN table.columns : table.columns[i].capacity # table.row_count
    BY <2>7 DEF Full
  <2>9. Grows(u, saved, kept)
    BY <1>1, <2>3, <2>4, <2>5, <2>6, <2>8, AppendGrows
  <2> QED BY <2>2, <2>4, <2>9
<1>6. CASE Delete \/ AddColumn \/ DropColumn
  <2>1. ASSUME NEW t, Change(t, {"remove"}) PROVE FALSE
    BY <1>3, <2>1 DEF Appending
  <2>2. ASSUME NEW t, Change(t, {"schema"}) PROVE FALSE
    BY <1>3, <2>2 DEF Appending
  <2>3. CASE Delete
    BY <2>1, <2>3 DEF Delete
  <2>4. CASE AddColumn
    BY <2>2, <2>4 DEF AddColumn
  <2>5. CASE DropColumn
    BY <2>2, <2>5 DEF DropColumn
  <2> QED BY <1>6, <2>3, <2>4, <2>5
<1>7. ASSUME NEW t, Change(t, {"index"}), t.row_count = table.row_count, t.columns = table.columns
      PROVE  Grows(table', saved', kept) /\ FilesGrow(files, saved', kept) /\ Disk' = files'
  BY <1>3, <1>7 DEF Grows
<1>8. CASE CreateIndex
  <2>1. PICK x \in IndexNames \ {table.indexes[i].name : i \in DOMAIN table.indexes},
             c \in Names(table) : \E order \in Orders(ColumnOf(table, c).data) :
               Change(WithIndex(table, x, c, order), {"index"})
    BY <1>8 DEF CreateIndex
  <2>2. PICK order \in Orders(ColumnOf(table, c).data) : Change(WithIndex(table, x, c, order), {"index"})
    BY <2>1
  <2>3. files' = files
    BY <1>8 DEF CreateIndex
  <2> QED BY <1>1, <1>7, <2>2, <2>3, WithIndexFacts
<1>9. CASE DropIndex
  <2>1. PICK i \in DOMAIN table.indexes :
          /\ Change(WithoutIndex(table, i), {"index"})
          /\ files' = [files EXCEPT !.idx = Drop(@, {table.indexes[i].name})]
    BY <1>9 DEF DropIndex
  <2>2. files'.meta = files.meta /\ files'.dat = files.dat
    BY <1>1, <2>1, DroppedFormed, ZenonT(60)
  <2>3. FilesGrow(files, saved', kept) /\ Grows(table', saved', kept) /\ Disk' = files'
    BY <1>1, <1>7, <2>1, WithoutIndexFacts
  <2> QED BY <2>2, <2>3 DEF FilesGrow
<1>10. CASE Truncate
  <2>1. /\ at = "save" /\ todo # <<>> /\ files' = Written(files, Emptied(todo[1])) /\ todo' = todo
        /\ ~emptied /\ emptied' = TRUE /\ table' = table /\ saved' = saved /\ since' = since
    BY <1>10 DEF Truncate
  <2>2. todo[1] \in WriteSet(table)
    BY <1>1, <2>1, TailFacts
  <2>3. Disk = files /\ Disk' = Written(files, todo[1])
    BY <1>1, <2>1, <2>2, EmptiedWritten DEF Disk
  <2>4. Grows(table, saved, kept) /\ FilesGrow(files, saved, kept)
    BY <1>2, <2>1, <2>3
  <2>5. FilesGrow(Written(files, todo[1]), saved, kept)
    BY <1>1, <2>2, <2>4, WrittenGrows
  <2> QED BY <2>1, <2>3, <2>4, <2>5
<1>11. CASE Write
  <2>1. /\ files' = Written(files, todo[1]) /\ emptied /\ emptied' = FALSE
        /\ table' = table /\ saved' = saved /\ since' = since
    BY <1>11 DEF Write
  <2>2. Disk' = Disk
    BY <2>1 DEF Disk
  <2> QED BY <1>2, <2>1, <2>2
<1>12. CASE EndSave
  <2>1. /\ at = "save" /\ todo = <<>> /\ table' = table /\ files' = files /\ emptied' = emptied
        /\ saved' = (IF errors THEN saved ELSE table)
        /\ since' = (IF errors THEN since ELSE since \cap {"lost"})
    BY <1>12 DEF EndSave
  <2>2. Disk = files /\ Disk' = files
    BY <1>1, <2>1 DEF Disk
  <2>3. CASE errors
    BY <1>2, <2>1, <2>2, <2>3
  <2>4. CASE ~errors
    BY <1>1, <2>1, <2>2, <2>4, SaveEnds, GrowsItself, MatchGrows
  <2> QED BY <2>3, <2>4
<1>13. CASE Restart
  <2>1. /\ files' = files /\ saved' = saved /\ emptied' = FALSE
        /\ table' = table \/ (~Lost(files) /\ table' \in LoadedTables(files))
        /\ since' = since \cup (IF emptied THEN {"lost", "torn"}
                                ELSE IF errors' /\ since # {} THEN {"lost"} ELSE {})
    BY <1>13 DEF Restart
  <2>2. ~emptied
    BY <2>1 DEF Appending
  <2>3. Disk = files /\ Disk' = files /\ since \subseteq since'
    BY <2>1, <2>2 DEF Disk
  <2>4. Grows(table, saved, kept) /\ FilesGrow(files, saved, kept)
    BY <1>2, <2>3
  <2>5. Grows(table', saved, kept)
    BY <1>1, <2>1, <2>4, LoadedGrows
  <2> QED BY <2>1, <2>3, <2>4, <2>5
<1> QED BY <1>4, <1>5, <1>6, <1>8, <1>9, <1>10, <1>11, <1>12, <1>13 DEF Next

(* What a table that has grown from a saved one holds in the saved rows.    *)
LEMMA GrownKeeps ==
  ASSUME NEW t, WellFormed(t), NEW s, WellFormed(s), NEW kept, Grows(t, s, kept),
         NEW i \in DOMAIN s.columns
  PROVE  /\ s.columns[i].name \in Names(t)
         /\ SubSeq(ColumnOf(t, s.columns[i].name).data, 1, s.row_count) = s.columns[i].data
<1>1. /\ t.columns \in Seq(Columns) /\ s.columns \in Seq(Columns) /\ NamedApart(t.columns)
      /\ Len(t.columns) = Len(s.columns) /\ s.row_count \in Nat
      /\ t.columns[i].name = s.columns[i].name
      /\ Begins(t.columns[i].data, s.columns[i].data, s.row_count)
      /\ AsLong(s.columns[i], s.row_count)
  BY DEF WellFormed, Grows
<1>2. i \in DOMAIN t.columns
  BY <1>1
<1>3. /\ t.columns[i].name \in Names(t) /\ ColumnOf(t, t.columns[i].name) = t.columns[i]
  BY <1>1, <1>2, ColumnOfFacts
<1> DEFINE a == t.columns[i].data
           b == s.columns[i].data
<1>4. t.columns[i] \in Columns /\ s.columns[i] \in Columns
  BY <1>1, <1>2
<1>5. /\ a \in Seq(Values) /\ b \in Seq(Values) /\ Len(b) = s.row_count
      /\ Len(a) >= s.row_count /\ \A r \in 1 .. s.row_count : a[r] = b[r]
  BY <1>1, <1>4 DEF Columns, AsLong, Begins
<1> HIDE DEF a, b
<1>6. SubSeq(a, 1, s.row_count) = b
  BY <1>1, <1>5
<1> QED BY <1>1, <1>3, <1>6 DEF a, b

(* While rows have only been appended since the last save without an error, *)
(* and no file is truncated, rows that were saved are never lost: whatever  *)
(* the files load as begins with them, between two files of a save and      *)
(* after a failed one too; and all of it is read unless a column grew.      *)
THEOREM AppendsAreKept == Spec => []AppendsKeepRows
<1>1. TypeInv /\ KeepInv => AppendsKeepRows
  <2> SUFFICES ASSUME TypeInv, KeepInv, since \subseteq Appending, ~emptied
               PROVE  /\ saved.row_count > 0 => ~Lost(files)
                      /\ "grow" \notin since => Whole(files)
                      /\ ~Lost(files) => \A t \in LoadedTables(files) :
                           /\ t.row_count >= saved.row_count
                           /\ \A i \in DOMAIN saved.columns :
                                /\ saved.columns[i].name \in Names(t)
                                /\ SubSeq(ColumnOf(t, saved.columns[i].name).data, 1, saved.row_count)
                                     = saved.columns[i].data
    BY DEF AppendsKeepRows, Appending
  <2>1. WellFormed(saved) /\ FilesFormed(files) /\ FilesGrow(files, saved, "grow" \notin since)
    BY DEF TypeInv, KeepInv, Disk
  <2>2. (saved.row_count > 0 => ~Lost(files)) /\ ("grow" \notin since => Whole(files))
    BY <2>1, GrownIsThere
  <2>3. ASSUME ~Lost(files), NEW t \in LoadedTables(files)
        PROVE  /\ t.row_count >= saved.row_count
               /\ \A i \in DOMAIN saved.columns :
                    /\ saved.columns[i].name \in Names(t)
                    /\ SubSeq(ColumnOf(t, saved.columns[i].name).data, 1, saved.row_count)
                         = saved.columns[i].data
    <3>1. WellFormed(t) /\ Grows(t, saved, "grow" \notin since)
      BY <2>1, <2>3, LoadedFacts, LoadedGrows
    <3>2. t.row_count >= saved.row_count
      BY <3>1 DEF Grows
    <3> QED BY <2>1, <3>1, <3>2, GrownKeeps
  <2> QED BY <2>2, <2>3
<1> QED BY <1>1, SavedHold, KeepInit, KeepNext, PTL DEF Spec
===============================================================================
