--------------------------- MODULE StatementsProofs ---------------------------
(***************************************************************************)
(* Proofs about the statements that change a database, for any databases,   *)
(* schemas, values and histories of queries, in this order: the rows a      *)
(* WHERE finds, what each statement makes of a table, and then the four     *)
(* invariants.  IndexOrderProofs has the order of an index and its search.  *)
(*                                                                         *)
(* StructInv says that every table, in memory or on disk, is WellFormed;    *)
(* with it a WHERE finds what it should (ScanFinds).  OnTablesShape reads   *)
(* all statements as five ways to rewrite one table (Rewritten), making an  *)
(* empty one, renaming one, an early end, or nothing.  The other invariants *)
(* are shown for each of these, and for the ways a database goes to disk    *)
(* (Merged), comes back, and outlives its query (Relabelling):              *)
(*   SavedInv        all but the database in use are on disk as they are;   *)
(*   ConstraintsInv  rows satisfy their columns, in memory and on disk,     *)
(*                   for a rewritten table has rows and columns Derived     *)
(*                   from the old ones, columns that promise nothing, or    *)
(*                   one more row that was validated;                       *)
(*   LinkInv         references are found, in memory and on disk: those of  *)
(*                   the table (Outgoing) and those to it (Incoming).       *)
(***************************************************************************)
EXTENDS Statements, IndexOrderProofs, SequenceTheorems, NaturalsInduction

-------------------------------------------------------------------------------
(* Tables: a row is added.                                                 *)

(* Columns that differ in their null flags only.                           *)
Alike(a, b) ==
  a.name = b.name /\ a.not_null = b.not_null /\ a.unique = b.unique /\ a.fk = b.fk /\ a.check = b.check
SameColumns(u, t) ==
  DOMAIN u.columns = DOMAIN t.columns /\ \A i \in DOMAIN t.columns : Alike(u.columns[i], t.columns[i])

LEMMA FlaggedFacts ==
  ASSUME NEW c \in Columns, NEW v
  PROVE  /\ Flagged(c, v) \in Columns /\ Alike(Flagged(c, v), c)
         /\ Flagged(c, v).null_flags <=> (c.null_flags \/ v = Null)
BY DEF Columns, Flagged, Alike

LEMMA SameNames ==
  ASSUME NEW t, NEW u, SameColumns(u, t)
  PROVE  Names(u) = Names(t) /\ (NamedOnce(t.columns) => NamedOnce(u.columns))
BY DEF SameColumns, Alike, Names, NamedOnce

LEMMA RowFacts ==
  ASSUME NEW t, WellFormed(t)
  PROVE  \A r \in DOMAIN t.rows : \A c \in Names(t) : t.rows[r][c] \in Values \cup {Null}
BY DEF WellFormed, RowsOf

LEMMA KeysFacts ==
  ASSUME NEW t, NEW n \in Nat, DOMAIN t.rows = 1 .. n, NEW c,
         \A r \in 1 .. n : t.rows[r][c] \in Values \cup {Null}
  PROVE  /\ Keys(t, c) \in Seq(Int) /\ Len(Keys(t, c)) = n
         /\ \A r \in 1 .. n : Keys(t, c)[r] = IF t.rows[r][c] = Null THEN 0 ELSE t.rows[r][c]
<1>1. Values \subseteq Int
  BY StatementsAssumption
<1>2. Keys(t, c) = [r \in 1 .. n |-> IF t.rows[r][c] = Null THEN 0 ELSE t.rows[r][c]]
  BY DEF Keys
<1>3. \A r \in 1 .. n : (IF t.rows[r][c] = Null THEN 0 ELSE t.rows[r][c]) \in Int
  BY <1>1
<1>4. [r \in 1 .. n |-> IF t.rows[r][c] = Null THEN 0 ELSE t.rows[r][c]] \in Seq(Int)
  BY <1>3
<1> QED BY <1>2, <1>4

(* cql_table_add_row: the table stays well formed, its indexes sorted.      *)
LEMMA AddRowFacts ==
  ASSUME NEW t, WellFormed(t), NEW row \in RowsOf(t)
  PROVE  /\ WellFormed(AddRow(t, row)) /\ SameColumns(AddRow(t, row), t)
         /\ AddRow(t, row).rows = Append(t.rows, row)
<1> DEFINE g == Grown(t, row)
           u == AddRow(t, row)
           n == Len(t.rows)
           columns == [i \in DOMAIN t.columns |-> Flagged(t.columns[i], row[t.columns[i].name])]
           indexes == [i \in DOMAIN t.indexes |-> Extended(t.indexes[i], g)]
<1>1. /\ t = [columns |-> t.columns, rows |-> t.rows, indexes |-> t.indexes]
      /\ t.columns \in Seq(Columns) /\ NamedOnce(t.columns)
      /\ t.rows \in Seq(RowsOf(t))
      /\ t.indexes \in Seq(Indexes)
      /\ \A i \in DOMAIN t.indexes : IndexOf(t, t.indexes[i])
      /\ \A i \in DOMAIN t.columns : \A r \in DOMAIN t.rows :
           t.rows[r][t.columns[i].name] = Null => t.columns[i].null_flags
  BY DEF WellFormed
<1>2. g = [columns |-> columns, rows |-> Append(t.rows, row), indexes |-> t.indexes]
  <2>1. t = [columns |-> t.columns, rows |-> t.rows, indexes |-> t.indexes]
    BY <1>1
  <2>2. g = [t EXCEPT !.rows = Append(t.rows, row), !.columns = columns]
    BY Zenon DEF Grown
  <2> HIDE DEF g, columns
  <2> QED BY <2>1, <2>2
<1>3. u = [columns |-> columns, rows |-> Append(t.rows, row), indexes |-> indexes]
  <2>1. u = [g EXCEPT !.indexes = [i \in DOMAIN g.indexes |-> Extended(g.indexes[i], g)]]
    BY Zenon DEF AddRow
  <2> HIDE DEF g, columns
  <2>2. g.indexes = t.indexes
    BY <1>2
  <2>3. u = [g EXCEPT !.indexes = indexes]
    BY <2>1, <2>2
  <2> HIDE DEF indexes
  <2> QED BY <1>2, <2>3
<1>4. columns \in Seq(Columns) /\ DOMAIN columns = DOMAIN t.columns
      /\ \A i \in DOMAIN t.columns : Alike(columns[i], t.columns[i])
           /\ (columns[i].null_flags <=> (t.columns[i].null_flags \/ row[t.columns[i].name] = Null))
  <2>1. \A i \in DOMAIN t.columns : columns[i] \in Columns /\ Alike(columns[i], t.columns[i])
           /\ (columns[i].null_flags <=> (t.columns[i].null_flags \/ row[t.columns[i].name] = Null))
    BY <1>1, FlaggedFacts
  <2>2. DOMAIN t.columns = 1 .. Len(t.columns) /\ Len(t.columns) \in Nat
    BY <1>1
  <2>3. columns = [i \in 1 .. Len(t.columns) |-> columns[i]]
    BY <2>2
  <2> HIDE DEF columns
  <2>4. [i \in 1 .. Len(t.columns) |-> columns[i]] \in Seq(Columns)
    BY <2>1, <2>2
  <2> QED BY <2>1, <2>2, <2>3, <2>4
<1> HIDE DEF g, u, columns, indexes
<1>5. SameColumns(u, t) /\ SameColumns(g, t)
  BY <1>2, <1>3, <1>4 DEF SameColumns
<1>6. Names(u) = Names(t) /\ Names(g) = Names(t) /\ NamedOnce(u.columns)
  BY <1>1, <1>5, SameNames
<1>7. RowsOf(u) = RowsOf(t)
  BY <1>6 DEF RowsOf
<1>8. u.rows \in Seq(RowsOf(t)) /\ Len(u.rows) = n + 1 /\ n \in Nat /\ DOMAIN u.rows = 1 .. n + 1
      /\ DOMAIN t.rows = 1 .. n
      /\ u.rows[n + 1] = row /\ \A r \in 1 .. n : u.rows[r] = t.rows[r]
  BY <1>1, <1>3
<1>9. g.rows = u.rows
  BY <1>2, <1>3
<1> HIDE DEF n
<1>10. ASSUME NEW c \in Names(t)
       PROVE  /\ Keys(g, c) \in Seq(Int) /\ Len(Keys(g, c)) = n + 1
              /\ Len(Keys(t, c)) = n /\ Keys(u, c) = Keys(g, c)
              /\ \A r \in 1 .. n : Keys(g, c)[r] = Keys(t, c)[r]
  <2>1. \A r \in 1 .. n + 1 : u.rows[r][c] \in Values \cup {Null}
    BY <1>8 DEF RowsOf
  <2>2. \A r \in 1 .. n : t.rows[r][c] \in Values \cup {Null}
    BY <1>8, RowFacts
  <2>3. /\ Keys(u, c) \in Seq(Int) /\ Len(Keys(u, c)) = n + 1
        /\ \A r \in 1 .. n + 1 : Keys(u, c)[r] = IF u.rows[r][c] = Null THEN 0 ELSE u.rows[r][c]
    BY <1>8, <2>1, KeysFacts
  <2>4. /\ Len(Keys(t, c)) = n
        /\ \A r \in 1 .. n : Keys(t, c)[r] = IF t.rows[r][c] = Null THEN 0 ELSE t.rows[r][c]
    BY <1>8, <2>2, KeysFacts
  <2>5. Keys(u, c) = Keys(g, c)
    BY <1>9 DEF Keys
  <2>6. \A r \in 1 .. n : r \in 1 .. n + 1
    BY <1>8
  <2> QED BY <1>8, <2>3, <2>4, <2>5, <2>6, ZenonT(60)
<1>11. ASSUME NEW i \in DOMAIN t.indexes
       PROVE  indexes[i] \in Indexes /\ IndexOf(u, indexes[i])
  <2> DEFINE x == t.indexes[i]
             keys == Keys(g, x.column)
  <2>1. x \in Indexes /\ x.column \in Names(t) /\ Sorted(x.order, Keys(t, x.column))
    BY <1>1 DEF IndexOf
  <2>2. x.order \in Seq(Nat)
    BY <2>1 DEF Indexes
  <2>3. /\ keys \in Seq(Int) /\ Len(keys) = n + 1 /\ Len(Keys(t, x.column)) = n
        /\ Keys(u, x.column) = keys
        /\ \A r \in 1 .. n : keys[r] = Keys(t, x.column)[r]
    BY <1>10, <2>1
  <2>4. indexes[i] = [x EXCEPT !.order = InsertRow(x.order, keys, n + 1)]
    <3>1. indexes[i] = [x EXCEPT !.order = InsertRow(x.order, keys, Len(g.rows))]
      BY DEF indexes, Extended
    <3> QED BY <3>1, <1>8, <1>9
  <2> HIDE DEF x, keys
  <2>5. IsOrder(x.order, n) /\ Ascending(x.order, Keys(t, x.column))
    BY <2>1, <2>3 DEF Sorted
  <2>6. Ascending(x.order, keys)
    BY <2>3, <2>5 DEF Ascending, IsOrder
  <2>7. InsertRow(x.order, keys, n + 1) \in Seq(Nat) /\ Sorted(InsertRow(x.order, keys, n + 1), keys)
    BY <1>8, <2>2, <2>3, <2>5, <2>6, InsertRowKeepsOrder
  <2>8. indexes[i] = [name |-> x.name, column |-> x.column, order |-> InsertRow(x.order, keys, n + 1)]
    BY <2>1, <2>4 DEF Indexes
  <2>9. indexes[i] \in Indexes /\ indexes[i].column = x.column
        /\ indexes[i].order = InsertRow(x.order, keys, n + 1)
    BY <2>1, <2>7, <2>8 DEF Indexes
  <2> QED BY <1>6, <2>1, <2>3, <2>7, <2>9 DEF IndexOf
<1>12. u.indexes \in Seq(Indexes) /\ \A i \in DOMAIN u.indexes : IndexOf(u, u.indexes[i])
  <2>1. indexes = [i \in 1 .. Len(t.indexes) |-> indexes[i]] /\ Len(t.indexes) \in Nat
        /\ DOMAIN t.indexes = 1 .. Len(t.indexes) /\ DOMAIN indexes = DOMAIN t.indexes
    BY <1>1 DEF indexes
  <2>2. [i \in 1 .. Len(t.indexes) |-> indexes[i]] \in Seq(Indexes)
    BY <1>11, <2>1
  <2> QED BY <1>3, <1>11, <2>1, <2>2
<1>13. ASSUME NEW i \in DOMAIN u.columns, NEW r \in DOMAIN u.rows,
              u.rows[r][u.columns[i].name] = Null
       PROVE  u.columns[i].null_flags
  <2>1. i \in DOMAIN t.columns /\ u.columns[i].name = t.columns[i].name
        /\ (u.columns[i].null_flags <=> (t.columns[i].null_flags \/ row[t.columns[i].name] = Null))
    BY <1>3, <1>4 DEF Alike
  <2>2. CASE r = n + 1
    BY <1>8, <1>13, <2>1, <2>2
  <2>3. CASE r # n + 1
    <3>1. r \in 1 .. n
      BY <1>8, <2>3
    <3>2. u.rows[r] = t.rows[r] /\ r \in DOMAIN t.rows
      BY <1>8, <3>1
    <3> QED BY <1>1, <1>13, <2>1, <3>2
  <2> QED BY <2>2, <2>3
<1>14. /\ u = [columns |-> u.columns, rows |-> u.rows, indexes |-> u.indexes]
       /\ u.columns \in Seq(Columns) /\ u.rows = Append(t.rows, row)
  BY <1>3, <1>4
<1> QED BY <1>5, <1>6, <1>7, <1>8, <1>12, <1>13, <1>14 DEF WellFormed, u

-------------------------------------------------------------------------------
(* Tables: rows are removed.                                               *)

(* cql_table_remove_row: the table stays well formed, its indexes sorted.   *)
LEMMA RemoveTableRowFacts ==
  ASSUME NEW t, WellFormed(t), NEW r \in DOMAIN t.rows
  PROVE  /\ WellFormed(RemoveTableRow(t, r)) /\ RemoveTableRow(t, r).columns = t.columns
         /\ RemoveTableRow(t, r).rows = RemoveAt(t.rows, r)
<1> DEFINE u == RemoveTableRow(t, r)
           n == Len(t.rows)
           indexes == [i \in DOMAIN t.indexes |-> Shortened(t.indexes[i], r)]
<1>1. /\ t = [columns |-> t.columns, rows |-> t.rows, indexes |-> t.indexes]
      /\ t.columns \in Seq(Columns) /\ NamedOnce(t.columns)
      /\ t.rows \in Seq(RowsOf(t))
      /\ t.indexes \in Seq(Indexes)
      /\ \A i \in DOMAIN t.indexes : IndexOf(t, t.indexes[i])
      /\ \A i \in DOMAIN t.columns : \A x \in DOMAIN t.rows :
           t.rows[x][t.columns[i].name] = Null => t.columns[i].null_flags
  BY DEF WellFormed
<1>2. u = [columns |-> t.columns, rows |-> RemoveAt(t.rows, r), indexes |-> indexes]
  <2>1. t = [columns |-> t.columns, rows |-> t.rows, indexes |-> t.indexes]
    BY <1>1
  <2>2. u = [t EXCEPT !.rows = RemoveAt(t.rows, r), !.indexes = indexes]
    BY Zenon DEF RemoveTableRow
  <2> HIDE DEF u, indexes
  <2> QED BY <2>1, <2>2
<1> HIDE DEF u, indexes
<1>3. Names(u) = Names(t) /\ RowsOf(u) = RowsOf(t)
  BY <1>2 DEF Names, RowsOf
<1>4. n \in Nat /\ DOMAIN t.rows = 1 .. n /\ r \in 1 .. n
  BY <1>1
<1>5. /\ u.rows \in Seq(RowsOf(t)) /\ Len(u.rows) = n - 1
      /\ \A j \in 1 .. n - 1 : u.rows[j] = IF j < r THEN t.rows[j] ELSE t.rows[j + 1]
  BY <1>1, <1>2, <1>4, RemoveAtFacts
<1>6. DOMAIN u.rows = 1 .. n - 1 /\ n - 1 \in Nat
  BY <1>4, <1>5
<1> HIDE DEF n
<1>7. \A j \in 1 .. n - 1 : (IF j < r THEN j ELSE j + 1) \in 1 .. n
                            /\ u.rows[j] = t.rows[IF j < r THEN j ELSE j + 1]
  BY <1>4, <1>5
<1>8. ASSUME NEW c \in Names(t)
      PROVE  /\ Keys(t, c) \in Seq(Int) /\ Len(Keys(t, c)) = n
             /\ Keys(u, c) = KeysWithout(Keys(t, c), r)
  <2>1. \A x \in 1 .. n : t.rows[x][c] \in Values \cup {Null}
    BY <1>4, RowFacts
  <2>2. \A j \in 1 .. n - 1 : u.rows[j][c] \in Values \cup {Null}
    BY <2>1, <1>7
  <2>3. /\ Keys(t, c) \in Seq(Int) /\ Len(Keys(t, c)) = n
        /\ \A x \in 1 .. n : Keys(t, c)[x] = IF t.rows[x][c] = Null THEN 0 ELSE t.rows[x][c]
    BY <1>4, <2>1, KeysFacts
  <2>4. Keys(u, c) = [j \in 1 .. n - 1 |-> IF u.rows[j][c] = Null THEN 0 ELSE u.rows[j][c]]
    BY <1>6 DEF Keys
  <2>5. KeysWithout(Keys(t, c), r)
          = [j \in 1 .. n - 1 |-> IF j < r THEN Keys(t, c)[j] ELSE Keys(t, c)[j + 1]]
    BY <2>3 DEF KeysWithout
  <2>6. ASSUME NEW j \in 1 .. n - 1
        PROVE  (IF u.rows[j][c] = Null THEN 0 ELSE u.rows[j][c])
                 = IF j < r THEN Keys(t, c)[j] ELSE Keys(t, c)[j + 1]
    <3> DEFINE x == IF j < r THEN j ELSE j + 1
    <3>1. x \in 1 .. n /\ u.rows[j] = t.rows[x]
      BY <1>7
    <3>2. Keys(t, c)[x] = IF t.rows[x][c] = Null THEN 0 ELSE t.rows[x][c]
      BY <2>3, <3>1
    <3>3. Keys(t, c)[x] = IF j < r THEN Keys(t, c)[j] ELSE Keys(t, c)[j + 1]
      OBVIOUS
    <3> HIDE DEF x
    <3> QED BY <3>1, <3>2, <3>3
  <2> QED BY <2>3, <2>4, <2>5, <2>6
<1>9. ASSUME NEW i \in DOMAIN t.indexes
      PROVE  indexes[i] \in Indexes /\ IndexOf(u, indexes[i])
  <2> DEFINE x == t.indexes[i]
             keys == Keys(t, x.column)
  <2>1. x \in Indexes /\ x.column \in Names(t) /\ Sorted(x.order, keys)
    BY <1>1 DEF IndexOf
  <2>2. x.order \in Seq(Nat)
    BY <2>1 DEF Indexes
  <2>3. keys \in Seq(Int) /\ Len(keys) = n /\ Keys(u, x.column) = KeysWithout(keys, r)
    BY <1>8, <2>1
  <2>4. indexes[i] = [x EXCEPT !.order = RemoveRow(x.order, r)]
    BY DEF indexes, Shortened
  <2> HIDE DEF x, keys
  <2>5. RemoveRow(x.order, r) \in Seq(Nat) /\ Sorted(RemoveRow(x.order, r), KeysWithout(keys, r))
    BY <1>4, <2>1, <2>2, <2>3, RemoveKeepsOrder
  <2>6. indexes[i] = [name |-> x.name, column |-> x.column, order |-> RemoveRow(x.order, r)]
    BY <2>1, <2>4 DEF Indexes
  <2>7. indexes[i] \in Indexes /\ indexes[i].column = x.column
        /\ indexes[i].order = RemoveRow(x.order, r)
    BY <2>1, <2>5, <2>6 DEF Indexes
  <2> QED BY <1>3, <2>1, <2>3, <2>5, <2>7 DEF IndexOf
<1>10. u.indexes \in Seq(Indexes) /\ \A i \in DOMAIN u.indexes : IndexOf(u, u.indexes[i])
  <2>1. indexes = [i \in 1 .. Len(t.indexes) |-> indexes[i]] /\ Len(t.indexes) \in Nat
        /\ DOMAIN t.indexes = 1 .. Len(t.indexes) /\ DOMAIN indexes = DOMAIN t.indexes
    BY <1>1 DEF indexes
  <2>2. [i \in 1 .. Len(t.indexes) |-> indexes[i]] \in Seq(Indexes)
    BY <1>9, <2>1
  <2> QED BY <1>2, <1>9, <2>1, <2>2
<1>11. \A i \in DOMAIN u.columns : \A j \in DOMAIN u.rows :
         u.rows[j][u.columns[i].name] = Null => u.columns[i].null_flags
  <2> SUFFICES ASSUME NEW i \in DOMAIN u.columns, NEW j \in DOMAIN u.rows,
                      u.rows[j][u.columns[i].name] = Null
               PROVE  u.columns[i].null_flags
    OBVIOUS
  <2>1. u.columns = t.columns
    BY <1>2
  <2>2. PICK x \in 1 .. n : u.rows[j] = t.rows[x]
    BY <1>6, <1>7
  <2> QED BY <1>1, <1>4, <2>1, <2>2
<1>12. /\ u = [columns |-> u.columns, rows |-> u.rows, indexes |-> u.indexes]
       /\ u.columns = t.columns /\ u.rows = RemoveAt(t.rows, r)
  BY <1>2
<1> QED BY <1>1, <1>3, <1>5, <1>10, <1>11, <1>12 DEF WellFormed, u

(* The rows of u are rows of t, each of those in kept once.                 *)
Keeps(g, u, t, kept) ==
  /\ DOMAIN g = DOMAIN u.rows
  /\ \A i \in DOMAIN u.rows : g[i] \in kept /\ u.rows[i] = t.rows[g[i]]
  /\ \A i, j \in DOMAIN u.rows : g[i] = g[j] => i = j
  /\ \A r \in kept : \E i \in DOMAIN u.rows : g[i] = r

IsRemoval(f, t, found, m) ==
  f = [k \in 0 .. m |->
        IF k = 0 THEN t
        ELSE IF Len(t.rows) + 1 - k \in found THEN RemoveTableRow(f[k - 1], Len(t.rows) + 1 - k)
             ELSE f[k - 1]]

LEMMA RemoveRowsIsRemoval ==
  ASSUME NEW t, NEW found
  PROVE  RemoveRows(t, found) = (CHOOSE f : IsRemoval(f, t, found, Len(t.rows)))[Len(t.rows)]
BY DEF RemoveRows, IsRemoval

LEMMA RemovalExists ==
  ASSUME NEW t, NEW found, NEW m \in Nat
  PROVE  \E f : IsRemoval(f, t, found, m)
<1> DEFINE Bad == {k \in Nat : ~ \E f : IsRemoval(f, t, found, k)}
<1>1. Bad = {}
  <2> SUFFICES ASSUME Bad # {} PROVE FALSE
    OBVIOUS
  <2>1. PICK k \in Bad : \A j \in Bad : k <= j
    <3>1. Bad \subseteq Nat
      OBVIOUS
    <3> HIDE DEF Bad
    <3> QED BY <3>1, LeastNat
  <2>2. k \in Nat /\ ~ \E f : IsRemoval(f, t, found, k)
    OBVIOUS
  <2>3. k # 0
    <3>1. IsRemoval([j \in 0 .. 0 |-> t], t, found, 0)
      BY DEF IsRemoval
    <3> QED BY <2>2, <3>1
  <2>4. k - 1 \in Nat /\ k - 1 \notin Bad
    <3>1. k - 1 \in Nat /\ ~(k <= k - 1)
      BY <2>2, <2>3
    <3> HIDE DEF Bad
    <3> QED BY <2>1, <3>1
  <2>5. PICK f : IsRemoval(f, t, found, k - 1)
    BY <2>4
  <2> HIDE DEF Bad
  <2> DEFINE Step(x) == IF Len(t.rows) + 1 - k \in found
                        THEN RemoveTableRow(x, Len(t.rows) + 1 - k) ELSE x
             g == [j \in 0 .. k |-> IF j = k THEN Step(f[k - 1]) ELSE f[j]]
  <2>6. \A j \in 0 .. k - 1 :
          f[j] = IF j = 0 THEN t
                 ELSE IF Len(t.rows) + 1 - j \in found
                      THEN RemoveTableRow(f[j - 1], Len(t.rows) + 1 - j) ELSE f[j - 1]
    BY <2>5 DEF IsRemoval
  <2>7. \A j \in 0 .. k : (j # 0 => j - 1 \in 0 .. k - 1 /\ g[j - 1] = f[j - 1])
                          /\ (j # k => j \in 0 .. k - 1)
    BY <2>2, <2>3
  <2>8. ASSUME NEW j \in 0 .. k
        PROVE  (IF j = k THEN Step(f[k - 1]) ELSE f[j])
                 = IF j = 0 THEN t
                   ELSE IF Len(t.rows) + 1 - j \in found
                        THEN RemoveTableRow(g[j - 1], Len(t.rows) + 1 - j) ELSE g[j - 1]
    <3>1. CASE j = k
      <4>1. g[j - 1] = f[k - 1]
        BY <2>3, <2>7, <3>1
      <4> HIDE DEF g
      <4> QED BY <2>3, <3>1, <4>1
    <3>2. CASE j # k
      <4>1. j \in 0 .. k - 1 /\ (j # 0 => g[j - 1] = f[j - 1])
        BY <2>7, <3>2
      <4> HIDE DEF g
      <4> QED BY <2>6, <3>2, <4>1
    <3> QED BY <3>1, <3>2
  <2>9. IsRemoval(g, t, found, k)
    BY <2>8 DEF IsRemoval
  <2> QED BY <2>2, <2>9
<1> QED BY <1>1

(* A DELETE removes the rows it is to remove, from the last to the first,   *)
(* and no other: the numbers of those still to be removed do not move.      *)
LEMMA RemoveRowsFacts ==
  ASSUME NEW t, WellFormed(t), NEW found
  PROVE  /\ WellFormed(RemoveRows(t, found)) /\ RemoveRows(t, found).columns = t.columns
         /\ \E g : Keeps(g, RemoveRows(t, found), t, DOMAIN t.rows \ found)
<1> DEFINE n == Len(t.rows)
           f == CHOOSE h : IsRemoval(h, t, found, n)
           Kept(k) == {r \in 1 .. n : r <= n - k \/ r \notin found}
           Good(k) == /\ WellFormed(f[k]) /\ f[k].columns = t.columns
                      /\ \E g : /\ Keeps(g, f[k], t, Kept(k))
                                /\ \A i \in 1 .. n - k : i \in DOMAIN f[k].rows /\ g[i] = i
<1>1. n \in Nat /\ DOMAIN t.rows = 1 .. n
  BY DEF WellFormed
<1>2. IsRemoval(f, t, found, n)
  BY <1>1, RemovalExists
<1>3. RemoveRows(t, found) = f[n]
  BY RemoveRowsIsRemoval
<1> HIDE DEF n, f
<1>4. \A k \in 0 .. n :
        f[k] = IF k = 0 THEN t
               ELSE IF n + 1 - k \in found THEN RemoveTableRow(f[k - 1], n + 1 - k) ELSE f[k - 1]
  BY <1>2 DEF IsRemoval, n
<1>5. Good(0)
  <2> DEFINE g == [i \in 1 .. n |-> i]
  <2>1. f[0] = t /\ n - 0 = n
    BY <1>1, <1>4
  <2>2. Kept(0) = 1 .. n
    BY <1>1
  <2>3. Keeps(g, t, t, 1 .. n)
    BY <1>1 DEF Keeps
  <2>4. \A i \in 1 .. n - 0 : i \in DOMAIN t.rows /\ g[i] = i
    BY <1>1
  <2> HIDE DEF g, Kept
  <2> QED BY <2>1, <2>2, <2>3, <2>4
<1>6. ASSUME NEW k \in 1 .. n, Good(k - 1) PROVE Good(k)
  <2> DEFINE r == n + 1 - k
             before == f[k - 1]
  <2>1. r \in 1 .. n /\ n - (k - 1) = r /\ n - k = r - 1 /\ n - k \in Nat
    BY <1>1
  <2>2. f[k] = IF r \in found THEN RemoveTableRow(before, r) ELSE before
    BY <1>1, <1>4
  <2>3. WellFormed(before) /\ before.columns = t.columns
    BY <1>6
  <2>4. PICK g : /\ Keeps(g, before, t, Kept(k - 1))
                 /\ \A i \in 1 .. r : i \in DOMAIN before.rows /\ g[i] = i
    BY <1>6, <2>1
  <2>5. Kept(k) = IF r \in found THEN Kept(k - 1) \ {r} ELSE Kept(k - 1)
    BY <1>1, <2>1
  <2>6. r \in DOMAIN before.rows /\ g[r] = r
    BY <2>1, <2>4
  <2> HIDE DEF before, r
  <2>7. CASE r \notin found
    <3>1. f[k] = before /\ Kept(k) = Kept(k - 1)
      BY <2>2, <2>5, <2>7
    <3>2. \A i \in 1 .. n - k : i \in 1 .. r
      BY <2>1
    <3> HIDE DEF Kept
    <3> QED BY <2>3, <2>4, <3>1, <3>2
  <2>8. CASE r \in found
    <3> DEFINE u == RemoveTableRow(before, r)
               l == Len(before.rows)
               Old(i) == IF i < r THEN i ELSE i + 1
               h == [i \in 1 .. l - 1 |-> g[Old(i)]]
    <3>1. f[k] = u /\ Kept(k) = Kept(k - 1) \ {r}
      BY <2>2, <2>5, <2>8
    <3>2. WellFormed(u) /\ u.columns = t.columns /\ u.rows = RemoveAt(before.rows, r)
      BY <2>3, <2>6, RemoveTableRowFacts
    <3>3. l \in Nat /\ DOMAIN before.rows = 1 .. l /\ before.rows \in Seq(RowsOf(before))
      BY <2>3 DEF WellFormed
    <3>4. /\ u.rows \in Seq(RowsOf(before)) /\ Len(u.rows) = l - 1
          /\ \A i \in 1 .. l - 1 : u.rows[i] = IF i < r THEN before.rows[i] ELSE before.rows[i + 1]
      BY <2>6, <3>2, <3>3, RemoveAtFacts
    <3>5. DOMAIN u.rows = 1 .. l - 1
      BY <3>3, <3>4
    <3> HIDE DEF u, l, Kept
    <3>6. \A i \in 1 .. l - 1 : Old(i) \in 1 .. l /\ Old(i) # r /\ u.rows[i] = before.rows[Old(i)]
      BY <2>1, <3>3, <3>4
    <3>7. \A i, j \in 1 .. l - 1 : Old(i) = Old(j) => i = j
      BY <2>1
    <3>8. \A x \in 1 .. l : x # r => \E i \in 1 .. l - 1 : Old(i) = x
      <4> SUFFICES ASSUME NEW x \in 1 .. l, x # r PROVE \E i \in 1 .. l - 1 : Old(i) = x
        OBVIOUS
      <4>1. r \in 1 .. l
        BY <2>6, <3>3
      <4>2. CASE x < r
        <5>1. x \in 1 .. l - 1 /\ Old(x) = x
          BY <3>3, <4>1, <4>2
        <5> QED BY <5>1
      <4>3. CASE x > r
        <5>1. x - 1 \in 1 .. l - 1 /\ Old(x - 1) = x
          BY <3>3, <4>1, <4>3
        <5> QED BY <5>1
      <4> QED BY <3>3, <4>1, <4>2, <4>3
    <3>9. DOMAIN h = 1 .. l - 1 /\ \A i \in 1 .. l - 1 : h[i] = g[Old(i)]
      OBVIOUS
    <3>10. \A i \in 1 .. n - k : i \in 1 .. l - 1 /\ Old(i) = i /\ i \in 1 .. r
      <4> TAKE i \in 1 .. n - k
      <4>1. r \in 1 .. l
        BY <2>6, <3>3
      <4> QED BY <2>1, <3>3, <4>1
    <3> HIDE DEF h, Old
    <3>11. /\ \A x \in 1 .. l : g[x] \in Kept(k - 1) /\ before.rows[x] = t.rows[g[x]]
           /\ \A x, y \in 1 .. l : g[x] = g[y] => x = y
           /\ \A y \in Kept(k - 1) : \E x \in 1 .. l : g[x] = y
      BY <2>4, <3>3 DEF Keeps
    <3>12. \A i \in 1 .. l - 1 : h[i] \in Kept(k) /\ u.rows[i] = t.rows[h[i]]
      <4> TAKE i \in 1 .. l - 1
      <4>1. h[i] = g[Old(i)] /\ Old(i) \in 1 .. l /\ Old(i) # r /\ u.rows[i] = before.rows[Old(i)]
        BY <3>6, <3>9
      <4>2. g[Old(i)] \in Kept(k - 1) /\ before.rows[Old(i)] = t.rows[g[Old(i)]]
        BY <3>11, <4>1
      <4>3. g[Old(i)] # r
        BY <2>6, <3>3, <3>11, <4>1
      <4> QED BY <3>1, <4>1, <4>2, <4>3
    <3>13. ASSUME NEW i \in 1 .. l - 1, NEW j \in 1 .. l - 1, h[i] = h[j] PROVE i = j
      <4>1. g[Old(i)] = g[Old(j)] /\ Old(i) \in 1 .. l /\ Old(j) \in 1 .. l
        BY <3>6, <3>9, <3>13
      <4>2. Old(i) = Old(j)
        BY <3>11, <4>1
      <4> QED BY <3>7, <4>2
    <3>14. \A y \in Kept(k) : \E i \in 1 .. l - 1 : h[i] = y
      <4> TAKE y \in Kept(k)
      <4>1. PICK x \in 1 .. l : g[x] = y
        BY <3>1, <3>11
      <4>2. x # r
        BY <2>6, <3>1, <4>1
      <4>3. PICK i \in 1 .. l - 1 : Old(i) = x
        BY <3>8, <4>2
      <4> QED BY <3>9, <4>1, <4>3
    <3>15. Keeps(h, u, t, Kept(k))
      BY <3>5, <3>9, <3>12, <3>13, <3>14 DEF Keeps
    <3>16. \A i \in 1 .. n - k : i \in DOMAIN u.rows /\ h[i] = i
      BY <2>4, <3>5, <3>9, <3>10
    <3> QED BY <3>1, <3>2, <3>15, <3>16
  <2> QED BY <2>7, <2>8
<1> DEFINE Bad == {k \in 0 .. n : ~Good(k)}
<1>7. Bad = {}
  <2> SUFFICES ASSUME Bad # {} PROVE FALSE
    OBVIOUS
  <2>1. PICK k \in Bad : \A j \in Bad : k <= j
    <3>1. Bad \subseteq Nat
      BY <1>1
    <3> HIDE DEF Bad
    <3> QED BY <3>1, LeastNat
  <2>2. k \in 0 .. n /\ ~Good(k)
    OBVIOUS
  <2> HIDE DEF Good
  <2>3. k # 0
    BY <1>5, <2>2
  <2>4. k \in 1 .. n /\ k - 1 \in 0 .. n /\ ~(k <= k - 1)
    BY <1>1, <2>2, <2>3
  <2>5. Good(k - 1)
    BY <2>1, <2>4
  <2> QED BY <1>6, <2>2, <2>4, <2>5
<1>8. Good(n)
  <2>1. n \in 0 .. n
    BY <1>1
  <2> HIDE DEF Good
  <2> QED BY <1>7, <2>1
<1>9. Kept(n) = DOMAIN t.rows \ found
  BY <1>1
<1> HIDE DEF Kept
<1> QED BY <1>3, <1>8, <1>9

-------------------------------------------------------------------------------
(* Tables: the other changes.                                              *)

(* A column without constraints, and one that has those of another.        *)
Free(c) == ~c.not_null /\ ~c.unique /\ c.fk = None /\ c.check = "none"
Inherits(a, b) ==
  /\ a.name = b.name /\ a.not_null = b.not_null /\ a.unique = b.unique /\ a.fk = b.fk
  /\ a.check # "none" => b.check # "none"

(* The rows of u are different rows of t, in the columns that matter.       *)
Derived(u, t) ==
  \E g : /\ \A r \in DOMAIN u.rows : g[r] \in DOMAIN t.rows
         /\ \A r, s \in DOMAIN u.rows : g[r] = g[s] => r = s
         /\ \A i \in DOMAIN u.columns :
              \/ Free(u.columns[i])
              \/ \E j \in DOMAIN t.columns :
                   /\ Inherits(u.columns[i], t.columns[j])
                   /\ \A r \in DOMAIN u.rows :
                        u.rows[r][t.columns[j].name] = t.rows[g[r]][t.columns[j].name]

(* Every value of the columns in names that t holds, u holds.               *)
HoldsAll(u, t, names) ==
  \A c \in names : \A v : Holds(t, c, v) => Holds(u, c, v)

LEMMA TableEquals ==
  ASSUME NEW t, WellFormed(t)
  PROVE  /\ t = [columns |-> t.columns, rows |-> t.rows, indexes |-> t.indexes]
         /\ t.columns \in Seq(Columns) /\ NamedOnce(t.columns)
         /\ t.rows \in Seq(RowsOf(t))
         /\ t.indexes \in Seq(Indexes)
         /\ \A i \in DOMAIN t.indexes : IndexOf(t, t.indexes[i])
         /\ \A i \in DOMAIN t.columns : \A r \in DOMAIN t.rows :
              t.rows[r][t.columns[i].name] = Null => t.columns[i].null_flags
BY DEF WellFormed

(* Nothing but indexes and labels of checks changes.                       *)
LEMMA SameRows ==
  ASSUME NEW t, NEW u, WellFormed(t), u.columns \in Seq(Columns), u.indexes \in Seq(Indexes),
         u = [columns |-> u.columns, rows |-> t.rows, indexes |-> u.indexes],
         DOMAIN u.columns = DOMAIN t.columns,
         \A i \in DOMAIN t.columns : /\ Inherits(u.columns[i], t.columns[i])
                                     /\ u.columns[i].null_flags = t.columns[i].null_flags,
         \A i \in DOMAIN u.indexes : IndexOf(t, u.indexes[i])
  PROVE  WellFormed(u) /\ Names(u) = Names(t) /\ Derived(u, t) /\ HoldsAll(u, t, Names(t))
<1>1. u.rows = t.rows
  OBVIOUS
<1>2. Names(u) = Names(t) /\ NamedOnce(u.columns)
  <2>1. \A i \in DOMAIN t.columns : u.columns[i].name = t.columns[i].name
    BY DEF Inherits
  <2>2. NamedOnce(t.columns)
    BY TableEquals
  <2>3. Names(u) = Names(t)
    BY <2>1 DEF Names
  <2>4. NamedOnce(u.columns)
    BY <2>1, <2>2 DEF NamedOnce
  <2> QED BY <2>3, <2>4
<1>3. \A c : Keys(u, c) = Keys(t, c)
  BY <1>1 DEF Keys
<1>4. RowsOf(u) = RowsOf(t)
  BY <1>2 DEF RowsOf
<1>5. \A i \in DOMAIN u.indexes : IndexOf(u, u.indexes[i])
  BY <1>2, <1>3 DEF IndexOf
<1>6. \A i \in DOMAIN u.columns : \A r \in DOMAIN u.rows :
        u.rows[r][u.columns[i].name] = Null => u.columns[i].null_flags
  BY <1>1, TableEquals, ZenonT(60) DEF Inherits
<1>7. WellFormed(u)
  <2>1. u.rows \in Seq(RowsOf(u))
    BY <1>1, <1>4, TableEquals
  <2> QED BY <1>1, <1>2, <1>5, <1>6, <2>1 DEF WellFormed
<1>8. Derived(u, t)
  <2> DEFINE g == [r \in DOMAIN u.rows |-> r]
  <2>1. \A r \in DOMAIN u.rows : g[r] = r
    OBVIOUS
  <2> HIDE DEF g
  <2>2. \A i \in DOMAIN u.columns : Inherits(u.columns[i], t.columns[i])
    OBVIOUS
  <2> QED BY <1>1, <2>1, <2>2 DEF Derived
<1>9. HoldsAll(u, t, Names(t))
  BY <1>1 DEF HoldsAll, Holds
<1> QED BY <1>2, <1>7, <1>8, <1>9

LEMMA InheritsItself == ASSUME NEW c PROVE Inherits(c, c)
BY DEF Inherits

(* cql_table_create_index builds an order of all rows.                     *)
LEMMA CreateIndexFacts ==
  ASSUME NEW t, WellFormed(t), NEW x \in IndexNames, NEW c \in Names(t), NEW order \in Orders(Keys(t, c)),
         NEW u, u = [t EXCEPT !.indexes = Append(@, [name |-> x, column |-> c, order |-> order])]
  PROVE  WellFormed(u) /\ u.columns = t.columns /\ Derived(u, t) /\ HoldsAll(u, t, Names(t))
<1> DEFINE new == [name |-> x, column |-> c, order |-> order]
           indexes == Append(t.indexes, new)
<1>1. c \in ColumnNames
  <2>1. PICK i \in DOMAIN t.columns : t.columns[i].name = c
    BY DEF Names
  <2>2. t.columns[i] \in Columns
    BY TableEquals
  <2> QED BY <2>1, <2>2 DEF Columns
<1>2. order \in Seq(Nat) /\ Sorted(order, Keys(t, c))
  <2>1. order \in [1 .. Len(Keys(t, c)) -> 1 .. Len(Keys(t, c))] /\ Sorted(order, Keys(t, c))
    BY DEF Orders
  <2>2. DOMAIN t.rows = 1 .. Len(t.rows) /\ Len(t.rows) \in Nat
    BY TableEquals
  <2>3. \A r \in 1 .. Len(t.rows) : t.rows[r][c] \in Values \cup {Null}
    BY <2>2, RowFacts
  <2>4. Len(Keys(t, c)) \in Nat
    BY <2>2, <2>3, KeysFacts
  <2> QED BY <2>1, <2>4
<1>3. new \in Indexes /\ IndexOf(t, new)
  BY <1>1, <1>2 DEF Indexes, IndexOf
<1>4. u = [columns |-> t.columns, rows |-> t.rows, indexes |-> indexes]
  <2>1. t = [columns |-> t.columns, rows |-> t.rows, indexes |-> t.indexes]
    BY TableEquals
  <2>2. u = [t EXCEPT !.indexes = indexes]
    OBVIOUS
  <2> HIDE DEF indexes
  <2> QED BY <2>1, <2>2
<1> HIDE DEF new
<1>5. indexes \in Seq(Indexes) /\ \A i \in DOMAIN indexes : IndexOf(t, indexes[i])
  <2>1. t.indexes \in Seq(Indexes) /\ \A i \in DOMAIN t.indexes : IndexOf(t, t.indexes[i])
    BY TableEquals
  <2>2. Len(indexes) = Len(t.indexes) + 1 /\ DOMAIN indexes = 1 .. Len(t.indexes) + 1
        /\ indexes \in Seq(Indexes)
    BY <1>3, <2>1
  <2>3. ASSUME NEW i \in 1 .. Len(t.indexes) + 1 PROVE IndexOf(t, indexes[i])
    <3>1. CASE i = Len(t.indexes) + 1
      BY <1>3, <2>1, <3>1
    <3>2. CASE i # Len(t.indexes) + 1
      <4>1. i \in DOMAIN t.indexes /\ indexes[i] = t.indexes[i]
        BY <1>3, <2>1, <3>2
      <4> QED BY <2>1, <4>1
    <3> QED BY <3>1, <3>2
  <2> QED BY <2>2, <2>3
<1> HIDE DEF indexes
<1>6. u.columns = t.columns /\ u.indexes = indexes
  BY <1>4
<1>7. t.columns \in Seq(Columns) /\ \A i \in DOMAIN t.columns : Inherits(t.columns[i], t.columns[i])
  BY TableEquals, InheritsItself
<1> QED BY <1>4, <1>5, <1>6, <1>7, SameRows

LEMMA RemoveFirstMatchFacts ==
  ASSUME NEW S, NEW s \in Seq(S), NEW p \in 1 .. Len(s)
  PROVE  /\ RemoveAt(s, p) \in Seq(S)
         /\ \A i \in DOMAIN RemoveAt(s, p) : \E j \in DOMAIN s :
              j # p /\ (j = IF i < p THEN i ELSE i + 1) /\ RemoveAt(s, p)[i] = s[j]
         /\ \A j \in DOMAIN s : j # p => \E i \in DOMAIN RemoveAt(s, p) : RemoveAt(s, p)[i] = s[j]
<1> DEFINE w == RemoveAt(s, p)
           l == Len(s)
<1>1. /\ w \in Seq(S) /\ Len(w) = l - 1
      /\ \A j \in 1 .. l - 1 : w[j] = IF j < p THEN s[j] ELSE s[j + 1]
  BY RemoveAtFacts
<1>2. l \in Nat /\ DOMAIN s = 1 .. l /\ DOMAIN w = 1 .. l - 1
  BY <1>1
<1> HIDE DEF w, l
<1>3. p \in 1 .. l
  BY DEF l
<1>4. \A i \in DOMAIN w : \E j \in DOMAIN s : j # p /\ (j = IF i < p THEN i ELSE i + 1) /\ w[i] = s[j]
  <2> TAKE i \in DOMAIN w
  <2> DEFINE j == IF i < p THEN i ELSE i + 1
  <2>1. j \in DOMAIN s /\ j # p
    BY <1>2, <1>3
  <2>2. w[i] = s[j]
    BY <1>1, <1>2
  <2> QED BY <2>1, <2>2
<1>5. ASSUME NEW j \in DOMAIN s, j # p PROVE \E i \in DOMAIN w : w[i] = s[j]
  <2>1. CASE j < p
    <3>1. j \in 1 .. l - 1
      BY <1>2, <1>3, <2>1
    <3>2. w[j] = s[j]
      BY <1>1, <2>1, <3>1
    <3> QED BY <1>2, <3>1, <3>2
  <2>2. CASE p < j
    <3>1. j - 1 \in 1 .. l - 1 /\ ~(j - 1 < p) /\ (j - 1) + 1 = j
      BY <1>2, <1>3, <2>2
    <3>2. w[j - 1] = s[j]
      BY <1>1, <3>1
    <3> QED BY <1>2, <3>1, <3>2
  <2> QED BY <1>2, <1>3, <1>5, <2>1, <2>2
<1> QED BY <1>1, <1>4, <1>5 DEF w

(* cql_table_drop_index                                                     *)
LEMMA DropIndexFacts ==
  ASSUME NEW t, WellFormed(t), NEW x, NEW u, u = WithoutIndex(t, x)
  PROVE  WellFormed(u) /\ u.columns = t.columns /\ Derived(u, t) /\ HoldsAll(u, t, Names(t))
<1> DEFINE indexes == RemoveFirstMatch(t.indexes, LAMBDA i : i.name = x)
           S == {i \in 1 .. Len(t.indexes) : t.indexes[i].name = x}
<1>1. t.indexes \in Seq(Indexes) /\ \A i \in DOMAIN t.indexes : IndexOf(t, t.indexes[i])
  BY TableEquals
<1>2. indexes = t.indexes \/ \E p \in 1 .. Len(t.indexes) : indexes = RemoveAt(t.indexes, p)
  <2>1. CASE S = {}
    BY <2>1 DEF RemoveFirstMatch
  <2>2. CASE S # {}
    <3>1. indexes = RemoveAt(t.indexes, Min(S))
      BY <2>2 DEF RemoveFirstMatch, SelectInSeq
    <3>2. Min(S) \in S
      <4>1. S \subseteq Nat
        OBVIOUS
      <4> HIDE DEF S
      <4> QED BY <2>2, <4>1, LeastNat
    <3> QED BY <3>1, <3>2
  <2> QED BY <2>1, <2>2
<1>3. u = [columns |-> t.columns, rows |-> t.rows, indexes |-> indexes]
  <2>1. t = [columns |-> t.columns, rows |-> t.rows, indexes |-> t.indexes]
    BY TableEquals
  <2>2. u = [t EXCEPT !.indexes = indexes]
    BY Zenon DEF WithoutIndex
  <2> HIDE DEF indexes
  <2> QED BY <2>1, <2>2
<1> HIDE DEF indexes
<1>4. indexes \in Seq(Indexes) /\ \A i \in DOMAIN indexes : IndexOf(t, indexes[i])
  <2>1. CASE indexes = t.indexes
    BY <1>1, <2>1
  <2>2. ASSUME NEW p \in 1 .. Len(t.indexes), indexes = RemoveAt(t.indexes, p)
        PROVE  indexes \in Seq(Indexes) /\ \A i \in DOMAIN indexes : IndexOf(t, indexes[i])
    <3>1. /\ indexes \in Seq(Indexes)
          /\ \A i \in DOMAIN indexes : \E j \in DOMAIN t.indexes : indexes[i] = t.indexes[j]
      BY <1>1, <2>2, RemoveFirstMatchFacts
    <3> QED BY <1>1, <3>1
  <2> QED BY <1>2, <2>1, <2>2
<1>5. u.columns = t.columns /\ u.indexes = indexes
  BY <1>3
<1>6. t.columns \in Seq(Columns) /\ \A i \in DOMAIN t.columns : Inherits(t.columns[i], t.columns[i])
  BY TableEquals, InheritsItself
<1> QED BY <1>3, <1>4, <1>5, <1>6, SameRows

(* The parsed text of a CHECK is the only thing that is lost at the end of  *)
(* a query and found again in the files.                                   *)
LEMMA WithCheckFacts ==
  ASSUME NEW t, WellFormed(t), NEW from, "none" \notin from, NEW to \in {"freed", "text"}
  PROVE  /\ WellFormed(WithCheck(t, from, to)) /\ Names(WithCheck(t, from, to)) = Names(t)
         /\ Derived(WithCheck(t, from, to), t) /\ HoldsAll(WithCheck(t, from, to), t, Names(t))
         /\ WithCheck(t, from, to).rows = t.rows /\ WithCheck(t, from, to).indexes = t.indexes
         /\ DOMAIN WithCheck(t, from, to).columns = DOMAIN t.columns
         /\ \A i \in DOMAIN t.columns :
              WithCheck(t, from, to).columns[i] = Relabelled(t.columns[i], from, to)
         /\ WithCheck(t, from, to) = [columns |-> WithCheck(t, from, to).columns,
                                      rows |-> t.rows, indexes |-> t.indexes]
<1> DEFINE u == WithCheck(t, from, to)
           columns == [i \in DOMAIN t.columns |-> Relabelled(t.columns[i], from, to)]
<1>1. u = [columns |-> columns, rows |-> t.rows, indexes |-> t.indexes]
  <2>1. t = [columns |-> t.columns, rows |-> t.rows, indexes |-> t.indexes]
    BY TableEquals
  <2>2. u = [t EXCEPT !.columns = columns]
    BY Zenon DEF WithCheck
  <2> HIDE DEF u, columns
  <2> QED BY <2>1, <2>2
<1>2. \A c \in Columns : /\ Relabelled(c, from, to) \in Columns
                         /\ Inherits(Relabelled(c, from, to), c)
                         /\ Relabelled(c, from, to).null_flags = c.null_flags
  BY DEF Columns, Relabelled, Inherits
<1>3. t.columns \in Seq(Columns)
  BY TableEquals
<1>4. columns \in Seq(Columns) /\ DOMAIN columns = DOMAIN t.columns
  <2>1. DOMAIN t.columns = 1 .. Len(t.columns) /\ Len(t.columns) \in Nat
        /\ \A i \in DOMAIN t.columns : t.columns[i] \in Columns
    BY <1>3
  <2>2. \A i \in 1 .. Len(t.columns) : Relabelled(t.columns[i], from, to) \in Columns
    BY <1>2, <2>1
  <2>3. [i \in 1 .. Len(t.columns) |-> Relabelled(t.columns[i], from, to)] \in Seq(Columns)
    BY <2>1, <2>2
  <2> QED BY <2>1, <2>3
<1>5. \A i \in DOMAIN t.columns : /\ columns[i] = Relabelled(t.columns[i], from, to)
                                  /\ Inherits(columns[i], t.columns[i])
                                  /\ columns[i].null_flags = t.columns[i].null_flags
  BY <1>2, <1>3
<1> HIDE DEF u, columns
<1>6. u.columns = columns /\ u.indexes = t.indexes /\ u.rows = t.rows
  BY <1>1
<1>7. t.indexes \in Seq(Indexes) /\ \A i \in DOMAIN t.indexes : IndexOf(t, t.indexes[i])
  BY TableEquals
<1>8. WellFormed(u) /\ Names(u) = Names(t) /\ Derived(u, t) /\ HoldsAll(u, t, Names(t))
  BY <1>1, <1>4, <1>5, <1>6, <1>7, SameRows
<1> QED BY <1>1, <1>4, <1>5, <1>6, <1>8 DEF u

(* CREATE TABLE                                                             *)
LEMMA NewColumnFacts ==
  ASSUME NEW c \in Definitions
  PROVE  /\ NewColumn(c) \in Columns /\ NewColumn(c).name = c.name
         /\ NewColumn(c).fk # None =>
              /\ NewColumn(c).fk.table \in DOMAIN Tables
              /\ NewColumn(c).fk.column \in Names(Tables[NewColumn(c).fk.table])
BY DEF Definitions, Columns, NewColumn

LEMMA NewTableFacts ==
  ASSUME NEW schema \in Seq(Definitions), NamedOnce(schema), NEW t,
         t = [columns |-> [i \in DOMAIN schema |-> NewColumn(schema[i])], rows |-> <<>>, indexes |-> <<>>]
  PROVE  WellFormed(t)
<1> DEFINE columns == [i \in DOMAIN schema |-> NewColumn(schema[i])]
<1>1. DOMAIN schema = 1 .. Len(schema) /\ Len(schema) \in Nat
      /\ \A i \in DOMAIN schema : schema[i] \in Definitions
  OBVIOUS
<1>2. \A i \in DOMAIN schema : NewColumn(schema[i]) \in Columns /\ NewColumn(schema[i]).name = schema[i].name
  BY <1>1, NewColumnFacts
<1>3. columns \in Seq(Columns)
  <2>1. [i \in 1 .. Len(schema) |-> NewColumn(schema[i])] \in Seq(Columns)
    BY <1>1, <1>2
  <2> QED BY <1>1, <2>1
<1>4. NamedOnce(columns)
  <2>1. DOMAIN columns = DOMAIN schema /\ \A i \in DOMAIN schema : columns[i].name = schema[i].name
    BY <1>2
  <2> HIDE DEF columns
  <2> QED BY <2>1 DEF NamedOnce
<1>5. t.columns = columns /\ t.rows = <<>> /\ t.indexes = <<>>
      /\ t = [columns |-> t.columns, rows |-> t.rows, indexes |-> t.indexes]
  OBVIOUS
<1> HIDE DEF columns
<1> QED BY <1>3, <1>4, <1>5 DEF WellFormed

(* IMPORT                                                                   *)
LEMMA UnconstrainedFacts ==
  ASSUME NEW t, WellFormed(t)
  PROVE  /\ WellFormed(Unconstrained(t)) /\ Names(Unconstrained(t)) = Names(t)
         /\ \A i \in DOMAIN Unconstrained(t).columns : Free(Unconstrained(t).columns[i])
<1> DEFINE u == Unconstrained(t)
           Plain(c) == [c EXCEPT !.not_null = FALSE, !.unique = FALSE, !.fk = None,
                                 !.check = "none", !.null_flags = FALSE]
           columns == [i \in DOMAIN t.columns |-> Plain(t.columns[i])]
<1>1. t.columns \in Seq(Columns) /\ NamedOnce(t.columns)
  BY TableEquals
<1>2. DOMAIN t.columns = 1 .. Len(t.columns) /\ Len(t.columns) \in Nat
      /\ \A i \in DOMAIN t.columns : t.columns[i] \in Columns
  BY <1>1
<1>3. \A c \in Columns : Plain(c) \in Columns /\ Plain(c).name = c.name /\ Free(Plain(c))
  BY DEF Columns, Free
<1>4. u = [columns |-> columns, rows |-> <<>>, indexes |-> <<>>]
  BY DEF Unconstrained
<1> HIDE DEF u, Plain
<1>5. \A i \in DOMAIN t.columns : /\ columns[i] \in Columns /\ Free(columns[i])
                                  /\ columns[i].name = t.columns[i].name
  BY <1>2, <1>3
<1>6. columns \in Seq(Columns)
  <2>1. [i \in 1 .. Len(t.columns) |-> Plain(t.columns[i])] \in Seq(Columns)
    BY <1>2, <1>3
  <2> QED BY <1>2, <2>1
<1>7. DOMAIN columns = DOMAIN t.columns
  OBVIOUS
<1> HIDE DEF columns
<1>8. u.columns = columns /\ u.rows = <<>> /\ u.indexes = <<>>
      /\ u = [columns |-> u.columns, rows |-> u.rows, indexes |-> u.indexes]
  BY <1>4
<1>9. Names(u) = Names(t) /\ NamedOnce(u.columns)
  BY <1>1, <1>5, <1>7, <1>8 DEF Names, NamedOnce
<1>10. WellFormed(u)
  BY <1>6, <1>8, <1>9 DEF WellFormed
<1> QED BY <1>5, <1>7, <1>8, <1>9, <1>10 DEF u

IsGrowth(f, t, rows, m) ==
  f = [i \in 0 .. m |-> IF i = 0 THEN t ELSE AddRow(f[i - 1], rows[i])]

LEMMA AddRowsIsGrowth ==
  ASSUME NEW t, NEW rows
  PROVE  AddRows(t, rows) = (CHOOSE f : IsGrowth(f, t, rows, Len(rows)))[Len(rows)]
BY DEF AddRows, IsGrowth

LEMMA GrowthExists ==
  ASSUME NEW t, NEW rows, NEW m \in Nat
  PROVE  \E f : IsGrowth(f, t, rows, m)
<1> DEFINE Bad == {k \in Nat : ~ \E f : IsGrowth(f, t, rows, k)}
<1>1. Bad = {}
  <2> SUFFICES ASSUME Bad # {} PROVE FALSE
    OBVIOUS
  <2>1. PICK k \in Bad : \A j \in Bad : k <= j
    <3>1. Bad \subseteq Nat
      OBVIOUS
    <3> HIDE DEF Bad
    <3> QED BY <3>1, LeastNat
  <2>2. k \in Nat /\ ~ \E f : IsGrowth(f, t, rows, k)
    OBVIOUS
  <2>3. k # 0
    <3>1. IsGrowth([j \in 0 .. 0 |-> t], t, rows, 0)
      BY DEF IsGrowth
    <3> QED BY <2>2, <3>1
  <2>4. k - 1 \in Nat /\ k - 1 \notin Bad
    <3>1. k - 1 \in Nat /\ ~(k <= k - 1)
      BY <2>2, <2>3
    <3> HIDE DEF Bad
    <3> QED BY <2>1, <3>1
  <2>5. PICK f : IsGrowth(f, t, rows, k - 1)
    BY <2>4
  <2> HIDE DEF Bad
  <2> DEFINE g == [j \in 0 .. k |-> IF j = k THEN AddRow(f[k - 1], rows[k]) ELSE f[j]]
  <2>6. \A j \in 0 .. k - 1 : f[j] = IF j = 0 THEN t ELSE AddRow(f[j - 1], rows[j])
    BY <2>5 DEF IsGrowth
  <2>7. \A j \in 0 .. k : (j # 0 => j - 1 \in 0 .. k - 1 /\ g[j - 1] = f[j - 1])
                          /\ (j # k => j \in 0 .. k - 1)
    BY <2>2, <2>3
  <2>8. ASSUME NEW j \in 0 .. k
        PROVE  (IF j = k THEN AddRow(f[k - 1], rows[k]) ELSE f[j])
                 = IF j = 0 THEN t ELSE AddRow(g[j - 1], rows[j])
    <3>1. CASE j = k
      <4>1. g[j - 1] = f[k - 1]
        BY <2>3, <2>7, <3>1
      <4> HIDE DEF g
      <4> QED BY <2>3, <3>1, <4>1
    <3>2. CASE j # k
      <4>1. j \in 0 .. k - 1 /\ (j # 0 => g[j - 1] = f[j - 1])
        BY <2>7, <3>2
      <4> HIDE DEF g
      <4> QED BY <2>6, <3>2, <4>1
    <3> QED BY <3>1, <3>2
  <2>9. IsGrowth(g, t, rows, k)
    BY <2>8 DEF IsGrowth
  <2> QED BY <2>2, <2>9
<1> QED BY <1>1

LEMMA AddRowsFacts ==
  ASSUME NEW t, WellFormed(t), \A i \in DOMAIN t.columns : Free(t.columns[i]),
         NEW rows \in Seq(RowsOf(t))
  PROVE  /\ WellFormed(AddRows(t, rows))
         /\ \A i \in DOMAIN AddRows(t, rows).columns : Free(AddRows(t, rows).columns[i])
<1> DEFINE n == Len(rows)
           f == CHOOSE h : IsGrowth(h, t, rows, n)
           Good(u) == WellFormed(u) /\ Names(u) = Names(t) /\ \A i \in DOMAIN u.columns : Free(u.columns[i])
<1>1. n \in Nat /\ \A i \in 1 .. n : rows[i] \in RowsOf(t)
  OBVIOUS
<1>2. IsGrowth(f, t, rows, n)
  BY <1>1, GrowthExists
<1>3. AddRows(t, rows) = f[n]
  BY AddRowsIsGrowth
<1> HIDE DEF n, f
<1>4. \A k \in 0 .. n : f[k] = IF k = 0 THEN t ELSE AddRow(f[k - 1], rows[k])
  BY <1>2 DEF IsGrowth
<1>5. Good(f[0])
  <2>1. f[0] = t
    BY <1>1, <1>4
  <2> QED BY <2>1
<1>6. ASSUME NEW k \in 1 .. n, Good(f[k - 1]) PROVE Good(f[k])
  <2> DEFINE u == f[k - 1]
  <2>1. f[k] = AddRow(u, rows[k])
    BY <1>1, <1>4
  <2>2. Good(u)
    BY <1>6
  <2> HIDE DEF u
  <2>3. rows[k] \in RowsOf(u)
    BY <1>1, <2>2 DEF RowsOf
  <2>4. WellFormed(f[k]) /\ SameColumns(f[k], u)
    BY <2>1, <2>2, <2>3, AddRowFacts
  <2>5. Names(f[k]) = Names(u)
    BY <2>4, SameNames
  <2>6. \A i \in DOMAIN f[k].columns : Free(f[k].columns[i])
    BY <2>2, <2>4 DEF SameColumns, Alike, Free
  <2> QED BY <2>2, <2>4, <2>5, <2>6
<1> DEFINE Bad == {k \in 0 .. n : ~Good(f[k])}
<1>7. Bad = {}
  <2> SUFFICES ASSUME Bad # {} PROVE FALSE
    OBVIOUS
  <2>1. PICK k \in Bad : \A j \in Bad : k <= j
    <3>1. Bad \subseteq Nat
      BY <1>1
    <3> HIDE DEF Bad
    <3> QED BY <3>1, LeastNat
  <2>2. k \in 0 .. n /\ ~Good(f[k])
    OBVIOUS
  <2> HIDE DEF Good
  <2>3. k # 0
    BY <1>5, <2>2
  <2>4. k \in 1 .. n /\ k - 1 \in 0 .. n /\ ~(k <= k - 1)
    BY <1>1, <2>2, <2>3
  <2>5. Good(f[k - 1])
    BY <2>1, <2>4
  <2> QED BY <1>6, <2>2, <2>4, <2>5
<1>8. Good(f[n])
  <2>1. n \in 0 .. n
    BY <1>1
  <2> HIDE DEF Good
  <2> QED BY <1>7, <2>1
<1> QED BY <1>3, <1>8

(* ALTER TABLE ... ADD COLUMN                                               *)
LEMMA AddColumnFacts ==
  ASSUME NEW t, WellFormed(t), NEW c \in ColumnNames, c \notin Names(t)
  PROVE  /\ WellFormed(WithColumn(t, c)) /\ Derived(WithColumn(t, c), t)
         /\ HoldsAll(WithColumn(t, c), t, Names(t)) /\ Names(t) \subseteq Names(WithColumn(t, c))
<1> DEFINE u == WithColumn(t, c)
           new == [name |-> c, not_null |-> FALSE, unique |-> FALSE, fk |-> None,
                   check |-> "none", null_flags |-> t.rows # <<>>]
           columns == Append(t.columns, new)
           rows == [r \in DOMAIN t.rows |-> Put(t.rows[r], c, Null)]
           n == Len(t.columns)
<1>1. u = [columns |-> columns, rows |-> rows, indexes |-> t.indexes]
  <2>1. t = [columns |-> t.columns, rows |-> t.rows, indexes |-> t.indexes]
    BY TableEquals
  <2>2. u = [t EXCEPT !.columns = columns, !.rows = rows]
    BY Zenon DEF WithColumn
  <2> HIDE DEF u, columns, rows
  <2> QED BY <2>1, <2>2
<1>2. /\ t.columns \in Seq(Columns) /\ NamedOnce(t.columns) /\ t.rows \in Seq(RowsOf(t))
      /\ t.indexes \in Seq(Indexes)
      /\ \A i \in DOMAIN t.indexes : IndexOf(t, t.indexes[i])
      /\ \A i \in DOMAIN t.columns : \A r \in DOMAIN t.rows :
           t.rows[r][t.columns[i].name] = Null => t.columns[i].null_flags
  BY TableEquals
<1>3. new \in Columns /\ Free(new) /\ new.name = c /\ (new.null_flags <=> t.rows # <<>>)
  BY DEF Columns, Free
<1>4. /\ columns \in Seq(Columns) /\ DOMAIN columns = 1 .. n + 1 /\ DOMAIN t.columns = 1 .. n
      /\ columns[n + 1] = new /\ \A i \in 1 .. n : columns[i] = t.columns[i]
      /\ n \in Nat
  BY <1>2, <1>3
<1>5. DOMAIN rows = DOMAIN t.rows /\ \A r \in DOMAIN t.rows : rows[r] = Put(t.rows[r], c, Null)
  OBVIOUS
<1> HIDE DEF u, new, columns, rows, n
<1>6. u.columns = columns /\ u.rows = rows /\ u.indexes = t.indexes
  BY <1>1
<1>7. \A i \in DOMAIN t.columns : t.columns[i].name \in Names(t) /\ t.columns[i].name # c
  BY DEF Names
<1>8. Names(u) = Names(t) \cup {c}
  <2>1. ASSUME NEW k \in Names(u) PROVE k \in Names(t) \cup {c}
    <3>1. PICK i \in 1 .. n + 1 : k = columns[i].name
      BY <1>4, <1>6 DEF Names
    <3>2. CASE i = n + 1
      BY <1>3, <1>4, <3>1, <3>2
    <3>3. CASE i # n + 1
      <4>1. i \in DOMAIN t.columns /\ columns[i] = t.columns[i]
        BY <1>4, <3>3
      <4> QED BY <1>7, <3>1, <4>1
    <3> QED BY <3>2, <3>3
  <2>2. c \in Names(u)
    <3>1. n + 1 \in DOMAIN columns
      BY <1>4
    <3> QED BY <1>3, <1>4, <1>6, <3>1 DEF Names
  <2>3. ASSUME NEW k \in Names(t) PROVE k \in Names(u)
    <3>1. PICK i \in DOMAIN t.columns : k = t.columns[i].name
      BY DEF Names
    <3>2. i \in DOMAIN columns /\ columns[i] = t.columns[i]
      BY <1>4
    <3> QED BY <1>6, <3>1, <3>2 DEF Names
  <2> QED BY <2>1, <2>2, <2>3
<1>9. NamedOnce(columns)
  <2> SUFFICES ASSUME NEW i \in 1 .. n + 1, NEW j \in 1 .. n + 1, columns[i].name = columns[j].name
               PROVE  i = j
    BY <1>4 DEF NamedOnce
  <2>1. ASSUME NEW k \in 1 .. n + 1, k # n + 1
        PROVE  k \in DOMAIN t.columns /\ columns[k] = t.columns[k] /\ columns[k].name # c
    BY <1>4, <1>7, <2>1
  <2>2. columns[n + 1].name = c
    BY <1>3, <1>4
  <2> QED BY <1>2, <2>1, <2>2 DEF NamedOnce
<1>10. \A r \in DOMAIN t.rows : /\ rows[r] \in RowsOf(u) /\ rows[r][c] = Null
                                /\ \A k \in Names(t) : rows[r][k] = t.rows[r][k]
  <2> TAKE r \in DOMAIN t.rows
  <2>1. t.rows[r] \in [Names(t) -> Values \cup {Null}]
    BY <1>2 DEF RowsOf
  <2>2. rows[r] = [z \in Names(t) \cup {c} |-> IF z = c THEN Null ELSE t.rows[r][z]]
    BY <1>5, <2>1 DEF Put
  <2>3. rows[r] \in [Names(t) \cup {c} -> Values \cup {Null}]
    BY <2>1, <2>2
  <2> QED BY <1>8, <2>2, <2>3 DEF RowsOf
<1>11. u.rows \in Seq(RowsOf(u))
  <2>1. DOMAIN t.rows = 1 .. Len(t.rows) /\ Len(t.rows) \in Nat
    BY <1>2
  <2>2. rows = [r \in 1 .. Len(t.rows) |-> rows[r]] /\ \A r \in 1 .. Len(t.rows) : rows[r] \in RowsOf(u)
    BY <1>5, <1>10, <2>1 DEF rows
  <2> DEFINE S == RowsOf(u)
  <2>3. [r \in 1 .. Len(t.rows) |-> rows[r]] \in Seq(S)
    <3>1. \A r \in 1 .. Len(t.rows) : rows[r] \in S
      BY <2>2
    <3> HIDE DEF S
    <3> QED BY <2>1, <3>1
  <2> QED BY <1>6, <2>2, <2>3
<1>12. \A k \in Names(t) : Keys(u, k) = Keys(t, k)
  BY <1>5, <1>6, <1>10 DEF Keys
<1>13. \A i \in DOMAIN u.indexes : IndexOf(u, u.indexes[i])
  BY <1>2, <1>6, <1>8, <1>12 DEF IndexOf
<1>14. \A i \in DOMAIN u.columns : \A r \in DOMAIN u.rows :
         u.rows[r][u.columns[i].name] = Null => u.columns[i].null_flags
  <2> SUFFICES ASSUME NEW i \in 1 .. n + 1, NEW r \in DOMAIN t.rows, rows[r][columns[i].name] = Null
               PROVE  columns[i].null_flags
    BY <1>4, <1>5, <1>6
  <2>1. CASE i = n + 1
    <3>1. t.rows # <<>>
      BY <1>2
    <3> QED BY <1>3, <1>4, <2>1, <3>1
  <2>2. CASE i # n + 1
    <3>1. i \in DOMAIN t.columns /\ columns[i] = t.columns[i] /\ t.columns[i].name \in Names(t)
      BY <1>4, <1>7, <2>2
    <3> QED BY <1>2, <1>10, <3>1
  <2> QED BY <2>1, <2>2
<1>15. WellFormed(u)
  <2>1. u = [columns |-> u.columns, rows |-> u.rows, indexes |-> u.indexes]
    BY <1>1
  <2> QED BY <1>2, <1>4, <1>6, <1>9, <1>11, <1>13, <1>14, <2>1 DEF WellFormed
<1>16. Derived(u, t)
  <2> DEFINE g == [r \in DOMAIN u.rows |-> r]
  <2>1. \A r \in DOMAIN u.rows : g[r] = r
    OBVIOUS
  <2> HIDE DEF g
  <2>2. ASSUME NEW i \in DOMAIN u.columns
        PROVE  \/ Free(u.columns[i])
               \/ \E j \in DOMAIN t.columns :
                   /\ Inherits(u.columns[i], t.columns[j])
                   /\ \A r \in DOMAIN u.rows :
                        u.rows[r][t.columns[j].name] = t.rows[g[r]][t.columns[j].name]
    <3>1. CASE i = n + 1
      BY <1>3, <1>4, <1>6, <3>1
    <3>2. CASE i # n + 1
      <4>1. i \in DOMAIN t.columns /\ u.columns[i] = t.columns[i] /\ t.columns[i].name \in Names(t)
        BY <1>4, <1>6, <1>7, <3>2
      <4>2. \A r \in DOMAIN u.rows : u.rows[r][t.columns[i].name] = t.rows[g[r]][t.columns[i].name]
        BY <1>5, <1>6, <1>10, <2>1, <4>1
      <4> QED BY <4>1, <4>2, InheritsItself
    <3> QED BY <3>1, <3>2
  <2>3. \A r \in DOMAIN u.rows : g[r] \in DOMAIN t.rows
    BY <1>5, <1>6, <2>1
  <2> QED BY <2>1, <2>2, <2>3, SMTT(60) DEF Derived
<1>17. HoldsAll(u, t, Names(t))
  BY <1>5, <1>6, <1>10 DEF HoldsAll, Holds
<1> QED BY <1>8, <1>15, <1>16, <1>17 DEF u

LEMMA WithoutColumnFacts ==
  ASSUME NEW t, WellFormed(t), NEW c \in Names(t)
  PROVE  /\ WellFormed(WithoutColumn(t, c)) /\ Names(WithoutColumn(t, c)) = Names(t) \ {c}
         /\ Derived(WithoutColumn(t, c), t) /\ HoldsAll(WithoutColumn(t, c), t, Names(t) \ {c})
<1> DEFINE u == WithoutColumn(t, c)
           columns == RemoveFirstMatch(t.columns, LAMBDA k : k.name = c)
           rows == [r \in DOMAIN t.rows |-> [k \in Names(t) \ {c} |-> t.rows[r][k]]]
           indexes == IndexesWithout(t.indexes, c)
           S == {i \in 1 .. Len(t.columns) : t.columns[i].name = c}
<1>1. u = [columns |-> columns, rows |-> rows, indexes |-> indexes]
  BY Zenon DEF WithoutColumn
<1>2. /\ t.columns \in Seq(Columns) /\ NamedOnce(t.columns) /\ t.rows \in Seq(RowsOf(t))
      /\ t.indexes \in Seq(Indexes)
      /\ \A i \in DOMAIN t.indexes : IndexOf(t, t.indexes[i])
      /\ \A i \in DOMAIN t.columns : \A r \in DOMAIN t.rows :
           t.rows[r][t.columns[i].name] = Null => t.columns[i].null_flags
  BY TableEquals
<1>3. PICK p \in 1 .. Len(t.columns) : t.columns[p].name = c /\ columns = RemoveAt(t.columns, p)
  <2>1. S # {}
    BY <1>2 DEF Names
  <2>2. columns = RemoveAt(t.columns, Min(S))
    BY <2>1 DEF RemoveFirstMatch, SelectInSeq
  <2>3. Min(S) \in S
    <3>1. S \subseteq Nat
      OBVIOUS
    <3> HIDE DEF S
    <3> QED BY <2>1, <3>1, LeastNat
  <2> QED BY <2>2, <2>3
<1>4. DOMAIN t.columns = 1 .. Len(t.columns)
  BY <1>2
<1>5. /\ columns \in Seq(Columns)
      /\ \A i \in DOMAIN columns : \E j \in DOMAIN t.columns :
           j # p /\ (j = IF i < p THEN i ELSE i + 1) /\ columns[i] = t.columns[j]
      /\ \A j \in DOMAIN t.columns : j # p => \E i \in DOMAIN columns : columns[i] = t.columns[j]
  <2>1. columns = RemoveAt(t.columns, p)
    BY <1>3
  <2> DEFINE s == t.columns
  <2>2. s \in Seq(Columns) /\ p \in 1 .. Len(s)
    BY <1>2, <1>3
  <2> HIDE DEF s
  <2> DEFINE w == RemoveAt(s, p)
  <2>3. /\ w \in Seq(Columns)
        /\ \A i \in DOMAIN w : \E j \in DOMAIN s :
             j # p /\ (j = IF i < p THEN i ELSE i + 1) /\ w[i] = s[j]
        /\ \A j \in DOMAIN s : j # p => \E i \in DOMAIN w : w[i] = s[j]
    BY <2>2, RemoveFirstMatchFacts
  <2>4. columns = w
    BY <2>1 DEF s
  <2> HIDE DEF w, columns
  <2> QED BY <2>3, <2>4 DEF s
<1>6. DOMAIN rows = DOMAIN t.rows
      /\ \A r \in DOMAIN t.rows : rows[r] = [k \in Names(t) \ {c} |-> t.rows[r][k]]
  OBVIOUS
<1>7. /\ indexes \in Seq(Indexes)
      /\ \A i \in DOMAIN indexes : \E j \in DOMAIN t.indexes :
           indexes[i] = t.indexes[j] /\ t.indexes[j].column # c
  BY <1>2, IndexesWithoutFacts
<1> HIDE DEF u, columns, rows, indexes, S
<1>8. u.columns = columns /\ u.rows = rows /\ u.indexes = indexes
      /\ u = [columns |-> u.columns, rows |-> u.rows, indexes |-> u.indexes]
  BY <1>1
<1>9. \A j \in DOMAIN t.columns : t.columns[j].name = c => j = p
  BY <1>2, <1>3, <1>4 DEF NamedOnce
<1>10. \A i \in DOMAIN columns : \E j \in DOMAIN t.columns :
         columns[i] = t.columns[j] /\ columns[i].name \in Names(t) \ {c}
  BY <1>5, <1>9 DEF Names
<1>11. Names(u) = Names(t) \ {c}
  <2>1. ASSUME NEW k \in Names(u) PROVE k \in Names(t) \ {c}
    BY <1>8, <1>10 DEF Names
  <2>2. ASSUME NEW k \in Names(t), k # c PROVE k \in Names(u)
    <3>1. PICK j \in DOMAIN t.columns : t.columns[j].name = k
      BY DEF Names
    <3>2. PICK i \in DOMAIN columns : columns[i] = t.columns[j]
      BY <1>3, <1>5, <2>2, <3>1
    <3> QED BY <1>8, <3>1, <3>2 DEF Names
  <2> QED BY <2>1, <2>2
<1>12. NamedOnce(columns)
  <2> SUFFICES ASSUME NEW i \in DOMAIN columns, NEW k \in DOMAIN columns, columns[i].name = columns[k].name
               PROVE  i = k
    BY DEF NamedOnce
  <2>1. PICK a \in DOMAIN t.columns : (a = IF i < p THEN i ELSE i + 1) /\ columns[i] = t.columns[a]
    BY <1>5
  <2>2. PICK b \in DOMAIN t.columns : (b = IF k < p THEN k ELSE k + 1) /\ columns[k] = t.columns[b]
    BY <1>5
  <2>3. a = b
    BY <1>2, <2>1, <2>2 DEF NamedOnce
  <2>4. i \in Nat /\ k \in Nat
    <3>1. columns \in Seq(Columns)
      BY <1>5
    <3>2. DOMAIN columns = 1 .. Len(columns)
      BY <3>1
    <3> QED BY <3>1, <3>2
  <2> QED BY <2>1, <2>2, <2>3, <2>4
<1>13. \A r \in DOMAIN t.rows : /\ rows[r] \in RowsOf(u)
                                /\ \A k \in Names(t) \ {c} : rows[r][k] = t.rows[r][k]
  <2> TAKE r \in DOMAIN t.rows
  <2>1. t.rows[r] \in [Names(t) -> Values \cup {Null}]
    BY <1>2 DEF RowsOf
  <2>2. rows[r] \in [Names(t) \ {c} -> Values \cup {Null}]
    BY <1>6, <2>1
  <2> QED BY <1>6, <1>11, <2>2 DEF RowsOf
<1>14. u.rows \in Seq(RowsOf(u))
  <2>1. DOMAIN t.rows = 1 .. Len(t.rows) /\ Len(t.rows) \in Nat
    BY <1>2
  <2> DEFINE R == RowsOf(u)
  <2>2. \A r \in 1 .. Len(t.rows) : rows[r] \in R
    BY <1>13, <2>1
  <2>3. rows = [r \in 1 .. Len(t.rows) |-> rows[r]]
    BY <2>1 DEF rows
  <2> HIDE DEF R
  <2>4. [r \in 1 .. Len(t.rows) |-> rows[r]] \in Seq(R)
    BY <2>1, <2>2
  <2> QED BY <1>8, <2>3, <2>4 DEF R
<1>15. \A k \in Names(t) \ {c} : Keys(u, k) = Keys(t, k)
  BY <1>6, <1>8, <1>13 DEF Keys
<1>16. \A i \in DOMAIN u.indexes : IndexOf(u, u.indexes[i])
  <2> TAKE i \in DOMAIN u.indexes
  <2>1. PICK j \in DOMAIN t.indexes : u.indexes[i] = t.indexes[j] /\ t.indexes[j].column # c
    BY <1>7, <1>8
  <2>2. IndexOf(t, t.indexes[j])
    BY <1>2
  <2> QED BY <1>11, <1>15, <2>1, <2>2 DEF IndexOf
<1>17. \A i \in DOMAIN u.columns : \A r \in DOMAIN u.rows :
         u.rows[r][u.columns[i].name] = Null => u.columns[i].null_flags
  <2> SUFFICES ASSUME NEW i \in DOMAIN columns, NEW r \in DOMAIN t.rows, rows[r][columns[i].name] = Null
               PROVE  columns[i].null_flags
    BY <1>6, <1>8
  <2>1. PICK j \in DOMAIN t.columns : columns[i] = t.columns[j] /\ columns[i].name \in Names(t) \ {c}
    BY <1>10
  <2> QED BY <1>2, <1>13, <2>1
<1>18. WellFormed(u)
  BY <1>5, <1>7, <1>8, <1>12, <1>14, <1>16, <1>17 DEF WellFormed
<1>19. Derived(u, t)
  <2> DEFINE g == [r \in DOMAIN u.rows |-> r]
  <2>1. \A r \in DOMAIN u.rows : g[r] = r
    OBVIOUS
  <2> HIDE DEF g
  <2>2. ASSUME NEW i \in DOMAIN u.columns
        PROVE  \E j \in DOMAIN t.columns :
                 /\ Inherits(u.columns[i], t.columns[j])
                 /\ \A r \in DOMAIN u.rows :
                      u.rows[r][t.columns[j].name] = t.rows[g[r]][t.columns[j].name]
    <3>1. PICK j \in DOMAIN t.columns : columns[i] = t.columns[j] /\ columns[i].name \in Names(t) \ {c}
      BY <1>8, <1>10
    <3>2. \A r \in DOMAIN u.rows : u.rows[r][t.columns[j].name] = t.rows[g[r]][t.columns[j].name]
      BY <1>6, <1>8, <1>13, <2>1, <3>1
    <3> QED BY <1>8, <3>1, <3>2, InheritsItself
  <2>3. \A r \in DOMAIN u.rows : g[r] \in DOMAIN t.rows
    BY <1>6, <1>8, <2>1
  <2> QED BY <2>1, <2>2, <2>3 DEF Derived
<1>20. HoldsAll(u, t, Names(t) \ {c})
  BY <1>6, <1>8, <1>13 DEF HoldsAll, Holds
<1> QED BY <1>11, <1>18, <1>19, <1>20 DEF u

-------------------------------------------------------------------------------
(* The rows that a WHERE finds.                                            *)

LEMMA ColumnOfFacts ==
  ASSUME NEW t, WellFormed(t), NEW c \in Names(t)
  PROVE  \E i \in DOMAIN t.columns : ColumnOf(t, c) = t.columns[i] /\ t.columns[i].name = c
BY DEF ColumnOf, Names

(* qe_index_leaf_range: an index that may be used finds the rows of a       *)
(* comparison.                                                             *)
LEMMA IndexRowsFacts ==
  ASSUME NEW t, WellFormed(t), NEW leaf \in Comparisons(t), Indexed(t, leaf)
  PROVE  IndexRows(t, leaf) = {r \in DOMAIN t.rows : Satisfies(t.rows[r][leaf.column], leaf)}
<1> DEFINE c == leaf.column
           n == Len(t.rows)
           keys == Keys(t, c)
           S == {i \in 1 .. Len(t.indexes) : t.indexes[i].column = c}
<1>1. /\ t.rows \in Seq(RowsOf(t)) /\ t.indexes \in Seq(Indexes)
      /\ \A i \in DOMAIN t.indexes : IndexOf(t, t.indexes[i])
      /\ \A i \in DOMAIN t.columns : \A r \in DOMAIN t.rows :
           t.rows[r][t.columns[i].name] = Null => t.columns[i].null_flags
  BY TableEquals
<1>2. c \in Names(t) /\ leaf.op \in {"=", "<", ">="} /\ leaf.value \in Values
  BY DEF Comparisons
<1>3. n \in Nat /\ DOMAIN t.rows = 1 .. n
  BY <1>1
<1>4. \A r \in 1 .. n : t.rows[r][c] \in Values /\ t.rows[r][c] # Null
  <2> TAKE r \in 1 .. n
  <2>1. t.rows[r][c] \in Values \cup {Null}
    BY <1>2, <1>3, RowFacts
  <2>2. PICK i \in DOMAIN t.columns : ColumnOf(t, c) = t.columns[i] /\ t.columns[i].name = c
    BY <1>2, ColumnOfFacts
  <2>3. ~t.columns[i].null_flags
    BY <2>2 DEF Indexed
  <2>4. t.rows[r][c] # Null
    BY <1>1, <1>3, <2>2, <2>3
  <2> QED BY <2>1, <2>4
<1>5. /\ keys \in Seq(Int) /\ Len(keys) = n
      /\ \A r \in 1 .. n : keys[r] = t.rows[r][c]
  <2>1. \A r \in 1 .. n : t.rows[r][c] \in Values \cup {Null}
    BY <1>4
  <2> HIDE DEF c, n
  <2>2. /\ keys \in Seq(Int) /\ Len(keys) = n
        /\ \A r \in 1 .. n : keys[r] = IF t.rows[r][c] = Null THEN 0 ELSE t.rows[r][c]
    BY <1>3, <2>1, KeysFacts
  <2> QED BY <1>4, <2>2
<1>6. PICK p \in DOMAIN t.indexes : t.indexes[p].column = c /\ IndexOn(t, c) = t.indexes[p]
  <2>1. S # {}
    BY <1>1 DEF Indexed
  <2>2. Min(S) \in S
    <3>1. S \subseteq Nat
      OBVIOUS
    <3> HIDE DEF S
    <3> QED BY <2>1, <3>1, LeastNat
  <2>3. IndexOn(t, c) = t.indexes[Min(S)]
    BY <2>1 DEF IndexOn, SelectInSeq
  <2> DEFINE m == Min(S)
  <2>4. m \in 1 .. Len(t.indexes) /\ t.indexes[m].column = c
    BY <2>2
  <2>5. DOMAIN t.indexes = 1 .. Len(t.indexes)
    BY <1>1
  <2> HIDE DEF m, c, S
  <2> QED BY <2>3, <2>4, <2>5 DEF m
<1> DEFINE order == t.indexes[p].order
<1>7. order \in Seq(Nat) /\ Sorted(order, keys)
  <2>1. t.indexes[p] \in Indexes
    BY <1>1
  <2>2. IndexOf(t, t.indexes[p])
    BY <1>1
  <2> QED BY <1>6, <2>1, <2>2 DEF Indexes, IndexOf
<1>8. IndexRows(t, leaf) = {order[i] : i \in Slice(order, keys, leaf.op, leaf.value)}
  BY <1>6 DEF IndexRows
<1>9. leaf.value \in Int /\ Values \subseteq Int
  BY <1>2, StatementsAssumption
<1> HIDE DEF order, keys, c, n, S
<1>10. /\ \A i \in Slice(order, keys, leaf.op, leaf.value) :
             order[i] \in DOMAIN keys /\ Compared(leaf.op, keys[order[i]], leaf.value)
       /\ \A r \in DOMAIN keys : Compared(leaf.op, keys[r], leaf.value) =>
             \E i \in Slice(order, keys, leaf.op, leaf.value) : order[i] = r
  <2> DEFINE op == leaf.op
             v == leaf.value
  <2>1. op \in Operators /\ v \in Int
    BY <1>2, <1>9 DEF Operators
  <2> HIDE DEF op, v
  <2>2. /\ \A i \in Slice(order, keys, op, v) :
             order[i] \in DOMAIN keys /\ Compared(op, keys[order[i]], v)
        /\ \A r \in DOMAIN keys :
             Compared(op, keys[r], v) => \E i \in Slice(order, keys, op, v) : order[i] = r
    BY <1>5, <1>7, <2>1, SliceFinds
  <2> QED BY <2>2 DEF op, v
<1>11. DOMAIN keys = 1 .. n
  BY <1>5
<1>12. ASSUME NEW r \in 1 .. n
       PROVE  Compared(leaf.op, keys[r], leaf.value) <=> Satisfies(t.rows[r][c], leaf)
  BY <1>2, <1>4, <1>5 DEF Compared, Satisfies
<1> QED BY <1>3, <1>8, <1>10, <1>11, <1>12 DEF c

(* qe_index_narrow_and_filter, qe_cpu_scan_filter: a WHERE finds the rows   *)
(* it is true of, through an index or without.                             *)
THEOREM ScanFinds ==
  ASSUME NEW t, WellFormed(t), NEW where \in Conditions(t)
  PROVE  Scan(t, where) = {r \in DOMAIN t.rows : Matches(t.rows[r], where)}
<1> DEFINE S == {i \in 1 .. Len(where) : Indexed(t, where[i])}
           usable == SelectInSeq(where, LAMBDA leaf : Indexed(t, leaf))
<1>1. where \in Seq(Comparisons(t))
  <2> DEFINE C == Comparisons(t)
  <2>1. where \in {<<>>} \cup {<<a>> : a \in C}
                  \cup {<<a, b>> : a \in {l \in C : l.op = ">="}, b \in {l \in C : l.op = "<"}}
    BY DEF Conditions
  <2> HIDE DEF C
  <2>2. \A a \in C : <<a>> \in Seq(C)
    OBVIOUS
  <2>3. \A a, b \in C : <<a, b>> \in Seq(C)
    OBVIOUS
  <2>4. <<>> \in Seq(C)
    OBVIOUS
  <2>5. \/ where = <<>>
        \/ \E a \in C : where = <<a>>
        \/ \E a, b \in C : where = <<a, b>>
    BY <2>1
  <2> QED BY <2>2, <2>3, <2>4, <2>5 DEF C
<1>2. Len(where) \in Nat /\ DOMAIN where = 1 .. Len(where)
      /\ \A i \in 1 .. Len(where) : where[i] \in Comparisons(t)
  BY <1>1
<1>3. CASE S = {}
  <2>1. usable = 0
    BY <1>3 DEF SelectInSeq
  <2> QED BY <2>1 DEF Scan
<1>4. CASE S # {}
  <2>1. usable = Min(S)
    BY <1>4 DEF SelectInSeq
  <2>2. Min(S) \in S
    <3>1. S \subseteq Nat
      OBVIOUS
    <3> HIDE DEF S
    <3> QED BY <1>4, <3>1, LeastNat
  <2>3. usable \in 1 .. Len(where) /\ Indexed(t, where[usable])
    BY <2>1, <2>2
  <2>4. Scan(t, where) = IF usable = 0 THEN {r \in DOMAIN t.rows : Matches(t.rows[r], where)}
                         ELSE IF Len(where) = 1 THEN IndexRows(t, where[1])
                         ELSE {r \in IndexRows(t, where[usable]) : Matches(t.rows[r], where)}
    BY DEF Scan
  <2> HIDE DEF usable, S
  <2> DEFINE k == usable
  <2>5. IndexRows(t, where[k]) = {r \in DOMAIN t.rows : Satisfies(t.rows[r][where[k].column], where[k])}
    BY <1>2, <2>3, IndexRowsFacts
  <2>6. \A r \in DOMAIN t.rows :
          Matches(t.rows[r], where) => Satisfies(t.rows[r][where[k].column], where[k])
    BY <1>2, <2>3 DEF Matches
  <2>7. CASE Len(where) = 1
    <3>1. k = 1 /\ DOMAIN where = {1}
      BY <1>2, <2>3, <2>7
    <3>2. \A r \in DOMAIN t.rows :
            Matches(t.rows[r], where) <=> Satisfies(t.rows[r][where[1].column], where[1])
      BY <3>1 DEF Matches
    <3> QED BY <2>3, <2>4, <2>5, <2>7, <3>1, <3>2
  <2>8. CASE Len(where) # 1
    <3>1. k # 0
      BY <2>3
    <3> QED BY <2>4, <2>5, <2>6, <2>8, <3>1
  <2> QED BY <2>7, <2>8
<1> QED BY <1>3, <1>4

-------------------------------------------------------------------------------
(* The shape of a state: what is in memory and what is on disk are tables.  *)

Structured(tables) ==
  /\ tables = [n \in DOMAIN tables |-> tables[n]] /\ DOMAIN tables \subseteq TableNames
  /\ \A n \in DOMAIN tables : WellFormed(tables[n])
StructInv ==
  /\ mem = [d \in DOMAIN mem |-> mem[d]] /\ DOMAIN mem \subseteq Databases
  /\ \A d \in DOMAIN mem : Structured(mem[d])
  /\ disk = [d \in Databases |-> disk[d]]
  /\ \A d \in Databases : Structured(disk[d])
  /\ IF current = None THEN DOMAIN mem = {} ELSE current \in DOMAIN mem

LEMMA StructuredWith ==
  ASSUME NEW tables, Structured(tables), NEW n \in DOMAIN tables, NEW u, WellFormed(u)
  PROVE  Structured([tables EXCEPT ![n] = u])
BY DEF Structured

LEMMA StructuredPut ==
  ASSUME NEW tables, Structured(tables), NEW n \in TableNames, NEW u, WellFormed(u)
  PROVE  Structured(Put(tables, n, u))
BY DEF Structured, Put

(* What a query's end leaves of the tables in memory, and what it writes.   *)
Relabelling(tables) == [n \in DOMAIN tables |-> Released(tables[n])]
Merged(tables, old) ==
  [n \in DOMAIN tables \cup DOMAIN old |-> IF n \in DOMAIN tables THEN Saved(tables[n]) ELSE old[n]]

LEMMA ReleasedFacts ==
  ASSUME NEW t, WellFormed(t)
  PROVE  /\ WellFormed(Released(t)) /\ WellFormed(Saved(t))
         /\ Names(Released(t)) = Names(t) /\ Names(Saved(t)) = Names(t)
         /\ Derived(Released(t), t) /\ Derived(Saved(t), t)
         /\ HoldsAll(Released(t), t, Names(t)) /\ HoldsAll(Saved(t), t, Names(t))
<1>1. "none" \notin {"query"} /\ "none" \notin {"query", "freed"}
  OBVIOUS
<1> DEFINE a == {"query"}
           b == {"query", "freed"}
<1>2. Released(t) = WithCheck(t, a, "freed") /\ Saved(t) = WithCheck(t, b, "text")
  BY DEF Released, Saved
<1>3. "none" \notin a /\ "none" \notin b
  BY <1>1
<1> HIDE DEF a, b
<1>4. /\ WellFormed(WithCheck(t, a, "freed")) /\ Names(WithCheck(t, a, "freed")) = Names(t)
      /\ Derived(WithCheck(t, a, "freed"), t) /\ HoldsAll(WithCheck(t, a, "freed"), t, Names(t))
  BY <1>3, WithCheckFacts
<1>5. /\ WellFormed(WithCheck(t, b, "text")) /\ Names(WithCheck(t, b, "text")) = Names(t)
      /\ Derived(WithCheck(t, b, "text"), t) /\ HoldsAll(WithCheck(t, b, "text"), t, Names(t))
  BY <1>3, WithCheckFacts
<1> QED BY <1>2, <1>4, <1>5

LEMMA StructuredRelabelling ==
  ASSUME NEW tables, Structured(tables)
  PROVE  Structured(Relabelling(tables))
BY ReleasedFacts DEF Structured, Relabelling

LEMMA StructuredMerged ==
  ASSUME NEW tables, Structured(tables), NEW old, Structured(old)
  PROVE  Structured(Merged(tables, old))
BY ReleasedFacts DEF Structured, Merged

LEMMA DoneFacts ==
  ASSUME StructInv, Done
  PROVE  /\ mem' = [d \in DOMAIN mem |-> Relabelling(mem[d])]
         /\ disk' = [d \in Databases |-> IF d = current THEN Merged(mem[d], disk[d]) ELSE disk[d]]
         /\ current' = current /\ at' = "idle"
<1>1. mem' = [d \in DOMAIN mem |-> Relabelling(mem[d])] /\ current' = current /\ at' = "idle" /\ Save
  BY DEF Done, AllReleased, Relabelling
<1>2. disk = [d \in Databases |-> disk[d]] /\ None \notin Databases
  BY StatementsAssumption DEF StructInv
<1>3. CASE current = None
  <2>1. disk' = disk
    BY <1>1, <1>3 DEF Save
  <2> QED BY <1>1, <1>2, <1>3, <2>1
<1>4. CASE current # None
  <2>1. current \in DOMAIN mem /\ current \in Databases
    BY <1>4 DEF StructInv
  <2>2. disk' = [disk EXCEPT ![current] = Merged(mem[current], disk[current])]
    BY <1>1, <1>4, Zenon DEF Save, Merged
  <2> HIDE DEF Merged
  <2> QED BY <1>1, <1>2, <2>1, <2>2
<1> QED BY <1>3, <1>4

LEMMA SetTablesFacts ==
  ASSUME StructInv, current # None, NEW tables, SetTables(tables)
  PROVE  /\ current \in DOMAIN mem /\ current \in Databases
         /\ mem' = [d \in DOMAIN mem |-> IF d = current THEN tables ELSE mem[d]]
         /\ disk' = disk /\ current' = current /\ at' = at
<1>1. current \in DOMAIN mem /\ current \in Databases /\ mem = [d \in DOMAIN mem |-> mem[d]]
  BY DEF StructInv
<1>2. mem' = [mem EXCEPT ![current] = tables] /\ disk' = disk /\ current' = current /\ at' = at
  BY DEF SetTables
<1> QED BY <1>1, <1>2

(* What a statement makes of table n, other than a table of a new name:     *)
(* indexes are changed or a column is added; a column is removed; a row is  *)
(* added; rows are removed; the table is replaced.                          *)
Reworked(n, u) ==
  /\ Derived(u, Tables[n]) /\ Names(Tables[n]) \subseteq Names(u)
  /\ HoldsAll(u, Tables[n], Names(Tables[n]))
Narrowed(n, u) ==
  \E c \in Names(Tables[n]) :
    /\ NotReferenced(n, {c}) /\ Names(u) = Names(Tables[n]) \ {c}
    /\ Derived(u, Tables[n]) /\ HoldsAll(u, Tables[n], Names(Tables[n]) \ {c})
Lengthened(n, u) ==
  \E row \in RowsOf(Tables[n]) :
    /\ TRUE \in Validations(Tables, Tables[n], row)
    /\ "freed" \notin Histories =>
         \A i \in DOMAIN Tables[n].columns : Tables[n].columns[i].check # "freed"
    /\ SameColumns(u, Tables[n]) /\ u.rows = Append(Tables[n].rows, row)
Reduced(n, u) ==
  \E found : /\ ~ \E r \in found : Referenced(Tables, n, r)
             /\ u.columns = Tables[n].columns
             /\ \E g : Keeps(g, u, Tables[n], DOMAIN Tables[n].rows \ found)
Replaced(n, u) ==
  NotReferenced(n, Names(Tables[n])) /\ \A i \in DOMAIN u.columns : Free(u.columns[i])
Rewritten(n, u) ==
  Reworked(n, u) \/ Narrowed(n, u) \/ Lengthened(n, u) \/ Reduced(n, u) \/ Replaced(n, u)

LEMMA OnTablesShape ==
  ASSUME StructInv, OnTables
  PROVE  /\ at = "open"
         /\ \/ \E n, u : OnTable(n) /\ WellFormed(u) /\ Rewritten(n, u) /\ SetTable(n, u)
            \/ \E n \in TableNames : \E schema \in Schemas[n].tables : CreateTable(n, schema)
            \/ \E n \in TableNames : \E new \in TableNames : Rename(n, new)
            \/ Rejected
            \/ UNCHANGED <<mem, disk, current, at>>
<1> DEFINE Goal == \E n, u : OnTable(n) /\ WellFormed(u) /\ Rewritten(n, u) /\ SetTable(n, u)
<1>1. PICK n \in TableNames :
        \/ \E schema \in Schemas[n].tables : CreateTable(n, schema)
        \/ \E c \in Schemas[n].added : AddColumn(n, c)
        \/ \E x \in IndexNames : DropIndex(n, x)
        \/ \E new \in TableNames : Rename(n, new)
        \/ OnTable(n) /\ \E c \in Names(Tables[n]) :
             DropColumn(n, c) \/ \E x \in IndexNames : CreateIndex(n, x, c)
        \/ OnTable(n) /\ \E row \in RowsOf(Tables[n]) : Insert(n, row)
        \/ OnTable(n) /\ \E rows \in BoundedSeq(RowsOf(Tables[n]), MaxFile) : Import(n, rows)
        \/ OnTable(n) /\ \E where \in Conditions(Tables[n]) : Delete(n, where)
  BY Zenon DEF OnTables
<1> DEFINE t == Tables[n]
<1>2. at = "open"
  <2>1. OnTable(n) => at = "open"
    BY DEF OnTable, Statement
  <2> QED BY <1>1, <2>1, Zenon DEF CreateTable, Statement, AddColumn, DropIndex, Rename
<1>3. OnTable(n) => WellFormed(t)
  BY DEF OnTable, StructInv, Structured, Tables
<1> HIDE DEF Goal
<1>4. ASSUME NEW u, OnTable(n), WellFormed(u), Rewritten(n, u), SetTable(n, u) PROVE Goal
  BY <1>4, Zenon DEF Goal
<1> HIDE DEF t
<1>5. ASSUME NEW c \in Schemas[n].added, AddColumn(n, c) PROVE Goal
  <2>1. OnTable(n) /\ c \in ColumnNames /\ c \notin Names(t) /\ SetTable(n, WithColumn(t, c))
    BY <1>5, StatementsAssumption DEF AddColumn, t
  <2>2. WellFormed(WithColumn(t, c)) /\ Derived(WithColumn(t, c), t)
        /\ HoldsAll(WithColumn(t, c), t, Names(t)) /\ Names(t) \subseteq Names(WithColumn(t, c))
    BY <1>3, <2>1, AddColumnFacts
  <2> QED BY <1>4, <2>1, <2>2 DEF Rewritten, Reworked, t
<1>6. ASSUME NEW x \in IndexNames, DropIndex(n, x) PROVE Goal
  <2> DEFINE u == WithoutIndex(t, x)
  <2>1. OnTable(n) /\ SetTable(n, u)
    BY <1>6 DEF DropIndex, t
  <2>2. WellFormed(t) /\ u = WithoutIndex(t, x)
    BY <1>3, <2>1
  <2> HIDE DEF u
  <2>3. WellFormed(u) /\ u.columns = t.columns /\ Derived(u, t) /\ HoldsAll(u, t, Names(t))
    BY <2>2, DropIndexFacts
  <2>4. Names(u) = Names(t)
    BY <2>3 DEF Names
  <2> QED BY <1>4, <2>1, <2>3, <2>4 DEF Rewritten, Reworked, t
<1>7. ASSUME OnTable(n), NEW c \in Names(t), DropColumn(n, c) PROVE Goal
  <2>1. NotReferenced(n, {c}) /\ SetTable(n, WithoutColumn(t, c))
    BY <1>7 DEF DropColumn, t
  <2>2. /\ WellFormed(WithoutColumn(t, c)) /\ Names(WithoutColumn(t, c)) = Names(t) \ {c}
        /\ Derived(WithoutColumn(t, c), t) /\ HoldsAll(WithoutColumn(t, c), t, Names(t) \ {c})
    BY <1>3, <1>7, WithoutColumnFacts
  <2>3. Narrowed(n, WithoutColumn(t, c))
    BY <2>1, <2>2 DEF Narrowed, t
  <2> QED BY <1>4, <1>7, <2>1, <2>2, <2>3 DEF Rewritten
<1>8. ASSUME OnTable(n), NEW c \in Names(t), NEW x \in IndexNames, CreateIndex(n, x, c) PROVE Goal
  <2>1. PICK order \in Orders(Keys(t, c)) :
          SetTable(n, [t EXCEPT !.indexes = Append(@, [name |-> x, column |-> c, order |-> order])])
    BY <1>8 DEF CreateIndex, t
  <2> DEFINE u == [t EXCEPT !.indexes = Append(@, [name |-> x, column |-> c, order |-> order])]
  <2>2. u = [t EXCEPT !.indexes = Append(@, [name |-> x, column |-> c, order |-> order])]
    OBVIOUS
  <2>3. SetTable(n, u)
    BY <2>1
  <2> HIDE DEF u
  <2>4. WellFormed(u) /\ u.columns = t.columns /\ Derived(u, t) /\ HoldsAll(u, t, Names(t))
    BY <1>3, <1>8, <2>2, CreateIndexFacts
  <2>5. Names(u) = Names(t)
    BY <2>4 DEF Names
  <2> QED BY <1>4, <1>8, <2>3, <2>4, <2>5 DEF Rewritten, Reworked, t
<1>9. ASSUME OnTable(n), NEW row \in RowsOf(t), Insert(n, row) PROVE Goal \/ Rejected
  <2>1. \/ TRUE \in Validations(Tables, t, row) /\ SetTable(n, AddRow(t, row))
        \/ Rejected
    BY <1>9 DEF Insert, Validations, t
  <2>2. CASE TRUE \in Validations(Tables, t, row) /\ SetTable(n, AddRow(t, row))
    <3>1. /\ WellFormed(AddRow(t, row)) /\ SameColumns(AddRow(t, row), t)
          /\ AddRow(t, row).rows = Append(t.rows, row)
      BY <1>3, <1>9, AddRowFacts
    <3>2. "freed" \notin Histories => \A i \in DOMAIN t.columns : t.columns[i].check # "freed"
      BY <1>9 DEF Insert, t
    <3>3. Lengthened(n, AddRow(t, row))
      BY <1>9, <2>2, <3>1, <3>2 DEF Lengthened, t
    <3> QED BY <1>4, <1>9, <2>2, <3>1, <3>3 DEF Rewritten
  <2> QED BY <2>1, <2>2
<1>10. ASSUME OnTable(n), NEW rows \in BoundedSeq(RowsOf(t), MaxFile), Import(n, rows) PROVE Goal
  <2> DEFINE v == Unconstrained(t)
  <2>1. WellFormed(v) /\ Names(v) = Names(t) /\ \A i \in DOMAIN v.columns : Free(v.columns[i])
    BY <1>3, <1>10, UnconstrainedFacts
  <2>2. rows \in Seq(RowsOf(t))
    <3> DEFINE S == RowsOf(t)
    <3> HIDE DEF S
    <3>1. PICK m \in 0 .. MaxFile : rows \in [1 .. m -> S]
      BY <1>10 DEF BoundedSeq, SeqOf, S
    <3> QED BY <3>1, StatementsAssumption DEF S
  <2>3. RowsOf(v) = RowsOf(t)
    BY <2>1 DEF RowsOf
  <2>4. NotReferenced(n, Names(t)) /\ SetTable(n, AddRows(v, rows))
    BY <1>10 DEF Import, t
  <2> HIDE DEF v
  <2>5. /\ WellFormed(AddRows(v, rows))
        /\ \A i \in DOMAIN AddRows(v, rows).columns : Free(AddRows(v, rows).columns[i])
    BY <2>1, <2>2, <2>3, AddRowsFacts
  <2> QED BY <1>4, <1>10, <2>4, <2>5 DEF Rewritten, Replaced, t
<1>11. ASSUME OnTable(n), NEW where \in Conditions(t), Delete(n, where)
       PROVE  Goal \/ UNCHANGED <<mem, disk, current, at>>
  <2>1. PICK found :
          IF \E r \in found : Referenced(Tables, n, r)
          THEN UNCHANGED <<mem, disk, current, at, renamed, restarts>>
          ELSE SetTable(n, RemoveRows(t, found))
    BY <1>11, Zenon DEF Delete, t
  <2>2. CASE \E r \in found : Referenced(Tables, n, r)
    BY <2>1, <2>2
  <2>3. CASE ~ \E r \in found : Referenced(Tables, n, r)
    <3>1. SetTable(n, RemoveRows(t, found))
      BY <2>1, <2>3
    <3>2. /\ WellFormed(RemoveRows(t, found)) /\ RemoveRows(t, found).columns = t.columns
          /\ \E g : Keeps(g, RemoveRows(t, found), t, DOMAIN t.rows \ found)
      BY <1>3, <1>11, RemoveRowsFacts
    <3>3. Reduced(n, RemoveRows(t, found))
      BY <2>3, <3>2, Zenon DEF Reduced, t
    <3> QED BY <1>4, <1>11, <3>1, <3>2, <3>3 DEF Rewritten
  <2> QED BY <2>2, <2>3
<1>12. \/ Goal
       \/ \E schema \in Schemas[n].tables : CreateTable(n, schema)
       \/ \E new \in TableNames : Rename(n, new)
       \/ Rejected
       \/ UNCHANGED <<mem, disk, current, at>>
  BY <1>1, <1>5, <1>6, <1>7, <1>8, <1>9, <1>10, <1>11, Zenon DEF t
<1> QED BY <1>2, <1>12, Zenon DEF Goal

(* Every statement leaves the database tables of that shape.               *)
LEMMA NextTables ==
  ASSUME StructInv, NEW tables, Structured(tables), current # None, SetTables(tables)
  PROVE  StructInv'
<1>1. /\ current \in DOMAIN mem
      /\ mem' = [d \in DOMAIN mem |-> IF d = current THEN tables ELSE mem[d]]
      /\ disk' = disk /\ current' = current
  BY SetTablesFacts
<1> QED BY <1>1 DEF StructInv

LEMMA CreateTableFacts ==
  ASSUME StructInv, NEW n \in TableNames, NEW schema \in Schemas[n].tables, CreateTable(n, schema)
  PROVE  \E t : /\ WellFormed(t) /\ t.rows = <<>> /\ DOMAIN t.columns = DOMAIN schema
                /\ \A i \in DOMAIN schema : schema[i] \in Definitions /\ t.columns[i] = NewColumn(schema[i])
                /\ current # None /\ n \notin DOMAIN Tables /\ SetTables(Put(Tables, n, t))
<1> DEFINE t == [columns |-> [i \in DOMAIN schema |-> NewColumn(schema[i])],
                 rows |-> <<>>, indexes |-> <<>>]
<1>1. schema \in Seq(Definitions) /\ NamedOnce(schema)
  BY StatementsAssumption
<1>2. WellFormed(t)
  BY <1>1, NewTableFacts
<1>3. \A i \in DOMAIN schema : schema[i] \in Definitions
  BY <1>1
<1>4. current # None /\ n \notin DOMAIN Tables /\ SetTables(Put(Tables, n, t))
  BY DEF CreateTable
<1>5. t.rows = <<>> /\ t.columns = [i \in DOMAIN schema |-> NewColumn(schema[i])]
  OBVIOUS
<1> HIDE DEF t
<1> QED BY <1>2, <1>3, <1>4, <1>5

LEMMA RenameFacts ==
  ASSUME StructInv, NEW n \in TableNames, NEW new \in TableNames, Rename(n, new)
  PROVE  /\ current # None /\ n \in DOMAIN Tables /\ new \notin DOMAIN Tables
         /\ NotReferenced(n, Names(Tables[n]))
         /\ "ghost" \notin Histories => n \notin DOMAIN disk[current]
         /\ SetTables([k \in (DOMAIN Tables \ {n}) \cup {new} |->
                         IF k = new THEN Tables[n] ELSE Tables[k]])
BY DEF Rename, OnTable

(* Whatever is done, the database in memory and the one on disk are tables  *)
(* with columns told apart by name, rows of their columns, flags for every  *)
(* NULL, and indexes that list every row in the order of its key.           *)
THEOREM TablesWellFormed == Spec => []StructInv
<1>1. Init => StructInv
  <2> SUFFICES ASSUME Init PROVE StructInv
    OBVIOUS
  <2>1. \A d \in Databases : Structured(disk[d])
    BY StartAssumption DEF Init, Structured
  <2>2. mem = Empty /\ disk = AtStart /\ current = None
    BY DEF Init
  <2>3. DOMAIN Empty = {} /\ Empty = [d \in DOMAIN Empty |-> Empty[d]]
    BY DEF Empty
  <2> QED BY <2>1, <2>2, <2>3, StartAssumption DEF StructInv
<1>2. StructInv /\ [Next]_vars => StructInv'
  <2> SUFFICES ASSUME StructInv, [Next]_vars PROVE StructInv'
    OBVIOUS
  <2>1. ASSUME UNCHANGED <<mem, disk, current>> PROVE StructInv'
    BY <2>1 DEF StructInv
  <2>2. ASSUME Done PROVE StructInv'
    <3>1. /\ mem' = [d \in DOMAIN mem |-> Relabelling(mem[d])]
          /\ disk' = [d \in Databases |-> IF d = current THEN Merged(mem[d], disk[d]) ELSE disk[d]]
          /\ current' = current
      BY <2>2, DoneFacts
    <3>2. \A d \in DOMAIN mem : Structured(Relabelling(mem[d]))
      BY StructuredRelabelling DEF StructInv
    <3>3. \A d \in Databases : d = current => Structured(Merged(mem[d], disk[d]))
      <4>1. \A d \in Databases : d = current => d \in DOMAIN mem
        BY StatementsAssumption DEF StructInv
      <4> QED BY <4>1, StructuredMerged DEF StructInv
    <3> QED BY <3>1, <3>2, <3>3 DEF StructInv
  <2>3. CASE Restart
    <3>1. mem' = Empty /\ disk' = disk /\ current' = None
      BY <2>3 DEF Restart
    <3>2. DOMAIN Empty = {} /\ Empty = [d \in DOMAIN Empty |-> Empty[d]]
      BY DEF Empty
    <3> QED BY <3>1, <3>2 DEF StructInv
  <2>4. ASSUME NEW d \in Databases, Use(d) PROVE StructInv'
    <3>1. /\ mem' = IF d \in DOMAIN mem THEN mem ELSE Put(mem, d, disk[d])
          /\ current' = d /\ disk' = disk
      BY <2>4 DEF Use
    <3>2. d # None
      BY StatementsAssumption
    <3>3. DOMAIN Put(mem, d, disk[d]) = DOMAIN mem \cup {d}
          /\ Put(mem, d, disk[d]) = [e \in DOMAIN mem \cup {d} |-> IF e = d THEN disk[d] ELSE mem[e]]
      BY DEF Put
    <3> QED BY <3>1, <3>2, <3>3 DEF StructInv
  <2>5. ASSUME NEW d \in Databases, CreateDatabase(d) PROVE StructInv'
    <3>1. mem' = Put(mem, d, Empty) /\ current' = d /\ disk' = disk
      BY <2>5 DEF CreateDatabase
    <3>2. d # None
      BY StatementsAssumption
    <3>3. Structured(Empty)
      BY DEF Structured, Empty
    <3>4. DOMAIN Put(mem, d, Empty) = DOMAIN mem \cup {d}
          /\ Put(mem, d, Empty) = [e \in DOMAIN mem \cup {d} |-> IF e = d THEN Empty ELSE mem[e]]
      BY DEF Put
    <3> QED BY <3>1, <3>2, <3>3, <3>4 DEF StructInv
  <2>6. ASSUME OnTables PROVE StructInv'
    <3>1. ASSUME NEW n, NEW u, OnTable(n), WellFormed(u), SetTable(n, u) PROVE StructInv'
      <4>1. current # None /\ n \in DOMAIN Tables /\ SetTables([Tables EXCEPT ![n] = u])
        BY <3>1 DEF OnTable, SetTable
      <4>2. Structured(Tables)
        BY <4>1 DEF StructInv, Tables
      <4>3. Structured([Tables EXCEPT ![n] = u])
        BY <3>1, <4>1, <4>2, StructuredWith
      <4> QED BY <4>1, <4>3, NextTables
    <3>2. ASSUME NEW n \in TableNames, NEW schema \in Schemas[n].tables, CreateTable(n, schema)
          PROVE  StructInv'
      <4>1. PICK t : WellFormed(t) /\ current # None /\ SetTables(Put(Tables, n, t))
        BY <3>2, CreateTableFacts
      <4>2. Structured(Put(Tables, n, t))
        BY <4>1, StructuredPut DEF StructInv, Tables
      <4> QED BY <4>1, <4>2, NextTables
    <3>3. ASSUME NEW n \in TableNames, NEW new \in TableNames, Rename(n, new) PROVE StructInv'
      <4> DEFINE tables == [k \in (DOMAIN Tables \ {n}) \cup {new} |->
                              IF k = new THEN Tables[n] ELSE Tables[k]]
      <4>1. current # None /\ n \in DOMAIN Tables /\ SetTables(tables)
        BY <3>3, RenameFacts
      <4>2. Structured(Tables)
        BY <4>1 DEF StructInv, Tables
      <4>3. Structured(tables)
        BY <4>1, <4>2 DEF Structured
      <4> HIDE DEF tables
      <4> QED BY <4>1, <4>3, NextTables
    <3>4. ASSUME Rejected PROVE StructInv'
      BY <2>2, <3>4 DEF Rejected
    <3>5. ASSUME UNCHANGED <<mem, disk, current, at>> PROVE StructInv'
      BY <2>1, <3>5
    <3> QED BY <2>6, <3>1, <3>2, <3>3, <3>4, <3>5, OnTablesShape
  <2>7. CASE End
    BY <2>2, <2>7 DEF End
  <2>8. CASE Begin
    BY <2>1, <2>8 DEF Begin
  <2>9. CASE UNCHANGED vars
    BY <2>1, <2>9 DEF vars
  <2> QED BY <2>3, <2>4, <2>5, <2>6, <2>7, <2>8, <2>9 DEF Next
<1> QED BY <1>1, <1>2, PTL DEF Spec

(* A DELETE removes the rows its WHERE is true of and no other, through an  *)
(* index or without, after any mixture of statements and restarts.          *)
THEOREM DeletesFindMatches == Spec => []DeleteFindsMatches
<1>1. StructInv => DeleteFindsMatches
  <2> SUFFICES ASSUME StructInv, NEW t \in AllTables, NEW where \in Conditions(t)
               PROVE  Scan(t, where) = {r \in DOMAIN t.rows : Matches(t.rows[r], where)}
    BY DEF DeleteFindsMatches
  <2>1. WellFormed(t)
    BY DEF AllTables, StructInv, Structured
  <2> QED BY <2>1, ScanFinds
<1> QED BY <1>1, TablesWellFormed, PTL

-------------------------------------------------------------------------------
(* What an ended query leaves on disk.                                     *)

LEMMA LabelsChange ==
  ASSUME NEW t, WellFormed(t), NEW from, "none" \notin from, NEW to \in {"freed", "text"},
         NEW u, u = WithCheck(t, from, to)
  PROVE  /\ u = [columns |-> u.columns, rows |-> t.rows, indexes |-> t.indexes]
         /\ u.rows = t.rows /\ u.indexes = t.indexes
         /\ u.columns \in Seq(Columns) /\ DOMAIN u.columns = DOMAIN t.columns
         /\ \A i \in DOMAIN t.columns : u.columns[i] = Relabelled(t.columns[i], from, to)
<1>1. WellFormed(u) /\ u.rows = t.rows /\ u.indexes = t.indexes
  BY WithCheckFacts
<1>2. u = [columns |-> u.columns, rows |-> t.rows, indexes |-> t.indexes]
  BY WithCheckFacts
<1>3. DOMAIN u.columns = DOMAIN t.columns
      /\ \A i \in DOMAIN t.columns : u.columns[i] = Relabelled(t.columns[i], from, to)
  BY WithCheckFacts
<1> QED BY <1>1, <1>2, <1>3, TableEquals

LEMMA SavedReleased ==
  ASSUME NEW t, WellFormed(t)
  PROVE  Saved(Released(t)) = Saved(t)
<1> DEFINE a == {"query"}
           b == {"query", "freed"}
           u == Released(t)
           v == Saved(t)
           w == Saved(u)
<1>1. "none" \notin a /\ "none" \notin b
  OBVIOUS
<1>2. /\ u = WithCheck(t, a, "freed") /\ v = WithCheck(t, b, "text") /\ w = WithCheck(u, b, "text")
      /\ WellFormed(u)
  BY ReleasedFacts DEF Released, Saved
<1>3. \A c \in Columns :
        Relabelled(Relabelled(c, a, "freed"), b, "text") = Relabelled(c, b, "text")
  BY DEF Columns, Relabelled
<1> HIDE DEF a, b, u, v, w
<1>4. /\ u.rows = t.rows /\ u.indexes = t.indexes /\ DOMAIN u.columns = DOMAIN t.columns
      /\ \A i \in DOMAIN t.columns : u.columns[i] = Relabelled(t.columns[i], a, "freed")
  BY <1>1, <1>2, LabelsChange
<1>5. /\ v = [columns |-> v.columns, rows |-> t.rows, indexes |-> t.indexes]
      /\ v.columns \in Seq(Columns) /\ DOMAIN v.columns = DOMAIN t.columns
      /\ \A i \in DOMAIN t.columns : v.columns[i] = Relabelled(t.columns[i], b, "text")
  BY <1>1, <1>2, LabelsChange
<1>6. /\ w = [columns |-> w.columns, rows |-> u.rows, indexes |-> u.indexes]
      /\ w.columns \in Seq(Columns) /\ DOMAIN w.columns = DOMAIN u.columns
      /\ \A i \in DOMAIN u.columns : w.columns[i] = Relabelled(u.columns[i], b, "text")
  BY <1>1, <1>2, LabelsChange
<1>7. t.columns \in Seq(Columns) /\ v.columns \in Seq(Columns) /\ w.columns \in Seq(Columns)
  BY <1>5, <1>6, TableEquals
<1>8. \A i \in DOMAIN t.columns : w.columns[i] = v.columns[i]
  <2> TAKE i \in DOMAIN t.columns
  <2>1. t.columns[i] \in Columns
    BY <1>7
  <2> QED BY <1>3, <1>4, <1>5, <1>6, <2>1
<1>9. w.columns = v.columns
  <2> DEFINE x == w.columns
             y == v.columns
             l == Len(t.columns)
  <2>1. DOMAIN t.columns = 1 .. l /\ DOMAIN x = 1 .. l /\ DOMAIN y = 1 .. l
        /\ \A i \in 1 .. l : x[i] = y[i]
    BY <1>4, <1>5, <1>6, <1>7, <1>8
  <2>2. x = [i \in DOMAIN x |-> x[i]] /\ y = [i \in DOMAIN y |-> y[i]]
    BY <1>7
  <2> HIDE DEF x, y, l
  <2>3. x = y
    BY <2>1, <2>2
  <2> QED BY <2>3 DEF x, y
<1>10. w = v
  BY <1>4, <1>5, <1>6, <1>9
<1> QED BY <1>10 DEF u, v, w

(* The tables of a database are on disk as they are in memory: between      *)
(* queries for every loaded database, during a query for all but the        *)
(* session's own.                                                          *)
AsSaved(d) == \A n \in DOMAIN mem[d] : n \in DOMAIN disk[d] /\ disk[d][n] = Saved(mem[d][n])
SavedInv == \A d \in DOMAIN mem : at = "idle" \/ d # current => AsSaved(d)

(* cql_database_save: when a query has ended, failed or not, every table    *)
(* of every loaded database is on disk as it is in memory, unless a query   *)
(* left the database of its unsaved changes by USE.                         *)
THEOREM EndedQueriesAreSaved ==
  ASSUME "switch" \notin Histories
  PROVE  Spec => []EndedIsSaved
<1>1. Init => SavedInv
  <2> SUFFICES ASSUME Init PROVE SavedInv
    OBVIOUS
  <2>1. DOMAIN mem = {}
    BY DEF Init, Empty
  <2> QED BY <2>1 DEF SavedInv
<1>2. StructInv /\ SavedInv /\ [Next]_vars => SavedInv'
  <2> SUFFICES ASSUME StructInv, SavedInv, [Next]_vars PROVE SavedInv'
    OBVIOUS
  <2>0. SavedInv' <=> \A d \in DOMAIN mem' : at' = "idle" \/ d # current' =>
                        \A n \in DOMAIN mem'[d] :
                          n \in DOMAIN disk'[d] /\ disk'[d][n] = Saved(mem'[d][n])
    BY DEF SavedInv, AsSaved
  <2>1. ASSUME UNCHANGED <<mem, disk, current, at>> PROVE SavedInv'
    BY <2>1 DEF SavedInv, AsSaved
  <2>2. ASSUME Done PROVE SavedInv'
    <3>1. /\ mem' = [d \in DOMAIN mem |-> Relabelling(mem[d])]
          /\ disk' = [d \in Databases |-> IF d = current THEN Merged(mem[d], disk[d]) ELSE disk[d]]
      BY <2>2, DoneFacts
    <3>2. SUFFICES ASSUME NEW d \in DOMAIN mem, NEW n \in DOMAIN mem[d]
                   PROVE  n \in DOMAIN disk'[d] /\ disk'[d][n] = Saved(mem'[d][n])
      BY <2>0, <3>1 DEF Relabelling
    <3>3. mem'[d][n] = Released(mem[d][n]) /\ d \in Databases /\ WellFormed(mem[d][n])
      BY <3>1, <3>2 DEF Relabelling, StructInv, Structured
    <3>4. Saved(mem'[d][n]) = Saved(mem[d][n])
      BY <3>3, SavedReleased
    <3>5. CASE d = current
      BY <3>1, <3>2, <3>3, <3>4, <3>5 DEF Merged
    <3>6. CASE d # current
      <4>1. disk'[d] = disk[d]
        BY <3>1, <3>3, <3>6
      <4>2. n \in DOMAIN disk[d] /\ disk[d][n] = Saved(mem[d][n])
        BY <3>6 DEF SavedInv, AsSaved
      <4> QED BY <3>4, <4>1, <4>2
    <3> QED BY <3>5, <3>6
  <2>3. CASE Restart
    <3>1. DOMAIN mem' = {}
      BY <2>3 DEF Restart, Empty
    <3> QED BY <2>0, <3>1
  <2>4. ASSUME Statement, NotSwitched, NEW d, NEW db,
               mem' = mem \/ mem' = Put(mem, d, db), current' = d, disk' = disk, at' = at
        PROVE  SavedInv'
    <3>1. at = "open"
      BY <2>4 DEF Statement
    <3>2. \A e \in DOMAIN mem' : e # d => e \in DOMAIN mem /\ mem'[e] = mem[e]
      BY <2>4 DEF Put
    <3>3. SUFFICES ASSUME NEW e \in DOMAIN mem, NEW n \in DOMAIN mem[e]
                   PROVE  n \in DOMAIN disk[e] /\ disk[e][n] = Saved(mem[e][n])
      BY <2>0, <2>4, <3>1, <3>2
    <3>4. CASE e = current
      <4>1. current # None
        BY <3>4 DEF StructInv
      <4> QED BY <2>4, <3>4, <4>1 DEF NotSwitched, Tables
    <3>5. CASE e # current
      BY <3>5 DEF SavedInv, AsSaved
    <3> QED BY <3>4, <3>5
  <2>5. ASSUME NEW tables, SetTables(tables), current # None, at = "open" PROVE SavedInv'
    <3>1. /\ mem' = [d \in DOMAIN mem |-> IF d = current THEN tables ELSE mem[d]]
          /\ disk' = disk /\ current' = current /\ at' = at
      BY <2>5, SetTablesFacts
    <3> QED BY <2>0, <2>5, <3>1 DEF SavedInv, AsSaved
  <2>6. ASSUME NEW d \in Databases, Use(d) PROVE SavedInv'
    <3>1. /\ Statement /\ NotSwitched /\ (mem' = mem \/ mem' = Put(mem, d, disk[d]))
          /\ current' = d /\ disk' = disk /\ at' = at
      BY <2>6 DEF Use
    <3> QED BY <2>4, <3>1
  <2>7. ASSUME NEW d \in Databases, CreateDatabase(d) PROVE SavedInv'
    <3>1. /\ Statement /\ NotSwitched /\ (mem' = mem \/ mem' = Put(mem, d, Empty))
          /\ current' = d /\ disk' = disk /\ at' = at
      BY <2>7 DEF CreateDatabase
    <3> QED BY <2>4, <3>1
  <2>8. ASSUME OnTables PROVE SavedInv'
    <3>1. ASSUME NEW n, NEW u, OnTable(n), SetTable(n, u), at = "open" PROVE SavedInv'
      <4>1. current # None /\ SetTables([Tables EXCEPT ![n] = u])
        BY <3>1 DEF OnTable, SetTable
      <4> QED BY <2>5, <3>1, <4>1
    <3>2. ASSUME NEW n \in TableNames, NEW schema \in Schemas[n].tables, CreateTable(n, schema),
                 at = "open"
          PROVE  SavedInv'
      <4>1. PICK t : current # None /\ SetTables(Put(Tables, n, t))
        BY <3>2, CreateTableFacts
      <4> QED BY <2>5, <3>2, <4>1
    <3>3. ASSUME NEW n \in TableNames, NEW new \in TableNames, Rename(n, new), at = "open"
          PROVE  SavedInv'
      <4> DEFINE tables == [k \in (DOMAIN Tables \ {n}) \cup {new} |->
                              IF k = new THEN Tables[n] ELSE Tables[k]]
      <4>1. current # None /\ SetTables(tables)
        BY <3>3, RenameFacts
      <4> HIDE DEF tables
      <4> QED BY <2>5, <3>3, <4>1
    <3>4. ASSUME Rejected PROVE SavedInv'
      BY <2>2, <3>4 DEF Rejected
    <3>5. ASSUME UNCHANGED <<mem, disk, current, at>> PROVE SavedInv'
      BY <2>1, <3>5
    <3> QED BY <2>8, <3>1, <3>2, <3>3, <3>4, <3>5, OnTablesShape
  <2>9. CASE Begin
    <3>1. mem' = mem /\ disk' = disk /\ current' = current /\ at = "idle"
      BY <2>9 DEF Begin
    <3> QED BY <2>0, <3>1 DEF SavedInv, AsSaved
  <2>10. CASE End
    BY <2>2, <2>10 DEF End
  <2>11. CASE UNCHANGED vars
    BY <2>1, <2>11 DEF vars
  <2> QED BY <2>2, <2>3, <2>6, <2>7, <2>8, <2>9, <2>10, <2>11 DEF Next
<1>3. SavedInv => EndedIsSaved
  BY DEF SavedInv, AsSaved, EndedIsSaved
<1> QED BY <1>1, <1>2, <1>3, TablesWellFormed, PTL DEF Spec

-------------------------------------------------------------------------------
(* Constraints.                                                            *)

LEMMA DerivedIsConstrained ==
  ASSUME NEW t, NEW u, Derived(u, t), Constrained(t)
  PROVE  Constrained(u)
<1>1. PICK g : /\ \A r \in DOMAIN u.rows : g[r] \in DOMAIN t.rows
               /\ \A r, s \in DOMAIN u.rows : g[r] = g[s] => r = s
               /\ \A i \in DOMAIN u.columns :
                    \/ Free(u.columns[i])
                    \/ \E j \in DOMAIN t.columns :
                         /\ Inherits(u.columns[i], t.columns[j])
                         /\ \A r \in DOMAIN u.rows :
                              u.rows[r][t.columns[j].name] = t.rows[g[r]][t.columns[j].name]
  BY Zenon DEF Derived
<1>2. SUFFICES ASSUME NEW i \in DOMAIN u.columns
      PROVE  LET c == u.columns[i]
             IN  /\ c.not_null => \A r \in DOMAIN u.rows : u.rows[r][c.name] # Null
                 /\ c.unique => \A r, s \in DOMAIN u.rows :
                      r # s /\ u.rows[r][c.name] # Null => u.rows[r][c.name] # u.rows[s][c.name]
                 /\ c.check # "none" => \A r \in DOMAIN u.rows : u.rows[r][c.name] \in Allowed
  BY DEF Constrained
<1>3. CASE Free(u.columns[i])
  BY <1>3 DEF Free
<1>4. ASSUME NEW j \in DOMAIN t.columns, Inherits(u.columns[i], t.columns[j]),
             \A r \in DOMAIN u.rows :
               u.rows[r][t.columns[j].name] = t.rows[g[r]][t.columns[j].name]
      PROVE  LET c == u.columns[i]
             IN  /\ c.not_null => \A r \in DOMAIN u.rows : u.rows[r][c.name] # Null
                 /\ c.unique => \A r, s \in DOMAIN u.rows :
                      r # s /\ u.rows[r][c.name] # Null => u.rows[r][c.name] # u.rows[s][c.name]
                 /\ c.check # "none" => \A r \in DOMAIN u.rows : u.rows[r][c.name] \in Allowed
  <2> DEFINE c == u.columns[i]
             e == t.columns[j]
  <2>1. /\ c.name = e.name /\ (c.not_null <=> e.not_null) /\ (c.unique <=> e.unique)
        /\ c.check # "none" => e.check # "none"
    BY <1>4 DEF Inherits
  <2>2. /\ e.not_null => \A r \in DOMAIN t.rows : t.rows[r][e.name] # Null
        /\ e.unique => \A r, s \in DOMAIN t.rows :
             r # s /\ t.rows[r][e.name] # Null => t.rows[r][e.name] # t.rows[s][e.name]
        /\ e.check # "none" => \A r \in DOMAIN t.rows : t.rows[r][e.name] \in Allowed
    BY DEF Constrained
  <2>3. \A r \in DOMAIN u.rows : /\ u.rows[r][c.name] = t.rows[g[r]][e.name]
                                 /\ g[r] \in DOMAIN t.rows
    BY <1>1, <1>4, <2>1
  <2>4. \A r, s \in DOMAIN u.rows : r # s => g[r] # g[s]
    BY <1>1
  <2> HIDE DEF c, e
  <2>5. c.not_null => \A r \in DOMAIN u.rows : u.rows[r][c.name] # Null
    BY <2>1, <2>2, <2>3
  <2>6. c.unique => \A r, s \in DOMAIN u.rows :
          r # s /\ u.rows[r][c.name] # Null => u.rows[r][c.name] # u.rows[s][c.name]
    BY <2>1, <2>2, <2>3, <2>4
  <2>7. c.check # "none" => \A r \in DOMAIN u.rows : u.rows[r][c.name] \in Allowed
    BY <2>1, <2>2, <2>3
  <2> QED BY <2>5, <2>6, <2>7 DEF c
<1> QED BY <1>1, <1>3, <1>4

LEMMA ValidRowFacts ==
  ASSUME NEW tables, NEW t, NEW row, TRUE \in Validations(tables, t, row), NEW i \in DOMAIN t.columns
  PROVE  /\ ~Rejects(tables, t, t.columns[i], row[t.columns[i].name])
         /\ TRUE \in CheckOutcomes(t.columns[i], row[t.columns[i].name])
<1>1. PICK checks \in {f \in [DOMAIN t.columns -> BOOLEAN] : \A k \in DOMAIN f :
                         f[k] \in CheckOutcomes(t.columns[k], row[t.columns[k].name])} :
        /\ \A k \in DOMAIN t.columns : ~Rejects(tables, t, t.columns[k], row[t.columns[k].name])
        /\ \A k \in DOMAIN t.columns : checks[k]
  BY DEF Validations
<1>2. DOMAIN checks = DOMAIN t.columns /\ checks[i] \in BOOLEAN /\ checks[i]
  BY <1>1
<1> QED BY <1>1, <1>2

(* A row that cql_table_validate_row_constraints accepts.                   *)
LEMMA LongerIsConstrained ==
  ASSUME NEW tables, NEW t, WellFormed(t), Constrained(t), NEW row \in RowsOf(t),
         TRUE \in Validations(tables, t, row),
         \A i \in DOMAIN t.columns : t.columns[i].check # "freed",
         NEW u, SameColumns(u, t), u.rows = Append(t.rows, row)
  PROVE  Constrained(u)
<1> DEFINE n == Len(t.rows)
<1>1. n \in Nat /\ DOMAIN t.rows = 1 .. n /\ t.rows \in Seq(RowsOf(t))
  BY TableEquals
<1>2. /\ DOMAIN u.rows = 1 .. n + 1 /\ u.rows[n + 1] = row
      /\ \A r \in 1 .. n : u.rows[r] = t.rows[r]
  <2> DEFINE R == RowsOf(t)
  <2> HIDE DEF R
  <2>1. t.rows \in Seq(R) /\ row \in R
    BY <1>1 DEF R
  <2> QED BY <2>1
<1> HIDE DEF n
<1>3. SUFFICES ASSUME NEW i \in DOMAIN u.columns
      PROVE  LET c == u.columns[i]
             IN  /\ c.not_null => \A r \in DOMAIN u.rows : u.rows[r][c.name] # Null
                 /\ c.unique => \A r, s \in DOMAIN u.rows :
                      r # s /\ u.rows[r][c.name] # Null => u.rows[r][c.name] # u.rows[s][c.name]
                 /\ c.check # "none" => \A r \in DOMAIN u.rows : u.rows[r][c.name] \in Allowed
  BY ZenonT(60) DEF Constrained
<1> DEFINE c == u.columns[i]
           e == t.columns[i]
           v == row[e.name]
<1>4. /\ i \in DOMAIN t.columns /\ c.name = e.name
      /\ (c.not_null <=> e.not_null) /\ (c.unique <=> e.unique) /\ c.check = e.check
  BY DEF SameColumns, Alike
<1>5. /\ e.not_null => \A r \in 1 .. n : t.rows[r][e.name] # Null
      /\ e.unique => \A r, s \in 1 .. n :
           r # s /\ t.rows[r][e.name] # Null => t.rows[r][e.name] # t.rows[s][e.name]
      /\ e.check # "none" => \A r \in 1 .. n : t.rows[r][e.name] \in Allowed
  BY <1>1, <1>4, SMTT(60) DEF Constrained
<1>6. ~Rejects(tables, t, e, v) /\ TRUE \in CheckOutcomes(e, v)
  BY <1>4, ValidRowFacts
<1>7. /\ ~(e.not_null /\ v = Null)
      /\ e.unique => ~Holds(t, e.name, v)
  BY <1>6 DEF Rejects, Taken
<1>8. e.unique /\ v # Null => \A r \in 1 .. n : t.rows[r][e.name] # v
  BY <1>1, <1>7 DEF Holds
<1>9. e.check # "none" => v \in Allowed
  BY <1>4, <1>6 DEF CheckOutcomes
<1> HIDE DEF c, e, v
<1>10. /\ \A r \in 1 .. n : u.rows[r][c.name] = t.rows[r][e.name]
       /\ u.rows[n + 1][c.name] = v
  BY <1>2, <1>4 DEF v
<1>11. \A r \in 1 .. n + 1 : r \in 1 .. n \/ r = n + 1
  BY <1>1
<1>12. c.not_null => \A r \in DOMAIN u.rows : u.rows[r][c.name] # Null
  BY <1>2, <1>4, <1>5, <1>7, <1>10, <1>11
<1>13. c.unique => \A r, s \in DOMAIN u.rows :
         r # s /\ u.rows[r][c.name] # Null => u.rows[r][c.name] # u.rows[s][c.name]
  <2> SUFFICES ASSUME c.unique, NEW r \in 1 .. n + 1, NEW s \in 1 .. n + 1, r # s,
                      u.rows[r][c.name] # Null
               PROVE  u.rows[r][c.name] # u.rows[s][c.name]
    BY <1>2
  <2>1. CASE r \in 1 .. n /\ s \in 1 .. n
    BY <1>4, <1>5, <1>10, <2>1, ZenonT(60)
  <2>2. CASE r = n + 1 /\ s \in 1 .. n
    BY <1>4, <1>8, <1>10, <2>2
  <2>3. CASE r \in 1 .. n /\ s = n + 1
    BY <1>4, <1>8, <1>10, <2>3
  <2> QED BY <1>11, <2>1, <2>2, <2>3
<1>14. c.check # "none" => \A r \in DOMAIN u.rows : u.rows[r][c.name] \in Allowed
  BY <1>2, <1>4, <1>5, <1>9, <1>10, <1>11
<1> QED BY <1>12, <1>13, <1>14 DEF c

LEMMA ReducedIsDerived ==
  ASSUME NEW n, NEW u, Reduced(n, u)
  PROVE  Derived(u, Tables[n])
<1> DEFINE t == Tables[n]
<1>1. PICK found : u.columns = t.columns /\ \E g : Keeps(g, u, t, DOMAIN t.rows \ found)
  BY Zenon DEF Reduced
<1>2. PICK g : Keeps(g, u, t, DOMAIN t.rows \ found)
  BY <1>1
<1> HIDE DEF t
<1>3. /\ \A r \in DOMAIN u.rows : g[r] \in DOMAIN t.rows /\ u.rows[r] = t.rows[g[r]]
      /\ \A r, s \in DOMAIN u.rows : g[r] = g[s] => r = s
  BY <1>2 DEF Keeps
<1> QED BY <1>1, <1>3, InheritsItself, SMTT(60) DEF Derived, t

LEMMA RewrittenIsConstrained ==
  ASSUME StructInv, "freed" \notin Histories, NEW n, OnTable(n), NEW u, Rewritten(n, u),
         Constrained(Tables[n])
  PROVE  Constrained(u)
<1> DEFINE t == Tables[n]
<1>1. WellFormed(t)
  BY DEF OnTable, StructInv, Structured, Tables
<1>2. CASE Reworked(n, u) \/ Narrowed(n, u) \/ Reduced(n, u)
  <2>1. Derived(u, t)
    BY <1>2, ReducedIsDerived DEF Reworked, Narrowed
  <2> HIDE DEF t
  <2> QED BY <2>1, DerivedIsConstrained DEF t
<1>3. CASE Lengthened(n, u)
  <2>1. PICK row \in RowsOf(t) :
          /\ TRUE \in Validations(Tables, t, row)
          /\ \A i \in DOMAIN t.columns : t.columns[i].check # "freed"
          /\ SameColumns(u, t) /\ u.rows = Append(t.rows, row)
    BY <1>3 DEF Lengthened
  <2>2. Constrained(t)
    OBVIOUS
  <2> HIDE DEF t
  <2> QED BY <1>1, <2>1, <2>2, LongerIsConstrained
<1>4. CASE Replaced(n, u)
  BY <1>4 DEF Replaced, Constrained, Free
<1> QED BY <1>2, <1>3, <1>4 DEF Rewritten

ConstraintsInv ==
  /\ \A d \in DOMAIN mem : \A n \in DOMAIN mem[d] : Constrained(mem[d][n])
  /\ \A d \in Databases : \A n \in DOMAIN disk[d] : Constrained(disk[d][n])

(* cql_table_validate_row_constraints: in memory and on disk the rows       *)
(* satisfy NOT NULL, UNIQUE and CHECK of their columns, unless a row was    *)
(* tested by a check whose query had ended.                                *)
THEOREM RowsAreConstrained ==
  ASSUME "freed" \notin Histories
  PROVE  Spec => []ConstraintsHold
<1>1. Init => ConstraintsInv
  <2> SUFFICES ASSUME Init PROVE ConstraintsInv
    OBVIOUS
  <2>1. DOMAIN mem = {} /\ disk = AtStart
    BY DEF Init, Empty
  <2> QED BY <2>1, StartAssumption DEF ConstraintsInv
<1>2. StructInv /\ ConstraintsInv /\ [Next]_vars => ConstraintsInv'
  <2> SUFFICES ASSUME StructInv, ConstraintsInv, [Next]_vars PROVE ConstraintsInv'
    OBVIOUS
  <2>0. ConstraintsInv' <=>
          /\ \A d \in DOMAIN mem' : \A n \in DOMAIN mem'[d] : Constrained(mem'[d][n])
          /\ \A d \in Databases : \A n \in DOMAIN disk'[d] : Constrained(disk'[d][n])
    BY DEF ConstraintsInv
  <2>1. ASSUME UNCHANGED <<mem, disk>> PROVE ConstraintsInv'
    BY <2>0, <2>1 DEF ConstraintsInv
  <2>2. ASSUME Done PROVE ConstraintsInv'
    <3>1. /\ mem' = [d \in DOMAIN mem |-> Relabelling(mem[d])]
          /\ disk' = [d \in Databases |-> IF d = current THEN Merged(mem[d], disk[d]) ELSE disk[d]]
      BY <2>2, DoneFacts
    <3>2. ASSUME NEW t, WellFormed(t), Constrained(t)
          PROVE  Constrained(Released(t)) /\ Constrained(Saved(t))
      BY <3>2, ReleasedFacts, DerivedIsConstrained
    <3>3. ASSUME NEW d \in DOMAIN mem, NEW n \in DOMAIN mem[d]
          PROVE  WellFormed(mem[d][n]) /\ Constrained(mem[d][n])
      BY DEF StructInv, Structured, ConstraintsInv
    <3>4. ASSUME NEW d \in DOMAIN mem, NEW n \in DOMAIN mem'[d] PROVE Constrained(mem'[d][n])
      <4>1. n \in DOMAIN mem[d] /\ mem'[d][n] = Released(mem[d][n])
        BY <3>1, <3>4 DEF Relabelling
      <4> QED BY <3>2, <3>3, <4>1
    <3>5. ASSUME NEW d \in Databases, NEW n \in DOMAIN disk'[d] PROVE Constrained(disk'[d][n])
      <4>1. CASE d # current
        BY <3>1, <3>5, <4>1 DEF ConstraintsInv
      <4>2. CASE d = current
        <5>1. d \in DOMAIN mem
          BY <4>2, StatementsAssumption DEF StructInv
        <5>2. disk'[d] = Merged(mem[d], disk[d])
          BY <3>1, <4>2
        <5>3. CASE n \in DOMAIN mem[d]
          <6>1. disk'[d][n] = Saved(mem[d][n])
            BY <3>5, <5>2, <5>3 DEF Merged
          <6> QED BY <3>2, <3>3, <5>1, <5>3, <6>1
        <5>4. CASE n \notin DOMAIN mem[d]
          <6>1. n \in DOMAIN disk[d] /\ disk'[d][n] = disk[d][n]
            BY <3>5, <5>2, <5>4 DEF Merged
          <6> QED BY <6>1 DEF ConstraintsInv
        <5> QED BY <5>3, <5>4
      <4> QED BY <4>1, <4>2
    <3> QED BY <2>0, <3>1, <3>4, <3>5
  <2>3. CASE Restart
    <3>1. DOMAIN mem' = {} /\ disk' = disk
      BY <2>3 DEF Restart, Empty
    <3> QED BY <2>0, <3>1 DEF ConstraintsInv
  <2>4. ASSUME NEW d \in Databases, Use(d) PROVE ConstraintsInv'
    <3>1. (mem' = mem \/ mem' = Put(mem, d, disk[d])) /\ disk' = disk
      BY <2>4 DEF Use
    <3> QED BY <2>0, <3>1 DEF ConstraintsInv, Put
  <2>5. ASSUME NEW d \in Databases, CreateDatabase(d) PROVE ConstraintsInv'
    <3>1. mem' = Put(mem, d, Empty) /\ disk' = disk
      BY <2>5 DEF CreateDatabase
    <3> QED BY <2>0, <3>1 DEF ConstraintsInv, Put, Empty
  <2>6. ASSUME NEW tables, current # None, SetTables(tables), \A n \in DOMAIN tables : Constrained(tables[n])
        PROVE  ConstraintsInv'
    <3>1. mem' = [d \in DOMAIN mem |-> IF d = current THEN tables ELSE mem[d]] /\ disk' = disk
      BY <2>6, SetTablesFacts
    <3> QED BY <2>0, <2>6, <3>1 DEF ConstraintsInv
  <2>7. current # None => \A n \in DOMAIN Tables : Constrained(Tables[n])
    BY DEF StructInv, ConstraintsInv, Tables
  <2>8. ASSUME OnTables PROVE ConstraintsInv'
    <3>1. ASSUME NEW n, NEW u, OnTable(n), Rewritten(n, u), SetTable(n, u) PROVE ConstraintsInv'
      <4>1. current # None /\ n \in DOMAIN Tables /\ SetTables([Tables EXCEPT ![n] = u])
        BY <3>1 DEF OnTable, SetTable
      <4>2. Constrained(u)
        BY <2>7, <3>1, <4>1, RewrittenIsConstrained
      <4>3. \A k \in DOMAIN [Tables EXCEPT ![n] = u] : Constrained([Tables EXCEPT ![n] = u][k])
        BY <2>7, <4>1, <4>2
      <4> QED BY <2>6, <4>1, <4>3
    <3>2. ASSUME NEW n \in TableNames, NEW schema \in Schemas[n].tables, CreateTable(n, schema)
          PROVE  ConstraintsInv'
      <4>1. PICK t : t.rows = <<>> /\ current # None /\ SetTables(Put(Tables, n, t))
        BY <3>2, CreateTableFacts
      <4>2. Constrained(t)
        BY <4>1 DEF Constrained
      <4>3. \A k \in DOMAIN Put(Tables, n, t) : Constrained(Put(Tables, n, t)[k])
        BY <2>7, <4>1, <4>2 DEF Put
      <4> QED BY <2>6, <4>1, <4>3
    <3>3. ASSUME NEW n \in TableNames, NEW new \in TableNames, Rename(n, new) PROVE ConstraintsInv'
      <4> DEFINE tables == [k \in (DOMAIN Tables \ {n}) \cup {new} |->
                              IF k = new THEN Tables[n] ELSE Tables[k]]
      <4>1. current # None /\ n \in DOMAIN Tables /\ SetTables(tables)
        BY <3>3, RenameFacts
      <4>2. \A k \in DOMAIN tables : Constrained(tables[k])
        BY <2>7, <4>1
      <4> HIDE DEF tables
      <4> QED BY <2>6, <4>1, <4>2
    <3>4. ASSUME Rejected PROVE ConstraintsInv'
      BY <2>2, <3>4 DEF Rejected
    <3>5. ASSUME UNCHANGED <<mem, disk, current, at>> PROVE ConstraintsInv'
      BY <2>1, <3>5
    <3> QED BY <2>8, <3>1, <3>2, <3>3, <3>4, <3>5, OnTablesShape
  <2>9. CASE End
    BY <2>2, <2>9 DEF End
  <2>10. CASE Begin
    BY <2>1, <2>10 DEF Begin
  <2>11. CASE UNCHANGED vars
    BY <2>1, <2>11 DEF vars
  <2> QED BY <2>3, <2>4, <2>5, <2>8, <2>9, <2>10, <2>11 DEF Next
<1>3. ConstraintsInv => ConstraintsHold
  BY DEF ConstraintsInv, ConstraintsHold, AllTables
<1> QED BY <1>1, <1>2, <1>3, TablesWellFormed, PTL DEF Spec

-------------------------------------------------------------------------------
(* References.                                                             *)

(* Table u, called n, refers to other tables of its database, and they hold *)
(* its values; and the other tables that refer to n find theirs in u.       *)
Outgoing(tables, n, u) ==
  \A i \in DOMAIN u.columns :
    LET fk == u.columns[i].fk
    IN  fk # None =>
          /\ fk.table \in DOMAIN tables \ {n} /\ fk.column \in Names(tables[fk.table])
          /\ \A r \in DOMAIN u.rows :
               u.rows[r][u.columns[i].name] # Null =>
                 Holds(tables[fk.table], fk.column, u.rows[r][u.columns[i].name])
Referential(tables) == \A n \in DOMAIN tables : Outgoing(tables, n, tables[n])
Incoming(tables, n, u) ==
  \A other \in DOMAIN tables \ {n} : \A i \in DOMAIN tables[other].columns :
    LET column == tables[other].columns[i]
    IN  column.fk # None /\ column.fk.table = n =>
          /\ column.fk.column \in Names(u)
          /\ \A r \in DOMAIN tables[other].rows :
               tables[other].rows[r][column.name] # Null =>
                 Holds(u, column.fk.column, tables[other].rows[r][column.name])

LEMMA ReferentialMeans ==
  ASSUME NEW tables
  PROVE  Referential(tables) <=> Linked(tables) /\ ReferencesFound(tables)
BY DEF Referential, Outgoing, Linked, ReferencesFound, ReferenceFound

LEMMA DerivedRefers ==
  ASSUME NEW tables, NEW n, NEW t, Outgoing(tables, n, t), NEW u, Derived(u, t)
  PROVE  Outgoing(tables, n, u)
<1>1. PICK g : /\ \A r \in DOMAIN u.rows : g[r] \in DOMAIN t.rows
               /\ \A i \in DOMAIN u.columns :
                    \/ Free(u.columns[i])
                    \/ \E j \in DOMAIN t.columns :
                         /\ Inherits(u.columns[i], t.columns[j])
                         /\ \A r \in DOMAIN u.rows :
                              u.rows[r][t.columns[j].name] = t.rows[g[r]][t.columns[j].name]
  BY Zenon DEF Derived
<1>2. SUFFICES ASSUME NEW i \in DOMAIN u.columns, u.columns[i].fk # None
      PROVE  LET fk == u.columns[i].fk
             IN  /\ fk.table \in DOMAIN tables \ {n} /\ fk.column \in Names(tables[fk.table])
                 /\ \A r \in DOMAIN u.rows :
                      u.rows[r][u.columns[i].name] # Null =>
                        Holds(tables[fk.table], fk.column, u.rows[r][u.columns[i].name])
  BY DEF Outgoing
<1>3. PICK j \in DOMAIN t.columns :
        /\ Inherits(u.columns[i], t.columns[j])
        /\ \A r \in DOMAIN u.rows : u.rows[r][t.columns[j].name] = t.rows[g[r]][t.columns[j].name]
  BY <1>1, <1>2 DEF Free
<1>4. u.columns[i].name = t.columns[j].name /\ u.columns[i].fk = t.columns[j].fk
  BY <1>3 DEF Inherits
<1> QED BY <1>1, <1>2, <1>3, <1>4, SMTT(60) DEF Outgoing

(* The tables that are referred to keep their columns and values.          *)
LEMMA StillRefers ==
  ASSUME NEW tables, NEW n, NEW u, Outgoing(tables, n, u), NEW others,
         \A k \in DOMAIN tables \ {n} :
           /\ k \in DOMAIN others /\ Names(tables[k]) \subseteq Names(others[k])
           /\ HoldsAll(others[k], tables[k], Names(tables[k]))
  PROVE  Outgoing(others, n, u)
BY DEF Outgoing, HoldsAll

LEMMA ReferentialMapped ==
  ASSUME NEW tables, Referential(tables), NEW others, DOMAIN others = DOMAIN tables,
         \A k \in DOMAIN tables :
           /\ Derived(others[k], tables[k]) /\ Names(tables[k]) \subseteq Names(others[k])
           /\ HoldsAll(others[k], tables[k], Names(tables[k]))
  PROVE  Referential(others)
<1> SUFFICES ASSUME NEW n \in DOMAIN tables PROVE Outgoing(others, n, others[n])
  BY DEF Referential
<1> DEFINE u == others[n]
<1>1. Outgoing(tables, n, tables[n])
  BY DEF Referential
<1>2. Outgoing(tables, n, u)
  BY <1>1, DerivedRefers
<1> HIDE DEF u
<1>3. Outgoing(others, n, u)
  BY <1>2, StillRefers
<1> QED BY <1>3 DEF u

LEMMA ReferentialWith ==
  ASSUME NEW tables, Referential(tables), NEW n \in DOMAIN tables, NEW u,
         Outgoing(tables, n, u), Incoming(tables, n, u),
         NEW others, others = [tables EXCEPT ![n] = u], tables = [k \in DOMAIN tables |-> tables[k]]
  PROVE  Referential(others)
<1>1. DOMAIN others = DOMAIN tables /\ others[n] = u /\ \A k \in DOMAIN tables \ {n} : others[k] = tables[k]
  OBVIOUS
<1>2. SUFFICES ASSUME NEW k \in DOMAIN tables PROVE Outgoing(others, k, others[k])
  BY <1>1 DEF Referential
<1>3. CASE k = n
  BY <1>1, <1>3 DEF Outgoing
<1>4. CASE k # n
  <2> SUFFICES ASSUME NEW i \in DOMAIN tables[k].columns, tables[k].columns[i].fk # None
      PROVE  LET fk == tables[k].columns[i].fk
             IN  /\ fk.table \in DOMAIN tables \ {k} /\ fk.column \in Names(others[fk.table])
                 /\ \A r \in DOMAIN tables[k].rows :
                      tables[k].rows[r][tables[k].columns[i].name] # Null =>
                        Holds(others[fk.table], fk.column, tables[k].rows[r][tables[k].columns[i].name])
    BY <1>1, <1>4 DEF Outgoing
  <2> DEFINE fk == tables[k].columns[i].fk
  <2>1. /\ fk.table \in DOMAIN tables \ {k} /\ fk.column \in Names(tables[fk.table])
        /\ \A r \in DOMAIN tables[k].rows :
             tables[k].rows[r][tables[k].columns[i].name] # Null =>
               Holds(tables[fk.table], fk.column, tables[k].rows[r][tables[k].columns[i].name])
    BY DEF Referential, Outgoing
  <2>2. CASE fk.table = n
    BY <1>1, <1>4, <2>1, <2>2 DEF Incoming
  <2>3. CASE fk.table # n
    BY <1>1, <2>1, <2>3
  <2> QED BY <2>2, <2>3
<1> QED BY <1>3, <1>4

(* A table that keeps the columns that are referred to, with their values.  *)
LEMMA StillReferred ==
  ASSUME NEW tables, Referential(tables), NEW n \in DOMAIN tables, NEW names, NEW u,
         names \subseteq Names(u), HoldsAll(u, tables[n], names),
         \A other \in DOMAIN tables \ {n} : \A i \in DOMAIN tables[other].columns :
           LET fk == tables[other].columns[i].fk
           IN  fk # None => ~(fk.table = n /\ fk.column \in Names(tables[n]) \ names)
  PROVE  Incoming(tables, n, u)
<1> SUFFICES ASSUME NEW other \in DOMAIN tables \ {n}, NEW i \in DOMAIN tables[other].columns,
                    tables[other].columns[i].fk # None, tables[other].columns[i].fk.table = n
    PROVE  LET column == tables[other].columns[i]
           IN  /\ column.fk.column \in Names(u)
               /\ \A r \in DOMAIN tables[other].rows :
                    tables[other].rows[r][column.name] # Null =>
                      Holds(u, column.fk.column, tables[other].rows[r][column.name])
  BY DEF Incoming
<1> DEFINE column == tables[other].columns[i]
<1>1. /\ column.fk.column \in Names(tables[n])
      /\ \A r \in DOMAIN tables[other].rows :
           tables[other].rows[r][column.name] # Null =>
             Holds(tables[n], column.fk.column, tables[other].rows[r][column.name])
  BY DEF Referential, Outgoing
<1>2. column.fk.column \in names
  BY <1>1
<1> QED BY <1>1, <1>2 DEF HoldsAll

(* cql_row_has_referencing_children looks for the values of the rows that   *)
(* go in every table that refers to this one.                              *)
LEMMA ReducedIsReferred ==
  ASSUME NEW n \in DOMAIN Tables, Referential(Tables), NEW u, Reduced(n, u)
  PROVE  Incoming(Tables, n, u)
<1> DEFINE t == Tables[n]
<1>1. PICK found : /\ ~ \E r \in found : Referenced(Tables, n, r)
                   /\ u.columns = t.columns
                   /\ \E g : Keeps(g, u, t, DOMAIN t.rows \ found)
  BY Zenon DEF Reduced
<1>2. PICK g : Keeps(g, u, t, DOMAIN t.rows \ found)
  BY <1>1
<1>3. Names(u) = Names(t)
  BY <1>1 DEF Names
<1>4. SUFFICES ASSUME NEW other \in DOMAIN Tables \ {n}, NEW i \in DOMAIN Tables[other].columns,
                      Tables[other].columns[i].fk # None, Tables[other].columns[i].fk.table = n
      PROVE  LET column == Tables[other].columns[i]
             IN  /\ column.fk.column \in Names(u)
                 /\ \A r \in DOMAIN Tables[other].rows :
                      Tables[other].rows[r][column.name] # Null =>
                        Holds(u, column.fk.column, Tables[other].rows[r][column.name])
  BY DEF Incoming
<1> DEFINE column == Tables[other].columns[i]
           c == column.fk.column
<1>5. /\ c \in Names(t)
      /\ \A r \in DOMAIN Tables[other].rows :
           Tables[other].rows[r][column.name] # Null => Holds(t, c, Tables[other].rows[r][column.name])
  BY <1>4 DEF Referential, Outgoing
<1>6. ASSUME NEW r \in DOMAIN Tables[other].rows, Tables[other].rows[r][column.name] # Null
      PROVE  Holds(u, c, Tables[other].rows[r][column.name])
  <2> DEFINE v == Tables[other].rows[r][column.name]
  <2>1. v # Null /\ Holds(t, c, v) /\ Holds(Tables[other], column.name, v)
    BY <1>5, <1>6 DEF Holds
  <2>2. PICK x \in DOMAIN t.rows : t.rows[x][c] = v
    BY <2>1 DEF Holds
  <2>3. ReferencesRow(Tables, n, x, other, column)
    BY <1>4, <1>5, <2>1, <2>2 DEF ReferencesRow
  <2>4. x \notin found
    BY <1>1, <2>3 DEF Referenced
  <2> HIDE DEF t, c, v
  <2>5. PICK y \in DOMAIN u.rows : g[y] = x /\ u.rows[y] = t.rows[g[y]]
    BY <1>2, <2>2, <2>4 DEF Keeps
  <2>6. Holds(u, c, v)
    BY <2>1, <2>2, <2>5 DEF Holds
  <2> QED BY <2>6 DEF v
<1> QED BY <1>3, <1>5, <1>6

(* A row that is added finds the values it refers to.                      *)
LEMMA LengthenedRefers ==
  ASSUME NEW n \in DOMAIN Tables, WellFormed(Tables[n]), Referential(Tables), NEW u, Lengthened(n, u)
  PROVE  Outgoing(Tables, n, u) /\ Incoming(Tables, n, u)
<1> DEFINE t == Tables[n]
           l == Len(t.rows)
<1>1. PICK row \in RowsOf(t) :
        /\ TRUE \in Validations(Tables, t, row)
        /\ SameColumns(u, t) /\ u.rows = Append(t.rows, row)
  BY DEF Lengthened
<1>2. l \in Nat /\ DOMAIN t.rows = 1 .. l /\ t.rows \in Seq(RowsOf(t))
  BY TableEquals
<1>3. /\ DOMAIN u.rows = 1 .. l + 1 /\ u.rows[l + 1] = row
      /\ \A r \in 1 .. l : u.rows[r] = t.rows[r]
  <2> DEFINE R == RowsOf(t)
  <2> HIDE DEF R
  <2>1. t.rows \in Seq(R) /\ row \in R /\ u.rows = Append(t.rows, row)
    BY <1>1, <1>2 DEF R
  <2> HIDE DEF t
  <2> QED BY <2>1
<1> HIDE DEF l
<1>4. \A r \in 1 .. l + 1 : r \in 1 .. l \/ r = l + 1
  BY <1>2
<1>5. \A r \in 1 .. l : r \in DOMAIN u.rows
  BY <1>2, <1>3
<1>6. Outgoing(Tables, n, u)
  <2> SUFFICES ASSUME NEW i \in DOMAIN u.columns, u.columns[i].fk # None
      PROVE  LET fk == u.columns[i].fk
             IN  /\ fk.table \in DOMAIN Tables \ {n} /\ fk.column \in Names(Tables[fk.table])
                 /\ \A r \in DOMAIN u.rows :
                      u.rows[r][u.columns[i].name] # Null =>
                        Holds(Tables[fk.table], fk.column, u.rows[r][u.columns[i].name])
    BY DEF Outgoing
  <2>1. /\ i \in DOMAIN t.columns /\ u.columns[i].name = t.columns[i].name
        /\ u.columns[i].fk = t.columns[i].fk
    BY <1>1 DEF SameColumns, Alike
  <2> DEFINE fk == t.columns[i].fk
             c == t.columns[i].name
  <2>2. /\ fk.table \in DOMAIN Tables \ {n} /\ fk.column \in Names(Tables[fk.table])
        /\ \A r \in DOMAIN t.rows :
             t.rows[r][c] # Null => Holds(Tables[fk.table], fk.column, t.rows[r][c])
    BY <2>1 DEF Referential, Outgoing
  <2>3. ~Rejects(Tables, t, t.columns[i], row[c])
    BY <1>1, <2>1, ValidRowFacts
  <2>4. row[c] # Null => Holds(Tables[fk.table], fk.column, row[c])
    BY <2>1, <2>3 DEF Rejects, ReferenceFound
  <2> HIDE DEF fk, c, t
  <2>5. \A r \in DOMAIN u.rows :
          u.rows[r][c] # Null => Holds(Tables[fk.table], fk.column, u.rows[r][c])
    BY <1>2, <1>3, <1>4, <2>2, <2>4
  <2> QED BY <2>1, <2>2, <2>5 DEF fk, c
<1>7. Names(u) = Names(t)
  BY <1>1, SameNames
<1>8. HoldsAll(u, t, Names(t))
  <2> HIDE DEF t
  <2> QED BY <1>2, <1>3, <1>5 DEF HoldsAll, Holds
<1>9. Incoming(Tables, n, u)
  <2> DEFINE names == Names(t)
  <2>1. names \subseteq Names(u) /\ HoldsAll(u, Tables[n], names) /\ Names(Tables[n]) \ names = {}
    BY <1>7, <1>8
  <2> HIDE DEF names
  <2> QED BY <2>1, StillReferred
<1> QED BY <1>6, <1>9

LEMMA RewrittenRefers ==
  ASSUME StructInv, "orphan" \notin Histories, NEW n, OnTable(n), NEW u, Rewritten(n, u),
         Referential(Tables)
  PROVE  Outgoing(Tables, n, u) /\ Incoming(Tables, n, u)
<1>1. n \in DOMAIN Tables
  BY DEF OnTable
<1>2. WellFormed(Tables[n])
  BY <1>1 DEF OnTable, StructInv, Structured, Tables
<1>3. Outgoing(Tables, n, Tables[n])
  BY <1>1 DEF Referential
<1>4. CASE Reworked(n, u)
  <2> DEFINE names == Names(Tables[n])
  <2>1. /\ Derived(u, Tables[n]) /\ names \subseteq Names(u) /\ HoldsAll(u, Tables[n], names)
        /\ Names(Tables[n]) \ names = {}
    BY <1>4 DEF Reworked
  <2> HIDE DEF names
  <2> QED BY <1>1, <1>3, <2>1, DerivedRefers, StillReferred
<1>5. CASE Narrowed(n, u)
  <2>1. PICK c \in Names(Tables[n]) :
          /\ NotReferenced(n, {c}) /\ Names(u) = Names(Tables[n]) \ {c}
          /\ Derived(u, Tables[n]) /\ HoldsAll(u, Tables[n], Names(Tables[n]) \ {c})
    BY <1>5 DEF Narrowed
  <2> DEFINE names == Names(Tables[n]) \ {c}
  <2>2. Outgoing(Tables, n, u)
    BY <1>3, <2>1, DerivedRefers
  <2>3. /\ names \subseteq Names(u) /\ HoldsAll(u, Tables[n], names)
        /\ \A x : x \in Names(Tables[n]) \ names => x = c
    BY <2>1
  <2>4. \A other \in DOMAIN Tables \ {n} : \A i \in DOMAIN Tables[other].columns :
          LET fk == Tables[other].columns[i].fk
          IN  fk # None => ~(fk.table = n /\ fk.column = c)
    BY <2>1 DEF NotReferenced
  <2> HIDE DEF names
  <2>5. \A other \in DOMAIN Tables \ {n} : \A i \in DOMAIN Tables[other].columns :
          LET fk == Tables[other].columns[i].fk
          IN  fk # None => ~(fk.table = n /\ fk.column \in Names(Tables[n]) \ names)
    BY <2>3, <2>4
  <2>6. Incoming(Tables, n, u)
    BY <1>1, <2>3, <2>5, StillReferred
  <2> QED BY <2>2, <2>6
<1>6. CASE Lengthened(n, u)
  BY <1>1, <1>2, <1>6, LengthenedRefers
<1>7. CASE Reduced(n, u)
  BY <1>1, <1>3, <1>7, ReducedIsDerived, ReducedIsReferred, DerivedRefers
<1>8. CASE Replaced(n, u)
  <2>1. Outgoing(Tables, n, u)
    BY <1>8 DEF Replaced, Outgoing, Free
  <2>2. \A other \in DOMAIN Tables \ {n} : \A i \in DOMAIN Tables[other].columns :
          LET fk == Tables[other].columns[i].fk
          IN  fk # None => ~(fk.table = n /\ fk.column \in Names(Tables[n]))
    BY <1>8 DEF Replaced, NotReferenced
  <2>3. \A other \in DOMAIN Tables \ {n} : \A i \in DOMAIN Tables[other].columns :
          LET fk == Tables[other].columns[i].fk
          IN  fk # None => (fk.table = n => fk.column \in Names(Tables[n]))
    BY DEF Referential, Outgoing
  <2>4. Incoming(Tables, n, u)
    BY <2>2, <2>3 DEF Incoming
  <2> QED BY <2>1, <2>4
<1> QED BY <1>4, <1>5, <1>6, <1>7, <1>8 DEF Rewritten

LinkInv ==
  /\ \A d \in DOMAIN mem : Referential(mem[d]) /\ DOMAIN disk[d] \subseteq DOMAIN mem[d]
  /\ \A d \in Databases : Referential(disk[d])

(* cql_table_validate_row_constraints, cql_row_has_referencing_children: a  *)
(* value that references a column is found there, in memory and so after a  *)
(* restart, unless a referenced column or table was dropped, renamed or     *)
(* replaced ("orphan"), a renamed table's directory stayed behind ("ghost") *)
(* or a database was made where there was one on disk ("shadow").          *)
THEOREM ReferencesAreFound ==
  ASSUME "orphan" \notin Histories, "ghost" \notin Histories, "shadow" \notin Histories
  PROVE  Spec => []ReferencesHold
<1>1. Init => LinkInv
  <2> SUFFICES ASSUME Init PROVE LinkInv
    OBVIOUS
  <2>1. DOMAIN mem = {} /\ disk = AtStart
    BY DEF Init, Empty
  <2>2. \A d \in Databases : Referential(AtStart[d])
    BY StartAssumption, ReferentialMeans
  <2> QED BY <2>1, <2>2 DEF LinkInv
<1>2. StructInv /\ LinkInv /\ [Next]_vars => LinkInv'
  <2> SUFFICES ASSUME StructInv, LinkInv, [Next]_vars PROVE LinkInv'
    OBVIOUS
  <2>0. LinkInv' <=>
          /\ \A d \in DOMAIN mem' : Referential(mem'[d]) /\ DOMAIN disk'[d] \subseteq DOMAIN mem'[d]
          /\ \A d \in Databases : Referential(disk'[d])
    BY DEF LinkInv
  <2>1. ASSUME UNCHANGED <<mem, disk>> PROVE LinkInv'
    BY <2>0, <2>1 DEF LinkInv
  <2>2. ASSUME Done PROVE LinkInv'
    <3>1. /\ mem' = [d \in DOMAIN mem |-> Relabelling(mem[d])]
          /\ disk' = [d \in Databases |-> IF d = current THEN Merged(mem[d], disk[d]) ELSE disk[d]]
      BY <2>2, DoneFacts
    <3>2. ASSUME NEW d \in DOMAIN mem
          PROVE  /\ Referential(Relabelling(mem[d])) /\ DOMAIN Relabelling(mem[d]) = DOMAIN mem[d]
                 /\ Referential(Merged(mem[d], disk[d]))
                 /\ DOMAIN Merged(mem[d], disk[d]) = DOMAIN mem[d]
      <4> DEFINE tables == mem[d]
                 a == Relabelling(tables)
                 b == Merged(tables, disk[d])
      <4>1. Referential(tables) /\ DOMAIN disk[d] \subseteq DOMAIN tables
            /\ \A n \in DOMAIN tables : WellFormed(tables[n])
        BY DEF LinkInv, StructInv, Structured
      <4>2. DOMAIN a = DOMAIN tables /\ \A n \in DOMAIN tables : a[n] = Released(tables[n])
        BY DEF Relabelling
      <4>3. DOMAIN b = DOMAIN tables /\ \A n \in DOMAIN tables : b[n] = Saved(tables[n])
        BY <4>1 DEF Merged
      <4> HIDE DEF a, b, tables
      <4>4. \A n \in DOMAIN tables :
              /\ Derived(a[n], tables[n]) /\ Names(tables[n]) \subseteq Names(a[n])
              /\ HoldsAll(a[n], tables[n], Names(tables[n]))
        BY <4>1, <4>2, ReleasedFacts
      <4>5. \A n \in DOMAIN tables :
              /\ Derived(b[n], tables[n]) /\ Names(tables[n]) \subseteq Names(b[n])
              /\ HoldsAll(b[n], tables[n], Names(tables[n]))
        BY <4>1, <4>3, ReleasedFacts
      <4>6. Referential(a) /\ Referential(b)
        BY <4>1, <4>2, <4>3, <4>4, <4>5, ReferentialMapped
      <4> QED BY <4>2, <4>3, <4>6 DEF a, b, tables
    <3>3. \A d \in Databases : d = current => d \in DOMAIN mem
      BY StatementsAssumption DEF StructInv
    <3>4. DOMAIN mem \subseteq Databases
      BY DEF StructInv
    <3>5. ASSUME NEW d \in DOMAIN mem
          PROVE  Referential(mem'[d]) /\ DOMAIN disk'[d] \subseteq DOMAIN mem'[d]
      BY <3>1, <3>2, <3>4 DEF LinkInv
    <3>6. ASSUME NEW d \in Databases PROVE Referential(disk'[d])
      BY <3>1, <3>2, <3>3 DEF LinkInv
    <3> QED BY <2>0, <3>1, <3>5, <3>6
  <2>3. CASE Restart
    <3>1. DOMAIN mem' = {} /\ disk' = disk
      BY <2>3 DEF Restart, Empty
    <3> QED BY <2>0, <3>1 DEF LinkInv
  <2>4. ASSUME NEW d \in Databases, Use(d) PROVE LinkInv'
    <3>1. (mem' = mem \/ mem' = Put(mem, d, disk[d])) /\ disk' = disk
      BY <2>4 DEF Use
    <3> QED BY <2>0, <3>1 DEF LinkInv, Put
  <2>5. ASSUME NEW d \in Databases, CreateDatabase(d) PROVE LinkInv'
    <3>1. mem' = Put(mem, d, Empty) /\ disk' = disk /\ disk[d] = Empty
      BY <2>5 DEF CreateDatabase
    <3>2. Referential(Empty)
      BY DEF Referential, Empty
    <3> QED BY <2>0, <3>1, <3>2 DEF LinkInv, Put
  <2>6. ASSUME NEW tables, current # None, SetTables(tables), Referential(tables),
               DOMAIN disk[current] \subseteq DOMAIN tables
        PROVE  LinkInv'
    <3>1. mem' = [d \in DOMAIN mem |-> IF d = current THEN tables ELSE mem[d]] /\ disk' = disk
      BY <2>6, SetTablesFacts
    <3> QED BY <2>0, <2>6, <3>1 DEF LinkInv
  <2>7. current # None =>
          /\ Referential(Tables) /\ DOMAIN disk[current] \subseteq DOMAIN Tables
          /\ Tables = [n \in DOMAIN Tables |-> Tables[n]]
    BY DEF StructInv, Structured, LinkInv, Tables
  <2>8. ASSUME OnTables PROVE LinkInv'
    <3>1. ASSUME NEW n, NEW u, OnTable(n), Rewritten(n, u), SetTable(n, u) PROVE LinkInv'
      <4> DEFINE tables == [Tables EXCEPT ![n] = u]
      <4>1. current # None /\ n \in DOMAIN Tables /\ SetTables(tables)
        BY <3>1 DEF OnTable, SetTable
      <4>2. Outgoing(Tables, n, u) /\ Incoming(Tables, n, u)
        BY <2>7, <3>1, <4>1, RewrittenRefers
      <4>3. tables = [Tables EXCEPT ![n] = u] /\ DOMAIN tables = DOMAIN Tables
        OBVIOUS
      <4> HIDE DEF tables
      <4>4. Referential(tables)
        BY <2>7, <4>1, <4>2, <4>3, ReferentialWith
      <4> QED BY <2>6, <2>7, <4>1, <4>3, <4>4
    <3>2. ASSUME NEW n \in TableNames, NEW schema \in Schemas[n].tables, CreateTable(n, schema)
          PROVE  LinkInv'
      <4>1. PICK t : /\ t.rows = <<>> /\ DOMAIN t.columns = DOMAIN schema
                     /\ \A i \in DOMAIN schema :
                          schema[i] \in Definitions /\ t.columns[i] = NewColumn(schema[i])
                     /\ current # None /\ n \notin DOMAIN Tables /\ SetTables(Put(Tables, n, t))
        BY <3>2, CreateTableFacts
      <4> DEFINE tables == Put(Tables, n, t)
      <4>2. /\ DOMAIN tables = DOMAIN Tables \cup {n} /\ tables[n] = t
            /\ \A k \in DOMAIN Tables : tables[k] = Tables[k]
        BY <4>1 DEF Put
      <4>3. SetTables(tables)
        BY <4>1
      <4> HIDE DEF tables
      <4>4. Outgoing(tables, n, t)
        <5> SUFFICES ASSUME NEW i \in DOMAIN schema, t.columns[i].fk # None
            PROVE  LET fk == t.columns[i].fk
                   IN  fk.table \in DOMAIN tables \ {n} /\ fk.column \in Names(tables[fk.table])
          BY <4>1 DEF Outgoing
        <5>1. LET fk == t.columns[i].fk
              IN  fk.table \in DOMAIN Tables /\ fk.column \in Names(Tables[fk.table])
          BY <4>1, NewColumnFacts
        <5> QED BY <4>1, <4>2, <5>1
      <4>5. ASSUME NEW k \in DOMAIN Tables PROVE Outgoing(tables, k, Tables[k])
        <5>1. Outgoing(Tables, k, Tables[k])
          BY <2>7, <4>1 DEF Referential
        <5>2. \A x \in DOMAIN Tables : HoldsAll(tables[x], Tables[x], Names(Tables[x]))
          BY <4>2 DEF HoldsAll
        <5> QED BY <4>2, <5>1, <5>2, StillRefers
      <4>6. Referential(tables)
        BY <4>2, <4>4, <4>5 DEF Referential
      <4> QED BY <2>6, <2>7, <4>1, <4>2, <4>3, <4>6
    <3>3. ASSUME NEW n \in TableNames, NEW new \in TableNames, Rename(n, new) PROVE LinkInv'
      <4> DEFINE tables == [k \in (DOMAIN Tables \ {n}) \cup {new} |->
                              IF k = new THEN Tables[n] ELSE Tables[k]]
      <4>1. /\ current # None /\ n \in DOMAIN Tables /\ new \notin DOMAIN Tables
            /\ NotReferenced(n, Names(Tables[n])) /\ n \notin DOMAIN disk[current]
            /\ SetTables(tables)
        BY <3>3, RenameFacts
      <4>2. /\ DOMAIN tables = (DOMAIN Tables \ {n}) \cup {new} /\ tables[new] = Tables[n]
            /\ \A k \in DOMAIN Tables \ {n} : tables[k] = Tables[k]
        BY <4>1
      <4> HIDE DEF tables
      <4>3. \A x \in DOMAIN Tables \ {n} : HoldsAll(tables[x], Tables[x], Names(Tables[x]))
        BY <4>2 DEF HoldsAll
      <4>4. Outgoing(tables, new, Tables[n])
        <5>1. Outgoing(Tables, n, Tables[n])
          BY <2>7, <4>1 DEF Referential
        <5>2. Outgoing(tables, n, Tables[n])
          BY <4>2, <4>3, <5>1, StillRefers
        <5> QED BY <4>1, <4>2, <5>1, <5>2 DEF Outgoing
      <4>5. ASSUME NEW k \in DOMAIN Tables \ {n} PROVE Outgoing(tables, k, tables[k])
        <5>1. Outgoing(Tables, k, Tables[k])
          BY <2>7, <4>1 DEF Referential
        <5>2. \A i \in DOMAIN Tables[k].columns :
                Tables[k].columns[i].fk # None => Tables[k].columns[i].fk.table # n
          BY <4>1, <5>1 DEF NotReferenced, Outgoing
        <5> QED BY <4>2, <5>1, <5>2, SMTT(60) DEF Outgoing
      <4>6. Referential(tables)
        BY <4>2, <4>4, <4>5 DEF Referential
      <4>7. DOMAIN disk[current] \subseteq DOMAIN tables
        BY <2>7, <4>1, <4>2
      <4> QED BY <2>6, <4>1, <4>6, <4>7
    <3>4. ASSUME Rejected PROVE LinkInv'
      BY <2>2, <3>4 DEF Rejected
    <3>5. ASSUME UNCHANGED <<mem, disk, current, at>> PROVE LinkInv'
      BY <2>1, <3>5
    <3> QED BY <2>8, <3>1, <3>2, <3>3, <3>4, <3>5, OnTablesShape
  <2>9. CASE End
    BY <2>2, <2>9 DEF End
  <2>10. CASE Begin
    BY <2>1, <2>10 DEF Begin
  <2>11. CASE UNCHANGED vars
    BY <2>1, <2>11 DEF vars
  <2> QED BY <2>3, <2>4, <2>5, <2>8, <2>9, <2>10, <2>11 DEF Next
<1>3. LinkInv => ReferencesHold
  BY ReferentialMeans DEF LinkInv, ReferencesHold
<1> QED BY <1>1, <1>2, <1>3, TablesWellFormed, PTL DEF Spec
===============================================================================
