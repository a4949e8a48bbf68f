------------------------------ MODULE TableFiles ------------------------------
(***************************************************************************)
(* One table and its files (src/src/cql/cql.c): .meta with the number of    *)
(* rows and the names of columns, NULL columns and indexes, and per column  *)
(* a .dat and perhaps a .null, per index an .idx.  A save opens them, which *)
(* truncates them, and writes them, one after the other; an open may fail,  *)
(* and the process may stop between any two of these steps; a load puts     *)
(* together what is there.  The columns are of those kept in memory.        *)
(***************************************************************************)
EXTENDS IndexOrder, SequencesExt

CONSTANTS
  ColumnNames, IndexNames,
  Declared,          (* per column name, the constraints, the decimal scale    *)
                     (* and the enum type that CREATE TABLE gives it          *)
  Values,            (* 0 is also what the memory of an unused row holds       *)
  MaxRows,           (* bound: rows of the table                              *)
  Capacities,        (* the sizes a column grows through: none, then           *)
                     (* column_expand_count, then twice as much each time or  *)
                     (* column_max_grow_by_size more                          *)
  MaxStatements, MaxQueries,
  Faults,            (* of "open", "crash"                                    *)
  Null, None

ASSUME TableFilesAssumption ==
  /\ IsFiniteSet(ColumnNames) /\ None \notin Seq(BOOLEAN)
  /\ 0 \in Values /\ Values \subseteq Int /\ Null \notin Values
  /\ MaxRows \in Nat /\ Capacities \subseteq Nat
  /\ \A n \in 0 .. MaxRows : \E k \in Capacities :
       n <= k /\ \A j \in Capacities : n <= j => k <= j
  /\ MaxStatements \in Nat /\ MaxQueries \in Nat
  /\ Faults \subseteq {"open", "crash"}

VARIABLES
  table,       (* row_count, columns and indexes in memory                    *)
  files,       (* what the table's directory holds                            *)
  at,          (* "idle", "query", "save", "unreadable"                       *)
  todo,        (* the files the save has still to write                      *)
  emptied,     (* the first of them is open, truncated and not yet written   *)
  errors,      (* the query logged an error                                   *)
  saved,       (* history: the table of the last save without an error       *)
  since,       (* history: what happened to the table since then: "append",   *)
               (* "grow" (a column's capacity), "remove", "schema", "index",  *)
               (* "lost" (loaded from what a save that failed or was stopped  *)
               (* has left), "torn" (stopped with a truncated file)           *)
  statements, queries

vars == <<table, files, at, todo, emptied, errors, saved, since, statements, queries>>

-------------------------------------------------------------------------------
(* The table in memory.                                                    *)

Names(t) == {t.columns[i].name : i \in DOMAIN t.columns}
ColumnOf(t, c) == t.columns[CHOOSE i \in DOMAIN t.columns : t.columns[i].name = c]
Stored(v) == IF v = Null THEN 0 ELSE v

(* The capacity after rows were added up to n (cql_column_add_data).        *)
CapacityFor(n) == CHOOSE k \in Capacities : n <= k /\ \A j \in Capacities : n <= j => k <= j

NewColumn(c, count, declared) ==
  [name |-> c, declared |-> declared, data |-> [r \in 1 .. count |-> 0], null_flags |-> None,
   capacity |-> CapacityFor(count)]

(* cql_column_add_data_maybe_null: the flags begin with the first NULL.     *)
FlagsWith(column, v) ==
  CASE column.null_flags # None -> Append(column.null_flags, v = Null)
    [] column.null_flags = None /\ v = Null ->
         [r \in 1 .. Len(column.data) + 1 |-> r > Len(column.data)]
    [] OTHER -> None
AddValue(column, v) ==
  [column EXCEPT !.data = Append(@, Stored(v)), !.null_flags = FlagsWith(column, v),
                 !.capacity = IF Len(column.data) = @ THEN CapacityFor(@ + 1) ELSE @]
RemoveValue(column, r) ==
  [column EXCEPT !.data = RemoveAt(@, r),
                 !.null_flags = IF @ = None THEN None ELSE RemoveAt(@, r)]

Grown(t, row) ==
  [t EXCEPT !.columns = [i \in DOMAIN @ |-> AddValue(@[i], row[@[i].name])],
            !.row_count = @ + 1]
Extended(x, t) ==
  [x EXCEPT !.order = InsertRow(@, ColumnOf(t, x.column).data, t.row_count)]
AddRow(t, row) ==
  LET g == Grown(t, row)
  IN  [g EXCEPT !.indexes = [i \in DOMAIN @ |-> Extended(@[i], g)]]
Shortened(x, r) == [x EXCEPT !.order = RemoveRow(@, r)]
RemoveTableRow(t, r) ==
  [t EXCEPT !.row_count = @ - 1,
            !.columns = [i \in DOMAIN @ |-> RemoveValue(@[i], r)],
            !.indexes = [i \in DOMAIN @ |-> Shortened(@[i], r)]]

-------------------------------------------------------------------------------
(* Saving: the files a table is written to, in the order of cql_table_save. *)

Put(f, x, y) == [z \in DOMAIN f \cup {x} |-> IF z = x THEN y ELSE f[z]]
Drop(f, gone) == [z \in DOMAIN f \ gone |-> f[z]]

DeclaredIn(t) ==
  [c \in {n \in Names(t) : ColumnOf(t, n).declared # None} |-> ColumnOf(t, c).declared]
MetaOf(t) ==
  [row_count |-> t.row_count,
   columns   |-> [i \in DOMAIN t.columns |-> t.columns[i].name],
   capacity  |-> [c \in Names(t) |-> ColumnOf(t, c).capacity],
   declared  |-> DeclaredIn(t),
   nulls     |-> {c \in Names(t) : ColumnOf(t, c).null_flags # None},
   indexes   |-> [i \in DOMAIN t.indexes |->
                    [name |-> t.indexes[i].name, column |-> t.indexes[i].column]]]

MetaWrite(t) == [file |-> "meta", name |-> None, content |-> MetaOf(t)]
DataWrite(column) ==
  [file |-> "dat", name |-> column.name,
   content |-> [rows |-> column.data, size |-> column.capacity]]
FlagsWrite(column) == [file |-> "null", name |-> column.name, content |-> column.null_flags]
IndexWrite(index) == [file |-> "idx", name |-> index.name, content |-> index.order]

ColumnWrites(column) ==
  IF column.null_flags = None THEN <<DataWrite(column)>>
  ELSE <<DataWrite(column), FlagsWrite(column)>>
IndexWrites(t) == [i \in DOMAIN t.indexes |-> IndexWrite(t.indexes[i])]

ColumnsWrites(columns) ==
  LET first[k \in 0 .. Len(columns)] ==       (* the files of the first k columns *)
        IF k = 0 THEN <<>> ELSE first[k - 1] \o ColumnWrites(columns[k])
  IN  first[Len(columns)]
Writes(t) ==
  <<MetaWrite(t)>> \o ColumnsWrites(t.columns) \o IndexWrites(t)

Written(fs, w) ==
  CASE w.file = "meta" -> [fs EXCEPT !.meta = w.content]
    [] w.file = "dat"  -> [fs EXCEPT !.dat = Put(@, w.name, w.content)]
    [] w.file = "null" -> [fs EXCEPT !.null = Put(@, w.name, w.content)]
    [] w.file = "idx"  -> [fs EXCEPT !.idx = Put(@, w.name, w.content)]

(* The file of w, opened and truncated.                                    *)
Empty == [rows |-> <<>>, size |-> 0]
Emptied(w) == [w EXCEPT !.content = IF w.file = "dat" THEN Empty ELSE <<>>]

(* What is left to write of table t after a file that could not be opened:  *)
(* nothing after .meta, only the indexes after a .dat.                      *)
AfterFailure(writes, t) ==
  CASE writes[1].file = "meta" -> <<>>
    [] writes[1].file = "dat" -> IndexWrites(t)
    [] OTHER -> Tail(writes)

-------------------------------------------------------------------------------
(* Loading (cql_table_load).                                               *)

(* A .meta that is empty gives no table.  A .dat that is missing ends the   *)
(* loop over the columns, and one that is empty leaves no data under a      *)
(* capacity: the first use of the column is a fault.                       *)
Lost(fs) ==
  \/ fs.meta = <<>>
  \/ \E i \in DOMAIN fs.meta.columns :
       LET c == fs.meta.columns[i]
       IN  \/ c \notin DOMAIN fs.dat
           \/ fs.dat[c].size = 0 /\ fs.meta.capacity[c] > 0

(* As many bytes are copied as .meta has capacity for; those behind the end *)
(* of the .dat file's view are bytes of nothing, or a fault.                *)
Short(fs) ==
  /\ fs.meta # <<>>
  /\ \E i \in DOMAIN fs.meta.columns :
       LET c == fs.meta.columns[i]
       IN  c \in DOMAIN fs.dat /\ fs.dat[c].size < fs.meta.capacity[c]

Whole(fs) == ~Lost(fs) /\ ~Short(fs)

(* The rows the file has, and whatever the memory it was written from or    *)
(* the view it is read through has behind them.                            *)
LoadedData(fs, c) ==
  LET count == fs.meta.row_count
      rows  == fs.dat[c].rows
  IN  {data \in [1 .. count -> Values] :
         \A r \in 1 .. count : r <= Len(rows) => data[r] = rows[r]}

FlagsIn(fs, c) == IF c \in DOMAIN fs.null THEN fs.null[c] ELSE <<>>
LoadedFlags(fs, c) ==
  IF c \in fs.meta.nulls /\ Len(FlagsIn(fs, c)) >= fs.meta.row_count
  THEN SubSeq(FlagsIn(fs, c), 1, fs.meta.row_count)
  ELSE None

LoadedDeclared(fs, c) == IF c \in DOMAIN fs.meta.declared THEN fs.meta.declared[c] ELSE None

(* Mutant of LoadedColumn: the rows are read from behind the first one. *)
LoadedColumnAfterHeader(fs, c, data) ==
  [name |-> c, declared |-> LoadedDeclared(fs, c), capacity |-> fs.meta.capacity[c],
   data |-> [r \in DOMAIN data |-> IF r < Len(data) THEN data[r + 1] ELSE 0],
   null_flags |-> LoadedFlags(fs, c)]
LoadedColumn(fs, c, data) ==
  [name |-> c, declared |-> LoadedDeclared(fs, c), capacity |-> fs.meta.capacity[c],
   data |-> data, null_flags |-> LoadedFlags(fs, c)]

LoadedOrders(fs, index, data) ==
  IF index.name \in DOMAIN fs.idx /\ Len(fs.idx[index.name]) = fs.meta.row_count
  THEN {fs.idx[index.name]}
  ELSE Orders(data)

DataChoices(fs) ==
  LET names == DOMAIN fs.meta.capacity
  IN  {data \in [names -> UNION {LoadedData(fs, c) : c \in names}] :
         \A c \in names : data[c] \in LoadedData(fs, c)}
OrdersAt(fs, data, i) ==
  LoadedOrders(fs, fs.meta.indexes[i], data[fs.meta.indexes[i].column])
OrderChoices(fs, data) ==
  LET indexes == DOMAIN fs.meta.indexes
  IN  {orders \in [indexes -> UNION {OrdersAt(fs, data, i) : i \in indexes}] :
         \A i \in indexes : orders[i] \in OrdersAt(fs, data, i)}

Loaded(fs, data, orders) ==
  [row_count |-> fs.meta.row_count,
   columns   |-> [i \in DOMAIN fs.meta.columns |->
                    LoadedColumn(fs, fs.meta.columns[i], data[fs.meta.columns[i]])],
   indexes   |-> [i \in DOMAIN fs.meta.indexes |->
                    [name |-> fs.meta.indexes[i].name, column |-> fs.meta.indexes[i].column,
                     order |-> orders[i]]]]
LoadedTables(fs) ==
  UNION {{Loaded(fs, data, orders) : orders \in OrderChoices(fs, data)} :
           data \in DataChoices(fs)}

-------------------------------------------------------------------------------
(* Queries: statements, then the save.                                     *)

(* After the query that created the table and saved it.                    *)
Created ==
  [row_count |-> 0, indexes |-> <<>>,
   columns |-> LET names == SetToSeq(ColumnNames)
               IN  [i \in DOMAIN names |-> NewColumn(names[i], 0, Declared[names[i]])]]
CreatedFiles ==
  [meta |-> MetaOf(Created), dat |-> [c \in ColumnNames |-> [rows |-> <<>>, size |-> CapacityFor(0)]], null |-> <<>>, idx |-> <<>>]

Init ==
  /\ table = Created /\ files = CreatedFiles
  /\ at = "idle" /\ todo = <<>> /\ emptied = FALSE /\ errors = FALSE
  /\ saved = Created /\ since = {}
  /\ statements = 0 /\ queries = 0

Begin ==
  /\ at = "idle" /\ queries < MaxQueries
  /\ at' = "query" /\ errors' = FALSE /\ queries' = queries + 1
  /\ UNCHANGED <<table, files, todo, emptied, saved, since, statements>>

Change(t, kinds) ==
  /\ at = "query" /\ statements < MaxStatements
  /\ table' = t /\ since' = since \cup kinds /\ statements' = statements + 1
  /\ UNCHANGED <<at, todo, emptied, errors, saved, queries>>

Full(t) == {i \in DOMAIN t.columns : t.columns[i].capacity = t.row_count}
Insert ==
  /\ table.row_count < MaxRows
  /\ \E row \in [Names(table) -> Values \cup {Null}] :
       Change(AddRow(table, row), IF Full(table) = {} THEN {"append"} ELSE {"append", "grow"})
  /\ UNCHANGED files

Delete ==
  /\ \E r \in 1 .. table.row_count : Change(RemoveTableRow(table, r), {"remove"})
  /\ UNCHANGED files

(* A new column is NULL in the rows there are.                             *)
WithColumn(t, c) ==
  LET new == NewColumn(c, t.row_count, None)
  IN  [t EXCEPT !.columns = Append(@,
         IF t.row_count = 0 THEN new
         ELSE [new EXCEPT !.null_flags = [r \in 1 .. t.row_count |-> TRUE]])]
AddColumn ==
  /\ \E c \in ColumnNames \ Names(table) : Change(WithColumn(table, c), {"schema"})
  /\ UNCHANGED files

(* cql_table_remove_column: its indexes and its .dat are deleted at once.   *)
DropColumnKeepingIndexes ==
  \E i \in DOMAIN table.columns :
    /\ Change([table EXCEPT !.columns = RemoveAt(@, i)], {"schema"})
    /\ files' = [files EXCEPT !.dat = Drop(@, {table.columns[i].name})]
WithoutColumn(t, i) ==
  [t EXCEPT !.columns = RemoveAt(@, i),
            !.indexes = IndexesWithout(@, t.columns[i].name)]
IndexesOf(t, c) == {t.indexes[k].name : k \in {j \in DOMAIN t.indexes : t.indexes[j].column = c}}
DropColumn ==
  \E i \in DOMAIN table.columns :
    LET c == table.columns[i].name
    IN  /\ Change(WithoutColumn(table, i), {"schema"})
        /\ files' = [files EXCEPT !.dat = Drop(@, {c}), !.idx = Drop(@, IndexesOf(table, c))]

WithIndex(t, x, c, order) ==
  [t EXCEPT !.indexes = Append(@, [name |-> x, column |-> c, order |-> order])]
CreateIndex ==
  /\ \E x \in IndexNames \ {table.indexes[i].name : i \in DOMAIN table.indexes},
        c \in Names(table) : \E order \in Orders(ColumnOf(table, c).data) :
       Change(WithIndex(table, x, c, order), {"index"})
  /\ UNCHANGED files

WithoutIndex(t, i) == [t EXCEPT !.indexes = RemoveAt(@, i)]
DropIndex ==
  \E i \in DOMAIN table.indexes :
    /\ Change(WithoutIndex(table, i), {"index"})
    /\ files' = [files EXCEPT !.idx = Drop(@, {table.indexes[i].name})]

BeginSave ==
  /\ at = "query"
  /\ at' = "save" /\ todo' = Writes(table)
  /\ UNCHANGED <<table, files, emptied, errors, saved, since, statements, queries>>

(* os_file_open for writing creates the file anew: it is empty from here on *)
(* until os_file_write has written it.                                     *)
Truncate ==
  /\ at = "save" /\ todo # <<>> /\ ~emptied
  /\ files' = Written(files, Emptied(todo[1])) /\ emptied' = TRUE
  /\ UNCHANGED <<table, at, todo, errors, saved, since, statements, queries>>

Write ==
  /\ at = "save" /\ todo # <<>> /\ emptied
  /\ files' = Written(files, todo[1]) /\ todo' = Tail(todo) /\ emptied' = FALSE
  /\ UNCHANGED <<table, at, errors, saved, since, statements, queries>>

WriteFailsQuietly ==
  /\ at = "save" /\ todo # <<>> /\ ~emptied /\ "open" \in Faults
  /\ todo' = AfterFailure(todo, table) /\ errors' = (errors \/ todo[1].file # "null")
  /\ UNCHANGED <<table, files, at, emptied, saved, since, statements, queries>>
WriteFails ==
  /\ at = "save" /\ todo # <<>> /\ ~emptied /\ "open" \in Faults
  /\ todo' = AfterFailure(todo, table) /\ errors' = TRUE
  /\ UNCHANGED <<table, files, at, emptied, saved, since, statements, queries>>

EndSave ==
  /\ at = "save" /\ todo = <<>>
  /\ at' = "idle"
  /\ saved' = (IF errors THEN saved ELSE table) /\ since' = (IF errors THEN since ELSE since \cap {"lost"})
  /\ UNCHANGED <<table, files, todo, emptied, errors, statements, queries>>

(* The process stops, between queries or anywhere in one, and is started    *)
(* again; what was done since the last good save may be half there.         *)
Restart ==
  /\ at # "unreadable" /\ (at # "idle" => "crash" \in Faults)
  /\ todo' = <<>> /\ emptied' = FALSE /\ errors' = (errors \/ at # "idle")
  /\ \/ ~Whole(files) /\ at' = "unreadable" /\ UNCHANGED table
     \/ ~Lost(files) /\ at' = "idle" /\ table' \in LoadedTables(files)
  /\ since' = since \cup (IF emptied THEN {"lost", "torn"}
                         ELSE IF errors' /\ since # {} THEN {"lost"} ELSE {})
  /\ UNCHANGED <<files, saved, statements, queries>>

Next ==
  \/ Begin \/ Insert \/ Delete \/ AddColumn \/ DropColumn \/ CreateIndex \/ DropIndex
  \/ BeginSave \/ Truncate \/ Write \/ WriteFails \/ EndSave \/ Restart

Spec == Init /\ [][Next]_vars

-------------------------------------------------------------------------------
(* A query that ended without an error is on disk: a restart at that moment *)
(* finds the same columns, rows, NULLs and index orders as the memory,      *)
(* whatever files earlier saves, failed saves and dropped columns left.     *)
ReportedSaved ==
  at = "idle" /\ ~errors =>
    Whole(files) /\ LoadedTables(files) = {table}

(* Every index is of a column of the table and lists its rows in order,     *)
(* unless the table was loaded from what an unfinished save left.           *)
IndexSound ==
  at # "unreadable" /\ "lost" \notin since =>
    \A i \in DOMAIN table.indexes :
      /\ table.indexes[i].column \in Names(table)
      /\ Sorted(table.indexes[i].order, ColumnOf(table, table.indexes[i].column).data)

(* While rows have only been appended since the last good save, stopping    *)
(* between two files of a save, or after one that could not be opened,      *)
(* leaves a table whose first rows are those of that save; and all of it    *)
(* can be read unless an append made a column grow.  Not so while a file is *)
(* truncated and not written yet.                                          *)
AppendsKeepRows ==
  since \subseteq {"append", "grow", "index", "lost"} /\ ~emptied =>
    /\ saved.row_count > 0 => ~Lost(files)
    /\ "grow" \notin since => Whole(files)
    /\ ~Lost(files) => \A t \in LoadedTables(files) :
         /\ t.row_count >= saved.row_count
         /\ \A i \in DOMAIN saved.columns :
              /\ saved.columns[i].name \in Names(t)
              /\ SubSeq(ColumnOf(t, saved.columns[i].name).data, 1, saved.row_count)
                   = saved.columns[i].data
===============================================================================
