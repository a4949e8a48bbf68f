------------------------------ MODULE Statements ------------------------------
(***************************************************************************)
(* The statements that change a database (app_execute_query_capture of      *)
(* src/src/application.c) with the constraints they check and the tables    *)
(* and indexes they work on (src/src/cql/cql.c).  A query is a sequence of  *)
(* statements on the session's database, which is saved when the query      *)
(* ends.  A value of a column is NULL or a number; a saved table is read    *)
(* back as it was written (how its files are written is TableFiles).        *)
(***************************************************************************)
EXTENDS IndexOrder, FiniteSets, SequencesExt

CONSTANTS
  Databases, TableNames, ColumnNames, IndexNames,
  Schemas,      (* the column definitions CREATE TABLE is given, with the     *)
                (* names of the columns a schema may grow by                 *)
  Values,       (* the values of a column; a NULL is stored as 0             *)
  Allowed,      (* the values the CHECK expression accepts                   *)
  AtStart,      (* the database on disk at the start, with its tables        *)
  Histories,    (* "freed", "orphan", "ghost", "shadow", "switch": below     *)
  MaxRows, MaxFile, MaxStatements, MaxRestarts,  (* bounds: rows of a table,  *)
                (* rows of an imported file, statements, restarts            *)
  Null, None

References == [table : TableNames, column : ColumnNames]
Definitions ==
  [name : ColumnNames, primary : BOOLEAN, not_null : BOOLEAN, unique : BOOLEAN,
   fk : References \cup {None}, check : BOOLEAN]
NamedOnce(columns) ==
  \A i, j \in DOMAIN columns : columns[i].name = columns[j].name => i = j

(* CREATE TABLE is not given one name twice: the code does not look.        *)
ASSUME StatementsAssumption ==
  /\ Values \subseteq Int /\ Allowed \subseteq Values /\ Null \notin Values
  /\ None \notin Databases /\ None \notin References
  /\ MaxRows \in Nat /\ MaxFile \in Nat /\ MaxStatements \in Nat /\ MaxRestarts \in Nat
  /\ \A n \in TableNames :
       /\ Schemas[n].added \subseteq ColumnNames
       /\ \A schema \in Schemas[n].tables : schema \in Seq(Definitions) /\ NamedOnce(schema)

VARIABLES
  mem,        (* g_cql_state->databases: the tables of each loaded database   *)
  disk,       (* cql_data/: the tables that a load of each database finds     *)
  current,    (* *io_database                                                *)
  at,         (* "idle", "open": a query is being executed                   *)
  renamed,    (* a table's name points into the memory of an ended query      *)
  statements, restarts

vars == <<mem, disk, current, at, renamed, statements, restarts>>

Empty == [x \in {} |-> None]
Put(f, x, y) == [z \in DOMAIN f \cup {x} |-> IF z = x THEN y ELSE f[z]]

-------------------------------------------------------------------------------
(* Tables: columns with their constraints, rows, and indexes.              *)

Names(t) == {t.columns[i].name : i \in DOMAIN t.columns}
ColumnOf(t, c) == t.columns[CHOOSE i \in DOMAIN t.columns : t.columns[i].name = c]
Holds(t, c, v) == v # Null /\ \E r \in DOMAIN t.rows : t.rows[r][c] = v
Keys(t, c) == [r \in DOMAIN t.rows |-> IF t.rows[r][c] = Null THEN 0 ELSE t.rows[r][c]]

Flagged(column, v) == [column EXCEPT !.null_flags = @ \/ v = Null]
Grown(t, row) ==
  [t EXCEPT !.rows = Append(@, row),
            !.columns = [i \in DOMAIN @ |-> Flagged(@[i], row[@[i].name])]]
Extended(x, t) == [x EXCEPT !.order = InsertRow(@, Keys(t, x.column), Len(t.rows))]
AddRow(t, row) ==
  LET g == Grown(t, row)
  IN  [g EXCEPT !.indexes = [i \in DOMAIN @ |-> Extended(@[i], g)]]
Shortened(x, r) == [x EXCEPT !.order = RemoveRow(@, r)]
RemoveTableRow(t, r) ==
  [t EXCEPT !.rows = RemoveAt(@, r),
            !.indexes = [i \in DOMAIN @ |-> Shortened(@[i], r)]]

-------------------------------------------------------------------------------
(* Constraints.  A CHECK lives in the memory of the query that made the     *)
(* table: after that query its outcome is whatever that memory holds, until *)
(* a restart parses the saved text.                                        *)

ReferenceFound(tables, fk, v) ==
  fk.table \in DOMAIN tables /\ fk.column \in Names(tables[fk.table])
    /\ Holds(tables[fk.table], fk.column, v)

CheckOutcomes(column, v) ==
  CASE column.check = "none" -> {TRUE}
    [] column.check = "freed" -> BOOLEAN
    [] OTHER -> {v # Null /\ v \in Allowed}

TakenBeforeLast(t, c, v) == v # Null /\ \E r \in 1 .. Len(t.rows) - 1 : t.rows[r][c] = v
Taken(t, c, v) == Holds(t, c, v)
Rejects(tables, t, column, v) ==
  \/ column.not_null /\ v = Null
  \/ column.unique /\ Taken(t, column.name, v)
  \/ v # Null /\ column.fk # None /\ ~ReferenceFound(tables, column.fk, v)

(* The outcomes of cql_table_validate_row_constraints.                      *)
Validations(tables, t, row) ==
  {/\ \A i \in DOMAIN t.columns :
        ~Rejects(tables, t, t.columns[i], row[t.columns[i].name])
   /\ \A i \in DOMAIN t.columns : checks[i]
   : checks \in {f \in [DOMAIN t.columns -> BOOLEAN] : \A i \in DOMAIN f :
                   f[i] \in CheckOutcomes(t.columns[i], row[t.columns[i].name])}}

(* Row r of the table called n is referenced from another table.           *)
ReferencesRow(tables, n, r, other, column) ==
  /\ column.fk # None /\ column.fk.table = n
  /\ column.fk.column \in Names(tables[n])
  /\ Holds(tables[other], column.name, tables[n].rows[r][column.fk.column])
ReferencedByEarlier(tables, n, r) ==
  \E other \in DOMAIN tables \ {n} : \E i \in DOMAIN tables[other].columns :
    r # Len(tables[n].rows) /\ ReferencesRow(tables, n, r, other, tables[other].columns[i])
Referenced(tables, n, r) ==
  \E other \in DOMAIN tables \ {n} : \E i \in DOMAIN tables[other].columns :
    ReferencesRow(tables, n, r, other, tables[other].columns[i])

-------------------------------------------------------------------------------
(* The rows a WHERE of at most two comparisons joined by AND finds.         *)

Comparisons(t) == [column : Names(t), op : {"=", "<", ">="}, value : Values]
Conditions(t) ==
  {<<>>} \cup {<<a>> : a \in Comparisons(t)}
    \cup {<<a, b>> : a \in {l \in Comparisons(t) : l.op = ">="},
                     b \in {l \in Comparisons(t) : l.op = "<"}}

Satisfies(v, leaf) ==
  v # Null /\ CASE leaf.op = "=" -> v = leaf.value
                [] leaf.op = "<" -> v < leaf.value
                [] leaf.op = ">=" -> v >= leaf.value
Matches(row, where) == \A i \in DOMAIN where : Satisfies(row[where[i].column], where[i])

IndexedEver(t, leaf) == \E i \in DOMAIN t.indexes : t.indexes[i].column = leaf.column
Indexed(t, leaf) ==
  /\ ~ColumnOf(t, leaf.column).null_flags
  /\ \E i \in DOMAIN t.indexes : t.indexes[i].column = leaf.column
IndexOn(t, c) == t.indexes[SelectInSeq(t.indexes, LAMBDA x : x.column = c)]
IndexRows(t, leaf) ==
  LET x == IndexOn(t, leaf.column)
  IN  {x.order[i] : i \in Slice(x.order, Keys(t, leaf.column), leaf.op, leaf.value)}

(* One comparison takes the index as it is, several narrow by the first     *)
(* that has an index; without any every row is tested.                     *)
Scan(t, where) ==
  LET usable == SelectInSeq(where, LAMBDA leaf : Indexed(t, leaf))
  IN  IF usable = 0 THEN {r \in DOMAIN t.rows : Matches(t.rows[r], where)}
      ELSE IF Len(where) = 1 THEN IndexRows(t, where[1])
      ELSE {r \in IndexRows(t, where[usable]) : Matches(t.rows[r], where)}

-------------------------------------------------------------------------------
(* Saving, loading and the end of a query.                                 *)

Relabelled(column, from, to) == [column EXCEPT !.check = IF @ \in from THEN to ELSE @]
WithCheck(t, from, to) ==
  [t EXCEPT !.columns = [i \in DOMAIN @ |-> Relabelled(@[i], from, to)]]
Saved(t) == WithCheck(t, {"query", "freed"}, "text")
Released(t) == WithCheck(t, {"query"}, "freed")
AllReleased == [d \in DOMAIN mem |-> [n \in DOMAIN mem[d] |-> Released(mem[d][n])]]

(* The tables in memory are written, the directories of others stay.       *)
Save ==
  IF current = None THEN UNCHANGED disk
  ELSE disk' = [disk EXCEPT ![current] =
         [n \in DOMAIN mem[current] \cup DOMAIN @ |->
            IF n \in DOMAIN mem[current] THEN Saved(mem[current][n]) ELSE @[n]]]

Done ==
  /\ Save /\ at' = "idle"
  /\ mem' = AllReleased
  /\ UNCHANGED <<current, renamed>>

RejectedUnsaved ==
  /\ at' = "idle" /\ UNCHANGED <<disk, current, renamed, restarts>>
  /\ mem' = AllReleased
Rejected == Done /\ UNCHANGED restarts

Init ==
  /\ mem = Empty /\ disk = AtStart
  /\ current = None /\ at = "idle" /\ renamed = FALSE
  /\ statements = 0 /\ restarts = 0

(* A query that parses.  After ALTER ... RENAME no name of the database can *)
(* be looked up any more: nothing is asked until a restart.                *)
Begin ==
  /\ at = "idle" /\ ~renamed /\ statements < MaxStatements
  /\ at' = "open"
  /\ UNCHANGED <<mem, disk, current, renamed, statements, restarts>>

End ==
  /\ at = "open" /\ Done
  /\ UNCHANGED <<statements, restarts>>

Restart ==
  /\ at = "idle" /\ restarts < MaxRestarts
  /\ mem' = Empty /\ current' = None /\ renamed' = FALSE
  /\ restarts' = restarts + 1
  /\ UNCHANGED <<disk, at, statements>>

-------------------------------------------------------------------------------
(* Statements.                                                             *)

Statement == at = "open" /\ statements < MaxStatements /\ statements' = statements + 1
Tables == mem[current]
OnTable(n) == Statement /\ current # None /\ n \in DOMAIN Tables
SetTables(tables) ==
  /\ mem' = [mem EXCEPT ![current] = tables]
  /\ UNCHANGED <<disk, current, at, restarts>>
SetTable(n, t) == SetTables([Tables EXCEPT ![n] = t]) /\ UNCHANGED renamed

(* Histories that the properties leave out.                                *)
NotSwitched ==
  "switch" \notin Histories /\ current # None =>
    \A n \in DOMAIN Tables : n \in DOMAIN disk[current]
                               /\ Saved(Tables[n]) = disk[current][n]
NotReferenced(n, columns) ==
  "orphan" \notin Histories =>
    \A other \in DOMAIN Tables \ {n} : \A i \in DOMAIN Tables[other].columns :
      LET fk == Tables[other].columns[i].fk
      IN  fk # None => ~(fk.table = n /\ fk.column \in columns)

(* USE: a database that is not loaded is, and one without a directory is    *)
(* made; it becomes the session's.                                         *)
Use(d) ==
  /\ Statement /\ d # current /\ NotSwitched
  /\ mem' = IF d \in DOMAIN mem THEN mem ELSE Put(mem, d, disk[d])
  /\ current' = d
  /\ UNCHANGED <<disk, at, renamed, restarts>>

CreateDatabase(d) ==
  /\ Statement /\ NotSwitched
  /\ d \notin DOMAIN mem
  /\ "shadow" \notin Histories => disk[d] = Empty
  /\ mem' = Put(mem, d, Empty) /\ current' = d
  /\ UNCHANGED <<disk, at, renamed, restarts>>

NewColumn(c) ==
  [name |-> c.name, not_null |-> c.not_null \/ c.primary, unique |-> c.unique \/ c.primary,
   fk |-> IF c.fk # None /\ c.fk.table \in DOMAIN Tables
               /\ c.fk.column \in Names(Tables[c.fk.table]) THEN c.fk ELSE None,
   check |-> IF c.check THEN "query" ELSE "none", null_flags |-> FALSE]
CreateTable(n, schema) ==
  /\ Statement /\ current # None /\ n \notin DOMAIN Tables
  /\ SetTables(Put(Tables, n,
       [columns |-> [i \in DOMAIN schema |-> NewColumn(schema[i])],
        rows |-> <<>>, indexes |-> <<>>]))
  /\ UNCHANGED renamed

CreateIndex(n, x, c) ==
  /\ OnTable(n) /\ c \in Names(Tables[n])
  /\ \A i \in DOMAIN Tables[n].indexes : Tables[n].indexes[i].name # x
  /\ \E order \in Orders(Keys(Tables[n], c)) :
       SetTable(n, [Tables[n] EXCEPT !.indexes =
                      Append(@, [name |-> x, column |-> c, order |-> order])])

WithoutIndex(t, x) == [t EXCEPT !.indexes = RemoveFirstMatch(@, LAMBDA i : i.name = x)]
DropIndex(n, x) == OnTable(n) /\ SetTable(n, WithoutIndex(Tables[n], x))

(* One value group of an INSERT.  A group that is rejected ends the query;  *)
(* the groups before it stay.                                              *)
Insert(n, row) ==
  /\ OnTable(n) /\ Len(Tables[n].rows) < MaxRows
  /\ "freed" \notin Histories =>
       \A i \in DOMAIN Tables[n].columns : Tables[n].columns[i].check # "freed"
  /\ \E valid \in Validations(Tables, Tables[n], row) :
       \/ valid /\ SetTable(n, AddRow(Tables[n], row))
       \/ ~valid /\ Rejected

(* DELETE: all rows are checked before the first is removed, from the last. *)
RemoveRows(t, found) ==
  LET n == Len(t.rows)
      left[k \in 0 .. n] ==     (* when the last k rows have been looked at *)
        IF k = 0 THEN t
        ELSE IF n + 1 - k \in found THEN RemoveTableRow(left[k - 1], n + 1 - k) ELSE left[k - 1]
  IN  left[n]
Delete(n, where) ==
  /\ OnTable(n)
  /\ \E found \in {Scan(Tables[n], where)} :
       IF \E r \in found : Referenced(Tables, n, r)
       THEN UNCHANGED <<mem, disk, current, at, renamed, restarts>>
       ELSE SetTable(n, RemoveRows(Tables[n], found))

(* A new column is NULL in the rows there are.                             *)
WithColumn(t, c) ==
  [t EXCEPT !.columns = Append(@, [name |-> c, not_null |-> FALSE, unique |-> FALSE, fk |-> None,
                                   check |-> "none", null_flags |-> t.rows # <<>>]),
            !.rows = [r \in DOMAIN @ |-> Put(@[r], c, Null)]]
AddColumn(n, c) ==
  /\ OnTable(n) /\ c \notin Names(Tables[n])
  /\ SetTable(n, WithColumn(Tables[n], c))

WithoutColumn(t, c) ==
  [columns |-> RemoveFirstMatch(t.columns, LAMBDA k : k.name = c),
   rows    |-> [r \in DOMAIN t.rows |-> [k \in Names(t) \ {c} |-> t.rows[r][k]]],
   indexes |-> IndexesWithout(t.indexes, c)]
DropColumn(n, c) ==
  /\ OnTable(n) /\ c \in Names(Tables[n]) /\ NotReferenced(n, {c})
  /\ SetTable(n, WithoutColumn(Tables[n], c))

(* The directory of the old name stays, so a restart finds both tables.     *)
Rename(n, new) ==
  /\ OnTable(n) /\ new \notin DOMAIN Tables /\ NotReferenced(n, Names(Tables[n]))
  /\ "ghost" \notin Histories => n \notin DOMAIN disk[current]
  /\ SetTables([k \in (DOMAIN Tables \ {n}) \cup {new} |->
                  IF k = new THEN Tables[n] ELSE Tables[k]])
  /\ renamed' = TRUE

(* IMPORT replaces a table by one without constraints and indexes, to which *)
(* the rows of the file are added.                                         *)
Unconstrained(t) ==
  [columns |-> [i \in DOMAIN t.columns |->
     [t.columns[i] EXCEPT !.not_null = FALSE, !.unique = FALSE, !.fk = None,
                          !.check = "none", !.null_flags = FALSE]],
   rows |-> <<>>, indexes |-> <<>>]
AddRows(t, rows) ==
  LET grown[i \in 0 .. Len(rows)] == IF i = 0 THEN t ELSE AddRow(grown[i - 1], rows[i])
  IN  grown[Len(rows)]
Import(n, rows) ==
  /\ OnTable(n) /\ NotReferenced(n, Names(Tables[n]))
  /\ SetTable(n, AddRows(Unconstrained(Tables[n]), rows))

RowsOf(t) == [Names(t) -> Values \cup {Null}]
OnTables ==
  \E n \in TableNames :
    \/ \E schema \in Schemas[n].tables : CreateTable(n, schema)
    \/ \E c \in Schemas[n].added : AddColumn(n, c)
    \/ \E x \in IndexNames : DropIndex(n, x)
    \/ \E new \in TableNames : Rename(n, new)
    \/ OnTable(n) /\ \E c \in Names(Tables[n]) :
         DropColumn(n, c) \/ \E x \in IndexNames : CreateIndex(n, x, c)
    \/ OnTable(n) /\ \E row \in RowsOf(Tables[n]) : Insert(n, row)
    \/ OnTable(n) /\ \E rows \in BoundedSeq(RowsOf(Tables[n]), MaxFile) : Import(n, rows)
    \/ OnTable(n) /\ \E where \in Conditions(Tables[n]) : Delete(n, where)

Next ==
  \/ Begin \/ End \/ Restart
  \/ \E d \in Databases : Use(d) \/ CreateDatabase(d)
  \/ OnTables

Spec == Init /\ [][Next]_vars

-------------------------------------------------------------------------------
(* Properties                                                              *)

AllTables == UNION {{mem[d][n] : n \in DOMAIN mem[d]} : d \in DOMAIN mem}

(* The rows of a table satisfy what its columns declare, whatever mixture   *)
(* of statements, failed ones and restarts made them.                      *)
Constrained(t) ==
  \A i \in DOMAIN t.columns :
    LET c == t.columns[i]
        v == [r \in DOMAIN t.rows |-> t.rows[r][c.name]]
    IN  /\ c.not_null => \A r \in DOMAIN v : v[r] # Null
        /\ c.unique => \A r, s \in DOMAIN v : r # s /\ v[r] # Null => v[r] # v[s]
        /\ c.check # "none" => \A r \in DOMAIN v : v[r] \in Allowed
ConstraintsHold == \A t \in AllTables : Constrained(t)

(* A value that references another table's column is found there: an INSERT *)
(* of a row without parent, and a DELETE of a parent with rows, are refused *)
(* in memory and so after a restart.                                       *)
ReferencesFound(tables) ==
  \A n \in DOMAIN tables : \A i \in DOMAIN tables[n].columns : \A r \in DOMAIN tables[n].rows :
    LET column == tables[n].columns[i]
        v == tables[n].rows[r][column.name]
    IN  column.fk # None /\ v # Null => ReferenceFound(tables, column.fk, v)
ReferencesHold == \A d \in DOMAIN mem : ReferencesFound(mem[d])

(* A DELETE finds the rows its WHERE is true of, no other and no NULL,       *)
(* whether it goes through an index or tests every row.                    *)
DeleteFindsMatches ==
  \A t \in AllTables : \A where \in Conditions(t) :
    Scan(t, where) = {r \in DOMAIN t.rows : Matches(t.rows[r], where)}

(* When a query has ended, with success or not, a restart finds every table *)
(* of every loaded database as it is in memory.                            *)
EndedIsSaved ==
  at = "idle" => \A d \in DOMAIN mem : \A n \in DOMAIN mem[d] :
    n \in DOMAIN disk[d] /\ disk[d][n] = Saved(mem[d][n])

-------------------------------------------------------------------------------
(* What the database on disk at the start is taken to be: one that queries  *)
(* of this program have saved.                                             *)

Columns ==
  [name : ColumnNames, not_null : BOOLEAN, unique : BOOLEAN, fk : References \cup {None},
   check : {"none", "query", "freed", "text"}, null_flags : BOOLEAN]
Indexes == [name : IndexNames, column : ColumnNames, order : Seq(Nat)]

(* Columns are told apart by their names; an index lists the rows in the    *)
(* order of its column's keys; a column with a NULL has flags for it.       *)
IndexOf(t, x) == x.column \in Names(t) /\ Sorted(x.order, Keys(t, x.column))
WellFormed(t) ==
  /\ t = [columns |-> t.columns, rows |-> t.rows, indexes |-> t.indexes]
  /\ t.columns \in Seq(Columns) /\ NamedOnce(t.columns)
  /\ t.rows \in Seq(RowsOf(t))
  /\ t.indexes \in Seq(Indexes) /\ \A i \in DOMAIN t.indexes : IndexOf(t, t.indexes[i])
  /\ \A i \in DOMAIN t.columns : \A r \in DOMAIN t.rows :
       t.rows[r][t.columns[i].name] = Null => t.columns[i].null_flags

(* A reference is to a column of another table that there is.              *)
Linked(tables) ==
  \A n \in DOMAIN tables : \A i \in DOMAIN tables[n].columns :
    LET fk == tables[n].columns[i].fk
    IN  fk # None => fk.table \in DOMAIN tables \ {n} /\ fk.column \in Names(tables[fk.table])

ASSUME StartAssumption ==
  /\ AtStart = [d \in Databases |-> AtStart[d]]
  /\ \A d \in Databases :
       /\ AtStart[d] = [n \in DOMAIN AtStart[d] |-> AtStart[d][n]]
       /\ DOMAIN AtStart[d] \subseteq TableNames
       /\ \A n \in DOMAIN AtStart[d] :
            WellFormed(AtStart[d][n]) /\ Constrained(AtStart[d][n])
       /\ Linked(AtStart[d]) /\ ReferencesFound(AtStart[d])
===============================================================================
