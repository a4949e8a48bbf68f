-------------------------------- MODULE ZoneMap --------------------------------
(***************************************************************************)
(* The zone maps of src/src/cql/cql.c: for every chunk of rows of a column  *)
(* the smallest and the largest value, kept up to date by appends, rebuilt  *)
(* on demand, saved with the table, and used by query_exec.c to leave out   *)
(* chunks of a scan and to bound the values of a column.                    *)
(*                                                                         *)
(* The generation counters are abstracted to current[c]: whether            *)
(* zonemap_checked_generation equals write_generation, the only thing the   *)
(* code asks of them.  A statement ends with the save of the whole          *)
(* database, so a restart finds what the last statement left.               *)
(***************************************************************************)
EXTENDS Integers, Sequences, FiniteSets

CONSTANTS
  Columns,      (* the numeric columns of the table                         *)
  Values,       (* the values of a column, a set of integers                *)
  NULL,         (* no value                                                *)
  ChunkRows,    (* zonemap_chunk_rows                                       *)
  MaxRows,      (* bound: the rows of the table                            *)
  Nullable,     (* the columns an insert may leave NULL                     *)
  Allowed       (* the histories that are not left out, some of "append after
                   delete", "restart after delete" and "restart with NULLs" *)

ASSUME ZoneMapAssumption ==
  /\ Values \subseteq Int
  /\ NULL \notin Values
  /\ ChunkRows \in Nat \ {0}
  /\ MaxRows \in Nat
  /\ Nullable \subseteq Columns
  /\ Allowed \subseteq {"append after delete", "restart after delete", "restart with NULLs"}

VARIABLES
  rows,            (* the rows of the table, in order                       *)
  null_flags,      (* columns that have seen a NULL (null_flags # 0)        *)
  zone_map,        (* per column: the chunks, a sequence                    *)
  has_zone_map,    (* per column                                           *)
  current,         (* per column: the checked generation is the current one *)
  deleted          (* history: a row was deleted                            *)

vars == <<rows, null_flags, zone_map, has_zone_map, current, deleted>>

Chunk   == [has_values : BOOLEAN, min : Values \cup {0}, max : Values \cup {0}]
NoChunk == [has_values |-> FALSE, min |-> 0, max |-> 0]
Ops     == {"eq", "lt", "le", "gt", "ge"}
Leaf    == [column : Columns, op : Ops, target : Values]

row_count == Len(rows)
ChunkCount(count) == (count + ChunkRows - 1) \div ChunkRows

(* The positions (from 1) of the rows in chunk k (from 1).                 *)
ChunkOf(r) == ((r - 1) \div ChunkRows) + 1
RowsOf(k)  == {r \in 1 .. row_count : ChunkOf(r) = k}

MinOf(S) == CHOOSE x \in S : \A y \in S : x <= y
MaxOf(S) == CHOOSE x \in S : \A y \in S : y <= x

Init ==
  /\ rows = <<>>
  /\ null_flags = {}
  /\ zone_map = [c \in Columns |-> <<>>]
  /\ has_zone_map = [c \in Columns |-> FALSE]
  /\ current = [c \in Columns |-> FALSE]
  /\ deleted = FALSE

-------------------------------------------------------------------------------
(* INSERT: cql_table_add_row appends to every column.                      *)

Widen(chunk, v) ==
  IF chunk.has_values
  THEN [chunk EXCEPT !.min = IF v < @ THEN v ELSE @, !.max = IF v > @ THEN v ELSE @]
  ELSE [has_values |-> TRUE, min |-> v, max |-> v]

(* cql_column_zone_map_note_append: count already includes the new row.    *)
NoteAppend(map, count, v) ==
  LET k == ChunkOf(count)
      grown == [j \in 1 .. IF k > Len(map) THEN k ELSE Len(map) |->
                  IF j <= Len(map) THEN map[j] ELSE NoChunk]
  IN  [grown EXCEPT ![k] = Widen(@, v)]

(* A NULL only raises the write generation; a value is noted in the chunk   *)
(* of the new row and the map counts as checked from then on.              *)
InsertRow(row) ==
  /\ row_count < MaxRows
  /\ ~deleted \/ "append after delete" \in Allowed
  /\ rows' = Append(rows, row)
  /\ null_flags' = null_flags \cup {c \in Columns : row[c] = NULL}
  /\ zone_map' = [c \in Columns |->
                    IF row[c] = NULL THEN zone_map[c]
                    ELSE NoteAppend(zone_map[c], row_count + 1, row[c])]
  /\ has_zone_map' = [c \in Columns |-> has_zone_map[c] \/ row[c] # NULL]
  /\ current' = [c \in Columns |-> row[c] # NULL]
  /\ UNCHANGED deleted

-------------------------------------------------------------------------------
(* DELETE: cql_table_remove_row moves the later rows up in every column and *)
(* leaves the zone maps as they are; only the write generation rises.      *)

DeleteRow(r) ==
  /\ rows' = [j \in 1 .. row_count - 1 |-> IF j < r THEN rows[j] ELSE rows[j + 1]]
  /\ current' = [c \in Columns |-> FALSE]
  /\ deleted' = TRUE
  /\ UNCHANGED <<null_flags, zone_map, has_zone_map>>

-------------------------------------------------------------------------------
(* cql_column_ensure_zone_map                                              *)

ValuesIn(c, k) == {rows[r][c] : r \in RowsOf(k)} \ {NULL}

(* Mutant of BuildChunk: the first NULL ends the chunk.                     *)
BuildChunkToNull(c, k) ==
  LET S == {rows[r][c] : r \in {q \in RowsOf(k) :
                                  \A p \in RowsOf(k) : p <= q => rows[p][c] # NULL}}
  IN  IF S = {} THEN NoChunk
      ELSE [has_values |-> TRUE, min |-> MinOf(S), max |-> MaxOf(S)]

(* cql_zone_map_build_task, for one chunk.                                 *)
BuildChunk(c, k) ==
  LET S == ValuesIn(c, k)
  IN  IF S = {} THEN NoChunk
      ELSE [has_values |-> TRUE, min |-> MinOf(S), max |-> MaxOf(S)]

EnsuredMap(c) == IF current[c] THEN zone_map[c]
                 ELSE [k \in 1 .. ChunkCount(row_count) |-> BuildChunk(c, k)]

EnsuredMaps == [c \in Columns |-> EnsuredMap(c)]

EnsureZoneMaps(C) ==
  /\ zone_map' = [c \in Columns |-> IF c \in C THEN EnsuredMap(c) ELSE zone_map[c]]
  /\ has_zone_map' = [c \in Columns |->
                        IF c \in C /\ ~current[c] THEN row_count > 0 ELSE has_zone_map[c]]
  /\ current' = [c \in Columns |-> current[c] \/ c \in C]

-------------------------------------------------------------------------------
(* A scan: qe_scan_build_dispatch_ranges for the leaves of an AND.         *)

(* Mutant of Prunable: a chunk whose smallest value is the target of <= is *)
(* left out.                                                               *)
PrunableLe(leaf, chunk) ==
  /\ chunk.has_values
  /\ CASE leaf.op = "eq" -> leaf.target < chunk.min \/ leaf.target > chunk.max
       [] leaf.op = "lt" -> chunk.min >= leaf.target
       [] leaf.op = "le" -> chunk.min >= leaf.target
       [] leaf.op = "gt" -> chunk.max <= leaf.target
       [] leaf.op = "ge" -> chunk.max < leaf.target

(* qe_zonemap_chunk_is_prunable                                            *)
Prunable(leaf, chunk) ==
  /\ chunk.has_values
  /\ CASE leaf.op = "eq" -> leaf.target < chunk.min \/ leaf.target > chunk.max
       [] leaf.op = "lt" -> chunk.min >= leaf.target
       [] leaf.op = "le" -> chunk.min > leaf.target
       [] leaf.op = "gt" -> chunk.max <= leaf.target
       [] leaf.op = "ge" -> chunk.max < leaf.target

(* The maps of a scan all have the chunk count of the last leaf's map; what *)
(* lies beyond a shorter map is other memory, so junk decides there.  How   *)
(* the chunks that are kept become ranges is module ScanRanges.            *)
ScanChunks(maps, leaves) == Len(maps[leaves[Len(leaves)].column])

Skipped(maps, leaves, junk, k) ==
  \E j \in DOMAIN leaves :
    LET map == maps[leaves[j].column]
    IN  IF k <= Len(map) THEN Prunable(leaves[j], map[k]) ELSE junk

(* Only a table without NULLs is scanned by chunks.                        *)
CanScan == null_flags = {} /\ row_count > 0

(* The columns of the leaves get their maps; whether the scan leaves out    *)
(* chunk k is Skipped(EnsuredMaps, leaves, junk, k), a function of the      *)
(* state it starts from.                                                   *)
Scan(C) ==
  /\ CanScan
  /\ EnsureZoneMaps(C)
  /\ UNCHANGED <<rows, null_flags, deleted>>

(* qe_column_range_from_zone_map: the bounds over the chunks with values.  *)
Known(c)     == {k \in DOMAIN EnsuredMap(c) : EnsuredMap(c)[k].has_values}
RangeLow(c)  == MinOf({EnsuredMap(c)[k].min : k \in Known(c)})
RangeHigh(c) == MaxOf({EnsuredMap(c)[k].max : k \in Known(c)})

ColumnRange(c) ==
  /\ EnsureZoneMaps({c})
  /\ UNCHANGED <<rows, null_flags, deleted>>

-------------------------------------------------------------------------------
(* The server stops after a statement and starts again: cql_table_load      *)
(* trusts a saved map when its chunk count fits the saved rows.            *)

Trusted(c) == has_zone_map[c] /\ Len(zone_map[c]) = ChunkCount(row_count)

Restart ==
  /\ ~deleted \/ "restart after delete" \in Allowed
  /\ null_flags = {} \/ "restart with NULLs" \in Allowed
  /\ zone_map' = [c \in Columns |-> IF Trusted(c) THEN zone_map[c] ELSE <<>>]
  /\ has_zone_map' = [c \in Columns |-> Trusted(c)]
  /\ current' = [c \in Columns |-> Trusted(c)]
  /\ UNCHANGED <<rows, null_flags, deleted>>

-------------------------------------------------------------------------------
Row == {row \in [Columns -> Values \cup {NULL}] : \A c \in Columns \ Nullable : row[c] # NULL}

Next ==
  \/ \E row \in Row : InsertRow(row)
  \/ \E r \in 1 .. row_count : DeleteRow(r)
  \/ \E C \in SUBSET Columns \ {{}} : Scan(C)
  \/ \E c \in Columns : ColumnRange(c)
  \/ Restart

Spec == Init /\ [][Next]_vars

-------------------------------------------------------------------------------
(* Properties                                                              *)

Holds(leaf, v) ==
  CASE leaf.op = "eq" -> v = leaf.target
    [] leaf.op = "lt" -> v < leaf.target
    [] leaf.op = "le" -> v <= leaf.target
    [] leaf.op = "gt" -> v > leaf.target
    [] leaf.op = "ge" -> v >= leaf.target

Matches(leaves, r) == \A j \in DOMAIN leaves : Holds(leaves[j], rows[r][leaves[j].column])

(* One leaf, or two of different columns.                                  *)
Leaves == {<<x>> : x \in Leaf} \cup {<<x, y>> : x \in Leaf, y \in Leaf}
Wheres == {leaves \in Leaves : Len(leaves) = 2 => leaves[1].column # leaves[2].column}

(* A scan never leaves out a chunk that holds a matching row: the answer of *)
(* a SELECT does not depend on the zone maps, however rows were inserted,   *)
(* the maps built and the server restarted before                          *)
(* (qe_scan_build_dispatch_ranges).                                        *)
PruneSound ==
  LET maps == EnsuredMaps
  IN  CanScan =>
        \A leaves \in Wheres, r \in 1 .. row_count, junk \in BOOLEAN :
          Matches(leaves, r) => /\ ChunkOf(r) <= ScanChunks(maps, leaves)
                                /\ ~Skipped(maps, leaves, junk, ChunkOf(r))

(* Every value of a column is within the range the aggregates take from its *)
(* zone map (they size key tables and choose 32 bit kernels by it), with    *)
(* NULLs in the column or without; no range means no value                  *)
(* (qe_column_range_from_zone_map).                                        *)
RangeSound ==
  \A c \in Columns, r \in 1 .. row_count :
    rows[r][c] # NULL => /\ Known(c) # {}
                         /\ RangeLow(c) <= rows[r][c] /\ rows[r][c] <= RangeHigh(c)

===============================================================================
