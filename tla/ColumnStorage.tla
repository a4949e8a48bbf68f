----------------------------- MODULE ColumnStorage -----------------------------
(***************************************************************************)
(* A column of fixed-width values of src/src/cql/cql.c: in memory while it  *)
(* is small, in its .dat file with a buffer of pending appends and a mapped *)
(* view once it is large, saved after every statement and loaded when the   *)
(* server starts.  Sizes are counted in rows.                              *)
(*                                                                         *)
(* The server works on one statement at a time, so the operations are       *)
(* atomic; they are what the statements of a batch call.  The save that     *)
(* ends the batch is one step for each file it opens or writes.            *)
(***************************************************************************)
EXTENDS Integers, Sequences, SequencesExt

CONSTANTS
  Values,           (* what a row holds                                     *)
  Junk,             (* what is behind a pointer to no row: bytes nothing    *)
                    (* was written to, or no memory at all                 *)
  MaxRows,          (* bound: the rows of the column                        *)
  Threshold,        (* disk_backed_threshold_size                           *)
  ExpandCount,      (* column_expand_count                                  *)
  MaxGrow,          (* column_max_grow_by_size                              *)
  PendingCapacity,  (* CQL_PENDING_APPEND_BYTES                             *)
  Allowed           (* the histories that are not left out, some of "append
                       after reload", "crash after remove" and "stop inside
                       a save"                                             *)

ASSUME ColumnStorageAssumption ==
  /\ Junk \notin Values
  /\ MaxRows \in Nat
  /\ Threshold \in Nat
  /\ ExpandCount \in Nat \ {0} /\ MaxGrow \in Nat \ {0} /\ PendingCapacity \in Nat \ {0}
  /\ Allowed \subseteq {"append after reload", "crash after remove", "stop inside a save"}

VARIABLES
  row_count,       (* row_count                                            *)
  data,            (* data, of length capacity; empty when disk backed      *)
  is_disk_backed,
  file,            (* column->file: "none", "rw" or "ro"                    *)
  pending,         (* pending_data                                         *)
  file_map,        (* -1, or the rows the file had when it was mapped       *)
  view,            (* mapped_ptr and current_mapped_range                   *)
  leaked,          (* a view of the file nothing points to any more         *)
  dat,             (* the .dat file                                        *)
  meta,            (* row_count and capacity in the .meta file              *)
  saving,          (* where cql_table_save is: "no", before the column's    *)
                   (* file ("data") or with that file truncated ("write")  *)
  unsaved,         (* what was done since the last save: a set of "append"
                      and "remove"                                         *)
  saved,           (* history: the rows of the last save that did not fail  *)
  answer           (* history: what a read has returned to its caller, until
                      the rows change                                      *)

vars == <<row_count, data, is_disk_backed, file, pending, file_map, view, leaked,
          dat, meta, saving, unsaved, saved, answer>>

NoMap  == -1
NoView == [min |-> 0, max |-> -1]

AtMost(a, b)  == IF a < b THEN a ELSE b
AtLeast(a, b) == IF a > b THEN a ELSE b
Fill(n)       == [j \in 1 .. n |-> Junk]

(* The first n rows of s, with junk where s has none.                      *)
Upto(s, n) == [j \in 1 .. n |-> IF j <= Len(s) THEN s[j] ELSE Junk]

(* os_file_write of rows at an offset: the file grows when it must.        *)
Written(f, offset, s) ==
  [j \in 1 .. AtLeast(Len(f), offset + Len(s)) |->
     IF offset < j /\ j <= offset + Len(s) THEN s[j - offset]
     ELSE IF j <= Len(f) THEN f[j] ELSE Junk]

(* The rows of the column, wherever they are.                              *)
Contents ==
  IF is_disk_backed THEN Upto(dat, row_count - Len(pending)) \o pending
                    ELSE Upto(data, row_count)

Init ==
  /\ row_count = 0 /\ data = <<>> /\ is_disk_backed = FALSE
  /\ file = "none" /\ pending = <<>> /\ file_map = NoMap /\ view = NoView
  /\ leaked = FALSE
  /\ dat = <<>> /\ meta = [row_count |-> 0, capacity |-> 0] /\ saving = "no"
  /\ unsaved = {} /\ saved = <<>> /\ answer = <<>>

-------------------------------------------------------------------------------
(* cql_column_flush_pending                                                *)

(* The .dat file after the flush; a read only handle writes nothing, and    *)
(* the rows are dropped all the same.                                      *)
Flushed ==
  IF pending = <<>> \/ file = "ro" THEN dat
  ELSE Written(dat, row_count - Len(pending), pending)

(* The handle after the flush; a flush that writes drops the mapping (no    *)
(* view then: the append that made the rows pending has dropped it).       *)
FlushHandle == IF pending # <<>> /\ file = "none" THEN "rw" ELSE file
FlushedMap  == IF pending = <<>> THEN file_map ELSE NoMap
FlushedView == IF pending = <<>> THEN view ELSE NoView

(* cql_column_drop_mapping gives the view's pointer to UnmapViewOfFile.     *)
(* That of a view from inside of the file is not the one MapViewOfFile      *)
(* returned (os_file_map_view_open has moved it), and may be refused.      *)
LeakedByDrop == IF view.min > 0 THEN {leaked, TRUE} ELSE {leaked}

-------------------------------------------------------------------------------
(* cql_column_add_data                                                     *)

GrownCapacity ==
  LET capacity == Len(data)
  IN  AtMost(IF capacity > 0 THEN capacity * 2 ELSE ExpandCount, capacity + MaxGrow)

(* Mutant of AppendInMemory: the new row is not written to the file. *)
AppendInMemoryShort(v) ==
  LET room  == IF row_count = Len(data) THEN Upto(data, GrownCapacity) ELSE data
      added == [room EXCEPT ![row_count + 1] = v]
  IN  /\ ~is_disk_backed
      /\ IF row_count + 1 > Threshold      \* cql_column_convert_to_disk_backed
         THEN /\ dat' = Written(dat, 0, Upto(added, row_count))
              /\ is_disk_backed' = TRUE
              /\ file' = "rw"
              /\ data' = <<>>
         ELSE data' = added /\ UNCHANGED <<dat, is_disk_backed, file>>
      /\ UNCHANGED <<pending, file_map, view, leaked>>

AppendInMemory(v) ==
  LET room  == IF row_count = Len(data) THEN Upto(data, GrownCapacity) ELSE data
      added == [room EXCEPT ![row_count + 1] = v]
  IN  /\ ~is_disk_backed
      /\ IF row_count + 1 > Threshold      \* cql_column_convert_to_disk_backed
         THEN /\ dat' = Written(dat, 0, Upto(added, row_count + 1))
              /\ is_disk_backed' = TRUE
              /\ file' = "rw"
              /\ data' = <<>>
         ELSE data' = added /\ UNCHANGED <<dat, is_disk_backed, file>>
      /\ UNCHANGED <<pending, file_map, view, leaked>>

AppendOnDisk(v) ==
  LET full == Len(pending) + 1 > PendingCapacity
  IN  /\ is_disk_backed
      /\ IF full
         THEN dat' = Flushed /\ file' = FlushHandle /\ pending' = <<v>>
         ELSE pending' = Append(pending, v) /\ UNCHANGED <<dat, file>>
      /\ file_map' = NoMap                 \* cql_column_drop_mapping
      /\ view' = NoView
      /\ leaked' \in LeakedByDrop
      /\ UNCHANGED <<data, is_disk_backed>>

AppendRow(v) ==
  /\ saving = "no"
  /\ row_count < MaxRows
  /\ file = "ro" => "append after reload" \in Allowed
  /\ AppendInMemory(v) \/ AppendOnDisk(v)
  /\ row_count' = row_count + 1
  /\ unsaved' = unsaved \cup {"append"}
  /\ answer' = <<>>
  /\ UNCHANGED <<meta, saving, saved>>

-------------------------------------------------------------------------------
(* cql_column_get_data_range over the rows lo .. hi - 1 (from 0)           *)

(* The file, the mapping and the view after the call has flushed; f and m   *)
(* are the file and its mapping, w what the view then covers.              *)
MappedSize  == IF FlushedMap = NoMap THEN Len(Flushed) ELSE FlushedMap
ViewFor(lo, hi) ==
  LET top  == AtMost(hi, Len(Flushed))
      kept == FlushedView # NoView /\ FlushedView.min <= lo /\ top <= FlushedView.max
  IN  IF kept THEN FlushedView
      ELSE IF top <= MappedSize THEN [min |-> lo, max |-> top]
      ELSE NoView                          \* os_file_map_view_open fails

(* mapped_ptr is assigned without an unmap of the view it pointed to.      *)
Replaces(lo, hi) == FlushedView # NoView /\ ViewFor(lo, hi) \notin {FlushedView, NoView}

(* What the caller finds behind the pointer: junk past the mapped bytes.   *)
Behind(lo, hi) ==
  [j \in 1 .. hi - lo |->
     IF lo + j <= ViewFor(lo, hi).max /\ lo + j <= Len(Flushed) THEN Flushed[lo + j] ELSE Junk]

ReadRows(lo, hi) ==
  /\ saving = "no"
  /\ IF is_disk_backed
     THEN /\ answer' = Behind(lo, hi)
          /\ dat' = Flushed
          /\ file' = IF FlushHandle = "none" THEN "ro" ELSE FlushHandle
          /\ file_map' = MappedSize
          /\ view' = IF ViewFor(lo, hi) = NoView THEN FlushedView ELSE ViewFor(lo, hi)
          /\ leaked' = (leaked \/ Replaces(lo, hi))
     ELSE /\ answer' = SubSeq(data, lo + 1, hi)
          /\ UNCHANGED <<dat, file, file_map, view, leaked>>
  /\ pending' = <<>>
  /\ UNCHANGED <<row_count, data, is_disk_backed, meta, saving, unsaved, saved>>

-------------------------------------------------------------------------------
(* cql_column_remove_data, of the row i (from 1): a disk backed column      *)
(* first comes to memory (cql_column_materialize_to_memory), which reads    *)
(* all of it and unmaps the view that read leaves.                         *)

(* Mutant of Materialized: the pending rows are forgotten.                 *)
MaterializedUnflushed == IF is_disk_backed THEN Upto(dat, AtLeast(row_count, 1)) ELSE data

Materialized ==
  IF is_disk_backed THEN Upto(Behind(0, row_count), AtLeast(row_count, 1)) ELSE data

RemoveRow(i) ==
  /\ saving = "no"
  /\ data' = [j \in 1 .. Len(Materialized) |->
                IF i <= j /\ j < row_count THEN Materialized[j + 1] ELSE Materialized[j]]
  /\ dat' = IF is_disk_backed THEN Flushed ELSE dat
  /\ is_disk_backed' = FALSE
  /\ pending' = <<>>
  /\ file' = "none"
  /\ file_map' = NoMap
  /\ view' = NoView
  /\ leaked' = (leaked \/ (is_disk_backed /\ Replaces(0, row_count)))
  /\ row_count' = row_count - 1
  /\ unsaved' = unsaved \cup {"remove"}
  /\ answer' = <<>>
  /\ UNCHANGED <<meta, saving, saved>>

-------------------------------------------------------------------------------
(* cql_table_save: first the .meta file, then the column; the .dat file of  *)
(* a column in memory is truncated and written anew, that of a disk backed  *)
(* one completed.                                                          *)

ramVars  == <<row_count, data, is_disk_backed>>
diskVars == <<file, pending, file_map, view, dat>>

SaveMeta ==
  /\ saving = "no"
  /\ meta' = [row_count |-> row_count, capacity |-> Len(data)]
  /\ saving' = "data"
  /\ UNCHANGED <<ramVars, diskVars, leaked, unsaved, saved, answer>>

(* Mutant of SaveOnDisk: a disk backed column is saved already. *)
SaveOnDiskUnflushed ==
  /\ saving = "data" /\ is_disk_backed
  /\ saving' = "no" /\ unsaved' = {} /\ saved' = Contents
  /\ UNCHANGED <<ramVars, diskVars, leaked, meta, answer>>

SaveOnDisk ==
  /\ saving = "data" /\ is_disk_backed
  /\ dat' = Flushed
  /\ file' = FlushHandle
  /\ file_map' = FlushedMap
  /\ view' = FlushedView
  /\ pending' = <<>>
  /\ saving' = "no" /\ unsaved' = {} /\ saved' = Contents
  /\ UNCHANGED <<ramVars, leaked, meta, answer>>

(* CREATE_ALWAYS cannot truncate a file with a mapped view: the open fails, *)
(* the error is logged and the loop over the columns is left.              *)
SaveRefused ==
  /\ saving = "data" /\ ~is_disk_backed /\ leaked
  /\ saving' = "no"
  /\ UNCHANGED <<ramVars, diskVars, leaked, meta, unsaved, saved, answer>>

SaveTruncates ==
  /\ saving = "data" /\ ~is_disk_backed /\ ~leaked
  /\ dat' = <<>>
  /\ saving' = "write"
  /\ UNCHANGED <<ramVars, file, pending, file_map, view, leaked, meta, unsaved, saved, answer>>

SaveWrites ==
  /\ saving = "write"
  /\ dat' = data
  /\ saving' = "no" /\ unsaved' = {} /\ saved' = Contents
  /\ UNCHANGED <<ramVars, file, pending, file_map, view, leaked, meta, answer>>

Save == SaveMeta \/ SaveOnDisk \/ SaveRefused \/ SaveTruncates \/ SaveWrites

(* The process ended, after a save or (a crash) before it; cql_table_load.  *)
(* The handle of a disk backed column is closed and left for the next use,  *)
(* and the system has unmapped every view.                                 *)
Load ==
  /\ "remove" \in unsaved => "crash after remove" \in Allowed
  /\ saving # "no" => "stop inside a save" \in Allowed
  /\ row_count' = meta.row_count
  /\ is_disk_backed' = (Len(dat) > Threshold)
  /\ data' = IF Len(dat) > Threshold THEN <<>> ELSE Upto(dat, meta.capacity)
  /\ file' = "none" /\ pending' = <<>> /\ file_map' = NoMap /\ view' = NoView
  /\ leaked' = FALSE
  /\ saving' = "no"
  /\ unsaved' = {}
  /\ answer' = <<>>
  /\ UNCHANGED <<dat, meta, saved>>

Next ==
  \/ \E v \in Values : AppendRow(v)
  \/ \E lo, hi \in 0 .. row_count : (lo < hi \/ (lo = 0 /\ hi = 0)) /\ ReadRows(lo, hi)
  \/ \E i \in 1 .. row_count : RemoveRow(i)
  \/ Save
  \/ Load

Spec == Init /\ [][Next]_vars

-------------------------------------------------------------------------------
(* Properties                                                              *)

(* Of a disk backed column the file holds every row that is not pending: a  *)
(* flush never loses what it was given (cql_column_flush_pending).         *)
FileHoldsFlushed == is_disk_backed => row_count - Len(pending) <= Len(dat)

(* After a save that did not fail the files alone give back the rows: the   *)
(* process may end.  Until the next one, also when it has written the .meta *)
(* file and not yet the column's, they still hold every row of the last     *)
(* save, unless rows were removed since.  A save may fail because a view    *)
(* was left mapped, but only with a removal still unsaved.                 *)
SavedIsOnDisk ==
  /\ saving = "no" /\ unsaved = {} => Upto(dat, meta.row_count) = saved /\ saved = Contents
  /\ saving # "write" /\ "remove" \notin unsaved =>
       Len(saved) <= meta.row_count /\ Upto(dat, Len(saved)) = saved
  /\ ~is_disk_backed /\ leaked => "remove" \in unsaved

(* The column is a row store: appends, removals, reads, saves and restarts  *)
(* do to its contents what they do to a plain sequence, whichever of memory,*)
(* pending buffer, file and mapping holds the rows at that moment.  A save  *)
(* that fails saves nothing and takes nothing away.                        *)
Abstract == INSTANCE RowStore WITH rows <- Contents

ImplementsRowStore == Abstract!Spec
===============================================================================
