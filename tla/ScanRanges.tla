------------------------------ MODULE ScanRanges ------------------------------
(***************************************************************************)
(* qe_scan_build_dispatch_ranges of src/src/query_exec/query_exec.c, from   *)
(* the point where every chunk is known to be prunable or not: the ranges   *)
(* of rows a GPU scan is dispatched over.  Module ZoneMap says which chunks *)
(* are prunable.  Chunks and rows count from 0, as in the code.            *)
(***************************************************************************)
EXTENDS WorkRanges, Sequences, FiniteSets, FiniteSetsExt

CONSTANTS
  ChunkRows,      (* zonemap_chunk_rows                                     *)
  DispatchRows,   (* the values of rows_per_chunk, the rows one dispatch can
                     take                                                   *)
  MinGapRows,     (* QE_SCAN_MIN_PRUNE_GAP_ROWS                             *)
  MinPercent,     (* QE_SCAN_MIN_PRUNE_PERCENT                              *)
  RangeCostRows,  (* QE_SCAN_RANGE_COST_ROWS                                *)
  MaxRows         (* bound: the rows of the table                           *)

ASSUME ScanRangesAssumption ==
  /\ ChunkRows \in Nat \ {0} /\ DispatchRows \subseteq Nat \ {0}
  /\ MinGapRows \in Nat /\ MinPercent \in Nat /\ RangeCostRows \in Nat
  /\ MaxRows \in Nat

VARIABLES
  row_count,      (* the rows of the table                                  *)
  rows_per_chunk, (* the rows of one buffer                                 *)
  proven,         (* the chunks the leaves of the WHERE prove empty         *)
  prunable,       (* chunk_prunable                                         *)
  pc,             (* the loop that runs                                     *)
  z,              (* its chunk                                              *)
  ranges,         (* the ranges so far, and at the end the result           *)
  pruned_rows,    (* *out_pruned_rows                                       *)
  skip_bits       (* *out_skip_bits, a set of chunks                        *)

vars == <<row_count, rows_per_chunk, proven, prunable, pc, z, ranges, pruned_rows, skip_bits>>

ChunkCount        == CeilIntegerDiv(row_count, ChunkRows)
UniformRangeCount == CeilIntegerDiv(row_count, rows_per_chunk)
Chunks            == 0 .. ChunkCount - 1
ChunkStart(k)     == k * ChunkRows
ChunkEnd(k)       == MinOf(ChunkStart(k) + ChunkRows, row_count)
SizeOf(K)         == FoldSet(LAMBDA k, sum : sum + ChunkEnd(k) - ChunkStart(k), 0, K)

(* The last chunk may be a short one.                                      *)
Init ==
  /\ row_count \in 0 .. MaxRows
  /\ rows_per_chunk \in DispatchRows
  /\ proven \in SUBSET Chunks
  /\ prunable = proven
  /\ pc = "start"
  /\ z = 0
  /\ ranges = <<>>
  /\ pruned_rows = 0
  /\ skip_bits = {}

UniformRanges ==
  [i \in 1 .. UniformRangeCount |->
     [min |-> (i - 1) * rows_per_chunk, max |-> MinOf(i * rows_per_chunk, row_count)]]

(* A chunk larger than a dispatch, no usable leaf, or an empty table.      *)
Uniform ==
  /\ pc = "start"
  /\ \/ ChunkRows > rows_per_chunk
     \/ ChunkCount = 0
     \/ proven = {}               \* no leaf the zone maps can use
  /\ ranges' = UniformRanges
  /\ pc' = "done"
  /\ UNCHANGED <<row_count, rows_per_chunk, proven, prunable, z, pruned_rows, skip_bits>>

UseZoneMaps ==
  /\ pc = "start"
  /\ ChunkRows <= rows_per_chunk
  /\ ChunkCount > 0
  /\ pc' = "gaps"
  /\ UNCHANGED <<row_count, rows_per_chunk, proven, prunable, z, ranges, pruned_rows, skip_bits>>

-------------------------------------------------------------------------------
(* A short run of prunable chunks between scanned ones is scanned too.     *)

MinGapChunks == LET g == MinGapRows \div ChunkRows IN IF g > 1 THEN g ELSE 1

(* The first chunk from k on that is not in K, or the chunk count.         *)
RunEnd(k, K) == Min({j \in k .. ChunkCount : j \notin K})

ShortGap(from, to) == from > 0 /\ to < ChunkCount /\ to - from < MinGapChunks

MergeGap ==
  /\ pc = "gaps"
  /\ z < ChunkCount
  /\ IF z \notin prunable
     THEN z' = z + 1 /\ UNCHANGED prunable
     ELSE LET end == RunEnd(z, prunable)
          IN  /\ z' = end
              /\ prunable' = IF ShortGap(z, end) THEN prunable \ (z .. end - 1) ELSE prunable
  /\ UNCHANGED <<row_count, rows_per_chunk, proven, pc, ranges, pruned_rows, skip_bits>>

(* Pruning must pay: it is dropped when it removes too few of the rows.    *)
WeighPruning ==
  /\ pc = "gaps"
  /\ z = ChunkCount
  /\ prunable' = IF SizeOf(prunable) * 100 < row_count * MinPercent THEN {} ELSE prunable
  /\ pc' = "ranges"
  /\ z' = 0
  /\ UNCHANGED <<row_count, rows_per_chunk, proven, ranges, pruned_rows, skip_bits>>

-------------------------------------------------------------------------------
(* Runs of chunks that are scanned become ranges of at most rows_per_chunk.  *)

(* Mutant of Fits: the size before the run grows is compared.              *)
FitsBefore(start, k) == ChunkStart(k) - start <= rows_per_chunk

(* The run from row start may take chunk k.                                *)
Fits(start, k) == ChunkEnd(k) - start <= rows_per_chunk

(* The chunk after the run that starts with chunk k.                       *)
RunTo(k) == Min({j \in k + 1 .. ChunkCount :
                   \/ j = ChunkCount
                   \/ j \in prunable
                   \/ ~Fits(ChunkStart(k), j)})

EmitRange ==
  /\ pc = "ranges"
  /\ z < ChunkCount
  /\ z \notin prunable
  /\ ranges' = Append(ranges, [min |-> ChunkStart(z), max |-> ChunkEnd(RunTo(z) - 1)])
  /\ z' = RunTo(z)
  /\ UNCHANGED <<row_count, rows_per_chunk, proven, prunable, pc, pruned_rows, skip_bits>>

Prune ==
  /\ pc = "ranges"
  /\ z \in prunable
  /\ pruned_rows' = pruned_rows + ChunkEnd(z) - ChunkStart(z)
  /\ z' = z + 1
  /\ UNCHANGED <<row_count, rows_per_chunk, proven, prunable, pc, ranges, skip_bits>>

(* A table in one buffer is launched whole, with the prunable chunks        *)
(* marked, when the ranges would cost more than that.                      *)
SkipInside == /\ UniformRangeCount = 1
              /\ Len(ranges) > 1
              /\ Len(ranges) * RangeCostRows > row_count

(* Mutant of Finish: the marks are those of the chunks after.              *)
FinishShifted ==
  /\ pc = "ranges"
  /\ z = ChunkCount
  /\ IF SkipInside
     THEN ranges' = <<[min |-> 0, max |-> row_count]>> /\ skip_bits' = {k + 1 : k \in prunable}
     ELSE UNCHANGED <<ranges, skip_bits>>
  /\ pc' = "done"
  /\ UNCHANGED <<row_count, rows_per_chunk, proven, prunable, z, pruned_rows>>

Finish ==
  /\ pc = "ranges"
  /\ z = ChunkCount
  /\ IF SkipInside
     THEN ranges' = <<[min |-> 0, max |-> row_count]>> /\ skip_bits' = prunable
     ELSE UNCHANGED <<ranges, skip_bits>>
  /\ pc' = "done"
  /\ UNCHANGED <<row_count, rows_per_chunk, proven, prunable, z, pruned_rows>>

(* The function has returned.                                              *)
Returned == pc = "done" /\ UNCHANGED vars

Next == Uniform \/ UseZoneMaps \/ MergeGap \/ WeighPruning \/ EmitRange \/ Prune \/ Finish \/ Returned

Spec == Init /\ [][Next]_vars

-------------------------------------------------------------------------------
(* Properties                                                              *)

In(row, range) == range.min <= row /\ row < range.max
Dispatches(row) == {i \in DOMAIN ranges : In(row, ranges[i])}
Scanned(row)    == Dispatches(row) # {} /\ row \div ChunkRows \notin skip_bits

(* Every row of a chunk that was not proven empty is scanned by exactly one *)
(* dispatch: a missed row is lost from the answer, a row in two ranges is   *)
(* counted twice.                                                          *)
ScannedOnce ==
  pc = "done" =>
    \A row \in 0 .. row_count - 1 :
      row \div ChunkRows \notin proven =>
        Scanned(row) /\ Cardinality(Dispatches(row)) = 1

(* Ranges come in row order, do not overlap, are not empty, lie within the  *)
(* table and never exceed what one dispatch takes.                         *)
RangesFit ==
  /\ \A i \in DOMAIN ranges :
       /\ ranges[i].min < ranges[i].max
       /\ ranges[i].max <= row_count
       /\ ranges[i].max - ranges[i].min <= rows_per_chunk
  /\ \A i \in 2 .. Len(ranges) : ranges[i - 1].max <= ranges[i].min

===============================================================================
