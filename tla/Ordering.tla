------------------------------ MODULE Ordering ------------------------------
(***************************************************************************)
(* ORDER BY, LIMIT and OFFSET: the node the optimizer chooses (plan_ordering *)
(* of src/src/optimizer/optimizer.c), how src/src/planner/planner.c runs it *)
(* and the sorts of src/src/query_exec/query_exec.c and of its shaders.     *)
(*                                                                         *)
(* A sort is [keys, desc, text]: keys gives each position the numbers it is *)
(* sorted by, desc says of each key whether it descends, text whether one   *)
(* of them is a text, which the GPU does not compare.  An order is a        *)
(* sequence of positions.  Heaps are sequences whose root is the last of    *)
(* the rows kept.  Numbers count halves, as those of ScanFilter.            *)
(***************************************************************************)
EXTENDS Integers, Sequences, FiniteSets, FiniteSetsExt, SequencesExt, WorkRanges
LOCAL Index == INSTANCE IndexOrder

CONSTANTS PoolWorkers,      \* worker_count of the thread pool
          ParallelRows,     \* QE_TOP_K_PARALLEL_MIN_ROWS
          TaskRows,         \* QE_TOP_K_MIN_ROWS_PER_TASK
          KeepsPerTask,     \* 4, the rows of a task are that many times those kept
          MaxKeep,          \* QE_OPT_TOP_N_MAX_K
          WalkChunk,        \* 1024, the first chunk of a walk of the index
          KeyBits,          \* 64, the bits of a composite key
          SortTile          \* QE_WINDOW_COMPOSITE_TILE
ASSUME OrderingAssumption ==
  {PoolWorkers, ParallelRows, TaskRows, KeepsPerTask, MaxKeep, WalkChunk, KeyBits, SortTile} \subseteq Nat \ {0}

-------------------------------------------------------------------------------
(* Comparisons                                                             *)

Less(q, a, b) ==
  \E k \in DOMAIN q.desc :
    /\ \A j \in 1 .. k - 1 : q.keys[a][j] = q.keys[b][j]
    /\ IF q.desc[k] THEN q.keys[a][k] > q.keys[b][k] ELSE q.keys[a][k] < q.keys[b][k]

OrderBefore(q, a, b) == Less(q, a, b) \/ (~Less(q, b, a) /\ a < b)

(* Bottom up: runs of width 1, 2, 4 ... are merged in pairs.                *)
MergeRuns(q, left, right) ==
  LET From[l \in 1 .. Len(left) + 1, r \in 1 .. Len(right) + 1] ==
        IF l > Len(left) THEN SubSeq(right, r, Len(right))
        ELSE IF r > Len(right) THEN SubSeq(left, l, Len(left))
        ELSE IF OrderBefore(q, right[r], left[l]) THEN <<right[r]>> \o From[l, r + 1]
        ELSE <<left[l]>> \o From[l + 1, r]
  IN  From[1, 1]
MergePass(q, order, width) ==
  LET count == Len(order)
      Run(first) == SubSeq(order, MinOf(first, count) + 1, MinOf(first + width, count))
  IN  FlattenSeq([i \in 1 .. CeilIntegerDiv(count, 2 * width) |->
                    MergeRuns(q, Run((i - 1) * 2 * width), Run((2 * i - 1) * width))])
MergeSort(q, order) ==
  FoldLeft(LAMBDA merged, bit : IF 2 ^ bit < Len(order) THEN MergePass(q, merged, 2 ^ bit) ELSE merged,
           order, [i \in DOMAIN order |-> i - 1])

-------------------------------------------------------------------------------
(* The rows kept of a top k                                                *)

Exchange(s, i, j) == [s EXCEPT ![i] = s[j], ![j] = s[i]]

(* A root that is before its later child changes places with it.           *)
SiftDown(q, heap, count, root) ==
  LET Child(h, r) == IF 2 * r + 1 <= count /\ OrderBefore(q, h[2 * r], h[2 * r + 1]) THEN 2 * r + 1 ELSE 2 * r
      Sinks(s, child) == 2 * s.root <= count /\ OrderBefore(q, s.heap[s.root], s.heap[child])
      Step(s, i) == IF Sinks(s, Child(s.heap, s.root))
                    THEN [heap |-> Exchange(s.heap, s.root, Child(s.heap, s.root)), root |-> Child(s.heap, s.root)]
                    ELSE s
  IN  FoldLeft(Step, [heap |-> heap, root |-> root], [i \in 1 .. count |-> i]).heap

Heapify(q, heap, count) ==
  FoldLeft(LAMBDA h, i : SiftDown(q, h, count, count \div 2 + 1 - i), heap, [i \in 1 .. count \div 2 |-> i])

(* position takes the place of the last row kept if it displaces it.        *)
Offer(q, heap, position, displaces) ==
  IF heap # <<>> /\ displaces[position, heap[1]]
  THEN SiftDown(q, [heap EXCEPT ![1] = position], Len(heap), 1) ELSE heap
OfferAll(q, heap, positions, displaces) ==
  FoldLeft(LAMBDA h, position : Offer(q, h, position, displaces), heap, positions)
Earliest(q, positions, keep, displaces) ==
  LET kept == MinOf(keep, Len(positions))
  IN  OfferAll(q, Heapify(q, SubSeq(positions, 1, kept), kept), SubSeq(positions, kept + 1, Len(positions)), displaces)

SelectTop(q, order, keep) ==
  MergeSort(q, Earliest(q, order, keep, [a, b \in DOMAIN q.keys |-> OrderBefore(q, a, b)]))

Positions(range) == [i \in 1 .. range.max - range.min |-> range.min + i]

(* Mutant of SelectTopRange: a row that ties with the last one displaces it. *)
SelectTopRangeTied(q, range, keep) ==
  MergeSort(q, Earliest(q, Positions(range), keep, [a, b \in DOMAIN q.keys |-> ~Less(q, b, a)]))

(* A later position of the range never displaces one it ties with.          *)
SelectTopRange(q, range, keep) ==
  MergeSort(q, Earliest(q, Positions(range), keep, [a, b \in DOMAIN q.keys |-> Less(q, a, b)]))

TopKTasks(count, keep) ==
  LET most == count \div Max({TaskRows, keep * KeepsPerTask}) IN Max({1, MinOf(PoolWorkers, most)})
TopKParallel(q, keep) ==
  LET tasks  == TopKTasks(Len(q.keys), keep)
      ranges == DivideWork(Len(q.keys), tasks)
  IN  SelectTop(q, FlattenSeq([t \in 1 .. tasks |-> SelectTopRange(q, ranges[t - 1], keep)]), keep)

(* Over numbers read in place, by heap sorts.                              *)
HeapSort(q, heap) ==
  FoldLeft(LAMBDA h, end : SiftDown(q, Exchange(h, 1, end), end - 1, 1), heap,
           [i \in 1 .. Len(heap) - 1 |-> Len(heap) + 1 - i])
TopKNativeRange(q, range, keep) ==
  LET lead == [q EXCEPT !.desc = <<q.desc[1]>>]
      displaces[a, b \in DOMAIN q.keys] ==
        \/ Less(lead, a, b)
        \/ ~Less(lead, b, a) /\ Len(q.desc) > 1 /\ OrderBefore(q, a, b)
  IN  HeapSort(q, Earliest(q, Positions(range), keep, displaces))
TopKNative(q, keep) ==
  LET tasks   == TopKTasks(Len(q.keys), keep)
      ranges  == DivideWork(Len(q.keys), tasks)
      winners == FlattenSeq([t \in 1 .. tasks |-> TopKNativeRange(q, ranges[t - 1], keep)])
  IN  HeapSort(q, Earliest(q, winners, keep, [a, b \in DOMAIN q.keys |-> OrderBefore(q, a, b)]))

-------------------------------------------------------------------------------
(* The sorting networks                                                    *)

PaddedCount(count, least) == Min({least * 2 ^ i : i \in {j \in 0 .. count : least * 2 ^ j >= count}})
Stages(padded) == CHOOSE i \in 0 .. padded : 2 ^ i = padded

(* One pass of a stage: the pairs a stride apart, which do not overlap, are *)
(* ordered upwards or downwards in turn.  Places count from 0.              *)
NetworkPass(array, before, stage, stride) ==
  LET Upwards(i) == (i \div 2 ^ stage) % 2 = 0
      First(i)   == i - (IF (i \div stride) % 2 = 0 THEN 0 ELSE stride)
      Swaps(i)   == IF Upwards(i) THEN before[array[i + stride], array[i]] ELSE before[array[i], array[i + stride]]
  IN  [i \in DOMAIN array |->
         IF ~Swaps(First(i)) THEN array[i] ELSE IF First(i) = i THEN array[i + stride] ELSE array[i - stride]]
StageOf(array, before, stage, strides) ==
  FoldLeft(LAMBDA a, stride : NetworkPass(a, before, stage, stride), array, strides)
Halving(stage) == [i \in 1 .. stage |-> 2 ^ (stage - i)]

(* Padding comes behind every row, and ties are not decided.                *)
Bitonic(q) ==
  LET count  == Len(q.keys)
      padded == PaddedCount(count, 2)
      start  == [i \in 0 .. padded - 1 |-> [valid |-> i < count, row |-> IF i < count THEN i + 1 ELSE 0]]
      before[a, b \in {start[i] : i \in DOMAIN start}] == a.valid /\ (~b.valid \/ Less(q, a.row, b.row))
      sorted == FoldLeft(LAMBDA a, stage : StageOf(a, before, stage, Halving(stage)), start, [i \in 1 .. Stages(padded) |-> i])
  IN  [i \in 1 .. count |-> sorted[i - 1].row]

(* A key becomes its distance from the least one, or from the greatest if   *)
(* it descends, with one decimal if a value is not whole.  A range without  *)
(* rows counts as a 0.                                                     *)
Scaled(v, scale) == IF scale = 0 THEN v \div 2 ELSE 5 * v
KeyRange(q, k) ==
  LET values == {q.keys[i][k] : i \in DOMAIN q.keys}
      tasks  == Max({1, MinOf(PoolWorkers, Len(q.keys))})
      ranges == DivideWork(Len(q.keys), tasks)
      seen   == values \cup (IF \E t \in 0 .. tasks - 1 : ranges[t].min = ranges[t].max THEN {0} ELSE {})
      scale  == IF \A v \in values : v % 2 = 0 THEN 0 ELSE 1
      span   == Scaled(Max(seen), scale) - Scaled(Min(seen), scale)
  IN  [scale |-> scale, minimum |-> Scaled(Min(seen), scale), maximum |-> Scaled(Max(seen), scale),
       bits |-> Min({b \in 0 .. span : span < 2 ^ b})]
KeyRanges(q) == [k \in DOMAIN q.desc |-> KeyRange(q, k)]
BitsOf(key_ranges, ks) == MapThenSumSet(LAMBDA k : key_ranges[k].bits, ks)

(* The first key takes the highest bits.                                    *)
Composite(q, key_ranges, i) ==
  LET Offset(k) == LET v == Scaled(q.keys[i][k], key_ranges[k].scale)
                   IN  IF q.desc[k] THEN key_ranges[k].maximum - v ELSE v - key_ranges[k].minimum
  IN  MapThenSumSet(LAMBDA k : Offset(k) * 2 ^ BitsOf(key_ranges, k + 1 .. Len(q.desc)), DOMAIN q.desc)
Packs(q) == BitsOf(KeyRanges(q), DOMAIN q.desc) <= KeyBits

(* Stages within a tile take place there, and so do the short strides of    *)
(* the later ones.  Padding has the largest key and row.                    *)
CompositeSort(q) ==
  LET count   == Len(q.keys)
      padded  == PaddedCount(count, SortTile)
      Strides(stage) == SelectSeq(Halving(stage), LAMBDA s : s >= SortTile) \o SelectSeq(Halving(stage), LAMBDA s : s < SortTile)
      key_ranges == KeyRanges(q)
      start   == [i \in 0 .. padded - 1 |-> IF i < count THEN [key |-> Composite(q, key_ranges, i + 1), row |-> i + 1]
                                            ELSE [key |-> 2 ^ KeyBits - 1, row |-> padded + 1]]
      before[a, b \in {start[i] : i \in DOMAIN start}] == a.key < b.key \/ (a.key = b.key /\ a.row < b.row)
      sorted  == FoldLeft(LAMBDA a, stage : StageOf(a, before, stage, Strides(stage)), start, [i \in 1 .. Stages(padded) |-> i])
  IN  [i \in 1 .. count |-> sorted[i - 1]]

-------------------------------------------------------------------------------
(* The sort of rows, and of a materialized result.  hints are the number of *)
(* rows to keep, 0 for all, and the least number the GPU sorts.             *)

Identity(q) == [i \in DOMAIN q.keys |-> i]

(* qsort of the C library: ties in any order (external).                    *)
QuickSorts(q) ==
  {s \in [DOMAIN q.keys -> DOMAIN q.keys] :
     /\ \A i, j \in DOMAIN s : s[i] = s[j] => i = j
     /\ \A i \in 1 .. Len(q.keys) - 1 : ~Less(q, s[i + 1], s[i])}

SortRows(q, hints) ==
  LET count == Len(q.keys)
      top_k == hints.top_k > 0 /\ hints.top_k < count
      Rows(pairs) == [i \in DOMAIN pairs |-> pairs[i].row]
  IN  CASE count <= 1 -> {Identity(q)}
        [] count > 1 /\ top_k ->
             {IF count < ParallelRows \/ PoolWorkers = 1 THEN SelectTop(q, Identity(q), hints.top_k)
              ELSE IF q.text THEN TopKParallel(q, hints.top_k) ELSE TopKNative(q, hints.top_k)}
        [] count > 1 /\ ~top_k /\ (q.text \/ count < hints.gpu_min_rows) -> QuickSorts(q)
        [] OTHER -> {IF Packs(q) THEN Rows(CompositeSort(q)) ELSE Bitonic(q)}

SortMaterialized(q, hints) ==
  IF hints.top_k > 0 /\ hints.top_k < Len(q.keys) THEN SelectTop(q, Identity(q), hints.top_k) ELSE MergeSort(q, Identity(q))

-------------------------------------------------------------------------------
(* The node, and its rows                                                  *)

Unlimited == -1
ApplyLimit(rows, offset, limit) ==
  IF offset >= Len(rows) THEN <<>>
  ELSE SubSeq(rows, offset + 1, offset + (IF limit = Unlimited THEN Len(rows) - offset ELSE MinOf(Len(rows) - offset, limit)))

(* An ordered select is a sort with the positions its filter keeps, how     *)
(* they are scanned, whether its first key has an index and a limit.  A     *)
(* sort that is left as it is is always a choice (settings), and so is a    *)
(* walk of the index, for what it costs is not modelled.                    *)
KeepCount(select) == select.offset + select.limit
IndexedKey(select) == select.indexed /\ Len(select.desc) = 1
SortStrategies(select) ==
  {"sort"}
  \cup {s \in {"presorted"} : IndexedKey(select) /\ select.scanned = "index"}
  \cup {s \in {"heap", "walk"} : /\ select.limit # Unlimited /\ KeepCount(select) \in 1 .. MaxKeep
                                 /\ s = "walk" => IndexedKey(select)}

(* The rows of an index in the order of their keys, those of one key in any. *)
IndexOrders(q) == Index!Orders([i \in DOMAIN q.keys |-> q.keys[i][1]])
InFilter(select, rows) == SelectSeq(rows, LAMBDA position : position \in select.kept)

(* Chunks of double the size until enough rows pass or none is left.        *)
WalkIndex(select, order, wanted) ==
  LET walked == IF select.desc[1] THEN Reverse(order) ELSE order
      Chunk(s, i) ==
        LET take == MinOf(s.size, Len(walked) - s.position)
            kept == InFilter(select, SubSeq(walked, s.position + 1, s.position + take))
        IN  IF Len(s.found) >= wanted THEN s
            ELSE [found |-> s.found \o SubSeq(kept, 1, MinOf(Len(kept), wanted - Len(s.found))),
                  position |-> s.position + take, size |-> 2 * s.size]
  IN  FoldLeft(Chunk, [found |-> <<>>, position |-> 0, size |-> Max({wanted * 2, WalkChunk})], order).found

(* The filter's rows are sorted by their own keys: those of the positions   *)
(* found, in the order they were found.                                     *)
SortOf(select, rows) == [keys |-> [i \in DOMAIN rows |-> select.keys[rows[i]]], desc |-> select.desc, text |-> select.text]
Found(select, order) == InFilter(select, IF select.scanned = "index" THEN order ELSE Identity(select))
ExecuteOrdered(select, strategy, gpu_min_rows, order) ==
  LET found == Found(select, order)
      Of(sorted) == [i \in DOMAIN sorted |-> found[sorted[i]]]
      hints == [top_k |-> IF strategy = "heap" THEN KeepCount(select) ELSE 0, gpu_min_rows |-> gpu_min_rows]
      ordered == CASE strategy = "presorted" -> {IF select.desc[1] THEN Reverse(found) ELSE found}
                   [] strategy = "walk" -> {WalkIndex(select, order, KeepCount(select))}
                   [] OTHER -> {Of(sorted) : sorted \in SortRows(SortOf(select, found), hints)}
  IN  {ApplyLimit(rows, select.offset, select.limit) : rows \in ordered}
=============================================================================
