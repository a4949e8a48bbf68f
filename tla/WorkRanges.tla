------------------------------ MODULE WorkRanges ------------------------------
(***************************************************************************)
(* tp_divide_work of src/src/thread_pool/thread_pool.c: the split of a      *)
(* number of items into one half-open range per task.  Every parallel loop *)
(* of the engine takes its rows, groups or words from it.                  *)
(***************************************************************************)
EXTENDS Integers

MinOf(a, b) == IF a <= b THEN a ELSE b

(* Mutant of CeilIntegerDiv: rounds down.                                   *)
FloorIntegerDiv(a, b) == a \div b

CeilIntegerDiv(a, b) == (a + b - 1) \div b

(* Mutant of WorkRange: the upper bound is not capped at item_count.        *)
WorkRangeUncapped(item_count, per_count, i) ==
  [min |-> MinOf(item_count, i * per_count), max |-> i * per_count + per_count]

WorkRange(item_count, per_count, i) ==
  [min |-> MinOf(item_count, i * per_count),
   max |-> MinOf(item_count, i * per_count + per_count)]

(* The range of every worker, and an empty one behind them.                *)
DivideWork(item_count, worker_count) ==
  [i \in 0 .. worker_count |->
     IF i = worker_count THEN [min |-> item_count, max |-> item_count]
     ELSE WorkRange(item_count, CeilIntegerDiv(item_count, worker_count), i)]

InRange(x, r) == r.min <= x /\ x < r.max
===============================================================================
