------------------------------- MODULE Windows -------------------------------
(***************************************************************************)
(* Window functions: plan_window_compute of src/src/planner/planner.c and    *)
(* the ranking on the GPU, qe_window_rank_gpu of                             *)
(* src/src/query_exec/query_exec.c with the window_rank shaders.            *)
(*                                                                         *)
(* A window is a sort of Ordering whose first keys are those of PARTITION   *)
(* BY (partition_keys of them) and the others those of ORDER BY, with the   *)
(* argument of the function in each row.  A key or an argument may be NULL, *)
(* which a sort for the GPU has none of.                                   *)
(***************************************************************************)
EXTENDS Ordering, TLC

CONSTANTS NullValue,       \* of a key or an argument
          WindowGpuRows    \* PLAN_WINDOW_GPU_MIN_ROWS
ASSUME WindowsAssumption == WindowGpuRows \in Nat /\ NullValue \notin Int

PartitionKeys(w) == 1 .. w.partition_keys
OrderKeys(w) == w.partition_keys + 1 .. Len(w.desc)

-------------------------------------------------------------------------------
(* The order of the rows.  NULLs sort as the smallest value.               *)

SmallerKey(w, k, a, b) ==
  LET x == w.keys[a][k]  y == w.keys[b][k]
  IN  IF x = NullValue \/ y = NullValue THEN x = NullValue /\ y # NullValue ELSE x < y
SameKeys(w, ks, a, b) == \A k \in ks : w.keys[a][k] = w.keys[b][k]
RowBefore(w, a, b) ==
  \/ \E k \in DOMAIN w.desc : /\ SameKeys(w, 1 .. k - 1, a, b)
                              /\ IF w.desc[k] THEN SmallerKey(w, k, b, a) ELSE SmallerKey(w, k, a, b)
  \/ SameKeys(w, DOMAIN w.desc, a, b) /\ a < b
SortedRows(w) == SortSeq([i \in DOMAIN w.keys |-> i], LAMBDA a, b : RowBefore(w, a, b))

(* The places where a partition starts, and where a group of peers does.    *)
Starts(w, ks, rows) == {i \in DOMAIN rows : i = 1 \/ ~SameKeys(w, ks, rows[i - 1], rows[i])}
StartOf(starts, i) == Max({s \in starts : s <= i})
EndOf(starts, i, count) == Min({s \in starts : s > i} \cup {count + 1}) - 1

-------------------------------------------------------------------------------
(* The ranking functions.  A ranking gives the place i of the sorted rows   *)
(* three numbers.                                                          *)

Ranking(rows, row_number, rank, dense) ==
  [i \in DOMAIN rows |-> [row |-> rows[i], row_number |-> row_number[i], rank |-> rank[i], dense_rank |-> dense[i]]]

CpuRanking(w) ==
  LET rows  == SortedRows(w)
      parts == Starts(w, PartitionKeys(w), rows)
      peers == Starts(w, DOMAIN w.desc, rows)
  IN  Ranking(rows, [i \in DOMAIN rows |-> i - StartOf(parts, i) + 1],
              [i \in DOMAIN rows |-> StartOf(peers, i) - StartOf(parts, i) + 1],
              [i \in DOMAIN rows |-> Cardinality(peers \cap (StartOf(parts, i) .. i))])

(* From composite keys: the highest bits tell the partition, all of them    *)
(* the peers.                                                              *)
CompositeRanking(w) ==
  LET pairs  == CompositeSort(w)
      key_ranges == KeyRanges(w)
      order_bits == BitsOf(key_ranges, OrderKeys(w))
      Part(i) == IF BitsOf(key_ranges, PartitionKeys(w)) = 0 THEN 0 ELSE pairs[i].key \div 2 ^ order_bits
      parts  == {i \in DOMAIN pairs : i = 1 \/ Part(i) # Part(i - 1)}
      peers  == parts \cup {i \in DOMAIN pairs : i > 1 /\ pairs[i].key # pairs[i - 1].key}
  IN  Ranking([i \in DOMAIN pairs |-> pairs[i].row],
              [i \in DOMAIN pairs |-> i - StartOf(parts, i) + 1],
              [i \in DOMAIN pairs |-> StartOf(peers, i) - StartOf(parts, i) + 1],
              [i \in DOMAIN pairs |-> Cardinality(peers \cap (StartOf(parts, i) .. i))])

(* Mutant of PeerFlag: a new partition does not start a new group of peers.  *)
PeerFlagOfOrder(part_diff, order_diff) == order_diff

PeerFlag(part_diff, order_diff) == part_diff \/ order_diff

(* By flags, their prefix sums as the numbers of groups, and the places a   *)
(* group's first row writes.                                               *)
KernelRanking(w) ==
  LET rows == Bitonic(w)
      Differs(ks, i) == ~SameKeys(w, ks, rows[i - 1], rows[i])
      part_flag == [i \in DOMAIN rows |-> i = 1 \/ Differs(PartitionKeys(w), i)]
      peer_flag == [i \in DOMAIN rows |-> i = 1 \/ PeerFlag(Differs(PartitionKeys(w), i), Differs(OrderKeys(w), i))]
      Prefix(flag, i) == Cardinality({j \in 1 .. i - 1 : flag[j]})
      Id(flag, i) == Prefix(flag, i) + (IF flag[i] THEN 1 ELSE 0) - 1
      Start(flag, id) == CHOOSE i \in DOMAIN rows : flag[i] /\ Id(flag, i) = id
      base == [i \in DOMAIN rows |-> Start(part_flag, Id(part_flag, i))]
  IN  Ranking(rows, [i \in DOMAIN rows |-> i - base[i] + 1],
              [i \in DOMAIN rows |-> Start(peer_flag, Id(peer_flag, i)) - base[i] + 1],
              [i \in DOMAIN rows |-> Id(peer_flag, i) - Id(peer_flag, base[i]) + 1])

OnGpu(w) ==
  /\ Len(w.keys) >= WindowGpuRows /\ w.desc # <<>> /\ ~w.text
  /\ \A i \in DOMAIN w.keys, k \in DOMAIN w.desc : w.keys[i][k] # NullValue
WindowRanking(w) == IF ~OnGpu(w) THEN CpuRanking(w) ELSE IF Packs(w) THEN CompositeRanking(w) ELSE KernelRanking(w)

-------------------------------------------------------------------------------
(* The functions that read an argument                                     *)

(* shift is negative for LAG.                                              *)
Shifted(w, shift, default) ==
  LET rows  == SortedRows(w)
      parts == Starts(w, PartitionKeys(w), rows)
      Inside(i) == i + shift \in StartOf(parts, i) .. EndOf(parts, i, Len(rows))
  IN  {[row |-> rows[i], value |-> IF Inside(i) THEN w.args[rows[i + shift]] ELSE default] : i \in DOMAIN rows}

(* With an ORDER BY the frame ends at the last peer, else it is the whole   *)
(* partition.                                                              *)
FrameEnd(w, parts, peers, i, count) == EndOf(IF OrderKeys(w) = {} THEN parts ELSE peers, i, count)

Totals(all_rows, values) ==
  [all |-> all_rows, count |-> Len(values), sum |-> FoldLeft(LAMBDA a, b : a + b, 0, values),
   least |-> IF values = <<>> THEN NullValue ELSE Min(ToSet(values)),
   greatest |-> IF values = <<>> THEN NullValue ELSE Max(ToSet(values))]

(* An average is its sum and count; a sum of no value is a NULL.            *)
Aggregated(w) ==
  LET rows  == SortedRows(w)
      parts == Starts(w, PartitionKeys(w), rows)
      peers == Starts(w, DOMAIN w.desc, rows)
      Frame(i) == SubSeq(rows, StartOf(parts, i), FrameEnd(w, parts, peers, i, Len(rows)))
      Values(frame) == SelectSeq([j \in DOMAIN frame |-> w.args[frame[j]]], LAMBDA v : v # NullValue)
  IN  {[row |-> rows[i], totals |-> Totals(Len(Frame(i)), Values(Frame(i)))] : i \in DOMAIN rows}
=============================================================================
