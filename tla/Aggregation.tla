---------------------------- MODULE Aggregation ----------------------------
(***************************************************************************)
(* The totals of rows, one for each group, as src/src/query_exec/query_exec.c *)
(* and its shaders compute them: in pieces that are combined, and for an    *)
(* aggregate over a join without joining the rows.  Rows count from 1; a    *)
(* row of an input is [key, arg].  One argument stands for all; AVG is the  *)
(* sum over the count.                                                      *)
(***************************************************************************)
EXTENDS Integers, Sequences, FiniteSets, FiniteSetsExt, SequencesExt

CONSTANT Huge     \* 1.0e300, beyond every value
ASSUME HugeAssumption == Huge \in Nat

NoKey == 0        \* no GROUP BY, a single group without a row of its own

(* A QE_AggregateAccumulator, or a row of partials.                         *)
Nothing == [count |-> 0, sum |-> 0, min |-> Huge, max |-> -Huge]
Combine(a, b) == [count |-> a.count + b.count, sum |-> a.sum + b.sum, min |-> Min({a.min, b.min}), max |-> Max({a.max, b.max})]
Single(value) == [count |-> 1, sum |-> value, min |-> value, max |-> value]
Total(input, R) == FoldSet(LAMBDA i, total : Combine(total, Single(input[i].arg)), Nothing, R)

(* The sum over the pieces of n rows, size rows each but for the last.      *)
Pieces(n, size) == {p \in SUBSET (1 .. n) : \E k \in 0 .. n : p = (k * size + 1) .. Min({(k + 1) * size, n})} \ {{}}
InPieces(input, R, size) ==
  FoldSet(LAMBDA piece, total : Combine(total, Total(input, R \cap piece)), Nothing, Pieces(Len(input), size))

KeysOf(input) == {input[i].key : i \in DOMAIN input}
RowsOf(input, key) == {i \in DOMAIN input : input[i].key = key}
Group(key, total) == [key |-> key, total |-> total]

(* No row, no group; without GROUP BY one group of zeros.                   *)
NoRows(grouped) == IF grouped THEN <<>> ELSE <<Group(NoKey, [count |-> 0, sum |-> 0, min |-> 0, max |-> 0])>>

(* qe_aggregate_cpu_reduce: a row with the key of an earlier group adds to  *)
(* it, another one starts a group.                                         *)
CpuReduce(input, grouped) ==
  LET Key(row) == IF grouped THEN row.key ELSE NoKey
      Add(groups, row) ==
        LET at == {g \in DOMAIN groups : groups[g].key = Key(row)}
        IN  IF at = {} THEN Append(groups, Group(Key(row), Single(row.arg)))
            ELSE [groups EXCEPT ![Min(at)].total = Combine(@, Single(row.arg))]
  IN  FoldLeft(Add, <<>>, input)

(* A group for every value from the smallest key to the largest one, those  *)
(* without a row left out, in key order; each piece of the rows is counted  *)
(* on its own.                                                             *)
DenseReduce(input, size) ==
  LET keys    == KeysOf(input)
      present == SelectSeq([g \in 1 .. Max(keys) - Min(keys) + 1 |-> Min(keys) + g - 1], LAMBDA key : RowsOf(input, key) # {})
  IN  [g \in DOMAIN present |-> Group(present[g], InPieces(input, RowsOf(input, present[g]), size))]

(* No GROUP BY: the whole table in pieces.                                  *)
GlobalReduce(input, size) == <<Group(NoKey, InPieces(input, DOMAIN input, size))>>

-------------------------------------------------------------------------------
(* An aggregate over the join of a large table with a small one, without    *)
(* the join: fact holds [key, arg] rows, dim holds [key, group] rows.       *)

(* The rows of the large table with this key.                               *)
FactTotals(fact, key) == Total(fact, RowsOf(fact, key))

(* Every row of the small table whose key the large one has brings the      *)
(* totals of that key to its group.                                        *)
PushedDown(fact, dim) ==
  LET Add(groups, row) ==
        LET total == FactTotals(fact, row.key)
            at    == {g \in DOMAIN groups : groups[g].key = row.group}
        IN  IF RowsOf(fact, row.key) = {} THEN groups
            ELSE IF at = {} THEN Append(groups, Group(row.group, total))
            ELSE [groups EXCEPT ![Min(at)].total = Combine(@, total)]
  IN  FoldLeft(Add, <<>>, dim)

(* A key outside of a small range is found with a hash table, which a key   *)
(* that the small table has twice rules out.                                *)
PushesDown(fact, dim, dense_keys) ==
  /\ PushedDown(fact, dim) # <<>>
  /\ \/ Max(KeysOf(fact)) - Min(KeysOf(fact)) < dense_keys
     \/ \A i, j \in DOMAIN dim : dim[i].key = dim[j].key => i = j

-------------------------------------------------------------------------------
(* What an aggregate means                                                 *)

Aggregate(input, grouped) ==
  IF grouped THEN {Group(key, Total(input, RowsOf(input, key))) : key \in KeysOf(input)}
  ELSE {Group(NoKey, IF input = <<>> THEN NoRows(FALSE)[1].total ELSE Total(input, DOMAIN input))}

JoinedRows(fact, dim) ==
  LET Partners(row) == SelectSeq(dim, LAMBDA other : other.key = row.key)
      JoinedTo(row) == [j \in DOMAIN Partners(row) |-> [key |-> Partners(row)[j].group, arg |-> row.arg]]
  IN  FlattenSeq([i \in DOMAIN fact |-> JoinedTo(fact[i])])
=============================================================================
