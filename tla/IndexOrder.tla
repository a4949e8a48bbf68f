------------------------------ MODULE IndexOrder ------------------------------
(***************************************************************************)
(* The order of a secondary index (CQL_Index of src/src/cql/cql.h): the     *)
(* numbers of all rows, sorted by the keys of one column, kept through      *)
(* appends and removals (src/src/cql/cql.c) and searched by comparisons     *)
(* (src/src/query_exec/query_exec.c).  keys[r] is the key of row r.         *)
(***************************************************************************)
EXTENDS Integers, Sequences, SequencesExt

IsOrder(order, n) ==
  /\ DOMAIN order = 1 .. n
  /\ \A i \in 1 .. n : order[i] \in 1 .. n
  /\ \A i, j \in 1 .. n : order[i] = order[j] => i = j

Ascending(order, keys) ==
  \A i, j \in DOMAIN order : i <= j => keys[order[i]] <= keys[order[j]]

Sorted(order, keys) == IsOrder(order, Len(keys)) /\ Ascending(order, keys)

(* cql_index_build_order: rows of one key come in any order.                *)
Orders(keys) ==
  {order \in [1 .. Len(keys) -> 1 .. Len(keys)] : Sorted(order, keys)}

(* The halving search of the code: how many of the n positions come before  *)
(* the one that is looked for.                                             *)
Bisect(before, n) ==
  LET Search[s \in (0 .. n) \X (0 .. n)] ==
        IF s[1] >= s[2] THEN s[1]
        ELSE LET mid == s[1] + (s[2] - s[1]) \div 2
             IN  IF before[mid + 1] THEN Search[<<mid + 1, s[2]>>] ELSE Search[<<s[1], mid>>]
  IN  Search[<<0, n>>]

(* The positions before the first row whose key is not below k (LowerBound) *)
(* or is above it (UpperBound).                                            *)
LowerBound(order, keys, k) ==
  Bisect([i \in DOMAIN order |-> keys[order[i]] < k], Len(order))
UpperBound(order, keys, k) ==
  Bisect([i \in DOMAIN order |-> keys[order[i]] <= k], Len(order))

Inserted(order, p, r) ==
  [i \in 1 .. Len(order) + 1 |->
     IF i <= p THEN order[i] ELSE IF i = p + 1 THEN r ELSE order[i - 1]]

(* cql_index_insert_row: row r, whose key is already in keys.               *)
InsertRow(order, keys, r) == Inserted(order, LowerBound(order, keys, keys[r]), r)

Without(order, p) ==
  [i \in 1 .. Len(order) - 1 |-> IF i < p THEN order[i] ELSE order[i + 1]]
Renumbered(order, r) ==
  [i \in DOMAIN order |-> IF order[i] > r THEN order[i] - 1 ELSE order[i]]

(* cql_index_remove_row: rows behind the removed one move up.               *)
RemoveRow(order, r) ==
  Renumbered(Without(order, CHOOSE p \in DOMAIN order : order[p] = r), r)

(* The positions that satisfy one comparison with v.                        *)
Slice(order, keys, op, v) ==
  CASE op = "=" -> LowerBound(order, keys, v) + 1 .. UpperBound(order, keys, v)
    [] op = "<" -> 1 .. LowerBound(order, keys, v)
    [] op = "<=" -> 1 .. UpperBound(order, keys, v)
    [] op = ">" -> UpperBound(order, keys, v) + 1 .. Len(order)
    [] op = ">=" -> LowerBound(order, keys, v) + 1 .. Len(order)

-------------------------------------------------------------------------------
(* cql_table_remove_column: the indexes of a column go, from the last.      *)
IndexesWithout(indexes, c) ==
  LET n == Len(indexes)
      left[k \in 0 .. n] ==     (* when the last k indexes have been looked at *)
        IF k = 0 THEN indexes
        ELSE IF indexes[n + 1 - k].column = c THEN RemoveAt(left[k - 1], n + 1 - k)
             ELSE left[k - 1]
  IN  left[n]
===============================================================================
