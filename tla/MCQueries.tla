----------------------------- MODULE MCQueries -----------------------------
(***************************************************************************)
(* The parts of a select for TLC.  GroupBy and ScanRanges take steps; the   *)
(* other modules are about what the code computes from a query, so a step   *)
(* chooses one and the properties compare its answer with its meaning.      *)
(* kind says which part a behaviour is about, the variables of the others   *)
(* being idle.                                                             *)
(***************************************************************************)
EXTENDS ScanRanges, GroupBy, Windows, MCSelects

IdleRanges ==
  /\ row_count = 0 /\ rows_per_chunk = 1 /\ proven = {} /\ prunable = {} /\ pc = "idle" /\ z = 0
  /\ ranges = <<>> /\ pruned_rows = 0 /\ skip_bits = {}
IdleGroups ==
  /\ input = <<>> /\ grouped = FALSE /\ hash = <<>> /\ estimate = 0 /\ counts_only = FALSE
  /\ stage = "idle" /\ NoTable /\ compacted = FALSE /\ slots_of_groups = <<>>
  /\ low = <<>> /\ high = <<>> /\ carried = <<>> /\ answer = <<>>

-------------------------------------------------------------------------------
(* Joins by keys                                                           *)

Keyed == {<<0, 0>>, <<0, 2>>, <<1, 1>>, <<2, 0>>, <<2, 2>>}
Sides == UNION {[1 .. n -> Keyed] : n \in 1 .. 3}

PickBuild == /\ kind = "build" /\ kind' = "probe"
             /\ \E side \in Sides : query' = side
             /\ UNCHANGED db
PickProbe == /\ kind = "probe" /\ kind' = "join"
             /\ \E side \in Sides : query' = [build |-> query, probe |-> side]
             /\ UNCHANGED db

EqualPairs(build, probe) == {<<i, r>> \in (DOMAIN probe) \X (DOMAIN build) : probe[i] = build[r]}
Outer(build, probe) ==
  EqualPairs(build, probe) \cup {<<i, Unmatched>> : i \in {j \in DOMAIN probe : \A r \in DOMAIN build : probe[j] # build[r]}}
Firsts(side) == [i \in DOMAIN side |-> side[i][1]]

(* The hash join finds exactly the pairs of equal keys, of one column or of *)
(* two packed into one number on the host or on the GPU, the outer join the *)
(* rows without a partner too, the semi and the anti join the rows with and *)
(* without one; and the totals an aggregate takes without joining the rows  *)
(* are those of the joined rows.                                           *)
JoinSound ==
  kind = "join" =>
    LET build == query.build
        probe == query.probe
        Width == 2
        Packed(packed, keep) == Pairs(packed.build, packed.probe, keep, Width)
        distinct == DistinctKeyRows(Firsts(build))
        Semi(keep) == KeptLeftRows(Len(probe), Pairs([i \in DOMAIN distinct |-> build[distinct[i]][1]], Firsts(probe), TRUE, Width), keep)
        fact == [i \in DOMAIN probe |-> [key |-> probe[i][1], arg |-> probe[i][2]]]
        dim  == [i \in DOMAIN build |-> [key |-> build[i][1], group |-> build[i][2]]]
    IN  /\ Pairs(Firsts(build), Firsts(probe), FALSE, Width) = EqualPairs(Firsts(build), Firsts(probe))
        /\ Pairs(Firsts(build), Firsts(probe), TRUE, Width) = Outer(Firsts(build), Firsts(probe))
        /\ \A packed \in {PackedOnHost(build, probe), PackedOnDevice(build, probe)} :
             Packed(packed, FALSE) = EqualPairs(build, probe) /\ Packed(packed, TRUE) = Outer(build, probe)
        /\ Semi(TRUE) = {i \in DOMAIN probe : \E r \in DOMAIN build : probe[i][1] = build[r][1]}
        /\ Semi(FALSE) = DOMAIN probe \ Semi(TRUE)
        /\ PushesDown(fact, dim, 2) => ToSet(PushedDown(fact, dim)) = Aggregate(JoinedRows(fact, dim), TRUE)

-------------------------------------------------------------------------------
(* ORDER BY with LIMIT and OFFSET                                          *)

Numbers == {-2, 0, 3}
OneKey == {[i \in 1 .. n |-> <<s[i]>>] : n \in {1, 3}, s \in [1 .. 3 -> Numbers]}
            \cup {<<<<0>>, <<2>>, <<0>>, <<2>>, <<0>>>>, <<<<3>>, <<2>>, <<2>>, <<-2>>, <<2>>>>}
TwoKeys == [1 .. 2 -> {<<0, 0>>, <<0, 2>>, <<2, 0>>}] \cup {<<<<0, 2>>, <<0, 0>>, <<2, 2>>, <<0, 0>>, <<2, 3>>>>}

PickSort == /\ kind = "rows" /\ kind' = "sort"
            /\ \/ \E keys \in OneKey, how \in {<<FALSE, FALSE>>, <<TRUE, FALSE>>, <<FALSE, TRUE>>} :
                    query' = [keys |-> keys, desc |-> <<how[1]>>, text |-> how[2]]
               \/ \E keys \in TwoKeys, desc \in {<<FALSE, FALSE>>, <<TRUE, FALSE>>, <<FALSE, TRUE>>} :
                    query' = [keys |-> keys, desc |-> desc, text |-> FALSE]
            /\ UNCHANGED db
PickLimit == /\ kind = "sort" /\ kind' = "order"
             /\ \E limit \in {Unlimited, 1, 2}, offset \in {0, 1}, kept \in {DOMAIN query.keys, DOMAIN query.keys \ {2, 3}},
                  scan \in {<<"table", FALSE>>, <<"table", TRUE>>, <<"index", TRUE>>} :
                  query' = [limit |-> limit, offset |-> offset, kept |-> kept, scanned |-> scan[1], indexed |-> scan[2],
                            keys |-> query.keys, desc |-> query.desc, text |-> query.text]
             /\ UNCHANGED db

KeyAt(a, k) == IF query.desc[k] THEN -query.keys[a][k] ELSE query.keys[a][k]
InFront(a, b) == \E k \in DOMAIN query.desc : KeyAt(a, k) < KeyAt(b, k) /\ \A j \in 1 .. k - 1 : KeyAt(a, j) = KeyAt(b, j)
Stably(a, b) == InFront(a, b) \/ (~InFront(b, a) /\ a < b)

(* Whatever node is chosen, sort, heap, walk of the index or rows that are  *)
(* sorted already, and on whichever processor, the rows are those the limit *)
(* and the offset cut from some order of all the rows by their keys; and    *)
(* the rows a top k keeps, also of several ranges, are those of the stable  *)
(* order.  A tie decided otherwise in a range than in the merge, a chunk of *)
(* the index forgotten or padding before a row would break this.            *)
OrderSound ==
  kind = "order" =>
    LET q    == query
        Size(S) == Cardinality(S)
        rest == Max({0, Size(q.kept) - q.offset})
        Cut(rows) ==
          /\ Len(rows) = Min({rest, IF q.limit = Unlimited THEN rest ELSE q.limit})
          /\ \A i \in DOMAIN rows :
               /\ rows[i] \in q.kept /\ \A j \in 1 .. i - 1 : rows[j] # rows[i]
               /\ Size({b \in q.kept : InFront(b, rows[i])}) < q.offset + i
               /\ q.offset + i <= Size({b \in q.kept : ~InFront(rows[i], b)})
        Stable(rows) == \A i \in DOMAIN rows : Size({b \in DOMAIN q.keys : Stably(b, rows[i])}) = i - 1
    IN  /\ \A strategy \in SortStrategies(q), gpu_min_rows \in {0, 5}, order \in IF q.indexed THEN IndexOrders(q) ELSE {Identity(q)} :
             \A rows \in ExecuteOrdered(q, strategy, gpu_min_rows, order) : Cut(rows)
        /\ \A keep \in 1 .. 2 :
             \A rows \in {TopKParallel(q, keep), TopKNative(q, keep), SortMaterialized(q, [top_k |-> keep, gpu_min_rows |-> 0])} :
               Len(rows) = MinOf(keep, Len(q.keys)) /\ Stable(rows)

-------------------------------------------------------------------------------
(* Windows                                                                 *)

Windowed == {<<0, 0>>, <<0, 2>>, <<2, 0>>, <<0, 3>>, <<0, NullValue>>, <<NullValue, 2>>}
Arguments == <<4, NullValue, -1>>

PickWindow == /\ kind = "windows" /\ kind' = "window"
              /\ \E keys \in [1 .. 3 -> Windowed], how \in {<<1, FALSE>>, <<1, TRUE>>, <<0, FALSE>>, <<2, FALSE>>} :
                   query' = [keys |-> keys, desc |-> <<FALSE, how[2]>>, partition_keys |-> how[1],
                             text |-> FALSE, args |-> Arguments]
             /\ UNCHANGED db

(* A rank counts the rows of the partition in front of the row, a dense     *)
(* rank their different keys, and peers have row numbers next to each       *)
(* other, on either processor; LAG and LEAD read the row that many further  *)
(* on; and an aggregate is that of the rows up to the last peer.  A         *)
(* boundary missed between two partitions or groups, or a NULL taken for a  *)
(* number, would break this.                                               *)
WindowSound ==
  kind = "window" =>
    LET w == query
        All == DOMAIN w.keys
        Value(a, k) == IF w.keys[a][k] = NullValue THEN -100 ELSE w.keys[a][k]
        Partition(a) == {b \in All : \A k \in 1 .. w.partition_keys : Value(a, k) = Value(b, k)}
        Place(a) == [k \in w.partition_keys + 1 .. 2 |-> IF w.desc[k] THEN -Value(a, k) ELSE Value(a, k)]
        AheadOf(a) == {b \in Partition(a) : \E k \in DOMAIN Place(a) : /\ Place(b)[k] < Place(a)[k]
                                                                   /\ \A j \in w.partition_keys + 1 .. k - 1 : Place(b)[j] = Place(a)[j]}
        PeersOf(a) == {b \in Partition(a) : Place(b) = Place(a)}
        NumberOf(a) == Cardinality(AheadOf(a)) + Cardinality({b \in PeersOf(a) : b <= a})
    IN  /\ \A r \in {WindowRanking(w), CpuRanking(w)} :
             /\ {r[i].row : i \in DOMAIN r} = All
             /\ \A i \in DOMAIN r :
                  /\ r[i].rank = 1 + Cardinality(AheadOf(r[i].row))
                  /\ r[i].dense_rank = 1 + Cardinality({Place(b) : b \in AheadOf(r[i].row)})
                  /\ r[i].row_number \in r[i].rank .. r[i].rank + Cardinality(PeersOf(r[i].row)) - 1
                  /\ \A j \in 1 .. i - 1 : r[j].row \in PeersOf(r[i].row) => r[j].row_number # r[i].row_number
        /\ \A shift \in {-1, 1, 2} : \A s \in Shifted(w, shift, 9) :
             IF \E b \in Partition(s.row) : NumberOf(b) = NumberOf(s.row) + shift
             THEN \E b \in Partition(s.row) : NumberOf(b) = NumberOf(s.row) + shift /\ s.value = w.args[b]
             ELSE s.value = 9
        /\ \A a \in Aggregated(w) :
             LET frame == {b \in Partition(a.row) : a.row \notin AheadOf(b)}
                 values == {b \in frame : w.args[b] # NullValue}
             IN  /\ a.totals.all = Cardinality(frame) /\ a.totals.count = Cardinality(values)
                 /\ a.totals.sum = MapThenSumSet(LAMBDA b : w.args[b], values)
                 /\ IF values = {} THEN a.totals.least = NullValue
                    ELSE /\ \E b \in values : a.totals.least = w.args[b]
                         /\ \A b \in values : w.args[b] \in a.totals.least .. a.totals.greatest

-------------------------------------------------------------------------------
R(key, arg) == [key |-> key, arg |-> arg]
MCInputs == {<<>>, <<R(1, 3), R(1, -2), R(2, 1)>>, <<R(1, 3), R(2, -1), R(1, 3), R(2, -3), R(1, 3)>>,
             <<R(1, 2), R(2, 2), R(4, -3)>>, <<R(1, 3), R(1, 3), R(1, 3)>>}
MCHashes == {[key \in 1 .. 4 |-> 0], [key \in 1 .. 4 |-> key]}

(* pc has no loop in the behaviours that are not about ranges.              *)
QueriesInit ==
  /\ query = <<>>
  /\ \/ kind = "types" /\ db \in DBs /\ IdleRanges /\ IdleGroups
     \/ kind = "subqueries" /\ db \in MoreDBs /\ IdleRanges /\ IdleGroups
     \/ kind \in {"table", "build", "rows", "windows"} /\ db = <<>> /\ IdleRanges /\ IdleGroups
     \/ kind = "ranges" /\ db = <<>> /\ Init /\ IdleGroups
     \/ kind = "groups" /\ db = <<>> /\ IdleRanges /\ GroupByInit
Pick == PickTypes \/ PickFrom \/ PickSubquery \/ PickTable \/ PickWhere \/ PickBuild \/ PickProbe \/ PickSort \/ PickLimit \/ PickWindow
QueriesNext == \/ Pick /\ UNCHANGED <<vars, groupby_vars>>
               \/ Next /\ UNCHANGED <<select_vars, groupby_vars>>
               \/ GroupByNext /\ UNCHANGED <<select_vars, vars>>
QueriesSpec == QueriesInit /\ [][QueriesNext]_<<select_vars, vars, groupby_vars>>
=============================================================================
