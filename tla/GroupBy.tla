------------------------------ MODULE GroupBy ------------------------------
(***************************************************************************)
(* qe_aggregate_impl of src/src/query_exec/query_exec.c: the rows of a      *)
(* GROUP BY claim the slots of a hash table on the GPU, all at once, and a  *)
(* table that is too small is made larger and filled again; then one of     *)
(* several reductions gives each occupied slot its totals.  A step is one   *)
(* atomic operation of the thread of one row, or one step of the host.      *)
(***************************************************************************)
EXTENDS Aggregation, HashJoin

CONSTANTS
  Inputs,         (* bound: the inputs, sequences of [key, arg]             *)
  Hashes,         (* bound: the hash functions, of keys to numbers          *)
  Estimates,      (* the estimated numbers of groups, 0 when there is none  *)
  FirstBuckets,   (* 16                                                     *)
  FirstPlaces,    (* 8, the slots of a bucket                               *)
  RowsPerGuess,   (* 64                                                     *)
  DeviceSlots,    (* the slots that fit maxStorageBufferRange               *)
  TileGroups,     (* QE_AGG_TILE_REDUCE_MAX_GROUPS                          *)
  DenseGroups,    (* the groups that fit the memory of a workgroup          *)
  PieceRows,      (* the rows of a tile, of a workgroup or of a chunk       *)
  ScanWidth,      (* 256, the slots of a block of the compaction            *)
  Word            (* 2 ^ 32                                                 *)
ASSUME GroupByAssumption ==
  /\ {FirstBuckets, FirstPlaces, RowsPerGuess, DeviceSlots, PieceRows, ScanWidth} \subseteq Nat \ {0}
  /\ {TileGroups, DenseGroups} \subseteq Nat
  /\ Word \in Nat \ {0, 1} /\ Estimates \subseteq Nat
  /\ \A rows \in Inputs : rows \in Seq([key : Nat, arg : Int])
  /\ \A h \in Hashes, rows \in Inputs : \A i \in DOMAIN rows : h[rows[i].key] \in Nat

VARIABLES
  input, grouped, hash, estimate, counts_only,   (* the query               *)
  stage,          (* where qe_aggregate_impl is                             *)
  num_buckets, places,      (* the size of the table, num_buckets and K     *)
  owner,          (* owner_row_index: the row that claimed each slot        *)
  slot_rows,      (* slot_row_count                                         *)
  row_slot,       (* row_slot_out                                           *)
  probed,          (* the place of its bucket each row tries next            *)
  compacted, slots_of_groups,   (* the slot of each group, in their order   *)
  low, high, carried,  (* the two words of the sums, and what is to be added to the high one *)
  answer          (* the groups                                             *)
table_vars == <<num_buckets, places, owner, slot_rows, row_slot, probed>>
sum_vars == <<low, high, carried>>
query_vars == <<input, grouped, hash, estimate, counts_only>>
groupby_vars == <<query_vars, stage, table_vars, compacted, slots_of_groups, sum_vars, answer>>

NoOwner == 0
NoSlot == -1
InputRows == DOMAIN input
TableSlots == 0 .. num_buckets * places - 1

MaxBuckets == Min({2 ^ n : n \in {m \in 0 .. Len(input) : 2 ^ m >= Len(input)}})
GuessedBuckets ==
  LET wanted == IF estimate > 0 THEN estimate + estimate \div 4 ELSE Len(input) \div RowsPerGuess
      sizes  == {FirstBuckets * 2 ^ n : n \in 0 .. Len(input) + wanted}
  IN  Min({size \in sizes : size >= wanted \/ size >= MaxBuckets})

NoTable == /\ num_buckets = 0 /\ places = 0 /\ owner = <<>> /\ slot_rows = <<>>
           /\ row_slot = <<>> /\ probed = <<>>
GroupByInit ==
  /\ input \in Inputs /\ grouped \in BOOLEAN /\ hash \in Hashes /\ estimate \in Estimates /\ counts_only \in BOOLEAN
  /\ stage = "plan" /\ NoTable
  /\ compacted = FALSE /\ slots_of_groups = <<>>
  /\ low = <<>> /\ high = <<>> /\ carried = <<>>
  /\ answer = <<>>

(* The function returns with these groups.                                  *)
Return(groups) ==
  /\ answer' = groups /\ stage' = "done"
  /\ UNCHANGED <<query_vars, table_vars, compacted, slots_of_groups, sum_vars>>
(* The function logs an error and returns nothing.                          *)
Fail == stage' = "failed" /\ UNCHANGED <<query_vars, table_vars, compacted, slots_of_groups, sum_vars, answer>>

-------------------------------------------------------------------------------
(* Without a hash table                                                    *)

EmptyInput == stage = "plan" /\ input = <<>> /\ Return(NoRows(grouped))

(* Few rows, and not held on the device.                                    *)
OnCpu == stage = "plan" /\ input # <<>> /\ Return(CpuReduce(input, grouped))

(* Whole number keys of a small range; when the dispatch fails the table is *)
(* tried.                                                                  *)
Dense ==
  /\ stage = "plan" /\ input # <<>> /\ grouped
  /\ Max(KeysOf(input)) - Min(KeysOf(input)) + 1 \in 2 .. DenseGroups
  /\ Return(DenseReduce(input, PieceRows))

(* A whole table without GROUP BY.                                          *)
Global == stage = "plan" /\ input # <<>> /\ ~grouped /\ Return(GlobalReduce(input, PieceRows))

-------------------------------------------------------------------------------
(* The table                                                               *)

(* An empty table of this size, or an error when the device can not hold it. *)
Fill(buckets, size) ==
  IF buckets * size > DeviceSlots THEN Fail
  ELSE /\ num_buckets' = buckets /\ places' = size
       /\ owner' = [s \in 0 .. buckets * size - 1 |-> NoOwner]
       /\ slot_rows' = [s \in 0 .. buckets * size - 1 |-> 0]
       /\ row_slot' = [r \in InputRows |-> NoSlot]
       /\ probed' = [r \in InputRows |-> 0]
       /\ stage' = "assign"
       /\ UNCHANGED <<query_vars, compacted, slots_of_groups, sum_vars, answer>>

AssignBegin == stage = "plan" /\ input # <<>> /\ grouped /\ Fill(GuessedBuckets, FirstPlaces)

(* Mutant of SameGroup: a slot that is taken is shared by every key.        *)
SameGroupAny(row, other) == other # NoOwner

SameGroup(row, other) == input[row].key = input[other].key

SlotTried(row) == (hash[input[row].key] % num_buckets) * places + probed[row]
Trying(row) == row_slot[row] = NoSlot /\ probed[row] < places

(* A compare and swap: the row owns the slot, shares it, or goes on.        *)
Claim(row) ==
  /\ stage = "assign" /\ Trying(row)
  /\ LET slot  == SlotTried(row)
         prev  == owner[slot]
         taken == prev = NoOwner \/ SameGroup(row, prev)
     IN  /\ owner' = IF prev = NoOwner THEN [owner EXCEPT ![slot] = row] ELSE owner
         /\ row_slot' = IF taken THEN [row_slot EXCEPT ![row] = slot] ELSE row_slot
         /\ slot_rows' = IF taken THEN [slot_rows EXCEPT ![slot] = @ + 1] ELSE slot_rows
         /\ probed' = IF taken THEN probed ELSE [probed EXCEPT ![row] = @ + 1]
  /\ UNCHANGED <<query_vars, stage, num_buckets, places, compacted, slots_of_groups, sum_vars, answer>>

Assigned == stage = "assign" /\ \A row \in InputRows : ~Trying(row)
Overflown == {row \in InputRows : row_slot[row] = NoSlot}

(* Some bucket was full: more buckets, and when there are enough of them    *)
(* larger ones.                                                            *)
Growth == LET n == Cardinality(Overflown) * 100
          IN  IF n >= 20 * Len(input) THEN 8 ELSE IF n >= 5 * Len(input) THEN 4 ELSE 2
Retry ==
  /\ Assigned /\ Overflown # {}
  /\ IF num_buckets < MaxBuckets THEN Fill(Min({num_buckets * Growth, MaxBuckets}), places)
     ELSE Fill(num_buckets, places * 2)

AssignLost == stage = "assign" /\ Fail

(* The occupied slots in their order; the compaction on the GPU gives the   *)
(* same numbers from the sums of the slots before.                          *)
Occupied == SelectSeq([s \in 1 .. num_buckets * places |-> s - 1], LAMBDA s : slot_rows[s] # 0)
CompactedSlots ==
  LET flags == [s \in TableSlots |-> IF slot_rows[s] # 0 THEN 1 ELSE 0]
      ids   == BucketOffsets(flags, Cardinality(TableSlots), ScanWidth)
  IN  [g \in 1 .. ids[Cardinality(TableSlots)] |-> CHOOSE s \in TableSlots : flags[s] = 1 /\ ids[s] = g - 1]
ReadSlots ==
  /\ Assigned /\ Overflown = {}
  /\ \E c \in {FALSE} \cup {counts_only \/ Len(Occupied) > TileGroups} :
       /\ compacted' = c
       /\ slots_of_groups' = IF c THEN CompactedSlots ELSE Occupied
  /\ stage' = "grouped"
  /\ UNCHANGED <<query_vars, table_vars, sum_vars, answer>>

-------------------------------------------------------------------------------
(* The reductions                                                          *)

GroupCount == Len(slots_of_groups)
Owner(g) == owner[slots_of_groups[g]]
GroupsWith(totals) == [g \in 1 .. GroupCount |-> Group(input[Owner(g)].key, totals[g])]
MembersOf(g) == {row \in InputRows : row_slot[row] = slots_of_groups[g]}

(* Only COUNTs: the table has them.                                         *)
CountOnly ==
  /\ stage = "grouped" /\ counts_only
  /\ LET counted == [g \in 1 .. GroupCount |-> [Nothing EXCEPT !.count = slot_rows[slots_of_groups[g]]]]
     IN  Return(GroupsWith(counted))

(* Few groups: tiles of rows in their order, with partials for each group.  *)
TileReduce ==
  /\ stage = "grouped" /\ ~compacted /\ GroupCount <= TileGroups
  /\ LET tiled == [g \in 1 .. GroupCount |-> InPieces(input, MembersOf(g), PieceRows)]
     IN  Return(GroupsWith(tiled))

(* The rows sorted by slot, the rows of a slot in chunks; the place of the  *)
(* first member is the number of the rows of the slots before.              *)
MemberReduce ==
  /\ stage = "grouped" /\ ~compacted
  /\ LET offsets == BucketOffsets(slot_rows, Cardinality(TableSlots), ScanWidth)
         Before(row) == Cardinality({r \in 1 .. row - 1 : row_slot[r] = row_slot[row]})
         MemberAt(p) == CHOOSE row \in InputRows : offsets[row_slot[row]] + Before(row) = p
         First(g)    == offsets[slots_of_groups[g]]
         Chunk(g, k) == {MemberAt(p) : p \in (First(g) + k * PieceRows) .. (Min({First(g) + (k + 1) * PieceRows, offsets[slots_of_groups[g] + 1]}) - 1)}
         chunked == [g \in 1 .. GroupCount |->
                       FoldSet(LAMBDA k, total : Combine(total, Total(input, Chunk(g, k))), Nothing, 0 .. Len(input))]
     IN  Return(GroupsWith(chunked))

-------------------------------------------------------------------------------
(* Many groups: every row adds to the totals of its group.  A sum is two    *)
(* words, and what the low one carries is added by a second operation.  An  *)
(* argument fits one word.                                                  *)

GroupOf(row) == CHOOSE g \in 1 .. GroupCount : slots_of_groups[g] = row_slot[row]

HashBegin ==
  /\ stage = "grouped" /\ GroupCount > TileGroups
  /\ \A row \in InputRows : input[row].arg * 2 \in 1 - Word .. Word - 1
  /\ low' = [g \in 1 .. GroupCount |-> 0] /\ high' = [g \in 1 .. GroupCount |-> 0]
  /\ carried' = [r \in InputRows |-> NoSlot]          \* no row has added yet
  /\ stage' = "hash"
  /\ UNCHANGED <<query_vars, table_vars, compacted, slots_of_groups, answer>>

AddLow(row) ==
  /\ stage = "hash" /\ carried[row] = NoSlot
  /\ LET g     == GroupOf(row)
         word  == input[row].arg % Word
         sign  == IF input[row].arg < 0 THEN Word - 1 ELSE 0
         carry == IF low[g] + word >= Word THEN 1 ELSE 0
     IN  /\ low' = [low EXCEPT ![g] = (@ + word) % Word]
         /\ carried' = [carried EXCEPT ![row] = (sign + carry) % Word]
  /\ UNCHANGED <<query_vars, stage, table_vars, compacted, slots_of_groups, high, answer>>

AddHigh(row) ==
  /\ stage = "hash" /\ carried[row] > 0
  /\ high' = [high EXCEPT ![GroupOf(row)] = (@ + carried[row]) % Word]
  /\ carried' = [carried EXCEPT ![row] = 0]
  /\ UNCHANGED <<query_vars, stage, table_vars, compacted, slots_of_groups, low, answer>>

(* The counts, minima and maxima are single operations of any order.        *)
HashEnd ==
  /\ stage = "hash" /\ \A row \in InputRows : carried[row] = 0
  /\ LET Both(g)   == high[g] * Word + low[g]
         Signed(g) == IF Both(g) >= (Word * Word) \div 2 THEN Both(g) - Word * Word ELSE Both(g)
         hashed == [g \in 1 .. GroupCount |-> [Total(input, MembersOf(g)) EXCEPT !.sum = Signed(g)]]
     IN  Return(GroupsWith(hashed))

(* The dispatch failed, or its buffers: the table is read back whole and    *)
(* the member lists are used instead.                                      *)
HashLost ==
  /\ stage = "hash" \/ (stage = "grouped" /\ compacted)
  /\ stage' = "grouped" /\ compacted' = FALSE /\ slots_of_groups' = Occupied
  /\ low' = <<>> /\ high' = <<>> /\ carried' = <<>>
  /\ UNCHANGED <<query_vars, table_vars, answer>>

GroupByNext ==
  \/ EmptyInput \/ OnCpu \/ Dense \/ Global
  \/ AssignBegin \/ Retry \/ AssignLost \/ ReadSlots
  \/ CountOnly \/ TileReduce \/ MemberReduce \/ HashBegin \/ HashEnd \/ HashLost
  \/ \E row \in InputRows : Claim(row) \/ AddLow(row) \/ AddHigh(row)

GroupBySpec == GroupByInit /\ [][GroupByNext]_groupby_vars

-------------------------------------------------------------------------------
(* Properties                                                              *)

(* Whatever order the rows come in, however often the table had to grow and *)
(* whichever reduction ran, there is one group for each key, once, with the *)
(* count, the sum, the minimum and the maximum of all of its rows: a slot   *)
(* shared by two keys, a key with two slots, a row left from an earlier     *)
(* table or a lost carry would show here.                                   *)
GroupsSound ==
  stage = "done" =>
    LET Shown(group) == IF counts_only THEN [key |-> group.key, count |-> group.total.count] ELSE group
    IN  /\ {Shown(answer[g]) : g \in DOMAIN answer} = {Shown(group) : group \in Aggregate(input, grouped)}
        /\ Len(answer) = Cardinality(Aggregate(input, grouped))
=============================================================================
