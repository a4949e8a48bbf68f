------------------------------ MODULE HashJoin ------------------------------
(***************************************************************************)
(* qe_hash_join_impl of src/src/query_exec/query_exec.c and the shaders it  *)
(* launches: the keys of the build side are counted per bucket, the counts  *)
(* become offsets, the build rows are scattered into their buckets, and     *)
(* each probe row compares itself with its bucket.  A key is a number here, *)
(* as it is on the GPU; a dictionary code or the text of a key is one too.  *)
(* Rows count from 1, buckets from 0.                                      *)
(***************************************************************************)
EXTENDS Integers, Sequences, FiniteSets, FiniteSetsExt, SequencesExt

Unmatched == 0       \* BUILD_NULL, PLAN_NULL_ROW: no row of the build side

-------------------------------------------------------------------------------
(* Two whole number keys are packed into one when the pair fits.            *)

(* Mutant of Span: the largest value is left out.                           *)
SpanShort(values) == Max(values) - Min(values)

(* max - min + 1 of one of the two keys.                                    *)
Span(values) == Max(values) - Min(values) + 1

(* (first - min_first) * span_second + (second - min_second)                *)
Pack(key, firsts, seconds) == (key[1] - Min(firsts)) * Span(seconds) + (key[2] - Min(seconds))

FirstsOf(pairs)  == {pairs[i][1] : i \in DOMAIN pairs}
SecondsOf(pairs) == {pairs[i][2] : i \in DOMAIN pairs}

(* On the host the spans are those of both sides.                           *)
PackedOnHost(build, probe) ==
  LET firsts  == FirstsOf(build) \cup FirstsOf(probe)
      seconds == SecondsOf(build) \cup SecondsOf(probe)
      Packed(pairs) == [i \in DOMAIN pairs |-> Pack(pairs[i], firsts, seconds)]
  IN  [build |-> Packed(build), probe |-> Packed(probe)]

(* On the GPU they are those of the build side, and a probe key outside of  *)
(* them becomes -1, which is no packed key.                                *)
PackedOnDevice(build, probe) ==
  LET firsts  == FirstsOf(build)
      seconds == SecondsOf(build)
      Inside(key) == /\ key[1] \in Min(firsts) .. Max(firsts)
                     /\ key[2] \in Min(seconds) .. Max(seconds)
  IN  [build |-> [i \in DOMAIN build |-> Pack(build[i], firsts, seconds)],
       probe |-> [i \in DOMAIN probe |-> IF Inside(probe[i]) THEN Pack(probe[i], firsts, seconds) ELSE -1]]

-------------------------------------------------------------------------------
(* The build side                                                          *)

(* The least power of two that is not below the number of build rows.       *)
NumBuckets(build) == LET enough(n) == 2 ^ n >= Len(build)
                     IN  2 ^ Min({n \in 0 .. Len(build) : enough(n)})

Hash(key, buckets) == (key + buckets) % buckets      \* the key -1 is hashed as well
BucketCount(build, buckets) ==
  [b \in 0 .. buckets - 1 |-> Cardinality({i \in DOMAIN build : Hash(build[i], buckets) = b})]

(* The sum of the counts of the buckets before, block by block: the sums    *)
(* inside of a block of Width buckets, then the sums of the blocks before   *)
(* it.  The last entry is the number of rows.                               *)
BucketOffsets(count, buckets, Width) ==
  LET Sum(from, to) == FoldSet(LAMBDA b, sum : sum + count[b], 0, from .. to)
      BlockStart(b) == (b \div Width) * Width
      BlockSum(k)   == Sum(k * Width, Min({(k + 1) * Width - 1, buckets - 1}))
      BlocksBefore(k) == FoldSet(LAMBDA j, sum : sum + BlockSum(j), 0, 0 .. k - 1)
  IN  [b \in 0 .. buckets |->
         IF b = buckets THEN Sum(0, buckets - 1)
         ELSE Sum(BlockStart(b), b - 1) + BlocksBefore(b \div Width)]

(* Each row takes the place its bucket's cursor shows; the threads of a     *)
(* bucket may come in any order, so one order stands for all.              *)
BucketRows(build, buckets, offsets) ==
  LET Place(i) == offsets[Hash(build[i], buckets)]
                  + Cardinality({j \in 1 .. i - 1 : Hash(build[j], buckets) = Hash(build[i], buckets)})
  IN  [p \in 0 .. Len(build) - 1 |-> CHOOSE i \in DOMAIN build : Place(i) = p]

-------------------------------------------------------------------------------
(* The probe side                                                          *)

(* The build rows a probe key meets: those of its bucket with an equal key. *)
Matches(key, build, buckets, offsets, rows) ==
  LET b == Hash(key, buckets)
  IN  {r \in {rows[p] : p \in offsets[b] .. offsets[b + 1] - 1} : build[r] = key}

(* Pairs <<probe row, build row>>; with keep an unmatched probe row is       *)
(* paired with no row, as a left join and an anti join need it.            *)
Pairs(build, probe, keep, Width) ==
  LET buckets == NumBuckets(build)
      offsets == BucketOffsets(BucketCount(build, buckets), buckets, Width)
      rows    == BucketRows(build, buckets, offsets)
      found   == [i \in DOMAIN probe |-> Matches(probe[i], build, buckets, offsets, rows)]
  IN  UNION {{<<i, r>> : r \in found[i]} : i \in DOMAIN probe}
      \cup {<<i, Unmatched>> : i \in {j \in DOMAIN probe : keep /\ found[j] = {}}}

-------------------------------------------------------------------------------
(* Semi and anti joins                                                     *)

(* Build rows whose key an earlier one has are dropped.                     *)
DistinctKeyRows(build) ==
  SelectSeq([i \in DOMAIN build |-> i], LAMBDA i : ~ \E j \in 1 .. i - 1 : build[j] = build[i])

(* The left rows that some pair keeps, in their order.                      *)
KeptLeftRows(count, pairs, keep_matched) ==
  {i \in 1 .. count : \E p \in pairs : p[1] = i /\ (keep_matched <=> p[2] # Unmatched)}

===============================================================================
