------------------------------- MODULE Joins -------------------------------
(***************************************************************************)
(* The rows a plan of joins gives, plan_execute_join of                     *)
(* src/src/planner/planner.c: the rows so far are joined with the rows of   *)
(* the next relation by one equality, the other conditions filter what      *)
(* comes out, and a plan without an equality ends with an error.  The join  *)
(* itself is by keys, as HashJoin computes it.                              *)
(*                                                                         *)
(* Answer is what the query means: rows are combined relation by relation   *)
(* as it lists them, and the WHERE keeps some of them.                      *)
(***************************************************************************)
EXTENDS FromWhere, TLC

CONSTANT NullKey      \* what the join reads where there is no value
ASSUME NullKeyAssumption == NullKey \in Int

ScanRows(db, scanned) == ToSet(Kept(db, scanned.rel, scanned.filter))

Failed == [supported |-> FALSE, rows |-> {}]
Rows(rows) == [supported |-> TRUE, rows |-> rows]

-------------------------------------------------------------------------------
(* The equality of a join                                                  *)

BelongsToRows(rels, column) == Owners(rels, column) # {}
IsEqui(rels, right, node) ==
  /\ IsOp(node, "=") /\ node.left.type = "column" /\ node.right.type = "column"
  /\ \/ BelongsToRows(rels, node.left) /\ BelongsTo(right, node.right)
     \/ BelongsTo(right, node.left) /\ BelongsToRows(rels, node.right)

(* The places of the conditions that can be the equality, {} when none can. *)
EquiPlaces(rels, right, leaves) == {i \in DOMAIN leaves : IsEqui(rels, right, leaves[i])}

(* A NULL, and a row that an outer join did not find, have the same key.    *)
Key(db, row, column) == LET value == Load(db, row, column) IN IF value = Null THEN NullKey ELSE value

(* The pairs of rows with the same keys; with outer, the rows without a     *)
(* partner as well.                                                        *)
KeyedPairs(db, left, rels, right, found, leaf, outer) ==
  LET onRight == IF BelongsTo(right, leaf.right) /\ BelongsToRows(rels, leaf.left) THEN leaf.right ELSE leaf.left
      onLeft  == IF onRight = leaf.right THEN leaf.left ELSE leaf.right
      Partners(row) == {i \in found : Key(db, right :> i, onRight) = Key(db, row, onLeft)}
  IN  UNION {{row @@ (right :> i) : i \in IF Partners(row) = {} /\ outer THEN {NoRow} ELSE Partners(row)} : row \in left}

Filtered(db, rows, node) == {row \in rows : Holds(db, row, node)}
Without(leaves, i) == SubSeq(leaves, 1, i - 1) \o SubSeq(leaves, i + 1, Len(leaves))

(* One join; rels are the relations of the left rows, where is the WHERE    *)
(* that the joined rows are filtered by at once, None but for the last join.*)
ExecuteJoin(db, left, rels, join, where, optimized) ==
  LET right   == join.right.rel
      found   == ScanRows(db, join.right)
      cross   == join.type = "cross"
      outer   == join.type = "left"
      leaves  == IF cross THEN <<>> ELSE Leaves(join.on)
      sought  == IF cross THEN Leaves(where) ELSE leaves
      places  == EquiPlaces(rels, right, sought)
      others  == IF cross THEN <<>> ELSE Without(leaves, Min(places))
      pairs   == KeyedPairs(db, left.rows, rels, right, found, sought[Min(places)], outer)
  IN  IF ~left.supported THEN Failed
      ELSE IF optimized /\ left.rows = {} THEN Rows({})
      ELSE IF optimized /\ ~outer /\ join.right.filter # None /\ found = {} THEN Rows({})
      ELSE IF places = {} THEN Failed
      ELSE IF outer /\ others # <<>> THEN Failed
      ELSE Rows(Filtered(db, Filtered(db, pairs, AndChain(others)), where))

RECURSIVE JoinUpTo(_, _, _, _)
JoinUpTo(db, plan, p, optimized) ==
  IF p = 1 THEN Rows({plan.first.rel :> i : i \in ScanRows(db, plan.first)})
  ELSE LET rels == {plan.first.rel} \cup {plan.joins[q].right.rel : q \in 2 .. p - 1}
           last == p = Cardinality(DOMAIN plan.joins) + 1
       IN  ExecuteJoin(db, JoinUpTo(db, plan, p - 1, optimized), rels, plan.joins[p],
                       IF last THEN plan.where ELSE None, optimized)

(* Over a single relation the WHERE is the filter of the scan.              *)
Execute(db, plan, optimized) ==
  IF plan.joins = <<>> THEN Rows({plan.first.rel :> i : i \in ScanRows(db, FilteredScan(plan.first.rel, Stripped(plan.where)))})
  ELSE JoinUpTo(db, plan, Cardinality(DOMAIN plan.joins) + 1, optimized)

-------------------------------------------------------------------------------
(* What the query means                                                    *)

Combined(db, rows, rel, step) ==
  LET With(row) == {row @@ (rel :> i) : i \in DOMAIN db[rel]}
      Matches(row) == Filtered(db, With(row), step.on)
  IN  UNION {IF step.type = "left" /\ Matches(row) = {} THEN {row @@ (rel :> NoRow)} ELSE Matches(row) : row \in rows}

Answer(db, query) ==
  LET first == {1 :> i : i \in DOMAIN db[1]}
      all   == FoldLeft(LAMBDA rows, rel : Combined(db, rows, rel, query.steps[rel]), first,
                        [p \in 1 .. Len(query.steps) - 1 |-> p + 1])
  IN  Filtered(db, all, query.where)

(* Every name of a condition means one column where the condition stands.   *)
Legal(query) ==
  /\ \A s \in Relations(query) : Bound(1 .. s, query.steps[s].on)
  /\ Bound(Relations(query), query.where)
=============================================================================
