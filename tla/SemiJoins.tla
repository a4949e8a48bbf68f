------------------------------ MODULE SemiJoins ------------------------------
(***************************************************************************)
(* Subqueries in the WHERE of a select.  plan_run_select (src/src/planner/  *)
(* planner.c) first lets the optimizer take out of the WHERE each EXISTS    *)
(* and each IN that a semi or an anti join can answer (optimizer_extract_   *)
(* semi_joins of src/src/optimizer/optimizer.c); a subquery that is left is *)
(* run once and its values are written into the condition (plan_rewrite_    *)
(* predicates); then the select is planned, and the semi joins filter the   *)
(* rows that come out.                                                     *)
(*                                                                         *)
(* A subquery selects one column, or COUNT of it, of one relation that is   *)
(* not in the FROM list; flagged are the columns, <<relation, name>>, that  *)
(* have NULL flags: all those with a NULL, and maybe more.  The cost model  *)
(* may find either way cheaper.                                            *)
(***************************************************************************)
EXTENDS Joins

CONSTANT ListItems     \* QE_IN_LIST_GPU_MAX_ITEMS
ASSUME ListItemsAssumption == ListItems \in Nat

SelectOf(rel, column, counts, where) == [rel |-> rel, column |-> column, counts |-> counts, where |-> where]
Exists(negated, select) == [type |-> "exists", negated |-> negated, select |-> select]
Subquery(select) == [type |-> "subquery", select |-> select]
IsIn(node) == IsOp(node, "in") \/ IsOp(node, "not in")

(* What ends the select with an error.                                     *)
Broken == [type |-> "broken"]
RECURSIVE IsBroken(_)
IsBroken(node) == CASE node.type = "op" -> IsBroken(node.left) \/ IsBroken(node.right)
                    [] OTHER -> node = Broken

-------------------------------------------------------------------------------
(* A subquery is run once                                                  *)

Uncorrelated(select) == \A column \in ColumnsOf(select.where) \cup {select.column} : BelongsTo(select.rel, column)

ValuesOfSelect(db, select) ==
  LET rows == Kept(db, select.rel, Stripped(select.where))
  IN  IF select.counts THEN <<Len(rows)>> ELSE [i \in DOMAIN rows |-> db[select.rel][rows[i]][select.column.name]]

Constant(truth) == Op("=", Numeric(1), Numeric(IF truth THEN 1 ELSE 0))

(* x NOT IN (..., NULL) is never true.                                     *)
InList(node, values) ==
  IF IsOp(node, "not in") /\ Null \in ToSet(values) THEN Constant(FALSE)
  ELSE [node EXCEPT !.right = List(SelectSeq(values, LAMBDA value : value # Null))]

(* An operand of a comparison: None for no row and for NULL.                *)
Scalar(db, operand) ==
  IF operand.type # "subquery" THEN operand
  ELSE LET values == ValuesOfSelect(db, operand.select)
       IN  IF ~Uncorrelated(operand.select) \/ Len(values) > 1 THEN Broken
           ELSE IF values \in {<<>>, <<Null>>} THEN None ELSE Numeric(values[1])
CompareScalars(node, left, right) ==
  IF left \in {Broken, None} THEN IF left = None THEN Constant(FALSE) ELSE Broken
  ELSE IF right = None THEN Constant(FALSE) ELSE [node EXCEPT !.left = left, !.right = right]

RECURSIVE RewritePredicates(_, _)
RewritePredicates(db, node) ==
  CASE node.type = "exists" ->
         IF Uncorrelated(node.select) THEN Constant((ValuesOfSelect(db, node.select) # <<>>) # node.negated) ELSE Broken
    [] IsOp(node, "and") \/ IsOp(node, "or") ->
         [node EXCEPT !.left = RewritePredicates(db, @), !.right = RewritePredicates(db, @)]
    [] IsIn(node) /\ node.right.type = "subquery" ->
         IF Uncorrelated(node.right.select) THEN InList(node, ValuesOfSelect(db, node.right.select)) ELSE Broken
    [] node.type = "op" /\ node.op \in Comparisons ->
         CompareScalars(node, Scalar(db, node.left), Scalar(db, node.right))
    [] OTHER -> node

-------------------------------------------------------------------------------
(* EXISTS and IN as joins: a semi join keeps the rows whose key is among    *)
(* those of the build side, an anti join the others.                       *)

SemiJoin(anti, key, build) == [type |-> "semi", anti |-> anti, key |-> key, build |-> build]
KeyOf(outer, column) == Column(Resolve(outer, column), column.name)

Flagged(flagged, key) == <<key.rel, key.name>> \in flagged

(* {} when the EXISTS is left to the other path: it is only taken out when  *)
(* one equality ties a column of the subquery to one of the select, and     *)
(* every other conjunct is about the subquery alone.                       *)
ExistsSemi(db, flagged, outer, node) ==
  LET select   == node.select
      leaves   == Leaves(select.where)
      Inner(column) == BelongsTo(select.rel, column)
      Outside(leaf) == {column \in ColumnsOf(leaf) : ~Inner(column)}
      links    == {i \in DOMAIN leaves : Outside(leaves[i]) # {}}
      place    == Min(links)
      link     == leaves[place]
      innerKey == IF Inner(link.left) THEN link.left ELSE link.right
      outerKey == IF Inner(link.left) THEN link.right ELSE link.left
      rows     == Kept(db, select.rel, Stripped(AndChain(Without(leaves, place))))
  IN  IF /\ ~select.counts /\ leaves # <<>> /\ Len(leaves) <= MaxConjuncts
         /\ \A i \in links : \A column \in Outside(leaves[i]) : Resolve(outer, column) # NoRelation
         /\ Cardinality(links) = 1
         /\ IsOp(link, "=") /\ link.left.type = "column" /\ link.right.type = "column"
         /\ Inner(link.left) # Inner(link.right)
         /\ ~Flagged(flagged, KeyOf(outer, outerKey)) /\ ~Flagged(flagged, Column(select.rel, innerKey.name))
      THEN {SemiJoin(node.negated, KeyOf(outer, outerKey), [i \in DOMAIN rows |-> Key(db, select.rel :> rows[i], Column(select.rel, innerKey.name))])}
      ELSE {}

(* A conjunct after optimizer_extract_semi_joins has seen it, and the join  *)
(* it became, None when it became none.                                    *)
Extracted(node, semi) == [node |-> node, semi |-> semi]

ExtractIn(db, flagged, outer, node, cheaper) ==
  LET select == node.right.select
      values == ValuesOfSelect(db, select)
      paysOff == Len(values) > ListItems /\ cheaper
  IN  IF ~Uncorrelated(select) THEN Extracted(Broken, None)
      ELSE IF Null \in ToSet(values) \/ ~paysOff THEN Extracted(InList(node, values), None)
      ELSE Extracted(None, SemiJoin(IsOp(node, "not in"), KeyOf(outer, node.left), values))

ExtractConjunct(db, flagged, outer, node, cheaper) ==
  IF node.type = "exists"
  THEN LET semi == ExistsSemi(db, flagged, outer, node)
       IN  IF semi = {} THEN Extracted(node, None) ELSE Extracted(None, CHOOSE join \in semi : TRUE)
  ELSE IF /\ IsIn(node) /\ node.left.type = "column" /\ node.right.type = "subquery"
          /\ Resolve(outer, node.left) # NoRelation /\ ~Flagged(flagged, KeyOf(outer, node.left))
  THEN ExtractIn(db, flagged, outer, node, cheaper)
  ELSE Extracted(node, None)

ExtractSemiJoins(db, flagged, query, cheaper) ==
  LET leaves == Leaves(query.where)
      each   == [i \in DOMAIN leaves |-> ExtractConjunct(db, flagged, Relations(query), leaves[i], cheaper)]
      kept   == SelectSeq(each, LAMBDA e : e.semi = None)
      taken  == SelectSeq(each, LAMBDA e : e.semi # None)
  IN  IF Len(leaves) > MaxConjuncts THEN [where |-> query.where, joins |-> <<>>]
      ELSE [where |-> AndChain([i \in DOMAIN kept |-> kept[i].node]), joins |-> [i \in DOMAIN taken |-> taken[i].semi]]

-------------------------------------------------------------------------------
(* The select                                                              *)

FilterBySemi(db, rows, semi) ==
  {row \in rows : (Key(db, row, semi.key) \in ToSet(semi.build)) # semi.anti}

ExecuteSemiJoins(db, result, joins) ==
  IF result.supported THEN Rows(FoldLeft(LAMBDA rows, semi : FilterBySemi(db, rows, semi), result.rows, joins)) ELSE Failed

(* What the select may answer, for each plan it may make; without the       *)
(* optimizer nothing is taken out and the plan is the one written.          *)
RunPlanned(db, planned, optimized, joins) ==
  IF IsBroken(planned.where) THEN {Failed}
  ELSE {ExecuteSemiJoins(db, Execute(db, plan, optimized), joins) :
          plan \in IF optimized THEN RewriteFromWhere(planned) ELSE {Written(planned)}}
RunExtracted(db, query, optimized, extracted) ==
  RunPlanned(db, [query EXCEPT !.where = RewritePredicates(db, extracted.where)], optimized, extracted.joins)
RunSelect(db, flagged, query, optimized, cheaper) ==
  RunExtracted(db, query, optimized,
               IF optimized THEN ExtractSemiJoins(db, flagged, query, cheaper) ELSE [where |-> query.where, joins |-> <<>>])

-------------------------------------------------------------------------------
(* What the select means: a subquery is read anew for each row, a name in   *)
(* it being first one of the subquery's own relation.                      *)

RECURSIVE Scoped(_, _)
Scoped(rel, node) ==
  CASE node.type = "column" -> IF BelongsTo(rel, node) THEN Column(rel, node.name) ELSE node
    [] node.type = "op" -> [node EXCEPT !.left = Scoped(rel, @), !.right = Scoped(rel, @)]
    [] OTHER -> node

InnerRows(db, row, select) ==
  {i \in DOMAIN db[select.rel] : Holds(db, row @@ (select.rel :> i), Scoped(select.rel, select.where))}
InnerValues(db, row, select) ==
  IF select.counts THEN {Cardinality(InnerRows(db, row, select))}
  ELSE {db[select.rel][i][select.column.name] : i \in InnerRows(db, row, select)}
Operand(db, row, node) == IF node.type = "subquery" THEN InnerValues(db, row, node.select) ELSE {Load(db, row, node)}

RECURSIVE Means(_, _, _)
Means(db, row, node) ==
  CASE node.type = "exists" -> (InnerValues(db, row, node.select) # {}) # node.negated
    [] IsOp(node, "and") -> Means(db, row, node.left) /\ Means(db, row, node.right)
    [] IsOp(node, "or") -> Means(db, row, node.left) \/ Means(db, row, node.right)
    [] IsIn(node) /\ node.right.type = "subquery" ->
         \E value \in {Load(db, row, node.left)}, values \in {InnerValues(db, row, node.right.select)} :
           /\ value # Null
           /\ IF node.op = "in" THEN value \in values ELSE value \notin values /\ Null \notin values
    [] node.type = "op" /\ node.op \in Comparisons ->
         \E l \in Operand(db, row, node.left), r \in Operand(db, row, node.right) :
           l # Null /\ r # Null /\ Compare(node.op, l, r)
    [] OTHER -> Holds(db, row, node)

AnswerOfSelect(db, query) ==
  {row \in Answer(db, [query EXCEPT !.where = None]) : Means(db, row, query.where)}
===============================================================================
