----------------------------- MODULE FromWhere -----------------------------
(***************************************************************************)
(* FROM and WHERE: the tree of joins a select is planned as (plan_build_    *)
(* from_select), what the optimizer makes of it (optimizer_rewrite_from_    *)
(* where: constants folded and propagated, LEFT JOINs converted, conditions *)
(* pushed to the relation or the join they are about, the joins reordered), *)
(* and the rows plan_execute_join gives for it.                             *)
(*                                                                         *)
(* A query lists its relations as 1 .. Len(query.steps); a step is the way  *)
(* a relation is joined to those before it, [type, on], the first one's     *)
(* being NoStep; query.where is its WHERE and query.columns the columns it  *)
(* selects.  The estimates of the optimizer are not modelled: any order the *)
(* search could prefer may be chosen.                                       *)
(***************************************************************************)
EXTENDS Conditions, FiniteSetsExt, Functions

CONSTANTS MaxConjuncts,    \* OPT_MAX_CONJUNCTS
          MaxRelations     \* OPT_MAX_RELATIONS
ASSUME LimitsAssumption == MaxConjuncts \in Nat \ {0} /\ MaxRelations \in Nat \ {0}

NoStep == [type |-> "first", on |-> None]
Relations(query) == DOMAIN query.steps
NoRelation == 0

-------------------------------------------------------------------------------
(* Which relations a condition is about                                    *)

Resolve(rels, column) ==
  LET owners == Owners(rels, column)
  IN  IF Cardinality(owners) = 1 THEN CHOOSE r \in owners : TRUE ELSE NoRelation
Resolved(rels, node) == {Resolve(rels, column) : column \in ColumnsOf(node)}

IsColumnOf(rels, node, rel) == node.type = "column" /\ Resolve(rels, node) = rel

(* Mutant of RejectsNull: an OR rejects what one of its sides rejects.      *)
RECURSIVE RejectsNullEither(_, _, _)
RejectsNullEither(rels, node, rel) ==
  CASE IsOp(node, "and") \/ IsOp(node, "or") ->
         RejectsNullEither(rels, node.left, rel) \/ RejectsNullEither(rels, node.right, rel)
    [] IsOp(node, "is not null") -> IsColumnOf(rels, node.left, rel)
    [] node.type = "op" /\ node.op \in Comparisons ->
         IsColumnOf(rels, node.left, rel) \/ IsColumnOf(rels, node.right, rel)
    [] OTHER -> FALSE

(* The condition is not true when the columns of the relation are NULL.     *)
RECURSIVE RejectsNull(_, _, _)
RejectsNull(rels, node, rel) ==
  CASE IsOp(node, "and") -> RejectsNull(rels, node.left, rel) \/ RejectsNull(rels, node.right, rel)
    [] IsOp(node, "or") -> RejectsNull(rels, node.left, rel) /\ RejectsNull(rels, node.right, rel)
    [] node.type = "op" /\ node.op \in {"is not null", "in", "not in"} -> IsColumnOf(rels, node.left, rel)
    [] node.type = "op" /\ node.op \in Comparisons ->
         IsColumnOf(rels, node.left, rel) \/ IsColumnOf(rels, node.right, rel)
    [] OTHER -> FALSE

(* The conjuncts of the WHERE, then those of each ON; goal is where one is  *)
(* evaluated in the end: a "filter" of a relation, the ON of a join, the    *)
(* "residual" WHERE, or nowhere when it is "dropped".                       *)
Conjunct(rels, node, fromWhere, step) ==
  LET about == Resolved(rels, node)
  IN  [node |-> node, fromWhere |-> fromWhere, step |-> step, mask |-> about \ {NoRelation},
       unresolved |-> NoRelation \in about, goal |-> "residual", target |-> 1]
LoadConjuncts(query) ==
  LET rels == Relations(query)
      Of(nodes, fromWhere, step) == [i \in DOMAIN nodes |-> Conjunct(rels, nodes[i], fromWhere, step)]
      ons  == [s \in rels |-> Of(Leaves(query.steps[s].on), FALSE, s)]
  IN  Of(Leaves(query.where), TRUE, 1) \o FlattenSeq(ons)

-------------------------------------------------------------------------------
(* Constants                                                               *)

(* {} when the comparison is not one of two constants.                      *)
FoldComparison(node) ==
  IF node.type = "op" /\ node.op \in Comparisons /\ node.left.type = "numeric" /\ node.right.type = "numeric"
  THEN {Compare(node.op, node.left.value, node.right.value)} ELSE {}

RECURSIVE IsConstantFalse(_)
IsConstantFalse(node) == IF IsOp(node, "and") THEN IsConstantFalse(node.left) \/ IsConstantFalse(node.right)
                         ELSE FoldComparison(node) = {FALSE}

(* outer: the relations whose columns may be NULL because nothing matched.  *)
OnLeftJoin(conjunct, outer) == ~conjunct.fromWhere /\ conjunct.step \in outer

Folded(conjuncts) ==
  [i \in DOMAIN conjuncts |-> IF FoldComparison(conjuncts[i].node) = {TRUE}
                              THEN [conjuncts[i] EXCEPT !.goal = "dropped"] ELSE conjuncts[i]]
AlwaysEmpty(conjuncts, outer) ==
  \E i \in DOMAIN conjuncts : FoldComparison(conjuncts[i].node) = {FALSE} /\ ~OnLeftJoin(conjuncts[i], outer)

Usable(conjunct) == ~conjunct.unresolved /\ conjunct.goal # "dropped"
ColumnKey(rels, node) == <<Resolve(rels, node), node.name>>

Flipped(op) == CASE op = "<" -> ">" [] op = ">" -> "<" [] op = "<=" -> ">=" [] op = ">=" -> "<=" [] OTHER -> op

(* What a condition of the WHERE says of one column: {} or one record.      *)
Bounds(rels, outer, conjunct) ==
  LET node == conjunct.node
      Says(column, op, literal) ==
        IF /\ column.type = "column" /\ literal.type = "numeric"
           /\ Resolve(rels, column) \notin outer \cup {NoRelation}
        THEN {[key |-> ColumnKey(rels, column), op |-> op, value |-> literal.value]} ELSE {}
  IN  IF ~(conjunct.fromWhere /\ Usable(conjunct) /\ node.type = "op" /\ node.op \in Comparisons) THEN {}
      ELSE IF node.left.type = "column" THEN Says(node.left, node.op, node.right)
      ELSE Says(node.right, Flipped(node.op), node.left)

Equals(bound) == bound.op = "="
(* No value satisfies both.                                                *)
Contradict(a, b) ==
  \/ Equals(a) /\ Equals(b) /\ a.value # b.value
  \/ Equals(a) /\ ~Equals(b) /\ b.op # "!=" /\ ~Compare(b.op, a.value, b.value)
  \/ /\ a.op \in {">", ">="} /\ b.op \in {"<", "<="}
     /\ a.value > b.value \/ (a.value = b.value /\ ~(a.op = ">=" /\ b.op = "<="))

DetectContradiction(rels, outer, conjuncts) ==
  \E bounds \in {UNION {Bounds(rels, outer, conjuncts[i]) : i \in DOMAIN conjuncts}} :
    \E a, b \in bounds : a.key = b.key /\ Contradict(a, b)

(* The columns that equality joins make equal: the classes in the order in  *)
(* which the conditions name their columns.                                 *)
JoinKeys(rels, outer, conjunct) ==
  LET node == conjunct.node
  IN  IF /\ Usable(conjunct) /\ ~OnLeftJoin(conjunct, outer) /\ IsOp(node, "=")
         /\ node.left.type = "column" /\ node.right.type = "column"
         /\ Resolve(rels, node.left) # Resolve(rels, node.right)
         /\ outer \cap {Resolve(rels, node.left), Resolve(rels, node.right)} = {}
      THEN <<ColumnKey(rels, node.left), ColumnKey(rels, node.right)>> ELSE <<>>
Merged(classes, keys) ==
  LET touched == {class \in classes : class \cap keys # {}} IN (classes \ touched) \cup {keys \cup UNION touched}

(* A constant that one column of a class equals holds for all the others.   *)
PropagateConstants(rels, outer, conjuncts) ==
  LET pairs    == SelectSeq([i \in DOMAIN conjuncts |-> JoinKeys(rels, outer, conjuncts[i])], LAMBDA p : p # <<>>)
      keys     == FlattenSeq(pairs)
      classes  == FoldLeft(LAMBDA cs, pair : Merged(cs, {pair[1], pair[2]}), {}, pairs)
      ClassOf(key) == CHOOSE class \in classes : key \in class
      constants == SelectSeq(FlattenSeq([i \in DOMAIN conjuncts |-> SetToSeq(Bounds(rels, outer, conjuncts[i]))]), Equals)
      Own(key) == SelectSeq(constants, LAMBDA c : c.key = key)
      (* the constant of the first of the class's columns that has one     *)
      Shared(class) == SelectSeq(FlattenSeq([i \in DOMAIN keys |-> Own(keys[i])]), LAMBDA c : c.key \in class)
      lacking  == {key \in ToSet(keys) : Own(key) = <<>> /\ Shared(ClassOf(key)) # <<>>}
      Derived(key) == LET equal == Op("=", Column(key[1], key[2]), Numeric(Shared(ClassOf(key))[1].value))
                      IN  Conjunct(rels, equal, TRUE, 1)
      derived  == [i \in 1 .. Cardinality(lacking) |-> Derived(SetToSeq(lacking)[i])]
      room     == Max({0, MaxConjuncts - Len(conjuncts)})
  IN  [conjuncts |-> conjuncts \o SubSeq(derived, 1, Min({Len(derived), room})),
       conflict  |-> \E key \in ToSet(keys) :
                       Own(key) # <<>> /\ Own(key)[1].value # Shared(ClassOf(key))[1].value]

-------------------------------------------------------------------------------
(* Where each condition goes                                               *)

(* A LEFT JOIN whose unmatched rows the WHERE would drop is an inner join.  *)
ConvertLeftJoins(rels, outer, conjuncts) ==
  {r \in outer : ~\E i \in DOMAIN conjuncts :
                    /\ conjuncts[i].fromWhere /\ ~conjuncts[i].unresolved /\ r \in conjuncts[i].mask
                    /\ RejectsNull(rels, conjuncts[i].node, r)}

WhereGoal(conjunct, outer) ==
  IF conjunct.unresolved \/ conjunct.mask = {} \/ Max(conjunct.mask) \in outer THEN <<"residual", 1>>
  ELSE <<IF Cardinality(conjunct.mask) = 1 THEN "filter" ELSE "on", Max(conjunct.mask)>>

OnGoal(conjunct, outer, steps) ==
  LET s == conjunct.step
      one == IF Cardinality(conjunct.mask) = 1 THEN Max(conjunct.mask) ELSE NoRelation
  IN  IF conjunct.unresolved THEN <<"on", s>>
      ELSE IF conjunct.mask = {} THEN <<"filter", s>>
      ELSE IF one = s \/ (one \in 1 .. s - 1 /\ steps[s].type # "left" /\ one \notin outer) THEN <<"filter", one>>
      ELSE <<"on", s>>

AssignDestinations(conjuncts, outer, steps) ==
  [i \in DOMAIN conjuncts |->
     LET c == conjuncts[i]
         goal == IF c.fromWhere THEN WhereGoal(c, outer) ELSE OnGoal(c, outer, steps)
     IN  IF c.goal = "dropped" THEN c ELSE [c EXCEPT !.goal = goal[1], !.target = goal[2]]]

-------------------------------------------------------------------------------
(* The order of the joins                                                  *)

(* The relations before the first LEFT JOIN may change places.              *)
GroupSize(rels, outer) == IF outer = {} THEN Cardinality(rels) ELSE Min(outer) - 1

OnConjuncts(conjuncts) == {conjuncts[i] : i \in {j \in DOMAIN conjuncts : conjuncts[j].goal = "on"}}

(* The equalities that join two relations of the group.                     *)
Edges(rels, conjuncts, size) ==
  LET joining == {c \in OnConjuncts(conjuncts) :
                    /\ c.target <= size /\ ~c.unresolved /\ Cardinality(c.mask) = 2
                    /\ IsOp(c.node, "=") /\ c.node.left.type = "column" /\ c.node.right.type = "column"}
  IN  {{ColumnKey(rels, c.node.left), ColumnKey(rels, c.node.right)} : c \in joining}
DerivedEdges(edges) ==
  LET classes == FoldSet(LAMBDA edge, cs : Merged(cs, edge), {}, edges)
  IN  {edge \in UNION {kSubset(2, class) : class \in classes} : Cardinality({key[1] : key \in edge}) = 2} \ edges
Between(edges, a, b) == {edge \in edges : {key[1] : key \in edge} = {a, b}}

(* Every order in which each relation has an equality with one before it.   *)
ConnectedOrders(size, edges) ==
  {order \in SetToAllKPermutations(1 .. size) :
     Len(order) = size /\ \A p \in 2 .. size : \E e \in 1 .. p - 1 : Between(edges, order[e], order[p]) # {}}

NoAmbiguousColumns(query) ==
  \A column \in query.columns \cup ColumnsOf(query.where) \cup UNION {ColumnsOf(query.steps[s].on) : s \in Relations(query)} :
    column.rel = Unqualified => Cardinality(Owners(Relations(query), column)) <= 1

MayReorder(query, conjuncts, size) ==
  /\ size >= 2
  /\ NoAmbiguousColumns(query)
  /\ \A c \in OnConjuncts(conjuncts) : c.target <= size => ~c.unresolved /\ Cardinality(c.mask) >= 2

(* The orders the search may settle on, whatever the rows it expects: the   *)
(* written one unless it lacks an equality and another order does not.      *)
PlanJoinOrder(query, conjuncts, size, edges) ==
  LET orders == IF MayReorder(query, conjuncts, size) THEN ConnectedOrders(size, edges) ELSE {}
  IN  IF orders = {} THEN {[r \in 1 .. size |-> r]} ELSE orders

-------------------------------------------------------------------------------
(* The plan: the first relation and, in the order of the joins, the others  *)

Filters(conjuncts, rel) ==
  LET mine == SelectSeq(conjuncts, LAMBDA c : c.goal = "filter" /\ c.target = rel)
  IN  Stripped(AndChain([i \in DOMAIN mine |-> mine[i].node]))

(* A condition is evaluated by the join that brings its last relation.      *)
StepPosition(conjunct, position, size) ==
  IF conjunct.target > size THEN conjunct.target
  ELSE Max({position[r] : r \in conjunct.mask \cap 1 .. size} \cup {1})

(* A relation that has no written equality with those before it is joined   *)
(* by one that the written equalities imply.                                *)
DerivedEquality(written, derived, order, p) ==
  LET With(edges) == {e \in 1 .. p - 1 : Between(edges, order[e], order[p]) # {}}
  IN  IF With(written) # {} \/ With(derived) = {} THEN <<>>
      ELSE LET edge == SetToSeq(CHOOSE edge \in Between(derived, order[Min(With(derived))], order[p]) : TRUE)
           IN  <<Op("=", Column(edge[1][1], edge[1][2]), Column(edge[2][1], edge[2][2]))>>

FinalJoinType(step, isOuter, on) ==
  IF isOuter THEN "left" ELSE IF step.type = "cross" /\ on = <<>> THEN "cross" ELSE "inner"

FilteredScan(rel, filter) == [rel |-> rel, filter |-> filter]

Joined(query, conjuncts, outer, group, edges, derived) ==
  LET n         == Len(query.steps)
      reordered == group # [r \in DOMAIN group |-> r]
      size      == IF reordered THEN Len(group) ELSE 0
      order     == [p \in 1 .. n |-> IF p <= Len(group) THEN group[p] ELSE p]
      position  == [r \in 1 .. n |-> CHOOSE p \in 1 .. n : order[p] = r]
      On(p) == LET here == SelectSeq(conjuncts, LAMBDA c : c.goal = "on" /\ StepPosition(c, position, size) = p)
               IN  [i \in DOMAIN here |-> here[i].node]
                   \o (IF p <= size THEN DerivedEquality(edges, derived, order, p) ELSE <<>>)
      Join(p) == [right |-> FilteredScan(order[p], Filters(conjuncts, order[p])), on |-> AndChain(On(p)),
                  type |-> IF p <= size THEN "inner" ELSE FinalJoinType(query.steps[p], p \in outer, On(p))]
      residual == SelectSeq(conjuncts, LAMBDA c : c.goal = "residual")
  IN  [first |-> FilteredScan(order[1], Filters(conjuncts, order[1])), joins |-> [p \in 2 .. n |-> Join(p)],
       where |-> AndChain([i \in DOMAIN residual |-> residual[i].node])]

(* The plan as written.                                                    *)
Written(query) ==
  [first |-> FilteredScan(1, None), where |-> query.where,
   joins |-> [p \in 2 .. Len(query.steps) |->
                [right |-> FilteredScan(p, None), on |-> query.steps[p].on, type |-> query.steps[p].type]]]

Never == [Conjunct({}, Op("=", Numeric(0), Numeric(1)), TRUE, 1) EXCEPT !.goal = "filter"]

Ordered(query, placed, outer, empty) ==
  LET rels    == Relations(query)
      size    == GroupSize(rels, outer)
      edges   == Edges(rels, placed, size)
      derived == DerivedEdges(edges)
      orders  == IF empty THEN {[r \in 1 .. size |-> r]} ELSE PlanJoinOrder(query, placed, size, edges \cup derived)
  IN  {Joined(query, placed, outer, order, edges, derived) : order \in orders}

(* A query without an answer filters its first relation with a condition    *)
(* that is never true.                                                     *)
Placed(query, conjuncts, outer, empty) ==
  Ordered(query, AssignDestinations(conjuncts, outer, query.steps) \o (IF empty THEN <<Never>> ELSE <<>>), outer, empty)
Converted(query, conjuncts, outer, empty) ==
  Placed(query, conjuncts, ConvertLeftJoins(Relations(query), outer, conjuncts), empty)
Spread(query, spread, outer) ==
  Converted(query, spread.conjuncts, outer,
            spread.conflict \/ DetectContradiction(Relations(query), outer, spread.conjuncts))

(* The plans the optimizer may make of a query of two relations or more.    *)
RewriteFromWhere(query) ==
  LET outer  == {s \in Relations(query) : query.steps[s].type = "left"}
      loaded == LoadConjuncts(query)
  IN  IF Len(query.steps) \notin 2 .. MaxRelations \/ Len(loaded) > MaxConjuncts THEN {Written(query)}
      ELSE IF AlwaysEmpty(loaded, outer) THEN Converted(query, Folded(loaded), outer, TRUE)
      ELSE Spread(query, PropagateConstants(Relations(query), outer, Folded(loaded)), outer)
=============================================================================
