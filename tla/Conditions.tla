----------------------------- MODULE Conditions -----------------------------
(***************************************************************************)
(* The condition trees of src/src/ir_gen and their evaluation row by row,   *)
(* qe_row_condition_eval of src/src/query_exec/query_exec.c.                *)
(*                                                                         *)
(* A relation is a table of the FROM list, counted from 1; db[r] is the     *)
(* sequence of its rows and a row is a function from column names to        *)
(* values.  A row of a join gives each of its relations a row number, 0     *)
(* when an outer join found none.  Values are integers: a text, a date or a *)
(* label is compared by its place in its order.                             *)
(***************************************************************************)
EXTENDS Integers, Sequences, FiniteSets, SequencesExt

CONSTANTS Columns,   \* the set of column names of each relation
          Null       \* a NULL cell

Unqualified == 0     \* a column name without a table
NoRow == 0           \* PLAN_NULL_ROW

None == [type |-> "none"]
Column(rel, name) == [type |-> "column", rel |-> rel, name |-> name]
Numeric(value) == [type |-> "numeric", value |-> value]
List(items) == [type |-> "list", items |-> items]
Op(op, left, right) == [type |-> "op", op |-> op, left |-> left, right |-> right]
IsOp(node, op) == node.type = "op" /\ node.op = op

Comparisons == {"=", "!=", "<", "<=", ">", ">="}
Compare(op, l, r) ==
  CASE op = "="  -> l = r
    [] op = "!=" -> l # r
    [] op = "<"  -> l < r
    [] op = "<=" -> l <= r
    [] op = ">"  -> l > r
    [] op = ">=" -> l >= r

(* The conjuncts of a condition from left to right, and their condition.    *)
RECURSIVE Leaves(_)
Leaves(node) == CASE node.type = "none" -> <<>>
                  [] IsOp(node, "and") -> Leaves(node.left) \o Leaves(node.right)
                  [] OTHER -> <<node>>
AndChain(nodes) ==
  IF nodes = <<>> THEN None
  ELSE FoldLeft(LAMBDA chain, node : Op("and", chain, node), Head(nodes), Tail(nodes))

RECURSIVE ColumnsOf(_)
ColumnsOf(node) == CASE node.type = "column" -> {node}
                     [] node.type = "op" -> ColumnsOf(node.left) \cup ColumnsOf(node.right)
                     [] OTHER -> {}

(* Without the table names, as a scan of a single table reads a condition.  *)
RECURSIVE Stripped(_)
Stripped(node) ==
  CASE node.type = "column" -> Column(Unqualified, node.name)
    [] node.type = "op" -> [node EXCEPT !.left = Stripped(node.left), !.right = Stripped(node.right)]
    [] OTHER -> node

-------------------------------------------------------------------------------
BelongsTo(rel, column) == column.rel \in {Unqualified, rel} /\ column.name \in Columns[rel]
Owners(rels, column) == {rel \in rels : BelongsTo(rel, column)}

(* Every name means one column of these relations; a query with any other   *)
(* name ends with an error.                                                 *)
Bound(rels, node) == \A column \in ColumnsOf(node) : Cardinality(Owners(rels, column)) = 1

Load(db, row, node) ==
  IF node.type = "numeric" THEN node.value
  ELSE LET rel == CHOOSE r \in Owners(DOMAIN row, node) : TRUE
       IN  IF row[rel] = NoRow THEN Null ELSE db[rel][row[rel]][node.name]

RECURSIVE Holds(_, _, _)
Holds(db, row, node) ==
  CASE node.type = "none" -> TRUE
    [] IsOp(node, "and") -> Holds(db, row, node.left) /\ Holds(db, row, node.right)
    [] IsOp(node, "or") -> Holds(db, row, node.left) \/ Holds(db, row, node.right)
    [] IsOp(node, "is null") -> Load(db, row, node.left) = Null
    [] IsOp(node, "is not null") -> Load(db, row, node.left) # Null
    [] IsOp(node, "in") -> /\ Load(db, row, node.left) # Null
                           /\ \E i \in DOMAIN node.right.items : Load(db, row, node.left) = node.right.items[i]
    [] IsOp(node, "not in") -> /\ Load(db, row, node.left) # Null
                               /\ \A i \in DOMAIN node.right.items : Load(db, row, node.left) # node.right.items[i]
    [] OTHER -> \E l \in {Load(db, row, node.left)}, r \in {Load(db, row, node.right)} :
                  l # Null /\ r # Null /\ Compare(node.op, l, r)

(* The rows of a scan that a condition keeps, in order.                     *)
Kept(db, rel, node) == SelectSeq([i \in DOMAIN db[rel] |-> i], LAMBDA i : Holds(db, rel :> i, node))
=============================================================================
