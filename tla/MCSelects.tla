----------------------------- MODULE MCSelects -----------------------------
(***************************************************************************)
(* Selects for TLC: the FROM and the WHERE of a query, with subqueries, and *)
(* the scan of one table.  The modules are about what the code computes     *)
(* from a query, so a step chooses one, in parts, and the properties        *)
(* compare its answer with its meaning.  kind says which part is next.      *)
(* costs are the outcomes of the cost model that are tried.                *)
(***************************************************************************)
EXTENDS SemiJoins, ScanFilter

VARIABLES kind, query, db
select_vars == <<kind, query, db>>

-------------------------------------------------------------------------------
(* FROM and WHERE: three relations, of which the second has a NULL.  No     *)
(* value is the placeholder the join reads for a NULL (README).             *)

MCNull == -1
MCColumns == <<{"x", "y"}, {"x", "y"}, {"y", "z"}>>

X1 == Column(1, "x")  Y1 == Column(1, "y")  X2 == Column(2, "x")
Y2 == Column(2, "y")  Y3 == Column(3, "y")  Z3 == Column(3, "z")
Z  == Column(Unqualified, "z")
And(l, r) == Op("and", l, r)
Eq(l, r) == Op("=", l, r)
N(v) == Numeric(v)
Impossible == Eq(N(0), N(1))

SecondOns == {Eq(X1, X2), And(Eq(X1, X2), Eq(Y2, N(1))), And(Eq(X2, X1), Eq(Y1, N(1))),
              And(Eq(X1, X2), Impossible), And(Eq(X1, X2), Eq(Y1, Y2))}
ThirdOns == {Eq(Y2, Y3), Eq(X1, Z), And(Eq(Y1, Y3), Op("<", Z3, N(2))), And(Eq(X1, Z3), Eq(X2, N(1))),
             And(Eq(Y3, Y2), Eq(X1, N(2)))}
Wheres == {Eq(Y1, N(1)), Eq(N(2), Y2), Op("is null", Y2, None), Op("is not null", Y2, None), Eq(Z, N(2)),
           Eq(X1, Z3), Eq(Y2, Y3), Op(">", X1, N(1)), Op(">", N(2), X1), Op("or", Eq(Y2, N(1)), Eq(Z3, N(1))),
           Op("or", Eq(Y2, N(1)), Op("<", Y2, N(2))), Impossible, Eq(N(1), N(1)),
           Op("not in", Y2, List(<<1>>)), Eq(X1, X2)}
Steps(type, ons) == IF type = "cross" THEN {[type |-> "cross", on |-> None]} ELSE {[type |-> type, on |-> on] : on \in ons}

XY(a, b) == [x |-> a, y |-> b]
YZ(a, b) == [y |-> a, z |-> b]
DBs == {<< <<XY(1, 1), XY(1, 2), XY(2, 1), XY(2, 2)>>, <<XY(1, 1), XY(1, Null), XY(2, 2)>>, <<YZ(1, 1), YZ(2, 1), YZ(2, 2)>> >>,
        << <<XY(1, 1), XY(2, 1)>>, <<XY(2, Null)>>, <<YZ(1, 2), YZ(1, 1)>> >>}

NullColumns(data) == {<<rel, name>> \in {<<1, "x">>, <<1, "y">>, <<2, "x">>, <<2, "y">>, <<3, "y">>, <<3, "z">>} :
                        \E i \in DOMAIN data[rel] : data[rel][i][name] = Null}

Types == {"inner", "left", "cross"}
PickTypes == /\ kind = "types" /\ kind' = "from"
             /\ \E t2, t3 \in Types, w \in Wheres : query' = <<t2, t3, w>>
             /\ UNCHANGED db
PickFrom == /\ kind = "from" /\ kind' = "select"
            /\ \E s2 \in Steps(query[1], SecondOns), s3 \in Steps(query[2], ThirdOns), w \in Wheres \cup {None} :
                 query' = [steps |-> <<NoStep, s2, s3>>, columns |-> {}, flagged |-> NullColumns(db), costs |-> {TRUE},
                           where |-> IF w = None THEN query[3] ELSE And(query[3], w)]
            /\ UNCHANGED db

(* Subqueries of the third relation, and of the second where the select is  *)
(* about the first alone.  Left out is NOT IN over a column of a relation   *)
(* that an outer join may not find, where the code's two ways differ        *)
(* (README).                                                               *)
MoreDBs == DBs \cup {<< <<XY(1, 1), XY(2, 1), XY(2, 2)>>, <<XY(1, Null), XY(2, 1)>>, <<YZ(1, 2), YZ(2, Null), YZ(2, 1)>> >>}
UnqualifiedY == Column(Unqualified, "y")
Subselects == {SelectOf(3, Y3, counts, where) : counts \in BOOLEAN,
                 where \in {None, Op("<", Z, N(2)), Op(">", Z3, N(2)), Eq(Y3, X1), And(Eq(X1, UnqualifiedY), Eq(Z, N(2))),
                           And(Eq(Z3, Y1), Eq(X1, Y3)), Op("<", Y3, X1), Op("or", Eq(Y3, X1), Eq(Z3, N(1)))}}
                \cup {SelectOf(3, Z, FALSE, where) : where \in {None, Eq(Z3, N(2)), Eq(Z, Y1)}}
Predicates(column, selects) ==
  {Exists(negated, select) : negated \in BOOLEAN, select \in selects}
  \cup {Op(op, column, Subquery(select)) : op \in {"in", "not in", "=", "<"}, select \in selects}
SubWheres(column, selects) ==
  Predicates(column, selects)
  \cup {And(Eq(Y1, N(1)), p) : p \in Predicates(column, selects)}
  \cup {Op("or", Eq(X1, N(2)), p) : p \in Predicates(column, selects)}
Unpaired == Exists(TRUE, SelectOf(3, Y3, FALSE, And(Eq(Y3, Y1), Eq(Z3, N(2)))))

PickSubquery ==
  /\ kind = "subqueries" /\ kind' = "select"
  /\ \E flagged \in {NullColumns(db), NullColumns(db) \cup {<<1, "x">>, <<3, "y">>}} :
       \/ \E type \in {"inner", "left", "cross"}, where \in SubWheres(X1, Subselects), more \in {None, Unpaired} :
            \E step \in Steps(type, {Eq(X1, X2)}) :
            query' = [steps |-> <<NoStep, step>>, columns |-> {}, flagged |-> flagged, costs |-> BOOLEAN,
                      where |-> AndChain(SelectSeq(<<IF type = "cross" THEN Eq(X1, X2) ELSE None, where, more>>, LAMBDA node : node # None))]
       \/ \E column \in {X1, Y1, X2, Y2}, select \in {SelectOf(3, Z, FALSE, None), SelectOf(3, Z3, FALSE, Eq(Y3, N(2))), SelectOf(3, Y3, FALSE, Eq(Z3, Y2))} :
          \E where \in Predicates(column, {select}), type \in {"inner", "left"} :
            /\ ~(type = "left" /\ column = X2 /\ IsOp(where, "not in"))
            /\ query' = [steps |-> <<NoStep, [type |-> type, on |-> Eq(X1, X2)]>>, columns |-> {}, flagged |-> flagged, costs |-> BOOLEAN, where |-> where]
       \/ \E column \in {X1, Column(Unqualified, "y")}, select \in {SelectOf(2, Y2, FALSE, where) : where \in {None, Eq(X2, X1), Eq(Y2, X1)}} :
          \E where \in Predicates(column, {select}) :
            query' = [steps |-> <<NoStep>>, columns |-> {}, flagged |-> flagged, costs |-> BOOLEAN, where |-> where]
  /\ UNCHANGED db

(* Every plan the optimizer may choose gives the rows the query means, and  *)
(* so does the plan as written; a query the written plan can answer is      *)
(* never made one that ends with an error.  A subquery is taken out as a    *)
(* semi or an anti join or run once; only the joins answer one that is      *)
(* correlated (plan_run_select).  A condition filtered before an outer      *)
(* join, one lost in a reordering, a contradiction seen where there is      *)
(* none, an outer join made an inner one too early, or an anti join that    *)
(* keeps the rows a NULL rules out would break this.                       *)
RewriteSound ==
  kind = "select" /\ Legal(query) =>
    \E expected \in {AnswerOfSelect(db, query)},
       results \in {[how \in {<<FALSE, FALSE>>} \cup {TRUE} \X query.costs |-> RunSelect(db, query.flagged, query, how[1], how[2])]} :
      \A how \in DOMAIN results : \A result \in results[how] :
        /\ (\A plain \in results[<<FALSE, FALSE>>] : plain.supported) => result.supported
        /\ result.supported => result.rows = expected

-------------------------------------------------------------------------------
(* The scan of one table; numbers count halves.                            *)

ColumnXs == {[type |-> "u32", cells |-> <<0, 2, 4>>], [type |-> "u32", cells |-> <<6, 8, 6>>], [type |-> "u32", cells |-> <<4, 10, 8>>],
             [type |-> "u32", cells |-> <<0, 30, 2>>], [type |-> "i32", cells |-> <<-16, 14, 2>>], [type |-> "i32", cells |-> <<-4, -2, 0>>],
             [type |-> "i32", cells |-> <<-4, -4, 2>>], [type |-> "u32", cells |-> <<26, 28, 30>>]}
ColumnYs == {[type |-> "f64", cells |-> <<5, 2, 3>>, dicts |-> <<>>],
             [type |-> "text", cells |-> <<6, 4, 6>>, dicts |-> <<>>],
             [type |-> "text", cells |-> <<6, 4, 6>>, dicts |-> [y |-> <<6, 4>>]]}
TableOf(x, y) == [rows |-> [i \in 1 .. 3 |-> [x |-> x.cells[i], y |-> y.cells[i]]],
                  types |-> [x |-> x.type, y |-> y.type], dicts |-> y.dicts]

X == Column(Unqualified, "x")
Y == Column(Unqualified, "y")
Comparing(column, values) == {Op(op, column, N(v)) : op \in Comparisons, v \in values}
XLeaves == Comparing(X, {-17, -4, 0, 2, 5, 29, 40})
YLeaves == Comparing(Y, {3, 4, 6})
Others == {Op("in", Y, List(<<4>>)), Op("not in", Y, List(<<6, 8>>)), Op("in", Y, List(<<4, 6, 8>>)), Op("in", X, List(<<>>)),
           Op("is null", X, None), Op("or", Op("<", X, N(3)), Op("=", Y, N(4))),
           Op("or", Op("=", Y, N(3)), And(Op(">", X, N(1)), Op("=", Y, N(6))))}

PickTable == /\ kind = "table" /\ kind' = "where"
             /\ \E x \in ColumnXs, y \in ColumnYs : query' = TableOf(x, y)
             /\ UNCHANGED db
PickWhere == /\ kind = "where" /\ kind' = "filter"
             /\ \E left \in XLeaves, right \in {None} \cup YLeaves \cup Others \cup Comparing(X, {2, 29}) :
                  query' = [table |-> query, where |-> IF right = None THEN left ELSE And(left, right)]
             /\ UNCHANGED db

(* Whichever way a table is scanned, by the stack machine, by intervals     *)
(* over encoded or plain columns, in chunks on the CPU or row by row, the   *)
(* rows found are those the condition is true of, unless an error was       *)
(* logged: a rounded bound, a difference that wraps, the code of a text     *)
(* compared for its order or a stack that is too small would lose rows or   *)
(* find others.                                                            *)
FilterSound ==
  kind = "filter" =>
    LET n     == Len(query.table.rows)
        kept  == ToSet(Kept(<<query.table.rows>>, 1, query.where))
        whole == <<[min |-> 0, max |-> n]>>
        parts == <<[min |-> 0, max |-> 1], [min |-> 1, max |-> n]>>
    IN  /\ \A streamed \in BOOLEAN, where \in {whole, parts} :
             \E found \in {ScanFound(query.table, query.where, streamed, where)} : found.failed \/ found.rows = kept
        /\ IsSimple(query.table, query.where) => ScanChunked(query.table, query.where, parts) = kept

=============================================================================
