----------------------------- MODULE MCStatements -----------------------------
(***************************************************************************)
(* The schemas of the runs of Statements: a parent with a primary key, a   *)
(* child that references it, and a table with a CHECK on a unique column.  *)
(***************************************************************************)
EXTENDS Statements

CONSTANTS parent, child, other, id, ref, val, extra, d1, d2

Plain(n) == [name |-> n, primary |-> FALSE, not_null |-> FALSE, unique |-> FALSE,
             fk |-> None, check |-> FALSE]
Id  == [Plain(id) EXCEPT !.primary = TRUE]
Ref == [Plain(ref) EXCEPT !.fk = [table |-> parent, column |-> id]]
Val == [Plain(val) EXCEPT !.check = TRUE, !.unique = TRUE]

MCSchemas ==
  parent :> [tables |-> {<<Id>>}, added |-> {}]
    @@ child :> [tables |-> {<<Ref>>}, added |-> {extra}]
    @@ other :> [tables |-> {<<Val>>}, added |-> {}]

Loaded(c) ==
  [name |-> c.name, not_null |-> c.not_null \/ c.primary, unique |-> c.unique \/ c.primary,
   fk |-> c.fk, check |-> IF c.check THEN "text" ELSE "none", null_flags |-> FALSE]
Stored(columns) ==
  [columns |-> [i \in DOMAIN columns |-> Loaded(columns[i])], rows |-> <<>>, indexes |-> <<>>]

(* What CREATE DATABASE and CREATE TABLE leave after a restart.             *)
MCAtStart ==
  d1 :> (parent :> Stored(<<Id>>) @@ child :> Stored(<<Ref>>) @@ other :> Stored(<<Val>>))
    @@ d2 :> Empty
===============================================================================
