------------------------------ MODULE MCPgSession ------------------------------
(***************************************************************************)
(* The queries of the runs of PgSession.                                   *)
(***************************************************************************)
EXTENDS PgSession

CONSTANTS Db

Select2 == [select |-> TRUE,  rows |-> 2,      writes |-> FALSE, use |-> NoUse]
UseDb   == [select |-> FALSE, rows |-> NoRows, writes |-> FALSE, use |-> Db]
(* SELECT ...; INSERT ... in one text                                      *)
SelectThenInsert == [select |-> TRUE, rows |-> NoRows, writes |-> TRUE, use |-> NoUse]

PortalQueries == {Select2, UseDb}
ShapeQueries  == {Select2, SelectThenInsert}
===============================================================================
