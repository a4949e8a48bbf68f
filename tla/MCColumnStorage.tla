---------------------------- MODULE MCColumnStorage ----------------------------
(***************************************************************************)
(* The runs of ColumnStorage: nothing depends on which values the rows      *)
(* hold, so they are symmetric.                                            *)
(***************************************************************************)
EXTENDS ColumnStorage, TLC

ValueSymmetry == Permutations(Values)
===============================================================================
