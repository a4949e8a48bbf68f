----------------------------- MODULE MCTableFiles -----------------------------
(* Constants of TableFiles for TLC.                                         *)
EXTENDS TableFiles

CONSTANTS a, b, Key

MCDeclared == [c \in {a, b} |-> IF c = a THEN Key ELSE None]
===============================================================================
