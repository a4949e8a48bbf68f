------------------------------- MODULE RowStore -------------------------------
(***************************************************************************)
(* What a column promises: a sequence of values that is appended to, that   *)
(* loses single rows, and that is read by ranges; a save, and the last save *)
(* coming back after the process ended.  Nothing here is memory or a file.  *)
(***************************************************************************)
EXTENDS Integers, Sequences, SequencesExt

CONSTANTS
  Values,     (* what a row holds                                          *)
  MaxRows     (* bound: the rows of the column                             *)

VARIABLES
  rows,       (* the rows                                                  *)
  saved,      (* the rows of the last save                                 *)
  answer      (* what a read has returned, until the rows change           *)

vars == <<rows, saved, answer>>

Init == rows = <<>> /\ saved = <<>> /\ answer = <<>>

AppendRow(v) ==
  /\ Len(rows) < MaxRows
  /\ rows' = Append(rows, v)
  /\ answer' = <<>>
  /\ UNCHANGED saved

RemoveRow(i) ==
  /\ rows' = RemoveAt(rows, i)
  /\ answer' = <<>>
  /\ UNCHANGED saved

ReadRows(lo, hi) ==
  /\ answer' = SubSeq(rows, lo + 1, hi)
  /\ UNCHANGED <<rows, saved>>

SaveRows ==
  /\ saved' = rows
  /\ UNCHANGED <<rows, answer>>

(* The process ended and the saved rows were loaded.                       *)
LoadRows ==
  /\ rows' = saved
  /\ answer' = <<>>
  /\ UNCHANGED saved

Next ==
  \/ \E v \in Values : AppendRow(v)
  \/ \E i \in 1 .. Len(rows) : RemoveRow(i)
  \/ \E lo, hi \in 0 .. Len(rows) : lo <= hi /\ ReadRows(lo, hi)
  \/ SaveRows
  \/ LoadRows

Spec == Init /\ [][Next]_vars
===============================================================================
