---------------------------- MODULE MC_Notebook ----------------------------
(***************************************************************************)
(* A notebook opened with two columns, room for a third, two content      *)
(* panels and one blank placeholder.  Rows 0 and 1 and the default        *)
(* Infinity reach every insertion point of a column of up to three cells. *)
(***************************************************************************)
EXTENDS Notebook, TLC

CONSTANTS c1, c2, b1

NBContents == {c1, c2}
NBBlanks == {b1}
\* 9 stands for the default row Infinity: past any row of three cells.
NBRows == {0, 1, 9}
=============================================================================
