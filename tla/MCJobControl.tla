---------------------------- MODULE MCJobControl ----------------------------
(* Small instances of JobControl. *)
EXTENDS JobControl, TLC

\* Rows 1 and 2 belong to the first novel, row 3 to the second.
CONSTANTS novelA, novelB
RowsOfOne == [j \in Jobs |-> novelA]
RowsOfTwo == [j \in Jobs |-> IF j <= 2 THEN novelA ELSE novelB]

TaskSymmetry == Permutations(Tasks)
=============================================================================
