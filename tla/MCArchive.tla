------------------------------ MODULE MCArchive ------------------------------
(* Values for the constants of Archive in the runs of TLC.                 *)
EXTENDS Archive, TLC

(* A file whose data is more than a trailer's worth, and a short one.      *)
Sizes == [f \in {1, 2} |-> IF f = 1 THEN 2 ELSE 1]

DirSymmetry == Permutations(Dirs)
=============================================================================
