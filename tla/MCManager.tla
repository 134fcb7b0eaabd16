----------------------------- MODULE MCManager -----------------------------
(* Values for the constants of Manager in the runs of TLC.                 *)
EXTENDS Manager

OnePort  == <<1>>
TwoPorts == <<1, 2>>
=============================================================================
