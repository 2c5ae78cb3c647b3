------------------------------ MODULE MCSpendCap ------------------------------
(* SpendCap for TLC: interchangeable employers.                            *)
EXTENDS SpendCap, TLC

Symmetry == Permutations(Employers)
=============================================================================
