---------------------------- MODULE MCFbsWbHandover ----------------------------
(* The wave and the symmetry of the runs of FbsWbHandover. *)
EXTENDS FbsWbHandover, TLC

CONSTANTS o1, o2

OrderSymmetry == Permutations(Orders)
================================================================================
