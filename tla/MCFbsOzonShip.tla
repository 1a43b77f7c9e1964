----------------------------- MODULE MCFbsOzonShip -----------------------------
(***************************************************************************)
(* Instances of FbsOzonShip for TLC.                                       *)
(***************************************************************************)
EXTENDS FbsOzonShip, TLC

CONSTANTS w1, w2
=============================================================================
