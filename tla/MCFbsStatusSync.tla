---------------------------- MODULE MCFbsStatusSync ----------------------------
(***************************************************************************)
(* Instances of FbsStatusSync for TLC.                                     *)
(***************************************************************************)
EXTENDS FbsStatusSync, TLC

CONSTANTS r1, r2
================================================================================
