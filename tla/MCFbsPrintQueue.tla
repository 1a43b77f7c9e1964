---------------------------- MODULE MCFbsPrintQueue ----------------------------
(***************************************************************************)
(* Instances of FbsPrintQueue for TLC.  Pages and agents are alike.        *)
(***************************************************************************)
EXTENDS FbsPrintQueue, TLC

CONSTANTS w1, w2, a1, order1, supply1
================================================================================
