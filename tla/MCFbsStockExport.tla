--------------------------- MODULE MCFbsStockExport ---------------------------
(***************************************************************************)
(* Instances of FbsStockExport for TLC: runs are interchangeable, and so   *)
(* are items.                                                              *)
(***************************************************************************)
EXTENDS FbsStockExport, TLC

Symmetry == Permutations(Runs) \cup Permutations(Items)

\* Everything but what Ozon shows, which no step of its exporter reads.
AllButRemote ==
  <<have, rowVars, runVars, net, views, cardVars, changes, faults>>
=============================================================================
