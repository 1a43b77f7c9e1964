----------------------------- MODULE MCFbsFulfilment -----------------------------
(***************************************************************************)
(* Instances of FbsPicking and of FbsVerification for TLC.  o1 and o2      *)
(* order one unit each or two; balances are reserved in the order b1, b2.  *)
(***************************************************************************)
EXTENDS FbsVerification, TLC

CONSTANTS o1, o2, b1, b2, b3, p1, p2, c1, c2, k1, k2

RankOfOne == b1 :> 1
RankOfTwo == b1 :> 1 @@ b2 :> 2
NeedOneTwo == o1 :> 1 @@ o2 :> 2
People == Permutations(Pickers) \cup Permutations(Controllers)
NeedOnes == o1 :> 1 @@ o2 :> 1
StockOfOne == b1 :> 3
StockThree == b1 :> 2 @@ b2 :> 1
=============================================================================
