---------------------------- MODULE FbsStockLedger ----------------------------
(***************************************************************************)
(* What the warehouse promises about its stock, whatever orders, waves and *)
(* pickers do: every unit of a balance is on sale, kept for an order, taken *)
(* by an order or closed until it is counted, and moves only along          *)
(*                                                                         *)
(*        on sale <-> kept -> taken,    on sale -> closed <- kept          *)
(*                                                                         *)
(* FbsPicking implements this module (StockLedger).                        *)
(***************************************************************************)
EXTENDS Integers, Functions

CONSTANTS
  Orders, Balances,
  Need,    \* Need[o]: units order o asks for
  Stock    \* Stock[b]: units of balance b at the start

VARIABLES
  onSale,  \* onSale[b]
  kept,    \* kept[o][b]: units of b that wait on the shelf for order o
  taken,   \* taken[o][b]: units of b that order o has got
  closed   \* closed[b]: units that may not be there

ledger == <<onSale, kept, taken, closed>>

Nothing == [o \in Orders |-> [b \in Balances |-> 0]]

Init ==
  /\ onSale = Stock
  /\ kept = Nothing /\ taken = Nothing
  /\ closed = [b \in Balances |-> 0]

KeptAt(b) == [o \in Orders |-> kept[o][b]]

\* An order is served in full or not at all, and never twice.
Keep(o) ==
  /\ kept[o] = Nothing[o] /\ taken[o] = Nothing[o]
  /\ SumFunction(kept'[o]) = Need[o]
  /\ kept' = [kept EXCEPT ![o] = kept'[o]]
  /\ onSale' = [b \in Balances |-> onSale[b] - kept'[o][b]]
  /\ UNCHANGED <<taken, closed>>

\* An order that has got nothing yet gives everything back.
GiveBack(o) ==
  /\ taken[o] = Nothing[o]
  /\ kept' = [kept EXCEPT ![o] = Nothing[o]]
  /\ onSale' = [b \in Balances |-> onSale[b] + kept[o][b]]
  /\ UNCHANGED <<taken, closed>>

Take(o, b) ==
  /\ kept[o][b] > 0
  /\ kept' = [kept EXCEPT ![o][b] = @ - 1]
  /\ taken' = [taken EXCEPT ![o][b] = @ + 1]
  /\ UNCHANGED <<onSale, closed>>

\* Units kept at b are not there.  They are closed, and what is on sale at b may
\* be closed with them; orders that got nothing may give up the rest.
Miss(b, quitters) ==
  /\ \A o \in Orders : kept'[o][b] \in 0..kept[o][b]
  /\ \A o \in quitters : taken[o] = Nothing[o] /\ kept'[o][b] = 0
  /\ kept' = [o \in Orders |-> [x \in Balances |->
       IF x = b THEN kept'[o][b]
       ELSE IF o \in quitters THEN 0 ELSE kept[o][x]]]
  /\ onSale' = [x \in Balances |->
       IF x = b THEN onSale'[b]
       ELSE onSale[x] + SumFunctionOnSet(KeptAt(x), quitters)]
  /\ onSale'[b] \in {0, onSale[b]}
  /\ closed' = [closed EXCEPT ![b] =
       @ + (onSale[b] - onSale'[b]) + (SumFunction(KeptAt(b)) - SumFunction(KeptAt(b)'))]
  /\ UNCHANGED taken

Next ==
  \/ \E o \in Orders : Keep(o) \/ GiveBack(o)
  \/ \E o \in Orders, b \in Balances : Take(o, b)
  \/ \E b \in Balances, quitters \in SUBSET Orders : Miss(b, quitters)

Spec == Init /\ [][Next]_ledger
=============================================================================
