---------------------------- MODULE FbsStockPromise ----------------------------
(***************************************************************************)
(* What the exporter promises about the quantities an Ozon profile shows:  *)
(* updates of a row are made one at a time, each with the quantity wanted  *)
(* when it was begun, each is settled once, and a row counts as            *)
(* acknowledged only while the marketplace shows what is wanted and no     *)
(* update that could change it is under way.                               *)
(*                                                                         *)
(* FbsStockExport implements this module at Ozon (ExportPromise).          *)
(***************************************************************************)
EXTENDS Naturals

CONSTANT Items

VARIABLES
  wanted,  \* wanted[i]: the quantity to be shown
  shown,   \* shown[i]: the quantity the marketplace shows
  flying,  \* flying[i]: quantities of the updates under way
  acked    \* rows that count as shown

vars == <<wanted, shown, flying, acked>>

Init ==
  /\ wanted \in [Items -> Nat] /\ shown \in [Items -> Nat]
  /\ flying = [i \in Items |-> {}]
  /\ acked = {}

\* Other quantities are wanted.  Rows may lose their acknowledgement at any time.
Want ==
  /\ wanted' \in [Items -> Nat]
  /\ acked' \subseteq {i \in acked : wanted'[i] = wanted[i]}
  /\ UNCHANGED <<shown, flying>>

Begin(rows) ==
  /\ \A i \in rows : flying[i] = {} /\ i \notin acked
  /\ flying' = [i \in Items |-> IF i \in rows THEN {wanted[i]} ELSE flying[i]]
  /\ UNCHANGED <<wanted, shown, acked>>

\* Updates of `rows` are settled: those of `landed` are carried out, the others
\* never will be.
Settle(rows, landed) ==
  /\ landed \subseteq rows
  /\ \A i \in Items :
       IF i \in landed THEN shown'[i] \in flying[i] ELSE shown'[i] = shown[i]
  /\ shown' \in [Items -> Nat]
  /\ flying' = [i \in Items |-> IF i \in rows THEN {} ELSE flying[i]]
  /\ UNCHANGED <<wanted, acked>>

Acknowledge ==
  /\ acked' \subseteq Items
  /\ \A i \in acked' \ acked :
       shown[i] = wanted[i] /\ flying[i] \subseteq {wanted[i]}
  /\ UNCHANGED <<wanted, shown, flying>>

Next ==
  \/ Want \/ Acknowledge
  \/ \E rows \in SUBSET Items : Begin(rows)
  \/ \E rows, landed \in SUBSET Items : Settle(rows, landed)

Spec == Init /\ [][Next]_vars
=============================================================================
