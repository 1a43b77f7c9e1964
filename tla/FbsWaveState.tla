----------------------------- MODULE FbsWaveState -----------------------------
(***************************************************************************)
(* The rows of the FBS warehouse that picking and verification share: an   *)
(* order and its marketplace status, the stock balances it is served from, *)
(* its allocation rows, its pick task, the pick batch (a "wave") holding   *)
(* the task, and its marketplace label.  FbsPicking and FbsVerification    *)
(* extend this module with the operations on them.                         *)
(*                                                                         *)
(* Abstractions: all balances hold one product of one client and an order  *)
(* has one line; boxes, cells, totes, marking codes and expiry dates are   *)
(* not represented.  Every operation of the code is one database           *)
(* transaction and one action: it locks the rows it writes before it       *)
(* decides.  The inventory is the exception: it looks for operations in    *)
(* progress, and a pick looks for an inventory, without a lock, so opening *)
(* a count takes two actions and lock[b] says which pick it overtook.      *)
(***************************************************************************)
EXTENDS Integers, FiniteSets, Functions

CONSTANTS
  Orders,       \* marketplace orders
  Balances,     \* stock balances (product x box)
  Waves,        \* pick batch ids, in the order of their creation
  Pickers,      \* employees who pick
  Carts,        \* picking totes
  Controllers,  \* employees who verify picked waves
  Need,         \* Need[o]: quantity of the order's line
  Stock,        \* Stock[b]: quantity the balance starts with
  Rank,         \* Rank[b]: place of the balance in the reservation order
  UpperTier,    \* balances stored above the first pick tier
  Statuses,     \* marketplace statuses the imports report
  WaveLimit,    \* verifications a controller may hold open
  None          \* no wave, employee or cart

MarketStatuses == {"open", "confirm", "hold", "cancelled"}

ASSUME ConstantsAssumption ==
  /\ IsFiniteSet(Orders) /\ IsFiniteSet(Balances)
  /\ Waves \subseteq Nat
  /\ None \notin Waves \cup Pickers \cup Carts \cup Controllers
  /\ Need \in [Orders -> Nat \ {0}]
  /\ Stock \in [Balances -> Nat]
  /\ Rank \in [Balances -> Nat]
  /\ UpperTier \subseteq Balances
  /\ Statuses \subseteq MarketStatuses
  /\ WaveLimit \in Nat

VARIABLES
  ord,        \* ord[o]: FbsOrder.internal_status ("absent": not imported yet)
  mkt,        \* mkt[o]: what the marketplace last reported
  qty,        \* FbsStockBalance.qty
  avail,      \* FbsStockBalance.available_qty
  resv,       \* FbsStockBalance.reserved_qty
  lock,       \* lock[b]: the open inventory session over the balance:
              \* "activating" between the look for operations in progress
              \* and the commit, "overtaken" when it committed after a
              \* pick had looked for it and before that pick committed
  alloc,      \* alloc[o][b]: the order's live FbsOrderStockAllocation row
  task,       \* task[o]: the order's FbsPickTask that is not canceled
  tPlanned,   \* FbsPickTask.planned_qty
  tPicked,    \* FbsPickTask.picked_qty
  past,       \* past[o]: waves holding a canceled task of the order
  short,      \* short[o]: quantities of the live task's released rows, each
              \* with an open not-found issue
  lost,       \* lost[o]: the same of the order's canceled tasks
  wave,       \* wave[w]: FbsPickBatch
  wPlanned,   \* FbsPickBatch.planned_qty
  wPicked,    \* FbsPickBatch.picked_qty
  label       \* label[o]: status of the order's FbsOrderLabel

stockVars == <<qty, avail, resv>>
taskVars  == <<task, tPlanned, tPicked, past>>
issueVars == <<short, lost>>
waveVars  == <<wave, wPlanned, wPicked>>
vars == <<ord, mkt, stockVars, lock, alloc, taskVars, issueVars, waveVars,
          label>>

OrderStatuses == {"absent", "received", "awaiting_stock", "reserved",
                  "queued_for_pick", "picking", "picked",
                  "ready_for_handover", "exception", "cancelled"}
RowStatuses   == {"none", "reserved", "picking", "picked", "canceled"}
TaskStatuses  == {"none", "queued", "in_progress", "picked", "exception"}
WaveStatuses  == {"none", "queued", "in_progress", "verification", "done",
                  "canceled"}
LabelStatuses == {"none", "requested", "ready", "applied"}
LockStates    == {"none", "draining", "activating", "overtaken", "counting"}

NoRow  == [st |-> "none", res |-> 0, picked |-> 0, ver |-> 0]
NoTask == [st |-> "none", wave |-> None, picker |-> None]
NoBatch == [st |-> "none", picker |-> None, cart |-> None,
            handed |-> FALSE, ctrl |-> None]

Rows  == [st : RowStatuses, res : Nat, picked : Nat, ver : Nat]
Tasks == {NoTask} \cup [st : TaskStatuses \ {"none"}, wave : Waves,
                        picker : Pickers \cup {None}]
Batches == [st : WaveStatuses, picker : Pickers \cup {None},
            cart : Carts \cup {None}, handed : BOOLEAN,
            ctrl : Controllers \cup {None}]

Init ==
  /\ ord = [o \in Orders |-> "absent"]
  /\ mkt = [o \in Orders |-> "open"]
  /\ qty = Stock
  /\ avail = Stock
  /\ resv = [b \in Balances |-> 0]
  /\ lock = [b \in Balances |-> "none"]
  /\ alloc = [o \in Orders |-> [b \in Balances |-> NoRow]]
  /\ task = [o \in Orders |-> NoTask]
  /\ tPlanned = [o \in Orders |-> 0]
  /\ tPicked = [o \in Orders |-> 0]
  /\ past = [o \in Orders |-> {}]
  /\ short = [o \in Orders |-> {}]
  /\ lost = [o \in Orders |-> {}]
  /\ wave = [w \in Waves |-> NoBatch]
  /\ wPlanned = [w \in Waves |-> 0]
  /\ wPicked = [w \in Waves |-> 0]
  /\ label = [o \in Orders |-> "none"]

-----------------------------------------------------------------------------
\* Allocation rows of one order: `rows` is alloc[o] before or after a step.

IsActive(row) == row.st \in {"reserved", "picking"}
ActiveAt(rows) == {b \in Balances : IsActive(rows[b])}
Open(row) == row.res - row.picked

\* The units a row keeps on the shelf.
Left(row) == IF IsActive(row) THEN Open(row) ELSE 0

SumOf(field(_), rows) == SumFunction([b \in Balances |-> field(rows[b])])
Reserved(row) == row.res
Picked(row) == row.picked

\* Tasks of a wave: `tk` is task before or after a step.

TasksOf(tk, w) == {o \in Orders : tk[o].st # "none" /\ tk[o].wave = w}
ActiveTasks(tk, w) ==
  {o \in TasksOf(tk, w) : tk[o].st \in {"queued", "in_progress"}}

\* Mutant of PlannedOf: picked tasks no longer count.
PlannedOfActive(tk, planned, w) == SumFunctionOnSet(planned, ActiveTasks(tk, w))

\* _active_pick_tasks_planned_qty: canceled tasks are not counted.
PlannedOf(tk, planned, w) == SumFunctionOnSet(planned, TasksOf(tk, w))

\* ACTIVE_BATCH_STATUSES
IsLive(batch) == batch.st \in {"in_progress", "verification"}

\* The partial unique index uniq_active_fbs_wave_per_cart: a transaction that
\* would break it fails and changes nothing.
CartIndexHolds(wv) ==
  \A v, w \in Waves :
    ( /\ v # w /\ wv[v].cart = wv[w].cart /\ wv[w].cart # None
      /\ IsLive(wv[v]) /\ ~wv[v].handed
      /\ IsLive(wv[w]) /\ ~wv[w].handed ) => FALSE

Larger(m, n) == IF m < n THEN n ELSE m
=============================================================================
