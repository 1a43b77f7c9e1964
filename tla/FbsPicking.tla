------------------------------ MODULE FbsPicking ------------------------------
(***************************************************************************)
(* Reservation, waves and picking (services/picking.py), the pickers'      *)
(* problem reports (services/problems.py) and the part of the marketplace  *)
(* import that moves stock (services/sync.py).  Verification of a handed   *)
(* over wave is in FbsVerification.                                        *)
(***************************************************************************)
EXTENDS FbsWaveState

-----------------------------------------------------------------------------
\* Reservation.

Before(b, c) == Rank[b] < Rank[c]

\* Mutant of Plans: the loop forgets how much a balance has on sale.
PlansUncapped(o, candidates) ==
  { take \in [Balances -> 0 .. Need[o]] :
      /\ SumFunction(take) = Need[o]
      /\ \A b \in Balances \ candidates : take[b] = 0 }

\* The candidate loop of reserve_order_stock: the whole line is covered, and
\* a balance is touched only when every earlier one is used up.
Plans(o, candidates) ==
  { take \in [Balances -> 0 .. Need[o]] :
      /\ SumFunction(take) = Need[o]
      /\ \A b \in Balances :
           take[b] <= IF b \in candidates THEN avail[b] ELSE 0
      /\ \A b, c \in candidates :
           Before(b, c) /\ take[c] > 0 => take[b] = avail[b] }

Hold(o, take) ==
  /\ avail' = [b \in Balances |-> avail[b] - take[b]]
  /\ resv' = [b \in Balances |-> resv[b] + take[b]]
  /\ alloc' = [alloc EXCEPT ![o] =
       [b \in Balances |->
          IF take[b] = 0 THEN alloc[o][b]
          ELSE [st |-> "reserved", res |-> take[b], picked |-> 0, ver |-> 0]]]
  /\ ord' = [ord EXCEPT ![o] = "reserved"]
  /\ UNCHANGED qty

\* reserve_order_stock: all or nothing.  When unlocked stock is short, the
\* inventory sessions over locked stock of the product are cancelled and the
\* reservation is tried again with everything.
ReserveStock(o) ==
  LET free == {b \in Balances : lock[b] = "none"}
      blocking == {b \in Balances : lock[b] # "none" /\ avail[b] > 0}
  IN \/ /\ ActiveAt(alloc[o]) # {}
        /\ ord[o] \in {"reserved", "queued_for_pick", "picking"}
        /\ UNCHANGED <<ord, stockVars, lock, alloc>>
     \/ /\ ActiveAt(alloc[o]) = {}
        /\ ord[o] \in {"absent", "received", "awaiting_stock"}
        /\ \/ /\ \E take \in Plans(o, free) : Hold(o, take)
              /\ UNCHANGED lock
           \/ /\ Plans(o, free) = {}
              /\ lock' = [b \in Balances |->
                            IF b \in blocking THEN "none" ELSE lock[b]]
              /\ \/ \E take \in Plans(o, Balances) : Hold(o, take)
                 \/ /\ Plans(o, Balances) = {}
                    /\ ord' = [ord EXCEPT ![o] = "awaiting_stock"]
                    /\ UNCHANGED <<stockVars, alloc>>

\* reserve_order_stock run again for an order that found no stock.
RetryReservation(o) ==
  /\ ord[o] \in {"received", "awaiting_stock"}
  /\ mkt[o] = "open"
  /\ ReserveStock(o)
  /\ UNCHANGED <<mkt, taskVars, issueVars, waveVars, label>>

-----------------------------------------------------------------------------
\* Releasing a reservation.

\* Mutant of WaveAfterRelease: the wave whose last open task was canceled is
\* not sent on to verification.
WaveAfterReleaseStays(w, tk, planned, picked) ==
  IF \A o \in TasksOf(tk, w) :
       tk[o].st \notin {"queued", "in_progress", "picked"}
  THEN "canceled" ELSE wave[w].st

\* The wave after one of its tasks was canceled: verification once everything
\* left is picked, canceled when nothing open or picked is left.
WaveAfterRelease(w, tk, planned, picked) ==
  LET left == TasksOf(tk, w)
  IN IF /\ left # {} /\ \A o \in left : tk[o].st = "picked"
        /\ picked = planned
     THEN "verification"
     ELSE IF \A o \in left : tk[o].st \notin {"queued", "in_progress", "picked"}
          THEN "canceled"
          ELSE wave[w].st

\* release_order_reservation: `to` is the order's next status, `gone[b]` the
\* quantity of its row at b that is not there, `have` the availability to
\* return the rest to.
ReleaseReservation(o, to, gone, have) ==
  LET rows == alloc[o]
      active == ActiveAt(rows)
      w == task[o].wave
      tk == [task EXCEPT ![o] = NoTask]
      planned == PlannedOf(tk, tPlanned, w)
      picked == Larger(0, wPicked[w] - tPicked[o])
  IN /\ ord[o] \in {"reserved", "queued_for_pick", "picking"}
     /\ active # {}
     /\ \A b \in active : /\ rows[b].picked = 0
                          /\ gone[b] <= Open(rows[b])
                          /\ resv[b] >= Open(rows[b])
     /\ avail' = [b \in Balances |->
          IF b \in active THEN have[b] + Open(rows[b]) - gone[b] ELSE have[b]]
     /\ resv' = [b \in Balances |->
          IF b \in active THEN resv[b] - Open(rows[b]) ELSE resv[b]]
     /\ alloc' = [alloc EXCEPT ![o] =
          [b \in Balances |-> IF b \in active THEN NoRow ELSE rows[b]]]
     /\ ord' = [ord EXCEPT ![o] = to]
     /\ short' = [short EXCEPT ![o] = {}]
     /\ lost' = [lost EXCEPT ![o] = @ \cup short[o] \cup
          {rows[b].res : b \in {c \in active : gone[c] > 0}}]
     /\ IF task[o].st = "none"
        THEN UNCHANGED <<taskVars, waveVars>>
        ELSE /\ planned >= picked
             /\ task' = tk
             /\ tPlanned' = [tPlanned EXCEPT ![o] = 0]
             /\ tPicked' = [tPicked EXCEPT ![o] = 0]
             /\ past' = [past EXCEPT ![o] = @ \cup {w}]
             /\ wave' = [wave EXCEPT ![w].st =
                           WaveAfterRelease(w, tk, planned, picked)]
             /\ wPlanned' = [wPlanned EXCEPT ![w] = planned]
             /\ wPicked' = [wPicked EXCEPT ![w] = picked]
             /\ CartIndexHolds(wave')
     /\ UNCHANGED qty

NothingGone == [b \in Balances |-> 0]

\* release_non_first_tier_reservations, one order of its loop.
ReturnUpperTier(o) ==
  /\ ord[o] \in {"reserved", "queued_for_pick"}
  /\ task[o].st \notin {"in_progress", "picked", "exception"}
  /\ \E b \in UpperTier : alloc[o][b].st = "reserved"
  /\ ReleaseReservation(o, "awaiting_stock", NothingGone, avail)
  /\ UNCHANGED <<mkt, lock, label>>

\* Mutants of CanRelease: any order being picked; none that is in a wave.
CanReleaseStarted(o) == ord[o] \in {"reserved", "queued_for_pick", "picking"}
CanReleaseUnqueued(o) ==
  \/ ord[o] = "reserved"
  \/ ord[o] = "picking" /\ \A b \in Balances : alloc[o][b].picked = 0

\* reservation_can_be_released of _apply_imported_order_stock_state.
CanRelease(o) ==
  \/ ord[o] \in {"reserved", "queued_for_pick"}
  \/ ord[o] = "picking" /\ \A b \in Balances : alloc[o][b].picked = 0

\* _ingest_order and _ingest_status followed by
\* _apply_imported_order_stock_state: an order import reserves, a status that
\* forbids a new wave gives the stock back unless goods were already taken, and
\* "confirm" leaves an order alone that is already in a wave.
ImportOrder(o, s) ==
  /\ ord[o] = "absent" \/ (s # mkt[o] /\ mkt[o] # "cancelled")
  /\ mkt' = [mkt EXCEPT ![o] = s]
  /\ UNCHANGED label
  /\ \/ /\ s = "open"
        /\ ord[o] \in {"absent", "received", "awaiting_stock", "reserved"}
        /\ ReserveStock(o)
        /\ UNCHANGED <<taskVars, issueVars, waveVars>>
     \/ /\ s # "open"
        /\ CanRelease(o)
        /\ ~(s = "confirm" /\ task[o].st \in {"queued", "in_progress"})
        /\ ReleaseReservation(o,
             IF s = "cancelled" THEN "cancelled" ELSE "awaiting_stock",
             NothingGone, avail)
        /\ UNCHANGED lock
     \/ /\ s # "open"
        /\ ord[o] \in {"absent", "received", "awaiting_stock"}
        /\ ord' = [ord EXCEPT ![o] =
             IF s = "cancelled" THEN "cancelled"
             ELSE IF @ = "absent" THEN "received" ELSE @]
        /\ UNCHANGED <<stockVars, lock, alloc, taskVars, issueVars, waveVars>>
     \/ /\ \/ s = "open" /\ ord[o] \notin {"absent", "received",
                                           "awaiting_stock", "reserved"}
           \/ /\ s # "open"
              /\ ord[o] \notin {"absent", "received", "awaiting_stock"}
              /\ \/ ~CanRelease(o)
                 \/ s = "confirm" /\ task[o].st \in {"queued", "in_progress"}
        /\ UNCHANGED <<ord, stockVars, lock, alloc, taskVars, issueVars,
                       waveVars>>

-----------------------------------------------------------------------------
\* Waves before they are picked.

\* _pick_batch_is_untouched with _locked_unstarted_batch_tasks: nobody has
\* started, and every task is queued or canceled.
Untouched(w) ==
  /\ wave[w] = [NoBatch EXCEPT !.st = "queued"]
  /\ wPicked[w] = 0
  /\ \A o \in TasksOf(task, w) : task[o].st = "queued"

\* create_pick_batches and _attach_orders_to_pick_batch for one wave: reserved
\* orders without a task enter a new wave or an untouched queued one.  The
\* unique index uniq_fbs_pick_task_batch_order keeps a wave from taking an
\* order whose canceled task it still holds.
AttachOrders(w, os) ==
  /\ \/ wave[w].st = "none" /\ \A v \in Waves : v < w => wave[v].st # "none"
     \/ Untouched(w)
  /\ \A o \in os :
       /\ ord[o] = "reserved" /\ mkt[o] = "open"
       /\ task[o].st = "none"
       /\ \E b \in Balances : alloc[o][b].st = "reserved"
       /\ w \notin past[o]
  /\ LET tk == [o \in Orders |->
                  IF o \in os
                  THEN [st |-> "queued", wave |-> w, picker |-> None]
                  ELSE task[o]]
         planned == [o \in Orders |->
                       IF o \in os THEN SumOf(Reserved, alloc[o])
                       ELSE tPlanned[o]]
     IN /\ task' = tk
        /\ tPlanned' = planned
        /\ wPlanned' = [wPlanned EXCEPT ![w] = PlannedOf(tk, planned, w)]
  /\ ord' = [o \in Orders |-> IF o \in os THEN "queued_for_pick" ELSE ord[o]]
  /\ wave' = [wave EXCEPT ![w].st = "queued"]
  /\ UNCHANGED <<mkt, stockVars, lock, alloc, tPicked, past, issueVars,
                 wPicked, label>>

\* Tasks of the waves ws move to the waves `to` gives them; waves left without
\* a task are canceled.
Repack(ws, to) ==
  LET moved == UNION {TasksOf(task, w) : w \in ws}
      tk == [o \in Orders |->
               IF o \in moved THEN [task[o] EXCEPT !.wave = to[o]] ELSE task[o]]
      kept == {to[o] : o \in moved}
  IN /\ \A o \in moved : to[o] # task[o].wave => to[o] \notin past[o]
     /\ task' = tk
     /\ wave' = [w \in Waves |->
          IF w \in ws \ kept THEN [wave[w] EXCEPT !.st = "canceled"]
          ELSE wave[w]]
     /\ wPlanned' = [w \in Waves |->
          IF w \in ws THEN PlannedOf(tk, tPlanned, w) ELSE wPlanned[w]]
     /\ UNCHANGED <<ord, mkt, stockVars, lock, alloc, tPlanned, tPicked, past,
                    issueVars, wPicked, label>>

\* merge_queued_pick_batches: the other waves empty into the primary one.
MergeWaves(primary, others) ==
  /\ primary \notin others /\ others # {}
  /\ \A w \in others \cup {primary} : Untouched(w)
  /\ Repack(others \cup {primary}, [o \in Orders |-> primary])

\* regroup_queued_pick_batches: every task of two or more untouched waves is
\* dealt out again over the oldest of them; a task whose rows do not add up to
\* its plan stops the operation.
RegroupWaves ==
  LET eligible == {w \in Waves : Untouched(w)}
      moved == UNION {TasksOf(task, w) : w \in eligible}
  IN /\ Cardinality(eligible) >= 2
     /\ moved # {}
     /\ \A o \in moved : SumOf(Reserved, alloc[o]) = tPlanned[o]
     /\ \E to \in [Orders -> eligible] :
          /\ \A o \in moved, w \in eligible :
               w < to[o] => \E p \in moved : to[p] = w
          /\ \A o \in Orders \ moved :
               to[o] = CHOOSE w \in eligible : \A v \in eligible : w <= v
          /\ Repack(eligible, to)

-----------------------------------------------------------------------------
\* Claiming a wave.

\* The waves that keep a picker from another one: started, not handed over.
HoldsWave(p, w) == wave[w].picker = p /\ IsLive(wave[w]) /\ ~wave[w].handed

\* _claim_locked_pick_batch for a free wave and a free tote.
ClaimWave(p, c, w) ==
  LET os == TasksOf(task, w)
  IN /\ wave[w].st = "queued" /\ wave[w].picker = None
     /\ \A v \in Waves : ~(wave[v].cart = c /\ IsLive(wave[v]))
     /\ \A v \in Waves : ~HoldsWave(p, v)
     /\ os # {} /\ \A o \in os : task[o].st = "queued"
     /\ wave' = [wave EXCEPT ![w].st = "in_progress", ![w].picker = p,
                             ![w].cart = c]
     /\ wPlanned' = [wPlanned EXCEPT ![w] = PlannedOf(task, tPlanned, w)]
     /\ task' = [o \in Orders |->
          IF o \in os
          THEN [task[o] EXCEPT !.st = "in_progress", !.picker = p]
          ELSE task[o]]
     /\ alloc' = [o \in Orders |-> [b \in Balances |->
          IF o \in os /\ alloc[o][b].st = "reserved"
          THEN [alloc[o][b] EXCEPT !.st = "picking"]
          ELSE alloc[o][b]]]
     /\ ord' = [o \in Orders |-> IF o \in os THEN "picking" ELSE ord[o]]
     /\ UNCHANGED <<mkt, stockVars, lock, tPlanned, tPicked, past, issueVars,
                    wPicked, label>>

\* _take_over_locked_pick_batch: the picker who scans the tote of an
\* unfinished wave gets the wave and its open tasks.
TakeOverWave(p, c, w) ==
  LET os == ActiveTasks(task, w)
  IN /\ wave[w].st = "in_progress" /\ ~wave[w].handed
     /\ wave[w].cart = c /\ wave[w].picker # p
     /\ \A v \in Waves \ {w} : ~HoldsWave(p, v)
     /\ os # {}
     /\ wave' = [wave EXCEPT ![w].picker = p]
     /\ task' = [o \in Orders |->
          IF o \in os THEN [task[o] EXCEPT !.picker = p] ELSE task[o]]
     /\ UNCHANGED <<ord, mkt, stockVars, lock, alloc, tPlanned, tPicked, past,
                    issueVars, wPlanned, wPicked, label>>

-----------------------------------------------------------------------------
\* Picking.

\* _finalize_pick_task_progress: `rows` are the order's rows after the step,
\* `dPicked` units were picked and `dPlanned` left the plan.
Progress(o, rows, dPicked, dPlanned) ==
  LET w == task[o].wave
      finished == ActiveAt(rows) = {}
      tk == IF finished THEN [task EXCEPT ![o].st = "picked"] ELSE task
      planned == wPlanned[w] - dPlanned
      picked == wPicked[w] + dPicked
  IN /\ tPlanned[o] - dPlanned > 0
     /\ tPlanned[o] - dPlanned >= tPicked[o] + dPicked
     /\ planned >= picked
     /\ alloc' = [alloc EXCEPT ![o] = rows]
     /\ task' = tk
     /\ tPlanned' = [tPlanned EXCEPT ![o] = @ - dPlanned]
     /\ tPicked' = [tPicked EXCEPT ![o] = @ + dPicked]
     /\ ord' = IF finished THEN [ord EXCEPT ![o] = "picked"] ELSE ord
     /\ wPlanned' = [wPlanned EXCEPT ![w] = planned]
     /\ wPicked' = [wPicked EXCEPT ![w] = picked]
     /\ wave' = [wave EXCEPT ![w].st =
          IF ActiveTasks(tk, w) = {} /\ picked = planned
          THEN "verification" ELSE @]
     /\ CartIndexHolds(wave')
     /\ UNCHANGED <<mkt, past, label>>

\* _assert_task_actor
IsTaskActor(p, o) == task[o].picker = p /\ task[o].st = "in_progress"

\* Mutant of UnlockedForPicking: it takes the flag that keeps reservations off.
UnlockedForReservation(b) == lock[b] # "draining"

\* assert_balance_unlocked(for_execution=True), read without a lock by a pick
\* that holds its balance: "activating" is not committed yet, and "overtaken"
\* was not when one pick read it (which row that pick is of is left open).
UnlockedForPicking(b) == lock[b] # "counting"

\* Mutants of TakeUnit: only one of the two quantities is written.
TakeUnitKeepsResv(b) == qty' = [qty EXCEPT ![b] = @ - 1] /\ UNCHANGED resv
TakeUnitKeepsQty(b) == resv' = [resv EXCEPT ![b] = @ - 1] /\ UNCHANGED qty

\* A picked unit leaves the balance and its reservation.
TakeUnit(b) ==
  /\ qty' = [qty EXCEPT ![b] = @ - 1]
  /\ resv' = [resv EXCEPT ![b] = @ - 1]

\* _complete_pick_allocation_once: one unit goes from the balance to the tote.
\* The balance is locked from the look at the inventory to the commit, so an
\* inventory overtakes one pick at most.
PickUnit(p, o, b) ==
  LET row == alloc[o][b]
  IN /\ IsTaskActor(p, o)
     /\ row.st = "picking" /\ Open(row) > 0
     /\ UnlockedForPicking(b)
     /\ qty[b] >= 1 /\ resv[b] >= 1
     /\ TakeUnit(b)
     /\ Progress(o,
          [alloc[o] EXCEPT ![b] =
             [row EXCEPT !.picked = @ + 1,
                         !.st = IF Open(row) = 1 THEN "picked" ELSE "picking"]],
          1, 0)
     /\ lock' = [lock EXCEPT ![b] = IF @ = "overtaken" THEN "counting" ELSE @]
     /\ UNCHANGED <<avail, issueVars>>

\* handover_pick_batch_for_verification; which desk takes the tote is left open.
HandOver(p, w) ==
  /\ wave[w].picker = p
  /\ wave[w].st = "verification" /\ ~wave[w].handed
  /\ \A o \in TasksOf(task, w) : task[o].st = "picked"
  /\ wPicked[w] = wPlanned[w]
  /\ wave' = [wave EXCEPT ![w].handed = TRUE]
  /\ UNCHANGED <<ord, mkt, stockVars, lock, alloc, taskVars, issueVars,
                 wPlanned, wPicked, label>>

-----------------------------------------------------------------------------
\* Problem reports of a picker.

\* Mutant of LostUnits: the row is released with what it picked.
LostUnitsAndPicked(row, n) == NoRow

\* A row that lost n of its open units (release_pick_allocation_shortage).
LostUnits(row, n) ==
  IF row.res = n THEN NoRow
  ELSE [row EXCEPT !.res = @ - n,
                   !.st = IF row.res - n = row.picked THEN "picked" ELSE @]

\* enqueue_shortage_inventory: an open session over the box is reused.
QueueRecount(b) ==
  lock' = [lock EXCEPT ![b] = IF @ = "none" THEN "draining" ELSE @]

\* _quarantine_pick_source_availability
Quarantined(b) == [avail EXCEPT ![b] = 0]

\* report_pick_exception with TYPE_NOT_FOUND: the balance is closed to sale;
\* an untouched order gives up its whole reservation, one with picked goods
\* only the missing row.
ReportNotFound(p, o, b) ==
  LET row == alloc[o][b]
      untouched == /\ tPicked[o] = 0
                   /\ \A c \in Balances : alloc[o][c].st # "picked"
  IN /\ IsTaskActor(p, o)
     /\ IsActive(row)
     /\ IF untouched
        THEN ReleaseReservation(o, "awaiting_stock",
               [NothingGone EXCEPT ![b] = Open(row)], Quarantined(b))
        ELSE /\ Open(row) > 0 /\ resv[b] >= Open(row)
             /\ avail' = Quarantined(b)
             /\ resv' = [resv EXCEPT ![b] = @ - Open(row)]
             /\ short' = [short EXCEPT ![o] = @ \cup {Open(row)}]
             /\ Progress(o, [alloc[o] EXCEPT ![b] = LostUnits(row, Open(row))],
                         0, Open(row))
             /\ UNCHANGED <<qty, lost>>
     /\ QueueRecount(b)
     /\ UNCHANGED <<mkt, label>>

\* report_pick_exception with any other type.
ReportOther(p, o) ==
  /\ IsTaskActor(p, o)
  /\ task' = [task EXCEPT ![o].st = "exception"]
  /\ ord' = [ord EXCEPT ![o] = "exception"]
  /\ UNCHANGED <<mkt, stockVars, lock, alloc, tPlanned, tPicked, past,
                 issueVars, waveVars, label>>

\* retry_pick_exception: the task goes on whatever became of its wave.  An
\* issue of a controller, whose rows are canceled, is refused.
RetryException(o) ==
  /\ task[o].st = "exception"
  /\ ~ /\ wave[task[o].wave].handed
       /\ \E b \in Balances : alloc[o][b].st = "canceled"
  /\ task' = [task EXCEPT ![o].st = "in_progress"]
  /\ ord' = [ord EXCEPT ![o] = "picking"]
  /\ UNCHANGED <<mkt, stockVars, lock, alloc, tPlanned, tPicked, past,
                 issueVars, waveVars, label>>

\* The rows of one product, place and wave that _pick_missing_group_queryset
\* offers the picker.
MissingGroup(p, o, b) ==
  {c \in TasksOf(task, task[o].wave) :
     IsTaskActor(p, c) /\ IsActive(alloc[c][b])}

\* How a reported quantity m is split over the group: o first, then the others
\* one after the other (the order of their sort numbers is left open).
Splits(o, b, group, m) ==
  LET open(c) == Open(alloc[c][b])
      partial(miss, c) == 0 < miss[c] /\ miss[c] < open(c)
  IN { miss \in [group -> 0 .. m] :
         /\ SumFunction(miss) = m
         /\ \A c \in group : miss[c] <= open(c)
         /\ \A c \in group \ {o} : miss[c] > 0 => miss[o] = open(o)
         /\ \A c, d \in group :
              partial(miss, c) /\ partial(miss, d) => c = d }

\* The orders of the group that lose everything they were to get.
LostWhole(group, miss) ==
  {c \in group : /\ miss[c] > 0 /\ miss[c] >= tPlanned[c] /\ tPicked[c] = 0
                 /\ \A x \in Balances : alloc[c][x].st # "picked"}

\* The orders `whole` give up the reservation, those of `part` only their
\* missing units of balance b.
RowsAfterLoss(b, miss, whole, part) ==
  [c \in Orders |->
     IF c \in whole
     THEN [x \in Balances |->
             IF IsActive(alloc[c][x]) THEN NoRow ELSE alloc[c][x]]
     ELSE IF c \in part
     THEN [alloc[c] EXCEPT ![b] = LostUnits(@, miss[c])]
     ELSE alloc[c]]

\* What becomes of the orders and of their wave w.
DropMissing(w, b, miss, whole, part) ==
  LET rows == RowsAfterLoss(b, miss, whole, part)
      finished == {c \in part : ActiveAt(rows[c]) = {}}
      tk == [c \in Orders |->
               IF c \in whole THEN NoTask
               ELSE IF c \in finished THEN [task[c] EXCEPT !.st = "picked"]
               ELSE task[c]]
      plan == [c \in Orders |->
                 IF c \in whole THEN 0
                 ELSE IF c \in part THEN tPlanned[c] - miss[c]
                 ELSE tPlanned[c]]
      planned == IF whole = {} THEN wPlanned[w] - SumFunction(miss)
                 ELSE PlannedOf(tk, plan, w)
  IN /\ \A c \in part : plan[c] > 0 /\ plan[c] >= tPicked[c]
     /\ planned >= wPicked[w]
     /\ alloc' = rows
     /\ task' = tk
     /\ tPlanned' = plan
     /\ past' = [c \in Orders |->
                   IF c \in whole THEN past[c] \cup {w} ELSE past[c]]
     /\ short' = [c \in Orders |->
                    IF c \in whole THEN {}
                    ELSE IF c \in part THEN short[c] \cup {miss[c]}
                    ELSE short[c]]
     /\ lost' = [c \in Orders |->
                   IF c \in whole
                   THEN lost[c] \cup short[c] \cup {alloc[c][b].res}
                   ELSE lost[c]]
     /\ ord' = [c \in Orders |->
                  IF c \in whole THEN "awaiting_stock"
                  ELSE IF c \in finished THEN "picked" ELSE ord[c]]
     /\ wPlanned' = [wPlanned EXCEPT ![w] = planned]
     /\ wave' = [wave EXCEPT ![w].st =
                   IF whole # {}
                   THEN WaveAfterRelease(w, tk, planned, wPicked[w])
                   ELSE IF ActiveTasks(tk, w) = {} /\ wPicked[w] = planned
                   THEN "verification" ELSE @]
     /\ CartIndexHolds(wave')

\* report_pick_missing_quantity: m units are missing at b; the balance is
\* closed to sale when the whole group is missing.
ReportMissing(p, o, b, m) ==
  LET w == task[o].wave
      group == MissingGroup(p, o, b)
      open == [c \in group |-> Open(alloc[c][b])]
  IN /\ IsTaskActor(p, o) /\ wave[w].st = "in_progress" /\ o \in group
     /\ 0 < m /\ m <= SumFunction(open) /\ resv[b] >= m
     /\ \E miss \in Splits(o, b, group, m) :
          LET whole == LostWhole(group, miss)
          IN DropMissing(w, b, miss, whole, {c \in group : miss[c] > 0} \ whole)
     /\ avail' = IF m = SumFunction(open) THEN Quarantined(b) ELSE avail
     /\ resv' = [resv EXCEPT ![b] = @ - m]
     /\ QueueRecount(b)
     /\ UNCHANGED <<mkt, qty, tPicked, wPicked, label>>

-----------------------------------------------------------------------------
\* Inventories.

\* activate_drained_inventory up to _active_scope_operations: no task in
\* progress needs the balance.  The tasks are read without a lock.
CheckDrained(b) ==
  /\ lock[b] = "draining"
  /\ \A o \in Orders :
       ~(IsActive(alloc[o][b]) /\ task[o].st = "in_progress")
  /\ lock' = [lock EXCEPT ![b] = "activating"]
  /\ UNCHANGED <<ord, mkt, stockVars, alloc, taskVars, issueVars, waveVars,
                 label>>

\* A pick of the balance may have looked for an inventory and not committed.
PickUnderWay(b) ==
  \E o \in Orders : /\ task[o].st = "in_progress"
                    /\ alloc[o][b].st = "picking" /\ Open(alloc[o][b]) > 0

\* The rest of activate_drained_inventory: counting starts and closes the
\* balance to picking, for a pick under way too late.
StartCounting(b) ==
  /\ lock[b] = "activating"
  /\ \/ lock' = [lock EXCEPT ![b] = "counting"]
     \/ PickUnderWay(b) /\ lock' = [lock EXCEPT ![b] = "overtaken"]
  /\ UNCHANGED <<ord, mkt, stockVars, alloc, taskVars, issueVars, waveVars,
                 label>>

CountSteps(b) == CheckDrained(b) \/ StartCounting(b)

-----------------------------------------------------------------------------
StockSteps ==
  \/ \E o \in Orders :
       RetryReservation(o) \/ ReturnUpperTier(o) \/ RetryException(o)
  \/ \E o \in Orders, s \in Statuses : ImportOrder(o, s)
  \/ \E b \in Balances : CountSteps(b)

WaveSteps ==
  \/ \E w \in Waves, os \in (SUBSET Orders) \ {{}} : AttachOrders(w, os)
  \/ \E w \in Waves, ws \in SUBSET Waves : MergeWaves(w, ws)
  \/ RegroupWaves
  \/ \E p \in Pickers, c \in Carts, w \in Waves :
       ClaimWave(p, c, w) \/ TakeOverWave(p, c, w)

PickSteps ==
  \/ \E p \in Pickers, o \in Orders, b \in Balances :
       PickUnit(p, o, b) \/ ReportNotFound(p, o, b)
  \/ \E p \in Pickers, o \in Orders : ReportOther(p, o)
  \/ \E p \in Pickers, o \in Orders, b \in Balances :
       \E m \in 1 .. resv[b] : ReportMissing(p, o, b, m)
  \/ \E p \in Pickers, w \in Waves : HandOver(p, w)

PickingNext == StockSteps \/ WaveSteps \/ PickSteps

PickingSpec == Init /\ [][PickingNext]_vars

-----------------------------------------------------------------------------
(***************************************************************************)
(* Properties.                                                             *)
(***************************************************************************)

\* The tables hold what their columns allow.
TypeOK ==
  /\ ord \in [Orders -> OrderStatuses]
  /\ mkt \in [Orders -> MarketStatuses]
  /\ qty \in [Balances -> Nat]
  /\ avail \in [Balances -> Nat]
  /\ resv \in [Balances -> Nat]
  /\ lock \in [Balances -> LockStates]
  /\ alloc \in [Orders -> [Balances -> Rows]]
  /\ task \in [Orders -> Tasks]
  /\ past \in [Orders -> SUBSET Waves]
  /\ short \in [Orders -> SUBSET Nat]
  /\ lost \in [Orders -> SUBSET Nat]
  /\ wave \in [Waves -> Batches]
  /\ label \in [Orders -> LabelStatuses]

\* A balance never promises more than it physically has: what is on sale and
\* what is reserved fit into its quantity, whatever reservations, picks,
\* releases and quarantines are interleaved (the database constraint
\* fbs_stock_qty_covers_available_reserved would fail the transaction).
BalanceSound ==
  \A b \in Balances : avail[b] + resv[b] <= qty[b]

\* No goods appear or vanish between the books: a balance's reservation is
\* what the live allocation rows still have to pick from it, and the units
\* missing from its quantity are the units the rows picked.
LedgersAgree ==
  \A b \in Balances :
    /\ resv[b] = SumFunction([o \in Orders |->
                    IF IsActive(alloc[o][b]) THEN Open(alloc[o][b]) ELSE 0])
    /\ qty[b] + SumFunction([o \in Orders |-> alloc[o][b].picked]) = Stock[b]

\* The counters that decide when a wave may be handed over are the sums of the
\* rows below them, though tasks move between waves, leave them and shrink.
CountersAgree ==
  /\ \A w \in Waves :
       /\ wPlanned[w] = SumFunctionOnSet(tPlanned, TasksOf(task, w))
       /\ wPicked[w] = SumFunctionOnSet(tPicked, TasksOf(task, w))
  /\ \A o \in Orders : task[o].st # "none" =>
       /\ tPlanned[o] = SumOf(Reserved, alloc[o])
       /\ tPicked[o] = SumOf(Picked, alloc[o])

\* An order's status, its task and its rows tell one story: in particular an
\* order that is not in a wave keeps no row but a full reservation, and an
\* order counts as picked exactly when no row of its task is open.
StatusesAgree ==
  \A o \in Orders :
    /\ task[o].st = CASE ord[o] = "queued_for_pick" -> "queued"
                      [] ord[o] = "picking" -> "in_progress"
                      [] ord[o] \in {"picked", "ready_for_handover"} -> "picked"
                      [] ord[o] = "exception" -> "exception"
                      [] OTHER -> "none"
    /\ ord[o] \in {"reserved", "queued_for_pick"} =>
         /\ \A b \in Balances : alloc[o][b].st \in {"none", "reserved"}
         /\ SumOf(Reserved, alloc[o]) = Need[o]
    /\ task[o].st = "in_progress" <=> \E b \in Balances :
         alloc[o][b].st = "picking" /\ task[o].st # "exception"
    /\ ord[o] \in {"absent", "received", "awaiting_stock", "cancelled"} =>
         alloc[o] = [b \in Balances |-> NoRow]

\* A wave in progress still has a task somebody can finish or must decide
\* about: it never sits with a tote and a picker, everything picked, unable to
\* be handed over, and a queued wave is never empty.
WaveNeverStalls ==
  \A w \in Waves :
    /\ wave[w].st = "in_progress" =>
         \E o \in TasksOf(task, w) : task[o].st \in {"in_progress", "exception"}
    /\ wave[w].st = "queued" =>
         \E o \in TasksOf(task, w) : task[o].st = "queued"

\* An order the marketplace puts on hold or cancels lets go of the shelf: when
\* the report comes it gives up every row, unless goods of it are in a tote or
\* its task waits as an exception, and while it is blocked no step, of anybody,
\* gives it more of any balance.  (The exception keeps its rows, and its retry
\* goes on picking them: retry_pick_exception does not look at the market.)
BlockedOrderLetsGo ==
  [][\A o \in Orders : mkt'[o] \in {"hold", "cancelled"} =>
       /\ \A b \in Balances : Left(alloc'[o][b]) <= Left(alloc[o][b])
       /\ mkt'[o] # mkt[o] =>
            \/ ActiveAt(alloc'[o]) = {}
            \/ ord[o] = "exception"
            \/ \E b \in Balances : alloc[o][b].picked > 0]_vars

\* Every step moves units the way FbsStockLedger allows: orders are served in
\* full, goods in the tote stay the order's, and what was once closed or lost
\* comes back to sale on no path of reports, releases and imports.
Ledger == INSTANCE FbsStockLedger
            WITH onSale <- avail,
                 kept <- [o \in Orders |-> [b \in Balances |->
                            IF IsActive(alloc[o][b]) THEN Open(alloc[o][b]) ELSE 0]],
                 taken <- [o \in Orders |-> [b \in Balances |-> alloc[o][b].picked]],
                 closed <- [b \in Balances |-> qty[b] - avail[b] - resv[b]]
StockLedger == Ledger!Spec

\* A count misses one unit at most: once it has begun, waves that need the
\* balance may be claimed, but only the pick it overtook still takes a unit,
\* and after that pick the quantity stands still until the count ends.
CountMissesOneUnit ==
  [][\A b \in Balances :
       /\ lock[b] = "counting" =>
            qty'[b] = qty[b] /\ lock'[b] \in {"counting", "none"}
       /\ lock[b] = "overtaken" =>
            \/ qty'[b] = qty[b]
            \/ qty'[b] = qty[b] - 1 /\ lock'[b] = "counting"]_vars

-----------------------------------------------------------------------------
(***************************************************************************)
(* What the code's texts promise and its behaviour does not keep: each is  *)
(* checked by a run that finds the counterexample.                         *)
(***************************************************************************)

\* "Тара уже используется в другой незавершённой волне": a tote carries one
\* unfinished wave at a time.
OneWavePerCart ==
  \A v, w \in Waves :
    v # w /\ IsLive(wave[v]) /\ IsLive(wave[w]) => wave[v].cart # wave[w].cart

\* "Keep reported source stock unavailable until a warehouse recount.": while
\* the recount of a reported balance is open, none of it goes on sale.
ReportedStockStaysClosed ==
  [][\A b \in Balances :
       lock[b] # "none" /\ lock'[b] = lock[b] => avail'[b] <= avail[b]]_vars
=============================================================================
