-------------------------- MODULE FbsFulfilmentProofs --------------------------
(***************************************************************************)
(* Proofs about FbsVerification (and so about FbsPicking, whose steps are  *)
(* part of its next-state relation), for any number of orders, balances,   *)
(* waves and employees.                                                    *)
(***************************************************************************)
EXTENDS FbsVerification, TLAPS

-----------------------------------------------------------------------------
(***************************************************************************)
(* Types.  Reservation, release, repacking and progress are shared by      *)
(* several actions, so each has a lemma.                                   *)
(***************************************************************************)

\* Changing the status of a task (the writes of FbsPickTask.status).
LEMMA TaskStatusTyped ==
  ASSUME NEW t \in Tasks, t.st # "none", NEW s \in TaskStatuses \ {"none"}
  PROVE  [t EXCEPT !.st = s] \in Tasks
<1>1. t \in [st : TaskStatuses \ {"none"}, wave : Waves,
             picker : Pickers \cup {None}]
  BY DEF Tasks, NoTask
<1>. QED  BY <1>1 DEF Tasks

\* Changing the status of a wave (the writes of FbsPickBatch.status).
LEMMA WaveStatusTyped ==
  ASSUME NEW batch \in Batches, NEW s \in WaveStatuses
  PROVE  [batch EXCEPT !.st = s] \in Batches
BY DEF Batches

\* A plan takes from every balance at most what it has on sale.
LEMMA PlanIsCapped ==
  ASSUME TypeOK, NEW o \in Orders, NEW candidates \in SUBSET Balances,
         NEW take \in Plans(o, candidates), NEW b \in Balances
  PROVE  take[b] \in Nat /\ take[b] <= avail[b]
<1>1. take \in [Balances -> 0 .. Need[o]]
      /\ take[b] <= IF b \in candidates THEN avail[b] ELSE 0
  BY DEF Plans
<1>2. Need[o] \in Nat /\ avail[b] \in Nat
  BY ConstantsAssumption DEF TypeOK
<1>. QED  BY <1>1, <1>2

\* reserve_order_stock keeps the types of what it writes.
LEMMA ReserveTyped ==
  ASSUME TypeOK, NEW o \in Orders, ReserveStock(o)
  PROVE  /\ ord' \in [Orders -> OrderStatuses]
         /\ qty' \in [Balances -> Nat]
         /\ avail' \in [Balances -> Nat]
         /\ resv' \in [Balances -> Nat]
         /\ lock' \in [Balances -> LockStates]
         /\ alloc' \in [Orders -> [Balances -> Rows]]
<1>. USE DEF TypeOK
<1>1. ASSUME NEW candidates \in SUBSET Balances,
             NEW take \in Plans(o, candidates), Hold(o, take)
      PROVE  /\ ord' \in [Orders -> OrderStatuses]
             /\ qty' \in [Balances -> Nat]
             /\ avail' \in [Balances -> Nat]
             /\ resv' \in [Balances -> Nat]
             /\ alloc' \in [Orders -> [Balances -> Rows]]
  <2>1. \A b \in Balances : take[b] \in Nat /\ take[b] <= avail[b]
    BY PlanIsCapped
  <2>2. ord' \in [Orders -> OrderStatuses] /\ qty' \in [Balances -> Nat]
    BY <1>1 DEF Hold, OrderStatuses
  <2>3. avail' \in [Balances -> Nat] /\ resv' \in [Balances -> Nat]
    BY <1>1, <2>1 DEF Hold
  <2>4. alloc' \in [Orders -> [Balances -> Rows]]
    BY <1>1, <2>1 DEF Hold, Rows, RowStatuses
  <2>. QED  BY <2>2, <2>3, <2>4
<1>. DEFINE free == {b \in Balances : lock[b] = "none"}
<1>2. CASE UNCHANGED <<ord, stockVars, lock, alloc>>
  BY <1>2 DEF stockVars
<1>3. CASE (\E take \in Plans(o, free) : Hold(o, take)) /\ UNCHANGED lock
  BY <1>1, <1>3
<1>. DEFINE freed == [b \in Balances |->
                        IF lock[b] # "none" /\ avail[b] > 0 THEN "none"
                        ELSE lock[b]]
<1>4. freed \in [Balances -> LockStates]
  BY DEF LockStates
<1>5. CASE lock' = freed /\ \E take \in Plans(o, Balances) : Hold(o, take)
  BY <1>1, <1>4, <1>5
<1>6. CASE /\ lock' = freed
           /\ ord' = [ord EXCEPT ![o] = "awaiting_stock"]
           /\ UNCHANGED <<stockVars, alloc>>
  BY <1>4, <1>6 DEF stockVars, OrderStatuses
<1>. QED  BY <1>2, <1>3, <1>5, <1>6 DEF ReserveStock

\* release_order_reservation, given quantities the callers may pass.
LEMMA ReleaseTyped ==
  ASSUME TypeOK, NEW o \in Orders, NEW to \in OrderStatuses,
         NEW gone \in [Balances -> Nat], NEW have \in [Balances -> Nat],
         ReleaseReservation(o, to, gone, have)
  PROVE  /\ ord' \in [Orders -> OrderStatuses]
         /\ qty' \in [Balances -> Nat]
         /\ avail' \in [Balances -> Nat]
         /\ resv' \in [Balances -> Nat]
         /\ alloc' \in [Orders -> [Balances -> Rows]]
         /\ task' \in [Orders -> Tasks]
         /\ past' \in [Orders -> SUBSET Waves]
         /\ short' \in [Orders -> SUBSET Nat]
         /\ lost' \in [Orders -> SUBSET Nat]
         /\ wave' \in [Waves -> Batches]
<1>. DEFINE rows == alloc[o]
            active == ActiveAt(rows)
            w == task[o].wave
<1>1. rows \in [Balances -> Rows] /\ active \subseteq Balances
  BY DEF TypeOK, ActiveAt
<1>2. \A b \in active : /\ Open(rows[b]) \in Int
                        /\ gone[b] <= Open(rows[b])
                        /\ resv[b] >= Open(rows[b])
                        /\ Open(rows[b]) = rows[b].res
  BY <1>1 DEF ReleaseReservation, Open, Rows
<1>3. ord' \in [Orders -> OrderStatuses] /\ qty' \in [Balances -> Nat]
  BY DEF TypeOK, ReleaseReservation
<1>4. avail' \in [Balances -> Nat] /\ resv' \in [Balances -> Nat]
  <2>1. avail' = [b \in Balances |->
          IF b \in active THEN have[b] + Open(rows[b]) - gone[b] ELSE have[b]]
    BY DEF ReleaseReservation
  <2>2. resv' = [b \in Balances |->
          IF b \in active THEN resv[b] - Open(rows[b]) ELSE resv[b]]
    BY DEF ReleaseReservation
  <2>3. resv \in [Balances -> Nat]
    BY DEF TypeOK
  <2>4. ASSUME NEW b \in active
        PROVE  /\ have[b] + Open(rows[b]) - gone[b] \in Nat
               /\ resv[b] - Open(rows[b]) \in Nat
    <3>1. b \in Balances
      BY <1>1
    <3>2. have[b] \in Nat /\ gone[b] \in Nat /\ resv[b] \in Nat
      BY <2>3, <3>1
    <3>. QED  BY <1>2, <3>2
  <2>. HIDE DEF rows, active
  <2>5. avail' \in [Balances -> Nat]
    BY <2>1, <2>4
  <2>6. resv' \in [Balances -> Nat]
    BY <2>2, <2>3, <2>4
  <2>. QED  BY <2>5, <2>6
<1>5. alloc' \in [Orders -> [Balances -> Rows]]
  BY <1>1 DEF TypeOK, ReleaseReservation, NoRow, Rows, RowStatuses
<1>6. short' \in [Orders -> SUBSET Nat] /\ lost' \in [Orders -> SUBSET Nat]
  <2>1. {rows[b].res : b \in {c \in active : gone[c] > 0}} \subseteq Nat
    BY <1>1 DEF Rows
  <2>. QED  BY <2>1 DEF TypeOK, ReleaseReservation
<1>7. /\ task' \in [Orders -> Tasks]
      /\ past' \in [Orders -> SUBSET Waves]
      /\ wave' \in [Waves -> Batches]
  <2>1. CASE task[o].st = "none"
    BY <2>1 DEF TypeOK, ReleaseReservation, taskVars, waveVars
  <2>2. CASE task[o].st # "none"
    <3>1. w \in Waves
      BY <2>2 DEF TypeOK, Tasks, NoTask
    <3>. DEFINE tk == [task EXCEPT ![o] = NoTask]
                planned == PlannedOf(tk, tPlanned, w)
                picked == Larger(0, wPicked[w] - tPicked[o])
                next == WaveAfterRelease(w, tk, planned, picked)
    <3>2. /\ task' = tk
          /\ past' = [past EXCEPT ![o] = @ \cup {w}]
          /\ wave' = [wave EXCEPT ![w].st = next]
      BY <2>2 DEF ReleaseReservation
    <3>3. next \in WaveStatuses
      BY <3>1 DEF TypeOK, WaveAfterRelease, WaveStatuses, Batches
    <3>4. task' \in [Orders -> Tasks]
      BY <3>2 DEF TypeOK, Tasks
    <3>5. past' \in [Orders -> SUBSET Waves]
      BY <3>1, <3>2 DEF TypeOK
    <3>. HIDE DEF next
    <3>6. wave' \in [Waves -> Batches]
      <4>1. wave \in [Waves -> Batches]
        BY DEF TypeOK
      <4>2. [wave[w] EXCEPT !.st = next] \in Batches
        BY <3>1, <3>3, <4>1, WaveStatusTyped
      <4>. QED  BY <3>2, <4>1, <4>2
    <3>. QED  BY <3>4, <3>5, <3>6
  <2>. QED  BY <2>1, <2>2
<1>. QED  BY <1>3, <1>4, <1>5, <1>6, <1>7

\* _finalize_pick_task_progress.
LEMMA ProgressTyped ==
  ASSUME TypeOK, NEW o \in Orders, task[o].st # "none",
         NEW rows \in [Balances -> Rows], NEW dPicked, NEW dPlanned,
         Progress(o, rows, dPicked, dPlanned)
  PROVE  /\ ord' \in [Orders -> OrderStatuses]
         /\ alloc' \in [Orders -> [Balances -> Rows]]
         /\ task' \in [Orders -> Tasks]
         /\ wave' \in [Waves -> Batches]
         /\ UNCHANGED <<mkt, past, label>>
<1>. DEFINE w == task[o].wave
            tk == IF ActiveAt(rows) = {} THEN [task EXCEPT ![o].st = "picked"]
                  ELSE task
<1>1. w \in Waves /\ task[o] \in Tasks
  BY DEF TypeOK, Tasks, NoTask
<1>2. ord' \in [Orders -> OrderStatuses]
  BY DEF TypeOK, Progress, OrderStatuses
<1>3. alloc' \in [Orders -> [Balances -> Rows]]
  BY DEF TypeOK, Progress
<1>4. task' = tk
  BY DEF Progress
<1>5. task' \in [Orders -> Tasks]
  <2>1. [task[o] EXCEPT !.st = "picked"] \in Tasks
    BY <1>1, TaskStatusTyped DEF TaskStatuses
  <2>. QED  BY <1>4, <2>1 DEF TypeOK
<1>6. wave' \in [Waves -> Batches]
  <2>1. PICK s \in {"verification", wave[w].st} :
          wave' = [wave EXCEPT ![w].st = s]
    BY DEF Progress
  <2>2. wave \in [Waves -> Batches]
    BY DEF TypeOK
  <2>3. s \in WaveStatuses
    BY <1>1, <2>2 DEF Batches, WaveStatuses
  <2>4. [wave[w] EXCEPT !.st = s] \in Batches
    BY <1>1, <2>2, <2>3, WaveStatusTyped
  <2>. QED  BY <2>1, <2>2, <2>4
<1>7. UNCHANGED <<mkt, past, label>>
  BY DEF Progress
<1>. QED  BY <1>2, <1>3, <1>5, <1>6, <1>7

\* Moving tasks to waves of the operation.
LEMMA RepackTyped ==
  ASSUME TypeOK, NEW ws \in SUBSET Waves, NEW to \in [Orders -> ws],
         Repack(ws, to)
  PROVE  TypeOK'
<1>. DEFINE moved == UNION {TasksOf(task, w) : w \in ws}
<1>1. task' = [o \in Orders |-> IF o \in moved
                              THEN [task[o] EXCEPT !.wave = to[o]] ELSE task[o]]
  BY DEF Repack
<1>2. \A o \in moved : o \in Orders /\ task[o].st # "none"
  BY DEF TasksOf
<1>3. task' \in [Orders -> Tasks]
  <2>. HIDE DEF moved
  <2>. SUFFICES ASSUME NEW o \in Orders  PROVE task'[o] \in Tasks
    BY <1>1
  <2>1. CASE o \in moved
    <3>1. task[o] \in [st : TaskStatuses \ {"none"}, wave : Waves,
                       picker : Pickers \cup {None}]
      BY <1>2, <2>1 DEF TypeOK, Tasks, NoTask
    <3>2. to[o] \in Waves
      OBVIOUS
    <3>. QED  BY <1>1, <2>1, <3>1, <3>2 DEF Tasks
  <2>2. CASE o \notin moved
    BY <1>1, <2>2 DEF TypeOK
  <2>. QED  BY <2>1, <2>2
<1>4. wave' \in [Waves -> Batches]
  <2>1. \A w \in Waves :
          wave'[w] = wave[w] \/ wave'[w] = [wave[w] EXCEPT !.st = "canceled"]
    BY DEF Repack
  <2>2. wave' = [w \in Waves |-> wave'[w]]
    BY DEF Repack
  <2>3. \A w \in Waves : wave'[w] \in Batches
    BY <2>1, WaveStatusTyped DEF TypeOK, WaveStatuses
  <2>. QED  BY <2>2, <2>3
<1>5. UNCHANGED <<ord, mkt, stockVars, lock, alloc, past, issueVars, label>>
  BY DEF Repack
<1>. QED  BY <1>3, <1>4, <1>5 DEF TypeOK, stockVars, issueVars

\* A row after some of its open units were reported missing.
LEMMA LostUnitsTyped ==
  ASSUME NEW row \in Rows, NEW n \in Nat, n <= Open(row)
  PROVE  LostUnits(row, n) \in Rows
<1>1. CASE row.res = n
  BY <1>1 DEF LostUnits, Rows, RowStatuses, NoRow
<1>2. CASE row.res # n
  <2>1. row.res - n \in Nat
    BY DEF Open, Rows
  <2>2. PICK s \in {"picked", row.st} :
          LostUnits(row, n) = [row EXCEPT !.res = row.res - n, !.st = s]
    BY <1>2 DEF LostUnits
  <2>. QED  BY <2>1, <2>2 DEF Rows, RowStatuses
<1>. QED  BY <1>1, <1>2

\* A row after one unit was picked or verified.
LEMMA RowProgressTyped ==
  ASSUME NEW row \in Rows, NEW s \in RowStatuses
  PROVE  /\ [row EXCEPT !.picked = @ + 1, !.st = s] \in Rows
         /\ [row EXCEPT !.ver = @ + 1] \in Rows
<1>1. row.picked + 1 \in Nat /\ row.ver + 1 \in Nat
  BY DEF Rows
<1>2. /\ [row EXCEPT !.picked = row.picked + 1, !.st = s] \in Rows
      /\ [row EXCEPT !.ver = row.ver + 1] \in Rows
  BY <1>1 DEF Rows
<1>. QED  BY <1>2

\* The empty warehouse of Init has the types of its tables.
LEMMA InitTyped == Init => TypeOK
BY ConstantsAssumption
DEF Init, TypeOK, OrderStatuses, MarketStatuses, LockStates, NoRow, Rows,
    RowStatuses, Tasks, NoTask, Batches, NoBatch, WaveStatuses, LabelStatuses

\* Reservation, release, import, retry of an exception and the start of a
\* recount keep the types.
LEMMA StockStepsTyped == TypeOK /\ StockSteps => TypeOK'
<1>. SUFFICES ASSUME TypeOK, StockSteps  PROVE TypeOK'
  OBVIOUS
<1>0. NothingGone \in [Balances -> Nat] /\ avail \in [Balances -> Nat]
  BY DEF TypeOK, NothingGone
<1>1. ASSUME NEW o \in Orders, RetryReservation(o)  PROVE TypeOK'
  BY <1>1, ReserveTyped
  DEF RetryReservation, TypeOK, taskVars, issueVars, waveVars
<1>2. ASSUME NEW o \in Orders, ReturnUpperTier(o)  PROVE TypeOK'
  BY <1>0, <1>2, ReleaseTyped DEF ReturnUpperTier, TypeOK, OrderStatuses
<1>3. ASSUME NEW o \in Orders, RetryException(o)  PROVE TypeOK'
  <2>1. [task[o] EXCEPT !.st = "in_progress"] \in Tasks
    BY <1>3, TaskStatusTyped DEF RetryException, TypeOK, TaskStatuses
  <2>. QED  BY <1>3, <2>1
    DEF RetryException, TypeOK, OrderStatuses, stockVars, issueVars, waveVars
<1>4. ASSUME NEW o \in Orders, NEW s \in Statuses, ImportOrder(o, s)
      PROVE  TypeOK'
  <2>1. mkt' \in [Orders -> MarketStatuses] /\ label' = label
    BY <1>4, ConstantsAssumption DEF ImportOrder, TypeOK
  <2>2. CASE ReserveStock(o) /\ UNCHANGED <<taskVars, issueVars, waveVars>>
    BY <2>1, <2>2, ReserveTyped DEF TypeOK, taskVars, issueVars, waveVars
  <2>3. CASE ReleaseReservation(o,
               IF s = "cancelled" THEN "cancelled" ELSE "awaiting_stock",
               NothingGone, avail) /\ UNCHANGED lock
    <3>1. (IF s = "cancelled" THEN "cancelled" ELSE "awaiting_stock")
            \in OrderStatuses
      BY DEF OrderStatuses
    <3>. QED  BY <1>0, <2>1, <2>3, <3>1, ReleaseTyped DEF TypeOK
  <2>4. CASE /\ ord' = [ord EXCEPT ![o] =
                  IF s = "cancelled" THEN "cancelled"
                  ELSE IF @ = "absent" THEN "received" ELSE @]
             /\ UNCHANGED <<stockVars, lock, alloc, taskVars, issueVars,
                            waveVars>>
    BY <2>1, <2>4
    DEF TypeOK, OrderStatuses, stockVars, taskVars, issueVars, waveVars
  <2>5. CASE UNCHANGED <<ord, stockVars, lock, alloc, taskVars, issueVars,
                         waveVars>>
    BY <2>1, <2>5 DEF TypeOK, stockVars, taskVars, issueVars, waveVars
  <2>. QED  BY <1>4, <2>2, <2>3, <2>4, <2>5 DEF ImportOrder
<1>5. ASSUME NEW b \in Balances, CountSteps(b)  PROVE TypeOK'
  BY <1>5
  DEF CountSteps, CheckDrained, StartCounting, TypeOK, LockStates, stockVars,
      taskVars, issueVars, waveVars
<1>. QED  BY <1>1, <1>2, <1>3, <1>4, <1>5 DEF StockSteps

\* Building, merging, regrouping, claiming and taking over a wave keep the
\* types.
LEMMA WaveStepsTyped == TypeOK /\ WaveSteps => TypeOK'
<1>. SUFFICES ASSUME TypeOK, WaveSteps  PROVE TypeOK'
  OBVIOUS
<1>1. ASSUME NEW w \in Waves, NEW os \in SUBSET Orders, AttachOrders(w, os)
      PROVE  TypeOK'
  <2>1. task' \in [Orders -> Tasks]
    <3>1. [st |-> "queued", wave |-> w, picker |-> None] \in Tasks
      BY DEF Tasks, TaskStatuses
    <3>2. task' = [o \in Orders |->
                     IF o \in os
                     THEN [st |-> "queued", wave |-> w, picker |-> None]
                     ELSE task[o]]
      BY <1>1 DEF AttachOrders
    <3>. QED  BY <3>1, <3>2 DEF TypeOK
  <2>2. ord' \in [Orders -> OrderStatuses]
    BY <1>1 DEF AttachOrders, TypeOK, OrderStatuses
  <2>3. wave' \in [Waves -> Batches]
    <3>1. [wave[w] EXCEPT !.st = "queued"] \in Batches
      BY WaveStatusTyped DEF TypeOK, WaveStatuses
    <3>2. wave' = [wave EXCEPT ![w].st = "queued"]
      BY <1>1 DEF AttachOrders
    <3>. QED  BY <3>1, <3>2 DEF TypeOK
  <2>. QED  BY <1>1, <2>1, <2>2, <2>3
    DEF AttachOrders, TypeOK, stockVars, issueVars
<1>2. ASSUME NEW w \in Waves, NEW ws \in SUBSET Waves, MergeWaves(w, ws)
      PROVE  TypeOK'
  <2>1. [o \in Orders |-> w] \in [Orders -> ws \cup {w}]
        /\ ws \cup {w} \in SUBSET Waves
    OBVIOUS
  <2>. QED  BY <1>2, <2>1, RepackTyped DEF MergeWaves
<1>3. CASE RegroupWaves
  <2>. DEFINE eligible == {w \in Waves : Untouched(w)}
  <2>1. PICK to \in [Orders -> eligible] : Repack(eligible, to)
    BY <1>3 DEF RegroupWaves
  <2>2. eligible \in SUBSET Waves
    OBVIOUS
  <2>. QED  BY <2>1, <2>2, RepackTyped
<1>4. ASSUME NEW p \in Pickers, NEW c \in Carts, NEW w \in Waves,
             ClaimWave(p, c, w)
      PROVE  TypeOK'
  <2>1. wave' \in [Waves -> Batches]
    <3>1. wave' = [wave EXCEPT ![w].st = "in_progress", ![w].picker = p,
                               ![w].cart = c]
      BY <1>4 DEF ClaimWave
    <3>2. [wave[w] EXCEPT !.st = "in_progress", !.picker = p, !.cart = c]
            \in Batches
      <4>1. wave[w] \in Batches
        BY DEF TypeOK
      <4>. QED  BY <4>1 DEF Batches, WaveStatuses
    <3>. QED  BY <3>1, <3>2 DEF TypeOK
  <2>2. task' \in [Orders -> Tasks]
    <3>1. ASSUME NEW o \in Orders, o \in TasksOf(task, w)
          PROVE  [task[o] EXCEPT !.st = "in_progress", !.picker = p] \in Tasks
      <4>1. task[o] \in [st : TaskStatuses \ {"none"}, wave : Waves,
                         picker : Pickers \cup {None}]
        BY <3>1 DEF TypeOK, Tasks, NoTask, TasksOf
      <4>. QED  BY <4>1 DEF Tasks, TaskStatuses
    <3>. QED  BY <1>4, <3>1 DEF ClaimWave, TypeOK
  <2>3. alloc' \in [Orders -> [Balances -> Rows]]
    <3>1. \A row \in Rows : [row EXCEPT !.st = "picking"] \in Rows
      BY DEF Rows, RowStatuses
    <3>. QED  BY <1>4, <3>1 DEF ClaimWave, TypeOK
  <2>4. ord' \in [Orders -> OrderStatuses]
    BY <1>4 DEF ClaimWave, TypeOK, OrderStatuses
  <2>. QED  BY <1>4, <2>1, <2>2, <2>3, <2>4
    DEF ClaimWave, TypeOK, stockVars, issueVars
<1>5. ASSUME NEW p \in Pickers, NEW c \in Carts, NEW w \in Waves,
             TakeOverWave(p, c, w)
      PROVE  TypeOK'
  <2>1. wave' \in [Waves -> Batches]
    <3>1. wave' = [wave EXCEPT ![w].picker = p]
      BY <1>5 DEF TakeOverWave
    <3>2. [wave[w] EXCEPT !.picker = p] \in Batches
      <4>1. wave[w] \in Batches
        BY DEF TypeOK
      <4>. QED  BY <4>1 DEF Batches
    <3>. QED  BY <3>1, <3>2 DEF TypeOK
  <2>2. task' \in [Orders -> Tasks]
    <3>1. ASSUME NEW o \in Orders, o \in ActiveTasks(task, w)
          PROVE  [task[o] EXCEPT !.picker = p] \in Tasks
      <4>1. task[o] \in [st : TaskStatuses \ {"none"}, wave : Waves,
                         picker : Pickers \cup {None}]
        BY <3>1 DEF TypeOK, Tasks, NoTask, ActiveTasks, TasksOf
      <4>. QED  BY <4>1 DEF Tasks
    <3>. QED  BY <1>5, <3>1 DEF TakeOverWave, TypeOK
  <2>. QED  BY <1>5, <2>1, <2>2 DEF TakeOverWave, TypeOK, stockVars, issueVars
<1>. QED  BY <1>1, <1>2, <1>3, <1>4, <1>5 DEF WaveSteps

\* report_pick_missing_quantity: what it writes about the orders of a group.
LEMMA DropMissingTyped ==
  ASSUME TypeOK, NEW w \in Waves, NEW b \in Balances,
         NEW group \in SUBSET Orders, NEW miss \in [group -> Nat],
         NEW whole \in SUBSET group, NEW part \in SUBSET group,
         \A c \in group : task[c].st # "none" /\ miss[c] <= Open(alloc[c][b]),
         DropMissing(w, b, miss, whole, part)
  PROVE  /\ ord' \in [Orders -> OrderStatuses]
         /\ alloc' \in [Orders -> [Balances -> Rows]]
         /\ task' \in [Orders -> Tasks]
         /\ past' \in [Orders -> SUBSET Waves]
         /\ short' \in [Orders -> SUBSET Nat]
         /\ lost' \in [Orders -> SUBSET Nat]
         /\ wave' \in [Waves -> Batches]
<1>. DEFINE rows == RowsAfterLoss(b, miss, whole, part)
            finished == {c \in part : ActiveAt(rows[c]) = {}}
            tk == [c \in Orders |->
                     IF c \in whole THEN NoTask
                     ELSE IF c \in finished THEN [task[c] EXCEPT !.st = "picked"]
                     ELSE task[c]]
<1>1. alloc' \in [Orders -> [Balances -> Rows]]
  <2>1. \A c \in part : LostUnits(alloc[c][b], miss[c]) \in Rows
    BY LostUnitsTyped DEF TypeOK
  <2>2. NoRow \in Rows
    BY DEF NoRow, Rows, RowStatuses
  <2>3. rows \in [Orders -> [Balances -> Rows]]
    BY <2>1, <2>2 DEF TypeOK, RowsAfterLoss
  <2>. QED  BY <2>3 DEF DropMissing
<1>2. task' \in [Orders -> Tasks]
  <2>1. \A c \in part : [task[c] EXCEPT !.st = "picked"] \in Tasks
    BY TaskStatusTyped DEF TypeOK, TaskStatuses
  <2>2. task' = tk
    BY DEF DropMissing
  <2>3. NoTask \in Tasks
    BY DEF Tasks
  <2>. HIDE DEF rows, finished
  <2>4. finished \subseteq part
    BY DEF finished
  <2>. QED  BY <2>1, <2>2, <2>3, <2>4 DEF TypeOK
<1>3. past' \in [Orders -> SUBSET Waves]
  BY DEF DropMissing, TypeOK
<1>4. short' \in [Orders -> SUBSET Nat]
  BY DEF DropMissing, TypeOK
<1>5. lost' \in [Orders -> SUBSET Nat]
  <2>1. \A c \in Orders : alloc[c][b].res \in Nat
    BY DEF TypeOK, Rows
  <2>2. lost' = [c \in Orders |->
                   IF c \in whole
                   THEN lost[c] \cup short[c] \cup {alloc[c][b].res}
                   ELSE lost[c]]
    BY DEF DropMissing
  <2>. QED  BY <2>1, <2>2 DEF TypeOK
<1>6. ord' \in [Orders -> OrderStatuses]
  BY DEF DropMissing, TypeOK, OrderStatuses
<1>7. wave' \in [Waves -> Batches]
  <2>1. \A planned : WaveAfterRelease(w, tk, planned, wPicked[w]) \in WaveStatuses
    BY DEF WaveAfterRelease, WaveStatuses, TypeOK, Batches
  <2>2. \E s \in WaveStatuses : wave' = [wave EXCEPT ![w].st = s]
    <3>1. wave[w].st \in WaveStatuses /\ "verification" \in WaveStatuses
      BY DEF TypeOK, Batches, WaveStatuses
    <3>. HIDE DEF tk
    <3>2. \E planned : wave' = [wave EXCEPT ![w].st =
            IF whole # {} THEN WaveAfterRelease(w, tk, planned, wPicked[w])
            ELSE IF ActiveTasks(tk, w) = {} /\ wPicked[w] = planned
            THEN "verification" ELSE @]
      BY DEF DropMissing, tk, finished, rows
    <3>. QED  BY <2>1, <3>1, <3>2
  <2>. QED  BY <2>2, WaveStatusTyped DEF TypeOK
<1>. QED  BY <1>1, <1>2, <1>3, <1>4, <1>5, <1>6, <1>7

\* report_pick_missing_quantity as a whole keeps the types.
LEMMA ReportMissingTyped ==
  ASSUME TypeOK, NEW p \in Pickers, NEW o \in Orders, NEW b \in Balances,
         NEW m \in Nat, ReportMissing(p, o, b, m)
  PROVE  TypeOK'
<1>. DEFINE w == task[o].wave
            group == MissingGroup(p, o, b)
<1>1. w \in Waves
  BY DEF ReportMissing, IsTaskActor, TypeOK, Tasks, NoTask
<1>2. /\ avail' \in [Balances -> Nat]
      /\ resv' \in [Balances -> Nat]
      /\ lock' \in [Balances -> LockStates]
  <2>1. /\ avail \in [Balances -> Nat] /\ resv \in [Balances -> Nat]
        /\ lock \in [Balances -> LockStates]
    BY DEF TypeOK
  <2>2. Quarantined(b) \in [Balances -> Nat]
    BY <2>1 DEF Quarantined
  <2>3. QueueRecount(b) => lock' \in [Balances -> LockStates]
    BY <2>1 DEF QueueRecount, LockStates
  <2>4. avail' \in {Quarantined(b), avail} /\ QueueRecount(b)
    BY DEF ReportMissing
  <2>5. resv' = [resv EXCEPT ![b] = @ - m] /\ m <= resv[b]
    BY DEF ReportMissing
  <2>6. resv[b] - m \in Nat
    BY <2>1, <2>5
  <2>7. resv' \in [Balances -> Nat]
    <3>1. PICK n \in Nat : n = resv[b] - m
      BY <2>6
    <3>2. resv' = [resv EXCEPT ![b] = n]
      BY ONLY <2>5, <3>1
    <3>. QED  BY <2>1, <3>2
  <2>. QED  BY <2>1, <2>2, <2>3, <2>4, <2>7
<1>3. group \in SUBSET Orders /\ \A c \in group : task[c].st # "none"
  BY DEF MissingGroup, IsTaskActor, TasksOf
<1>4. PICK miss \in Splits(o, b, group, m),
           whole \in SUBSET group, part \in SUBSET group :
         DropMissing(w, b, miss, whole, part)
  BY DEF ReportMissing, LostWhole
<1>5. /\ miss \in [group -> Nat]
      /\ \A c \in group : miss[c] <= Open(alloc[c][b])
  BY DEF Splits
<1>. HIDE DEF w, group
<1>6. /\ ord' \in [Orders -> OrderStatuses]
      /\ alloc' \in [Orders -> [Balances -> Rows]]
      /\ task' \in [Orders -> Tasks]
      /\ past' \in [Orders -> SUBSET Waves]
      /\ short' \in [Orders -> SUBSET Nat]
      /\ lost' \in [Orders -> SUBSET Nat]
      /\ wave' \in [Waves -> Batches]
  BY <1>1, <1>3, <1>4, <1>5, DropMissingTyped
<1>7. UNCHANGED <<mkt, qty, label>>
  BY DEF ReportMissing
<1>. QED  BY <1>2, <1>6, <1>7 DEF TypeOK

\* Picking a unit, a picker's problem reports and the handover keep the types.
LEMMA PickStepsTyped == TypeOK /\ PickSteps => TypeOK'
<1>. SUFFICES ASSUME TypeOK, PickSteps  PROVE TypeOK'
  OBVIOUS
<1>1. ASSUME NEW p \in Pickers, NEW o \in Orders, NEW b \in Balances,
             PickUnit(p, o, b)
      PROVE  TypeOK'
  <2>. DEFINE row == alloc[o][b]
              next == [row EXCEPT !.picked = @ + 1,
                         !.st = IF Open(row) = 1 THEN "picked" ELSE "picking"]
  <2>1. row \in Rows /\ task[o].st # "none"
    BY <1>1 DEF PickUnit, IsTaskActor, TypeOK
  <2>2. next \in Rows
    BY <2>1, RowProgressTyped DEF RowStatuses
  <2>. HIDE DEF next
  <2>3. [alloc[o] EXCEPT ![b] = next] \in [Balances -> Rows]
    BY <2>2 DEF TypeOK
  <2>4. Progress(o, [alloc[o] EXCEPT ![b] = next], 1, 0)
    BY <1>1 DEF PickUnit, next
  <2>5. qty' \in [Balances -> Nat] /\ resv' \in [Balances -> Nat]
    BY <1>1 DEF PickUnit, TakeUnit, TypeOK
  <2>6. lock' \in [Balances -> LockStates]
    BY <1>1 DEF PickUnit, TypeOK, LockStates
  <2>. QED  BY <1>1, <2>1, <2>3, <2>4, <2>5, <2>6, ProgressTyped
       DEF PickUnit, TypeOK, issueVars
<1>2. ASSUME NEW p \in Pickers, NEW o \in Orders, NEW b \in Balances,
             ReportNotFound(p, o, b)
      PROVE  TypeOK'
  <2>. DEFINE row == alloc[o][b]
  <2>1. /\ lock' \in [Balances -> LockStates]
        /\ UNCHANGED <<mkt, label>>
        /\ Quarantined(b) \in [Balances -> Nat]
        /\ row \in Rows /\ task[o].st # "none"
    <3>1. lock' \in [Balances -> LockStates] /\ UNCHANGED <<mkt, label>>
      BY <1>2 DEF ReportNotFound, QueueRecount, LockStates, TypeOK
    <3>2. Quarantined(b) \in [Balances -> Nat] /\ row \in Rows
      BY DEF Quarantined, TypeOK
    <3>3. task[o].st # "none"
      BY <1>2 DEF ReportNotFound, IsTaskActor
    <3>. QED  BY <3>1, <3>2, <3>3
  <2>2. CASE ReleaseReservation(o, "awaiting_stock",
               [NothingGone EXCEPT ![b] = Open(row)], Quarantined(b))
    <3>1. \A c \in ActiveAt(alloc[o]) : Open(alloc[o][c]) \in Nat
      BY <2>2 DEF ReleaseReservation, ActiveAt, Open, TypeOK, Rows
    <3>2. Open(row) \in Nat
      BY <1>2, <3>1 DEF ReportNotFound, ActiveAt
    <3>3. [NothingGone EXCEPT ![b] = Open(row)] \in [Balances -> Nat]
      BY <3>2 DEF NothingGone
    <3>. QED  BY <2>1, <2>2, <3>3, ReleaseTyped DEF OrderStatuses, TypeOK
  <2>3. CASE /\ Open(row) > 0 /\ resv[b] >= Open(row)
             /\ avail' = Quarantined(b)
             /\ resv' = [resv EXCEPT ![b] = @ - Open(row)]
             /\ short' = [short EXCEPT ![o] = @ \cup {Open(row)}]
             /\ Progress(o, [alloc[o] EXCEPT ![b] = LostUnits(row, Open(row))],
                         0, Open(row))
             /\ UNCHANGED <<qty, lost>>
    <3>1. Open(row) \in Nat
      BY <2>1, <2>3 DEF Open, Rows
    <3>2. LostUnits(row, Open(row)) \in Rows
      BY <2>1, <3>1, LostUnitsTyped
    <3>3. [alloc[o] EXCEPT ![b] = LostUnits(row, Open(row))]
            \in [Balances -> Rows]
      BY <3>2 DEF TypeOK
    <3>4. resv' \in [Balances -> Nat] /\ short' \in [Orders -> SUBSET Nat]
      BY <2>3, <3>1 DEF TypeOK
    <3>. QED  BY <2>1, <2>3, <3>3, <3>4, ProgressTyped DEF TypeOK
  <2>. QED  BY <1>2, <2>2, <2>3 DEF ReportNotFound
<1>3. ASSUME NEW p \in Pickers, NEW o \in Orders, ReportOther(p, o)
      PROVE  TypeOK'
  <2>1. [task[o] EXCEPT !.st = "exception"] \in Tasks
    BY <1>3, TaskStatusTyped DEF ReportOther, IsTaskActor, TypeOK, TaskStatuses
  <2>. QED  BY <1>3, <2>1
       DEF ReportOther, TypeOK, OrderStatuses, stockVars, issueVars, waveVars
<1>4. ASSUME NEW p \in Pickers, NEW o \in Orders, NEW b \in Balances,
             NEW m \in 1 .. resv[b], ReportMissing(p, o, b, m)
      PROVE  TypeOK'
  <2>1. m \in Nat
    BY DEF TypeOK
  <2>. QED  BY <1>4, <2>1, ReportMissingTyped
<1>5. ASSUME NEW p \in Pickers, NEW w \in Waves, HandOver(p, w)
      PROVE  TypeOK'
  <2>1. [wave[w] EXCEPT !.handed = TRUE] \in Batches
    <3>1. PICK v : v = wave[w]
      OBVIOUS
    <3>2. v \in Batches
      BY <3>1 DEF TypeOK
    <3>3. [v EXCEPT !.handed = TRUE] \in Batches
      BY ONLY <3>2 DEF Batches
    <3>. QED  BY ONLY <3>1, <3>3
  <2>. QED  BY <1>5, <2>1
       DEF HandOver, TypeOK, stockVars, taskVars, issueVars
<1>. QED  BY <1>1, <1>2, <1>3, <1>4, <1>5 DEF PickSteps

\* The controller's operations and the label operations keep the types.
LEMMA VerifyStepsTyped == TypeOK /\ VerifySteps => TypeOK'
<1>. SUFFICES ASSUME TypeOK, VerifySteps  PROVE TypeOK'
  OBVIOUS
<1>1. \A w, rows, tk, lb :
        w \in Waves => RefreshedStatus(w, rows, tk, lb) \in WaveStatuses
  BY DEF RefreshedStatus, WaveStatuses, TypeOK, Batches
<1>2. ASSUME NEW k \in Controllers, NEW w \in Waves, ClaimVerification(k, w)
      PROVE  TypeOK'
  <2>1. [wave[w] EXCEPT !.ctrl = k] \in Batches
    BY DEF TypeOK, Batches
  <2>. QED  BY <1>2, <2>1
       DEF ClaimVerification, TypeOK, stockVars, taskVars, issueVars
<1>3. ASSUME NEW k \in Controllers, NEW o \in Orders, NEW b \in Balances,
             VerifyUnit(k, o, b)
      PROVE  TypeOK'
  <2>1. [alloc[o][b] EXCEPT !.ver = @ + 1] \in Rows
    <3>1. alloc[o][b] \in Rows /\ "picked" \in RowStatuses
      BY DEF TypeOK, RowStatuses
    <3>. QED  BY <3>1, RowProgressTyped
  <2>2. alloc' \in [Orders -> [Balances -> Rows]]
    BY <1>3, <2>1 DEF VerifyUnit, TypeOK
  <2>3. label' \in [Orders -> LabelStatuses]
    BY <1>3 DEF VerifyUnit, TypeOK, LabelStatuses
  <2>. QED  BY <1>3, <2>2, <2>3
       DEF VerifyUnit, TypeOK, stockVars, taskVars, issueVars, waveVars
<1>4. ASSUME NEW o \in Orders, PrefetchLabel(o) \/ RegisterLabel(o)
      PROVE  TypeOK'
  BY <1>4
  DEF PrefetchLabel, RegisterLabel, TypeOK, LabelStatuses, stockVars, taskVars,
      issueVars, waveVars
<1>5. ASSUME NEW k \in Controllers, NEW o \in Orders, ConfirmLabel(k, o)
      PROVE  TypeOK'
  <2>1. label' \in [Orders -> LabelStatuses] /\ ord' \in [Orders -> OrderStatuses]
    BY <1>5 DEF ConfirmLabel, TypeOK, LabelStatuses, OrderStatuses
  <2>2. wave' \in [Waves -> Batches]
    <3>. DEFINE next(w) == RefreshedStatus(w, alloc, task,
                                           [label EXCEPT ![o] = "applied"])
    <3>1. wave' = [w \in Waves |->
                     IF w \in past[o] \cup {task[o].wave}
                     THEN [wave[w] EXCEPT !.st = next(w)] ELSE wave[w]]
      BY <1>5 DEF ConfirmLabel
    <3>2. \A w \in Waves : next(w) \in WaveStatuses
      BY <1>1
    <3>. HIDE DEF next
    <3>3. \A w \in Waves : [wave[w] EXCEPT !.st = next(w)] \in Batches
      BY <3>2, WaveStatusTyped DEF TypeOK
    <3>. QED  BY <3>1, <3>3 DEF TypeOK
  <2>. QED  BY <1>5, <2>1, <2>2
       DEF ConfirmLabel, TypeOK, stockVars, taskVars, issueVars
<1>6. ASSUME NEW k \in Controllers, NEW o \in Orders, ReportProblem(k, o)
      PROVE  TypeOK'
  <2>1. [task[o] EXCEPT !.st = "exception"] \in Tasks
    BY <1>6, TaskStatusTyped DEF ReportProblem, TypeOK, TaskStatuses
  <2>2. task' \in [Orders -> Tasks]
    BY <1>6, <2>1 DEF ReportProblem, TypeOK
  <2>3. alloc' \in [Orders -> [Balances -> Rows]]
    <3>1. \A row \in Rows : [row EXCEPT !.st = "canceled"] \in Rows
      BY DEF Rows, RowStatuses
    <3>. QED  BY <1>6, <3>1 DEF ReportProblem, TypeOK
  <2>4. label' \in [Orders -> LabelStatuses] /\ ord' \in [Orders -> OrderStatuses]
    BY <1>6 DEF ReportProblem, TypeOK, LabelStatuses, OrderStatuses
  <2>5. wave' \in [Waves -> Batches]
    <3>1. task[o].wave \in Waves
      BY <1>6 DEF ReportProblem, TypeOK, Tasks, NoTask
    <3>2. PICK s \in WaveStatuses : wave' = [wave EXCEPT ![task[o].wave].st = s]
      BY <1>1, <1>6, <3>1 DEF ReportProblem
    <3>. QED  BY <3>1, <3>2, WaveStatusTyped DEF TypeOK
  <2>. QED  BY <1>6, <2>2, <2>3, <2>4, <2>5
       DEF ReportProblem, TypeOK, stockVars, issueVars
<1>. QED  BY <1>2, <1>3, <1>4, <1>5, <1>6 DEF VerifySteps

\* The tables keep their types through picking and verification, for every
\* number of orders, balances, waves and people (FbsOrder, FbsStockBalance,
\* FbsOrderStockAllocation, FbsPickTask and FbsPickBatch rows).
THEOREM Typing == Spec => []TypeOK
<1>1. TypeOK /\ [Next]_vars => TypeOK'
  <2>1. TypeOK /\ UNCHANGED vars => TypeOK'
    BY DEF TypeOK, vars, stockVars, taskVars, issueVars, waveVars
  <2>. QED  BY <2>1, StockStepsTyped, WaveStepsTyped, PickStepsTyped,
               VerifyStepsTyped DEF Next, PickingNext
<1>. QED  BY <1>1, InitTyped, PTL DEF Spec

-----------------------------------------------------------------------------
(***************************************************************************)
(* Balances.                                                               *)
(***************************************************************************)

\* reserve_order_stock moves units from on sale to reserved, never more than
\* are on sale: their sum stays within the quantity.
LEMMA ReserveKeepsBalance ==
  ASSUME TypeOK, BalanceSound, NEW o \in Orders, ReserveStock(o)
  PROVE  BalanceSound'
<1>1. ASSUME NEW candidates \in SUBSET Balances,
             NEW take \in Plans(o, candidates), Hold(o, take)
      PROVE  BalanceSound'
  <2>1. \A b \in Balances : take[b] \in Nat /\ take[b] <= avail[b]
    BY PlanIsCapped
  <2>. QED  BY <1>1, <2>1 DEF Hold, BalanceSound, TypeOK
<1>2. CASE UNCHANGED stockVars
  BY <1>2 DEF BalanceSound, stockVars
<1>. DEFINE free == {b \in Balances : lock[b] = "none"}
<1>3. \/ UNCHANGED stockVars
      \/ \E candidates \in {free, Balances} :
           \E take \in Plans(o, candidates) : Hold(o, take)
  BY DEF ReserveStock, stockVars
<1>. QED  BY <1>1, <1>2, <1>3

\* release_order_reservation gives back no more than the rows held, so the
\* sum of on sale and reserved does not grow.
LEMMA ReleaseKeepsBalance ==
  ASSUME TypeOK, BalanceSound, NEW o \in Orders, NEW to,
         NEW gone \in [Balances -> Nat], NEW have \in [Balances -> Nat],
         \A b \in Balances : have[b] <= avail[b],
         ReleaseReservation(o, to, gone, have)
  PROVE  BalanceSound'
<1>. DEFINE active == ActiveAt(alloc[o])
            open(b) == Open(alloc[o][b])
<1>1. \A b \in active : open(b) \in Int /\ gone[b] <= open(b)
                        /\ resv[b] >= open(b)
  BY DEF ReleaseReservation, TypeOK, ActiveAt, Open, Rows
<1>2. /\ avail' = [b \in Balances |->
           IF b \in active THEN have[b] + open(b) - gone[b] ELSE have[b]]
      /\ resv' = [b \in Balances |->
           IF b \in active THEN resv[b] - open(b) ELSE resv[b]]
      /\ qty' = qty
  BY DEF ReleaseReservation
<1>. HIDE DEF active, open
<1>3. SUFFICES ASSUME NEW b \in Balances  PROVE avail'[b] + resv'[b] <= qty'[b]
  BY DEF BalanceSound
<1>4. avail[b] + resv[b] <= qty[b] /\ have[b] <= avail[b]
      /\ avail[b] \in Nat /\ resv[b] \in Nat /\ qty[b] \in Nat
      /\ have[b] \in Nat /\ gone[b] \in Nat
  BY DEF BalanceSound, TypeOK
<1>5. CASE b \in active
  BY <1>1, <1>2, <1>4, <1>5
<1>6. CASE b \notin active
  BY <1>2, <1>4, <1>6
<1>. QED  BY <1>5, <1>6

\* Composing, claiming and taking over waves move no goods, end no count and
\* tell nothing about the marketplace.
LEMMA WaveStepsLeaveStock ==
  WaveSteps => UNCHANGED stockVars /\ UNCHANGED <<mkt, lock>>
<1>1. \A w \in Waves, os \in SUBSET Orders :
        AttachOrders(w, os) => UNCHANGED stockVars /\ UNCHANGED <<mkt, lock>>
  BY DEF AttachOrders
<1>2. \A ws, to :
        Repack(ws, to) => UNCHANGED stockVars /\ UNCHANGED <<mkt, lock>>
  BY DEF Repack
<1>3. \A w \in Waves, ws \in SUBSET Waves :
        MergeWaves(w, ws) => UNCHANGED stockVars /\ UNCHANGED <<mkt, lock>>
  BY <1>2 DEF MergeWaves
<1>4. RegroupWaves => UNCHANGED stockVars /\ UNCHANGED <<mkt, lock>>
  BY <1>2 DEF RegroupWaves
<1>5. \A p \in Pickers, c \in Carts, w \in Waves :
        ClaimWave(p, c, w) => UNCHANGED stockVars /\ UNCHANGED <<mkt, lock>>
  BY DEF ClaimWave
<1>6. \A p \in Pickers, c \in Carts, w \in Waves :
        TakeOverWave(p, c, w) => UNCHANGED stockVars /\ UNCHANGED <<mkt, lock>>
  BY DEF TakeOverWave
<1>. QED  BY <1>1, <1>3, <1>4, <1>5, <1>6 DEF WaveSteps

\* Only a claim changes rows: the other wave operations, and all of them for
\* the labels, leave them as they are.
LEMMA WaveStepsLeaveRows ==
  WaveSteps => /\ UNCHANGED label
               /\ \/ UNCHANGED alloc
                  \/ \E p \in Pickers, c \in Carts, w \in Waves : ClaimWave(p, c, w)
<1>1. \A w \in Waves, os \in SUBSET Orders :
        AttachOrders(w, os) => UNCHANGED alloc /\ UNCHANGED label
  BY DEF AttachOrders
<1>2. \A ws, to : Repack(ws, to) => UNCHANGED alloc /\ UNCHANGED label
  BY DEF Repack
<1>3. \A w \in Waves, ws \in SUBSET Waves :
        MergeWaves(w, ws) => UNCHANGED alloc /\ UNCHANGED label
  BY <1>2 DEF MergeWaves
<1>4. RegroupWaves => UNCHANGED alloc /\ UNCHANGED label
  BY <1>2 DEF RegroupWaves
<1>5. \A p \in Pickers, c \in Carts, w \in Waves :
        ClaimWave(p, c, w) => UNCHANGED label
  BY DEF ClaimWave
<1>6. \A p \in Pickers, c \in Carts, w \in Waves :
        TakeOverWave(p, c, w) => UNCHANGED alloc /\ UNCHANGED label
  BY DEF TakeOverWave
<1>. QED  BY <1>1, <1>3, <1>4, <1>5, <1>6 DEF WaveSteps

\* The controllers' scans, labels and problem reports move no goods either.
LEMMA VerifyStepsLeaveStock ==
  VerifySteps => UNCHANGED stockVars /\ UNCHANGED <<mkt, lock>>
<1>1. \A k \in Controllers, w \in Waves :
        ClaimVerification(k, w) => UNCHANGED stockVars /\ UNCHANGED <<mkt, lock>>
  BY DEF ClaimVerification
<1>2. \A k \in Controllers, o \in Orders, b \in Balances :
        VerifyUnit(k, o, b) => UNCHANGED stockVars /\ UNCHANGED <<mkt, lock>>
  BY DEF VerifyUnit
<1>3. \A o \in Orders :
        PrefetchLabel(o) => UNCHANGED stockVars /\ UNCHANGED <<mkt, lock>>
  BY DEF PrefetchLabel
<1>4. \A o \in Orders :
        RegisterLabel(o) => UNCHANGED stockVars /\ UNCHANGED <<mkt, lock>>
  BY DEF RegisterLabel
<1>5. \A k \in Controllers, o \in Orders :
        ConfirmLabel(k, o) => UNCHANGED stockVars /\ UNCHANGED <<mkt, lock>>
  BY DEF ConfirmLabel
<1>6. \A k \in Controllers, o \in Orders :
        ReportProblem(k, o) => UNCHANGED stockVars /\ UNCHANGED <<mkt, lock>>
  BY DEF ReportProblem
<1>. QED  BY <1>1, <1>2, <1>3, <1>4, <1>5, <1>6 DEF VerifySteps

\* No operation of picking or verification promises more of a balance than
\* it has.
LEMMA BalanceStep == TypeOK /\ BalanceSound /\ [Next]_vars => BalanceSound'
<1>. SUFFICES ASSUME TypeOK, BalanceSound, [Next]_vars  PROVE BalanceSound'
  OBVIOUS
<1>. DEFINE Kept == UNCHANGED stockVars
<1>0. ASSUME Kept  PROVE BalanceSound'
  BY <1>0 DEF BalanceSound, stockVars
<1>00. /\ NothingGone \in [Balances -> Nat] /\ avail \in [Balances -> Nat]
       /\ \A b \in Balances : avail[b] <= avail[b]
  BY DEF NothingGone, TypeOK
<1>1. CASE UNCHANGED vars
  BY <1>0, <1>1 DEF vars
<1>2. CASE StockSteps
  <2>1. ASSUME NEW o \in Orders, RetryReservation(o)  PROVE BalanceSound'
    BY <2>1, ReserveKeepsBalance DEF RetryReservation
  <2>2. ASSUME NEW o \in Orders, ReturnUpperTier(o)  PROVE BalanceSound'
    BY <2>2, <1>00, ReleaseKeepsBalance DEF ReturnUpperTier
  <2>3. ASSUME NEW o \in Orders, NEW s \in Statuses, ImportOrder(o, s)
        PROVE  BalanceSound'
    <3>1. CASE ReserveStock(o)
      BY <3>1, ReserveKeepsBalance
    <3>2. CASE \E to : ReleaseReservation(o, to, NothingGone, avail)
      BY <3>2, <1>00, ReleaseKeepsBalance
    <3>. QED  BY <1>0, <2>3, <3>1, <3>2 DEF ImportOrder
  <2>4. ASSUME NEW o \in Orders, RetryException(o)  PROVE Kept
    BY <2>4 DEF RetryException
  <2>5. ASSUME NEW b \in Balances, CountSteps(b)  PROVE Kept
    BY <2>5 DEF CountSteps, CheckDrained, StartCounting
  <2>. QED  BY <1>0, <1>2, <2>1, <2>2, <2>3, <2>4, <2>5 DEF StockSteps
<1>3. CASE WaveSteps
  BY <1>0, <1>3, WaveStepsLeaveStock
<1>4. CASE PickSteps
  <2>1. ASSUME NEW p \in Pickers, NEW o \in Orders, NEW b \in Balances,
               PickUnit(p, o, b)
        PROVE  BalanceSound'
    BY <2>1 DEF PickUnit, TakeUnit, BalanceSound, TypeOK
  <2>2. ASSUME NEW p \in Pickers, NEW o \in Orders, NEW b \in Balances,
               ReportNotFound(p, o, b)
        PROVE  BalanceSound'
    <3>. DEFINE open == Open(alloc[o][b])
    <3>1. /\ Quarantined(b) \in [Balances -> Nat]
          /\ \A c \in Balances : Quarantined(b)[c] <= avail[c]
      BY DEF Quarantined, TypeOK
    <3>2. CASE ReleaseReservation(o, "awaiting_stock",
                 [NothingGone EXCEPT ![b] = open], Quarantined(b))
      <4>1. open \in Nat
        <5>1. \A c \in ActiveAt(alloc[o]) : Open(alloc[o][c]) \in Nat
          BY <3>2 DEF ReleaseReservation, ActiveAt, Open, TypeOK, Rows
        <5>2. b \in ActiveAt(alloc[o])
          BY <2>2 DEF ReportNotFound, ActiveAt
        <5>. QED  BY <5>1, <5>2
      <4>2. [NothingGone EXCEPT ![b] = open] \in [Balances -> Nat]
        BY <4>1 DEF NothingGone
      <4>. QED  BY <3>1, <3>2, <4>2, ReleaseKeepsBalance
    <3>3. CASE /\ open > 0 /\ resv[b] >= open
               /\ avail' = Quarantined(b)
               /\ resv' = [resv EXCEPT ![b] = @ - open]
               /\ UNCHANGED qty
      <4>1. open \in Int
        BY DEF Open, TypeOK, Rows
      <4>. HIDE DEF open
      <4>. QED  BY <3>3, <4>1 DEF Quarantined, BalanceSound, TypeOK
    <3>. QED  BY <2>2, <3>2, <3>3 DEF ReportNotFound
  <2>3. ASSUME NEW p \in Pickers, NEW o \in Orders, NEW b \in Balances,
               NEW m \in 1 .. resv[b], ReportMissing(p, o, b, m)
        PROVE  BalanceSound'
    <3>1. /\ avail' \in {Quarantined(b), avail}
          /\ resv' = [resv EXCEPT ![b] = @ - m]
          /\ UNCHANGED qty
      BY <2>3 DEF ReportMissing
    <3>. QED  BY <3>1 DEF Quarantined, BalanceSound, TypeOK
  <2>4. ASSUME NEW p \in Pickers, NEW o \in Orders, ReportOther(p, o)
        PROVE  Kept
    BY <2>4 DEF ReportOther
  <2>5. ASSUME NEW p \in Pickers, NEW w \in Waves, HandOver(p, w)  PROVE Kept
    BY <2>5 DEF HandOver
  <2>. QED  BY <1>0, <1>4, <2>1, <2>2, <2>3, <2>4, <2>5 DEF PickSteps
<1>5. CASE VerifySteps
  BY <1>0, <1>5, VerifyStepsLeaveStock
<1>. QED  BY <1>1, <1>2, <1>3, <1>4, <1>5 DEF Next, PickingNext

\* What is on sale and what is reserved fit into what a balance physically
\* has, through every interleaving of reservations, releases, picks and
\* shortage reports: the constraint fbs_stock_qty_covers_available_reserved
\* never fails one of these transactions.
THEOREM StockIsCovered == Spec => []BalanceSound
<1>1. Init => BalanceSound
  BY ConstantsAssumption DEF Init, BalanceSound
<1>. QED  BY <1>1, Typing, BalanceStep, PTL DEF Spec

-----------------------------------------------------------------------------
(***************************************************************************)
(* Rows.                                                                   *)
(***************************************************************************)

\* Verified is at most picked is at most reserved.
SoundRow(row) == row.ver <= row.picked /\ row.picked <= row.res

\* A row that does not exist has made no progress.
LEMMA NoRowSound == SoundRow(NoRow)
BY DEF SoundRow, NoRow

\* A row that gives up open units (release_pick_allocation_shortage) still
\* reserves what it picked.
LEMMA LostUnitsSound ==
  ASSUME NEW row \in Rows, SoundRow(row), NEW n \in Nat, n <= Open(row)
  PROVE  SoundRow(LostUnits(row, n))
<1>1. CASE row.res = n
  BY <1>1, NoRowSound DEF LostUnits
<1>2. CASE row.res # n
  <2>1. PICK s \in {"picked", row.st} :
          LostUnits(row, n) = [row EXCEPT !.res = row.res - n, !.st = s]
    BY <1>2 DEF LostUnits
  <2>2. /\ LostUnits(row, n).res = row.res - n
        /\ LostUnits(row, n).picked = row.picked
        /\ LostUnits(row, n).ver = row.ver
    BY <2>1 DEF Rows
  <2>. QED  BY <2>2 DEF SoundRow, Open, Rows
<1>. QED  BY <1>1, <1>2

\* reserve_order_stock starts rows without progress.
LEMMA ReserveKeepsRows ==
  ASSUME TypeOK, ProgressSound, NEW o \in Orders, ReserveStock(o)
  PROVE  ProgressSound'
<1>1. ASSUME NEW candidates \in SUBSET Balances,
             NEW take \in Plans(o, candidates), Hold(o, take)
      PROVE  ProgressSound'
  <2>1. \A b \in Balances : take[b] \in Nat
    BY PlanIsCapped
  <2>2. alloc' = [alloc EXCEPT ![o] =
       [b \in Balances |->
          IF take[b] = 0 THEN alloc[o][b]
          ELSE [st |-> "reserved", res |-> take[b], picked |-> 0, ver |-> 0]]]
    BY <1>1 DEF Hold
  <2>. QED  BY <2>1, <2>2 DEF ProgressSound, TypeOK
<1>2. CASE UNCHANGED alloc
  BY <1>2 DEF ProgressSound
<1>. DEFINE free == {b \in Balances : lock[b] = "none"}
<1>3. \/ UNCHANGED alloc
      \/ \E candidates \in {free, Balances} :
           \E take \in Plans(o, candidates) : Hold(o, take)
  BY DEF ReserveStock
<1>. QED  BY <1>1, <1>2, <1>3

\* release_order_reservation ends rows and starts none.
LEMMA ReleaseKeepsRows ==
  ASSUME TypeOK, ProgressSound, NEW o \in Orders, NEW to, NEW gone, NEW have,
         ReleaseReservation(o, to, gone, have)
  PROVE  ProgressSound'
<1>1. alloc' = [alloc EXCEPT ![o] =
          [b \in Balances |-> IF b \in ActiveAt(alloc[o]) THEN NoRow
                              ELSE alloc[o][b]]]
  BY DEF ReleaseReservation
<1>. QED  BY <1>1 DEF ProgressSound, TypeOK, NoRow

\* One row of one order is replaced by a sound one.
LEMMA RowReplaced ==
  ASSUME TypeOK, ProgressSound, NEW o \in Orders, NEW b \in Balances,
         NEW row, SoundRow(row),
         alloc' = [alloc EXCEPT ![o] = [alloc[o] EXCEPT ![b] = row]]
  PROVE  ProgressSound'
BY DEF ProgressSound, TypeOK, SoundRow

\* No operation of picking or verification lets a row's progress overtake
\* what was picked or reserved.
LEMMA ProgressStep == TypeOK /\ ProgressSound /\ [Next]_vars => ProgressSound'
<1>. SUFFICES ASSUME TypeOK, ProgressSound, [Next]_vars  PROVE ProgressSound'
  OBVIOUS
<1>0. ASSUME UNCHANGED alloc  PROVE ProgressSound'
  BY <1>0 DEF ProgressSound
<1>00. \A o \in Orders, b \in Balances :
         alloc[o][b] \in Rows /\ SoundRow(alloc[o][b])
  BY DEF TypeOK, ProgressSound, SoundRow
<1>1. CASE UNCHANGED vars
  BY <1>0, <1>1 DEF vars
<1>2. CASE StockSteps
  BY <1>0, <1>2, ReserveKeepsRows, ReleaseKeepsRows
  DEF StockSteps, RetryReservation, ReturnUpperTier, ImportOrder,
      RetryException, CountSteps, CheckDrained, StartCounting
<1>3. CASE WaveSteps
  <2>1. ASSUME NEW p \in Pickers, NEW c \in Carts, NEW w \in Waves,
               ClaimWave(p, c, w)
        PROVE  ProgressSound'
    <3>1. \A o \in Orders, b \in Balances :
            alloc'[o][b] = alloc[o][b]
            \/ alloc'[o][b] = [alloc[o][b] EXCEPT !.st = "picking"]
      BY <2>1 DEF ClaimWave
    <3>2. \A row \in Rows :
            SoundRow(row) => SoundRow([row EXCEPT !.st = "picking"])
      BY DEF Rows, SoundRow
    <3>. QED  BY <1>00, <3>1, <3>2 DEF ProgressSound, SoundRow
  <2>. QED  BY <1>0, <1>3, <2>1
       DEF WaveSteps, AttachOrders, MergeWaves, RegroupWaves, Repack,
           TakeOverWave
<1>4. CASE PickSteps
  <2>1. ASSUME NEW p \in Pickers, NEW o \in Orders, NEW b \in Balances,
               PickUnit(p, o, b)
        PROVE  ProgressSound'
    <3>. DEFINE row == alloc[o][b]
                next == [row EXCEPT !.picked = @ + 1,
                           !.st = IF Open(row) = 1 THEN "picked" ELSE "picking"]
    <3>1. alloc' = [alloc EXCEPT ![o] = [alloc[o] EXCEPT ![b] = next]]
      BY <2>1 DEF PickUnit, Progress
    <3>2. Open(row) > 0
      BY <2>1 DEF PickUnit
    <3>3. row \in Rows /\ SoundRow(row)
      BY <1>00
    <3>4. next.ver = row.ver /\ next.picked = row.picked + 1 /\ next.res = row.res
      BY <3>3 DEF Rows
    <3>5. SoundRow(next)
      BY <3>2, <3>3, <3>4 DEF SoundRow, Open, Rows
    <3>. HIDE DEF next
    <3>. QED  BY <3>1, <3>5, RowReplaced
  <2>2. ASSUME NEW p \in Pickers, NEW o \in Orders, NEW b \in Balances,
               ReportNotFound(p, o, b)
        PROVE  ProgressSound'
    <3>. DEFINE row == alloc[o][b]
    <3>1. CASE ReleaseReservation(o, "awaiting_stock",
                 [NothingGone EXCEPT ![b] = Open(row)], Quarantined(b))
      BY <3>1, ReleaseKeepsRows
    <3>2. CASE /\ Open(row) > 0
               /\ Progress(o, [alloc[o] EXCEPT ![b] = LostUnits(row, Open(row))],
                           0, Open(row))
      <4>1. row \in Rows /\ Open(row) \in Nat
        BY <1>00, <3>2 DEF Open, Rows
      <4>2. SoundRow(LostUnits(row, Open(row)))
        BY <1>00, <4>1, LostUnitsSound
      <4>3. alloc' = [alloc EXCEPT ![o] =
                        [alloc[o] EXCEPT ![b] = LostUnits(row, Open(row))]]
        BY <3>2 DEF Progress
      <4>. QED  BY <4>2, <4>3, RowReplaced
    <3>. QED  BY <2>2, <3>1, <3>2 DEF ReportNotFound
  <2>3. ASSUME NEW p \in Pickers, NEW o \in Orders, NEW b \in Balances,
               NEW m \in 1 .. resv[b], ReportMissing(p, o, b, m)
        PROVE  ProgressSound'
    <3>. DEFINE group == MissingGroup(p, o, b)
    <3>1. PICK miss \in Splits(o, b, group, m),
               whole \in SUBSET group, part \in SUBSET group :
            alloc' = RowsAfterLoss(b, miss, whole, part)
      <4>1. PICK miss \in Splits(o, b, group, m),
                 whole \in SUBSET group, part \in SUBSET group :
              DropMissing(task[o].wave, b, miss, whole, part)
        BY <2>3 DEF ReportMissing, LostWhole
      <4>. QED  BY <4>1 DEF DropMissing
    <3>2. /\ group \subseteq Orders /\ miss \in [group -> Nat]
          /\ \A c \in group : miss[c] <= Open(alloc[c][b])
      BY DEF Splits, MissingGroup, TasksOf
    <3>3. \A c \in part : SoundRow(LostUnits(alloc[c][b], miss[c]))
      BY <1>00, <3>2, LostUnitsSound
    <3>4. SUFFICES ASSUME NEW c \in Orders, NEW x \in Balances
                   PROVE  SoundRow(alloc'[c][x])
      BY DEF ProgressSound, SoundRow
    <3>. HIDE DEF group
    <3>5. alloc[c] = [y \in Balances |-> alloc[c][y]]
      BY DEF TypeOK
    <3>6. CASE c \in whole
      BY <1>00, <3>1, <3>6, NoRowSound DEF RowsAfterLoss
    <3>7. CASE c \in part /\ c \notin whole
      <4>1. alloc'[c] = [alloc[c] EXCEPT ![b] = LostUnits(alloc[c][b], miss[c])]
        BY <3>1, <3>7 DEF RowsAfterLoss
      <4>2. CASE x = b
        BY <3>3, <3>5, <3>7, <4>1, <4>2
      <4>3. CASE x # b
        BY <1>00, <3>5, <4>1, <4>3
      <4>. QED  BY <4>2, <4>3
    <3>8. CASE c \notin part /\ c \notin whole
      BY <1>00, <3>1, <3>8 DEF RowsAfterLoss
    <3>. QED  BY <3>6, <3>7, <3>8
  <2>. QED  BY <1>0, <1>4, <2>1, <2>2, <2>3 DEF PickSteps, ReportOther, HandOver
<1>5. CASE VerifySteps
  <2>1. ASSUME NEW k \in Controllers, NEW o \in Orders, NEW b \in Balances,
               VerifyUnit(k, o, b)
        PROVE  ProgressSound'
    <3>. DEFINE row == alloc[o][b]
                next == [row EXCEPT !.ver = @ + 1]
    <3>1. alloc' = [alloc EXCEPT ![o] = [alloc[o] EXCEPT ![b] = next]]
      BY <2>1 DEF VerifyUnit
    <3>2. row \in Rows /\ SoundRow(row) /\ row.ver < row.picked
      BY <1>00, <2>1 DEF VerifyUnit, Verified, Rows
    <3>3. next.ver = row.ver + 1 /\ next.picked = row.picked /\ next.res = row.res
      BY <3>2 DEF Rows
    <3>4. SoundRow(next)
      BY <3>2, <3>3 DEF SoundRow, Rows
    <3>. HIDE DEF next
    <3>. QED  BY <3>1, <3>4, RowReplaced
  <2>2. ASSUME NEW k \in Controllers, NEW o \in Orders, ReportProblem(k, o)
        PROVE  ProgressSound'
    <3>1. \A c \in Orders, b \in Balances :
            alloc'[c][b] = alloc[c][b]
            \/ alloc'[c][b] = [alloc[c][b] EXCEPT !.st = "canceled"]
      BY <2>2 DEF ReportProblem, TypeOK
    <3>2. \A row \in Rows :
            SoundRow(row) => SoundRow([row EXCEPT !.st = "canceled"])
      BY DEF Rows, SoundRow
    <3>3. SUFFICES ASSUME NEW c \in Orders, NEW x \in Balances
                   PROVE  SoundRow(alloc'[c][x])
      BY DEF ProgressSound, SoundRow
    <3>4. PICK row \in Rows : row = alloc[c][x] /\ SoundRow(row)
      BY <1>00
    <3>5. alloc'[c][x] \in {row, [row EXCEPT !.st = "canceled"]}
      BY <3>1, <3>4
    <3>6. SoundRow(row) /\ SoundRow([row EXCEPT !.st = "canceled"])
      BY <3>2, <3>4
    <3>. QED  BY <3>5, <3>6
  <2>3. ASSUME NEW k \in Controllers, NEW w \in Waves, ClaimVerification(k, w)
        PROVE  ProgressSound'
    BY <1>0, <2>3 DEF ClaimVerification
  <2>4. ASSUME NEW o \in Orders, PrefetchLabel(o)  PROVE ProgressSound'
    BY <1>0, <2>4 DEF PrefetchLabel
  <2>5. ASSUME NEW o \in Orders, RegisterLabel(o)  PROVE ProgressSound'
    BY <1>0, <2>5 DEF RegisterLabel
  <2>6. ASSUME NEW k \in Controllers, NEW o \in Orders, ConfirmLabel(k, o)
        PROVE  ProgressSound'
    BY <1>0, <2>6 DEF ConfirmLabel
  <2>. QED  BY <1>5, <2>1, <2>2, <2>3, <2>4, <2>5, <2>6 DEF VerifySteps
<1>. QED  BY <1>1, <1>2, <1>3, <1>4, <1>5 DEF Next, PickingNext

\* No row is ever verified beyond what was picked or picked beyond what is
\* still reserved, although shortage reports shrink rows between two scans of
\* _complete_pick_allocation_once and _verify_pick_allocation_unit_once.
THEOREM RowsAreSound == Spec => []ProgressSound
<1>1. Init => ProgressSound
  BY DEF Init, ProgressSound, NoRow
<1>. QED  BY <1>1, Typing, ProgressStep, PTL DEF Spec

-----------------------------------------------------------------------------
(***************************************************************************)
(* Counting.                                                               *)
(***************************************************************************)

\* reserve_order_stock and release_order_reservation leave the quantities on
\* the shelf and end counts at most.
LEMMA CountOutlastsReservation ==
  ASSUME NEW o \in Orders, ReserveStock(o)
  PROVE  UNCHANGED qty /\ \A b \in Balances : lock[b] = "counting" =>
           \/ lock' = lock
           \/ lock'[b] \in {"counting", "none"}
BY DEF ReserveStock, Hold, stockVars

\* A count misses one unit at most: a pick passes assert_balance_unlocked
\* before it takes goods off the shelf, and only the pick that passed before
\* activate_drained_inventory committed can still take one.
THEOREM CountsMissOneUnit == Spec => CountMissesOneUnit
<1>. DEFINE Still == \A b \in Balances :
       /\ lock[b] = "counting" =>
            qty'[b] = qty[b] /\ lock'[b] \in {"counting", "none"}
       /\ lock[b] = "overtaken" =>
            \/ qty'[b] = qty[b]
            \/ qty'[b] = qty[b] - 1 /\ lock'[b] = "counting"
<1>1. ASSUME TypeOK, Next  PROVE Still
  <2>0. ASSUME UNCHANGED <<qty, lock>>  PROVE Still
    BY <2>0
  <2>1. ASSUME NEW p \in Pickers, NEW o \in Orders, NEW b \in Balances,
               PickUnit(p, o, b)
        PROVE  Still
    <3>1. /\ qty' = [qty EXCEPT ![b] = @ - 1]
          /\ lock[b] # "counting"
          /\ lock' = [lock EXCEPT ![b] =
                        IF @ = "overtaken" THEN "counting" ELSE @]
      BY <2>1 DEF PickUnit, TakeUnit, UnlockedForPicking
    <3>. QED  BY <1>1, <3>1 DEF TypeOK
  <2>2. ASSUME UNCHANGED qty,
               \A b \in Balances : lock[b] = "counting" =>
                 lock'[b] \in {"counting", "none"}
        PROVE  Still
    BY <2>2
  <2>3. CASE StockSteps
    <3>1. ASSUME NEW o \in Orders, ReserveStock(o)  PROVE Still
      BY <2>2, <3>1, CountOutlastsReservation
    <3>2. ASSUME NEW o \in Orders, NEW to, NEW gone, NEW have,
                 ReleaseReservation(o, to, gone, have), UNCHANGED lock
          PROVE  Still
      BY <2>0, <3>2 DEF ReleaseReservation
    <3>3. ASSUME NEW o \in Orders, NEW s \in Statuses, ImportOrder(o, s)
          PROVE  Still
      BY <2>0, <3>1, <3>2, <3>3 DEF ImportOrder, stockVars
    <3>4. ASSUME NEW o \in Orders, RetryReservation(o)  PROVE Still
      BY <3>1, <3>4 DEF RetryReservation
    <3>5. ASSUME NEW o \in Orders, ReturnUpperTier(o)  PROVE Still
      BY <3>2, <3>5 DEF ReturnUpperTier
    <3>6. ASSUME NEW o \in Orders, RetryException(o)  PROVE Still
      BY <2>0, <3>6 DEF RetryException, stockVars
    <3>7. ASSUME NEW b \in Balances, CheckDrained(b)  PROVE Still
      BY <1>1, <2>2, <3>7 DEF CheckDrained, stockVars, TypeOK
    <3>8. ASSUME NEW b \in Balances, StartCounting(b)  PROVE Still
      BY <1>1, <2>2, <3>8 DEF StartCounting, stockVars, TypeOK
    <3>. QED  BY <2>3, <3>3, <3>4, <3>5, <3>6, <3>7, <3>8
         DEF StockSteps, CountSteps
  <2>4. CASE WaveSteps
    BY <2>0, <2>4, WaveStepsLeaveStock DEF stockVars
  <2>5. CASE PickSteps
    <3>1. ASSUME NEW b \in Balances, QueueRecount(b), UNCHANGED qty  PROVE Still
      BY <1>1, <2>2, <3>1 DEF QueueRecount, TypeOK
    <3>2. ASSUME NEW p \in Pickers, NEW o \in Orders, NEW b \in Balances,
                 ReportNotFound(p, o, b)
          PROVE  Still
      BY <3>1, <3>2 DEF ReportNotFound, ReleaseReservation
    <3>3. ASSUME NEW p \in Pickers, NEW o \in Orders, NEW b \in Balances,
                 NEW m \in 1 .. resv[b], ReportMissing(p, o, b, m)
          PROVE  Still
      BY <3>1, <3>3 DEF ReportMissing
    <3>4. \A p, o : ReportOther(p, o) => UNCHANGED <<qty, lock>>
      BY DEF ReportOther, stockVars
    <3>5. \A p, w : HandOver(p, w) => UNCHANGED <<qty, lock>>
      BY DEF HandOver, stockVars
    <3>. QED  BY <2>0, <2>1, <2>5, <3>2, <3>3, <3>4, <3>5 DEF PickSteps
  <2>6. CASE VerifySteps
    BY <2>0, <2>6, VerifyStepsLeaveStock DEF stockVars
  <2>. QED  BY <1>1, <2>3, <2>4, <2>5, <2>6 DEF Next, PickingNext
<1>2. ASSUME UNCHANGED vars  PROVE Still
  BY <1>2 DEF vars, stockVars
<1>. QED  BY <1>1, <1>2, Typing, PTL DEF Spec, CountMissesOneUnit
=============================================================================
