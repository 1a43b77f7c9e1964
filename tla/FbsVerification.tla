---------------------------- MODULE FbsVerification ----------------------------
(***************************************************************************)
(* Verification of a wave at a controller's desk (services/picking.py) and *)
(* the marketplace label of an order (services/labels.py), on top of       *)
(* FbsPicking.  The labels are those of Wildberries orders, which may be   *)
(* requested before the goods are verified.  The tote leaves the desk when *)
(* the wave is done (the controller-tote flow).                            *)
(***************************************************************************)
EXTENDS FbsPicking

\* Mutant of Verified: one scan too many is accepted.
OverVerified(row) == row.ver > row.picked

\* A row's verification progress has reached what was picked.
Verified(row) == row.ver >= row.picked
VerifiedRows(rows) == \A b \in Balances : rows[b].st # "none" => Verified(rows[b])
AllPicked(rows) == \A b \in Balances : rows[b].st \in {"none", "picked"}

-----------------------------------------------------------------------------
\* claim_pick_batch_verification
ClaimVerification(k, w) ==
  /\ wave[w].st = "verification" /\ wave[w].handed
  /\ wave[w].ctrl = None
  /\ Cardinality({v \in Waves : /\ wave[v].st = "verification"
                                /\ wave[v].handed
                                /\ wave[v].ctrl = k}) < WaveLimit
  /\ wave' = [wave EXCEPT ![w].ctrl = k]
  /\ UNCHANGED <<ord, mkt, stockVars, lock, alloc, taskVars, issueVars,
                 wPlanned, wPicked, label>>

\* Mutant of ShortageBlocks: a partial shortage of the live task is forgotten.
CanceledShortageBlocks(o) == lost[o] # {} /\ task[o].st # "picked"

\* _assert_order_has_no_open_shortage: an open not-found issue stops the label
\* unless its task was canceled and one later row picked as much at once.
ShortageBlocks(o) ==
  \/ short[o] # {}
  \/ \E n \in lost[o] :
       ~ \E b \in Balances : /\ task[o].st = "picked"
                             /\ alloc[o][b].st = "picked"
                             /\ alloc[o][b].picked >= n

\* _pending_verified_order_label_exists for wave w: an order with a task in
\* the wave, canceled tasks included, awaits its label and has no unverified
\* goods in this wave.
LabelPending(w) ==
  \E o \in Orders :
    /\ w \in past[o] \/ (task[o].st # "none" /\ task[o].wave = w)
    /\ label[o] \in {"requested", "ready"}
    /\ ~ /\ task[o].wave = w /\ task[o].st = "picked"
         /\ \E b \in Balances : /\ alloc[o][b].st = "picked"
                                /\ alloc[o][b].picked > 0
                                /\ ~Verified(alloc[o][b])

\* _verify_pick_allocation_unit_once: the scan that completes an order asks
\* for its label, and fails as a whole when the label is refused.
VerifyUnit(k, o, b) ==
  LET row == alloc[o][b]
      w == task[o].wave
      rows == [alloc[o] EXCEPT ![b].ver = @ + 1]
      complete == VerifiedRows(rows) /\ short[o] = {}
  IN /\ task[o].st = "picked" /\ row.st = "picked"
     /\ wave[w].ctrl = k /\ wave[w].st = "verification" /\ wave[w].handed
     /\ ~LabelPending(w)
     /\ ~Verified(row)
     /\ complete => /\ ord[o] = "picked"
                    /\ ~ShortageBlocks(o)
                    /\ AllPicked(rows)
     /\ alloc' = [alloc EXCEPT ![o] = rows]
     /\ label' = IF complete /\ label[o] = "none"
                 THEN [label EXCEPT ![o] = "requested"] ELSE label
     /\ UNCHANGED <<ord, mkt, stockVars, lock, taskVars, issueVars, waveVars>>

\* prefetch_wb_order_label_request
PrefetchLabel(o) ==
  /\ ord[o] = "picked" /\ label[o] = "none"
  /\ ~ShortageBlocks(o) /\ AllPicked(alloc[o])
  /\ label' = [label EXCEPT ![o] = "requested"]
  /\ UNCHANGED <<ord, mkt, stockVars, lock, alloc, taskVars, issueVars,
                 waveVars>>

\* register_marketplace_label for a requested label of a WB order.
RegisterLabel(o) ==
  /\ ord[o] = "picked" /\ label[o] = "requested"
  /\ ~ShortageBlocks(o)
  /\ label' = [label EXCEPT ![o] = "ready"]
  /\ UNCHANGED <<ord, mkt, stockVars, lock, alloc, taskVars, issueVars,
                 waveVars>>

\* Mutants of RefreshedStatus: labels are not waited for; a wave that lost all
\* its picked orders is kept.
RefreshedUnlabelled(w, rows, tk, lb) ==
  IF /\ wave[w].st = "verification"
     /\ \A o \in TasksOf(tk, w) : VerifiedRows(rows[o])
  THEN "done" ELSE wave[w].st
RefreshedNonEmpty(w, rows, tk, lb) ==
  LET done == {o \in TasksOf(tk, w) : tk[o].st = "picked"}
  IN IF /\ wave[w].st = "verification" /\ done # {}
        /\ ActiveTasks(tk, w) = {}
        /\ \A o \in done : VerifiedRows(rows[o]) /\ lb[o] = "applied"
     THEN "done" ELSE wave[w].st

\* refresh_pick_batch_verification: what becomes of wave w, given the rows,
\* tasks and labels after the step.
RefreshedStatus(w, rows, tk, lb) ==
  LET done == {o \in TasksOf(tk, w) : tk[o].st = "picked"}
  IN IF /\ wave[w].st = "verification"
        /\ ActiveTasks(tk, w) = {}
        /\ \A o \in done : /\ AllPicked(rows[o]) /\ short[o] = {}
                           /\ VerifiedRows(rows[o])
                           /\ lb[o] = "applied"
     THEN "done" ELSE wave[w].st

\* The verification whose controller must scan the label: of all waves that
\* hold a task of the order, canceled ones included, the oldest.
LabelWaves(o) ==
  {w \in past[o] \cup {task[o].wave} : w \in Waves /\ wave[w].st = "verification"}
LabelWave(o) ==
  CHOOSE w \in LabelWaves(o) : \A v \in LabelWaves(o) : w <= v

\* confirm_order_label_scan: the order is ready for handover, and every wave
\* that ever held it is looked at again.
ConfirmLabel(k, o) ==
  LET lb == [label EXCEPT ![o] = "applied"]
  IN /\ label[o] = "ready" /\ ord[o] = "picked"
     /\ LabelWaves(o) # {} => wave[LabelWave(o)].ctrl = k
     /\ ~ShortageBlocks(o) /\ AllPicked(alloc[o]) /\ VerifiedRows(alloc[o])
     /\ label' = lb
     /\ ord' = [ord EXCEPT ![o] = "ready_for_handover"]
     /\ wave' = [w \in Waves |->
          IF w \in past[o] \cup {task[o].wave}
          THEN [wave[w] EXCEPT !.st = RefreshedStatus(w, alloc, task, lb)]
          ELSE wave[w]]
     /\ UNCHANGED <<mkt, stockVars, lock, alloc, taskVars, issueVars,
                    wPlanned, wPicked>>

\* report_verification_problem: the order's goods go to a problem box, its
\* open labels and rows are canceled, and the rest of the wave may be done.
ReportProblem(k, o) ==
  LET w == task[o].wave
      rows == [alloc EXCEPT ![o] = [b \in Balances |->
                 IF @[b].st = "picked" THEN [@[b] EXCEPT !.st = "canceled"]
                 ELSE @[b]]]
      tk == [task EXCEPT ![o].st = "exception"]
      lb == [label EXCEPT ![o] = "none"]
  IN /\ task[o].st = "picked" /\ label[o] # "applied"
     /\ wave[w].ctrl = k /\ wave[w].st = "verification" /\ wave[w].handed
     /\ AllPicked(alloc[o]) /\ short[o] = {}
     /\ \A b \in Balances : alloc[o][b].picked = alloc[o][b].res
     /\ alloc' = rows /\ task' = tk /\ label' = lb
     /\ ord' = [ord EXCEPT ![o] = "exception"]
     /\ wave' = [wave EXCEPT ![w].st = RefreshedStatus(w, rows, tk, lb)]
     /\ UNCHANGED <<mkt, stockVars, lock, tPlanned, tPicked, past, issueVars,
                    wPlanned, wPicked>>

-----------------------------------------------------------------------------
VerifySteps ==
  \/ \E k \in Controllers, w \in Waves : ClaimVerification(k, w)
  \/ \E k \in Controllers, o \in Orders, b \in Balances : VerifyUnit(k, o, b)
  \/ \E o \in Orders : PrefetchLabel(o) \/ RegisterLabel(o)
  \/ \E k \in Controllers, o \in Orders :
       ConfirmLabel(k, o) \/ ReportProblem(k, o)

Next == PickingNext \/ VerifySteps

Spec == Init /\ [][Next]_vars

-----------------------------------------------------------------------------
(***************************************************************************)
(* Properties.                                                             *)
(***************************************************************************)

\* Nothing is verified that was not picked, and nothing is picked that was not
\* reserved, in any row and through every partial shortage.
ProgressSound ==
  \A o \in Orders, b \in Balances :
    /\ alloc[o][b].ver <= alloc[o][b].picked
    /\ alloc[o][b].picked <= alloc[o][b].res

\* A label is stuck only on a complete order: every unit ordered was picked
\* and verified, and none of them was reported missing from this pick.
LabelMeansComplete ==
  \A o \in Orders : label[o] = "applied" =>
    /\ SumOf(Picked, alloc[o]) = Need[o]
    /\ AllPicked(alloc[o]) /\ VerifiedRows(alloc[o])
    /\ short[o] = {}

\* A wave is done only when every order left in it has its label on verified
\* goods, whichever of the closing paths was taken.
DoneWaveIsLabelled ==
  \A w \in Waves : wave[w].st = "done" =>
    \A o \in TasksOf(task, w) :
      \/ task[o].st = "exception" /\ label[o] = "none"
      \/ /\ ord[o] = "ready_for_handover" /\ label[o] = "applied"
         /\ VerifiedRows(alloc[o])

\* A verified wave is done at once: once all its tasks are closed and labelled
\* (at least one), the last label or problem report leaves nothing to wait for.
NoWaveLeftOpen ==
  \A w \in Waves : wave[w].st = "verification" =>
    \E o \in TasksOf(task, w) : task[o].st = "picked" /\ label[o] # "applied"
=============================================================================
