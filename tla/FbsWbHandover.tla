----------------------------- MODULE FbsWbHandover -----------------------------
(***************************************************************************)
(* The command outbox (services/marketplace.py) for one Wildberries supply *)
(* that ships the orders of one wave: create the supply, add the orders,   *)
(* take orders out again, deliver.  A write is never trusted: an accepted  *)
(* or unclear one goes to status conflict until a read of the supply has   *)
(* settled it.  Meanwhile controllers pack, report problems and take       *)
(* orders back (pick_restock.py, problems.py, handover.py), and buyers and *)
(* the seller act at WB.  A request and its answer are separate steps, so  *)
(* an answer may be applied to rows others have moved on.  A write has one *)
(* readback at a time, and the readbacks of an attempt follow each other;  *)
(* the search through the other supplies is one read.  Backoff, boxes,     *)
(* labels and the codes' own commands are left out, and so are workers     *)
(* slower than the stale timeout.                                          *)
(***************************************************************************)
EXTENDS Naturals

CONSTANTS
  Orders,       \* the orders of the wave
  MaxAttempts,  \* FBS_MARKETPLACE_MAX_ATTEMPTS
  MaxTrouble    \* bound on lost requests and answers, failed reads, refused
                \* codes, and moves of buyers, the seller and the operators

ASSUME HandoverAssumption ==
  /\ MaxAttempts \in Nat \ {0}
  /\ MaxTrouble \in Nat

VARIABLES
  batch,   \* FbsHandoverBatch: status, marketplace_state, external_supply_id known
  asg,     \* asg[o]: FbsHandoverOrderAssignment.status, moved: to another batch
  ord,     \* ord[o]: internal_status; ready: labelled and in an active box link
  ret,     \* ret[o]: FbsPickRestockRequest, and the gap it went through
  kiz,     \* kiz[o]: the marking code's transfer; refused: WB's word is on its way
  told,    \* the orders the import saw cancelled
  cmd,     \* cmd[w]: status, attempt_count and WB's answer to write w
  read,    \* read[w]: the readback that settles write w
  view,    \* the composition sync under way: the orders it saw
  supply,  \* at WB: supplies made under the name, delivered, deleted
  place,   \* at WB: where order o is; late: put here by a forgotten request
  dead,    \* at WB: the cancelled orders
  late,    \* writes nobody waits for that may still reach WB
  trouble

people == <<ord, ret, kiz, told>>
wbVars == <<supply, place, dead, late>>
vars == <<batch, asg, ord, ret, kiz, told, cmd, read, view,
          supply, place, dead, late, trouble>>

Create == <<"create", "batch">>
Deliver == <<"deliver", "batch">>
Add(o) == <<"add", o>>
Cancel(o) == <<"cancel", o>>
Writes == {Create, Deliver} \cup {Add(o) : o \in Orders} \cup {Cancel(o) : o \in Orders}

Active == {"pending", "retry"}
Open == {"pending", "sent", "retry"}
NoCommand == [st |-> "none", tries |-> 0, ans |-> "none"]
NoRead == [at |-> "none", st |-> "none", tries |-> 0, ans |-> "none"]
NoReturn == [st |-> "none", act |-> "none", client |-> FALSE, gap |-> "none"]
NoView == [on |-> FALSE, seen |-> {}]

Init ==
  /\ batch = [st |-> "open", mk |-> "draft", known |-> FALSE]
  /\ asg = [o \in Orders |-> "none"]
  /\ ord = [o \in Orders |-> "picked"]
  /\ ret = [o \in Orders |-> NoReturn]
  /\ kiz = [o \in Orders |-> "ok"]
  /\ told = {}
  /\ cmd = [w \in Writes |-> NoCommand]
  /\ read = [w \in Writes |-> NoRead]
  /\ view = NoView
  /\ supply = [made |-> 0, closed |-> FALSE, gone |-> FALSE]
  /\ place = [o \in Orders |-> "free"]
  /\ dead = {} /\ late = {}
  /\ trouble = 0

Trouble == trouble < MaxTrouble /\ trouble' = trouble + 1

Here(o) == place[o] \in {"here", "late"}
Excluded(o) == ord[o] = "exception" \/ asg[o] = "canceled"

-----------------------------------------------------------------------------
\* Commands.

\* _enqueue_handover_spec: the command with the key is left as it is.
Enqueue(table, w) ==
  IF table[w].st = "none" THEN [table EXCEPT ![w].st = "pending"] ELSE table

Ask(table, w, at) ==
  [table EXCEPT ![w] = [at |-> at, st |-> "pending", tries |-> 0, ans |-> "none"]]

\* Mutant of Settle: the answer is looked at once more.
SettleTwice(table, w, st) == [table EXCEPT ![w].st = st]

Settle(table, w, st) == [table EXCEPT ![w] = [@ EXCEPT !.st = st, !.ans = "none"]]

\* _confirm_command: the attempts of a confirmed command no longer matter.
Confirm(table, w) == [table EXCEPT ![w] = [NoCommand EXCEPT !.st = "confirmed"]]

\* _set_retry_or_failed
RetryOrFailed(table, w) ==
  Settle(table, w, IF table[w].tries >= MaxAttempts THEN "failed" ELSE "retry")

\* _confirm_uncertain_write, _retry_uncertain_write, _fail_uncertain_write
InDoubt(w) == cmd[w].st = "conflict"
Confirmed(w) == IF InDoubt(w) THEN Confirm(cmd, w) ELSE cmd
Retried(w) == IF InDoubt(w) THEN RetryOrFailed(cmd, w) ELSE cmd
Failed(w) == IF InDoubt(w) THEN Settle(cmd, w, "failed") ELSE cmd

\* The cancellation of an order's open commands; one in flight stays in flight.
Cancelled(table, writes, statuses) ==
  [w \in Writes |-> IF w \in writes /\ table[w].st \in statuses
                    THEN [table[w] EXCEPT !.st = "cancelled"] ELSE table[w]]

\* The readback a write's doubt is settled by.
Readback(w) ==
  CASE w[1] = "create" -> "find" [] w[1] = "add" -> "presence"
    [] w[1] = "cancel" -> "absence" [] w[1] = "deliver" -> "done"

\* Mutant of MayLeave: a delivery under way is not looked at.
MayLeaveAnyTime == batch.st \in {"open", "ready"} /\ batch.known

\* An order may be taken out of a supply that is not being delivered.
MayLeave ==
  /\ batch.st \in {"open", "ready"}
  /\ batch.known /\ batch.mk \notin {"delivery_pending", "complete"}

\* For the properties: the order leaves while a delivery WB stopped is waiting.
Gap == IF batch.mk = "error" /\ cmd[Deliver].st \in {"conflict", "failed"}
       THEN "delivery" ELSE "none"

\* _create_order_pick_restock_request: what it writes about the order.
TakenOut(act, client) ==
  [st |-> "waiting", act |-> act, client |-> client, gap |-> Gap]

(***************************************************************************)
(* What a transaction commits: b, a, table and reads are its own writes,   *)
(* and _sync_handover_failure adds the consequences of commands that       *)
(* failed.  An add that failed because the order is elsewhere or over      *)
(* (conclusive) also returns the order, if its wave is at the controller.  *)
(***************************************************************************)
Commit(b, a, table, reads, conclusive) ==
  LET New(old, new, w) == new[w].st = "failed" /\ old[w].st # "failed"
      lost == {o \in Orders : New(cmd, table, Add(o)) /\ a[o] # "moved"}
      stuck == {o \in Orders : \/ New(cmd, table, Cancel(o))
                               \/ New(read, reads, Cancel(o))}
      may == {o \in lost : conclusive /\ ret[o].st = "none" /\ MayLeave}
  IN \E back \in SUBSET may :
       /\ cmd' = table
       /\ asg' = [o \in Orders |-> IF o \in lost THEN "error" ELSE a[o]]
       /\ ord' = [o \in Orders |-> IF o \in back THEN "exception" ELSE ord[o]]
       /\ ret' = [o \in Orders |->
            CASE o \in back -> TakenOut("verify", FALSE)
              [] o \in stuck /\ ret[o].st = "waiting" -> [ret[o] EXCEPT !.st = "failed"]
              [] OTHER -> ret[o]]
       /\ read' = [w \in Writes |->
            IF w \in {Cancel(o) : o \in back} THEN Ask(reads, w, "absence")[w] ELSE reads[w]]
       /\ batch' = IF \E w \in {Create, Deliver} : New(cmd, table, w)
                   THEN [b EXCEPT !.mk = "error"] ELSE b

\* Mutant of Deferred: an unclear add or cancellation waits for the periodic sync.
DeferredToSync(w) ==
  Commit(batch, asg, Settle(cmd, w, "conflict"),
         IF w \in {Create, Deliver} THEN Ask(read, w, Readback(w)) ELSE read, FALSE)

\* _defer_wb_handover_write_to_readback
Deferred(w) ==
  Commit(batch, asg, Settle(cmd, w, "conflict"), Ask(read, w, Readback(w)), FALSE)

-----------------------------------------------------------------------------
\* Scheduling.

\* schedule_wb_handover_order, and schedule_wb_handover_supply before it.
Scheduled(o) ==
  IF batch.known
  THEN cmd' = Enqueue(cmd, Add(o)) /\ UNCHANGED batch
  ELSE cmd' = Enqueue(cmd, Create) /\ batch' = [batch EXCEPT !.mk = "creating"]

\* ensure_order_handover_assignment
Assign(o) ==
  /\ asg[o] = "none" /\ ord[o] = "picked"
  /\ batch.st = "open" /\ batch.mk \in {"draft", "creating", "open"}
  /\ asg' = [asg EXCEPT ![o] = "pending"]
  /\ Scheduled(o)
  /\ UNCHANGED <<people, read, view, wbVars, trouble>>

\* _schedule_pending_handover_commands
Schedule(o) ==
  /\ asg[o] = "pending" /\ ord[o] = "picked" /\ batch.st = "open"
  /\ Scheduled(o)
  /\ UNCHANGED <<asg, people, read, view, wbVars, trouble>>

\* process_marketplace_command up to its request: an add whose order is out is
\* cancelled, one whose order is over fails.
Claim(w) ==
  /\ cmd[w].st \in Active
  /\ IF w[1] = "add" /\ Excluded(w[2])
     THEN /\ cmd' = Settle(cmd, w, "cancelled")
          /\ asg' = [asg EXCEPT ![w[2]] = IF @ \in {"pending", "error"} THEN "canceled" ELSE @]
          /\ UNCHANGED <<batch, ord, ret, read>>
     ELSE IF w[1] = "add" /\ w[2] \in told
     THEN Commit(batch, asg, Settle(cmd, w, "failed"), read, TRUE)
     ELSE /\ cmd' = [cmd EXCEPT ![w] = [st |-> "sent", tries |-> @.tries + 1, ans |-> "asked"]]
          /\ UNCHANGED <<batch, asg, ord, ret, read>>
  /\ UNCHANGED <<kiz, told, view, wbVars, trouble>>

-----------------------------------------------------------------------------
\* Wildberries.

Carriable(w) ==
  CASE w[1] = "create" -> TRUE
    [] w[1] = "add" -> /\ ~supply.gone /\ ~supply.closed
                       /\ w[2] \notin dead /\ ~Here(w[2])
    [] w[1] = "cancel" -> w[2] \notin dead /\ ~(supply.closed /\ Here(w[2]))
    [] w[1] = "deliver" -> /\ ~supply.gone /\ ~supply.closed
                           /\ \E o \in Orders : Here(o)

Carry(w, as) ==
  /\ supply' = CASE w[1] = "create" -> [supply EXCEPT !.made = @ + 1]
                 [] w[1] = "deliver" -> [supply EXCEPT !.closed = TRUE]
                 [] OTHER -> supply
  /\ place' = IF w[1] = "add" THEN [place EXCEPT ![w[2]] = as] ELSE place
  /\ dead' = IF w[1] = "cancel" THEN dead \cup {w[2]} ELSE dead

Ignore == UNCHANGED <<supply, place, dead>>

\* What WB answers to a write it does not carry out.
Refusals(w) ==
  CASE w[1] = "add" /\ supply.gone -> {"refused"}
    [] w[1] = "add" /\ w[2] \in dead -> {"refused", "unclear"}
    [] w[1] = "add" /\ Here(w[2]) -> {"ok", "unclear"}
    [] w[1] = "add" -> {"unclear"}
    [] w[1] = "cancel" -> {"refused", "unclear"}
    [] w[1] = "deliver" -> IF supply.gone THEN {"refused"} ELSE {"unclear"}

\* WB answers a write; a delivery is refused for the codes of some orders.
Land(w) ==
  /\ cmd[w].ans = "asked"
  /\ \/ /\ Carriable(w) /\ Carry(w, "here")
        /\ cmd' = [cmd EXCEPT ![w].ans = "ok"]
        /\ UNCHANGED <<kiz, trouble>>
     \/ /\ ~Carriable(w) \/ (w[1] = "add" /\ place[w[2]] = "elsewhere")
        /\ Ignore
        /\ \E a \in IF Carriable(w) THEN {"unclear"} ELSE Refusals(w) :
             cmd' = [cmd EXCEPT ![w].ans = a]
        /\ UNCHANGED <<kiz, trouble>>
     \/ /\ w = Deliver /\ Carriable(w) /\ Ignore
        /\ Trouble
        /\ \E bad \in (SUBSET {o \in Orders : Here(o) /\ o \notin dead /\ kiz[o] = "ok"}) \ {{}} :
             kiz' = [o \in Orders |-> IF o \in bad THEN "refused" ELSE kiz[o]]
        /\ cmd' = [cmd EXCEPT ![w].ans = "kiz"]
  /\ UNCHANGED <<batch, asg, ord, ret, told, read, view, late>>

\* The request or its answer is lost, or the worker dies; a request that is
\* lost on the way may arrive when nobody waits for it any more.  The command
\* of a dead worker is deferred if it is still sent, as an accepted one is.
Lose(w) ==
  /\ cmd[w].ans = "asked" /\ Trouble
  /\ \/ /\ Carriable(w) /\ Carry(w, "here")
        /\ cmd' = [cmd EXCEPT ![w].ans = "unclear"] /\ UNCHANGED late
     \/ /\ Ignore /\ late' \in {late, late \cup {w}}
        /\ \E a \in IF w[1] \in {"add", "cancel"} THEN {"ok", "unclear"} ELSE {"unclear"} :
             cmd' = [cmd EXCEPT ![w].ans = a]
  /\ UNCHANGED <<batch, asg, people, read, view>>

LandLate(w) ==
  /\ w \in late /\ late' = late \ {w}
  /\ IF Carriable(w) THEN Carry(w, "late") ELSE Ignore
  /\ UNCHANGED <<batch, asg, people, cmd, read, view, trouble>>

\* A read of the supply; whether a cancelled order still shows is WB's affair.
SupplyAnswers(at, o) ==
  CASE at = "presence" /\ supply.gone -> {"missing"}
    [] at # "presence" /\ supply.gone -> {"refused"}
    [] at \in {"presence", "done"} /\ ~supply.gone ->
         {IF supply.closed THEN "closed" ELSE "open"}
    [] at \in {"member", "absence"} /\ ~supply.gone ->
         {IF Here(o) THEN "here" ELSE "away"} \cup (IF o \in dead THEN {"away"} ELSE {})

Answers(w) ==
  CASE read[w].at = "find" ->
         {IF supply.made = 0 THEN "nothing" ELSE IF supply.made = 1 THEN "one" ELSE "several"}
    [] read[w].at = "lookup" ->
         {IF place[w[2]] = "elsewhere" THEN "elsewhere" ELSE "nowhere"}
    [] OTHER -> SupplyAnswers(read[w].at, w[2])

\* process_marketplace_command for a read, up to its answer: an error is a lost
\* answer, HTTP 429 or 5xx, a conflict HTTP 409.
AskWb(w) ==
  /\ read[w].st \in Active /\ read[w].ans = "none"
  /\ \E a \in Answers(w) \cup {"error", "conflict"} :
       /\ IF a \in {"error", "conflict"} THEN Trouble ELSE UNCHANGED trouble
       /\ read' = [read EXCEPT ![w] = [at |-> @.at, st |-> "sent", tries |-> @.tries + 1, ans |-> a]]
  /\ UNCHANGED <<batch, asg, people, cmd, view, wbVars>>

-----------------------------------------------------------------------------
\* The answers to writes.

OrdersAdded == {o \in Orders : asg[o] = "pending" /\ ord[o] = "picked"}
Scheduling(table, orders) ==
  [w \in Writes |-> IF \E o \in orders : w = Add(o) THEN Enqueue(table, w)[w] ELSE table[w]]
Known == [batch EXCEPT !.known = TRUE, !.mk = "open"]

\* handover_composition_readiness
Composed ==
  LET current == {o \in Orders : asg[o] \notin {"none", "canceled", "moved"}}
  IN /\ current # {}
     /\ \A o \in Orders : ret[o].st \notin {"waiting", "failed"}
     /\ \A o \in current : /\ asg[o] = "confirmed"
                           /\ ord[o] \in {"ready", "handed"}
                           /\ kiz[o] \in {"ok", "refused"}

HandedOver == [o \in Orders |-> IF ord[o] = "ready" THEN "handed" ELSE ord[o]]

\* The supply is delivered; auto_dispatch_verified_wb_handover may follow.
Delivered(table, reads) ==
  /\ cmd' = table /\ read' = reads
  /\ \E auto \in BOOLEAN :
       IF auto /\ batch.st = "ready" /\ Composed
       THEN batch' = [batch EXCEPT !.mk = "complete", !.st = "dispatched"] /\ ord' = HandedOver
       ELSE batch' = [batch EXCEPT !.mk = "complete"] /\ UNCHANGED ord
  /\ UNCHANGED <<asg, ret>>

\* _apply_success for a write; what WB accepted of an add or a cancellation is
\* checked by a readback, unless the command was cancelled meanwhile.
Accepted(w) ==
  /\ cmd[w].ans = "ok"
  /\ CASE w = Create ->
            Commit(Known, asg, Scheduling(Confirm(cmd, w), OrdersAdded), read, FALSE)
       [] w = Deliver -> Delivered(Confirm(cmd, w), read)
       [] w[1] \in {"add", "cancel"} ->
            IF cmd[w].st = "sent" THEN Deferred(w)
            ELSE Commit(batch, asg, Settle(cmd, w, cmd[w].st), read, FALSE)
  /\ UNCHANGED <<kiz, told, view, wbVars, trouble>>

\* A lost answer, HTTP 409, 429 or 5xx.
Unclear(w) ==
  /\ cmd[w].ans = "unclear" /\ Deferred(w)
  /\ UNCHANGED <<kiz, told, view, wbVars, trouble>>

\* _mark_http_failure
Refused(w) ==
  /\ cmd[w].ans = "refused"
  /\ Commit(batch, asg, Settle(cmd, w, "failed"), read, FALSE)
  /\ UNCHANGED <<kiz, told, view, wbVars, trouble>>

\* _mark_wb_deliver_metadata_rejections
CodesRefused ==
  /\ cmd[Deliver].ans = "kiz"
  /\ kiz' = [o \in Orders |-> IF kiz[o] = "refused" THEN "rejected" ELSE kiz[o]]
  /\ Commit([batch EXCEPT !.mk = "error"], asg, Settle(cmd, Deliver, "conflict"), read, FALSE)
  /\ UNCHANGED <<told, view, wbVars, trouble>>

-----------------------------------------------------------------------------
\* The answers to readbacks.

Reading(w, at, answer) == read[w].at = at /\ read[w].ans = answer
Done(w) == [read EXCEPT ![w] = NoRead]   \* confirmed, and of no further use
Unread == <<kiz, told, view, wbVars, trouble>>

\* A read given up: failed for good, or in conflict, which nobody retries and
\* which is not the failure that its request is told of.
GivenUp(w) == read[w].st \in {"failed", "conflict"}

\* _mark_http_failure, _mark_retry: a search that is given up has its add tried
\* again (_sync_handover_failure), any other read leaves its write in doubt.
ReadFailed(w) ==
  /\ read[w].ans \in {"error", "refused", "conflict"}
     \/ Reading(w, "find", "several")
  /\ LET reads == CASE read[w].ans = "refused" -> Settle(read, w, "failed")
                    [] read[w].ans = "conflict" -> Settle(read, w, "conflict")
                    [] OTHER -> RetryOrFailed(read, w)
     IN Commit(batch, asg,
               IF read[w].at = "lookup" /\ reads[w].st \in {"failed", "conflict"}
               THEN Retried(w) ELSE cmd,
               reads, FALSE)
  /\ UNCHANGED Unread

\* WB_READ_HANDOVER_SUPPLIES after an unclear create
Found ==
  /\ Reading(Create, "find", "one")
  /\ Commit(Known, asg, Scheduling(Confirmed(Create), OrdersAdded), Done(Create), FALSE)
  /\ UNCHANGED Unread

NotFound ==
  /\ Reading(Create, "find", "nothing")
  /\ Commit(batch, asg, Retried(Create), Done(Create), FALSE)
  /\ UNCHANGED Unread

\* WB_READ_HANDOVER_SUPPLY, "add_order_supply_presence"
SupplyOpen(o) ==
  /\ Reading(Add(o), "presence", "open")
  /\ Commit(batch, asg, cmd, Ask(read, Add(o), "member"), FALSE)
  /\ UNCHANGED Unread

SupplyClosed(o) ==
  /\ Reading(Add(o), "presence", "closed")
  /\ Commit([batch EXCEPT !.mk = "complete"], asg, Failed(Add(o)), Done(Add(o)), FALSE)
  /\ UNCHANGED Unread

\* _recover_missing_wb_handover_supply: the orders not packed yet go on in a
\* new batch, which this model does not follow.
SupplyMissing(o) ==
  /\ Reading(Add(o), "presence", "missing")
  /\ LET moved == {x \in Orders : asg[x] \in {"pending", "error"} /\ ord[x] = "picked"}
         left == {Add(x) : x \in moved} \cup {Cancel(x) : x \in moved}
     IN /\ batch' = [batch EXCEPT !.st = "problem", !.mk = "error"]
        /\ asg' = [x \in Orders |-> IF x \in moved THEN "moved" ELSE asg[x]]
        /\ cmd' = [w \in Writes |-> IF w \in left THEN NoCommand ELSE cmd[w]]
        /\ read' = [w \in Writes |-> IF w \in left THEN NoRead ELSE Done(Add(o))[w]]
        /\ UNCHANGED <<ord, ret>>
  /\ UNCHANGED Unread

\* WB_READ_HANDOVER_ORDER_IDS, "add_order_target_membership"
Member(o) ==
  /\ Reading(Add(o), "member", "here")
  /\ told' = told \ {o}
  /\ Commit(batch, [asg EXCEPT ![o] = "confirmed"], Confirmed(Add(o)), Done(Add(o)), FALSE)
  /\ UNCHANGED <<kiz, view, wbVars, trouble>>

NoMember(o) ==
  /\ Reading(Add(o), "member", "away")
  /\ Commit(batch, asg, cmd, Ask(read, Add(o), "lookup"), FALSE)
  /\ UNCHANGED Unread

\* "locate_order_supply": an order that is elsewhere or over is given up.
Located(o) ==
  /\ read[Add(o)].at = "lookup" /\ read[Add(o)].ans \in {"elsewhere", "nowhere"}
  /\ LET over == read[Add(o)].ans = "elsewhere" \/ o \in told
     IN Commit(batch, asg, IF over THEN Failed(Add(o)) ELSE Retried(Add(o)), Done(Add(o)), over)
  /\ UNCHANGED Unread

\* "exclude_order_supply_absence": what WB still shows of an order its buyer
\* cancelled does not count.
BuyerCancelled(o) == ret[o].act = "verify" /\ ret[o].client /\ o \in told

StillThere(o) ==
  /\ Reading(Cancel(o), "absence", "here") /\ ~BuyerCancelled(o)
  /\ Commit(batch, asg, cmd,
            IF read[Cancel(o)].st = "sent" THEN RetryOrFailed(read, Cancel(o))
            ELSE Settle(read, Cancel(o), read[Cancel(o)].st), FALSE)
  /\ UNCHANGED Unread

\* queue_order_pick_restock_after_marketplace: an order that left is returned;
\* reads of a supply's orders go on, and so does a search that has come to them.
HasLeft(o) ==
  /\ \/ Reading(Cancel(o), "absence", "away")
     \/ Reading(Cancel(o), "absence", "here") /\ BuyerCancelled(o)
  /\ ret' = [ret EXCEPT ![o].st = "queued"]
  /\ ord' = [ord EXCEPT ![o] = "exception"]
  /\ asg' = [asg EXCEPT ![o] = "canceled"]
  /\ kiz' = [kiz EXCEPT ![o] = IF @ = "rejected" THEN "dropped" ELSE @]
  /\ cmd' = Cancelled(Confirmed(Cancel(o)), {Add(o)}, Open)
  /\ \E kept \in CASE read[Add(o)].at = "member" -> {TRUE}
                    [] read[Add(o)].at = "lookup" -> BOOLEAN
                    [] OTHER -> {FALSE} :
       read' = Cancelled(Done(Cancel(o)), IF kept THEN {} ELSE {Add(o)}, Open)
  /\ UNCHANGED <<batch, told, view, wbVars, trouble>>

\* WB_READ_HANDOVER_SUPPLY after an unclear delivery
IsDelivered ==
  /\ Reading(Deliver, "done", "closed")
  /\ Delivered(Confirmed(Deliver), Done(Deliver))
  /\ UNCHANGED Unread

NotDelivered ==
  /\ Reading(Deliver, "done", "open")
  /\ Commit(batch, asg, Retried(Deliver), Done(Deliver), FALSE)
  /\ UNCHANGED Unread

\* The composition sync reads the supply and settles what is confirmed or
\* failed: _reconcile_wb_handover_composition, at once or, as trouble, later.
Settled == {o \in Orders : asg[o] \in {"confirmed", "error"}}

\* Mutant of Reconciled: an order the supply does not show is to be added again.
ReconciledAgain(seen) ==
  [o \in Orders |-> IF o \notin Settled THEN asg[o]
                    ELSE IF o \in seen THEN "confirmed" ELSE "pending"]

Reconciled(seen) ==
  [o \in Orders |-> IF o \notin Settled THEN asg[o]
                    ELSE IF o \in seen THEN "confirmed" ELSE "error"]

Surveyable ==
  /\ ~view.on /\ batch.st \in {"open", "ready"} /\ batch.known /\ ~supply.gone
  /\ Settled # {}
Views == {{o \in Orders : Here(o)} \ hidden : hidden \in SUBSET dead}

Sync ==
  /\ Surveyable /\ \E seen \in Views : asg' = Reconciled(seen)
  /\ UNCHANGED <<batch, people, cmd, read, view, wbVars, trouble>>

Survey ==
  /\ Surveyable /\ Trouble
  /\ \E seen \in Views : view' = [on |-> TRUE, seen |-> seen]
  /\ UNCHANGED <<batch, asg, people, cmd, read, wbVars>>

Reconcile ==
  /\ view.on /\ view' = NoView
  /\ asg' = Reconciled(view.seen)
  /\ UNCHANGED <<batch, people, cmd, read, wbVars, trouble>>

-----------------------------------------------------------------------------
\* The controllers.

\* confirm_order_label_and_pack, verify_handover_order_label
Pack(o) ==
  /\ ord[o] = "picked" /\ asg[o] = "confirmed" /\ batch.st = "open"
  /\ ord' = [ord EXCEPT ![o] = "ready"]
  /\ UNCHANGED <<batch, asg, ret, kiz, told, cmd, read, view, wbVars, trouble>>

\* request_wb_handover_delivery, schedule_wb_handover_delivery
RequestDelivery ==
  /\ batch.st \in {"open", "ready"} /\ Composed
  /\ cmd' = Enqueue(cmd, Deliver)
  /\ batch' = [batch EXCEPT !.st = "ready",
       !.mk = CASE cmd[Deliver].st = "confirmed" -> "complete"
                [] cmd[Deliver].st = "failed" -> "error"
                [] OTHER -> "delivery_pending"]
  /\ UNCHANGED <<asg, people, read, view, wbVars, trouble>>

\* dispatch_handover_batch
Dispatch ==
  /\ batch.st = "ready" /\ batch.mk = "complete" /\ Composed
  /\ batch' = [batch EXCEPT !.st = "dispatched"]
  /\ ord' = HandedOver
  /\ UNCHANGED <<asg, ret, kiz, told, cmd, read, view, wbVars, trouble>>

\* _retry_wb_marking_code_once, once WB has confirmed the new code:
\* _resume_wb_delivery_after_rejected_kiz_confirmation
FixCode(o) ==
  /\ kiz[o] = "rejected" /\ o \notin told \cup dead /\ batch.st \in {"open", "ready"}
  /\ kiz' = [kiz EXCEPT ![o] = "ok"]
  /\ IF /\ batch.st = "ready" /\ cmd[Deliver].st = "conflict"
        /\ \A x \in Orders : kiz'[x] \notin {"rejected", "dropped"}
     THEN cmd' = Settle(cmd, Deliver, "retry") /\ batch' = [batch EXCEPT !.mk = "delivery_pending"]
     ELSE UNCHANGED <<cmd, batch>>
  /\ UNCHANGED <<asg, ord, ret, told, read, view, wbVars, trouble>>

\* _create_order_pick_restock_request and schedule_wb_order_exclusion after it:
\* a buyer's cancellation counts once the marketplace reports it.
MayExclude(o, client, reported) ==
  /\ ret[o].st = "none" /\ MayLeave
  /\ \/ asg[o] = "error"
     \/ asg[o] = "confirmed" /\ ord[o] = "ready" /\ (client => reported)

TakeOut(o, client) ==
  /\ ord' = [ord EXCEPT ![o] = "exception"]
  /\ IF asg[o] = "error" \/ client
     THEN /\ ret' = [ret EXCEPT ![o] = TakenOut("verify", client)]
          /\ read' = Ask(read, Cancel(o), "absence") /\ UNCHANGED cmd
     ELSE /\ ret' = [ret EXCEPT ![o] = TakenOut("seller", FALSE)]
          /\ cmd' = Enqueue(cmd, Cancel(o)) /\ UNCHANGED read

Exclude(o, client) ==
  /\ MayExclude(o, client, o \in told) /\ TakeOut(o, client)
  /\ UNCHANGED <<batch, asg, kiz, told, view, wbVars, trouble>>

\* retry_order_pick_restock_marketplace
RetryExclusion(o) ==
  /\ ret[o].st = "failed" /\ Trouble
  /\ ret' = [ret EXCEPT ![o].st = "waiting"]
  /\ IF ret[o].act = "verify"
     THEN /\ read' = IF GivenUp(Cancel(o)) THEN Settle(read, Cancel(o), "retry") ELSE read
          /\ UNCHANGED cmd
     ELSE /\ cmd' = IF cmd[Cancel(o)].st \in {"failed", "conflict"}
                    THEN Settle(cmd, Cancel(o), "retry") ELSE cmd
          /\ UNCHANGED read
  /\ UNCHANGED <<batch, asg, ord, kiz, told, view, wbVars>>

\* Mutant of MayContain: an add in doubt is taken for one that failed.
MayContainUnlessInDoubt(o) == asg[o] = "confirmed" \/ cmd[Add(o)].st \in {"sent", "confirmed"}

\* marketplace_may_contain_order
MayContain(o) == asg[o] = "confirmed" \/ cmd[Add(o)].st \in {"sent", "confirmed", "conflict"}

\* queue_verification_problem_restock: a picked order is taken back at once
\* unless WB may have it; then only if it is cancelled, and after a readback.
ReportProblem(o) ==
  /\ ord[o] = "picked" /\ ret[o].st = "none" /\ asg[o] # "moved"
  /\ MayContain(o) => o \in told
  /\ ord' = [ord EXCEPT ![o] = "exception"]
  /\ IF MayContain(o)
     THEN /\ ret' = [ret EXCEPT ![o] = TakenOut("verify", TRUE)]
          /\ read' = Ask(read, Cancel(o), "absence")
          /\ UNCHANGED <<asg, cmd>>
     ELSE /\ ret' = [ret EXCEPT ![o] = [TakenOut("none", o \in told) EXCEPT !.st = "queued"]]
          /\ asg' = [asg EXCEPT ![o] = IF @ \in {"pending", "error"} THEN "canceled" ELSE @]
          /\ cmd' = Cancelled(cmd, {Add(o)}, Active)
          /\ UNCHANGED read
  /\ UNCHANGED <<batch, kiz, told, view, wbVars, trouble>>

\* create_pick_restock_request: the whole wave goes back to stock, unless WB
\* has confirmed one of its orders.  An add under way is not looked at.
ReturnWave ==
  /\ Trouble
  /\ \A o \in Orders : /\ ord[o] = "picked" /\ ret[o].st = "none"
                       /\ asg[o] \notin {"confirmed", "moved"}
                       /\ cmd[Add(o)].st # "confirmed"
  /\ ret' = [o \in Orders |-> [NoReturn EXCEPT !.st = "queued",
               !.gap = IF cmd[Add(o)].st \in {"sent", "conflict"} THEN "wave" ELSE "none"]]
  /\ ord' = [o \in Orders |-> "exception"]
  /\ asg' = [o \in Orders |-> IF asg[o] = "none" THEN "none" ELSE "canceled"]
  /\ LET own == {Add(o) : o \in Orders}
     IN cmd' = Cancelled(cmd, own, Open) /\ read' = Cancelled(read, own, Open)
  /\ UNCHANGED <<batch, kiz, told, view, wbVars>>

-----------------------------------------------------------------------------
\* Buyers, the seller at WB, and the import.

ClientCancels(o) ==
  /\ o \notin dead /\ ~supply.closed /\ Trouble
  /\ dead' = dead \cup {o}
  /\ UNCHANGED <<batch, asg, people, cmd, read, view, supply, place, late>>

SellerMoves(o) ==
  /\ place[o] # "elsewhere" /\ o \notin dead /\ ~(supply.closed /\ Here(o)) /\ Trouble
  /\ place' = [place EXCEPT ![o] = "elsewhere"]
  /\ UNCHANGED <<batch, asg, people, cmd, read, view, supply, dead, late>>

SellerDeletes ==
  /\ supply.made = 1 /\ batch.known /\ ~supply.closed /\ ~supply.gone /\ Trouble
  /\ \A o \in Orders : ~Here(o)
  /\ supply' = [supply EXCEPT !.gone = TRUE]
  /\ UNCHANGED <<batch, asg, people, cmd, read, view, place, dead, late>>

\* _apply_imported_order_stock_state: a cancellation told again has no effect
\* but what ensure_cancelled_order_pick_restock finds to do now.
Import(o) ==
  /\ o \in dead /\ told' = told \cup {o}
  /\ \/ MayExclude(o, TRUE, TRUE) /\ TakeOut(o, TRUE)
     \/ ~MayExclude(o, TRUE, TRUE) /\ o \notin told /\ UNCHANGED <<ord, ret, cmd, read>>
  /\ UNCHANGED <<batch, asg, kiz, view, wbVars, trouble>>

-----------------------------------------------------------------------------
Writing(w) ==
  Claim(w) \/ Land(w) \/ Lose(w) \/ LandLate(w) \/ Accepted(w) \/ Unclear(w) \/ Refused(w)
Readings(o) ==
  SupplyOpen(o) \/ SupplyClosed(o) \/ SupplyMissing(o) \/ Member(o) \/ NoMember(o)
  \/ Located(o) \/ StillThere(o) \/ HasLeft(o)
Controllers(o) ==
  \/ Pack(o) \/ FixCode(o) \/ RetryExclusion(o) \/ ReportProblem(o)
  \/ \E client \in BOOLEAN : Exclude(o, client)

Next ==
  \/ \E w \in Writes : Writing(w) \/ AskWb(w) \/ ReadFailed(w)
  \/ \E o \in Orders : \/ Assign(o) \/ Schedule(o) \/ Readings(o) \/ Controllers(o)
                       \/ ClientCancels(o) \/ SellerMoves(o) \/ Import(o)
  \/ CodesRefused \/ Found \/ NotFound \/ IsDelivered \/ NotDelivered
  \/ Sync \/ Survey \/ Reconcile \/ RequestDelivery \/ Dispatch \/ ReturnWave \/ SellerDeletes

Spec == Init /\ [][Next]_vars

-----------------------------------------------------------------------------
\* Types, and two facts on the tables: an answer is held by a command that is
\* on its way, or was when it was cancelled, so no answer is applied twice; and
\* a readback is of the kind its write needs (marketplace.py, every _apply).
HandoverTypeOK ==
  /\ batch \in [st : {"open", "ready", "problem", "dispatched"},
                mk : {"draft", "creating", "open", "delivery_pending", "complete", "error"},
                known : BOOLEAN]
  /\ asg \in [Orders -> {"none", "pending", "confirmed", "error", "canceled", "moved"}]
  /\ ord \in [Orders -> {"picked", "ready", "exception", "handed"}]
  /\ ret \in [Orders -> [st : {"none", "waiting", "failed", "queued"},
                         act : {"none", "verify", "seller"}, client : BOOLEAN,
                         gap : {"none", "wave", "delivery"}]]
  /\ kiz \in [Orders -> {"ok", "refused", "rejected", "dropped"}]
  /\ cmd \in [Writes -> [st : {"none", "pending", "sent", "retry", "confirmed",
                               "failed", "conflict", "cancelled"},
                         tries : Nat,
                         ans : {"none", "asked", "ok", "unclear", "refused", "kiz"}]]
  /\ read \in [Writes -> [at : {"none", "find", "presence", "member", "lookup",
                                "absence", "done"},
                          st : {"none", "pending", "sent", "retry", "failed", "conflict",
                                "cancelled"},
                          tries : Nat,
                          ans : {"none", "nothing", "one", "several", "missing", "closed",
                                 "open", "here", "away", "elsewhere", "nowhere",
                                 "refused", "conflict", "error"}]]
  /\ \A w \in Writes :
       /\ cmd[w].ans # "none" => cmd[w].st \in {"sent", "cancelled"}
       /\ read[w].ans # "none" => read[w].st \in {"sent", "cancelled"}
       /\ read[w].at \in {"none", Readback(w)}
            \cup (IF w[1] = "add" THEN {"member", "lookup"} ELSE {})
  /\ view \in [on : BOOLEAN, seen : SUBSET Orders]
  /\ supply \in [made : Nat, closed : BOOLEAN, gone : BOOLEAN]
  /\ place \in [Orders -> {"free", "here", "late", "elsewhere"}]
  /\ told \subseteq Orders /\ dead \subseteq Orders /\ late \subseteq Writes
  /\ trouble \in 0..MaxTrouble

\* An order whose goods go back to stock is not in the supply, by whatever path
\* it was taken back: a problem at the desk, an exclusion, an add that failed
\* (pick_restock.py:2478).  Three holes remain: WB goes on showing an order its
\* buyer cancelled; the return of a whole wave does not look at an add under
\* way; and no readback rules out that a request nobody waits for arrives later.
TakenBackIsFree ==
  \A o \in Orders : ret[o].st = "queued" /\ place[o] = "here" =>
    o \in dead \/ ret[o].gap = "wave"

\* WB closes the supply over live orders only that were labelled, packed and
\* checked, unless one was excluded while the delivery was stopped for codes:
\* its resumption does not look at the composition again.  (A late request
\* may bring an order in at any time.)  And an order is handed over only when
\* its supply is closed and WB has had the order (request_wb_handover_delivery,
\* dispatch_handover_batch).
ShippedAsVerified ==
  [][/\ supply'.closed /\ ~supply.closed =>
          \A o \in Orders : place[o] = "here" /\ o \notin dead =>
            ord[o] = "ready" \/ ret[o].gap = "delivery"
     /\ \A o \in Orders : ord'[o] = "handed" /\ ord[o] # "handed" =>
          supply.closed /\ (place[o] # "free" \/ o \in dead)]_vars

\* A write in doubt has its readback under way, or one that was given up; a
\* delivery may instead wait for codes to be scanned again, and the add of an order
\* that is out waits for nothing.  And an order's return waits only while its
\* cancellation or its readback is under way: when they fail, the operators see the
\* return as failed and can have it tried again.  The hole: a readback WB refused
\* with HTTP 409 is in conflict, which nobody retries and fails nothing, so the
\* return goes on waiting and the write stays in doubt
\* (_defer_wb_handover_write_to_readback, _mark_http_failure, _sync_handover_failure,
\* retry_order_pick_restock_marketplace).
DoubtIsPursued ==
  /\ \A w \in Writes : InDoubt(w) =>
       \/ read[w].st \in Open \/ GivenUp(w)
       \/ w = Deliver /\ \E o \in Orders : kiz[o] \in {"rejected", "dropped"}
       \/ w[1] = "add" /\ Excluded(w[2])
  /\ \A o \in Orders : ret[o].st = "waiting" =>
       \/ cmd[Cancel(o)].st \in Open
       \/ read[Cancel(o)].st \in Open \cup {"conflict"}

\* A picked order that waits for its supply waits for a command that can still
\* act, its add or, while the supply is not known, the create: one that is not
\* written yet, open, or in doubt with its readback open.
\* _schedule_pending_handover_commands asks again and again, but
\* _enqueue_handover_spec never repeats a key, so behind a command that has ended
\* the order waits for ever.  That happens in two ways only: the readback of a
\* write in doubt was given up, or the create failed for good.  Nothing else (an
\* add confirmed, failed or cancelled while the assignment stays or becomes pending,
\* a create confirmed while its supply is not known) leaves an order so.
Ahead(w) == cmd[w].st \in Open \cup {"none"} \/ (InDoubt(w) /\ read[w].st \in Open)
PendingIsUnderWay ==
  \A o \in Orders : asg[o] = "pending" /\ ord[o] = "picked" =>
    IF batch.known
    THEN Ahead(Add(o)) \/ (InDoubt(Add(o)) /\ GivenUp(Add(o)))
    ELSE Ahead(Create) \/ (InDoubt(Create) /\ GivenUp(Create)) \/ cmd[Create].st = "failed"
================================================================================
