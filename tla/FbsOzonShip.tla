------------------------------ MODULE FbsOzonShip ------------------------------
(***************************************************************************)
(* The command outbox (services/marketplace.py) for one picked and         *)
(* verified Ozon order: ship the posting, read it back when the outcome is *)
(* unknown, fetch its label.  A worker claims a command in a transaction,  *)
(* calls Ozon outside of any, and writes the outcome in another one; it    *)
(* may crash between them, and the time after which a claimed command      *)
(* counts as stale (FBS_MARKETPLACE_SENT_TIMEOUT_SECONDS) may pass for a   *)
(* worker that is merely slow.  Backoff (next_attempt_at), priorities and  *)
(* metadata transfers are left out.                                        *)
(***************************************************************************)
EXTENDS Integers

CONSTANTS
  Workers,      \* processes that work on the queue
  MaxAttempts,  \* FBS_MARKETPLACE_MAX_ATTEMPTS
  MaxFaults,    \* bound on failed calls and crashes
  MaxStalls     \* bound on workers slower than the stale timeout

ASSUME ShipAssumption ==
  /\ MaxAttempts \in Nat \ {0}
  /\ MaxFaults \in Nat /\ MaxStalls \in Nat

VARIABLES
  posting,   \* the posting's status at Ozon
  known,     \* FbsOrder.marketplace_status
  cmd,       \* cmd[c]: status and attempt_count of command c
  label,     \* FbsOrderLabel.status
  scanned,   \* the controller scanned the order's preloaded code
  pc,        \* pc[w]: the command worker w has claimed and Ozon's answer
  late,      \* a ship request that nobody waits for may still reach Ozon
  faults, stalls

vars == <<posting, known, cmd, label, scanned, pc, late, faults, stalls>>
ozonVars == <<posting, late>>
boundVars == <<faults, stalls>>

\* MarketplaceCommand: one ship and one label command per order; a readback is
\* keyed by the attempt of the ship it checks (0: by the scheduler's plain key).
Ship == <<"ship", 0>>
Label == <<"label", 0>>
Read(n) == <<"read", n>>
Reads == {Read(n) : n \in 0..MaxAttempts}
Commands == {Ship, Label} \cup Reads

CommandStatuses ==
  {"none", "pending", "sent", "retry", "confirmed", "failed", "conflict"}
Active == {"pending", "retry"}
PostingStatuses == {"awaiting_packaging", "awaiting_deliver", "delivering", "cancelled"}
NoCommand == [st |-> "none", tries |-> 0]
Idle == [at |-> "idle", of |-> Ship, answer |-> "none"]

Init ==
  /\ posting = "awaiting_packaging" /\ known = posting
  /\ cmd = [c \in Commands |-> NoCommand]
  /\ label = "requested"
  /\ scanned \in BOOLEAN
  /\ pc = [w \in Workers |-> Idle]
  /\ late = FALSE
  /\ faults = 0 /\ stalls = 0

Fault == faults < MaxFaults /\ faults' = faults + 1

\* Mutants of ReadbackKey: every attempt has the same readback; it has the key of
\* the scheduler's.
SharedKey(n) == Read(1)
PlainKey(n) == Read(0)
ReadbackKey(n) == Read(n)

\* _enqueue_spec: the command with the key, if there is one, is left as it is.
Enqueue(table, c) ==
  IF table[c].st = "none" THEN [table EXCEPT ![c].st = "pending"] ELSE table

Settle(table, c, st) == [table EXCEPT ![c].st = st]

\* Mutant of RetryOrFailed: there is no last attempt.
RetryAlways(table, c) == Settle(table, c, "retry")

\* _set_retry_or_failed
RetryOrFailed(table, c) ==
  Settle(table, c, IF table[c].tries >= MaxAttempts THEN "failed" ELSE "retry")

\* _defer_ozon_ship_to_readback
DeferToReadback(table) ==
  Enqueue(Settle(table, Ship, "conflict"), ReadbackKey(table[Ship].tries))

-----------------------------------------------------------------------------
\* schedule_label_preparation: which command the order's status asks for.
NextCommand ==
  CASE known = "awaiting_packaging" -> Ship
    [] known = "awaiting_deliver" -> Label
    [] known = "delivering" -> Read(0)

Schedule ==
  /\ label = "requested" /\ known # "cancelled"
  /\ cmd[NextCommand].st = "none"
  /\ cmd' = Enqueue(cmd, NextCommand)
  /\ UNCHANGED <<ozonVars, known, label, scanned, pc, boundVars>>

\* The import writes what Ozon says.
Import ==
  /\ known # posting
  /\ known' = posting
  /\ UNCHANGED <<ozonVars, cmd, label, scanned, pc, boundVars>>

\* process_marketplace_command up to its request.
Claim(w, c) ==
  /\ pc[w] = Idle /\ cmd[c].st \in Active
  /\ cmd' = [cmd EXCEPT ![c] = [st |-> "sent", tries |-> @.tries + 1]]
  /\ pc' = [pc EXCEPT ![w] = [at |-> "asking", of |-> c, answer |-> "none"]]
  /\ UNCHANGED <<ozonVars, known, label, scanned, boundVars>>

-----------------------------------------------------------------------------
\* Ozon.  It ships a posting once and answers a readback with its status.

Shipped == IF posting = "awaiting_packaging" THEN "awaiting_deliver" ELSE posting
Answered(w, answer) ==
  pc' = [pc EXCEPT ![w].at = "answered", ![w].answer = answer]

Answer(w) ==
  /\ pc[w].at = "asking"
  /\ \/ /\ pc[w].of = Ship
        /\ posting' = Shipped
        /\ Answered(w, IF posting = "awaiting_packaging" THEN "done" ELSE "unclear")
     \/ /\ pc[w].of \in Reads
        /\ Answered(w, posting) /\ UNCHANGED posting
     \/ /\ pc[w].of = Label
        /\ Answered(w, IF posting = "awaiting_deliver" THEN "done" ELSE "refused")
        /\ UNCHANGED posting
  /\ UNCHANGED <<known, cmd, label, scanned, late, boundVars>>

\* No usable answer: a time-out or a 5xx.  A ship request was carried out, was
\* not, or will be later.
Fail(w) ==
  /\ pc[w].at = "asking"
  /\ Fault
  /\ Answered(w, "unclear")
  /\ IF pc[w].of = Ship
     THEN \/ posting' = Shipped /\ UNCHANGED late
          \/ late' = TRUE /\ UNCHANGED posting
          \/ UNCHANGED ozonVars
     ELSE UNCHANGED ozonVars
  /\ UNCHANGED <<known, cmd, label, scanned, stalls>>

\* Ozon's reading of a posting lags behind.
ReadOld(w) ==
  /\ pc[w].at = "asking" /\ pc[w].of \in Reads
  /\ posting = "awaiting_deliver"
  /\ Fault
  /\ Answered(w, "awaiting_packaging")
  /\ UNCHANGED <<ozonVars, known, cmd, label, scanned, stalls>>

\* Ozon turns the request down for good, with a 4xx of another kind.
Refuse(w) ==
  /\ pc[w].at = "asking"
  /\ Fault
  /\ Answered(w, "refused")
  /\ UNCHANGED <<ozonVars, known, cmd, label, scanned, stalls>>

ShipLate ==
  /\ late
  /\ posting' = Shipped /\ late' = FALSE
  /\ UNCHANGED <<known, cmd, label, scanned, pc, boundVars>>

\* Ozon or the buyer moves the posting on.
MovePosting ==
  /\ \/ posting = "awaiting_deliver" /\ posting' = "delivering"
     \/ posting # "cancelled" /\ posting' = "cancelled"
  /\ UNCHANGED <<known, cmd, label, scanned, pc, late, boundVars>>

Crash(w) ==
  /\ pc[w] # Idle
  /\ Fault
  /\ pc' = [pc EXCEPT ![w] = Idle]
  /\ late' \in {late, late \/ (pc[w].at = "asking" /\ pc[w].of = Ship)}
  /\ UNCHANGED <<posting, known, cmd, label, scanned, stalls>>

-----------------------------------------------------------------------------
\* The second transaction of process_marketplace_command.  It writes the
\* outcome into the command's row whatever became of the row meanwhile.
Finish(w) == pc' = [pc EXCEPT ![w] = Idle]
Has(w, c, answer) == pc[w].at = "answered" /\ pc[w].of = c /\ pc[w].answer = answer

ApplyShip(w) ==
  /\ \/ /\ Has(w, Ship, "done")
        /\ cmd' = Enqueue(Settle(cmd, Ship, "confirmed"), ReadbackKey(cmd[Ship].tries))
     \/ Has(w, Ship, "unclear") /\ cmd' = DeferToReadback(cmd)
     \/ Has(w, Ship, "refused") /\ cmd' = Settle(cmd, Ship, "failed")
  /\ Finish(w)
  /\ UNCHANGED <<ozonVars, known, label, scanned, boundVars>>

\* _mark_http_failure: a 409 is a conflict, most of the other codes are final.
TurnDown(c) == \E st \in {"failed", "conflict"} : cmd' = Settle(cmd, c, st)

ShipInDoubt == cmd[Ship].st = "conflict"

\* READ_POSTING_AFTER_SHIP
ApplyRead(w, c) ==
  /\ \/ /\ Has(w, c, "unclear")
        /\ cmd' = RetryOrFailed(cmd, c) /\ UNCHANGED <<known, label>>
     \/ Has(w, c, "refused") /\ TurnDown(c) /\ UNCHANGED <<known, label>>
     \/ /\ \E status \in PostingStatuses : Has(w, c, status) /\ known' = status
        /\ \/ /\ known' = "cancelled"
              /\ cmd' = Settle(cmd, c, "confirmed") /\ UNCHANGED label
           \/ /\ known' = "delivering"
              /\ IF label = "ready" \/ scanned
                 THEN cmd' = Settle(cmd, c, "confirmed") /\ label' = "ready"
                 ELSE cmd' = Settle(cmd, c, "conflict") /\ UNCHANGED label
           \/ /\ known' = "awaiting_packaging" /\ UNCHANGED label
              /\ cmd' = IF ShipInDoubt
                        THEN Settle(RetryOrFailed(cmd, Ship), c, "confirmed")
                        ELSE RetryOrFailed(cmd, c)
           \/ /\ known' = "awaiting_deliver" /\ UNCHANGED label
              /\ cmd' = Enqueue(Settle(cmd, c, "confirmed"), Label)
  /\ Finish(w)
  /\ UNCHANGED <<ozonVars, scanned, boundVars>>

ApplyLabel(w) ==
  /\ \/ /\ Has(w, Label, "done")
        /\ cmd' = Settle(cmd, Label, "confirmed") /\ label' = "ready"
     \/ Has(w, Label, "refused") /\ TurnDown(Label) /\ UNCHANGED label
     \/ Has(w, Label, "unclear") /\ cmd' = RetryOrFailed(cmd, Label)
        /\ UNCHANGED label
  /\ Finish(w)
  /\ UNCHANGED <<ozonVars, known, scanned, boundVars>>

\* Mutants of Recovered: a stale ship is sent again without a readback; only
\* stale ships are recovered.
RecoveredByRetry(c) == RetryOrFailed(cmd, c)
RecoveredShipOnly(c) == IF c = Ship THEN DeferToReadback(cmd) ELSE cmd

Recovered(c) == IF c = Ship THEN DeferToReadback(cmd) ELSE RetryOrFailed(cmd, c)

\* _recover_stale_sent_commands
RecoverStale(c) ==
  /\ cmd[c].st = "sent"
  /\ IF \E w \in Workers : pc[w] # Idle /\ pc[w].of = c
     THEN stalls < MaxStalls /\ stalls' = stalls + 1
     ELSE UNCHANGED stalls
  /\ cmd' = Recovered(c)
  /\ UNCHANGED <<ozonVars, known, label, scanned, pc, faults>>

-----------------------------------------------------------------------------
WorkerStep(w) ==
  \/ \E c \in Commands : Claim(w, c)
  \/ Answer(w)
  \/ ApplyShip(w) \/ ApplyLabel(w)
  \/ \E c \in Reads : ApplyRead(w, c)

FaultStep(w) == Fail(w) \/ ReadOld(w) \/ Refuse(w) \/ Crash(w)

Next ==
  \/ Schedule \/ Import \/ MovePosting \/ ShipLate
  \/ \E w \in Workers : WorkerStep(w) \/ FaultStep(w)
  \/ \E c \in Commands : RecoverStale(c)

Spec == Init /\ [][Next]_vars

\* The queue command runs in a loop: its schedulers, the recovery and the
\* workers; the import polls Ozon.
FairSpec ==
  /\ Spec
  /\ WF_vars(Schedule) /\ WF_vars(Import)
  /\ \A w \in Workers : WF_vars(WorkerStep(w))
  /\ \A c \in Commands : WF_vars(RecoverStale(c))

-----------------------------------------------------------------------------
(***************************************************************************)
(* Properties.                                                             *)
(***************************************************************************)

\* Rows of the command table and the workers' memories hold what they may.
ShipTypeOK ==
  /\ posting \in PostingStatuses /\ known \in PostingStatuses
  /\ cmd \in [Commands -> [st : CommandStatuses, tries : 0..MaxAttempts]]
  /\ label \in {"requested", "ready"}
  /\ scanned \in BOOLEAN /\ late \in BOOLEAN
  /\ pc \in [Workers -> [at : {"idle", "asking", "answered"}, of : Commands,
               answer : {"none", "done", "unclear", "refused"} \cup PostingStatuses]]
  /\ faults \in Nat /\ stalls \in Nat

\* "Результат отправки Ozon не определен; назначена сверка.": while a ship
\* command is in doubt and Ozon still waits for the posting, the readback of its
\* last attempt is not already spent, or nothing would ever settle the doubt.
DoubtIsChecked ==
  ShipInDoubt /\ posting = "awaiting_packaging" =>
    cmd[Read(cmd[Ship].tries)].st \notin {"none", "confirmed"}

\* _enqueue_spec never asks a confirmed command again, so while the label is still
\* to be had and the order knows its posting's status, the command that status asks
\* for is not already spent: the scheduler would look at the order for ever and add
\* nothing.
KeyIsNotSpent ==
  label = "requested" /\ known = posting /\ known # "cancelled" =>
    cmd[NextCommand].st # "confirmed"

\* A ship is sent again only after the readback of its last attempt found the
\* posting still waiting, however that attempt ended.
NoBlindResend ==
  [][ cmd'[Ship].tries > cmd[Ship].tries /\ cmd[Ship].tries > 0
      => cmd[Read(cmd[Ship].tries)].st = "confirmed" ]_vars

\* The order gets its label in the end, whatever calls failed and workers died,
\* unless the posting was cancelled or Ozon turned down for good what the
\* posting's status asks for: the ship or the readback that checks it, the
\* label, or, under way, a readback that can match a code scanned before.
EventuallyLabelled ==
  <>[]( \/ label = "ready" \/ posting = "cancelled"
        \/ /\ posting = "awaiting_packaging"
           /\ \/ cmd[Ship].st = "failed"
              \/ cmd[Read(cmd[Ship].tries)].st \in {"failed", "conflict"}
        \/ posting = "awaiting_deliver" /\ cmd[Label].st \in {"failed", "conflict"}
        \/ posting = "delivering" /\ cmd[Read(0)].st \in {"failed", "conflict"} )
=============================================================================
