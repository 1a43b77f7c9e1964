---------------------------- MODULE FbsStockExport ----------------------------
(***************************************************************************)
(* The stock exporter of one marketplace profile (services/stock_sync.py): *)
(* runs of sync_profile_stock_exports, which nothing keeps from            *)
(* overlapping, publish the quantities on sale.  Each database transaction *)
(* and each network event is an action; a run may crash between any two.   *)
(*                                                                         *)
(* Time is one flag per row, `due`: next_attempt_at has passed or, for a   *)
(* synced WB row, the reconcile interval has.  Elapse assumes what the     *)
(* settings intend: a run gets its answer (25 s at most) before its claim  *)
(* expires (30 s, Ozon 120 s), and Ozon carries out no request after that  *)
(* time.  WB's catalogue of item ids is taken as filled.                   *)
(***************************************************************************)
EXTENDS Integers, FiniteSets

CONSTANTS
  Items,       \* stock export rows of the profile
  Runs,        \* processes that may run the exporter
  Wb,          \* TRUE: Wildberries, FALSE: Ozon
  Quantities,  \* quantities on sale
  Limit,       \* _batch_limit: rows of one request
  MaxChanges,  \* bound on changes of the quantity on sale
  MaxFaults,   \* bound on crashes, failed requests and foreign changes
  MaxRebinds,  \* bound on changes of an item's product id at Ozon
  None

ASSUME ExportAssumption ==
  /\ Wb \in BOOLEAN
  /\ Quantities \subseteq Nat
  /\ Limit \in Nat \ {0}
  /\ MaxChanges \in Nat /\ MaxFaults \in Nat /\ MaxRebinds \in Nat
  /\ None \notin Runs \cup Nat

VARIABLES
  have,      \* have[i]: what _available_by_binding would compute now
  desired,   \* FbsStockExportState.desired_qty
  lastSent,  \* .last_sent_qty
  gen,       \* .generation
  status,    \* .status
  due,       \* .next_attempt_at (or the reconcile interval) has passed
  remote,    \* the quantity the marketplace shows
  pc,        \* pc[r]: where run r stands
  held,      \* held[r][i]: generation and quantity run r read of row i
  seen,      \* seen[r]: the quantities on sale that run r read
  live,      \* live[r][i]: the quantity WB answered for row i
  answer,    \* answer[r][i]: what the marketplace answered for row i
  net,       \* requests on their way to the marketplace
  views,     \* views[c]: the same, read after the c-th change
  rebound,   \* items whose product id at Ozon changed since the last look
  changes, faults, rebinds

rowVars == <<desired, lastSent, gen, status, due>>
runVars == <<pc, seen, held, live, answer>>
cardVars == <<rebound, rebinds>>
vars == <<have, rowVars, remote, runVars, net, views, cardVars, changes, faults>>

RowStatuses == {"pending", "sending", "synced", "retry", "blocked"}
Places == {"idle", "refresh", "reconcile", "asking", "compare", "claim", "send",
           "waiting", "failed", "report", "rest"}
Answers == {"none", "updated", "retry", "refused"}
NoClaim == [gen |-> 0, qty |-> None]
Claims == {NoClaim} \cup [gen : Nat, qty : Nat]
Requests == [by : Runs \cup {None}, qty : [Items -> Nat \cup {None}]]

Nothing == [i \in Items |-> NoClaim]
Zeroes == [i \in Items |-> 0]
NoView == [i \in Items |-> None]
NoAnswer == [i \in Items |-> "none"]

Init ==
  /\ have \in [Items -> Quantities]
  /\ remote \in [Items -> Quantities]
  /\ desired = Zeroes /\ gen = Zeroes
  /\ lastSent = [i \in Items |-> None]
  /\ status = [i \in Items |-> "pending"]
  /\ due = [i \in Items |-> TRUE]
  /\ pc = [r \in Runs |-> "idle"]
  /\ held = [r \in Runs |-> Nothing]
  /\ seen = [r \in Runs |-> NoView]
  /\ live = [r \in Runs |-> Zeroes]
  /\ answer = [r \in Runs |-> NoAnswer]
  /\ views = [c \in 1..MaxChanges |-> NoView]
  /\ net = {} /\ rebound = {}
  /\ changes = 0 /\ faults = 0 /\ rebinds = 0

Held(r) == {i \in Items : held[r][i] # NoClaim}
\* Run r has an update of row i under way; request req carries one.
Carries(r, i) == pc[r] \in {"send", "waiting"} /\ i \in Held(r)
Asks(req, i) == req.qty[i] # None
Answered(r, a) == {i \in Held(r) : answer[r][i] = a}
Fault == faults < MaxFaults /\ faults' = faults + 1

\* Run r goes to place p; when it is idle or claims again it holds nothing.
GoTo(r, p) == pc' = [pc EXCEPT ![r] = p]
Drop(r) ==
  /\ held' = [held EXCEPT ![r] = Nothing]
  /\ live' = [live EXCEPT ![r] = Zeroes]
  /\ answer' = [answer EXCEPT ![r] = NoAnswer]

-----------------------------------------------------------------------------
\* An item's card gets another product id at Ozon.
CardChange(i) ==
  /\ ~Wb
  /\ rebinds < MaxRebinds
  /\ rebound' = rebound \cup {i}
  /\ rebinds' = rebinds + 1
  /\ UNCHANGED <<have, rowVars, remote, runVars, net, views, changes, faults>>

\* Mutant of DueAfter: touched Ozon rows become due like WB rows.
DueAtOnce(touched, looked) == [i \in Items |-> due[i] \/ i \in touched \cup looked]

\* A touched row of WB is due now, one of Ozon keeps its time; a row with a new
\* product id is due now (_ensure_ozon_stock_catalog_states).
DueAfter(touched, looked) ==
  [i \in Items |-> due[i] \/ (Wb /\ i \in touched) \/ i \in looked]

Generations(view) ==
  [i \in Items |-> IF desired[i] # view[i] THEN gen[i] + 1 ELSE gen[i]]

\* refresh_profile_stock_export_states with the quantities of a view, which it
\* reads before it locks the rows; before it, in the same transaction or not,
\* rows with a new product id are made pending, whatever is under way.
Refresh(view, looked) ==
  LET touched == {i \in Items : desired[i] # view[i] \/ lastSent[i] = None}
  IN /\ desired' = view
     /\ gen' = Generations(view)
     /\ status' = [i \in Items |->
                     IF i \in touched \cup looked THEN "pending" ELSE status[i]]
     /\ due' = DueAfter(touched, looked)
     /\ UNCHANGED lastSent

\* Reservations, releases, recounts and placements change what is on sale;
\* queue_agency_stock_exports follows the commit, with the quantities of that
\* moment (the oldest it can find).
StockChange(i, q) ==
  /\ changes < MaxChanges /\ q # have[i]
  /\ have' = [have EXCEPT ![i] = q]
  /\ changes' = changes + 1
  /\ views' = [views EXCEPT ![changes + 1] = have']
  /\ UNCHANGED <<rowVars, remote, runVars, net, cardVars, faults>>

RefreshOnCommit(c) ==
  /\ views[c] # NoView
  /\ Refresh(views[c], rebound)
  /\ views' = [views EXCEPT ![c] = NoView]
  /\ rebound' = {}
  /\ UNCHANGED <<have, remote, runVars, net, changes, faults, rebinds>>

\* sync_profile_stock_exports up to its first request: it makes rows with a new
\* product id pending, reads the quantities on sale, then refreshes the rows.
Start(r) ==
  /\ pc[r] = "idle"
  /\ status' = [i \in Items |-> IF i \in rebound THEN "pending" ELSE status[i]]
  /\ due' = DueAfter({}, rebound)
  /\ rebound' = {}
  /\ seen' = [seen EXCEPT ![r] = have]
  /\ GoTo(r, "refresh")
  /\ UNCHANGED <<have, desired, lastSent, gen, remote, held, live, answer, net,
                 views, changes, faults, rebinds>>

StartRefresh(r) ==
  /\ pc[r] = "refresh"
  /\ Refresh(seen[r], {})
  /\ seen' = [seen EXCEPT ![r] = NoView]
  /\ GoTo(r, IF Wb THEN "reconcile" ELSE "claim")
  /\ UNCHANGED <<have, remote, held, live, answer, net, views, cardVars,
                 changes, faults>>

-----------------------------------------------------------------------------
\* _reconcile_wb_remote_stock: the rows it looks at, its request, and the
\* transaction that compares the answer with rows that did not change.
ChooseCandidates(r) ==
  LET chosen == {i \in Items : /\ status[i] = "synced" /\ due[i]
                               /\ lastSent[i] = desired[i]}
  IN /\ pc[r] = "reconcile"
     /\ held' = [held EXCEPT ![r] = [i \in Items |->
          IF i \in chosen THEN [gen |-> gen[i], qty |-> desired[i]]
          ELSE NoClaim]]
     /\ GoTo(r, IF chosen = {} THEN "claim" ELSE "asking")
     /\ UNCHANGED <<have, rowVars, remote, seen, live, answer, net, views,
                    cardVars, changes, faults>>

ReadRemote(r) ==
  /\ pc[r] = "asking"
  /\ live' = [live EXCEPT ![r] = [i \in Items |->
                IF i \in Held(r) THEN remote[i] ELSE 0]]
  /\ GoTo(r, "compare")
  /\ UNCHANGED <<have, rowVars, remote, seen, held, answer, net, views,
                 cardVars, changes, faults>>

ReadFails(r) ==
  /\ pc[r] = "asking"
  /\ Fault
  /\ GoTo(r, "claim") /\ Drop(r)
  /\ UNCHANGED <<have, rowVars, remote, seen, net, views, cardVars, changes>>

\* Mutant of Reconciled: a difference is not acted upon.
ReconciledNever(r) == [i \in Items |-> status[i]]

Unmoved(r) == {i \in Held(r) : /\ status[i] = "synced"
                               /\ gen[i] = held[r][i].gen
                               /\ desired[i] = held[r][i].qty}
Reconciled(r) ==
  [i \in Items |-> IF i \in Unmoved(r) /\ live[r][i] # desired[i]
                   THEN "pending" ELSE status[i]]

Compare(r) ==
  /\ pc[r] = "compare"
  /\ status' = Reconciled(r)
  /\ due' = [i \in Items |->
               IF i \in Unmoved(r) THEN live[r][i] # desired[i] ELSE due[i]]
  /\ GoTo(r, "claim") /\ Drop(r)
  /\ UNCHANGED <<have, desired, lastSent, gen, remote, seen, net, views,
                 cardVars, changes, faults>>

-----------------------------------------------------------------------------
\* Mutant of Recovered: a row whose run crashed stays claimed.
RecoveredNever(i) == status[i]

\* A claim that was not settled in time may be claimed again.
Recovered(i) == IF status[i] = "sending" /\ due[i] THEN "retry" ELSE status[i]

\* _claim_due_states: at most Limit rows, the smallest quantities first.
Claim(r) ==
  LET ready == {i \in Items : Recovered(i) \in {"pending", "retry"} /\ due[i]}
  IN /\ pc[r] = "claim"
     /\ \E batch \in SUBSET ready :
          /\ Cardinality(batch) <= Limit
          /\ batch # ready => Cardinality(batch) = Limit
          /\ \A i \in batch, j \in ready \ batch : desired[i] <= desired[j]
          /\ status' = [i \in Items |->
                          IF i \in batch THEN "sending" ELSE Recovered(i)]
          /\ due' = [i \in Items |-> due[i] /\ i \notin batch]
          /\ held' = [held EXCEPT ![r] = [i \in Items |->
               IF i \in batch THEN [gen |-> gen[i], qty |-> desired[i]]
               ELSE NoClaim]]
          /\ GoTo(r, IF batch = {} THEN "idle" ELSE "send")
     /\ UNCHANGED <<have, desired, lastSent, gen, remote, seen, live, answer,
                    net, views, cardVars, changes, faults>>

RequestOf(r) == [by |-> r, qty |-> [i \in Items |-> held[r][i].qty]]

Send(r) ==
  /\ pc[r] = "send"
  /\ net' = net \cup {RequestOf(r)}
  /\ GoTo(r, "waiting")
  /\ UNCHANGED <<have, rowVars, remote, seen, held, live, answer, views,
                 cardVars, changes, faults>>

-----------------------------------------------------------------------------
\* The marketplace.  WB takes all rows of a request; Ozon answers row by row.

CarryOut(req, rows) ==
  remote' = [i \in Items |-> IF i \in rows THEN req.qty[i] ELSE remote[i]]

Accept(r) ==
  /\ pc[r] = "waiting" /\ RequestOf(r) \in net
  /\ CarryOut(RequestOf(r), Held(r))
  /\ net' = net \ {RequestOf(r)}
  /\ answer' = [answer EXCEPT ![r] =
       [i \in Items |-> IF i \in Held(r) THEN "updated" ELSE "none"]]
  /\ GoTo(r, "report")
  /\ UNCHANGED <<have, rowVars, seen, held, live, views, cardVars, changes,
                 faults>>

\* Ozon leaves some rows out, for now or for good.
AcceptSome(r) ==
  /\ ~Wb
  /\ pc[r] = "waiting" /\ RequestOf(r) \in net
  /\ Fault
  /\ \E words \in [Held(r) -> Answers \ {"none"}] :
       /\ \E i \in Held(r) : words[i] # "updated"
       /\ answer' = [answer EXCEPT ![r] = [i \in Items |->
                       IF i \in Held(r) THEN words[i] ELSE "none"]]
       /\ CarryOut(RequestOf(r), {i \in Held(r) : words[i] = "updated"})
  /\ net' = net \ {RequestOf(r)}
  /\ GoTo(r, "report")
  /\ UNCHANGED <<have, rowVars, seen, held, live, views, cardVars, changes>>

\* The request never arrives or is answered with an HTTP error.
Refuse(r) ==
  /\ pc[r] = "waiting" /\ RequestOf(r) \in net
  /\ Fault
  /\ net' = net \ {RequestOf(r)}
  /\ GoTo(r, "failed")
  /\ UNCHANGED <<have, rowVars, remote, seen, held, live, answer, views,
                 cardVars, changes>>

\* Requests nobody waits for any longer.
Abandoned(r) ==
  {IF req.by = r THEN [req EXCEPT !.by = None] ELSE req : req \in net}

TimeOut(r) ==
  /\ pc[r] = "waiting" /\ RequestOf(r) \in net
  /\ Fault
  /\ net' = Abandoned(r)
  /\ GoTo(r, "failed")
  /\ UNCHANGED <<have, rowVars, remote, seen, held, live, answer, views,
                 cardVars, changes>>

Crash(r) ==
  /\ pc[r] # "idle"
  /\ Fault
  /\ net' = Abandoned(r)
  /\ GoTo(r, "idle") /\ Drop(r)
  /\ seen' = [seen EXCEPT ![r] = NoView]
  /\ UNCHANGED <<have, rowVars, remote, views, cardVars, changes>>

\* An abandoned request is carried out after all, or lost.
SettleLate(req) ==
  /\ req \in net /\ req.by = None
  /\ \/ CarryOut(req, {i \in Items : Asks(req, i)})
     \/ UNCHANGED remote
  /\ net' = net \ {req}
  /\ UNCHANGED <<have, rowVars, runVars, views, cardVars, changes, faults>>

\* Somebody else changes the quantity at WB, which reconciliation is for.
Drift(i, q) ==
  /\ Wb /\ q # remote[i]
  /\ Fault
  /\ remote' = [remote EXCEPT ![i] = q]
  /\ UNCHANGED <<have, rowVars, runVars, net, views, cardVars, changes>>

-----------------------------------------------------------------------------
\* _mark_batch_retry for a request without an answer: WB rows get a new time.
ReportFailure(r) ==
  /\ pc[r] = "failed"
  /\ status' = [i \in Items |-> IF i \in Held(r) THEN "retry" ELSE status[i]]
  /\ due' = [i \in Items |-> due[i] /\ ~(Wb /\ i \in Held(r))]
  /\ GoTo(r, "idle") /\ Drop(r)
  /\ UNCHANGED <<have, desired, lastSent, gen, remote, seen, net, views,
                 cardVars, changes, faults>>

\* Mutant of Sent: the generation is not compared.
SentAnyway(r, i) == i \in Answered(r, "updated")

\* The row is still the one run r claimed.
Sent(r, i) == i \in Answered(r, "updated") /\ gen[i] = held[r][i].gen

\* _mark_rows_success.  WB clears next_attempt_at: a row that changed while it
\* was sent is due, a synced row waits for its reconcile interval.
ReportUpdated(r) ==
  LET updated == Answered(r, "updated")
      rest == Held(r) \ updated
  IN /\ pc[r] = "report"
     /\ lastSent' = [i \in Items |->
                       IF Sent(r, i) THEN held[r][i].qty ELSE lastSent[i]]
     /\ status' = [i \in Items |->
                     IF Sent(r, i) THEN "synced"
                     ELSE IF i \in updated THEN "pending" ELSE status[i]]
     /\ due' = [i \in Items |->
                  IF Wb /\ i \in updated THEN ~Sent(r, i) ELSE due[i]]
     /\ IF rest = {}
        THEN GoTo(r, "idle") /\ Drop(r)
        ELSE /\ GoTo(r, "rest")
             /\ held' = [held EXCEPT ![r] = [i \in Items |->
                           IF i \in rest THEN held[r][i] ELSE NoClaim]]
             /\ UNCHANGED <<live, answer>>
     /\ UNCHANGED <<have, desired, gen, remote, seen, net, views, cardVars,
                    changes, faults>>

\* The other rows of Ozon's answer: those to be tried again in one
\* transaction, then the refused ones in one each.
Remaining(r, rows) ==
  IF Held(r) = rows
  THEN GoTo(r, "idle") /\ Drop(r)
  ELSE /\ held' = [held EXCEPT ![r] = [i \in Items |->
                     IF i \in rows THEN NoClaim ELSE held[r][i]]]
       /\ UNCHANGED <<pc, live, answer>>

ReportRetry(r) ==
  LET rows == Answered(r, "retry")
  IN /\ pc[r] = "rest" /\ rows # {}
     /\ status' = [i \in Items |-> IF i \in rows THEN "retry" ELSE status[i]]
     /\ Remaining(r, rows)
     /\ UNCHANGED <<have, desired, lastSent, gen, due, remote, seen, net,
                    views, cardVars, changes, faults>>

ReportRefused(r, i) ==
  /\ pc[r] = "rest" /\ Answered(r, "retry") = {}
  /\ i \in Answered(r, "refused")
  /\ status' = [status EXCEPT ![i] = "blocked"]
  /\ Remaining(r, {i})
  /\ UNCHANGED <<have, desired, lastSent, gen, due, remote, seen, net, views,
                 cardVars, changes, faults>>

\* The time of a row comes.
Elapse(i) ==
  /\ ~due[i]
  /\ \A r \in Runs : ~Carries(r, i)
  /\ \A req \in net : Asks(req, i) => Wb
  /\ due' = [due EXCEPT ![i] = TRUE]
  /\ UNCHANGED <<have, desired, lastSent, gen, status, remote, runVars, net,
                 views, cardVars, changes, faults>>

-----------------------------------------------------------------------------
\* What a run does while nothing fails.
RunStep(r) ==
  \/ Start(r) \/ StartRefresh(r)
  \/ ChooseCandidates(r) \/ ReadRemote(r) \/ Compare(r)
  \/ Claim(r) \/ Send(r) \/ Accept(r) \/ ReportUpdated(r)
  \/ ReportFailure(r) \/ ReportRetry(r)
  \/ \E i \in Items : ReportRefused(r, i)

FaultStep(r) ==
  \/ ReadFails(r) \/ AcceptSome(r) \/ Refuse(r) \/ TimeOut(r) \/ Crash(r)

Late == \E req \in net : SettleLate(req)

Next ==
  \/ \E r \in Runs : RunStep(r) \/ FaultStep(r)
  \/ \E i \in Items : Elapse(i) \/ CardChange(i)
  \/ \E i \in Items, q \in Quantities : StockChange(i, q) \/ Drift(i, q)
  \/ \E c \in 1..MaxChanges : RefreshOnCommit(c)
  \/ Late

Spec == Init /\ [][Next]_vars

\* The exporter is run again and again by the scheduler, time passes, and a
\* request is answered or gets lost.
FairSpec ==
  /\ Spec
  /\ \A r \in Runs : WF_vars(RunStep(r))
  /\ \A i \in Items : WF_vars(Elapse(i))
  /\ WF_vars(Late)

-----------------------------------------------------------------------------
(***************************************************************************)
(* Properties.                                                             *)
(***************************************************************************)

\* The rows of the table and of the runs' memories hold what their fields
\* allow.
TypeOK ==
  /\ have \in [Items -> Nat] /\ desired \in [Items -> Nat]
  /\ lastSent \in [Items -> Nat \cup {None}]
  /\ gen \in [Items -> Nat]
  /\ status \in [Items -> RowStatuses]
  /\ due \in [Items -> BOOLEAN]
  /\ remote \in [Items -> Nat]
  /\ pc \in [Runs -> Places]
  /\ seen \in [Runs -> [Items -> Nat] \cup {NoView}]
  /\ \A r \in Runs : pc[r] = "refresh" => seen[r] \in [Items -> Nat]
  /\ views \in [1..MaxChanges -> [Items -> Nat] \cup {NoView}]
  /\ rebound \subseteq Items
  /\ changes \in Nat /\ faults \in Nat /\ rebinds \in Nat
  /\ held \in [Runs -> [Items -> Claims]]
  /\ live \in [Runs -> [Items -> Nat]]
  /\ answer \in [Runs -> [Items -> Answers]]
  /\ net \subseteq Requests

\* A claim is of the row as it is or of an earlier generation of it, so equal
\* generations mean equal quantities (what SyncedMeansSent rests on).
ClaimsSound ==
  \A r \in Runs : \A i \in Held(r) :
    /\ held[r][i].gen <= gen[i]
    /\ held[r][i].gen = gen[i] => held[r][i].qty = desired[i]

\* A row counts as synced only with the quantity the warehouse wants now,
\* although quantities change, return to earlier values and are sent by
\* overlapping runs while an answer is on its way.
SyncedMeansSent ==
  \A i \in Items : status[i] = "synced" => lastSent[i] = desired[i]

\* At Ozon a synced row shows the wanted quantity: no answer, retry or late
\* request leaves an older one there (for MaxRebinds = 0, like the next one).
SyncedIsExported ==
  \A i \in Items : status[i] = "synced" => remote[i] = desired[i]

\* FBS_OZON_STOCK_MIN_INTERVAL_SECONDS: Ozon is never sent two updates of a row
\* at a time, as long as product ids stay the same (a new one makes a row due at
\* once, so this is checked and proved for MaxRebinds = 0).
OneUpdateAtATime ==
  \A i \in Items :
    /\ Cardinality({r \in Runs : Carries(r, i)}) <= 1
    /\ Cardinality({req \in net : Asks(req, i)}) <= 1

\* At Ozon the rows, runs and requests keep the exporter's promise: one update
\* of a row at a time, begun with the quantity wanted then, and a synced row
\* is one whose quantity no update can change (for MaxRebinds = 0).
UnderWay(i) ==
  {held[r][i].qty : r \in {s \in Runs : Carries(s, i)}}
    \cup {req.qty[i] : req \in {p \in net : Asks(p, i)}}
Promise == INSTANCE FbsStockPromise
             WITH wanted <- desired, shown <- remote,
                  flying <- [i \in Items |-> UnderWay(i)],
                  acked <- {i \in Items : status[i] = "synced"}
ExportPromise == Promise!Spec

\* WB shows what is on sale in the end, whatever runs crashed, requests were
\* lost or carried out late, and others changed the quantity there.
EventuallyExported == <>[](\A i \in Items : remote[i] = have[i])

\* Ozon shows what is on sale in the end, except for rows whose update it
\* refused for good.
EventuallyExportedOrRefused ==
  <>[](\A i \in Items : remote[i] = have[i] \/ status[i] = "blocked")
=============================================================================
