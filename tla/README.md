# Fullbox FBS: specifications of fulfilment and of the exchange with marketplaces

Fullbox (`src/`) is a warehouse portal on Django and PostgreSQL. Its core logic
is the app `src/fullbox/fbs`: orders of Wildberries (WB) and Ozon are imported,
reserved against stock, put into pick waves, picked, verified at a controller's
desk, labelled and handed over, while stock quantities and confirmations go back
to the marketplaces. This directory models that core in TLA+, checks it with TLC
and proves its main invariants with TLAPS.

## Inventory of the system

| Component (source) | State | Operations | What is hard |
|---|---|---|---|
| Reservation and waves (`services/picking.py`) | `FbsOrder`, `FbsStockBalance`, `FbsOrderStockAllocation`, `FbsPickTask`, `FbsPickBatch` | reserve, release, build / fill / merge / regroup / claim / take over a wave, pick a unit, hand over | many employees and background jobs over the same rows; counters kept beside the rows they count |
| Picking problems (`services/problems.py`) | the same, `FbsPickException` | not found, quantity missing, other problem, controller's problem, retry | an issue is settled long after the wave around it has changed |
| Verification and labels (`services/picking.py`, `services/labels.py`) | `FbsPickVerification`, `FbsOrderLabel` | claim a wave, verify a unit, prefetch / register / confirm a label, close the wave | label, verification, problem and cancellation come in any order; orders are picked twice |
| Order import (`services/sync.py`) | `FbsOrder.marketplace_status`, event journal, cursors | pull orders, run over statuses lane by lane, refresh the orders of a wave | late, repeated and contradictory statuses; expired leases; which orders a small batch asks for |
| Inventory recount (`services/inventory.py`, `inventory_workflow.py`) | `FbsInventorySession`, `FbsStorageLock` | queue, drain, start, cancel, count, approve | a recount and a wave want the same box |
| Stock export (`services/stock_sync.py`) | `FbsStockExportState` | refresh, claim, send, report, reconcile | network calls between transactions, overlapping runs, late answers |
| Command outbox (`services/marketplace.py`) | `FbsMarketplaceCommand`, label, posting status | schedule, claim, send, retry, read back, recover | requests of unknown outcome, late answers, crashed and slow workers |
| Label printing (`desktop_print.py`, `services/printing.py`, `processing_app/services.py`) | `ProcessingPrintJob`, Desktop's record of calls | queue, queue again, poll, print, acknowledge, reset, clear, restore | labels must come out once, whatever page, call or answer is lost; three ways to retry |
| Storage, movements, racks (`storage.py`, `movements.py`, ...) | boxes, pallets, cells | place, move, replenish | not modelled |
| WB handover (`services/marketplace.py`, `handover.py`, `pick_restock.py`, `problems.py`) | `FbsHandoverBatch`, `FbsHandoverOrderAssignment`, `FbsPickRestockRequest`, `FbsMarketplaceCommand` | create a supply, add and exclude orders, pack, deliver, dispatch; take orders back | every write may be unclear and is settled by a later read; orders are taken back while an add or a delivery is under way |
| Totes, desk, boxes (`totes.py`, `controller_*.py`, `handover.py`) | totes, boxes, containers | pack, transfer | not modelled |
| Delivery reconciliation (`delivery_reconciliation.py`) | | | not modelled |
| The other apps (`orders`, `shipping`, `billing`, `sklad`, `reachtruck*`, `processing*`, ...) | | | not modelled |

The components share one database. Every operation of the first five is one
transaction (`@transaction.atomic`) that locks the rows it will write
(`select_for_update`) before it decides, so it is one action of the model; what interleaves
are whole operations of different employees and jobs. Two decisions rest on rows nobody
locks, and are steps of their own: whether a task in progress needs a balance that is about to
be counted (`_active_scope_operations`), and whether a balance about to be picked is being
counted (`assert_balance_unlocked`). The exporter, the outbox and the handover
call the network between transactions, so each transaction and each network
event is an action of its own there; so are those of the status runs of the import and the
polls of the print queue. Import calls reservation and release
directly; release, reservation and picking queue a stock export after commit;
verification asks for labels, which the outbox fetches and the print queue prints.

### What makes each component correct

| Component | Properties |
|---|---|
| Reservation and waves | the books of balances, rows, tasks, waves and orders agree after every operation (`LedgersAgree`, `CountersAgree`, `StatusesAgree`); nothing is promised twice (`BalanceSound`); a wave in progress has work (`WaveNeverStalls`); every unit is on sale, kept, taken or closed and moves only the allowed ways (`StockLedger`) |
| Picking problems | what is reported missing stays closed until counted; an order the marketplace blocks gives up the shelf and gets nothing more of it, unless its goods are in a tote or it waits as an exception (`BlockedOrderLetsGo`) |
| Verification and labels | a confirmed label is on a complete, verified order (`LabelMeansComplete`); a wave is done exactly when its orders are (`DoneWaveIsLabelled`, `NoWaveLeftOpen`) |
| Recount | a count misses the one unit of a pick it overtook, and nothing else moves (`CountMissesOneUnit`) |
| Order import | a processed event has had its effect (`JournalKeepsItsWord`), the last status arrives (`EventuallyCurrent`), and no order is starved by others (`LaneTurns`, `EveryOrderRead`) |
| Stock export | a row is marked synced only with the quantity wanted now (`SyncedMeansSent`), which then is what the marketplace shows (`SyncedIsExported`, `OneUpdateAtATime`), and it comes there in the end (`EventuallyExported`, `EventuallyExportedOrRefused`); at Ozon all this implements a simple exporter (`ExportPromise`) |
| Command outbox | a ship of unknown outcome is not repeated before it was read back (`NoBlindResend`), always has its readback to come (`DoubtIsChecked`), no step uses up the key of a command the order still needs (`KeyIsNotSpent`), and the order gets its label (`EventuallyLabelled`) |
| WB handover | goods go back to stock only of orders that are not in the supply (`TakenBackIsFree`); the supply closes over verified orders and only orders of a closed supply are handed over (`ShippedAsVerified`); a write in doubt has its readback under way or given up (`DoubtIsPursued`); an order waits for a command that has ended only behind a create that failed or a readback that was given up (`PendingIsUnderWay`) |
| Label printing | no copy and no attempt that nobody accounts for (`NoSecondCopy`, `AttemptsBounded`), one open job per key of a label (`OneOpenJobPerKey`), nothing dispatched without its label and no label printed by Desktop whose supply stays (`DispatchedIsOnPaper`), no job forgotten (`EventuallySettled`) |

## Modules

| Module | Models | Builds on |
|---|---|---|
| `FbsWaveState` | the tables of fulfilment and the helpers over them | |
| `FbsPicking` | reservation, waves, picking, problem reports, imported statuses, start of a recount | `FbsWaveState`; implements `FbsStockLedger` |
| `FbsVerification` | the controller's desk and the WB label; the whole of fulfilment | `FbsPicking` |
| `FbsStockLedger` | what stock operations promise: an abstract ledger | |
| `FbsStatusSync` | how the statuses of one profile's orders are read and stored | |
| `FbsStockPromise` | what the exporter promises at Ozon: an abstract exporter | |
| `FbsStockExport` | the stock exporter of one profile | implements `FbsStockPromise` at Ozon |
| `FbsOzonShip` | the command outbox around one Ozon order | |
| `FbsWbHandover` | the command outbox around one WB supply, and what controllers do with its orders | |
| `FbsPrintQueue` | the print queue of one workstation | |
| `MC...` | instances for TLC | the module of that name |
| `FbsFulfilmentProofs` | theorems about stock and types of fulfilment | `FbsVerification` |
| `FbsFulfilmentBooksProofs` | theorems about the books of orders, waves, labels and balances, and the refinement of the ledger | `FbsFulfilmentProofs`, `FbsSums` |
| other `...Proofs` | theorems (`FbsStockExportProofs`: also the refinement of `FbsStockPromise`) | the module of that name |
| `FbsSums` | lemmas about sums of functions over finite sets | |

### Fulfilment

`FbsWaveState` declares the shared tables as variables. A live allocation row of
order `o` at balance `b` is `alloc[o][b]`; released and cancelled rows are gone,
except those a controller cancelled, whose goods lie in a problem box. `past[o]`
remembers the waves in which the order has a cancelled task, because the unique
index `uniq_fbs_pick_task_batch_order`, the label scan and the verification still
read such tasks. `short[o]` and `lost[o]` are the open not-found issues.

`FbsPicking` has one action per operation. `Progress` is
`_finalize_pick_task_progress`, `ReleaseReservation` is
`release_order_reservation`, `Hold` writes a reservation; the actions use them
where the code calls those functions. `FbsVerification` adds the controller's
operations and the label, so its `Spec` is picking and desk together.

`lock[b]` is the inventory over a balance. `CheckDrained` is the look for operations in
progress, `StartCounting` the rest of `activate_drained_inventory`; between them a wave may be
claimed. A pick (`PickUnit`) asks for an inventory after it has locked its balance, and may be
asked too early: `StartCounting` then leaves the balance `overtaken`, if some pick of it may be
under way (`PickUnderWay`), until that one pick commits. Which pick it is is left open, so the
model has more behaviours than the code; a second one waits for the lock of the balance and
sees the count.

Abstractions: one product, one order line, no expiry dates and no marking codes, so
the candidates of a reservation are the balances in the order of `Rank`. Wave
limits, sort order, routes and the choice of a desk are left open. Marketplace
statuses are reduced to what the import tells apart: `open` (may enter a new
wave), `confirm`, `hold` (any other status that forbids a wave) and `cancelled`;
delivered and other terminal statuses are left out, as are restock of cancelled
orders, relocation, Ozon's preloaded labels and controller totes. A recount ends
only by being cancelled; its counting and approval are not modelled.

`FbsStockLedger` says what all of this does to a unit of stock: it is on sale, kept for
an order, taken by one, or closed until it is counted; a reservation keeps an order's
need in full, a release gives everything back unless something was taken, and nothing
comes back from an order that took it. `StockLedger` is that specification with
`onSale` = `available`, and rows split into what is picked and what is not; every
operation of `FbsPicking` maps to one of its steps or to none.

### Status sync

`FbsStatusSync` is the exchange behind the action `ImportOrder` of `FbsPicking`. A
status run (`pull_profile_statuses`) takes the cursor's lease and chooses its orders
in the same action (`Start`: `_acquire_cursor`, `_orders_after_cursor`), reads them
(`Read`: one request per order at Ozon, one for all at WB), stores them in
transactions of one order or of a chunk (`Store`), and releases the cursor
(`Finish`, `Fail`: `_release_cursor`, which writes nothing without the token).
`Crash` leaves the lease, `Expire` ends it, under a run too. Two more writers store
what they read earlier, under no lease the status run knows: the order pull
(`PullRead`, `PullStore`, `PullFails`) and the creation of a wave (`WaveRead`,
`WaveStore`, `WaveFails`). `StoreStatuses` is the journal: a payload seen before does
not write the order, except for a wave.

`remote[o].ver` and `order[o].ver` count changes at the marketplace; the code has no
such number, it only lets the properties tell older from newer. `overtaken` collects
the orders over which an older reading was stored or whose status came back, the two
ways the code may miss a status; `turns[o]` counts finished runs that owed `o`'s lane
a share since `o` was last read or came into the lane.

Abstractions: status and substatus are one value; what an import does to an order is
the choice of its lane (`LanesAfter`, and for what a status run or a wave stores
`LanesReconciled`, which moves a delivered order to the history from either lane where
`reconcile_delivered_order` finds the evidence, left open here; the rest is in `FbsPicking`); the pull's own
lease, its pages and windows, events that failed validation and are tried again, WB
answers that omit an order, unparsable ids and metadata are left out. The pass number
is kept only where it is read (`Limit < 3`).

### Stock export

A run of `sync_profile_stock_exports` is a process with a program counter. Its
actions are the code's transactions: `Start` (Ozon's catalogue rows), `StartRefresh`
(the quantities on sale are read, `_available_by_binding`) and `Refresh`
(`refresh_profile_stock_export_states` writes them to the rows, later, which is how
an older reading can overwrite a newer one), for WB `ChooseCandidates`, `ReadRemote`
and `Compare` (`_reconcile_wb_remote_stock`), then `Claim`, `Send`, and the reports
(`ReportUpdated`, `ReportRetry`, `ReportRefused`, `ReportFailure`), of which Ozon's
take several transactions. `RefreshOnCommit` is the refresh that every stock change
queues for after its commit. `held[r]` is `_ClaimedStock`: the generation and
quantity the run read. `net` holds the requests on their way, which the
marketplace carries out, in part, late, or never.

Time is one flag per row, `due`. `Elapse` sets it only when no run carries the row
and, at Ozon, no request for it is under way: the settings intend that an answer
(25 s at most) comes before the claim expires (30 s, at Ozon
`FBS_OZON_STOCK_MIN_INTERVAL_SECONDS`, 120 s). This is an assumption; nothing in the
code enforces it. WB's catalogue of item ids is taken as filled. A batch takes the
smallest quantities first, up to `Limit`.

`FbsStockPromise` is the exporter without transactions: `Begin` sends the wanted
quantity of rows that have no update under way, `Settle` ends updates, carried out or
not, `Acknowledge` marks rows whose shown quantity is right and that no update can
change. `ExportPromise` instances it with `flying[i]` = `UnderWay(i)`: the quantity of a
claim about to be sent, and of requests on the net.

### Ozon ship outbox

`cmd[c]` is the row of command `c` (status, `attempt_count`). There is one ship and
one label command per order (`_idempotency_key`), and a readback per attempt of the
ship, besides the one the scheduler enqueues with the plain key, `Read(0)`. A worker
(`pc[w]`) takes three steps, as `process_marketplace_command` does: `Claim` in the
first transaction, Ozon's `Answer` (or `Fail`, `ReadOld`, `Refuse`) outside of any,
and `ApplyShip`, `ApplyRead` or `ApplyLabel` in the second one. `Crash` forgets the
worker's memory at any point; the request it left may still arrive (`ShipLate`).
`RecoverStale` is `_recover_stale_sent_commands`. `posting` is the truth at Ozon and
`known` what the order's row says.

Abstractions: `next_attempt_at`, priorities and profile switches only delay, and are
left to the scheduler's choice; metadata transfers that hold a ship back, and the
reopening of ships failed with a stored HTTP 400 (`_recover_ozon_semantic_ship_failures`)
are left out. `scanned` says that the controller scanned a preloaded code of the order
before. `delivering` stands for all of `OZON_ACCEPTED_STATUSES`.

### WB handover

`FbsWbHandover` follows the orders of one wave into one WB supply. `cmd[w]` is the row of
write `w` (create the supply, deliver it, add or cancel an order) and the answer WB gave
to it; `read[w]` is the readback that settles it. There is one slot per write since the
readbacks of an attempt follow each other: an add is looked for in the supply
(`presence`, `member`), then in the others (`lookup`). The slot of `Cancel(o)` also holds
the read that checks an order somebody else cancelled. A write goes out and comes back in
steps of its own: `Claim` (first transaction of `process_marketplace_command`), `Land` or
`Lose` (WB), and `Accepted`, `Unclear`, `Refused` or `CodesRefused` (second transaction).
A read's request and answer are one step (`AskWb`), what is done with the answer another.
A read that is answered with HTTP 409 ends in conflict, which nobody tries again and which
tells no request (`ReadFailed`, `GivenUp`); other failed reads are tried again and then fail.
What a transaction commits goes through `Commit`, which is `_sync_handover_failure`: a
command that failed for good marks its assignment or batch, and an add that failed
conclusively may take the order back at once.

`asg[o]`, `ord[o]`, `ret[o]` are the assignment, the order and its restock request. An
order is excluded by a controller (`Exclude`), after an imported cancellation (`Import`),
for a problem at the desk (`ReportProblem`), or with the whole wave (`ReturnWave`); it is
taken back (`ret[o].st = "queued"`) at once or when a readback no longer sees it
(`HasLeft`). `Sync` is the periodic comparison of the supply, whose answer may also be
applied late (`Survey`, `Reconcile`). `ret[o].gap` and the value `late` of `place[o]` are
ghosts: which hole of the code an order was taken back through, and that a request
nobody waits for any more brought it into the supply.

Abstractions: boxes, supply labels, containers, overrides of a readiness check, back-off
and priorities, workers slower than the stale timeout, batches that replace a deleted one
(`SupplyMissing` ends this one), statuses other than a cancellation, the requeue of an
order the marketplace no longer finds, codes sent again over another route, and the
commands of the codes themselves. A wave is assumed to go through a controller's tote,
so that delivery and dispatch check the composition (`Composed`).

### Print queue

`jobs[n]` is the n-th row of `ProcessingPrintJob`: status, label, which key it was
queued with (`card`), the program that prints it (`target`), attempts, lease. The
queueing operations are `QueueOnce` (`_queue_png` with deduplication), `QueueAgain` (a
person asks for the label) and `RecoverStale`
(`recover_stale_fbs_order_label_print_job`). A page of Desktop polls (`Reclaim`, the
return of expired leases, which commits; then `JobsNext`, the claim of a batch in a
transaction of its own), may be reloaded with the
answer in flight (`Reload`), prints (`Printed`, `PrintFails`) and has Desktop write the
call down (`store`), which is acknowledged before the next poll (`Flushed`), wholly or in part
(`Acknowledge`, `AcknowledgePart`), or refused for the whole batch (`Accepts`). The
older agent serves its own jobs through another end point over the same rows
(`AgentNext`: there the expired leases and the claim are one transaction, of one job or of a
batch; `AgentPrints`, `AgentFails`). `Reset` and `Delete` are the operator's
buttons.

Time is what the code compares: `Expire` ends a lease, `GoQuiet` says that
`FBS_DESKTOP_PRINT_LEASE_SECONDS` passed since `updated_at`, `GrowOld` that
`_MAX_RECLAIM_AGE_SECONDS` did. `Expire` during a call is a fault (`MaySlow`).
`LongLease` allows a batch whose lease (15 s and 2 s a label) exceeds the 60 s of
`GoQuiet`; it is FALSE in the run, see the traces below. `extra[n]` is a ghost: how
many further copies of row `n` a person, a fault or another part of the system
accounts for. Images, printers, access rights and marking codes are left out.

## Runs

Passing runs explore their whole state space.

| Run | Instance | What it shows |
|---|---|---|
| `stock` | two orders of one and two units, balances of two and one unit (the second above the first tier), two waves, one picker, statuses open, hold, cancelled | an order split over both balances, competition for the last unit, partial and whole shortage, a second pick, counts that start beside picks: the books agree throughout, blocked orders let go, a count misses one unit at most, and the operations implement `FbsStockLedger` |
| `desk` | two orders, three waves, two balances, two pickers, carts and controllers, statuses open, confirm, cancelled | picking, verification, label, controller's problem and cancellation in every order; merging and regrouping of waves that hold cancelled tasks, takeover, release out of a wave in progress |
| `export_rows` | two Ozon rows, requests of up to two, two runs, one change, one fault, one new product id | partial answers and stale claims of overlapping runs |
| `export_ozon` | one Ozon row, two runs, two changes (the second may bring the first quantity back), one fault, fairness | no reconciliation at Ozon: what is marked synced must really be there; the refinement of `FbsStockPromise` |
| `export_wb_live` | one WB row, two runs, one change, two faults (a foreign change or a late request among them), fairness | reconciliation repairs what the protocol cannot exclude |
| `ship` | one order, two workers, two attempts per command, two faults, fairness | every failed, late or refused call and every crash up to the limit of attempts; which keys each of them uses up |
| `handover` | two orders of one supply, two attempts per command, trouble twice | every order in which writes, readbacks, a late request, the buyer, the seller at WB and the controllers may meet: goods go back only of orders that left the supply, the supply closes over verified orders, doubt is pursued, and no order waits behind a command that has ended, but for the holes the properties name |
| `print` | an order label and a supply label, two rows, two pages, one older agent, batches of up to two, two attempts, two faults, two requests of a person, fairness | lost answers, failed and slow calls and half an acknowledgement, with every way to queue a label again; in the end every job is printed, fails, is deleted or is left to the controller |
| `sync_wb` | two WB orders not yet imported, two statuses each, chunks of one, a run, the order pull, a wave, one fault, fairness | every order in which three writers store what they read; a second status run adds nothing the wave does not (it too stores late and without regard to the lease) |
| `sync_lanes` | three Ozon orders in two lanes, one order a run, two runs, one fault (a lease outlived, a crash, a failed request), an order that changes lanes, fairness | the turns of the lanes through ten passes, the smallest batch, and two runs over one cursor |

**Bounds.** Two of everything that can compete is what each hazard needs: two orders
for one unit, two waves for one order, two runs or two workers for one row; `desk`
has a third wave because a merge needs a primary, another and the one a task came
from. `MaxAttempts = 2` is the least with a retry and a last attempt. Changes and
faults are counted, since a run of faults without end would excuse everything;
quantities 0 and 1 tell an older value from a newer one and let a value return.
`MaxTrouble = 2` in `handover` is shared by everything that does not happen by itself (lost
requests and answers, failed reads, refused codes, late syncs, cancellations, moves of
the seller and repeated decisions of operators): each hole the properties name takes one
or two of them.
The queue of `print` has two rows since every hazard there is between two rows of a
label, of a batch, or of the two programs; further rows wait behind them.

**Deadlock** is checked in `export_ozon`, where the exporter must always have
something to do, in `export_wb_live` and in `export_rows`. In fulfilment, in the outbox
and in the handover the system does come to rest when all orders are done, in the print queue when
all jobs are, and in the sync instances when faults and changes are used up.

**View.** `export_rows` identifies states that differ only in `remote`, what Ozon
shows. No guard of an Ozon instance reads it (`ReadRemote` and `Drift` need `Wb`), and
neither property of that run does, so no behaviour of the rest is lost; its items and
runs are interchangeable (`Symmetry`), and it checks no liveness. So are the pickers and
the controllers of `desk` (`People`) and the orders of `handover` (`OrderSymmetry`): no
action compares them, and neither run checks liveness.

**Fairness.** Fulfilment and the handover have none: people decide when to act. The exporter is started
by a scheduler again and again, time passes and a request is settled in the end:
`WF` of `RunStep(r)`, `Elapse(i)` and `Late`. The outbox worker is a loop
(`process_fbs_marketplace_queue --watch`) that runs its schedulers, the recovery and
the commands: `WF` of `Schedule`, `RecoverStale(c)` and `WorkerStep(w)`; `Import`
polls the marketplace. Pages of Desktop poll every three seconds, a native call ends,
its record is sent and leases end: `WF` of `Reclaim(w)`, `JobsNext(w)`, `Printed(w)`, `Acknowledge`,
`AgentNext(a)`, `AgentPrints(a)`, `Expire(n)`. A status run is started again and again
by a scheduler, but may find the cursor leased whenever it looks: `SF` of `Start(r)`,
`WF` of its steps and of `Expire`. Faults, changes, Ozon's own moves and `ShipLate` are never
forced to happen, and which worker takes which command is left open.

`EventuallyLabelled` excuses an order whose posting was cancelled, and one for which
Ozon refused for good, or the attempts ran out on, just the command its posting's
status asks for.

### Runs that end in a counterexample

| Run | What the code says | What happens |
|---|---|---|
| `one_wave_per_cart` | a tote in use serves one unfinished wave | releasing the last active order of a wave cancels it although an exception task remains; the retried exception later moves the cancelled wave to verification, with a tote that serves another wave by then |
| `reported_stock` | reported stock is unavailable until recounted | a release of another order returns units to the closed balance |

### Seen while modelling, without a run

These traces are behaviours of the models; no property forbids them.

* *Takeover.* Picker P reports a problem on a task and leaves; Q takes the wave over
  (`_take_over_locked_pick_batch` reassigns queued and started tasks only); the
  exception is retried. The task is in progress in Q's wave and belongs to P.
* *Refilling a wave.* An order is added to an untouched queued wave, put on hold
  (its task is cancelled and stays) and reserved again. Filling the same wave with it
  violates `uniq_fbs_pick_task_batch_order`; `AttachOrders` excludes such waves as the
  database does.
* *Label of another wave.* An order was released from wave 1 and picked in wave 2.
  While both are in verification, `confirm_order_label_scan` takes the first one by id
  among all waves with a task of the order, cancelled tasks included, so it demands
  the controller of wave 1.
* *Order in hand.* `_pending_verified_order_label_exists` reads labels of all orders with
  any task in the wave; an order that left the wave and waits for its label elsewhere
  stops the verification of the wave it left.
* *New product id.* `_ensure_ozon_stock_catalog_states` makes a row due whose product id
  changed even while a run is sending it: two updates of the row may then be under way
  and arrive in either order. `OneUpdateAtATime` and `SyncedIsExported` are stated
  for `MaxRebinds = 0`.

* *Second pick.* An order reported missing in part is picked again in full from two
  balances; no single later row makes up for the lost quantity, and the registration of its label is
  refused although nothing is missing (`labels.py:176`).
* *Refusal of an older quantity.* A refresh makes a newer quantity pending; Ozon's refusal of the
  older one then blocks the row (`ReportRefused`, `stock_sync.py:1111`), until the quantity
  changes again.
* *Slow worker.* With `MaxStalls = 1`, `DoubtIsChecked` is false: a worker slower than
  `FBS_MARKETPLACE_SENT_TIMEOUT_SECONDS` writes its unclear outcome without the
  `expected_status` check of the recovery; the ship, already allowed to retry, is in
  conflict again, its readback is spent and is not enqueued anew.
* *Long batches.* With `LongLease`, a batch of 23 labels and more has a lease longer than
  `FBS_DESKTOP_PRINT_LEASE_SECONDS`; a controller's retry queues its rows again while
  they are being printed, which the comment at `printing.py:261` does not expect.
* *Refused batches.* One row an operator moved on makes the acknowledgement of a whole
  call be refused (409); its other rows, printed on paper, are reclaimed and printed
  again ("Reclaiming is safe", `desktop_print.py:165`). `extra` counts these copies.
* *Expired leases and the older agent.* Its poll puts every expired lease back, those of
  Desktop included, without `_MAX_PRINT_ATTEMPTS` or the age
  (`processing_app/services.py:16026`); `AttemptsBounded` counts these grants.
* *Supply label by the older agent.* `AgentPrints` never dispatches the supply; only
  `jobs_complete` does.
* *Two jobs of one label.* The page's own job has a key with the verification's scope, the
  registration's and the controller's have others: a label may have an open job under
  each. A controller's retry does not see the page's job, queues a second one, and Desktop's
  next poll is handed both, although `printing.py:261` says that a retry and a poll cannot
  claim two copies of one label. `OneOpenJobPerKey` says what does hold: one open job of each
  kind of key.
* *A count beside a pick.* The activation of an inventory finds no task, a wave is claimed, a
  pick finds no inventory, the count starts, and the pick takes its unit, although
  `inventory.py:302` says that the inventory blocks it. `CountMissesOneUnit` bounds the loss. A
  recount that a manager approves finds the difference (`inventory_workflow.py:508`).
* *A blocked exception.* An order in exception that is put on hold or cancelled keeps the rows
  nobody picked (`sync.py:1114`), and the retry of the exception goes on picking them
  (`problems.py:1676` does not look at the market). `BlockedOrderLetsGo` excepts these orders.
* *A dead Ozon posting.* With `Dead = {1}`, `EveryOrderRead` is false: a run stops at the first
  posting whose request fails (`sync.py:2044`), its cursor stays before it, and the next
  run begins there again.
* *A status that comes back* (or was overwritten by an older reading) is not stored by any
  later status run, because its payload is in the journal; the refresh of a wave, which
  writes regardless, is what puts it right. `overtaken` names exactly these orders.

* *A late add.* A request to add an order is lost, the search says the order is nowhere, the
  add is to be tried again, and a controller reports a problem: the goods go back to stock.
  If the request arrives now, the order is in the supply (`late`); an order not packed yet
  when the supply closes stays in it too.
* *Delivery without another look.* WB stops a delivery for refused codes; an order is taken
  out; the last code confirmed resumes the delivery (`FixCode`, `marketplace.py:1035`)
  although the composition changed. If instead the order with the refused code is the one
  taken out, its code is never confirmed, the delivery stays in conflict, and a new request
  leaves the batch in `delivery_pending`.
* *Old membership.* The membership read before an order was taken back is applied after it:
  `Member` confirms the cancelled assignment again and forgets an imported cancellation.
* *Stuck halves.* A supply deleted while the membership is read (404) leaves the assignment
  pending with its readback failed; two supplies of one name leave the create in conflict
  with its search failed; a create that failed for good is shown as `creating` again by the
  next scheduling of an order (`marketplace.py:434`), which gets the failed command back. A readback answered with HTTP 409 is
  in conflict (`marketplace.py:2990`): its write stays in doubt, and a return that waits for
  it is neither failed nor can be tried again. Behind a create or an add that ended so, the
  order waits for ever: these are the exceptions `DoubtIsPursued` and `PendingIsUnderWay` name.
* *The whole wave.* `ReturnWave` cancels adds in flight and passes over adds in doubt, while
  the docstring of the single order (`pick_restock.py:2478`) wants WB to have confirmed that
  the order left. `TakenBackIsFree` excludes these orders by `gap = "wave"`.

## Proofs

All theorems hold for every value of the constants that satisfies the modules'
assumptions; tlapm checks every step.

`FbsFulfilmentProofs` (any orders, balances, waves and people, from
`ConstantsAssumption`, which takes orders and balances to be finite as tables are):
`Typing`, then `StockIsCovered` (`[]BalanceSound`), which is
inductive with types because every plan is capped by what is on sale and every row
by what is reserved; `RowsAreSound` (`[]ProgressSound`); and `CountsMissOneUnit`
(`CountMissesOneUnit`), an action property: only a pick takes goods off a shelf, one that
finds the balance overtaken makes it counting, and no other step ends a count but by
cancelling it. Next includes the
steps of the controller's desk, so all of this and what follows is about fulfilment as
a whole. `TypeOK` leaves out the four counters of tasks and waves; `CountersTyped` in the
next module has them.

`FbsFulfilmentBooksProofs` (the same assumptions) is about the numbers and statuses that
the code keeps twice. Its invariants build on each other:

* *Orders.* `RowsFit` says what the status of a row means for its quantities. `OrdersSound`
  holds two parts for every order: `Stage` gives, for each status, the task and which rows
  it may have (`OnShelf`, `InHand`, `InTote`, `SetAside`); `Books` says that the task's
  counters are sums of those rows, and that the task stands for the whole order as long as
  no shortage of it is open. They give **`StoriesAgree`** (`[]StatusesAgree`). A step that touches one order
  leaves the others as they were (`Untold`), and no wave that was handed over is taken back
  (`HandedStays`), on which `SetAside` rests.
* *Waves.* `WavesSound`, the counters of each wave are sums over its tasks, gives
  **`CountersAreSums`** (`[]CountersAgree`), through merging, regrouping, release and loss.
* *Labels.* `LabelsSound`: only picked orders have a label, a stuck one means every row
  verified and no shortage. It gives **`LabelsMeanComplete`**, because no step of
  picking touches an order that waits in a tote (`Rests`).
* *Stalls.* `FullWaves`: the counters of a wave meet exactly when each of its tasks is settled.
  The code decides by the counters what becomes of a wave, so the steps that settle a task
  leave it decided (`Settles`, `Decided`): something open, all picked and in verification,
  or nothing but exceptions and canceled. With `WavesShape` this gives **`WavesNeverStall`**.
* *Desk.* `ScansSound`: only goods of waves in verification or done have been scanned
  there or labelled. So a wave that comes to the desk still has an order without a label, and
  an order that is added to a new wave brings no label along. With `ClosesWell` this
  keeps `DesksSound`, hence **`DoneWavesAreLabelled`** and **`NoWavesAreLeftOpen`**.
* *Balances.* `BalancesSound`: what is reserved at a balance is the sum of what the rows of all
  orders still have to get there, and what it lost is the sum of what they picked. It
  gives **`LedgersAgreed`**.
* *Blocked orders.* **`BlockedOrdersLetGo`** (`BlockedOrderLetsGo`) looks at one step: an import
  releases what `CanRelease` allows, and `Stage` says that an order it does not release has goods
  picked, has no live row, or is an exception (`BlockedLetsGo`); the steps that give an order
  a row look at the order's marketplace status first (`BlockedGetNoMore`).
* *Ledger.* **`StockIsALedger`** (`Spec => StockLedger`) is the refinement of
  `FbsStockLedger`. A reservation is `Keep` (`LedgerKeeps`), a release by the import or from
  an upper tier `GiveBack` (`LedgerReleases`: it is allowed only while nothing was picked), a
  scan `Take`, a report `Miss`: of one quitter when an untouched order gives up everything
  (`LedgerUntouched`), of none otherwise (`LedgerLoses`), also when a missing quantity
  costs several orders their whole plan, since that plan lay at this balance alone
  (`MissingLeft`). All other steps leave the ledger alone.

`FbsSums` is the library behind them: the value of a sum on a set with one element more,
without one, over a union, over equal or ordered values, with one value changed. The
community modules define these sums by recursion over subsets. The induction theorems of the
library take an operator, which the provers cannot instantiate, so induction over finite
sets is proved here with the property given as a set (`LeastNumber`, `BySmallerSets`,
`OneByOne`).

`FbsStockExportProofs` (any rows, runs, batch limit, changes and faults, both
marketplaces): `SyncedRowsAreSent` (`[]SyncedMeansSent`) and `ClaimsAreSound`
(`[]ClaimsSound`). Alone the first is not inductive: a
run could mark a row synced with the quantity it read long ago. `ClaimsSound`, which
no run needs to check beside it, is the missing part: a claim of the present generation is of the present quantity, and needs
that generations only grow; `Sound` is the conjunction, kept by every step under
`TypeOK`.

Its second part (Ozon, `MaxRebinds = 0`): `OzonUpdatesAlone` and
`SyncedRowsAreExported`. `Exclusive` says that a row is in at most one run and one
request, that the request is that run's, and that a due row is in none, so a claim
cannot double it; `Exported` then says that a synced row, and one a run is about to
mark synced, is shown as wanted and every request still under way for it asks the
same.

Its third part (Ozon, `MaxRebinds = 0`): `OzonKeepsPromise`, the refinement of
`FbsStockPromise`. Each step of the exporter, from a state of `Exclusive` and `Exported`,
is shown to be the abstract step named for it (`Claim` begins, `Late` and the
reports settle, `ReportUpdated` acknowledges) or to leave the abstract variables alone.

`FbsPrintQueueProofs` (any labels, pages, agents, rows and limits): `PrintTyping`, and
`PrintAttemptsBounded` (`[]AttemptsBounded`), strengthened by the fact that a row Desktop
may claim without anybody's grant still has an attempt left (a pending row has used
fewer attempts than `MaxAttempts` and its grants). The other three rest on `Copies`. For
each row it bounds what the label may still cost: copies on paper, one for each call that
prints it, and one more if the row can be claimed again by itself, because it is pending or
its lease can be reclaimed while no record of Desktop says that it was printed; this never
exceeds one and what `extra` grants (`PrintNoSecondCopy`). A supply marked dispatched has a
row on paper, and a row of Desktop that is reported printed has had its supply dispatched in
the same commit (`PrintDispatchedIsOnPaper`); of the rows of one key of a label in Desktop's
queue one is open (`PrintOneOpenJobPerKey`).

`FbsWbHandoverProofs` (any orders, attempts and trouble): `HandoverTyping`, and
`HandoverDoubtIsPursued` (`[]DoubtIsPursued`). `RowOK` says of each write what makes
that inductive: only rows on their way hold an answer; an add of an order that is not out
belongs to a pending assignment as long as it is alive, and is not sent while its readback
is open; a delivery refused for codes names one; a delivery exists only after the packing
has ended (so no order can be added behind it). `OrderOK` ties the assignment to the
order. Steps change one slot or enqueue commands beside it, and then go through
`Commit`: `CommitOK` shows once that what a transaction commits keeps every row;
`RestOfWrites`, `RestOfOrders` and `RestOfBatch` give the types of what WB holds.
`HandoverTakenBackIsFree` (`[]TakenBackIsFree`) adds `Fits`, which relates the rows of an order to where
it is: one that is not out and is in the supply has an add that may have brought it there,
which no readback says it did not; one that is out is brought there only by an add that
the return of its wave passed over. `HandoverDoubtIsPursued` needs `Pursued` besides, which says
of each state of a return how far its cancellation and its readback are: waiting for the one or
the other, or failed with it; `CommitPursued` shows that a transaction that fails either tells
the return, and only a conflict of the readback does not. `HandoverShippedAsVerified`, an action property, adds
`Course`: while a delivery is under way the supply is not changed unless WB stopped it
(`Desk`), what says that it was delivered or that WB has an order is right (`Shut`,
`Reached`), and each order of the supply was ready or was taken out when WB had stopped the
delivery (`Traced`). `Goes` says what one step may do to all this.
`HandoverPendingIsUnderWay` (`[]PendingIsUnderWay`) rests on `Waits`, which every step
satisfies: what confirms the create makes the supply known, and an add that a step confirms
or fails is not pending afterwards; that a doubt has its readback open or given up is
`RowOK`. `Commit` sees to it for the adds that fail
(`CommitWaits`), `Member` for those that are confirmed; every other step ends no add
(`Calm`). An assignment becomes pending only from none, when by `Course` its add is not
there yet; that the sync settles a missing order as an error, and not as pending again, is
what the mutant of `Reconciled` breaks. A cancelled add of an order that is not out is
excluded by `RowOK`.

`FbsStatusSyncProofs` (any finite set of orders, any values, runs, limits and faults):
`SyncTyping`, and `SyncJournalKeepsItsWord` (`[]JournalKeepsItsWord`). A status is stored long after it
was read, so `SyncInv` also speaks of every reading under way, by a run, the pull or a wave
(`Readings`): it is a status the marketplace has had, and as long as none came back, the
one that says what the marketplace says now is the newest. What is stored satisfies
the same (`Stored`). Lemmas about sequences show that the choice of orders takes each once and
that the chunks of a run are disjoint slices of it, so no reading is stored twice.
`SyncLaneTurns` (`[]LaneTurns`) puts the keys on a circle, as the cursor of a lane goes
round them. `Booked`: the turns an order has waited for, each as many orders as its lane's
share, and the orders from the cursor on to this one (`Ahead`) make no more than one round. A run
moves the cursor only when it ends with its lease, by what it chose when it began, so
`InTurn` says of such a run what has become of its choice: the orders of each lane are in
the order of the circle (`ReadInOrder`), an order it passes by has been read or came into the
lane only now (`PassedRead`), and if an order waits and was not chosen, the run has chosen a
full share of its lane, none of them behind the order (`WaitsOn`). `Chosen` has these
properties (`ChosenInTurn`) since it takes from each lane what follows the cursor and the spare
places continue where the shares end (`ChosenFollows`). A run without the lease changes
neither cursor nor turns, which is what the mutant of `Mine` breaks.

`FbsOzonShipProofs` (any workers, attempts and faults): `ShipTyping`, whatever stalls; and
for `MaxStalls = 0`
`ShipDoubtIsChecked` (`[]DoubtIsChecked`) and `ShipNeverResentBlindly` (`NoBlindResend`).
`Invariant` adds to them: `Held` (a claimed row says sent and has one worker, which is
where a worker slower than the stale timeout would break it), `AttemptsLeft` (a
command that may be claimed has an attempt left, which bounds the readbacks),
`ReadsInOrder` (readbacks of earlier attempts are confirmed, none exists for later
ones, and the ship's status says how far the last one is) and `PostingKnown` (what the
order and the readbacks know is true or outdated). A ship is claimed again only in
status retry, which `ReadsInOrder` ties to a confirmed readback. The assumption
`MaxStalls = 0` is needed, as the trace of the slow worker above shows.
`ShipKeyIsNotSpent` (`[]KeyIsNotSpent`) needs no such assumption: the scheduler finds its
next command by the status the order knows, and a key once confirmed is never sent again.
`RowsTell` says what a confirmed row has achieved: the ship took the posting out of
awaiting packaging, the label is there, the scheduler's own readback was asked only of a
posting on its way, and found its label or its cancellation. A worker writes its answer
whenever it comes, so `Remembers` says the same of what each worker holds, slow ones included:
it was true of the posting, which only moves on. The readbacks of attempts have keys of
their own; with the scheduler's key (the mutant of `ReadbackKey`) the readback of a ship
uses up the one the order needs later.

**Only model-checked:** liveness (`EventuallyExported`, `EventuallyExportedOrRefused`,
`EventuallyLabelled`, `EventuallySettled`, `EventuallyCurrent`, `EveryOrderRead`; fairness
is beyond the prover). Every safety property of the passing runs is stated by a theorem; the
two runs with counterexamples need no proof.

## Not modelled

Of `fbs`: storage and movements of boxes, totes, handover boxes and their labels, the
restock of picked goods after an order was taken back, delivery reconciliation, and the
metadata commands of the outbox. They touch the modelled components only where goods
enter or leave the shelves. The views and the parsers of the marketplaces hold no state.
Of the other apps only the print queue of `processing_app` is modelled, which FBS shares;
receiving, the warehouse, shipping, billing and the cabinets are systems of their own
and exchange stock levels and documents with `fbs`. PROJECT.json gives the reason for each
component.

## Plan

1. Fulfilment, its proofs and its ledger: done.
2. The exporter and its refinement: done.
3. `FbsOzonShip`: done for ship, readback and label. Left: the reopening of failed ships.
4. `FbsWbHandover`: done for supply, order assignments and delivery with their uncertain
   writes and readbacks, and for orders taken back meanwhile. Left: boxes, supply labels,
   the codes' commands, batches that replace a deleted one.
5. `FbsStatusSync`: done, its proofs too.
6. `FbsPrintQueue`: done.
7. The restock of picked goods and the counting and approval of recounts, as extensions of
   `FbsPicking`; totes and transfer between controllers as one of `FbsVerification`.
