----------------------------- MODULE FbsStatusSync -----------------------------
(***************************************************************************)
(* How the orders of one marketplace profile keep up with the marketplace. *)
(* Status runs take the lease of the profile's cursor, choose orders lane  *)
(* by lane, read their statuses and store them through the event journal,  *)
(* which holds one event for each payload ever seen.  The order pull       *)
(* stores statuses through events of its own kind; the creation of a wave  *)
(* reads the statuses of its orders and stores them without a lease.  Each *)
(* of them may store what it has read long before.  A run may fail, crash  *)
(* or outlive its lease.                                                   *)
(*                                                                         *)
(* The status and substatus of an order are one value; a payload is the    *)
(* order and the value.  ver counts the changes at the marketplace: the    *)
(* code has no such number, the properties need it.  What an imported      *)
(* status does to stock and tasks is in FbsPicking; here it may move the   *)
(* order to another lane.                                                  *)
(***************************************************************************)
EXTENDS Integers, FiniteSets, SequencesExt

CONSTANTS
  Orders,      \* primary keys, positive integers
  Values,      \* statuses the marketplace reports
  Listed,      \* those of them the marketplace lists among its orders
  Imported,    \* orders that are in the database already ...
  HandedOver,  \* ... and handed over
  Dead,        \* orders whose status request always fails
  Runs,        \* processes that pull statuses
  Ozon,        \* one request for each order, as Ozon; otherwise WB
  Limit,       \* orders in one run
  ChunkSize,   \* _SYNC_WRITE_BATCH_SIZE
  MayReturn,   \* a status may return to an earlier one
  MaxVer, MaxFaults, MaxMoves \* bounds

ASSUME SyncAssumption ==
  /\ Orders \subseteq Nat \ {0} /\ IsFiniteSet(Orders)
  /\ Dead \subseteq Orders /\ Imported \subseteq Orders /\ HandedOver \subseteq Imported
  /\ Listed \subseteq Values
  /\ Ozon \in BOOLEAN /\ MayReturn \in BOOLEAN
  /\ Limit \in Nat \ {0} /\ ChunkSize \in Nat \ {0}
  /\ MaxVer \in Nat \ {0} /\ MaxFaults \in Nat /\ MaxMoves \in Nat

VARIABLES
  remote,     \* the marketplace: status of each order and the statuses it had
  order,      \* FbsOrder
  journal,    \* processed FbsMarketplaceEvents: kind, order, value
  cursor,     \* FbsSyncCursor of the stream of statuses
  run,        \* the status runs
  pull,       \* what the order pull has read and not stored
  wave,       \* what the creation of a wave has read and not stored
  turns,      \* turns[o]: runs that gave o's lane a share since o was read last
              \* or came into it
  overtaken,  \* orders whose status was overwritten by an older one, or came back
  faults, moves

bounds == <<faults, moves>>
vars == <<remote, order, journal, cursor, run, pull, wave, turns, overtaken, faults, moves>>

Lanes == {"active", "transit", "history"}
None == [val |-> "none", ver |-> 0]
Known == {o \in Orders : order[o].known}
Nothing == [o \in Orders |-> None]
Fresh == [pos |-> [l \in Lanes |-> 0], pass |-> 0]
Idle == [st |-> "idle", chosen |-> <<>>, done |-> 0, got |-> Nothing, from |-> Fresh,
         at |-> [o \in Orders |-> "active"], waiting |-> {}]

Init ==
  /\ remote \in [Orders -> {[val |-> v, ver |-> 1, past |-> {v}] : v \in Values}]
  /\ \A o \in Orders \ Imported : remote[o].val \in Listed
  /\ order = [o \in Orders |->
       IF o \in Imported
       THEN [known |-> TRUE, val |-> remote[o].val, ver |-> 1,
             lane |-> IF o \in HandedOver THEN "transit" ELSE "active"]
       ELSE [known |-> FALSE, val |-> "none", ver |-> 0, lane |-> "active"]]
  /\ journal = {[kind |-> "order", of |-> o, val |-> remote[o].val] : o \in Imported}
  /\ cursor = [at |-> Fresh, token |-> {}, live |-> FALSE]
  /\ run = [r \in Runs |-> Idle]
  /\ pull = Nothing /\ wave = Nothing
  /\ turns = [o \in Orders |-> 0]
  /\ overtaken = {}
  /\ faults = 0 /\ moves = 0

Fault == faults < MaxFaults /\ faults' = faults + 1
ReadOf(o) == [val |-> remote[o].val, ver |-> remote[o].ver]

-----------------------------------------------------------------------------
\* The choice of orders (_orders_after_cursor).

Lane(l) == {o \in Known : order[o].lane = l}

\* Mutant of Share: tiny batches always go to the live orders first.
ShareLiveFirst(l, pass) ==
  IF Limit >= 3 THEN IF l = "active" THEN Limit - 2 ELSE 1
  ELSE IF l = "active" THEN Limit ELSE 0
\* What of a run's limit the lane is sure to get.
Larger(m, n) == IF m > n THEN m ELSE n
Share(l, pass) ==
  LET history == Larger(1, Limit \div 10)
      transit == Larger(1, Limit \div 5)
      turn == CASE pass = 9 -> "history" [] pass \in {3, 7} -> "transit" [] OTHER -> "active"
  IN  IF Limit >= 3
      THEN CASE l = "history" -> history
             [] l = "transit" -> transit
             [] l = "active" -> Limit - history - transit
      ELSE IF l = turn THEN Limit ELSE 0

\* The orders of S by key.
Sorted(S) == [i \in 1..Cardinality(S) |-> CHOOSE o \in S : Cardinality({p \in S : p <= o}) = i]
\* The orders of a lane in the order they are read.
Around(l) ==
  Sorted({o \in Lane(l) : o > cursor.at.pos[l]}) \o Sorted({o \in Lane(l) : o <= cursor.at.pos[l]})

UpTo(s, n) == SubSeq(s, 1, IF Len(s) < n THEN Len(s) ELSE n)
Beyond(s, n) == SubSeq(s, n + 1, Len(s))

Chosen ==
  LET share(l) == Share(l, cursor.at.pass)
      sure == UpTo(Around("active"), share("active")) \o UpTo(Around("transit"), share("transit"))
                \o UpTo(Around("history"), share("history"))
      spare == Beyond(Around("active"), share("active"))
                 \o Beyond(Around("transit"), share("transit"))
                 \o Beyond(Around("history"), share("history"))
  IN  sure \o UpTo(spare, Limit - Len(sure))

-----------------------------------------------------------------------------
\* Storing what was read (_ingest_status, _ingest_order).

\* What the import of a value may do to the lane of the order
\* (_apply_imported_order_stock_state).
LanesAfter(o, v) ==
  IF order[o].lane # "active" THEN {order[o].lane}
  ELSE {"active"} \cup {l \in {"history"} : v = "cancel"}
                  \cup {l \in {"transit", "history"} : v = "complete" /\ ~Ozon}

\* A delivered order, which at WB has the status of one that has only left, is
\* reconciled where the evidence allows it, from either of the other lanes.
Delivered == IF Ozon THEN "delivered" ELSE "complete"
LanesReconciled(o, v) == LanesAfter(o, v) \cup {l \in {"history"} : v = Delivered}

\* The order with the value that was read, whatever it had.
Written(o, got, lane) ==
  [order[o] EXCEPT !.val = got.val, !.ver = got.ver, !.lane = lane]
\* The payload is in the journal: the order is not written.
Kept(o, got, lane) ==
  [order[o] EXCEPT !.ver = IF @ < got.ver /\ order[o].val = got.val THEN got.ver ELSE @,
                   !.lane = lane]

\* Mutant of Journalled: an event is one for all the statuses of an order.
JournalledOnce(kind, o, v) == \E e \in journal : e.kind = kind /\ e.of = o
Journalled(kind, o, v) == [kind |-> kind, of |-> o, val |-> v] \in journal

\* The orders of S take got, read earlier, as statuses; those of force are
\* written even if the payload is known.
StoreStatuses(S, got, force) ==
  LET fresh == {o \in S : ~Journalled("status", o, got[o].val) \/ o \in force}
      val(o) == IF o \in fresh THEN got[o].val ELSE order[o].val
  IN  /\ \E lane \in [S -> Lanes] :
           /\ \A o \in S : lane[o] \in LanesReconciled(o, val(o))
           /\ order' = [o \in Orders |->
                IF o \in fresh THEN Written(o, got[o], lane[o])
                ELSE IF o \in S THEN Kept(o, got[o], lane[o]) ELSE order[o]]
      /\ journal' = journal \cup {[kind |-> "status", of |-> o, val |-> got[o].val] : o \in S}
      /\ overtaken' = overtaken \cup {o \in fresh : got[o].ver < order[o].ver}

\* Of the orders S, those that stay in their lane.
Unmoved(S) == {o \in S : order'[o].lane = order[o].lane}

-----------------------------------------------------------------------------
\* Status runs (pull_profile_statuses).

\* _acquire_cursor, and the choice made right after it.
Start(r) ==
  /\ run[r].st = "idle" /\ Known # {}
  /\ ~(cursor.token # {} /\ cursor.live)
  /\ cursor' = [cursor EXCEPT !.token = {r}, !.live = TRUE]
  /\ run' = [run EXCEPT ![r] =
       [Idle EXCEPT !.st = "reading", !.chosen = Chosen, !.from = cursor.at,
                    !.at = [o \in Orders |-> order[o].lane],
                    !.waiting = {o \in Known : Share(order[o].lane, cursor.at.pass) > 0}]]
  /\ UNCHANGED <<remote, order, journal, pull, wave, turns, overtaken, bounds>>

Left(r) == Beyond(run[r].chosen, run[r].done)
Asked(r) == IF Ozon THEN {Head(Left(r))} ELSE ToSet(Left(r))

Read(r) ==
  /\ run[r].st = "reading" /\ Left(r) # <<>>
  /\ Asked(r) \cap Dead = {}
  /\ run' = [run EXCEPT ![r].st = "storing",
               ![r].got = [o \in Orders |-> IF o \in Asked(r) THEN ReadOf(o) ELSE None]]
  /\ UNCHANGED <<remote, order, journal, cursor, pull, wave, turns, overtaken, bounds>>

\* One transaction: an Ozon order, or a chunk of WB orders.
Store(r) ==
  LET n == IF Ozon THEN 1 ELSE Len(UpTo(Left(r), ChunkSize))
      S == ToSet(SubSeq(Left(r), 1, n))
  IN  /\ run[r].st = "storing"
      /\ StoreStatuses(S, run[r].got, {})
      /\ run' = [q \in Runs |->
           LET still == [run[q] EXCEPT !.waiting = Unmoved(@) \ S]
           IN  IF q # r THEN still
               ELSE [still EXCEPT
                      !.done = @ + n,
                      !.got = [o \in Orders |-> IF o \in S THEN None ELSE @[o]],
                      !.st = IF Ozon \/ n = Len(Left(r)) THEN "reading" ELSE @]]
      /\ turns' = [o \in Orders |-> IF o \in S THEN 0 ELSE turns[o]]
      /\ UNCHANGED <<remote, cursor, pull, wave, bounds>>

\* _advance_status_cursor, order after order, each in the lane it was chosen from.
Advanced(r, s) ==
  [l \in Lanes |->
    LET mine == {i \in DOMAIN s : run[r].at[s[i]] = l}
    IN  IF mine = {} THEN run[r].from.pos[l] ELSE s[Max(mine)]]

\* Mutant of Mine: the token is not looked at.
MineOrNot(r) == TRUE
Mine(r) == cursor.token = {r}

\* _release_cursor.
Release(r, at) ==
  cursor' = IF Mine(r) THEN [at |-> at, token |-> {}, live |-> FALSE] ELSE cursor

\* Mutant of NextPass: the remainder is taken where the pass is read.
NextPassEndless(pass) == IF Limit >= 3 THEN 0 ELSE pass + 1
\* status_poll_pass, where it is looked at.
NextPass(pass) == IF Limit >= 3 THEN 0 ELSE (pass + 1) % 10

Finish(r) ==
  /\ run[r].st = "reading" /\ Left(r) = <<>>
  /\ Release(r, [pos |-> Advanced(r, run[r].chosen), pass |-> NextPass(run[r].from.pass)])
  /\ turns' = [o \in Orders |->
       IF Mine(r) /\ o \in run[r].waiting THEN turns[o] + 1 ELSE turns[o]]
  /\ run' = [run EXCEPT ![r] = Idle]
  /\ UNCHANGED <<remote, order, journal, pull, wave, overtaken, bounds>>

\* A request fails, or a transaction is rolled back; what was stored before
\* it stays, and the cursor passes the orders Ozon's run has dealt with.
Fail(r) ==
  /\ \/ run[r].st = "reading" /\ Left(r) # <<>>
     \/ run[r].st = "storing"
  /\ IF run[r].st = "reading" /\ Asked(r) \cap Dead # {}
     THEN UNCHANGED faults ELSE Fault
  /\ Release(r, IF Ozon THEN [run[r].from EXCEPT !.pos =
                                 Advanced(r, SubSeq(run[r].chosen, 1, run[r].done))]
                ELSE run[r].from)
  /\ run' = [run EXCEPT ![r] = Idle]
  /\ UNCHANGED <<remote, order, journal, pull, wave, turns, overtaken, moves>>

\* The process dies; the lease stays until it ends.
Crash(r) ==
  /\ run[r].st # "idle" /\ Fault
  /\ run' = [run EXCEPT ![r] = Idle]
  /\ UNCHANGED <<remote, order, journal, cursor, pull, wave, turns, overtaken, moves>>

\* FBS_SYNC_LEASE_SECONDS pass.
Expire ==
  /\ cursor.token # {} /\ cursor.live
  /\ IF \E r \in Runs : cursor.token = {r} /\ run[r].st # "idle"
     THEN Fault ELSE UNCHANGED faults
  /\ cursor' = [cursor EXCEPT !.live = FALSE]
  /\ UNCHANGED <<remote, order, journal, run, pull, wave, turns, overtaken, moves>>

-----------------------------------------------------------------------------
\* The order pull (_pull_profile_orders), under a lease of its own.

PullRead ==
  /\ pull = Nothing
  /\ pull' = [o \in Orders |-> IF remote[o].val \in Listed THEN ReadOf(o) ELSE None]
  /\ pull' # pull
  /\ UNCHANGED <<remote, order, journal, cursor, run, wave, turns, overtaken, bounds>>

\* _ingest_orders_batch, one transaction for up to fifty orders.
PullStore ==
  LET S == {o \in Orders : pull[o] # None}
      fresh == {o \in S : ~order[o].known \/ ~Journalled("order", o, pull[o].val)}
  IN  /\ S # {}
      /\ \E lane \in [fresh -> Lanes] :
           /\ \A o \in fresh : lane[o] \in LanesAfter(o, pull[o].val)
           /\ order' = [o \in Orders |->
                IF o \in fresh THEN [Written(o, pull[o], lane[o]) EXCEPT !.known = TRUE]
                ELSE order[o]]
      /\ journal' = journal \cup {[kind |-> "order", of |-> o, val |-> pull[o].val] : o \in S}
      /\ overtaken' = overtaken \cup {o \in fresh : pull[o].ver < order[o].ver}
      /\ pull' = Nothing
      /\ run' = [q \in Runs |-> [run[q] EXCEPT !.waiting = Unmoved(@)]]
      /\ turns' = [o \in Orders |-> IF o \in Unmoved(Orders) THEN turns[o] ELSE 0]
      /\ UNCHANGED <<remote, cursor, wave, bounds>>

PullFails ==
  /\ pull # Nothing /\ Fault
  /\ pull' = Nothing
  /\ UNCHANGED <<remote, order, journal, cursor, run, wave, turns, overtaken, moves>>

-----------------------------------------------------------------------------
\* The creation of a wave (refresh_wb_order_statuses_for_wave).

WaveRead(S) ==
  /\ ~Ozon /\ wave = Nothing
  /\ S \cap Dead = {}
  /\ wave' = [o \in Orders |-> IF o \in S THEN ReadOf(o) ELSE None]
  /\ UNCHANGED <<remote, order, journal, cursor, run, pull, turns, overtaken, bounds>>

\* The journal is asked, and the orders are written anyway.
WaveStore ==
  LET S == {o \in Orders : wave[o] # None}
  IN  /\ S # {}
      /\ StoreStatuses(S, wave, S)
      /\ wave' = Nothing
      /\ run' = [q \in Runs |-> [run[q] EXCEPT !.waiting = Unmoved(@) \ S]]
      /\ turns' = [o \in Orders |-> IF o \in S THEN 0 ELSE turns[o]]
      /\ UNCHANGED <<remote, cursor, pull, bounds>>

WaveFails ==
  /\ wave # Nothing
  /\ wave' = Nothing
  /\ UNCHANGED <<remote, order, journal, cursor, run, pull, turns, overtaken, bounds>>

-----------------------------------------------------------------------------
\* The marketplace and the warehouse.

Change(o, v) ==
  /\ remote[o].ver < MaxVer
  /\ v # remote[o].val /\ (v \in remote[o].past => MayReturn)
  /\ remote' = [remote EXCEPT ![o] = [val |-> v, ver |-> @.ver + 1, past |-> @.past \cup {v}]]
  /\ overtaken' = IF v \in remote[o].past THEN overtaken \cup {o} ELSE overtaken \ {o}
  /\ UNCHANGED <<order, journal, cursor, run, pull, wave, turns, bounds>>

\* The order is handed over, delivered, returned.
Move(o, l) ==
  /\ moves < MaxMoves /\ moves' = moves + 1
  /\ o \in Known /\ l # order[o].lane
  /\ order' = [order EXCEPT ![o].lane = l]
  /\ run' = [q \in Runs |-> [run[q] EXCEPT !.waiting = @ \ {o}]]
  /\ turns' = [turns EXCEPT ![o] = 0]
  /\ UNCHANGED <<remote, journal, cursor, pull, wave, overtaken, faults>>

RunStep(r) == Start(r) \/ Read(r) \/ Store(r) \/ Finish(r) \/ Fail(r) \/ Crash(r)

Next ==
  \/ \E r \in Runs : RunStep(r)
  \/ Expire
  \/ PullRead \/ PullStore \/ PullFails
  \/ WaveStore \/ WaveFails \/ \E S \in (SUBSET Known) \ {{}} : WaveRead(S)
  \/ \E o \in Orders : \/ \E v \in Values : Change(o, v)
                       \/ \E l \in Lanes : Move(o, l)

Spec == Init /\ [][Next]_vars

\* Runs are started again and again and go on, failing included; a lease ends.
FairSpec ==
  /\ Spec
  /\ \A r \in Runs :
       /\ SF_vars(Start(r)) /\ WF_vars(Read(r)) /\ WF_vars(Store(r)) /\ WF_vars(Finish(r))
       /\ WF_vars(Fail(r) /\ faults' = faults)
  /\ WF_vars(Expire)

-----------------------------------------------------------------------------
\* Properties.

\* Orders, events and the cursor have the fields of their models, and what is
\* stored was reported once.
SyncTypeOK ==
  /\ remote \in [Orders -> [val : Values, ver : 1..MaxVer, past : SUBSET Values]]
  /\ order \in [Orders -> [known : BOOLEAN, val : Values \cup {"none"}, ver : 0..MaxVer, lane : Lanes]]
  /\ journal \subseteq [kind : {"status", "order"}, of : Orders, val : Values]
  /\ cursor.at.pos \in [Lanes -> Orders \cup {0}] /\ cursor.at.pass \in 0..9
  /\ cursor.token \subseteq Runs /\ Cardinality(cursor.token) <= 1
  /\ overtaken \subseteq Orders
  /\ \A o \in Known : order[o].val \in remote[o].past /\ order[o].ver <= remote[o].ver

\* An event counts as processed only with its effect: an order whose present
\* status is in the journal has that status, unless the status came back or an
\* older reading, of a run without lease, of the order pull or of a wave, was
\* stored over it.
JournalKeepsItsWord ==
  \A o \in Known \ overtaken :
    [kind |-> "status", of |-> o, val |-> remote[o].val] \in journal
      => order[o].val = remote[o].val

\* Each lane is read in turn: an order is read again within as many runs as its
\* lane's share needs to go round all the orders once, whatever the other lanes
\* hold, whichever runs fail or lose their lease.
LaneTurns ==
  \A o \in Known :
    \A pass \in 0..9 : turns[o] * Share(order[o].lane, pass) < Cardinality(Orders)

\* Every order gets the marketplace's last status, or one of the ways to miss
\* it named above has happened.
EventuallyCurrent ==
  \A o \in Orders \ Dead :
    <>[](order[o].known => order[o].val = remote[o].val \/ o \in overtaken)

\* Every order is asked for again and again: no lane and no order is starved by
\* the others, however small the batches are.  (It fails once the request of
\* one order fails every time.)
EveryOrderRead ==
  \A o \in Imported \ Dead : []<>(\E r \in Runs : run[r].got[o] # None)
================================================================================
