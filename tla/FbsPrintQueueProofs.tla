-------------------------- MODULE FbsPrintQueueProofs --------------------------
(***************************************************************************)
(* Proofs about FbsPrintQueue: its types, that Desktop's own retries stop  *)
(* (AttemptsBounded), and what becomes of a label: one job of each key is  *)
(* open for it in Desktop's queue (OneOpenJobPerKey), it leaves the        *)
(* printer once more only for a stated reason (NoSecondCopy), and a supply *)
(* leaves with its label on paper (DispatchedIsOnPaper).  The bound is     *)
(* inductive once it says that a pending row has an attempt left: whatever *)
(* queues a row again either found one left or granted one.  The others    *)
(* rest on Copies.                                                         *)
(***************************************************************************)
EXTENDS FbsPrintQueue, FiniteSetTheorems, TLAPS

Job == [st : Statuses, label : Labels \cup {""},
        card : {"plain", "scope", "reprint"}, target : Targets,
        tries : Nat, lease : {"none", "running", "over", "old"},
        quiet : BOOLEAN, marked : BOOLEAN, peers : SUBSET Ids]

\* A row with e copies accounted for has the lease and the attempts it may have.
RowOK(job, e) ==
  /\ (job.lease = "none") <=> job.st # "printing"
  /\ job.tries <= MaxAttempts + e
  /\ job.st = "pending" => job.tries < MaxAttempts + e

RowsOK == \A n \in Ids : RowOK(jobs[n], extra[n])

Invariant == PrintTypeOK /\ RowsOK

-----------------------------------------------------------------------------
\* What a row becomes when it leaves the printer's hands.
Others(job, st) ==
  {Moved(job, st), Cleared(job, st), [Moved(job, st) EXCEPT !.marked = TRUE]}

\* Moving a row clears its lease and keeps its attempts.
LEMMA MovedRow ==
  ASSUME NEW job \in Job, NEW st \in Statuses, NEW row \in Others(job, st)
  PROVE  row \in Job /\ row.st = st /\ row.lease = "none" /\ row.tries = job.tries
  BY DEF Others, Moved, Cleared, Job

\* A row keeps its attempts when it leaves the queue or when one is granted.
LEMMA MovedOK ==
  ASSUME NEW job \in Job, NEW e \in Nat, RowOK(job, e), NEW st \in Statuses \ {"printing"},
         NEW row \in Others(job, st)
  PROVE  /\ row \in Job
         /\ RowOK(row, e + 1)
         /\ st # "pending" => RowOK(row, e)
         /\ job.st = "pending" \/ job.tries < MaxAttempts => RowOK(row, e)
<1>0. st \in Statuses /\ st # "printing"
  OBVIOUS
<1>1. row \in Job /\ row.st = st /\ row.lease = "none" /\ row.tries = job.tries
  BY <1>0, MovedRow
<1>2. job.tries \in Nat /\ MaxAttempts \in Nat
  BY PrintAssumption DEF Job
<1> QED
  BY <1>0, <1>1, <1>2 DEF RowOK

\* The usual case.
LEMMA ClearedOK ==
  ASSUME NEW job \in Job, NEW e \in Nat, RowOK(job, e), NEW st \in Statuses \ {"printing"}
  PROVE  /\ Cleared(job, st) \in Job
         /\ RowOK(Cleared(job, st), e + 1)
         /\ st # "pending" => RowOK(Cleared(job, st), e)
<1>1. Cleared(job, st) \in Others(job, st)
  BY DEF Others
<1>2. ASSUME NEW row \in Others(job, st)
      PROVE  row \in Job /\ RowOK(row, e + 1) /\ (st # "pending" => RowOK(row, e))
  BY MovedOK
<1> QED
  BY <1>1, <1>2

\* A pending row may be claimed.
LEMMA ClaimedOK ==
  ASSUME NEW job \in Job, NEW e \in Nat, NEW ids \in SUBSET Ids,
         job.tries < MaxAttempts + e
  PROVE  Claimed(job, ids) \in Job /\ RowOK(Claimed(job, ids), e)
<1>0. job.tries \in Nat
  BY DEF Job
<1>1. job.tries + 1 \in Nat /\ MaxAttempts \in Nat
  BY <1>0, PrintAssumption
<1>2. "printing" \in Statuses
  BY DEF Statuses
<1>3. Claimed(job, ids) \in Job
  BY <1>1, <1>2 DEF Claimed, Job
<1>4. /\ Claimed(job, ids).st = "printing" /\ Claimed(job, ids).lease = "running"
      /\ Claimed(job, ids).tries = job.tries + 1
  BY DEF Claimed, Job
<1> QED
  BY <1>0, <1>1, <1>3, <1>4 DEF RowOK

\* Another copy accounted for changes nothing else.
LEMMA GrantedOK ==
  ASSUME NEW job \in Job, NEW e \in Nat, RowOK(job, e)
  PROVE  RowOK(job, e + 1)
<1>1. job.tries \in Nat /\ MaxAttempts \in Nat
  BY PrintAssumption DEF Job
<1> QED
  BY <1>1 DEF RowOK

\* Nor does time in a row that is printing.
LEMMA WaitingOK ==
  ASSUME NEW job \in Job, NEW e \in Nat, RowOK(job, e), job.st = "printing"
  PROVE  /\ \A l \in {"running", "over", "old"} :
              [job EXCEPT !.lease = l] \in Job /\ RowOK([job EXCEPT !.lease = l], e)
         /\ [job EXCEPT !.quiet = TRUE] \in Job /\ RowOK([job EXCEPT !.quiet = TRUE], e)
<1>1. ASSUME NEW l \in {"running", "over", "old"}
      PROVE  [job EXCEPT !.lease = l] \in Job /\ RowOK([job EXCEPT !.lease = l], e)
  <2> DEFINE row == [job EXCEPT !.lease = l]
  <2>1. row \in Job
    BY DEF Job
  <2>2. row.st = job.st /\ row.tries = job.tries /\ row.lease = l
    BY DEF Job
  <2> QED
    BY <2>1, <2>2 DEF RowOK
<1>2. [job EXCEPT !.quiet = TRUE] \in Job /\ RowOK([job EXCEPT !.quiet = TRUE], e)
  <2> DEFINE row == [job EXCEPT !.quiet = TRUE]
  <2>1. row \in Job
    BY DEF Job
  <2>2. row.st = job.st /\ row.tries = job.tries /\ row.lease = job.lease
    BY DEF Job
  <2> QED
    BY <2>1, <2>2 DEF RowOK
<1> QED
  BY <1>1, <1>2

LEMMA Types == PrintTypeOK <=>
  /\ jobs \in [Ids -> Job]
  /\ \A n \in Ids : (jobs[n].lease = "none") <=> ~Printing(n)
  /\ call \in [Windows \cup Agents -> SUBSET Ids]
  /\ store \subseteq [ids : SUBSET Ids, as : {"printed", "failed"}]
  /\ paper \in [Ids -> Nat] /\ extra \in [Ids -> Nat]
  /\ dispatched \subseteq Ready
  /\ faults \in Nat /\ requests \in Nat
  BY DEF PrintTypeOK, Job

\* What is left to show of a step: its rows, and the types of the rest.
LEMMA Rows ==
  ASSUME /\ jobs' \in [Ids -> Job] /\ extra' \in [Ids -> Nat]
         /\ \A n \in Ids : RowOK(jobs'[n], extra'[n])
         /\ call' \in [Windows \cup Agents -> SUBSET Ids]
         /\ store' \subseteq [ids : SUBSET Ids, as : {"printed", "failed"}]
         /\ paper' \in [Ids -> Nat]
         /\ dispatched' \subseteq Ready
         /\ faults' \in Nat /\ requests' \in Nat
  PROVE  Invariant'
  BY DEF Invariant, PrintTypeOK, RowsOK, RowOK, Job, Printing

LEMMA FirstIn == ASSUME NEW S, NEW k PROVE First(S, k) \subseteq S
  BY DEF First

LEMMA Initially == Init => Invariant
<1> SUFFICES ASSUME Init PROVE Invariant
  OBVIOUS
<1>1. NoJob \in Job /\ RowOK(NoJob, 0)
  BY PrintAssumption DEF NoJob, Job, RowOK, Statuses, Targets
<1> QED
  BY <1>1, Types DEF Init, Invariant, RowsOK, RowOK, Printing

-----------------------------------------------------------------------------
\* A new row has all its attempts.
LEMMA CreateOK ==
  ASSUME Invariant, NEW l \in Labels, NEW card \in {"plain", "scope", "reprint"},
         NEW t \in Targets, Create(l, card, t), UNCHANGED extra
  PROVE  /\ jobs' \in [Ids -> Job] /\ extra' \in [Ids -> Nat]
         /\ \A n \in Ids : RowOK(jobs'[n], extra'[n])
<1> DEFINE new == [NoJob EXCEPT !.st = "pending", !.label = l, !.card = card, !.target = t]
           n == Least({m \in Ids : jobs[m].st = "none"})
<1>1. jobs \in [Ids -> Job] /\ extra \in [Ids -> Nat]
  BY Types DEF Invariant
<1>2. new \in Job /\ \A e \in Nat : RowOK(new, e)
  <2>1. new \in Job
    BY DEF NoJob, Job, Statuses
  <2>2. new.st = "pending" /\ new.tries = 0 /\ new.lease = "none"
    BY DEF NoJob
  <2> QED
    BY <2>1, <2>2, PrintAssumption DEF RowOK
<1>3. jobs' = [jobs EXCEPT ![n] = new]
  BY DEF Create
<1> HIDE DEF new, n
<1> QED
  BY <1>1, <1>2, <1>3 DEF Invariant, RowsOK

\* Requests and recoveries keep the invariant.
LEMMA QueueKeeps == ASSUME Invariant, QueueStep PROVE Invariant'
<1> USE DEF world, bounds
<1>t. /\ jobs \in [Ids -> Job] /\ extra \in [Ids -> Nat]
      /\ call \in [Windows \cup Agents -> SUBSET Ids]
      /\ store \subseteq [ids : SUBSET Ids, as : {"printed", "failed"}]
      /\ paper \in [Ids -> Nat] /\ dispatched \subseteq Ready
      /\ faults \in Nat /\ requests \in Nat
  BY Types DEF Invariant
<1>r. \A n \in Ids : RowOK(jobs[n], extra[n])
  BY DEF Invariant, RowsOK
<1>1. ASSUME NEW l \in OrderLabels, NEW card \in {"scope", "plain"}, QueueOnce(l, card)
      PROVE  Invariant'
  <2>1. l \in Labels
    BY DEF Labels
  <2>2. /\ jobs' \in [Ids -> Job] /\ extra' \in [Ids -> Nat]
        /\ \A n \in Ids : RowOK(jobs'[n], extra'[n])
    BY <1>1, <2>1, CreateOK DEF QueueOnce, Targets
  <2> QED
    BY <1>1, <1>t, <2>2, Rows DEF QueueOnce
<1>2. ASSUME NEW l \in OrderLabels, RecoverStale(l) PROVE Invariant'
  <2>1. PICK k : /\ jobs' = [n \in Ids |-> IF n \in {k}
                                THEN [Moved(jobs[n], "pending") EXCEPT !.marked = TRUE]
                                ELSE jobs[n]]
                 /\ extra' = [n \in Ids |-> extra[n] + (IF n \in {k} THEN 1 ELSE 0)]
    BY <1>2 DEF RecoverStale, Set, Allow
  <2>2. \A n \in Ids : jobs'[n] \in Job /\ extra'[n] \in Nat /\ RowOK(jobs'[n], extra'[n])
    BY <2>1, <1>t, <1>r, MovedOK DEF Statuses, Others
  <2>3. jobs' \in [Ids -> Job] /\ extra' \in [Ids -> Nat]
    BY <2>1, <2>2
  <2> QED
    BY <1>2, <1>t, <2>2, <2>3, Rows DEF RecoverStale
<1>3. ASSUME NEW l \in Labels, NEW t \in Targets, QueueAgain(l, t) PROVE Invariant'
  <2> DEFINE stale == Reusable(l, t)
  <2>1. CASE stale # {}
    <3>1. PICK k : /\ jobs' = [n \in Ids |-> IF n \in {k} THEN Cleared(jobs[n], "pending")
                                                           ELSE jobs[n]]
                   /\ extra' = [n \in Ids |-> extra[n] + (IF n \in {k} THEN 1 ELSE 0)]
      BY <1>3, <2>1 DEF QueueAgain, Set, Allow
    <3>2. \A n \in Ids : jobs'[n] \in Job /\ extra'[n] \in Nat /\ RowOK(jobs'[n], extra'[n])
      BY <3>1, <1>t, <1>r, ClearedOK DEF Statuses
    <3>3. jobs' \in [Ids -> Job] /\ extra' \in [Ids -> Nat]
      BY <3>1, <3>2
    <3> QED
      BY <1>3, <1>t, <3>2, <3>3, Rows DEF QueueAgain, Request
  <2>2. CASE stale = {}
    <3>1. /\ jobs' \in [Ids -> Job] /\ extra' \in [Ids -> Nat]
          /\ \A n \in Ids : RowOK(jobs'[n], extra'[n])
      BY <1>3, <2>2, CreateOK DEF QueueAgain
    <3> QED
      BY <1>3, <1>t, <3>1, Rows DEF QueueAgain, Request
  <2> QED
    BY <2>1, <2>2
<1>4. ASSUME NEW T \in SUBSET Targets, NEW st \in {"pending", "failed"}, Reset(T, st)
      PROVE  Invariant'
  <2> DEFINE S == Scoped(T, {"printing"})
             G == IF st = "pending" THEN S ELSE {}
  <2>1. /\ jobs' = [n \in Ids |-> IF n \in S THEN Cleared(jobs[n], st) ELSE jobs[n]]
        /\ extra' = [n \in Ids |-> extra[n] + (IF n \in G THEN 1 ELSE 0)]
    BY <1>4 DEF Reset, Set, Allow
  <2> HIDE DEF S
  <2>2. \A n \in Ids : jobs'[n] \in Job /\ extra'[n] \in Nat /\ RowOK(jobs'[n], extra'[n])
    BY <2>1, <1>t, <1>r, ClearedOK DEF Statuses
  <2>3. jobs' \in [Ids -> Job] /\ extra' \in [Ids -> Nat]
    BY <2>1, <2>2
  <2> QED
    BY <1>4, <1>t, <2>2, <2>3, Rows DEF Reset, Request
<1>5. ASSUME NEW T, NEW statuses, Delete(T, statuses) PROVE Invariant'
  <2>1. jobs' = [n \in Ids |-> IF n \in Scoped(T, statuses) THEN Cleared(jobs[n], "deleted")
                                                             ELSE jobs[n]]
    BY <1>5 DEF Delete, Set
  <2>2. \A n \in Ids : jobs'[n] \in Job /\ RowOK(jobs'[n], extra[n])
    BY <2>1, <1>t, <1>r, ClearedOK DEF Statuses
  <2>3. jobs' \in [Ids -> Job]
    BY <2>1, <2>2
  <2> QED
    BY <1>5, <1>t, <2>2, <2>3, Rows DEF Delete, Request
<1> QED
  BY <1>1, <1>2, <1>3, <1>4, <1>5 DEF QueueStep, Targets

-----------------------------------------------------------------------------
\* What every step of the printers and of time starts from.
LEMMA Before ==
  ASSUME Invariant
  PROVE  /\ jobs \in [Ids -> Job] /\ extra \in [Ids -> Nat]
         /\ call \in [Windows \cup Agents -> SUBSET Ids]
         /\ store \subseteq [ids : SUBSET Ids, as : {"printed", "failed"}]
         /\ paper \in [Ids -> Nat] /\ dispatched \subseteq Ready
         /\ faults \in Nat /\ requests \in Nat
         /\ \A n \in Ids : RowOK(jobs[n], extra[n])
  BY Types DEF Invariant, RowsOK

\* Copies accounted for and copies on paper are counted up.
LEMMA Counted ==
  ASSUME Invariant, NEW S
  PROVE  /\ Allow(S) => /\ extra' \in [Ids -> Nat]
                        /\ \A n \in Ids : extra'[n] \in {extra[n], extra[n] + 1}
         /\ Out(S) => paper' \in [Ids -> Nat]
  BY Before DEF Allow, Out

\* A row is unchanged, or another copy of it is accounted for.
LEMMA SameRows ==
  ASSUME Invariant, UNCHANGED jobs, NEW S, Allow(S) \/ UNCHANGED extra
  PROVE  /\ extra' \in [Ids -> Nat]
         /\ \A n \in Ids : RowOK(jobs'[n], extra'[n])
<1>1. extra' \in [Ids -> Nat] /\ \A n \in Ids : extra'[n] \in {extra[n], extra[n] + 1}
  BY Before, Counted
<1>2. ASSUME NEW n \in Ids PROVE RowOK(jobs'[n], extra'[n])
  <2>1. jobs[n] \in Job /\ extra[n] \in Nat /\ RowOK(jobs[n], extra[n])
    BY Before
  <2> QED
    BY <1>1, <2>1, GrantedOK
<1> QED
  BY <1>1, <1>2

\* A poll of Desktop reclaims rows with an attempt left,
LEMMA ReclaimKeeps == ASSUME Invariant, NEW w \in Windows, Reclaim(w) PROVE Invariant'
<1>1. /\ Set(Reclaimed, LAMBDA job : Moved(job, "pending"))
      /\ Allow({n \in Reclaimed : Recorded(n)})
      /\ UNCHANGED <<call, store, paper, dispatched>>
  BY DEF Reclaim, world
<1>2. faults' \in Nat /\ requests' \in Nat
  BY Before DEF Reclaim, Flushed, Fault, bounds
<1>3. extra' \in [Ids -> Nat] /\ \A n \in Ids : extra'[n] \in {extra[n], extra[n] + 1}
  BY <1>1, Counted
<1>4. ASSUME NEW n \in Ids PROVE jobs'[n] \in Job /\ RowOK(jobs'[n], extra'[n])
  <2>1. jobs[n] \in Job /\ extra[n] \in Nat /\ RowOK(jobs[n], extra[n]) /\ extra'[n] \in Nat
    BY <1>3, Before
  <2>2. RowOK(jobs[n], extra'[n])
    BY <1>3, <2>1, GrantedOK
  <2>3. CASE n \in Reclaimed
    <3>1. jobs'[n] = Moved(jobs[n], "pending") /\ jobs[n].tries < MaxAttempts
      BY <1>1, <2>3 DEF Set, Reclaimed, MayReclaim
    <3>2. Moved(jobs[n], "pending") \in Others(jobs[n], "pending")
      BY DEF Others
    <3> QED
      BY <3>1, <3>2, <2>1, <2>2, MovedOK DEF Statuses
  <2>4. CASE n \notin Reclaimed
    BY <1>1, <2>1, <2>2, <2>4 DEF Set
  <2> QED
    BY <2>3, <2>4
<1>5. jobs' \in [Ids -> Job]
  BY <1>1, <1>4 DEF Set
<1> QED
  BY <1>1, <1>2, <1>3, <1>4, <1>5, Before, Rows

\* and claims pending rows.
LEMMA JobsNextKeeps == ASSUME Invariant, NEW w \in Windows, JobsNext(w) PROVE Invariant'
<1> DEFINE pending == {n \in Ids : jobs[n].target = "desktop" /\ jobs[n].st = "pending"}
           forSupply(n) == jobs[n].label \in Supplies
           alike == {n \in pending : forSupply(n) = forSupply(Least(pending))}
           batch == First(alike, IF forSupply(Least(pending)) THEN SupplyLimit ELSE JobLimit)
<1>1. batch \in SUBSET Ids /\ \A n \in batch : jobs[n].st = "pending"
  BY DEF First
<1>2. /\ Set(batch, LAMBDA job : Claimed(job, batch))
      /\ call' = [call EXCEPT ![w] = batch]
      /\ Flushed /\ UNCHANGED <<store, paper, dispatched, extra>>
  BY Zenon DEF JobsNext
<1> HIDE DEF pending, batch
<1>3. faults' \in Nat /\ requests' \in Nat
  BY <1>2, Before DEF Flushed, Fault, bounds
<1>4. ASSUME NEW n \in Ids PROVE jobs'[n] \in Job /\ RowOK(jobs'[n], extra'[n])
  <2>1. jobs[n] \in Job /\ extra[n] \in Nat /\ RowOK(jobs[n], extra[n])
    BY Before
  <2>2. CASE n \in batch
    <3>1. jobs'[n] = Claimed(jobs[n], batch)
      BY <1>2, <2>2 DEF Set
    <3>2. jobs[n].tries < MaxAttempts + extra[n]
      BY <1>1, <2>1, <2>2 DEF RowOK
    <3> QED
      BY <1>1, <1>2, <3>1, <3>2, <2>1, ClaimedOK
  <2>3. CASE n \notin batch
    BY <1>2, <2>1, <2>3 DEF Set
  <2> QED
    BY <2>2, <2>3
<1>5. jobs' \in [Ids -> Job]
  BY <1>2, <1>4 DEF Set
<1>6. call' \in [Windows \cup Agents -> SUBSET Ids]
  BY <1>1, <1>2, Before
<1> QED
  BY <1>2, <1>3, <1>4, <1>5, <1>6, Before, Rows

\* Rows that leave the queue keep the attempts they had.
LEMMA LeavingRows ==
  ASSUME Invariant, NEW S, NEW st \in Statuses \ {"printing", "pending"},
         jobs' = [n \in Ids |-> IF n \in S THEN Cleared(jobs[n], st) ELSE jobs[n]]
  PROVE  jobs' \in [Ids -> Job] /\ \A n \in Ids : RowOK(jobs'[n], extra[n])
<1>1. ASSUME NEW n \in Ids PROVE jobs'[n] \in Job /\ RowOK(jobs'[n], extra[n])
  <2>1. jobs[n] \in Job /\ extra[n] \in Nat /\ RowOK(jobs[n], extra[n])
    BY Before
  <2> QED
    BY <2>1, ClearedOK
<1> QED
  BY <1>1

LEMMA CompleteKeeps ==
  ASSUME Invariant, NEW S \in SUBSET Ids, NEW as \in {"printed", "failed"}, Complete(S, as)
  PROVE  /\ jobs' \in [Ids -> Job] /\ \A n \in Ids : RowOK(jobs'[n], extra[n])
         /\ dispatched' \subseteq Ready
<1>1. jobs' = [n \in Ids |-> IF n \in {m \in S : jobs[m].st # as}
                               THEN Cleared(jobs[n], as) ELSE jobs[n]]
  BY DEF Complete, Set, Stored
<1>2. as \in Statuses \ {"printing", "pending"}
  BY DEF Statuses
<1> QED
  BY <1>1, <1>2, LeavingRows, Before DEF Complete

LEMMA DesktopKeeps == ASSUME Invariant, DesktopStep PROVE Invariant'
<1> USE DEF bounds
<1>1. ASSUME NEW w \in Windows, Printed(w) PROVE Invariant'
  <2>1. paper' \in [Ids -> Nat]
    BY <1>1, Counted DEF Printed
  <2>2. call[w] \in SUBSET Ids /\ call' \in [Windows \cup Agents -> SUBSET Ids]
    BY <1>1, Before DEF Printed, Done
  <2>3. store' \subseteq [ids : SUBSET Ids, as : {"printed", "failed"}]
    BY <1>1, <2>2, Before DEF Printed
  <2>4. extra' \in [Ids -> Nat] /\ \A n \in Ids : RowOK(jobs'[n], extra'[n])
    BY <1>1, SameRows DEF Printed
  <2> QED
    BY <1>1, <2>1, <2>2, <2>3, <2>4, Before, Rows DEF Printed
<1>2. ASSUME NEW w \in Windows, Reload(w) PROVE Invariant'
  <2>1. call' \in [Windows \cup Agents -> SUBSET Ids]
    BY <1>2, Before DEF Reload, Done
  <2>2. extra' \in [Ids -> Nat] /\ \A n \in Ids : RowOK(jobs'[n], extra'[n])
    BY <1>2, SameRows DEF Reload
  <2> QED
    BY <1>2, <2>1, <2>2, Before, Rows DEF Reload, Fault
<1>3. ASSUME NEW w \in Windows, PrintFails(w) PROVE Invariant'
  <2>1. PICK S \in SUBSET call[w] : Out(S) /\ Allow(S)
    BY <1>3 DEF PrintFails
  <2>2. paper' \in [Ids -> Nat]
    BY <2>1, Counted
  <2>3. call[w] \in SUBSET Ids /\ call' \in [Windows \cup Agents -> SUBSET Ids]
    BY <1>3, Before DEF PrintFails, Done
  <2>4. store' \subseteq [ids : SUBSET Ids, as : {"printed", "failed"}]
    BY <1>3, <2>3, Before DEF PrintFails
  <2>5. extra' \in [Ids -> Nat] /\ \A n \in Ids : RowOK(jobs'[n], extra'[n])
    BY <1>3, <2>1, SameRows DEF PrintFails
  <2> QED
    BY <1>3, <2>2, <2>3, <2>4, <2>5, Before, Rows DEF PrintFails, Fault
<1>4. ASSUME NEW e \in store, Acknowledge(e) PROVE Invariant'
  <2>1. e.ids \in SUBSET Ids /\ e.as \in {"printed", "failed"}
    BY Before
  <2>2. /\ jobs' \in [Ids -> Job] /\ dispatched' \subseteq Ready
        /\ \A n \in Ids : RowOK(jobs'[n], extra[n])
    BY <1>4, <2>1, CompleteKeeps DEF Acknowledge
  <2> QED
    BY <1>4, <2>2, Before, Rows DEF Acknowledge
<1>5. ASSUME NEW e \in store, AcknowledgePart(e) PROVE Invariant'
  <2>1. e.ids \in SUBSET Ids /\ e.as \in {"printed", "failed"}
    BY Before
  <2>2. PICK k : Complete(First(e.ids, k), e.as)
    BY <1>5 DEF AcknowledgePart
  <2>3. First(e.ids, k) \in SUBSET Ids
    BY <2>1 DEF First
  <2>4. /\ jobs' \in [Ids -> Job] /\ dispatched' \subseteq Ready
        /\ \A n \in Ids : RowOK(jobs'[n], extra[n])
    BY <2>1, <2>2, <2>3, CompleteKeeps
  <2> QED
    BY <1>5, <2>4, Before, Rows DEF AcknowledgePart, Fault
<1> QED
  BY <1>1, <1>2, <1>3, <1>4, <1>5, ReclaimKeeps, JobsNextKeeps DEF DesktopStep
\* The older agent cancels leases without looking at the attempts, but each
\* cancelled lease is a copy accounted for.
LEMMA AgentNextKeeps == ASSUME Invariant, NEW a \in Agents, AgentNext(a) PROVE Invariant'
<1> DEFINE lapsed == {n \in Ids : Printing(n) /\ jobs[n].lease \in {"over", "old"}}
           own == {n \in Ids : jobs[n].target = "agent" /\ (jobs[n].st = "pending" \/ n \in lapsed)}
           freed(n) == IF n \in lapsed THEN Cleared(jobs[n], "pending") ELSE jobs[n]
           first(k) == First(own, k)
<1>0. PICK claimed : /\ \E k \in {1, JobLimit} : claimed = first(k)
                     /\ jobs' = [n \in Ids |->
                          IF n \in claimed THEN Claimed(freed(n), claimed) ELSE freed(n)]
                     /\ call' = [call EXCEPT ![a] = claimed]
                     /\ Allow(lapsed)
                     /\ UNCHANGED <<store, paper, dispatched, bounds>>
  BY Zenon DEF AgentNext
<1>1. /\ jobs' = [n \in Ids |-> IF n \in claimed THEN Claimed(freed(n), claimed) ELSE freed(n)]
      /\ call' = [call EXCEPT ![a] = claimed]
      /\ Allow(lapsed)
      /\ UNCHANGED <<store, paper, dispatched, bounds>>
  BY <1>0
<1>2. claimed \subseteq own /\ own \subseteq Ids
  BY <1>0, FirstIn
<1>3. \A n \in own : jobs[n].st = "pending" \/ n \in lapsed
  OBVIOUS
<1> HIDE DEF lapsed, own, first
<1>4. extra' = [n \in Ids |-> extra[n] + (IF n \in lapsed THEN 1 ELSE 0)]
  BY <1>1 DEF Allow
<1>5. ASSUME NEW n \in Ids
      PROVE  jobs'[n] \in Job /\ extra'[n] \in Nat /\ RowOK(jobs'[n], extra'[n])
  <2>1. jobs[n] \in Job /\ extra[n] \in Nat /\ RowOK(jobs[n], extra[n])
    BY Before
  <2>2. extra'[n] \in Nat /\ freed(n) \in Job /\ RowOK(freed(n), extra'[n])
    BY <1>4, <2>1, ClearedOK DEF Statuses
  <2>3. CASE n \in claimed
    <3>1. freed(n).st = "pending"
      <4>1. Cleared(jobs[n], "pending").st = "pending"
        <5>1. PICK job, s : /\ job \in Job /\ s \in Statuses
                            /\ job = jobs[n] /\ s = "pending"
          BY <2>1 DEF Statuses
        <5>2. Cleared(job, s) \in Others(job, s)
          BY DEF Others
        <5>3. Cleared(job, s).st = s
          BY ONLY <5>1, <5>2, MovedRow
        <5> QED
          BY ONLY <5>1, <5>3
      <4> QED
        BY <4>1, <1>2, <1>3, <2>3
    <3>2. freed(n).tries < MaxAttempts + extra'[n]
      BY <2>2, <3>1 DEF RowOK
    <3>3. Claimed(freed(n), claimed) \in Job /\ RowOK(Claimed(freed(n), claimed), extra'[n])
      <4> HIDE DEF freed
      <4> QED
        BY <1>2, <2>2, <3>2, ClaimedOK
    <3> QED
      BY <1>1, <2>2, <2>3, <3>3
  <2>4. CASE n \notin claimed
    BY <1>1, <2>2, <2>4
  <2> QED
    BY <2>3, <2>4
<1>6. jobs' \in [Ids -> Job] /\ extra' \in [Ids -> Nat]
  BY <1>1, <1>4, <1>5
<1>7. call' \in [Windows \cup Agents -> SUBSET Ids]
  BY <1>1, <1>2, Before
<1> QED
  BY <1>1, <1>5, <1>6, <1>7, Before, Rows DEF bounds

LEMMA AgentKeeps == ASSUME Invariant, AgentStep PROVE Invariant'
<1> USE DEF bounds
<1>0. ASSUME NEW a \in Agents PROVE Reported(a) \in SUBSET Ids
  <2>1. call[a] \in SUBSET Ids
    BY Before
  <2> QED
    BY <2>1 DEF Reported
<1>1. ASSUME NEW a \in Agents, AgentPrints(a) PROVE Invariant'
  <2>1. paper' \in [Ids -> Nat]
    BY <1>1, Counted DEF AgentPrints
  <2>2. call' \in [Windows \cup Agents -> SUBSET Ids]
    BY <1>1, Before DEF AgentPrints, Done
  <2>3. jobs' \in [Ids -> Job] /\ \A n \in Ids : RowOK(jobs'[n], extra[n])
    BY <1>1, LeavingRows DEF AgentPrints, Set, Statuses
  <2> QED
    BY <1>1, <2>1, <2>2, <2>3, Before, Rows DEF AgentPrints
<1>2. ASSUME NEW a \in Agents, AgentFails(a) PROVE Invariant'
  <2>1. call' \in [Windows \cup Agents -> SUBSET Ids]
    BY <1>2, Before DEF AgentFails, Done
  <2>2. paper' \in [Ids -> Nat] /\ extra' \in [Ids -> Nat]
        /\ \A n \in Ids : extra'[n] \in {extra[n], extra[n] + 1}
    <3>1. PICK S \in SUBSET call[a] : Out(S) /\ Allow(S)
      BY <1>2 DEF AgentFails
    <3> QED
      BY <3>1, Counted
  <2>3. jobs' \in [Ids -> Job] /\ \A n \in Ids : RowOK(jobs'[n], extra[n])
    <3>1. CASE Set(Reported(a), LAMBDA job : Cleared(job, "failed"))
      BY <3>1, LeavingRows DEF Set, Statuses
    <3>2. CASE UNCHANGED jobs
      BY <3>2, Before
    <3> QED
      BY <1>2, <3>1, <3>2 DEF AgentFails
  <2>4. \A n \in Ids : RowOK(jobs'[n], extra'[n])
    <3>1. ASSUME NEW n \in Ids PROVE RowOK(jobs'[n], extra'[n])
      <4>1. jobs'[n] \in Job /\ extra[n] \in Nat /\ RowOK(jobs'[n], extra[n])
        BY <2>3, Before
      <4> QED
        BY <2>2, <4>1, GrantedOK
    <3> QED
      BY <3>1
  <2> QED
    BY <1>2, <2>1, <2>2, <2>3, <2>4, Before, Rows DEF AgentFails, Fault
<1> QED
  BY <1>1, <1>2, AgentNextKeeps DEF AgentStep

\* A lease that runs out and the minutes that pass leave a row as it is.
LEMMA TimeKeeps == ASSUME Invariant, TimeStep PROVE Invariant'
<1> USE DEF bounds, world
<1>1. ASSUME NEW n \in Ids PROVE \A m \in Peers(n) : Printing(m)
  BY DEF Peers
<1>2. ASSUME NEW S, \A m \in S : Printing(m), NEW l \in {"over", "old"},
             Set(S, LAMBDA job : [job EXCEPT !.lease = l]),
             Allow(S) \/ UNCHANGED extra
      PROVE  /\ jobs' \in [Ids -> Job] /\ extra' \in [Ids -> Nat]
             /\ \A n \in Ids : RowOK(jobs'[n], extra'[n])
  <2>1. extra' \in [Ids -> Nat] /\ \A n \in Ids : extra'[n] \in {extra[n], extra[n] + 1}
    BY <1>2, Before, Counted
  <2>2. jobs' = [n \in Ids |-> IF n \in S THEN [jobs[n] EXCEPT !.lease = l] ELSE jobs[n]]
    BY <1>2 DEF Set
  <2>3. ASSUME NEW n \in Ids PROVE jobs'[n] \in Job /\ RowOK(jobs'[n], extra'[n])
    <3>1. jobs[n] \in Job /\ extra[n] \in Nat /\ RowOK(jobs[n], extra[n])
      BY Before
    <3>2. jobs'[n] \in Job /\ RowOK(jobs'[n], extra[n])
      <4>1. CASE n \in S
        BY <1>2, <2>2, <3>1, <4>1, WaitingOK DEF Printing
      <4>2. CASE n \notin S
        BY <2>2, <3>1, <4>2
      <4> QED
        BY <4>1, <4>2
    <3> QED
      BY <2>1, <3>1, <3>2, GrantedOK
  <2> QED
    BY <2>1, <2>2, <2>3
<1>3. ASSUME NEW n \in Ids, Expire(n) PROVE Invariant'
  <2>1. Allow(Peers(n)) \/ UNCHANGED extra
    BY <1>3 DEF Expire
  <2>2. Set(Peers(n), LAMBDA job : [job EXCEPT !.lease = "over"])
    BY <1>3, Zenon DEF Expire
  <2>3. /\ jobs' \in [Ids -> Job] /\ extra' \in [Ids -> Nat]
        /\ \A m \in Ids : RowOK(jobs'[m], extra'[m])
    BY <1>1, <1>2, <2>1, <2>2
  <2>4. faults' \in Nat /\ requests' \in Nat
    BY <1>3, Before DEF Expire, Fault
  <2>5. UNCHANGED <<call, store, paper, dispatched>>
    BY <1>3 DEF Expire
  <2> QED
    BY <2>3, <2>4, <2>5, Before, Rows
<1>4. ASSUME NEW n \in Ids, GoQuiet(n) PROVE Invariant'
  <2>1. jobs' = [m \in Ids |-> IF m \in Peers(n) THEN [jobs[m] EXCEPT !.quiet = TRUE] ELSE jobs[m]]
    BY <1>4 DEF GoQuiet, Set
  <2>2. ASSUME NEW m \in Ids PROVE jobs'[m] \in Job /\ RowOK(jobs'[m], extra[m])
    BY <1>1, <2>1, Before, WaitingOK DEF Printing
  <2>3. jobs' \in [Ids -> Job]
    BY <2>1, <2>2
  <2> QED
    BY <1>4, <2>2, <2>3, Before, Rows DEF GoQuiet
<1>5. ASSUME NEW n \in Ids, GrowOld(n) PROVE Invariant'
  <2>1. Set(Peers(n), LAMBDA job : [job EXCEPT !.lease = "old"])
    BY <1>5, Zenon DEF GrowOld
  <2>2. /\ jobs' \in [Ids -> Job] /\ extra' \in [Ids -> Nat]
        /\ \A m \in Ids : RowOK(jobs'[m], extra'[m])
    BY <1>1, <1>2, <1>5, <2>1 DEF GrowOld
  <2> QED
    BY <1>5, <2>2, Before, Rows DEF GrowOld, Fault
<1> QED
  BY <1>3, <1>4, <1>5 DEF TimeStep

-----------------------------------------------------------------------------
LEMMA StutterKeeps == ASSUME Invariant, UNCHANGED vars PROVE Invariant'
  BY DEF vars, Invariant, PrintTypeOK, RowsOK, RowOK, Printing

LEMMA InvariantHolds == Spec => []Invariant
<1>1. Init => Invariant
  BY Initially
<1>2. Invariant /\ [Next]_vars => Invariant'
  BY QueueKeeps, DesktopKeeps, AgentKeeps, TimeKeeps, StutterKeeps DEF Next
<1> QED
  BY <1>1, <1>2, PTL DEF Spec

\* The rows of the queue, its calls and records have their types, and exactly
\* the printing rows have a lease.
THEOREM PrintTyping == Spec => []PrintTypeOK
<1>1. Invariant => PrintTypeOK
  BY DEF Invariant
<1> QED
  BY <1>1, InvariantHolds, PTL

\* However the queue is used, a row is handed out at most _MAX_PRINT_ATTEMPTS
\* times and once for each time somebody else queued it again.
THEOREM PrintAttemptsBounded == Spec => []AttemptsBounded
<1>1. Invariant => AttemptsBounded
  BY DEF Invariant, RowsOK, RowOK, AttemptsBounded
<1> QED
  BY <1>1, InvariantHolds, PTL

-----------------------------------------------------------------------------
(***************************************************************************)
(* Copies.  What a label may still cost is what it has cost already, one   *)
(* copy for each call that is printing it, and one more if it can be       *)
(* claimed again by itself: it is pending, or its lease can be reclaimed   *)
(* and no record of a printed call says that it is done.                   *)
(***************************************************************************)
Calls(n) == {p \in Windows \cup Agents : n \in call[p]}
OnFile(n) == \E e \in store : e.as = "printed" /\ n \in e.ids
Chance(n) ==
  IF \/ jobs[n].st = "pending"
     \/ Printing(n) /\ ~OnFile(n) /\ (jobs[n].lease # "running" \/ Calls(n) = {})
  THEN 1 ELSE 0

Covered(n) ==
  /\ IsFiniteSet(Calls(n))
  /\ paper[n] + Cardinality(Calls(n)) + Chance(n) <= 1 + extra[n]

\* A row that was never created is nowhere; a printed or recorded one is on paper.
Traced(n) ==
  /\ jobs[n].st = "none" => paper[n] = 0 /\ Calls(n) = {} /\ ~OnFile(n)
  /\ OnFile(n) \/ jobs[n].st = "printed" => paper[n] > 0

\* The rows of one call share its lease.
Together ==
  \A n \in Ids : Printing(n) =>
    /\ n \in jobs[n].peers
    /\ \A m \in Ids : Printing(m) /\ jobs[m].peers = jobs[n].peers
                        => jobs[m].lease = jobs[n].lease

Shown(n) == jobs[n].target = "desktop" /\ jobs[n].st \in Open
SameKey(m, n) ==
  /\ jobs[m].label = jobs[n].label
  /\ (jobs[m].card = "scope") <=> (jobs[n].card = "scope")
OneEach == \A m, n \in Ids : Shown(m) /\ Shown(n) /\ SameKey(m, n) => m = n

\* What Desktop has printed for a supply sent it, and what was sent is on paper.
SentOff(n) ==
  jobs[n].st = "printed" /\ jobs[n].target = "desktop" /\ jobs[n].label \in Ready =>
    jobs[n].label \in dispatched
Left ==
  /\ \A s \in dispatched : \E n \in Ids : jobs[n].label = s /\ paper[n] > 0
  /\ \A n \in Ids : SentOff(n)

\* The older agent prints rows of its own.
Owned == \A a \in Agents : \A n \in call[a] : jobs[n].target = "agent"

Copies ==
  /\ \A n \in Ids : Covered(n) /\ Traced(n)
  /\ Together /\ OneEach /\ Left /\ Owned

\* A row keeps what it is for, and nothing that was settled is open again.
Kept(job, row) ==
  /\ row.label = job.label /\ row.card = job.card /\ row.target = job.target
  /\ row.st \in Open => job.st \in Open
  /\ row.st = "none" <=> job.st = "none"

LEMMA Amounts ==
  ASSUME Invariant, NEW n \in Ids, IsFiniteSet(Calls(n))
  PROVE  /\ Cardinality(Calls(n)) \in Nat /\ Chance(n) \in {0, 1}
         /\ paper[n] \in Nat /\ extra[n] \in Nat /\ jobs[n] \in Job
  BY Before, FS_CardinalityType DEF Chance

\* The set of calls that print row n, when a call starts or ends.
LEMMA CallChanges ==
  ASSUME Invariant, NEW p \in Windows \cup Agents, NEW S,
         call' = [call EXCEPT ![p] = S], NEW n
  PROVE  Calls(n)' = IF n \in S THEN Calls(n) \cup {p} ELSE Calls(n) \ {p}
  BY Before DEF Calls

LEMMA CallStarts ==
  ASSUME Invariant, NEW p \in Windows \cup Agents, NEW S,
         call[p] = {}, call' = [call EXCEPT ![p] = S],
         NEW n \in Ids, IsFiniteSet(Calls(n))
  PROVE  /\ IsFiniteSet(Calls(n)')
         /\ n \in S => Calls(n)' # {} /\ Cardinality(Calls(n)') = Cardinality(Calls(n)) + 1
         /\ n \notin S => Calls(n)' = Calls(n)
<1>1. p \notin Calls(n)
  BY DEF Calls
<1>2. Calls(n)' = IF n \in S THEN Calls(n) \cup {p} ELSE Calls(n) \ {p}
  BY CallChanges
<1>3. CASE n \in S
  <2>1. Calls(n)' = Calls(n) \cup {p}
    BY <1>2, <1>3
  <2> QED
    BY <1>1, <1>3, <2>1, FS_AddElement
<1>4. CASE n \notin S
  <2>1. Calls(n)' = Calls(n)
    BY <1>1, <1>2, <1>4
  <2> QED
    BY <1>4, <2>1
<1> QED
  BY <1>3, <1>4

LEMMA CallEnds ==
  ASSUME Invariant, NEW p \in Windows \cup Agents, Done(p),
         NEW n \in Ids, IsFiniteSet(Calls(n))
  PROVE  /\ IsFiniteSet(Calls(n)')
         /\ n \in call[p] => Cardinality(Calls(n)') = Cardinality(Calls(n)) - 1
         /\ n \notin call[p] => Calls(n)' = Calls(n)
<1>1. call' = [call EXCEPT ![p] = {}]
  BY DEF Done
<1>2. Calls(n)' = Calls(n) \ {p}
  BY <1>1, Before DEF Calls
<1>3. p \in Calls(n) <=> n \in call[p]
  BY DEF Calls
<1> QED
  BY <1>2, <1>3, FS_RemoveElement

\* A row whose calls go on: another copy is accounted for, or it has no new chance.
LEMMA StillCovered ==
  ASSUME Invariant, Invariant', NEW n \in Ids, Covered(n),
         Calls(n)' = Calls(n), paper'[n] = paper[n],
         \/ extra'[n] = extra[n] + 1
         \/ extra'[n] = extra[n] /\ Chance(n)' <= Chance(n)
  PROVE  Covered(n)'
<1> DEFINE c == Cardinality(Calls(n))
<1>1. /\ c \in Nat /\ Chance(n) \in {0, 1} /\ Chance(n)' \in {0, 1}
      /\ paper[n] \in Nat /\ extra[n] \in Nat
  <2>1. Chance(n)' \in {0, 1}
    BY DEF Chance
  <2> QED
    BY <2>1, Amounts DEF Covered
<1>2. IsFiniteSet(Calls(n)') /\ Cardinality(Calls(n)') = c
  BY DEF Covered
<1>3. paper[n] + c + Chance(n) <= 1 + extra[n]
  BY DEF Covered
<1>4. paper'[n] + c + Chance(n)' <= 1 + extra'[n]
  BY <1>1, <1>3
<1> QED
  BY <1>2, <1>4 DEF Covered

\* A row whose call ends: its copy comes out, or there is a chance again.
LEMMA EndedCovered ==
  ASSUME Invariant, Invariant', NEW n \in Ids, Covered(n),
         NEW p \in Windows \cup Agents, Done(p), n \in call[p],
         \/ paper'[n] = paper[n] /\ extra'[n] = extra[n]
         \/ paper'[n] = paper[n] + 1 /\ extra'[n] = extra[n] + 1
         \/ paper'[n] = paper[n] + 1 /\ extra'[n] = extra[n] /\ Chance(n)' <= Chance(n)
  PROVE  Covered(n)'
<1> DEFINE c == Cardinality(Calls(n))
<1>1. /\ c \in Nat /\ Chance(n) \in {0, 1} /\ Chance(n)' \in {0, 1}
      /\ paper[n] \in Nat /\ extra[n] \in Nat
  <2>1. Chance(n)' \in {0, 1}
    BY DEF Chance
  <2> QED
    BY <2>1, Amounts DEF Covered
<1>2. IsFiniteSet(Calls(n)') /\ Cardinality(Calls(n)') = c - 1
  BY CallEnds DEF Covered
<1>3. paper[n] + c + Chance(n) <= 1 + extra[n]
  BY DEF Covered
<1>4. paper'[n] + (c - 1) + Chance(n)' <= 1 + extra'[n]
  BY <1>1, <1>3
<1> QED
  BY <1>2, <1>4 DEF Covered

\* A row that a call takes up, which it had a chance of or which is accounted for.
LEMMA StartedCovered ==
  ASSUME Invariant, Invariant', NEW n \in Ids, Covered(n),
         NEW p \in Windows \cup Agents, NEW S, n \in S,
         call[p] = {}, call' = [call EXCEPT ![p] = S],
         paper'[n] = paper[n], Printing(n)', jobs'[n].lease = "running",
         \/ extra'[n] = extra[n] + 1
         \/ extra'[n] = extra[n] /\ Chance(n) = 1
  PROVE  Covered(n)'
<1> DEFINE c == Cardinality(Calls(n))
<1>1. /\ c \in Nat /\ Chance(n) \in {0, 1} /\ paper[n] \in Nat /\ extra[n] \in Nat
  BY Amounts DEF Covered
<1>2. IsFiniteSet(Calls(n)') /\ Cardinality(Calls(n)') = c + 1 /\ Calls(n)' # {}
  BY CallStarts DEF Covered
<1>3. Chance(n)' = 0
  BY <1>2 DEF Chance, Printing
<1>4. paper[n] + c + Chance(n) <= 1 + extra[n]
  BY DEF Covered
<1>5. paper'[n] + (c + 1) + 0 <= 1 + extra'[n]
  BY <1>1, <1>4
<1> QED
  BY <1>2, <1>3, <1>5 DEF Covered

\* A row that stays as it is, like its calls and its records.
LEMMA SameChance ==
  ASSUME NEW n, jobs'[n] = jobs[n], Calls(n)' = Calls(n), OnFile(n)' <=> OnFile(n)
  PROVE  Chance(n)' = Chance(n)
  BY DEF Chance, Printing

\* What a step that creates no row owes to the rest of the invariant.
LEMMA RestOfCopies ==
  ASSUME Invariant, Invariant', Copies,
         \A n \in Ids : Kept(jobs[n], jobs'[n]) /\ paper'[n] >= paper[n],
         \A n \in Ids : jobs[n].st = "none" => paper'[n] = 0 /\ Calls(n)' = {} /\ ~OnFile(n)',
         \A n \in Ids : OnFile(n)' \/ jobs'[n].st = "printed" => paper'[n] > 0,
         dispatched \subseteq dispatched',
         \A s \in dispatched' : s \in dispatched \/ \E n \in Ids : jobs[n].label = s /\ paper[n] > 0,
         \A n \in Ids : jobs'[n].st = "printed" /\ jobs[n].target = "desktop" =>
           jobs[n].st = "printed" \/ (jobs[n].label \in Ready => jobs[n].label \in dispatched'),
         \A a \in Agents : \A n \in call'[a] : n \in call[a] \/ jobs[n].target = "agent"
  PROVE  /\ \A n \in Ids : Traced(n)'
         /\ OneEach' /\ Left' /\ Owned'
<1>1. \A n \in Ids : Traced(n)'
  BY DEF Traced, Kept
<1>2. OneEach'
  <2>1. \A n \in Ids : Shown(n)' => Shown(n)
    BY DEF Shown, Kept
  <2>2. ASSUME NEW m \in Ids, NEW n \in Ids, Shown(m)', Shown(n)', SameKey(m, n)'
        PROVE  m = n
    <3>1. SameKey(m, n)
      BY <2>2 DEF Kept, SameKey
    <3> QED
      BY <2>1, <2>2, <3>1 DEF Copies, OneEach
  <2> QED
    BY <2>2 DEF OneEach
<1>3. Left'
  <2>0. paper' \in [Ids -> Nat]
    BY Zenon DEF Invariant, PrintTypeOK
  <2>1. \A n \in Ids : paper[n] \in Nat /\ paper'[n] \in Nat
    BY <2>0, Before
  <2>2. \A s \in dispatched' : \E n \in Ids : jobs[n].label = s /\ paper[n] > 0
    BY DEF Copies, Left
  <2>3. \A s \in dispatched' : \E n \in Ids : jobs'[n].label = s /\ paper'[n] > 0
    BY <2>1, <2>2 DEF Kept
  <2>4. ASSUME NEW n \in Ids PROVE SentOff(n)'
    <3>1. jobs'[n].label = jobs[n].label /\ jobs'[n].target = jobs[n].target
      BY DEF Kept
    <3>2. SentOff(n)
      BY DEF Copies, Left
    <3> QED
      BY <3>1, <3>2 DEF SentOff
  <2> QED
    BY <2>3, <2>4 DEF Left
<1>4. Owned'
  <2>1. call' \in [Windows \cup Agents -> SUBSET Ids]
    BY Zenon DEF Invariant, PrintTypeOK
  <2>2. ASSUME NEW a \in Agents, NEW n \in call'[a] PROVE jobs'[n].target = "agent"
    <3>1. n \in Ids /\ Kept(jobs[n], jobs'[n])
      BY <2>1
    <3>2. jobs[n].target = "agent"
      BY DEF Copies, Owned
    <3> QED
      BY <3>1, <3>2 DEF Kept
  <2> QED
    BY <2>2 DEF Owned
<1> QED
  BY <1>1, <1>2, <1>3, <1>4

\* Rows that keep their lease or leave the printer stay together.
LEMMA StillTogether ==
  ASSUME Copies,
         \A n \in Ids : Printing(n)' => /\ Printing(n)
                                        /\ jobs'[n].peers = jobs[n].peers
                                        /\ jobs'[n].lease = jobs[n].lease
  PROVE  Together'
  BY DEF Copies, Together

-----------------------------------------------------------------------------
\* The least-number principle, and what it says of Least and Newest.
LEMMA Minimum ==
  ASSUME NEW S \in SUBSET Nat, S # {}
  PROVE  \E n \in S : \A m \in S : n <= m
<1> DEFINE R == {ss \in Nat \X Nat : ss[1] < ss[2]}
<1>1. IsWellFoundedOn(R, Nat)
  BY NatLessThanWellFounded DEF OpToRel
<1>2. \A m, n \in Nat : m < n => <<m, n>> \in R
  OBVIOUS
<1> HIDE DEF R
<1>3. PICK n \in S : \A m \in S : ~(<<m, n>> \in R)
  BY <1>1, WFMin
<1>4. \A m \in S : ~(m < n) /\ m \in Nat /\ n \in Nat
  BY <1>2, <1>3
<1>5. \A m \in S : n <= m
  BY <1>4
<1> QED
  BY <1>5

LEMMA LeastIn ==
  ASSUME NEW S \in SUBSET Ids, S # {}
  PROVE  Least(S) \in S
<1>1. S \in SUBSET Nat
  BY PrintAssumption DEF Ids
<1> QED
  BY <1>1, Minimum DEF Least

LEMMA NewestIn ==
  ASSUME NEW S \in SUBSET Ids, S # {}
  PROVE  Newest(S) \in S
<1> DEFINE T == {MaxRows - n : n \in S}
<1>1. T \in SUBSET Nat
  BY PrintAssumption DEF Ids
<1>2. T # {}
  OBVIOUS
<1>3. PICK k \in T : \A m \in T : k <= m
  <2> HIDE DEF T
  <2> QED
    BY <1>1, <1>2, Minimum
<1>4. PICK n \in S : k = MaxRows - n
  OBVIOUS
<1>5. ASSUME NEW m \in S PROVE m <= n
  <2>1. MaxRows - m \in T
    OBVIOUS
  <2>2. MaxRows - n <= MaxRows - m
    BY <2>1, <1>3, <1>4
  <2>3. m \in Int /\ n \in Int /\ MaxRows \in Int
    <3>1. m \in Ids /\ n \in Ids
      OBVIOUS
    <3> QED
      BY <3>1, PrintAssumption DEF Ids
  <2> QED
    BY <2>2, <2>3
<1> QED
  BY <1>5 DEF Newest

-----------------------------------------------------------------------------
\* What stays in a row that leaves the printer, waits or is claimed.
Row(L) == [st : Statuses, label : L,
           card : {"plain", "scope", "reprint"}, target : Targets,
           tries : Nat, lease : {"none", "running", "over", "old"},
           quiet : BOOLEAN, marked : BOOLEAN, peers : SUBSET Ids]

LEMMA RowMoved ==
  ASSUME NEW L, NEW job \in Row(L), NEW st, NEW row \in Others(job, st)
  PROVE  /\ row.st = st /\ row.label = job.label /\ row.card = job.card
         /\ row.target = job.target
<1>1. CASE row = Moved(job, st)
  BY <1>1 DEF Moved, Row
<1>2. CASE row = Cleared(job, st)
  BY <1>2 DEF Moved, Cleared, Row
<1>3. CASE row = [Moved(job, st) EXCEPT !.marked = TRUE]
  BY <1>3 DEF Moved, Row
<1> QED
  BY <1>1, <1>2, <1>3 DEF Others

LEMMA RowClaimed ==
  ASSUME NEW L, NEW job \in Row(L), NEW ids
  PROVE  /\ Claimed(job, ids).label = job.label /\ Claimed(job, ids).card = job.card
         /\ Claimed(job, ids).target = job.target
         /\ Claimed(job, ids).st = "printing"
         /\ Claimed(job, ids).lease = "running"
         /\ Claimed(job, ids).peers = ids
  BY DEF Claimed, Row

LEMMA RowWaits ==
  ASSUME NEW L, NEW job \in Row(L), NEW l
  PROVE  /\ Kept(job, [job EXCEPT !.lease = l]) /\ Kept(job, [job EXCEPT !.quiet = TRUE])
         /\ [job EXCEPT !.lease = l].st = job.st
         /\ [job EXCEPT !.lease = l].lease = l
         /\ [job EXCEPT !.lease = l].peers = job.peers
         /\ [job EXCEPT !.quiet = TRUE].st = job.st
         /\ [job EXCEPT !.quiet = TRUE].lease = job.lease
         /\ [job EXCEPT !.quiet = TRUE].peers = job.peers
  BY DEF Kept, Row

LEMMA JobIsRow == \E L : Job = Row(L)
<1>1. Job = Row(Labels \cup {""})
  BY Zenon DEF Job, Row
<1> QED
  BY <1>1, Zenon

LEMMA MovedKept ==
  ASSUME NEW job \in Job, job.st # "none",
         NEW st \in {"pending", "printed", "failed", "deleted"},
         st \in Open => job.st \in Open, NEW row \in Others(job, st)
  PROVE  Kept(job, row) /\ row.st = st
<1>1. PICK L : job \in Row(L)
  BY JobIsRow, Zenon
<1>2. /\ row.st = st /\ row.label = job.label /\ row.card = job.card
      /\ row.target = job.target
  BY <1>1, RowMoved
<1> QED
  BY <1>2 DEF Kept

LEMMA WaitingKept ==
  ASSUME NEW job \in Job, NEW l
  PROVE  /\ Kept(job, [job EXCEPT !.lease = l]) /\ Kept(job, [job EXCEPT !.quiet = TRUE])
         /\ [job EXCEPT !.lease = l].st = job.st
         /\ [job EXCEPT !.lease = l].lease = l
         /\ [job EXCEPT !.lease = l].peers = job.peers
         /\ [job EXCEPT !.quiet = TRUE].st = job.st
         /\ [job EXCEPT !.quiet = TRUE].lease = job.lease
         /\ [job EXCEPT !.quiet = TRUE].peers = job.peers
<1>1. PICK L : job \in Row(L)
  BY JobIsRow, Zenon
<1> QED
  BY <1>1, RowWaits

LEMMA ClaimedKept ==
  ASSUME NEW job \in Job, job.st \in Open, NEW ids
  PROVE  /\ Kept(job, Claimed(job, ids))
         /\ Claimed(job, ids).st = "printing" /\ Claimed(job, ids).lease = "running"
         /\ Claimed(job, ids).peers = ids
<1>1. /\ Claimed(job, ids).label = job.label /\ Claimed(job, ids).card = job.card
      /\ Claimed(job, ids).target = job.target
      /\ Claimed(job, ids).st = "printing"
      /\ Claimed(job, ids).lease = "running"
      /\ Claimed(job, ids).peers = ids
  <2>1. PICK L : job \in Row(L)
    BY JobIsRow, Zenon
  <2> QED
    BY <2>1, RowClaimed
<1>2. job.st # "none" /\ "printing" # "none"
  BY DEF Open
<1> QED
  BY <1>1, <1>2, Zenon DEF Kept

LEMMA SameKept == ASSUME NEW job PROVE Kept(job, job)
  BY DEF Kept

LEMMA CopiesAre ==
  ASSUME Copies
  PROVE  /\ \A n \in Ids : Covered(n) /\ Traced(n) /\ IsFiniteSet(Calls(n))
         /\ Together /\ OneEach /\ Left /\ Owned
  BY DEF Copies, Covered

-----------------------------------------------------------------------------
\* A new row is in no call, and its key has no other row in the queue.
LEMMA CreateCopies ==
  ASSUME Invariant, Invariant', Copies,
         NEW l \in Labels, NEW card \in {"plain", "scope", "reprint"}, NEW t \in Targets,
         Create(l, card, t), UNCHANGED <<call, store, paper, dispatched, extra>>,
         \/ t # "desktop"
         \/ \A n \in Ids : Shown(n) /\ ((jobs[n].card = "scope") <=> (card = "scope")) =>
                           jobs[n].label # l
  PROVE  Copies'
<1> DEFINE free == {n \in Ids : jobs[n].st = "none"}
           new == [NoJob EXCEPT !.st = "pending", !.label = l, !.card = card, !.target = t]
<1>1. PICK k \in Ids : k = Least(free) /\ jobs[k].st = "none"
  <2>1. free \in SUBSET Ids /\ free # {}
    BY DEF Create
  <2>2. Least(free) \in free
    <3> HIDE DEF free
    <3> QED
      BY <2>1, LeastIn
  <2> QED
    BY <2>2
<1>2. /\ new.st = "pending" /\ new.label = l /\ new.card = card /\ new.target = t
  BY DEF NoJob
<1>3. jobs' = [jobs EXCEPT ![k] = new]
  BY <1>1 DEF Create
<1> HIDE DEF new, free
<1>4. jobs'[k] = new /\ \A n \in Ids : n # k => jobs'[n] = jobs[n]
  BY <1>1, <1>3, Before
<1>5. \A n \in Ids : Calls(n)' = Calls(n) /\ (OnFile(n)' <=> OnFile(n))
  BY DEF Calls, OnFile
<1>6. ASSUME NEW n \in Ids PROVE Covered(n)' /\ Traced(n)'
  <2>0. Covered(n) /\ Traced(n)
    BY CopiesAre
  <2>1. CASE n = k
    <3>1. paper[n] = 0 /\ Calls(n) = {} /\ ~OnFile(n)
      BY <1>1, <2>0, <2>1 DEF Traced
    <3>2. Chance(n)' \in {0, 1}
      BY DEF Chance
    <3>3. extra[n] \in Nat
      BY Before
    <3>4. IsFiniteSet(Calls(n)') /\ Cardinality(Calls(n)') = 0
      BY <1>5, <3>1, FS_EmptySet
    <3>5. Covered(n)'
      BY <3>1, <3>2, <3>3, <3>4 DEF Covered
    <3>6. Traced(n)'
      BY <1>2, <1>4, <1>5, <2>1, <3>1 DEF Traced
    <3> QED
      BY <3>5, <3>6
  <2>2. CASE n # k
    <3>1. jobs'[n] = jobs[n]
      BY <1>4, <2>2
    <3>2. Chance(n)' = Chance(n)
      BY <1>5, <3>1, SameChance
    <3>3. Covered(n)'
      BY <1>5, <2>0, <3>2 DEF Covered
    <3>4. Traced(n)'
      BY <1>5, <2>0, <3>1 DEF Traced
    <3> QED
      BY <3>3, <3>4
  <2> QED
    BY <2>1, <2>2
<1>7. Together'
  <2>1. \A n \in Ids : Printing(n)' => n # k /\ jobs'[n] = jobs[n] /\ Printing(n)
    BY <1>2, <1>4 DEF Printing
  <2> QED
    BY <2>1, StillTogether
<1>8. OneEach'
  <2>1. ASSUME NEW n \in Ids, n # k
        PROVE  (Shown(n)' <=> Shown(n)) /\ jobs'[n] = jobs[n]
    <3>1. jobs'[n] = jobs[n]
      BY <1>4, <2>1
    <3> QED
      BY <3>1 DEF Shown
  <2>2. jobs'[k].label = l /\ jobs'[k].card = card /\ jobs'[k].target = t
    BY <1>2, <1>4
  <2>3. ASSUME NEW n \in Ids, n # k, Shown(n)', Shown(k)', SameKey(n, k)' \/ SameKey(k, n)'
        PROVE  FALSE
    <3>1. Shown(n) /\ jobs[n].label = l /\ ((jobs[n].card = "scope") <=> (card = "scope"))
      BY <2>1, <2>2, <2>3 DEF SameKey
    <3>2. t = "desktop"
      BY <2>2, <2>3 DEF Shown
    <3> QED
      BY <3>1, <3>2
  <2>4. ASSUME NEW m \in Ids, NEW n \in Ids, m # k, n # k,
               Shown(m)', Shown(n)', SameKey(m, n)'
        PROVE  m = n
    <3>1. Shown(m) /\ Shown(n) /\ SameKey(m, n)
      BY <2>1, <2>4 DEF SameKey
    <3>2. OneEach
      BY CopiesAre
    <3> QED
      BY <3>1, <3>2, Zenon DEF OneEach
  <2>5. ASSUME NEW m \in Ids, NEW n \in Ids, Shown(m)', Shown(n)', SameKey(m, n)'
        PROVE  m = n
    <3>1. m = k /\ n # k => FALSE
      BY <2>3, <2>5, Zenon
    <3>2. n = k /\ m # k => FALSE
      BY <2>3, <2>5, Zenon
    <3>3. CASE m # k /\ n # k
      BY <2>4, <2>5, <3>3, Zenon
    <3> QED
      BY <3>1, <3>2, <3>3, Zenon
  <2> QED
    BY <2>5, Zenon DEF OneEach
<1>9. Left'
  <2>1. \A n \in Ids : paper[n] > 0 => jobs'[n] = jobs[n]
    BY <1>1, <1>4, CopiesAre DEF Traced
  <2>2. Left
    BY CopiesAre
  <2>3. \A s \in dispatched' : \E n \in Ids : jobs'[n].label = s /\ paper'[n] > 0
    BY <2>1, <2>2 DEF Left
  <2>4. ASSUME NEW n \in Ids PROVE SentOff(n)'
    BY <1>2, <1>4, <2>2 DEF Left, SentOff
  <2> QED
    BY <2>3, <2>4 DEF Left
<1>10. Owned'
  <2>1. ASSUME NEW a \in Agents, NEW n \in call'[a] PROVE jobs'[n].target = "agent"
    <3>1. n \in call[a] /\ n \in Ids /\ a \in Windows \cup Agents
      BY Before
    <3>2. n # k
      BY <1>1, <3>1, CopiesAre DEF Traced, Calls
    <3> QED
      BY <1>4, <3>1, <3>2, CopiesAre DEF Owned
  <2> QED
    BY <2>1 DEF Owned
<1> QED
  BY <1>6, <1>7, <1>8, <1>9, <1>10 DEF Copies

\* Rows that somebody queues again, each copy accounted for, or takes out.
LEMMA SetCopies ==
  ASSUME Invariant, Invariant', Copies,
         NEW S \in SUBSET Ids, NEW st \in {"pending", "failed", "deleted"},
         \A n \in S : /\ jobs[n].st # "none" /\ (st = "pending" => Printing(n))
                      /\ jobs'[n] \in Others(jobs[n], st),
         \A n \in Ids \ S : jobs'[n] = jobs[n],
         IF st = "pending" THEN Allow(S) ELSE UNCHANGED extra,
         UNCHANGED <<call, store, paper, dispatched>>
  PROVE  Copies'
<1>1. \A n \in Ids : Calls(n)' = Calls(n) /\ (OnFile(n)' <=> OnFile(n))
  BY DEF Calls, OnFile
<1>2. ASSUME NEW n \in Ids PROVE Kept(jobs[n], jobs'[n]) /\ (n \in S => jobs'[n].st = st)
  <2>1. CASE n \in S
    <3>1. st \in {"pending", "printed", "failed", "deleted"} /\ jobs[n] \in Job
      BY Before
    <3>2. st \in Open => jobs[n].st \in Open
      BY <2>1 DEF Open, Printing
    <3>3. jobs'[n] \in Others(jobs[n], st)
      BY <2>1
    <3> QED
      BY <2>1, <3>1, <3>2, <3>3, MovedKept
  <2>2. CASE n \notin S
    BY <2>2, SameKept
  <2> QED
    BY <2>1, <2>2
<1>3. ASSUME NEW n \in Ids PROVE Covered(n)'
  <2>0. Covered(n) /\ Traced(n) /\ extra[n] \in Nat
    BY CopiesAre, Before
  <2>1. CASE n \in S /\ st = "pending"
    <3>1. extra'[n] = extra[n] + 1
      BY <2>0, <2>1 DEF Allow
    <3> QED
      BY <1>1, <2>0, <3>1, StillCovered
  <2>2. CASE n \in S /\ st # "pending"
    <3>1. Chance(n)' = 0
      BY <1>2, <2>2 DEF Chance, Printing
    <3>2. Chance(n) \in {0, 1}
      BY DEF Chance
    <3> QED
      BY <1>1, <2>0, <2>2, <3>1, <3>2, StillCovered
  <2>3. CASE n \notin S
    <3>1. jobs'[n] = jobs[n]
      BY <2>3
    <3>2. Chance(n)' = Chance(n)
      BY <1>1, <3>1, SameChance
    <3>3. extra'[n] = extra[n]
      BY <2>0, <2>3 DEF Allow
    <3>4. Chance(n) \in {0, 1}
      BY DEF Chance
    <3> QED
      BY <1>1, <2>0, <3>2, <3>3, <3>4, StillCovered
  <2> QED
    BY <2>1, <2>2, <2>3
<1>4. \A n \in Ids : paper'[n] >= paper[n]
  BY Before
<1>5. \A n \in Ids : jobs'[n].st = "printed" => jobs[n].st = "printed"
  BY <1>2
<1>6. (\A n \in Ids : Traced(n)') /\ OneEach' /\ Left' /\ Owned'
  BY <1>1, <1>2, <1>4, <1>5, CopiesAre, RestOfCopies DEF Traced
<1>7. Together'
  <2>1. \A n \in Ids : Printing(n)' => n \notin S
    BY <1>2 DEF Printing
  <2>2. \A n \in Ids : n \notin S => jobs'[n] = jobs[n]
    OBVIOUS
  <2> QED
    BY <2>1, <2>2, StillTogether DEF Printing
<1> QED
  BY <1>3, <1>6, <1>7 DEF Copies

-----------------------------------------------------------------------------
LEMMA QueueCopies == ASSUME Invariant, Invariant', Copies, QueueStep PROVE Copies'
<1>1. ASSUME NEW l \in OrderLabels, NEW card \in {"scope", "plain"}, QueueOnce(l, card)
      PROVE  Copies'
  <2>1. Create(l, card, IF card = "scope" THEN "desktop" ELSE "agent")
    BY <1>1, Zenon DEF QueueOnce
  <2>2. UNCHANGED <<call, store, paper, dispatched, extra>> /\ l \in Labels
    BY <1>1 DEF QueueOnce, world, Labels
  <2>3. CASE card = "scope"
    <3>1. ASSUME NEW n \in Ids, Shown(n), jobs[n].card = "scope" PROVE jobs[n].label # l
      BY <1>1, <2>3, <3>1 DEF QueueOnce, Exists, Shown, Open
    <3> QED
      BY <2>1, <2>2, <2>3, <3>1, CreateCopies DEF Targets
  <2>4. CASE card = "plain"
    BY <2>1, <2>2, <2>4, CreateCopies DEF Targets
  <2> QED
    BY <2>3, <2>4
<1>2. ASSUME NEW l \in OrderLabels, RecoverStale(l) PROVE Copies'
  <2> DEFINE stale == {n \in Ids : jobs[n].label = l /\ Printing(n) /\ jobs[n].quiet}
  <2>1. PICK k : /\ k = Newest(stale) /\ stale # {}
                 /\ jobs' = [n \in Ids |-> IF n \in {k}
                                THEN [Moved(jobs[n], "pending") EXCEPT !.marked = TRUE]
                                ELSE jobs[n]]
                 /\ Allow({k}) /\ UNCHANGED <<call, store, paper, dispatched>>
    BY <1>2 DEF RecoverStale, Set, world
  <2>2. k \in stale
    <3>1. stale \in SUBSET Ids
      OBVIOUS
    <3> HIDE DEF stale
    <3> QED
      BY <2>1, <3>1, NewestIn
  <2>3. k \in Ids /\ Printing(k) /\ jobs[k].st # "none"
    BY <2>2 DEF Printing
  <2>4. jobs'[k] \in Others(jobs[k], "pending") /\ \A n \in Ids \ {k} : jobs'[n] = jobs[n]
    BY <2>1, <2>3 DEF Others
  <2> HIDE DEF stale
  <2> QED
    BY <2>1, <2>3, <2>4, SetCopies
<1>3. ASSUME NEW l \in Labels, NEW t \in Targets, QueueAgain(l, t) PROVE Copies'
  <2> DEFINE stale == Reusable(l, t)
  <2>0. UNCHANGED <<call, store, paper, dispatched>>
    BY <1>3 DEF QueueAgain, world
  <2>1. CASE stale # {}
    <3>1. PICK k : /\ k = Newest(stale) /\ Allow({k})
                   /\ jobs' = [n \in Ids |-> IF n \in {k} THEN Cleared(jobs[n], "pending")
                                                          ELSE jobs[n]]
      BY <1>3, <2>1 DEF QueueAgain, Set
    <3>2. k \in stale
      <4>1. stale \in SUBSET Ids
        BY DEF Reusable, OpenJobs
      <4> HIDE DEF stale
      <4> QED
        BY <2>1, <3>1, <4>1, NewestIn
    <3>3. k \in Ids /\ Printing(k) /\ jobs[k].st # "none"
      BY <3>2 DEF Reusable, OpenJobs, Printing
    <3>4. jobs'[k] \in Others(jobs[k], "pending") /\ \A n \in Ids \ {k} : jobs'[n] = jobs[n]
      BY <3>1, <3>3 DEF Others
    <3> HIDE DEF stale
    <3> QED
      BY <2>0, <3>1, <3>3, <3>4, SetCopies
  <2>2. CASE stale = {}
    <3>1. Create(l, "reprint", t) /\ UNCHANGED extra
      BY <1>3, <2>2, Zenon DEF QueueAgain
    <3>2. OpenJobs(l, t) = {}
      BY <1>3, <2>2 DEF QueueAgain, Reusable
    <3>3. t = "desktop" =>
            \A n \in Ids : Shown(n) /\ jobs[n].card # "scope" => jobs[n].label # l
      BY <3>2 DEF OpenJobs, Shown
    <3> QED
      BY <2>0, <3>1, <3>3, CreateCopies
  <2> QED
    BY <2>1, <2>2
<1>4. ASSUME NEW T \in SUBSET Targets, NEW st \in {"pending", "failed"}, Reset(T, st)
      PROVE  Copies'
  <2>1. PICK S \in SUBSET Ids :
          /\ S = Scoped(T, {"printing"})
          /\ jobs' = [n \in Ids |-> IF n \in S THEN Cleared(jobs[n], st) ELSE jobs[n]]
          /\ Allow(IF st = "pending" THEN S ELSE {})
          /\ UNCHANGED <<call, store, paper, dispatched>>
    BY <1>4 DEF Reset, Set, Scoped, world
  <2>2. \A n \in S : Printing(n) /\ jobs[n].st # "none"
    BY <2>1 DEF Scoped, Printing
  <2>3. \A n \in S : jobs'[n] \in Others(jobs[n], st)
    BY <2>1 DEF Others
  <2>4. \A n \in Ids \ S : jobs'[n] = jobs[n]
    BY <2>1
  <2>5. st # "pending" => UNCHANGED extra
    BY <2>1, Before DEF Allow
  <2> QED
    BY <2>1, <2>2, <2>3, <2>4, <2>5, SetCopies
<1>5. ASSUME NEW T, NEW statuses, Delete(T, statuses),
             statuses \subseteq {"pending", "printing", "failed"}
      PROVE Copies'
  <2>1. PICK S \in SUBSET Ids :
          /\ S = Scoped(T, statuses)
          /\ jobs' = [n \in Ids |-> IF n \in S THEN Cleared(jobs[n], "deleted") ELSE jobs[n]]
          /\ UNCHANGED <<call, store, paper, dispatched, extra>>
    BY <1>5 DEF Delete, Set, Scoped, world
  <2>2. \A n \in S : jobs[n].st # "none"
    BY <1>5, <2>1 DEF Scoped
  <2>3. \A n \in S : jobs'[n] \in Others(jobs[n], "deleted")
    BY <2>1 DEF Others
  <2>4. \A n \in Ids \ S : jobs'[n] = jobs[n]
    BY <2>1
  <2> QED
    BY <2>1, <2>2, <2>3, <2>4, SetCopies
<1> QED
  BY <1>1, <1>2, <1>3, <1>4, <1>5 DEF QueueStep, Targets

\* Rows one call has ended for: it printed them, or they have another chance.
LEMMA EndedCopies ==
  ASSUME Invariant, Invariant', Copies, NEW p \in Windows \cup Agents, Done(p),
         UNCHANGED dispatched,
         \A n \in Ids : /\ Kept(jobs[n], jobs'[n])
                        /\ Printing(n)' => jobs'[n] = jobs[n],
         \A n \in Ids \ call[p] : /\ paper'[n] = paper[n] /\ extra'[n] = extra[n]
                                  /\ jobs'[n] = jobs[n] /\ (OnFile(n)' <=> OnFile(n)),
         \A n \in call[p] :
           \/ paper'[n] = paper[n] /\ extra'[n] = extra[n]
           \/ paper'[n] = paper[n] + 1 /\ extra'[n] = extra[n] + 1
           \/ paper'[n] = paper[n] + 1 /\ extra'[n] = extra[n] /\ Chance(n)' <= Chance(n),
         \A n \in call[p] :
           OnFile(n)' \/ jobs'[n].st = "printed" =>
             OnFile(n) \/ jobs[n].st = "printed" \/ paper'[n] = paper[n] + 1,
         \A n \in Ids : jobs'[n].st = "printed" /\ jobs[n].target = "desktop" =>
           jobs[n].st = "printed"
  PROVE  Copies'
<1>1. ASSUME NEW n \in Ids
      PROVE  /\ Covered(n) /\ Traced(n) /\ IsFiniteSet(Calls(n))
             /\ paper[n] \in Nat /\ Chance(n) \in {0, 1}
  BY CopiesAre, Amounts
<1>2. ASSUME NEW n \in Ids
      PROVE  /\ n \notin call[p] => Calls(n)' = Calls(n)
             /\ Calls(n) = {} => n \notin call[p]
  <2>1. n \notin call[p] => Calls(n)' = Calls(n)
    BY <1>1, CallEnds
  <2>2. n \in call[p] => p \in Calls(n)
    BY DEF Calls
  <2> QED
    BY <2>1, <2>2
<1>3. ASSUME NEW n \in Ids PROVE Covered(n)'
  <2>1. CASE n \in call[p]
    BY <1>1, <2>1, EndedCovered
  <2>2. CASE n \notin call[p]
    <3>1. Chance(n)' = Chance(n)
      BY <1>2, <2>2, SameChance
    <3>2. Chance(n)' <= Chance(n)
      BY <1>1, <3>1
    <3> QED
      BY <1>1, <1>2, <2>2, <3>2, StillCovered
  <2> QED
    BY <2>1, <2>2
<1>4. ASSUME NEW n \in Ids
      PROVE  /\ paper'[n] >= paper[n]
             /\ jobs[n].st = "none" => paper'[n] = 0 /\ Calls(n)' = {} /\ ~OnFile(n)'
             /\ OnFile(n)' \/ jobs'[n].st = "printed" => paper'[n] > 0
  <2>1. paper'[n] >= paper[n]
    BY <1>1
  <2>2. jobs[n].st = "none" => paper'[n] = 0 /\ Calls(n)' = {} /\ ~OnFile(n)'
    BY <1>1, <1>2 DEF Traced
  <2>3. paper'[n] = paper[n] + 1 => paper'[n] > 0
    BY <1>1
  <2>4. OnFile(n) \/ jobs[n].st = "printed" => paper'[n] > 0
    <3>1. paper'[n] = paper[n] \/ paper'[n] = paper[n] + 1
      OBVIOUS
    <3> QED
      BY <1>1, <3>1 DEF Traced
  <2> QED
    BY <2>1, <2>2, <2>3, <2>4
<1>5. (\A n \in Ids : Traced(n)') /\ OneEach' /\ Left' /\ Owned'
  <2>1. \A a \in Agents : call'[a] \subseteq call[a]
    BY Before DEF Done
  <2> QED
    BY <1>4, <2>1, RestOfCopies
<1>6. Together'
  BY StillTogether DEF Printing
<1> QED
  BY <1>3, <1>5, <1>6 DEF Copies

\* The rows of a new call are together, and no other row is with them.
LEMMA ClaimTogether ==
  ASSUME Copies, NEW S \in SUBSET Ids,
         \A n \in S : jobs'[n].peers = S /\ jobs'[n].lease = "running",
         \A n \in Ids \ S : Printing(n)' => jobs'[n] = jobs[n]
  PROVE  Together'
<1>1. Together
  BY CopiesAre
<1>2. ASSUME NEW n \in Ids, Printing(n)'
      PROVE  n \in jobs'[n].peers /\ (n \notin S => jobs'[n] = jobs[n] /\ Printing(n))
  <2>1. CASE n \in S
    BY <2>1
  <2>2. CASE n \notin S
    <3>1. jobs'[n] = jobs[n] /\ Printing(n)
      BY <1>2, <2>2 DEF Printing
    <3> QED
      BY <1>1, <2>2, <3>1 DEF Together
  <2> QED
    BY <2>1, <2>2
<1>3. ASSUME NEW n \in Ids, NEW m \in Ids, Printing(n)', Printing(m)', jobs'[m].peers = jobs'[n].peers
      PROVE  jobs'[m].lease = jobs'[n].lease
  <2>1. n \in jobs'[n].peers /\ m \in jobs'[n].peers /\ n \in jobs'[m].peers
    BY <1>2, <1>3
  <2>2. CASE n \in S
    BY <2>1, <2>2
  <2>3. CASE n \notin S
    <3>1. m \notin S
      BY <1>3, <2>1, <2>3
    <3>2. jobs'[n] = jobs[n] /\ Printing(n) /\ jobs'[m] = jobs[m] /\ Printing(m)
      BY <1>2, <1>3, <2>3, <3>1
    <3> QED
      BY <1>1, <1>3, <3>2 DEF Together
  <2> QED
    BY <2>2, <2>3
<1> QED
  BY <1>2, <1>3 DEF Together

-----------------------------------------------------------------------------
\* A reclaimed row may be claimed again, as it might have been before, or a copy
\* is accounted for.
LEMMA ReclaimCopies ==
  ASSUME Invariant, Invariant', Copies, NEW w \in Windows, Reclaim(w) PROVE Copies'
<1> DEFINE lost == {n \in Reclaimed : Recorded(n)}
<1>1. PICK S \in SUBSET Ids :
        /\ S = Reclaimed
        /\ \A n \in Ids : jobs'[n] = IF n \in S THEN Moved(jobs[n], "pending") ELSE jobs[n]
        /\ Allow(lost) /\ UNCHANGED <<call, store, paper, dispatched>>
  BY DEF Reclaim, Set, Reclaimed, world
<1>2. \A n \in S : Printing(n) /\ jobs[n].lease = "over" /\ jobs[n].st \in Open
  BY <1>1 DEF Reclaimed, MayReclaim, Printing, Open
<1>3. \A n \in Ids : Calls(n)' = Calls(n) /\ (OnFile(n)' <=> OnFile(n))
  BY <1>1 DEF Calls, OnFile
<1>4. ASSUME NEW n \in Ids
      PROVE  /\ Covered(n) /\ Traced(n) /\ jobs[n] \in Job
             /\ extra[n] \in Nat /\ paper[n] \in Nat /\ Chance(n) \in {0, 1}
  BY CopiesAre, Amounts
<1>5. ASSUME NEW n \in Ids PROVE extra'[n] = extra[n] + (IF n \in lost THEN 1 ELSE 0)
  BY <1>1 DEF Allow
<1>6. ASSUME NEW n \in Ids
      PROVE  Kept(jobs[n], jobs'[n]) /\ (n \in S => jobs'[n].st = "pending")
  <2>1. CASE n \in S
    <3>1. jobs'[n] \in Others(jobs[n], "pending")
      BY <1>1, <2>1 DEF Others
    <3>2. jobs[n].st # "none" /\ jobs[n].st \in Open
      BY <1>2, <2>1 DEF Open
    <3> QED
      BY <1>4, <3>1, <3>2, MovedKept
  <2>2. CASE n \notin S
    BY <1>1, <2>2, SameKept
  <2> QED
    BY <2>1, <2>2
<1>7. ASSUME NEW n \in Ids PROVE Covered(n)'
  <2>1. CASE n \in lost
    <3>1. extra'[n] = extra[n] + 1
      BY <1>5, <2>1
    <3> QED
      BY <1>1, <1>3, <1>4, <3>1, StillCovered
  <2>2. CASE n \in S /\ n \notin lost
    <3>1. ~OnFile(n)
      BY <1>1, <2>2 DEF OnFile, Recorded
    <3>2. Chance(n) = 1 /\ Chance(n)' = 1
      BY <1>2, <1>6, <2>2, <3>1 DEF Chance
    <3>3. extra'[n] = extra[n]
      BY <1>4, <1>5, <2>2
    <3> QED
      BY <1>1, <1>3, <1>4, <3>2, <3>3, StillCovered
  <2>3. CASE n \notin S
    <3>1. jobs'[n] = jobs[n] /\ n \notin lost
      BY <1>1, <2>3
    <3>2. Chance(n)' = Chance(n)
      BY <1>3, <3>1, SameChance
    <3>3. extra'[n] = extra[n]
      BY <1>4, <1>5, <3>1
    <3> QED
      BY <1>1, <1>3, <1>4, <3>2, <3>3, StillCovered
  <2> QED
    BY <2>1, <2>2, <2>3
<1>8. (\A n \in Ids : Traced(n)') /\ OneEach' /\ Left' /\ Owned'
  <2>1. \A n \in Ids : /\ paper'[n] = paper[n] /\ paper'[n] >= paper[n]
                       /\ jobs'[n].st = "printed" => jobs[n].st = "printed"
    BY <1>1, <1>4, <1>6
  <2>2. \A n \in Ids : jobs[n].st = "none" => paper'[n] = 0 /\ Calls(n)' = {} /\ ~OnFile(n)'
    BY <1>3, <1>4, <2>1 DEF Traced
  <2>3. \A n \in Ids : OnFile(n)' \/ jobs'[n].st = "printed" => paper'[n] > 0
    BY <1>3, <1>4, <2>1 DEF Traced
  <2>4. dispatched' = dispatched
    BY <1>1
  <2> QED
    BY <1>1, <1>6, <2>1, <2>2, <2>3, <2>4, RestOfCopies
<1>9. Together'
  <2>1. \A n \in Ids : Printing(n)' => jobs'[n] = jobs[n]
    BY <1>1, <1>6 DEF Printing
  <2> QED
    BY <2>1, StillTogether DEF Printing
<1> QED
  BY <1>7, <1>8, <1>9 DEF Copies

\* A poll takes up pending rows.
LEMMA PollCopies ==
  ASSUME Invariant, Invariant', Copies, NEW w \in Windows, JobsNext(w) PROVE Copies'
<1> DEFINE pending == {n \in Ids : jobs[n].target = "desktop" /\ jobs[n].st = "pending"}
           forSupply(n) == jobs[n].label \in Supplies
           alike == {n \in pending : forSupply(n) = forSupply(Least(pending))}
<1>1. PICK batch \in SUBSET pending :
        /\ call[w] = {}
        /\ Set(batch, LAMBDA job : Claimed(job, batch))
        /\ call' = [call EXCEPT ![w] = batch]
        /\ UNCHANGED <<store, paper, dispatched, extra>>
  <2> DEFINE b == First(alike, IF forSupply(Least(pending)) THEN SupplyLimit ELSE JobLimit)
  <2>1. b \in SUBSET pending
    BY FirstIn
  <2>2. /\ call[w] = {} /\ call' = [call EXCEPT ![w] = b]
        /\ Set(b, LAMBDA job : Claimed(job, b))
        /\ UNCHANGED <<store, paper, dispatched, extra>>
    BY Zenon DEF JobsNext
  <2> HIDE DEF b, pending
  <2> QED
    BY <2>1, <2>2
<1>2. batch \in SUBSET Ids /\ \A n \in batch : jobs[n].st = "pending"
  OBVIOUS
<1> HIDE DEF pending, alike, forSupply
<1>3. \A n \in Ids : jobs'[n] = IF n \in batch THEN Claimed(jobs[n], batch) ELSE jobs[n]
  BY <1>1 DEF Set
<1>4. \A n \in Ids : (OnFile(n)' <=> OnFile(n)) /\ paper'[n] = paper[n] /\ extra'[n] = extra[n]
  BY <1>1 DEF OnFile
<1>5. ASSUME NEW n \in Ids
      PROVE  /\ Covered(n) /\ Traced(n) /\ IsFiniteSet(Calls(n)) /\ jobs[n] \in Job
             /\ extra[n] \in Nat /\ paper[n] \in Nat /\ Chance(n) \in {0, 1}
  BY CopiesAre, Amounts
<1>6. ASSUME NEW n \in Ids, n \in batch
      PROVE  /\ Kept(jobs[n], jobs'[n]) /\ jobs'[n].st = "printing"
             /\ jobs'[n].lease = "running" /\ jobs'[n].peers = batch
  <2>1. jobs[n].st \in Open /\ jobs'[n] = Claimed(jobs[n], batch)
    BY <1>2, <1>3, <1>6 DEF Open
  <2> QED
    BY <1>5, <2>1, ClaimedKept
<1>7. ASSUME NEW n \in Ids, n \notin batch PROVE Calls(n)' = Calls(n) /\ jobs'[n] = jobs[n]
  BY <1>1, <1>3, <1>5, <1>7, CallStarts
<1>8. ASSUME NEW n \in Ids PROVE Covered(n)'
  <2>1. CASE n \in batch
    <3>1. Printing(n)' /\ jobs'[n].lease = "running"
      BY <1>6, <2>1 DEF Printing
    <3>2. Chance(n) = 1
      BY <1>2, <2>1 DEF Chance
    <3> QED
      BY <1>1, <1>4, <1>5, <2>1, <3>1, <3>2, StartedCovered
  <2>2. CASE n \notin batch
    <3>1. Chance(n)' = Chance(n)
      BY <1>4, <1>7, <2>2, SameChance
    <3> QED
      BY <1>4, <1>5, <1>7, <2>2, <3>1, StillCovered
  <2> QED
    BY <2>1, <2>2
<1>9. ASSUME NEW n \in Ids
      PROVE  /\ Kept(jobs[n], jobs'[n])
             /\ jobs'[n].st = "printed" => jobs[n].st = "printed"
  BY <1>6, <1>7, SameKept
<1>10. (\A n \in Ids : Traced(n)') /\ OneEach' /\ Left' /\ Owned'
  <2>1. \A n \in Ids : paper'[n] >= paper[n]
    BY <1>4, <1>5
  <2>2. \A n \in Ids : jobs[n].st = "none" => n \notin batch
    BY <1>2
  <2>3. \A n \in Ids : jobs[n].st = "none" => paper'[n] = 0 /\ Calls(n)' = {} /\ ~OnFile(n)'
    BY <1>4, <1>5, <1>7, <2>2 DEF Traced
  <2>4. \A n \in Ids : OnFile(n)' \/ jobs'[n].st = "printed" => paper'[n] > 0
    BY <1>4, <1>5, <1>9 DEF Traced
  <2>5. dispatched' = dispatched
    BY <1>1
  <2>6. \A a \in Agents : call'[a] = call[a]
    BY <1>1, PrintAssumption, Before
  <2> QED
    BY <1>9, <2>1, <2>3, <2>4, <2>5, <2>6, RestOfCopies
<1>11. Together'
  BY <1>2, <1>6, <1>7, ClaimTogether
<1> QED
  BY <1>8, <1>10, <1>11 DEF Copies

\* What comes out of a printer, and what is accounted for.
LEMMA Copied ==
  ASSUME Invariant, NEW S, NEW n \in Ids
  PROVE  /\ Out(S) => paper'[n] = IF n \in S THEN paper[n] + 1 ELSE paper[n]
         /\ Allow(S) => extra'[n] = IF n \in S THEN extra[n] + 1 ELSE extra[n]
<1>1. paper[n] \in Nat /\ extra[n] \in Nat
  BY Before
<1> QED
  BY <1>1 DEF Out, Allow

\* A call of Desktop ends with its record, without one, or is forgotten.
LEMMA DesktopCallCopies ==
  ASSUME Invariant, Invariant', Copies, NEW w \in Windows,
         Printed(w) \/ Reload(w) \/ PrintFails(w)
  PROVE  Copies'
<1>1. call[w] \in SUBSET Ids /\ w \in Windows \cup Agents
  BY Before
<1>2. UNCHANGED jobs /\ UNCHANGED dispatched /\ Done(w)
  BY DEF Printed, Reload, PrintFails
<1>3. \A n \in Ids : Kept(jobs[n], jobs'[n]) /\ jobs'[n] = jobs[n]
  BY <1>2, SameKept
<1>4. CASE Printed(w)
  <2>1. Out(call[w]) /\ UNCHANGED extra /\ store' = store \cup {[ids |-> call[w], as |-> "printed"]}
    BY <1>4 DEF Printed
  <2>2. ASSUME NEW n \in Ids PROVE OnFile(n)' <=> OnFile(n) \/ n \in call[w]
    <3> DEFINE r == [ids |-> call[w], as |-> "printed"]
    <3>1. r.as = "printed" /\ r.ids = call[w]
      OBVIOUS
    <3>2. store' = store \cup {r}
      BY <2>1
    <3> HIDE DEF r
    <3>3. OnFile(n)' <=> \E e \in store \cup {r} : e.as = "printed" /\ n \in e.ids
      BY <3>2, Zenon DEF OnFile
    <3> QED
      BY <3>1, <3>3, Zenon DEF OnFile
  <2>3. ASSUME NEW n \in call[w] PROVE Chance(n)' <= Chance(n)
    <3>1. n \in Ids /\ jobs'[n] = jobs[n] /\ OnFile(n)'
      BY <1>1, <1>3, <2>2
    <3> QED
      BY <3>1 DEF Chance, Printing
  <2>4. \A n \in Ids : /\ n \in call[w] => paper'[n] = paper[n] + 1
                       /\ n \notin call[w] => paper'[n] = paper[n]
                       /\ extra'[n] = extra[n]
    BY <2>1, Copied
  <2> QED
    BY <1>1, <1>2, <1>3, <2>2, <2>3, <2>4, EndedCopies
<1>5. CASE Reload(w)
  <2>1. UNCHANGED <<store, paper, extra>>
    BY <1>5 DEF Reload
  <2>2. \A n \in Ids : OnFile(n)' <=> OnFile(n)
    BY <2>1 DEF OnFile
  <2>3. \A n \in Ids : paper'[n] = paper[n] /\ extra'[n] = extra[n]
    BY <2>1
  <2> QED
    BY <1>1, <1>2, <1>3, <2>2, <2>3, EndedCopies
<1>6. CASE PrintFails(w)
  <2>1. PICK S \in SUBSET call[w] : Out(S) /\ Allow(S)
    BY <1>6 DEF PrintFails
  <2>2. store' = store \cup {[ids |-> call[w], as |-> "failed"]} \/ store' = store
    BY <1>6 DEF PrintFails
  <2>3. \A n \in Ids : OnFile(n)' <=> OnFile(n)
    BY <2>2 DEF OnFile
  <2>4. ASSUME NEW n \in Ids
        PROVE  \/ n \in call[w] /\ paper'[n] = paper[n] + 1 /\ extra'[n] = extra[n] + 1
               \/ paper'[n] = paper[n] /\ extra'[n] = extra[n]
    BY <2>1, Copied
  <2> QED
    BY <1>1, <1>2, <1>3, <2>3, <2>4, EndedCopies
<1> QED
  BY <1>4, <1>5, <1>6

\* A call of the older agent ends: its open rows are printed or failed, or it dies.
LEMMA AgentCallCopies ==
  ASSUME Invariant, Invariant', Copies, NEW a \in Agents, AgentPrints(a) \/ AgentFails(a)
  PROVE  Copies'
<1>1. call[a] \in SUBSET Ids /\ a \in Windows \cup Agents
  BY Before
<1>2. UNCHANGED dispatched /\ UNCHANGED store /\ Done(a)
  BY DEF AgentPrints, AgentFails
<1>3. \A n \in Ids : OnFile(n)' <=> OnFile(n)
  BY <1>2 DEF OnFile
<1>4. ASSUME NEW st \in {"printed", "failed"},
             Set(Reported(a), LAMBDA job : Cleared(job, st)), NEW n \in Ids
      PROVE  /\ Kept(jobs[n], jobs'[n]) /\ (Printing(n)' => jobs'[n] = jobs[n])
             /\ n \notin call[a] => jobs'[n] = jobs[n]
             /\ jobs'[n] = jobs[n] \/ (n \in call[a] /\ jobs'[n].st = st)
             /\ n \in call[a] => ~Printing(n)' /\ (jobs'[n].st = "pending" => jobs[n].st = "pending")
  <2>1. CASE n \in Reported(a)
    <3>1. jobs'[n] = Cleared(jobs[n], st)
      BY <1>4, <2>1 DEF Set
    <3>2. jobs[n].st \in Open /\ n \in call[a]
      BY <2>1 DEF Reported, Open
    <3>3. jobs[n] \in Job /\ jobs[n].st # "none" /\ jobs'[n] \in Others(jobs[n], st)
      BY <3>1, <3>2, Before DEF Others, Open
    <3>4. Kept(jobs[n], jobs'[n]) /\ jobs'[n].st = st
      BY <3>2, <3>3, MovedKept
    <3> QED
      BY <3>2, <3>4 DEF Printing
  <2>2. CASE n \notin Reported(a)
    <3>1. jobs'[n] = jobs[n]
      BY <1>4, <2>2 DEF Set
    <3>2. n \in call[a] => ~Printing(n)
      BY <2>2 DEF Reported, Printing, Open
    <3> QED
      BY <3>1, <3>2, SameKept DEF Printing
  <2> QED
    BY <2>1, <2>2
<1>5. \A n \in call[a] : jobs[n].target = "agent"
  BY CopiesAre DEF Owned
<1>6. CASE AgentPrints(a)
  <2>1. /\ Out(call[a]) /\ UNCHANGED extra
        /\ Set(Reported(a), LAMBDA job : Cleared(job, "printed"))
    BY <1>6, Zenon DEF AgentPrints
  <2>2. \A n \in Ids : /\ n \in call[a] => paper'[n] = paper[n] + 1
                       /\ n \notin call[a] => paper'[n] = paper[n]
                       /\ extra'[n] = extra[n]
    BY <2>1, Copied
  <2>3. ASSUME NEW n \in call[a] PROVE Chance(n)' <= Chance(n)
    <3>1. ~Printing(n)' /\ (jobs'[n].st = "pending" => jobs[n].st = "pending")
      BY <1>1, <1>4, <2>1
    <3> QED
      BY <3>1 DEF Chance
  <2>4. ASSUME NEW n \in Ids
        PROVE  /\ Kept(jobs[n], jobs'[n]) /\ (Printing(n)' => jobs'[n] = jobs[n])
               /\ n \notin call[a] => jobs'[n] = jobs[n]
               /\ jobs'[n] = jobs[n] \/ n \in call[a]
    BY <1>4, <2>1
  <2>5. \A n \in Ids : jobs'[n].st = "printed" /\ jobs[n].target = "desktop" => jobs[n].st = "printed"
    BY <1>5, <2>4
  <2> QED
    BY <1>1, <1>2, <1>3, <2>2, <2>3, <2>4, <2>5, EndedCopies
<1>7. CASE AgentFails(a)
  <2>1. PICK S \in SUBSET call[a] : Out(S) /\ Allow(S)
    BY <1>7 DEF AgentFails
  <2>2. ASSUME NEW n \in Ids
        PROVE  \/ n \in call[a] /\ paper'[n] = paper[n] + 1 /\ extra'[n] = extra[n] + 1
               \/ paper'[n] = paper[n] /\ extra'[n] = extra[n]
    BY <2>1, Copied
  <2>3. ASSUME NEW n \in Ids
        PROVE  /\ Kept(jobs[n], jobs'[n]) /\ (Printing(n)' => jobs'[n] = jobs[n])
               /\ n \notin call[a] => jobs'[n] = jobs[n]
               /\ jobs'[n] = jobs[n] \/ jobs'[n].st = "failed"
    <3>1. CASE Set(Reported(a), LAMBDA job : Cleared(job, "failed"))
      BY <1>4, <3>1
    <3>2. CASE UNCHANGED jobs
      BY <3>2, SameKept
    <3> QED
      BY <1>7, <3>1, <3>2 DEF AgentFails
  <2>4. \A n \in Ids : jobs'[n].st = "printed" /\ jobs[n].target = "desktop" => jobs[n].st = "printed"
    BY <2>3
  <2> QED
    BY <1>1, <1>2, <1>3, <2>2, <2>3, <2>4, EndedCopies
<1> QED
  BY <1>6, <1>7

-----------------------------------------------------------------------------
\* An acknowledgement settles open rows; what it calls printed is on paper.
LEMMA CompleteCopies ==
  ASSUME Invariant, Invariant', Copies, NEW e \in store, Accepts(e),
         NEW S \in SUBSET e.ids, Complete(S, e.as),
         UNCHANGED <<call, paper, extra>>,
         store' = store \/ (store' = store \ {e} /\ S = e.ids)
  PROVE  Copies'
<1>1. e.ids \in SUBSET Ids /\ e.as \in {"printed", "failed"}
  BY Before
<1>2. \A n \in Ids : Calls(n)' = Calls(n) /\ (OnFile(n)' => OnFile(n))
  BY DEF Calls, OnFile
<1>3. \A n \in Ids : n \notin S => (OnFile(n)' <=> OnFile(n))
  BY DEF OnFile
<1>4. ASSUME NEW n \in S, e.as = "printed" PROVE OnFile(n)
  BY <1>4 DEF OnFile
<1>5. ASSUME NEW n \in Ids
      PROVE  jobs'[n] = IF n \in S /\ jobs[n].st # e.as THEN Cleared(jobs[n], e.as) ELSE jobs[n]
  BY DEF Complete, Set, Stored
<1>6. ASSUME NEW n \in Ids
      PROVE  /\ Kept(jobs[n], jobs'[n])
             /\ n \in S => jobs'[n].st = e.as
             /\ jobs'[n].st \in {"pending", "printing"} => jobs'[n] = jobs[n]
  <2>1. CASE n \in S /\ jobs[n].st # e.as
    <3>1. jobs[n].st \in Open
      BY <2>1 DEF Accepts
    <3>2. jobs[n] \in Job /\ jobs[n].st # "none" /\ jobs'[n] \in Others(jobs[n], e.as)
      BY <1>5, <2>1, <3>1, Before DEF Others, Open
    <3>3. Kept(jobs[n], jobs'[n]) /\ jobs'[n].st = e.as
      BY <1>1, <3>1, <3>2, MovedKept
    <3> QED
      BY <1>1, <3>3
  <2>2. CASE ~(n \in S /\ jobs[n].st # e.as)
    BY <1>5, <2>2, SameKept
  <2> QED
    BY <2>1, <2>2
<1>7. ASSUME NEW n \in Ids PROVE Covered(n)'
  <2>0. Covered(n) /\ Chance(n) \in {0, 1}
    BY CopiesAre, Amounts
  <2>1. Chance(n)' <= Chance(n)
    <3>1. CASE n \in S
      <4>1. Chance(n)' = 0
        BY <1>1, <1>6, <3>1 DEF Chance, Printing
      <4> QED
        BY <2>0, <4>1
    <3>2. CASE n \notin S
      <4>1. Chance(n)' = Chance(n)
        BY <1>2, <1>3, <1>5, <3>2, SameChance
      <4> QED
        BY <2>0, <4>1
    <3> QED
      BY <3>1, <3>2
  <2> QED
    BY <1>2, <2>0, <2>1, StillCovered
<1>8. (\A n \in Ids : Traced(n)') /\ OneEach' /\ Left' /\ Owned'
  <2>1. ASSUME NEW n \in Ids
        PROVE  /\ Traced(n) /\ Calls(n)' = Calls(n) /\ paper'[n] = paper[n] /\ paper'[n] >= paper[n]
               /\ OnFile(n)' \/ jobs'[n].st = "printed" => OnFile(n) \/ jobs[n].st = "printed"
    <3>1. jobs'[n].st = "printed" => OnFile(n) \/ jobs[n].st = "printed"
      BY <1>4, <1>5, <1>6
    <3> QED
      BY <1>2, <3>1, CopiesAre, Before
  <2>2. ASSUME NEW n \in Ids
        PROVE  /\ jobs[n].st = "none" => paper'[n] = 0 /\ Calls(n)' = {} /\ ~OnFile(n)'
               /\ OnFile(n)' \/ jobs'[n].st = "printed" => paper'[n] > 0
    BY <1>2, <2>1 DEF Traced
  <2>3. ASSUME NEW s \in dispatched', s \notin dispatched
        PROVE  \E n \in Ids : jobs[n].label = s /\ paper[n] > 0
    <3>1. e.as = "printed" /\ \E n \in S : jobs[n].label = s
      BY <2>3 DEF Complete, Stored
    <3>2. PICK n \in S : jobs[n].label = s
      BY <3>1
    <3>3. n \in Ids /\ OnFile(n)
      BY <1>1, <1>4, <3>1
    <3> QED
      BY <2>1, <3>2, <3>3 DEF Traced
  <2>4. ASSUME NEW n \in Ids, jobs'[n].st = "printed", jobs[n].st # "printed", jobs[n].label \in Ready
        PROVE  jobs[n].label \in dispatched'
    <3>1. n \in S /\ e.as = "printed"
      BY <1>5, <1>6, <2>4
    <3> QED
      BY <2>4, <3>1 DEF Complete, Stored
  <2>5. dispatched \subseteq dispatched'
    BY DEF Complete
  <2> QED
    BY <1>6, <2>1, <2>2, <2>3, <2>4, <2>5, RestOfCopies
<1>9. Together'
  BY <1>6, StillTogether DEF Printing
<1> QED
  BY <1>7, <1>8, <1>9 DEF Copies

LEMMA DesktopCopies == ASSUME Invariant, Invariant', Copies, DesktopStep PROVE Copies'
<1>1. ASSUME NEW e \in store, Acknowledge(e) PROVE Copies'
  BY <1>1, CompleteCopies DEF Acknowledge
<1>2. ASSUME NEW e \in store, AcknowledgePart(e) PROVE Copies'
  <2>1. PICK k : Complete(First(e.ids, k), e.as)
    BY <1>2 DEF AcknowledgePart
  <2>2. First(e.ids, k) \in SUBSET e.ids
    BY FirstIn
  <2> QED
    BY <1>2, <2>1, <2>2, CompleteCopies DEF AcknowledgePart
<1> QED
  BY <1>1, <1>2, ReclaimCopies, PollCopies, DesktopCallCopies DEF DesktopStep

-----------------------------------------------------------------------------
\* The older agent accounts for every lease it cancels.
LEMMA AgentNextCopies ==
  ASSUME Invariant, Invariant', Copies, NEW a \in Agents, AgentNext(a) PROVE Copies'
<1> DEFINE over == {n \in Ids : Printing(n) /\ jobs[n].lease \in {"over", "old"}}
           own == {n \in Ids : jobs[n].target = "agent" /\ (jobs[n].st = "pending" \/ n \in over)}
<1>1. PICK lapsed \in SUBSET Ids, claimed \in SUBSET Ids :
        /\ lapsed = over /\ claimed \subseteq own
        /\ jobs' = [n \in Ids |->
             LET job == IF n \in lapsed THEN Cleared(jobs[n], "pending") ELSE jobs[n]
             IN  IF n \in claimed THEN Claimed(job, claimed) ELSE job]
        /\ call[a] = {} /\ call' = [call EXCEPT ![a] = claimed]
        /\ Allow(lapsed) /\ UNCHANGED <<store, paper, dispatched>>
  <2>1. ASSUME NEW k PROVE First(own, k) \subseteq own /\ First(own, k) \in SUBSET Ids
    BY FirstIn
  <2>2. over \in SUBSET Ids
    OBVIOUS
  <2> QED
    BY <2>1, <2>2, Zenon DEF AgentNext
<1>2. /\ \A n \in lapsed : Printing(n)
      /\ \A n \in claimed : /\ jobs[n].st = "pending" \/ n \in lapsed
                          /\ jobs[n].target = "agent"
  BY <1>1
<1> HIDE DEF over, own
<1>3. \A n \in Ids : extra'[n] = IF n \in lapsed THEN extra[n] + 1 ELSE extra[n]
  BY <1>1, Copied
<1>4. \A n \in Ids : OnFile(n)' <=> OnFile(n)
  BY <1>1 DEF OnFile
<1>5. ASSUME NEW n \in Ids
      PROVE  /\ Covered(n) /\ Traced(n) /\ IsFiniteSet(Calls(n)) /\ jobs[n] \in Job
             /\ paper[n] \in Nat /\ Chance(n) \in {0, 1}
  BY CopiesAre, Amounts
<1>6. \A n \in Ids :
        /\ n \in claimed \cap lapsed => jobs'[n] = Claimed(Cleared(jobs[n], "pending"), claimed)
        /\ n \in claimed \ lapsed => jobs'[n] = Claimed(jobs[n], claimed)
        /\ n \in lapsed \ claimed => jobs'[n] = Cleared(jobs[n], "pending")
        /\ n \notin lapsed /\ n \notin claimed => jobs'[n] = jobs[n]
  BY <1>1
<1>7. ASSUME NEW n \in lapsed
      PROVE  /\ Cleared(jobs[n], "pending") \in Job /\ Cleared(jobs[n], "pending").st = "pending"
             /\ Kept(jobs[n], Cleared(jobs[n], "pending"))
  <2>1. jobs[n] \in Job /\ jobs[n].st # "none" /\ jobs[n].st \in Open
    BY <1>2, <1>5 DEF Printing, Open
  <2>2. Cleared(jobs[n], "pending") \in Others(jobs[n], "pending")
    BY DEF Others
  <2>3. "pending" \in Statuses
    BY DEF Statuses
  <2> QED
    BY <2>1, <2>2, <2>3, MovedKept, MovedRow
<1>8. ASSUME NEW n \in claimed
      PROVE  /\ Kept(jobs[n], jobs'[n]) /\ jobs'[n].st = "printing"
             /\ jobs'[n].lease = "running" /\ jobs'[n].peers = claimed
  <2>1. CASE n \in lapsed
    <3> DEFINE job == Cleared(jobs[n], "pending")
    <3>1. job \in Job /\ job.st \in Open /\ Kept(jobs[n], job)
      BY <1>7, <2>1 DEF Open
    <3>2. jobs'[n] = Claimed(job, claimed)
      BY <1>6, <2>1
    <3> HIDE DEF job
    <3>3. /\ Kept(job, jobs'[n]) /\ jobs'[n].st = "printing"
          /\ jobs'[n].lease = "running" /\ jobs'[n].peers = claimed
      BY <3>1, <3>2, ClaimedKept
    <3>4. Kept(jobs[n], jobs'[n])
      BY <3>1, <3>3 DEF Kept
    <3> QED
      BY <3>3, <3>4
  <2>2. CASE n \notin lapsed
    <3>1. jobs[n] \in Job /\ jobs[n].st \in Open
      BY <1>2, <1>5, <2>2 DEF Open
    <3>2. jobs'[n] = Claimed(jobs[n], claimed)
      BY <1>6, <2>2
    <3> QED
      BY <3>1, <3>2, ClaimedKept
  <2> QED
    BY <2>1, <2>2
<1>9. ASSUME NEW n \in Ids, n \notin claimed
      PROVE  /\ Calls(n)' = Calls(n) /\ Kept(jobs[n], jobs'[n])
             /\ Printing(n)' => jobs'[n] = jobs[n]
             /\ jobs'[n].st = "printed" => jobs[n].st = "printed"
  <2>1. Calls(n)' = Calls(n)
    BY <1>1, <1>5, <1>9, CallStarts
  <2>2. CASE n \in lapsed
    BY <1>6, <1>7, <1>9, <2>1, <2>2 DEF Printing
  <2>3. CASE n \notin lapsed
    BY <1>6, <1>9, <2>1, <2>3, SameKept
  <2> QED
    BY <2>2, <2>3
<1>10. ASSUME NEW n \in Ids PROVE Covered(n)'
  <2>1. CASE n \in claimed
    <3>1. Printing(n)' /\ jobs'[n].lease = "running" /\ paper'[n] = paper[n]
      BY <1>1, <1>8, <2>1 DEF Printing
    <3>2. extra'[n] = extra[n] + 1 \/ (extra'[n] = extra[n] /\ Chance(n) = 1)
      BY <1>2, <1>3, <2>1 DEF Chance
    <3> QED
      BY <1>1, <1>5, <2>1, <3>1, <3>2, StartedCovered
  <2>2. CASE n \in lapsed \ claimed
    BY <1>1, <1>3, <1>5, <1>9, <2>2, StillCovered
  <2>3. CASE n \notin lapsed /\ n \notin claimed
    <3>1. Chance(n)' = Chance(n)
      BY <1>4, <1>6, <1>9, <2>3, SameChance
    <3>2. extra'[n] = extra[n] /\ paper'[n] = paper[n]
      BY <1>1, <1>3, <2>3
    <3> QED
      BY <1>5, <1>9, <2>3, <3>1, <3>2, StillCovered
  <2> QED
    BY <2>1, <2>2, <2>3
<1>11. (\A n \in Ids : Traced(n)') /\ OneEach' /\ Left' /\ Owned'
  <2>1. \A n \in Ids : /\ paper'[n] = paper[n] /\ paper'[n] >= paper[n]
                       /\ Kept(jobs[n], jobs'[n])
                       /\ jobs'[n].st = "printed" => jobs[n].st = "printed"
    BY <1>1, <1>5, <1>8, <1>9
  <2>2. ASSUME NEW n \in Ids, jobs[n].st = "none" PROVE n \notin claimed
    BY <1>2, <2>2 DEF Printing
  <2>3. \A n \in Ids : jobs[n].st = "none" => paper'[n] = 0 /\ Calls(n)' = {} /\ ~OnFile(n)'
    BY <1>4, <1>5, <1>9, <2>1, <2>2 DEF Traced
  <2>4. \A n \in Ids : OnFile(n)' \/ jobs'[n].st = "printed" => paper'[n] > 0
    BY <1>4, <1>5, <2>1 DEF Traced
  <2>5. dispatched' = dispatched
    BY <1>1
  <2>6. \A b \in Agents : \A n \in call'[b] : n \in call[b] \/ jobs[n].target = "agent"
    <3>1. \A b \in Agents : call'[b] = call[b] \/ call'[b] = claimed
      BY <1>1, Before
    <3> QED
      BY <1>2, <3>1
  <2> QED
    BY <2>1, <2>3, <2>4, <2>5, <2>6, RestOfCopies
<1>12. Together'
  BY <1>8, <1>9, ClaimTogether
<1> QED
  BY <1>10, <1>11, <1>12 DEF Copies

\* A lease that ends, or ages, ends and ages for every row of its call.
LEMMA LeaseCopies ==
  ASSUME Invariant, Invariant', Copies, NEW n \in Ids, Printing(n), NEW l \in {"over", "old"},
         Set(Peers(n), LAMBDA job : [job EXCEPT !.lease = l]), UNCHANGED world,
         \A m \in Ids :
           \/ m \in Peers(n) /\ extra'[m] = extra[m] + 1
           \/ extra'[m] = extra[m] /\ (m \in Peers(n) => Calls(m) = {} \/ jobs[m].lease # "running")
  PROVE  Copies'
<1>1. UNCHANGED <<call, store, paper, dispatched>>
  BY DEF world
<1>2. \A m \in Ids : Calls(m)' = Calls(m) /\ (OnFile(m)' <=> OnFile(m))
  BY <1>1 DEF Calls, OnFile
<1>3. ASSUME NEW m \in Ids
      PROVE  /\ Covered(m) /\ Traced(m) /\ jobs[m] \in Job
             /\ paper[m] \in Nat /\ Chance(m) \in {0, 1}
  BY CopiesAre, Amounts
<1>4. ASSUME NEW m \in Ids
      PROVE  /\ m \in Peers(n) => jobs'[m] = [jobs[m] EXCEPT !.lease = l]
             /\ m \notin Peers(n) => jobs'[m] = jobs[m]
  BY DEF Set
<1>5. ASSUME NEW m \in Ids
      PROVE  /\ Kept(jobs[m], jobs'[m]) /\ jobs'[m].st = jobs[m].st
             /\ jobs'[m].peers = jobs[m].peers
             /\ m \in Peers(n) => Printing(m) /\ jobs'[m].lease = l /\ jobs[m].peers = jobs[n].peers
             /\ m \notin Peers(n) => jobs'[m].lease = jobs[m].lease
  <2>1. CASE m \in Peers(n)
    <3>1. Printing(m) /\ jobs[m].peers = jobs[n].peers
      BY <2>1 DEF Peers
    <3>2. /\ Kept(jobs[m], jobs'[m]) /\ jobs'[m].st = jobs[m].st
          /\ jobs'[m].lease = l /\ jobs'[m].peers = jobs[m].peers
      <4>1. jobs'[m] = [jobs[m] EXCEPT !.lease = l] /\ jobs[m] \in Job
        BY <1>3, <1>4, <2>1
      <4>2. ASSUME NEW job \in Job, NEW row, row = [job EXCEPT !.lease = l]
            PROVE  Kept(job, row) /\ row.st = job.st /\ row.lease = l /\ row.peers = job.peers
        BY <4>2, WaitingKept
      <4> QED
        BY <4>1, <4>2, Zenon
    <3> QED
      BY <2>1, <3>1, <3>2
  <2>2. CASE m \notin Peers(n)
    BY <1>4, <2>2, SameKept
  <2> QED
    BY <2>1, <2>2
<1>6. ASSUME NEW m \in Ids PROVE Covered(m)'
  <2>1. CASE m \in Peers(n) /\ extra'[m] = extra[m] + 1
    BY <1>1, <1>2, <1>3, <2>1, StillCovered
  <2>2. CASE m \in Peers(n) /\ extra'[m] = extra[m] /\ (Calls(m) = {} \/ jobs[m].lease # "running")
    <3>1. Printing(m) /\ jobs'[m].st = "printing" /\ jobs[m].st # "pending"
      BY <1>5, <2>2 DEF Printing
    <3>2. Chance(m)' <= Chance(m)
      BY <1>2, <2>2, <3>1 DEF Chance, Printing
    <3> QED
      BY <1>1, <1>2, <1>3, <2>2, <3>2, StillCovered
  <2>3. CASE m \notin Peers(n) /\ extra'[m] = extra[m]
    <3>1. Chance(m)' = Chance(m)
      BY <1>2, <1>4, <2>3, SameChance
    <3> QED
      BY <1>1, <1>2, <1>3, <2>3, <3>1, StillCovered
  <2> QED
    BY <2>1, <2>2, <2>3
<1>7. (\A m \in Ids : Traced(m)') /\ OneEach' /\ Left' /\ Owned'
  <2>1. ASSUME NEW m \in Ids
        PROVE  /\ paper'[m] >= paper[m]
               /\ jobs[m].st = "none" => paper'[m] = 0 /\ Calls(m)' = {} /\ ~OnFile(m)'
               /\ OnFile(m)' \/ jobs'[m].st = "printed" => paper'[m] > 0
    BY <1>1, <1>2, <1>3, <1>5 DEF Traced
  <2> QED
    BY <1>1, <1>5, <2>1, RestOfCopies
<1>8. Together'
  <2>1. Together
    BY CopiesAre
  <2>2. \A m \in Ids : Printing(m)' <=> Printing(m)
    BY <1>5 DEF Printing
  <2>3. ASSUME NEW m \in Ids, Printing(m), jobs[m].peers = jobs[n].peers PROVE m \in Peers(n)
    BY <2>1, <2>3 DEF Together, Peers
  <2>4. ASSUME NEW k \in Ids, NEW m \in Ids, Printing(k), Printing(m), jobs[m].peers = jobs[k].peers
        PROVE  jobs'[m].lease = jobs'[k].lease
    <3>1. CASE k \in Peers(n) \/ m \in Peers(n)
      <4>1. jobs[k].peers = jobs[n].peers /\ jobs[m].peers = jobs[n].peers
        BY <1>5, <2>4, <3>1
      <4> QED
        BY <1>5, <2>3, <2>4, <4>1
    <3>2. CASE k \notin Peers(n) /\ m \notin Peers(n)
      BY <1>5, <2>1, <2>4, <3>2 DEF Together
    <3> QED
      BY <3>1, <3>2
  <2> QED
    BY <1>5, <2>1, <2>2, <2>4 DEF Together
<1> QED
  BY <1>6, <1>7, <1>8 DEF Copies

\* Nothing but time passes for the rows of a call that has grown quiet.
LEMMA QuietCopies ==
  ASSUME Invariant, Invariant', Copies, NEW n \in Ids, GoQuiet(n) PROVE Copies'
<1>1. UNCHANGED <<call, store, paper, dispatched, extra>>
  BY DEF GoQuiet, world
<1>2. \A m \in Ids : Calls(m)' = Calls(m) /\ (OnFile(m)' <=> OnFile(m))
  BY <1>1 DEF Calls, OnFile
<1>3. ASSUME NEW m \in Ids
      PROVE  /\ Covered(m) /\ Traced(m) /\ jobs[m] \in Job
             /\ paper[m] \in Nat /\ Chance(m) \in {0, 1}
  BY CopiesAre, Amounts
<1>4. ASSUME NEW m \in Ids
      PROVE  jobs'[m] = [jobs[m] EXCEPT !.quiet = TRUE] \/ jobs'[m] = jobs[m]
  <2>1. jobs' = [k \in Ids |-> IF k \in Peers(n) THEN [jobs[k] EXCEPT !.quiet = TRUE] ELSE jobs[k]]
    BY DEF GoQuiet, Set
  <2> QED
    BY <2>1
<1>5. ASSUME NEW m \in Ids
      PROVE  /\ Kept(jobs[m], jobs'[m]) /\ jobs'[m].st = jobs[m].st
             /\ jobs'[m].peers = jobs[m].peers /\ jobs'[m].lease = jobs[m].lease
  BY <1>3, <1>4, WaitingKept, SameKept
<1>6. ASSUME NEW m \in Ids PROVE Covered(m)'
  <2>1. Chance(m)' = Chance(m)
    BY <1>2, <1>5 DEF Chance, Printing
  <2> QED
    BY <1>1, <1>2, <1>3, <2>1, StillCovered
<1>7. (\A m \in Ids : Traced(m)') /\ OneEach' /\ Left' /\ Owned'
  <2>1. ASSUME NEW m \in Ids
        PROVE  /\ paper'[m] >= paper[m]
               /\ jobs[m].st = "none" => paper'[m] = 0 /\ Calls(m)' = {} /\ ~OnFile(m)'
               /\ OnFile(m)' \/ jobs'[m].st = "printed" => paper'[m] > 0
    BY <1>1, <1>2, <1>3, <1>5 DEF Traced
  <2> QED
    BY <1>1, <1>5, <2>1, RestOfCopies
<1>8. Together'
  BY <1>5, StillTogether DEF Printing
<1> QED
  BY <1>6, <1>7, <1>8 DEF Copies

LEMMA TimeCopies == ASSUME Invariant, Invariant', Copies, TimeStep PROVE Copies'
<1>1. ASSUME NEW n \in Ids, Expire(n) PROVE Copies'
  <2>1. /\ Printing(n) /\ UNCHANGED world
        /\ Set(Peers(n), LAMBDA job : [job EXCEPT !.lease = "over"])
    BY <1>1, Zenon DEF Expire
  <2>2. CASE \E m \in Peers(n) : InFlight(m)
    <3>1. Allow(Peers(n))
      BY <1>1, <2>2 DEF Expire
    <3>2. ASSUME NEW m \in Ids
          PROVE  \/ m \in Peers(n) /\ extra'[m] = extra[m] + 1
                 \/ m \notin Peers(n) /\ extra'[m] = extra[m]
      BY <3>1, Copied
    <3> QED
      BY <2>1, <3>2, LeaseCopies
  <2>3. CASE ~ \E m \in Peers(n) : InFlight(m)
    <3>1. extra' = extra
      BY <1>1, <2>3 DEF Expire
    <3>2. \A m \in Peers(n) : Calls(m) = {}
      BY <2>3, Before DEF InFlight, Calls
    <3> QED
      BY <2>1, <3>1, <3>2, LeaseCopies
  <2> QED
    BY <2>2, <2>3
<1>2. ASSUME NEW n \in Ids, GrowOld(n) PROVE Copies'
  <2>1. /\ Printing(n) /\ jobs[n].lease = "over" /\ UNCHANGED world /\ extra' = extra
        /\ Set(Peers(n), LAMBDA job : [job EXCEPT !.lease = "old"])
    BY <1>2, Zenon DEF GrowOld
  <2>2. ASSUME NEW m \in Peers(n) PROVE jobs[m].lease # "running"
    <3>1. Together
      BY CopiesAre
    <3>2. n \in jobs[n].peers /\ m \in jobs[n].peers /\ Printing(m) /\ jobs[m].peers = jobs[n].peers
      BY <2>1, <3>1 DEF Together, Peers
    <3>3. m \in Ids
      <4>1. PICK L : jobs[n] \in Row(L)
        BY Before, JobIsRow, Zenon
      <4> QED
        BY <3>2, <4>1 DEF Row
    <3> QED
      BY <2>1, <3>1, <3>2, <3>3 DEF Together
  <2> QED
    BY <2>1, <2>2, LeaseCopies
<1> QED
  BY <1>1, <1>2, QuietCopies DEF TimeStep

-----------------------------------------------------------------------------
LEMMA InitialCopies == Init => Copies
<1> SUFFICES ASSUME Init PROVE Copies
  OBVIOUS
<1>1. \A n \in Ids : /\ jobs[n].st = "none" /\ jobs[n].card = "plain"
                     /\ Calls(n) = {} /\ ~OnFile(n) /\ paper[n] = 0 /\ extra[n] = 0
  <2>1. NoJob.st = "none" /\ NoJob.card = "plain"
    BY DEF NoJob
  <2> QED
    BY <2>1 DEF Init, Calls, OnFile
<1>2. \A n \in Ids : Covered(n) /\ Traced(n)
  BY <1>1, FS_EmptySet DEF Covered, Traced, Chance, Printing
<1>3. Together /\ OneEach
  BY <1>1 DEF Together, OneEach, Shown, Open, Printing
<1>4. Left
  BY <1>1 DEF Init, Left, SentOff
<1>5. Owned
  BY DEF Init, Owned
<1> QED
  BY <1>2, <1>3, <1>4, <1>5 DEF Copies

LEMMA StutterCopies == ASSUME Copies, UNCHANGED vars PROVE Copies'
<1>1. UNCHANGED <<jobs, call, store, paper, dispatched, extra>>
  BY DEF vars
<1>2. \A n \in Ids : /\ Calls(n)' = Calls(n) /\ (OnFile(n)' <=> OnFile(n))
                     /\ (Printing(n)' <=> Printing(n)) /\ (Shown(n)' <=> Shown(n))
  BY <1>1 DEF Calls, OnFile, Printing, Shown
<1>3. \A n \in Ids : Covered(n)' /\ Traced(n)'
  BY <1>1, <1>2, CopiesAre DEF Covered, Traced, Chance
<1>4. Together' /\ OneEach' /\ Left' /\ Owned'
  BY <1>1, <1>2, CopiesAre DEF Together, OneEach, SameKey, Left, SentOff, Owned
<1> QED
  BY <1>3, <1>4 DEF Copies

LEMMA CopiesHold == Spec => [](Invariant /\ Copies)
<1>1. Init => Invariant /\ Copies
  BY Initially, InitialCopies
<1>2. Invariant /\ Copies /\ [Next]_vars => (Invariant /\ Copies)'
  <2> SUFFICES ASSUME Invariant, Copies, [Next]_vars PROVE Invariant' /\ Copies'
    OBVIOUS
  <2>1. Invariant'
    BY QueueKeeps, DesktopKeeps, AgentKeeps, TimeKeeps, StutterKeeps DEF Next
  <2>2. ASSUME AgentStep PROVE Copies'
    BY <2>1, <2>2, AgentNextCopies, AgentCallCopies DEF AgentStep
  <2>3. Copies'
    BY <2>1, <2>2, QueueCopies, DesktopCopies, TimeCopies, StutterCopies DEF Next
  <2> QED
    BY <2>1, <2>3
<1> QED
  BY <1>1, <1>2, PTL DEF Spec

\* Neither retries, recoveries, deletions nor polls ever leave two open jobs of one
\* key in Desktop's queue: the page's own job for a label, or the one a person asked
\* for.
THEOREM PrintOneOpenJobPerKey == Spec => []OneOpenJobPerKey
<1>1. Copies => OneOpenJobPerKey
  BY CopiesAre DEF OneOpenJobPerKey, OneEach, Shown, SameKey
<1> QED
  BY <1>1, CopiesHold, PTL

\* A row leaves the printer a second time only with somebody's knowledge,
\* whatever is lost, fails, is slow or is claimed again.
THEOREM PrintNoSecondCopy == Spec => []NoSecondCopy
<1>1. Invariant /\ Copies => NoSecondCopy
  <2> SUFFICES ASSUME Invariant, Copies, NEW n \in Ids PROVE paper[n] <= 1 + extra[n]
    BY DEF NoSecondCopy
  <2>1. /\ Cardinality(Calls(n)) \in Nat /\ Chance(n) \in {0, 1}
        /\ paper[n] \in Nat /\ extra[n] \in Nat
        /\ paper[n] + Cardinality(Calls(n)) + Chance(n) <= 1 + extra[n]
    BY CopiesAre, Amounts DEF Covered
  <2> QED
    BY <2>1
<1> QED
  BY <1>1, CopiesHold, PTL

\* What is reported printed, and what the driver takes, has its label on paper.
THEOREM PrintDispatchedIsOnPaper == Spec => []DispatchedIsOnPaper
<1>1. Invariant /\ Copies => DispatchedIsOnPaper
  BY CopiesAre DEF DispatchedIsOnPaper, Traced, Left, SentOff
<1> QED
  BY <1>1, CopiesHold, PTL

================================================================================
