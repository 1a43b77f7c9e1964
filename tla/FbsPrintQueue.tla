----------------------------- MODULE FbsPrintQueue -----------------------------
(***************************************************************************)
(* The print queue (ProcessingPrintJob) of one workstation.  Pages of      *)
(* Fullbox Desktop poll it and hand what they get to Desktop, which prints *)
(* a batch in one call, records it on its own disk and acknowledges it     *)
(* before the next poll.  The older print agent serves jobs of its own     *)
(* through another end point over the same table.  A page may be reloaded  *)
(* with the answer of its poll in flight, a print call may fail, crash or  *)
(* outlast its lease.                                                      *)
(*                                                                         *)
(* Time is what the code compares: a row's lease_until is still running,   *)
(* over, or over for longer than _MAX_RECLAIM_AGE_SECONDS; its updated_at  *)
(* is older than FBS_DESKTOP_PRINT_LEASE_SECONDS or not.  The fields of a  *)
(* lease are dead in a row that is not printing and are cleared there.     *)
(* Images, printer choice, access checks and marking codes are left out; a *)
(* wave is verified once.                                                  *)
(***************************************************************************)
EXTENDS Integers, FiniteSets

CONSTANTS
  Windows,      \* pages of Fullbox Desktop that poll
  Agents,       \* processes of the older print agent
  OrderLabels,  \* order labels that are printed
  Supplies,     \* handover supplies whose label is printed
  Ready,        \* the supplies that may be dispatched
  MaxAttempts,  \* _MAX_PRINT_ATTEMPTS
  JobLimit,     \* jobs of order labels in one call (80 in the code)
  SupplyLimit,  \* _HANDOVER_SUPPLY_MAX_JOBS_PER_CALL
  LongLease,    \* a call's lease may exceed FBS_DESKTOP_PRINT_LEASE_SECONDS
  MaySlow,      \* a call may outlast its lease
  MaxRows,      \* bound on queue rows
  MaxFaults,    \* bound on lost, failed, slow and crashed calls
  MaxRequests   \* bound on what people ask of the queue

Labels == OrderLabels \cup Supplies
Ids == 1..MaxRows

ASSUME PrintAssumption ==
  /\ Windows \cap Agents = {} /\ OrderLabels \cap Supplies = {}
  /\ Ready \subseteq Supplies
  /\ MaxAttempts \in Nat \ {0}
  /\ JobLimit \in Nat \ {0} /\ SupplyLimit \in Nat \ {0}
  /\ LongLease \in BOOLEAN /\ MaySlow \in BOOLEAN
  /\ MaxRows \in Nat /\ MaxFaults \in Nat /\ MaxRequests \in Nat

VARIABLES
  jobs,        \* jobs[n]: the n-th row of ProcessingPrintJob
  call,        \* call[p]: the rows page or agent p is printing
  store,       \* Desktop's record of calls that are not acknowledged yet
  paper,       \* paper[n]: copies of row n that left the printer
  dispatched,  \* supplies handed to the driver
  extra,       \* extra[n]: copies of row n that a person, a fault or another
               \* part of the system accounts for
  faults, requests

vars == <<jobs, call, store, paper, dispatched, extra, faults, requests>>
bounds == <<faults, requests>>
world == <<call, store, paper, dispatched>>

Statuses == {"none", "pending", "printing", "printed", "failed", "deleted"}
Open == {"pending", "printing"}
Targets == {"desktop", "agent"}

\* card: which key of the label the row has.  marked: error holds the marker of
\* the automatic retry.  peers: the rows handed out by the same poll.
NoJob == [st |-> "none", label |-> "", card |-> "plain", target |-> "desktop",
          tries |-> 0, lease |-> "none", quiet |-> FALSE, marked |-> FALSE, peers |-> {}]

Init ==
  /\ jobs = [n \in Ids |-> NoJob]
  /\ call = [p \in Windows \cup Agents |-> {}]
  /\ store = {}
  /\ paper = [n \in Ids |-> 0]
  /\ dispatched = {}
  /\ extra = [n \in Ids |-> 0]
  /\ faults = 0 /\ requests = 0

Fault == faults < MaxFaults /\ faults' = faults + 1 /\ UNCHANGED requests
Request == requests < MaxRequests /\ requests' = requests + 1 /\ UNCHANGED faults

Least(S) == CHOOSE n \in S : \A m \in S : n <= m
Newest(S) == CHOOSE n \in S : \A m \in S : m <= n
\* The first k rows of S in the order of their creation.
First(S, k) == {n \in S : Cardinality({m \in S : m < n}) < k}

\* Row job with status st and no lease.
Moved(job, st) == [job EXCEPT !.st = st, !.lease = "none", !.quiet = FALSE, !.peers = {}]
Cleared(job, st) == [Moved(job, st) EXCEPT !.marked = FALSE]

InFlight(n) == \E p \in DOMAIN call : n \in call[p]
Printing(n) == jobs[n].st = "printing"

\* The same copy will be printed once more: somebody knows.
Allow(S) == extra' = [n \in Ids |-> extra[n] + (IF n \in S THEN 1 ELSE 0)]
Set(S, new(_)) == jobs' = [n \in Ids |-> IF n \in S THEN new(jobs[n]) ELSE jobs[n]]

-----------------------------------------------------------------------------
\* Queueing (services/printing.py).

Create(l, card, target) ==
  LET free == {n \in Ids : jobs[n].st = "none"}
  IN  /\ free # {}
      /\ jobs' = [jobs EXCEPT ![Least(free)] =
                   [NoJob EXCEPT !.st = "pending", !.label = l, !.card = card,
                                 !.target = target]]

Exists(l, card) ==
  \E n \in Ids : jobs[n].label = l /\ jobs[n].card = card /\ jobs[n].st # "deleted"

\* _queue_png with deduplication: the page prints a label once for the
\* verification of its wave ("scope") on Desktop, its registration prints it once
\* through the agent.
QueueOnce(l, card) ==
  /\ ~Exists(l, card)
  /\ Create(l, card, IF card = "scope" THEN "desktop" ELSE "agent")
  /\ UNCHANGED <<world, extra, bounds>>

OpenJobs(l, target) ==
  {n \in Ids : /\ jobs[n].label = l /\ jobs[n].card # "scope"
               /\ jobs[n].target = target /\ jobs[n].st \in Open}

\* Mutant of Reusable: a stale job is not found again.
NotReusable(l, target) == {}
Reusable(l, target) == {n \in OpenJobs(l, target) : Printing(n) /\ jobs[n].quiet}

\* _queue_png on request: an open job will do, a stale one is queued again, a
\* new one is created otherwise.
QueueAgain(l, target) ==
  /\ Request
  /\ \A n \in OpenJobs(l, target) : Printing(n) /\ jobs[n].quiet
  /\ LET stale == Reusable(l, target)
     IN  IF stale # {}
         THEN LET n == Newest(stale)
              IN  /\ Set({n}, LAMBDA job : Cleared(job, "pending"))
                  /\ Allow({n})
         ELSE Create(l, "reprint", target) /\ UNCHANGED extra
  /\ UNCHANGED world

\* recover_stale_fbs_order_label_print_job, when the controller opens the label.
RecoverStale(l) ==
  LET stale == {n \in Ids : jobs[n].label = l /\ Printing(n) /\ jobs[n].quiet}
      n == Newest(stale)
  IN  /\ stale # {} /\ ~jobs[n].marked
      /\ Set({n}, LAMBDA job : [Moved(job, "pending") EXCEPT !.marked = TRUE])
      /\ Allow({n})
      /\ UNCHANGED <<world, bounds>>

-----------------------------------------------------------------------------
\* Fullbox Desktop (fbs/desktop_print.py).

\* The check before any row of an acknowledgement is touched.
Accepts(e) == \A n \in e.ids : jobs[n].st \in Open \cup {e.as}

\* A row of a record that is not acknowledged: the server refuses it together with
\* another row, or has not got it yet.
Recorded(n) == \E e \in store : n \in e.ids

\* Mutants of MayReclaim: the limit is off by one; a running lease is enough.
ReclaimOnceMore(job) == job.lease = "over" /\ job.tries <= MaxAttempts
ReclaimRunning(job) == job.lease # "old" /\ job.tries < MaxAttempts
\* _reclaim_expired_jobs
MayReclaim(job) == job.lease = "over" /\ job.tries < MaxAttempts
Reclaimed ==
  {n \in Ids : Printing(n) /\ jobs[n].target = "desktop" /\ MayReclaim(jobs[n])}

\* Mutant of Claimed: the claim leaves no lease, as claims did once.
ClaimedForever(job, ids) ==
  [job EXCEPT !.st = "printing", !.tries = @ + 1, !.quiet = FALSE, !.peers = ids]
Claimed(job, ids) ==
  [job EXCEPT !.st = "printing", !.tries = @ + 1, !.lease = "running",
              !.quiet = FALSE, !.peers = ids]

\* Before a poll Desktop has sent every acknowledgement the server accepts; the
\* call of another page may end just after that.
Flushed == IF \A e \in store : ~Accepts(e) THEN UNCHANGED bounds ELSE Fault

\* jobs_next first reclaims, with a commit.
Reclaim(w) ==
  /\ call[w] = {} /\ Reclaimed # {}
  /\ Flushed
  /\ Set(Reclaimed, LAMBDA job : Moved(job, "pending"))
  /\ Allow({n \in Reclaimed : Recorded(n)})
  /\ UNCHANGED world

\* Then it claims what is pending, in a transaction of its own.
JobsNext(w) ==
  LET pending == {n \in Ids : jobs[n].target = "desktop" /\ jobs[n].st = "pending"}
      forSupply(n) == jobs[n].label \in Supplies
      alike == {n \in pending : forSupply(n) = forSupply(Least(pending))}
      batch == First(alike, IF forSupply(Least(pending)) THEN SupplyLimit ELSE JobLimit)
  IN  /\ call[w] = {} /\ pending # {}
      /\ Flushed
      /\ Set(batch, LAMBDA job : Claimed(job, batch))
      /\ call' = [call EXCEPT ![w] = batch]
      /\ UNCHANGED <<store, paper, dispatched, extra>>

Out(S) == paper' = [n \in Ids |-> paper[n] + (IF n \in S THEN 1 ELSE 0)]
Done(p) == call' = [call EXCEPT ![p] = {}]

\* The page is reloaded and the answer of its poll is lost.
Reload(w) ==
  /\ call[w] # {} /\ Fault
  /\ Done(w)
  /\ UNCHANGED <<jobs, store, paper, dispatched, extra>>

\* The native call ends; Desktop writes it down.
Printed(w) ==
  /\ call[w] # {}
  /\ Done(w) /\ Out(call[w])
  /\ store' = store \cup {[ids |-> call[w], as |-> "printed"]}
  /\ UNCHANGED <<jobs, dispatched, extra, bounds>>

\* The call fails or Desktop dies in it; some labels have come out all the same.
PrintFails(w) ==
  /\ call[w] # {} /\ Fault
  /\ Done(w)
  /\ \E S \in SUBSET call[w] : Out(S) /\ Allow(S)
  /\ \/ store' = store \cup {[ids |-> call[w], as |-> "failed"]}
     \/ UNCHANGED store
  /\ UNCHANGED <<jobs, dispatched>>

\* Mutant of Stored: whatever is reported counts as printed, the default of
\* processing_print_jobs_complete.
StoredPrinted(as) == "printed"
Stored(as) == as

\* jobs_complete commits row after row; a row's commit dispatches its supply.
Complete(S, as) ==
  /\ Set(S, LAMBDA job : IF job.st = Stored(as) THEN job ELSE Cleared(job, Stored(as)))
  /\ dispatched' = IF Stored(as) = "printed"
                   THEN dispatched \cup {s \in Ready : \E n \in S : jobs[n].label = s}
                   ELSE dispatched

Acknowledge(e) ==
  /\ Accepts(e)
  /\ Complete(e.ids, e.as)
  /\ store' = store \ {e}
  /\ UNCHANGED <<call, paper, extra, bounds>>

\* The request dies after some rows; Desktop keeps its record.
AcknowledgePart(e) ==
  /\ Accepts(e) /\ Fault
  /\ \E k \in 0..(Cardinality(e.ids) - 1) : Complete(First(e.ids, k), e.as)
  /\ UNCHANGED <<call, store, paper, extra>>

-----------------------------------------------------------------------------
\* The older agent (processing_app/services.py, fullbox_agent).

\* processing_print_jobs_next, one transaction: every expired lease is cancelled,
\* whoever holds it and however often it was tried; an agent that can print
\* batches gets one, an older one a single job.
AgentNext(a) ==
  LET lapsed == {n \in Ids : Printing(n) /\ jobs[n].lease \in {"over", "old"}}
      own == {n \in Ids : jobs[n].target = "agent" /\ (jobs[n].st = "pending" \/ n \in lapsed)}
  IN  \E k \in {1, JobLimit} : LET claimed == First(own, k) IN
      /\ call[a] = {} /\ lapsed \cup own # {}
      /\ jobs' = [n \in Ids |->
           LET job == IF n \in lapsed THEN Cleared(jobs[n], "pending") ELSE jobs[n]
           IN  IF n \in claimed THEN Claimed(job, claimed) ELSE job]
      /\ call' = [call EXCEPT ![a] = claimed]
      /\ Allow(lapsed)
      /\ UNCHANGED <<store, paper, dispatched, bounds>>

\* processing_print_jobs_complete: the report of a batch leaves alone what is
\* pending again.
Reported(a) ==
  {n \in call[a] : jobs[n].st \in IF Cardinality(call[a]) = 1 THEN Open ELSE {"printing"}}

\* The agent reports once and does not ask whether the report arrived.
AgentPrints(a) ==
  /\ call[a] # {}
  /\ Done(a) /\ Out(call[a])
  /\ Set(Reported(a), LAMBDA job : Cleared(job, "printed"))
  /\ UNCHANGED <<store, dispatched, extra, bounds>>

\* It fails or dies, when some labels have come out.
AgentFails(a) ==
  /\ call[a] # {} /\ Fault
  /\ Done(a)
  /\ \E S \in SUBSET call[a] : Out(S) /\ Allow(S)
  /\ \/ Set(Reported(a), LAMBDA job : Cleared(job, "failed"))
     \/ UNCHANGED jobs
  /\ UNCHANGED <<store, dispatched>>

-----------------------------------------------------------------------------
\* Time and people.

Peers(n) == {m \in jobs[n].peers : Printing(m) /\ jobs[m].peers = jobs[n].peers}

\* The lease of a call ends: the call is lost, or slow.
Expire(n) ==
  /\ Printing(n) /\ jobs[n].lease = "running"
  /\ IF \E m \in Peers(n) : InFlight(m)
     THEN MaySlow /\ Fault /\ Allow(Peers(n))
     ELSE UNCHANGED <<extra, bounds>>
  /\ Set(Peers(n), LAMBDA job : [job EXCEPT !.lease = "over"])
  /\ UNCHANGED world

\* FBS_DESKTOP_PRINT_LEASE_SECONDS pass; the agent's own lease is longer.
GoQuiet(n) ==
  /\ Printing(n) /\ ~jobs[n].quiet
  /\ \/ jobs[n].lease \in {"over", "old"}
     \/ jobs[n].target = "agent" /\ ~InFlight(n)
     \/ jobs[n].target = "desktop" /\ LongLease
  /\ Set(Peers(n), LAMBDA job : [job EXCEPT !.quiet = TRUE])
  /\ UNCHANGED <<world, extra, bounds>>

\* _MAX_RECLAIM_AGE_SECONDS pass without a poll.
GrowOld(n) ==
  /\ Printing(n) /\ jobs[n].lease = "over" /\ jobs[n].quiet
  /\ Fault
  /\ Set(Peers(n), LAMBDA job : [job EXCEPT !.lease = "old"])
  /\ UNCHANGED <<world, extra>>

Scoped(T, statuses) == {n \in Ids : jobs[n].target \in T /\ jobs[n].st \in statuses}

\* processing_print_jobs_reset
Reset(T, st) ==
  /\ Request
  /\ Scoped(T, {"printing"}) # {}
  /\ Set(Scoped(T, {"printing"}), LAMBDA job : Cleared(job, st))
  /\ Allow(IF st = "pending" THEN Scoped(T, {"printing"}) ELSE {})
  /\ UNCHANGED world

\* processing_print_jobs_clear and processing_print_jobs_recover
Delete(T, statuses) ==
  /\ Request
  /\ Scoped(T, statuses) # {}
  /\ Set(Scoped(T, statuses), LAMBDA job : Cleared(job, "deleted"))
  /\ UNCHANGED <<world, extra>>

QueueStep ==
  \/ \E l \in OrderLabels : QueueOnce(l, "scope")
  \/ Agents # {} /\ \E l \in OrderLabels : QueueOnce(l, "plain")
  \/ \E l \in OrderLabels : RecoverStale(l)
  \/ \E l \in Labels : QueueAgain(l, "desktop")
  \/ Agents # {} /\ \E l \in Labels : QueueAgain(l, "agent")
  \/ \E T \in (SUBSET Targets) \ {{}} :
       \/ \E st \in {"pending", "failed"} : Reset(T, st)
       \/ \E S \in {{"pending"}, {"failed"}, {"pending", "failed"}, {"pending", "printing", "failed"}} :
            Delete(T, S)

DesktopStep ==
  \/ \E w \in Windows :
       Reclaim(w) \/ JobsNext(w) \/ Printed(w) \/ Reload(w) \/ PrintFails(w)
  \/ \E e \in store : Acknowledge(e) \/ AcknowledgePart(e)

AgentStep == \E a \in Agents : AgentNext(a) \/ AgentPrints(a) \/ AgentFails(a)
TimeStep == \E n \in Ids : Expire(n) \/ GoQuiet(n) \/ GrowOld(n)

Next == QueueStep \/ DesktopStep \/ AgentStep \/ TimeStep

Spec == Init /\ [][Next]_vars

\* Pages poll every three seconds, a call ends, its record is sent, time passes.
FairSpec ==
  /\ Spec
  /\ \A w \in Windows :
       WF_vars(Reclaim(w)) /\ WF_vars(JobsNext(w)) /\ WF_vars(Printed(w))
  /\ WF_vars(\E e \in store : Acknowledge(e))
  /\ \A a \in Agents : WF_vars(AgentNext(a)) /\ WF_vars(AgentPrints(a))
  /\ \A n \in Ids : WF_vars(Expire(n))

-----------------------------------------------------------------------------
\* Properties.

\* Every row has the statuses, leases and counters of ProcessingPrintJob, and
\* only a printing row has a lease.
PrintTypeOK ==
  /\ jobs \in [Ids -> [st : Statuses, label : Labels \cup {""},
                       card : {"plain", "scope", "reprint"}, target : Targets,
                       tries : Nat, lease : {"none", "running", "over", "old"},
                       quiet : BOOLEAN, marked : BOOLEAN, peers : SUBSET Ids]]
  /\ \A n \in Ids : (jobs[n].lease = "none") <=> ~Printing(n)
  /\ call \in [Windows \cup Agents -> SUBSET Ids]
  /\ store \subseteq [ids : SUBSET Ids, as : {"printed", "failed"}]
  /\ paper \in [Ids -> Nat] /\ extra \in [Ids -> Nat]
  /\ dispatched \subseteq Ready
  /\ faults \in Nat /\ requests \in Nat

\* The page's own job for a label and the jobs a person asks for have different
\* keys.  Neither retries, recoveries, deletions nor polls ever leave two open jobs
\* of one key in Desktop's queue: a stale job is queued again, not doubled.  Two
\* keys do not see each other, so a label may have one open job of each.
OneOpenJobPerKey ==
  \A m, n \in Ids :
    /\ m # n /\ jobs[m].label = jobs[n].label
    /\ jobs[m].target = "desktop" /\ jobs[m].st \in Open
    /\ jobs[n].target = "desktop" /\ jobs[n].st \in Open
    => (jobs[m].card = "scope") # (jobs[n].card = "scope")

\* Desktop's reclaim is safe: a row leaves the printer a second time only if a
\* person, the recovery or the older agent queued it again, its call failed or
\* outlasted its lease, or its acknowledgement was refused or still on its way.
NoSecondCopy == \A n \in Ids : paper[n] <= 1 + extra[n]

\* A job nobody can print stops being handed out: beyond _MAX_PRINT_ATTEMPTS
\* each attempt was granted by somebody else than Desktop's reclaim.
AttemptsBounded == \A n \in Ids : jobs[n].tries <= MaxAttempts + extra[n]

\* A supply leaves with the driver only with its label on paper, no job is
\* reported printed whose label did not come out, and the supply of a job of
\* Desktop that is reported printed has left: an acknowledgement that stops
\* half-way leaves no row of it behind.
DispatchedIsOnPaper ==
  /\ \A n \in Ids : jobs[n].st = "printed" =>
       /\ paper[n] > 0
       /\ jobs[n].target = "desktop" /\ jobs[n].label \in Ready => jobs[n].label \in dispatched
  /\ \A s \in dispatched : \E n \in Ids : jobs[n].label = s /\ paper[n] > 0

Settled(n) ==
  \/ jobs[n].st \in {"none", "printed", "failed", "deleted"}
  \/ Printing(n) /\ jobs[n].lease \in {"over", "old"}
       /\ (jobs[n].tries >= MaxAttempts \/ jobs[n].lease = "old")

\* A queued label is printed, reported as failed, taken out of the queue, or
\* left to the controller with its attempts used up; it is never forgotten.
EventuallySettled == \A n \in Ids : []<>Settled(n)
================================================================================
