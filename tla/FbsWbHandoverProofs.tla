-------------------------- MODULE FbsWbHandoverProofs --------------------------
(***************************************************************************)
(* Proofs about FbsWbHandover: its types, how far doubt is followed up     *)
(* (DoubtIsPursued), that an order taken back from a wave is not in its WB *)
(* supply (TakenBackIsFree), what is delivered (ShippedAsVerified), and    *)
(* for what an order waits (PendingIsUnderWay).  All need to know when a   *)
(* readback may be open: an add of an order that is not out belongs to a   *)
(* pending assignment and is not sent while its readback runs; a delivery  *)
(* WB refused for codes names one; a delivery ends the packing.  TakenBack *)
(* also relates each row to where its order is (Fits, below), the doubt a  *)
(* return to its cancellation (Pursued, below), the delivery the batch to  *)
(* the desk (Course, below); the last is about the steps that end a        *)
(* command (Waits, below).                                                 *)
(***************************************************************************)
EXTENDS FbsWbHandover, TLAPS

Statuses == {"none", "pending", "sent", "retry", "confirmed", "failed", "conflict", "cancelled"}

Batch == [st : {"open", "ready", "problem", "dispatched"},
          mk : {"draft", "creating", "open", "delivery_pending", "complete", "error"},
          known : BOOLEAN]
Assignment == {"none", "pending", "confirmed", "error", "canceled", "moved"}
OrderState == {"picked", "ready", "exception", "handed"}
Return == [st : {"none", "waiting", "failed", "queued"},
           act : {"none", "verify", "seller"}, client : BOOLEAN,
           gap : {"none", "wave", "delivery"}]
Code == {"ok", "refused", "rejected", "dropped"}
Command == [st : Statuses, tries : Nat,
            ans : {"none", "asked", "ok", "unclear", "refused", "kiz"}]
ReadStatuses == {"none", "pending", "sent", "retry", "failed", "conflict", "cancelled"}
ReadRow == [at : {"none", "find", "presence", "member", "lookup", "absence", "done"},
            st : ReadStatuses, tries : Nat,
            ans : {"none", "nothing", "one", "several", "missing", "closed", "open", "here",
                   "away", "elsewhere", "nowhere", "refused", "conflict", "error"}]

\* An answer is held by a row on its way, or by one cancelled on its way.
Held(row) == row.ans # "none" => row.st \in {"sent", "cancelled"}

\* The kinds of readback of write w.
Kinds(w) == {"none", Readback(w)} \cup (IF w[1] = "add" THEN {"member", "lookup"} ELSE {})

\* An add that is under way, and one of which no readback is open.
Live == {"pending", "sent", "retry", "conflict"}
Idle == {"none", "pending", "sent", "retry"}

Barred(k) == \E o \in Orders : k[o] \in {"rejected", "dropped"}

\* Write w with command x and readback y, beside batch b, assignments a,
\* orders os and codes k.
RowOK(w, x, y, b, a, os, k) ==
  /\ Held(x) /\ Held(y) /\ y.at \in Kinds(w)
  /\ y.st # "none" => y.at # "none"
  /\ x.st = "cancelled" \/ y.st = "cancelled" => w[1] = "add"
  /\ x.st = "conflict" => \/ y.st \in Open \cup {"failed", "conflict"}
                          \/ w = Deliver /\ Barred(k)
                          \/ w[1] = "add" /\ os[w[2]] = "exception"
  /\ w[1] = "add" /\ os[w[2]] # "exception" =>
       /\ x.st # "cancelled"
       /\ x.st \in Live => a[w[2]] = "pending"
       /\ x.st \in Idle => y.ans = "none" /\ y.st \notin Open
  /\ w = Deliver => /\ x.ans = "kiz" => \E o \in Orders : k[o] = "refused"
                    /\ x.st # "none" => b.st # "open"

OrderOK(assignment, order) ==
  /\ assignment = "canceled" => order = "exception"
  /\ assignment = "pending" => order \in {"picked", "exception"}

TablesOK(b, a, os, k, c, r) ==
  /\ b \in Batch /\ a \in [Orders -> Assignment] /\ os \in [Orders -> OrderState]
  /\ k \in [Orders -> Code] /\ c \in [Writes -> Command] /\ r \in [Writes -> ReadRow]
  /\ \A o \in Orders : OrderOK(a[o], os[o])
  /\ \A w \in Writes : RowOK(w, c[w], r[w], b, a, os, k)

Rest ==
  /\ view \in [on : BOOLEAN, seen : SUBSET Orders]
  /\ supply \in [made : Nat, closed : BOOLEAN, gone : BOOLEAN]
  /\ place \in [Orders -> {"free", "here", "late", "elsewhere"}]
  /\ told \subseteq Orders /\ dead \subseteq Orders /\ late \subseteq Writes
  /\ trouble \in 0..MaxTrouble

Tables == TablesOK(batch, asg, ord, kiz, cmd, read) /\ ret \in [Orders -> Return]

Invariant == Tables /\ Rest

-----------------------------------------------------------------------------
\* What is known of a write's name.
LEMMA OrderWrites ==
  ASSUME NEW o \in Orders
  PROVE  /\ Add(o) \in Writes /\ Add(o)[1] = "add" /\ Add(o)[2] = o
         /\ Cancel(o) \in Writes /\ Cancel(o)[1] = "cancel" /\ Cancel(o)[2] = o
         /\ Add(o) # Deliver /\ Cancel(o) # Deliver /\ Add(o) # Create /\ Cancel(o) # Create
         /\ Readback(Add(o)) = "presence" /\ Readback(Cancel(o)) = "absence"
  BY DEF Writes, Add, Cancel, Deliver, Create, Readback

LEMMA SupplyWrites ==
  /\ Create \in Writes /\ Create[1] = "create" /\ Readback(Create) = "find"
  /\ Deliver \in Writes /\ Deliver[1] = "deliver" /\ Readback(Deliver) = "done"
  /\ Create # Deliver
  BY DEF Writes, Deliver, Create, Readback

LEMMA WriteCases ==
  ASSUME NEW w \in Writes
  PROVE  \/ w = Create \/ w = Deliver
         \/ \E o \in Orders : w = Add(o)
         \/ \E o \in Orders : w = Cancel(o)
  BY DEF Writes

LEMMA AddsAre ==
  ASSUME NEW w \in Writes
  PROVE  w[1] = "add" => w[2] \in Orders /\ w = Add(w[2])
<1>1. CASE \E o \in Orders : w = Add(o)
  BY <1>1, OrderWrites
<1>2. CASE \E o \in Orders : w = Cancel(o)
  BY <1>2, OrderWrites
<1> QED
  BY <1>1, <1>2, WriteCases, SupplyWrites

LEMMA ReadbackKinds ==
  ASSUME NEW w \in Writes
  PROVE  Readback(w) \in {"find", "presence", "absence", "done"}
<1>1. CASE \E o \in Orders : w = Add(o)
  BY <1>1, OrderWrites
<1>2. CASE \E o \in Orders : w = Cancel(o)
  BY <1>2, OrderWrites
<1> QED
  BY <1>1, <1>2, WriteCases, SupplyWrites

-----------------------------------------------------------------------------
\* What the operations write.
LEMMA SettledCommand ==
  ASSUME NEW c \in [Writes -> Command], NEW w \in Writes, NEW st \in Statuses
  PROVE  LET x == Settle(c, w, st)[w]
         IN /\ Settle(c, w, st) = [c EXCEPT ![w] = x] /\ x \in Command
            /\ x.st = st /\ x.ans = "none"
<1>1. ASSUME NEW z \in Command
      PROVE  LET x == [z EXCEPT !.st = st, !.ans = "none"]
             IN x \in Command /\ x.st = st /\ x.ans = "none"
  BY DEF Command
<1>2. c[w] \in Command
  OBVIOUS
<1>3. Settle(c, w, st)[w] = [c[w] EXCEPT !.st = st, !.ans = "none"]
  BY DEF Settle
<1>4. Settle(c, w, st) = [c EXCEPT ![w] = Settle(c, w, st)[w]]
  BY DEF Settle
<1> QED
  BY <1>1, <1>2, <1>3, <1>4

LEMMA SettledRead ==
  ASSUME NEW r \in [Writes -> ReadRow], NEW w \in Writes, NEW st \in ReadStatuses
  PROVE  LET x == Settle(r, w, st)[w]
         IN /\ Settle(r, w, st) = [r EXCEPT ![w] = x] /\ x \in ReadRow
            /\ x.st = st /\ x.ans = "none" /\ x.at = r[w].at
<1>1. ASSUME NEW z \in ReadRow
      PROVE  LET x == [z EXCEPT !.st = st, !.ans = "none"]
             IN x \in ReadRow /\ x.st = st /\ x.ans = "none" /\ x.at = z.at
  BY DEF ReadRow
<1>2. r[w] \in ReadRow
  OBVIOUS
<1>3. Settle(r, w, st)[w] = [r[w] EXCEPT !.st = st, !.ans = "none"]
  BY DEF Settle
<1>4. Settle(r, w, st) = [r EXCEPT ![w] = Settle(r, w, st)[w]]
  BY DEF Settle
<1> QED
  BY <1>1, <1>2, <1>3, <1>4

\* A table may be judged row by row.
LEMMA OneWrite ==
  ASSUME NEW b, NEW a, NEW os, NEW k, NEW c, NEW r, TablesOK(b, a, os, k, c, r),
         NEW w \in Writes, NEW x \in Command, NEW y \in ReadRow,
         RowOK(w, x, y, b, a, os, k)
  PROVE  TablesOK(b, a, os, k, [c EXCEPT ![w] = x], [r EXCEPT ![w] = y])
<1>1. c \in [Writes -> Command] /\ r \in [Writes -> ReadRow]
  BY DEF TablesOK
<1>2. \A v \in Writes : RowOK(v, c[v], r[v], b, a, os, k)
  BY DEF TablesOK
<1>3. \A v \in Writes : RowOK(v, [c EXCEPT ![w] = x][v], [r EXCEPT ![w] = y][v], b, a, os, k)
  BY <1>1, <1>2
<1> QED
  BY <1>1, <1>3 DEF TablesOK

LEMMA OneCommand ==
  ASSUME NEW b, NEW a, NEW os, NEW k, NEW c, NEW r, TablesOK(b, a, os, k, c, r),
         NEW w \in Writes, NEW x \in Command, RowOK(w, x, r[w], b, a, os, k)
  PROVE  TablesOK(b, a, os, k, [c EXCEPT ![w] = x], r)
<1>1. r \in [Writes -> ReadRow] /\ r[w] \in ReadRow
  BY DEF TablesOK
<1>2. TablesOK(b, a, os, k, [c EXCEPT ![w] = x], [r EXCEPT ![w] = r[w]])
  BY <1>1, OneWrite
<1>3. [r EXCEPT ![w] = r[w]] = r
  BY <1>1
<1> QED
  BY <1>2, <1>3

LEMMA OneRead ==
  ASSUME NEW b, NEW a, NEW os, NEW k, NEW c, NEW r, TablesOK(b, a, os, k, c, r),
         NEW w \in Writes, NEW y \in ReadRow, RowOK(w, c[w], y, b, a, os, k)
  PROVE  TablesOK(b, a, os, k, c, [r EXCEPT ![w] = y])
<1>1. c \in [Writes -> Command] /\ c[w] \in Command
  BY DEF TablesOK
<1>2. TablesOK(b, a, os, k, [c EXCEPT ![w] = c[w]], [r EXCEPT ![w] = y])
  BY <1>1, OneWrite
<1>3. [c EXCEPT ![w] = c[w]] = c
  BY <1>1
<1> QED
  BY <1>2, <1>3

\* What may change beside the commands.
LEMMA Beside ==
  ASSUME NEW b, NEW a, NEW os, NEW k, NEW c, NEW r, TablesOK(b, a, os, k, c, r),
         NEW b2 \in Batch, NEW a2 \in [Orders -> Assignment],
         NEW os2 \in [Orders -> OrderState], NEW k2 \in [Orders -> Code],
         b.st # "open" => b2.st # "open",
         Barred(k) => Barred(k2),
         c[Deliver].ans = "kiz" => \E o \in Orders : k2[o] = "refused",
         \A o \in Orders :
           /\ OrderOK(a2[o], os2[o])
           /\ os[o] = "exception" => os2[o] = "exception"
           /\ os2[o] # "exception" /\ c[Add(o)].st \in Live => a2[o] = "pending"
  PROVE  TablesOK(b2, a2, os2, k2, c, r)
<1> SUFFICES ASSUME NEW w \in Writes PROVE RowOK(w, c[w], r[w], b2, a2, os2, k2)
  BY DEF TablesOK
<1>1. RowOK(w, c[w], r[w], b, a, os, k)
  BY DEF TablesOK
<1>2. CASE w[1] = "add"
  <2>1. w[2] \in Orders /\ w = Add(w[2]) /\ w # Deliver
    BY <1>2, AddsAre, SupplyWrites
  <2> QED
    BY <1>1, <1>2, <2>1 DEF RowOK
<1>3. CASE w[1] # "add"
  BY <1>1, <1>3 DEF RowOK
<1> QED
  BY <1>2, <1>3

-----------------------------------------------------------------------------
\* The operations on commands and readbacks.
LEMMA EnqueueOK ==
  ASSUME NEW b, NEW a, NEW os, NEW k, NEW c, NEW r, TablesOK(b, a, os, k, c, r),
         NEW w \in Writes,
         w[1] = "add" => a[w[2]] = "pending",
         w = Deliver => b.st # "open"
  PROVE  TablesOK(b, a, os, k, Enqueue(c, w), r)
<1>1. c \in [Writes -> Command] /\ c[w] \in Command /\ r[w] \in ReadRow
      /\ RowOK(w, c[w], r[w], b, a, os, k)
  BY DEF TablesOK
<1>2. CASE c[w].st = "none"
  <2> DEFINE x == [c[w] EXCEPT !.st = "pending"]
  <2>1. x \in Command /\ x.st = "pending" /\ x.ans = c[w].ans
    BY <1>1 DEF Command, Statuses
  <2>2. RowOK(w, x, r[w], b, a, os, k)
    BY <1>1, <1>2, <2>1 DEF RowOK, Held, Live, Idle
  <2>3. Enqueue(c, w) = [c EXCEPT ![w] = x]
    BY <1>2 DEF Enqueue
  <2> HIDE DEF x
  <2>4. TablesOK(b, a, os, k, [c EXCEPT ![w] = x], r)
    BY <2>1, <2>2, OneCommand
  <2> QED
    BY <2>3, <2>4
<1>3. CASE c[w].st # "none"
  BY <1>3 DEF Enqueue
<1> QED
  BY <1>2, <1>3

LEMMA SchedulingOK ==
  ASSUME NEW b, NEW a, NEW os, NEW k, NEW c, NEW r, TablesOK(b, a, os, k, c, r),
         NEW S \in SUBSET {o \in Orders : a[o] = "pending"}
  PROVE  TablesOK(b, a, os, k, Scheduling(c, S), r)
<1>1. c \in [Writes -> Command]
  BY DEF TablesOK
<1>2. ASSUME NEW w \in Writes
      PROVE  Scheduling(c, S)[w] \in Command
             /\ RowOK(w, Scheduling(c, S)[w], r[w], b, a, os, k)
  <2>1. CASE \E o \in S : w = Add(o)
    <3>1. PICK o \in S : w = Add(o)
      BY <2>1
    <3>2. w[1] = "add" /\ w[2] = o /\ w # Deliver /\ a[o] = "pending"
      BY <3>1, OrderWrites
    <3>3. TablesOK(b, a, os, k, Enqueue(c, w), r)
      BY <3>2, EnqueueOK
    <3>4. Scheduling(c, S)[w] = Enqueue(c, w)[w]
      BY <2>1 DEF Scheduling
    <3> QED
      BY <3>3, <3>4 DEF TablesOK
  <2>2. CASE ~\E o \in S : w = Add(o)
    BY <2>2 DEF Scheduling, TablesOK
  <2> QED
    BY <2>1, <2>2
<1>3. Scheduling(c, S) \in [Writes -> Command]
  BY <1>2 DEF Scheduling
<1> QED
  BY <1>2, <1>3 DEF TablesOK

\* A readback is asked for: of an add only if it is not to be tried.
LEMMA AskOK ==
  ASSUME NEW b, NEW a, NEW os, NEW k, NEW c, NEW r, TablesOK(b, a, os, k, c, r),
         NEW w \in Writes, NEW at \in Kinds(w) \ {"none"},
         w[1] = "add" /\ os[w[2]] # "exception" => c[w].st \notin Idle
  PROVE  TablesOK(b, a, os, k, c, Ask(r, w, at))
<1> DEFINE y == [at |-> at, st |-> "pending", tries |-> 0, ans |-> "none"]
<1>1. c[w] \in Command /\ RowOK(w, c[w], r[w], b, a, os, k)
  BY DEF TablesOK
<1>2. y \in ReadRow
  BY ReadbackKinds DEF ReadRow, ReadStatuses, Kinds
<1>3. RowOK(w, c[w], y, b, a, os, k)
  BY <1>1 DEF RowOK, Held, Open
<1>4. Ask(r, w, at) = [r EXCEPT ![w] = y]
  BY DEF Ask
<1> HIDE DEF y
<1>5. TablesOK(b, a, os, k, c, [r EXCEPT ![w] = y])
  BY <1>2, <1>3, OneRead
<1> QED
  BY <1>4, <1>5

\* A write goes into doubt with its readback.
LEMMA DeferredOK ==
  ASSUME Tables, NEW w \in Writes, cmd[w].ans # "none"
  PROVE  TablesOK(batch, asg, ord, kiz, Settle(cmd, w, "conflict"), Ask(read, w, Readback(w)))
<1> DEFINE x == Settle(cmd, w, "conflict")[w]
           y == [at |-> Readback(w), st |-> "pending", tries |-> 0, ans |-> "none"]
<1>1. /\ cmd \in [Writes -> Command] /\ read \in [Writes -> ReadRow]
      /\ RowOK(w, cmd[w], read[w], batch, asg, ord, kiz)
  BY DEF Tables, TablesOK
<1>2. /\ Settle(cmd, w, "conflict") = [cmd EXCEPT ![w] = x] /\ x \in Command
      /\ x.st = "conflict" /\ x.ans = "none"
  BY <1>1, SettledCommand DEF Statuses
<1>3. y \in ReadRow /\ y.at \in Kinds(w) /\ y.at # "none"
  BY ReadbackKinds DEF ReadRow, ReadStatuses, Kinds
<1>4. RowOK(w, x, y, batch, asg, ord, kiz)
  BY <1>1, <1>2, <1>3 DEF RowOK, Held, Open, Live, Idle
<1>5. Ask(read, w, Readback(w)) = [read EXCEPT ![w] = y]
  BY DEF Ask
<1> HIDE DEF x, y
<1>6. TablesOK(batch, asg, ord, kiz, [cmd EXCEPT ![w] = x], [read EXCEPT ![w] = y])
  BY <1>2, <1>3, <1>4, OneWrite DEF Tables
<1> QED
  BY <1>2, <1>5, <1>6

\* A command that is settled for good, or was on its way and keeps its status.
LEMMA SettleOK ==
  ASSUME Tables, NEW w \in Writes, NEW st \in Statuses,
         cmd[w].st # "none",
         st = "failed" \/ (st = cmd[w].st /\ st # "conflict")
         \/ (w[1] = "add" /\ st = "cancelled" /\ ord[w[2]] = "exception")
  PROVE  TablesOK(batch, asg, ord, kiz, Settle(cmd, w, st), read)
<1> DEFINE x == Settle(cmd, w, st)[w]
<1>1. /\ cmd \in [Writes -> Command] /\ read \in [Writes -> ReadRow]
      /\ RowOK(w, cmd[w], read[w], batch, asg, ord, kiz)
  BY DEF Tables, TablesOK
<1>2. /\ Settle(cmd, w, st) = [cmd EXCEPT ![w] = x] /\ x \in Command
      /\ x.st = st /\ x.ans = "none"
  BY <1>1, SettledCommand
<1>3. RowOK(w, x, read[w], batch, asg, ord, kiz)
  BY <1>1, <1>2 DEF RowOK, Held, Live, Idle
<1> HIDE DEF x
<1>4. TablesOK(batch, asg, ord, kiz, [cmd EXCEPT ![w] = x], read)
  BY <1>2, <1>3, OneCommand DEF Tables
<1> QED
  BY <1>2, <1>4

LEMMA ConfirmOK ==
  ASSUME Tables, NEW w \in Writes, w = Deliver => batch.st # "open"
  PROVE  TablesOK(batch, asg, ord, kiz, Confirm(cmd, w), read)
<1> DEFINE x == [NoCommand EXCEPT !.st = "confirmed"]
<1>1. /\ cmd \in [Writes -> Command] /\ read \in [Writes -> ReadRow]
      /\ RowOK(w, cmd[w], read[w], batch, asg, ord, kiz)
  BY DEF Tables, TablesOK
<1>2. x \in Command /\ x.st = "confirmed" /\ x.ans = "none"
  BY DEF NoCommand, Command, Statuses
<1>3. RowOK(w, x, read[w], batch, asg, ord, kiz)
  BY <1>1, <1>2 DEF RowOK, Held, Live, Idle
<1> HIDE DEF x
<1>4. Confirm(cmd, w) = [cmd EXCEPT ![w] = x]
  BY DEF Confirm, x
<1>5. TablesOK(batch, asg, ord, kiz, [cmd EXCEPT ![w] = x], read)
  BY <1>2, <1>3, OneCommand DEF Tables
<1> QED
  BY <1>4, <1>5

\* What a readback may do to its write.
LEMMA VerdictRow ==
  ASSUME Tables, NEW w \in Writes, NEW c \in {Confirmed(w), Retried(w), Failed(w)}
  PROVE  /\ c = [cmd EXCEPT ![w] = c[w]] /\ c[w] \in Command
         /\ \/ ~InDoubt(w) /\ c[w] = cmd[w]
            \/ InDoubt(w) /\ c[w].st \in {"confirmed", "retry", "failed"} /\ c[w].ans = "none"
<1>1. cmd \in [Writes -> Command] /\ cmd[w] \in Command
  BY DEF Tables, TablesOK
<1>2. CASE ~InDoubt(w)
  BY <1>1, <1>2 DEF Confirmed, Retried, Failed
<1>3. CASE InDoubt(w) /\ c = Confirmed(w)
  <2> DEFINE x == [NoCommand EXCEPT !.st = "confirmed"]
  <2>1. c = [cmd EXCEPT ![w] = x]
    BY <1>3 DEF Confirmed, Confirm
  <2>2. x \in Command /\ x.st = "confirmed" /\ x.ans = "none"
    BY DEF NoCommand, Command, Statuses
  <2>3. c[w] = x
    BY <1>1, <2>1
  <2> QED
    BY <1>1, <1>3, <2>1, <2>2, <2>3
<1>4. ASSUME NEW st \in {"retry", "failed"}, InDoubt(w), c = Settle(cmd, w, st)
      PROVE  /\ c = [cmd EXCEPT ![w] = c[w]] /\ c[w] \in Command
             /\ c[w].st = st /\ c[w].ans = "none"
  BY <1>1, <1>4, SettledCommand DEF Statuses
<1>5. CASE InDoubt(w) /\ c = Retried(w)
  <2>1. PICK st \in {"retry", "failed"} : c = Settle(cmd, w, st)
    BY <1>5 DEF Retried, RetryOrFailed
  <2> QED
    BY <1>4, <1>5, <2>1
<1>6. CASE InDoubt(w) /\ c = Failed(w)
  BY <1>4, <1>6 DEF Failed
<1> QED
  BY <1>2, <1>3, <1>5, <1>6

\* A readback that is answered settles its write.
LEMMA VerdictOK ==
  ASSUME Tables, NEW w \in Writes, read[w].ans # "none",
         NEW c \in {Confirmed(w), Retried(w), Failed(w)}
  PROVE  TablesOK(batch, asg, ord, kiz, c, Done(w))
<1>1. /\ cmd \in [Writes -> Command] /\ read \in [Writes -> ReadRow]
      /\ RowOK(w, cmd[w], read[w], batch, asg, ord, kiz)
  BY DEF Tables, TablesOK
<1>2. NoRead \in ReadRow
  BY DEF NoRead, ReadRow, ReadStatuses
<1>3. c = [cmd EXCEPT ![w] = c[w]] /\ c[w] \in Command
  BY VerdictRow
<1>4. \/ ~InDoubt(w) /\ c[w] = cmd[w]
      \/ InDoubt(w) /\ c[w].st \in {"confirmed", "retry", "failed"} /\ c[w].ans = "none"
  BY VerdictRow
<1>5. RowOK(w, c[w], NoRead, batch, asg, ord, kiz)
  BY <1>1, <1>4 DEF RowOK, Held, Open, Live, Idle, NoRead, Kinds, InDoubt
<1> QED
  BY <1>2, <1>3, <1>5, OneWrite DEF Tables, Done

-----------------------------------------------------------------------------
\* What a transaction commits.
LEMMA TakenOutOK ==
  ASSUME NEW act \in {"none", "verify", "seller"}, NEW client \in BOOLEAN
  PROVE  TakenOut(act, client) \in Return /\ TakenOut(act, client).st = "waiting"
<1>1. Gap \in {"none", "delivery"}
  BY DEF Gap
<1> QED
  BY <1>1 DEF TakenOut, Return

LEMMA CommitOK ==
  ASSUME NEW b, NEW a, NEW c, NEW r, NEW conclusive,
         TablesOK(b, a, ord, kiz', c, r), ret \in [Orders -> Return],
         Commit(b, a, c, r, conclusive)
  PROVE  Tables'
<1> DEFINE lost == {o \in Orders : /\ c[Add(o)].st = "failed" /\ cmd[Add(o)].st # "failed"
                                   /\ a[o] # "moved"}
<1>1. /\ b \in Batch /\ a \in [Orders -> Assignment] /\ ord \in [Orders -> OrderState]
      /\ kiz' \in [Orders -> Code] /\ c \in [Writes -> Command] /\ r \in [Writes -> ReadRow]
      /\ \A o \in Orders : OrderOK(a[o], ord[o])
      /\ \A w \in Writes : RowOK(w, c[w], r[w], b, a, ord, kiz')
  BY DEF TablesOK
<1>2. PICK back \in SUBSET Orders :
        /\ cmd' = c
        /\ asg' = [o \in Orders |-> IF o \in lost THEN "error" ELSE a[o]]
        /\ ord' = [o \in Orders |-> IF o \in back THEN "exception" ELSE ord[o]]
        /\ ret' \in [Orders -> Return]
        /\ read' = [w \in Writes |->
             IF w \in {Cancel(o) : o \in back} THEN Ask(r, w, "absence")[w] ELSE r[w]]
        /\ batch' = b \/ batch' = [b EXCEPT !.mk = "error"]
  <2> DEFINE New(old, new, w) == new[w].st = "failed" /\ old[w].st # "failed"
             stuck == {o \in Orders : New(cmd, c, Cancel(o)) \/ New(read, r, Cancel(o))}
  <2>1. PICK back \in SUBSET Orders :
          /\ cmd' = c
          /\ asg' = [o \in Orders |-> IF o \in lost THEN "error" ELSE a[o]]
          /\ ord' = [o \in Orders |-> IF o \in back THEN "exception" ELSE ord[o]]
          /\ ret' = [o \in Orders |->
               CASE o \in back -> TakenOut("verify", FALSE)
                 [] o \in stuck /\ ret[o].st = "waiting" -> [ret[o] EXCEPT !.st = "failed"]
                 [] OTHER -> ret[o]]
          /\ read' = [w \in Writes |->
               IF w \in {Cancel(o) : o \in back} THEN Ask(r, w, "absence")[w] ELSE r[w]]
          /\ batch' = b \/ batch' = [b EXCEPT !.mk = "error"]
    BY DEF Commit
  <2>2. ret' \in [Orders -> Return]
    <3>1. ASSUME NEW x \in Return PROVE [x EXCEPT !.st = "failed"] \in Return
      BY DEF Return
    <3>2. TakenOut("verify", FALSE) \in Return
      BY TakenOutOK
    <3> HIDE DEF stuck
    <3>3. ASSUME NEW o \in Orders
          PROVE  (CASE o \in back -> TakenOut("verify", FALSE)
                    [] o \in stuck /\ ret[o].st = "waiting" -> [ret[o] EXCEPT !.st = "failed"]
                    [] OTHER -> ret[o]) \in Return
      BY <3>1, <3>2
    <3> QED
      BY <2>1, <3>3
  <2> QED
    BY <2>1, <2>2
<1>3. TablesOK(batch', asg', ord', kiz', c, r)
  <2>1. batch' \in Batch /\ batch'.st = b.st
    BY <1>1, <1>2 DEF Batch
  <2>2. asg' \in [Orders -> Assignment] /\ ord' \in [Orders -> OrderState]
    BY <1>1, <1>2 DEF Assignment, OrderState
  <2>3. ASSUME NEW o \in Orders
        PROVE  /\ OrderOK(asg'[o], ord'[o])
               /\ ord[o] = "exception" => ord'[o] = "exception"
               /\ ord'[o] # "exception" /\ c[Add(o)].st \in Live => asg'[o] = "pending"
    <3>1. RowOK(Add(o), c[Add(o)], r[Add(o)], b, a, ord, kiz') /\ OrderOK(a[o], ord[o])
      BY <1>1, OrderWrites
    <3>2. ord[o] # "exception" /\ c[Add(o)].st \in Live => a[o] = "pending" /\ o \notin lost
      BY <3>1, OrderWrites DEF RowOK, Live
    <3> QED
      BY <1>2, <3>1, <3>2 DEF OrderOK
  <2>4. c[Deliver].ans = "kiz" => \E o \in Orders : kiz'[o] = "refused"
    BY <1>1, SupplyWrites DEF RowOK
  <2>5. batch' \in Batch /\ (b.st # "open" => batch'.st # "open")
    BY <2>1
  <2>6. \A o \in Orders :
          /\ OrderOK(asg'[o], ord'[o])
          /\ ord[o] = "exception" => ord'[o] = "exception"
          /\ ord'[o] # "exception" /\ c[Add(o)].st \in Live => asg'[o] = "pending"
    BY <2>3
  <2> QED
    BY <1>1, <2>2, <2>4, <2>5, <2>6, Beside
<1>4. ASSUME NEW w \in Writes
      PROVE  read'[w] \in ReadRow /\ RowOK(w, c[w], read'[w], batch', asg', ord', kiz')
  <2>1. CASE \E o \in back : w = Cancel(o)
    <3>1. w[1] = "cancel" /\ w # Deliver /\ "absence" \in Kinds(w) \ {"none"}
      BY <2>1, OrderWrites DEF Kinds
    <3>2. TablesOK(batch', asg', ord', kiz', c, Ask(r, w, "absence"))
      BY <1>3, <3>1, AskOK
    <3>3. read'[w] = Ask(r, w, "absence")[w]
      BY <1>2, <2>1
    <3> QED
      BY <3>2, <3>3 DEF TablesOK
  <2>2. CASE ~\E o \in back : w = Cancel(o)
    <3>1. read'[w] = r[w]
      BY <1>2, <2>2
    <3> QED
      BY <1>3, <3>1 DEF TablesOK
  <2> QED
    BY <2>1, <2>2
<1>5. read' \in [Writes -> ReadRow]
  BY <1>2, <1>4
<1> QED
  BY <1>2, <1>3, <1>4, <1>5 DEF Tables, TablesOK

\* The tables, conjunct by conjunct.
LEMMA Known1 ==
  ASSUME Tables
  PROVE  /\ batch \in Batch /\ asg \in [Orders -> Assignment] /\ ord \in [Orders -> OrderState]
         /\ kiz \in [Orders -> Code] /\ cmd \in [Writes -> Command] /\ read \in [Writes -> ReadRow]
         /\ ret \in [Orders -> Return]
         /\ \A o \in Orders : OrderOK(asg[o], ord[o])
         /\ \A w \in Writes : RowOK(w, cmd[w], read[w], batch, asg, ord, kiz)
         /\ \A o \in Orders : Excluded(o) => ord[o] = "exception"
         /\ \A o \in Orders : RowOK(Add(o), cmd[Add(o)], read[Add(o)], batch, asg, ord, kiz)
         /\ RowOK(Deliver, cmd[Deliver], read[Deliver], batch, asg, ord, kiz)
         /\ cmd[Deliver].ans = "kiz" => \E o \in Orders : kiz[o] = "refused"
  BY OrderWrites, SupplyWrites DEF Tables, TablesOK, Excluded, OrderOK, RowOK

LEMMA LiveAdds ==
  ASSUME Tables
  PROVE  \A o \in Orders :
           /\ OrderOK(asg[o], ord[o])
           /\ ord[o] # "exception" /\ cmd[Add(o)].st \in Live => asg[o] = "pending"
<1> SUFFICES ASSUME NEW o \in Orders
             PROVE  /\ OrderOK(asg[o], ord[o])
                    /\ ord[o] # "exception" /\ cmd[Add(o)].st \in Live => asg[o] = "pending"
  OBVIOUS
<1>1. RowOK(Add(o), cmd[Add(o)], read[Add(o)], batch, asg, ord, kiz) /\ OrderOK(asg[o], ord[o])
  BY Known1
<1> QED
  BY <1>1, OrderWrites DEF RowOK

-----------------------------------------------------------------------------
\* The steps that schedule and send commands.
LEMMA ScheduledOK ==
  ASSUME NEW a, TablesOK(batch, a, ord, kiz, cmd, read),
         NEW o \in Orders, a[o] = "pending", Scheduled(o)
  PROVE  TablesOK(batch', a, ord, kiz, cmd', read)
<1>1. CASE batch.known
  <2>1. cmd' = Enqueue(cmd, Add(o)) /\ batch' = batch
    BY <1>1 DEF Scheduled
  <2>2. TablesOK(batch, a, ord, kiz, Enqueue(cmd, Add(o)), read)
    BY OrderWrites, EnqueueOK
  <2> QED
    BY <2>1, <2>2
<1>2. CASE ~batch.known
  <2>1. cmd' = Enqueue(cmd, Create) /\ batch' = [batch EXCEPT !.mk = "creating"]
    BY <1>2 DEF Scheduled
  <2>2. TablesOK(batch, a, ord, kiz, cmd', read)
    BY <2>1, SupplyWrites, EnqueueOK
  <2>3. batch' \in Batch /\ (batch.st # "open" => batch'.st # "open")
    BY <2>1, <2>2 DEF TablesOK, Batch
  <2>4. \A p \in Orders :
          /\ OrderOK(a[p], ord[p])
          /\ ord[p] # "exception" /\ cmd'[Add(p)].st \in Live => a[p] = "pending"
    BY <2>2, OrderWrites DEF TablesOK, RowOK
  <2>5. /\ a \in [Orders -> Assignment] /\ ord \in [Orders -> OrderState]
        /\ kiz \in [Orders -> Code]
        /\ cmd'[Deliver].ans = "kiz" => \E p \in Orders : kiz[p] = "refused"
    BY <2>2, SupplyWrites DEF TablesOK, RowOK
  <2> QED
    BY <2>2, <2>3, <2>4, <2>5, Beside
<1> QED
  BY <1>1, <1>2

\* What may change beside the commands, in a step that leaves them alone.
LEMMA BesideStep ==
  ASSUME Tables, NEW b2 \in Batch, NEW a2 \in [Orders -> Assignment],
         NEW os2 \in [Orders -> OrderState], NEW k2 \in [Orders -> Code],
         batch.st # "open" => b2.st # "open",
         Barred(kiz) => Barred(k2),
         cmd[Deliver].ans = "kiz" => \E o \in Orders : k2[o] = "refused",
         \A o \in Orders :
           /\ OrderOK(a2[o], os2[o])
           /\ ord[o] = "exception" => os2[o] = "exception"
           /\ os2[o] # "exception" /\ cmd[Add(o)].st \in Live => a2[o] = "pending"
  PROVE  TablesOK(b2, a2, os2, k2, cmd, read)
  BY Beside DEF Tables

LEMMA AssignOK ==
  ASSUME Tables, NEW o \in Orders, Assign(o)
  PROVE  Tables'
<1>1. /\ asg' = [asg EXCEPT ![o] = "pending"] /\ ord[o] = "picked"
      /\ UNCHANGED <<ord, ret, kiz, read>> /\ Scheduled(o)
  BY DEF Assign, people
<1>2. asg' \in [Orders -> Assignment] /\ asg'[o] = "pending"
  BY <1>1, Known1 DEF Assignment
<1>3. \A p \in Orders :
        /\ OrderOK(asg'[p], ord[p])
        /\ ord[p] # "exception" /\ cmd[Add(p)].st \in Live => asg'[p] = "pending"
  BY <1>1, Known1, OrderWrites DEF OrderOK, RowOK
<1>4. TablesOK(batch, asg', ord, kiz, cmd, read)
  BY <1>2, <1>3, Known1, BesideStep
<1>5. TablesOK(batch', asg', ord, kiz, cmd', read)
  BY <1>1, <1>2, <1>4, ScheduledOK
<1> QED
  BY <1>1, <1>5, Known1 DEF Tables

LEMMA ScheduleOK ==
  ASSUME Tables, NEW o \in Orders, Schedule(o)
  PROVE  Tables'
<1>1. /\ asg[o] = "pending" /\ Scheduled(o)
      /\ UNCHANGED <<asg, ord, ret, kiz, read>>
  BY DEF Schedule, people
<1>2. TablesOK(batch', asg, ord, kiz, cmd', read)
  BY <1>1, ScheduledOK DEF Tables
<1> QED
  BY <1>1, <1>2, Known1 DEF Tables

LEMMA ClaimOK ==
  ASSUME Tables, NEW w \in Writes, Claim(w)
  PROVE  Tables'
<1>1. cmd[w].st \in Active /\ cmd[w].st \in Statuses /\ kiz' = kiz
      /\ RowOK(w, cmd[w], read[w], batch, asg, ord, kiz)
  BY Known1 DEF Claim, Command
<1>2. CASE w[1] = "add" /\ Excluded(w[2])
  <2>1. PICK o \in Orders : w = Add(o) /\ w[2] = o /\ ord[o] = "exception"
    BY <1>2, AddsAre, Known1
  <2>2. /\ cmd' = Settle(cmd, w, "cancelled") /\ UNCHANGED <<batch, ord, ret, read>>
        /\ asg' = [asg EXCEPT ![o] = IF @ \in {"pending", "error"} THEN "canceled" ELSE @]
    BY <1>2, <2>1 DEF Claim
  <2>3. TablesOK(batch, asg, ord, kiz, cmd', read)
    BY <1>1, <1>2, <2>1, <2>2, SettleOK DEF Statuses, Active
  <2>4. asg' \in [Orders -> Assignment]
    BY <2>2, Known1 DEF Assignment
  <2>5. \A p \in Orders :
          /\ OrderOK(asg'[p], ord[p])
          /\ ord[p] # "exception" /\ cmd'[Add(p)].st \in Live => asg'[p] = "pending"
    BY <2>1, <2>2, <2>3, Known1, OrderWrites DEF OrderOK, RowOK, TablesOK
  <2>6. cmd'[Deliver].ans = "kiz" => \E p \in Orders : kiz[p] = "refused"
    BY <2>3, SupplyWrites DEF TablesOK, RowOK
  <2>7. TablesOK(batch, asg', ord, kiz, cmd', read)
    BY <2>3, <2>4, <2>5, <2>6, Known1, Beside
  <2> QED
    BY <1>1, <2>2, <2>7, Known1 DEF Tables
<1>3. CASE ~(w[1] = "add" /\ Excluded(w[2])) /\ w[1] = "add" /\ w[2] \in told
  <2>1. Commit(batch, asg, Settle(cmd, w, "failed"), read, TRUE)
    BY <1>3 DEF Claim
  <2>2. TablesOK(batch, asg, ord, kiz, Settle(cmd, w, "failed"), read)
    BY <1>1, SettleOK DEF Statuses, Active
  <2> QED
    BY <1>1, <2>1, <2>2, Known1, CommitOK
<1>4. CASE ~(w[1] = "add" /\ Excluded(w[2])) /\ ~(w[1] = "add" /\ w[2] \in told)
  <2> DEFINE x == [st |-> "sent", tries |-> cmd[w].tries + 1, ans |-> "asked"]
  <2>1. cmd' = [cmd EXCEPT ![w] = x] /\ UNCHANGED <<batch, asg, ord, ret, read>>
    BY <1>4 DEF Claim
  <2>2. x \in Command
    BY Known1 DEF Command, Statuses
  <2>3. RowOK(w, x, read[w], batch, asg, ord, kiz)
    BY <1>1 DEF RowOK, Held, Active, Live, Idle
  <2> HIDE DEF x
  <2>4. TablesOK(batch, asg, ord, kiz, [cmd EXCEPT ![w] = x], read)
    BY <2>2, <2>3, OneCommand DEF Tables
  <2> QED
    BY <1>1, <2>1, <2>4, Known1 DEF Tables
<1> QED
  BY <1>2, <1>3, <1>4

\* WB's answer is noted with the command that waits for it.
LEMMA AnsweredOK ==
  ASSUME Tables, NEW w \in Writes, cmd[w].ans = "asked",
         NEW k2 \in [Orders -> Code],
         NEW ans \in {"ok", "unclear", "refused", "kiz"},
         Barred(kiz) => Barred(k2),
         ans = "kiz" \/ cmd[Deliver].ans = "kiz" => \E o \in Orders : k2[o] = "refused"
  PROVE  TablesOK(batch, asg, ord, k2, [cmd EXCEPT ![w].ans = ans], read)
<1> DEFINE x == [cmd[w] EXCEPT !.ans = ans]
<1>1. TablesOK(batch, asg, ord, k2, cmd, read)
  BY LiveAdds, Known1, BesideStep
<1>2. x \in Command /\ x.st = cmd[w].st /\ x.ans = ans
  BY Known1 DEF Command
<1>3. RowOK(w, x, read[w], batch, asg, ord, k2)
  BY <1>1, <1>2 DEF TablesOK, RowOK, Held
<1>4. [cmd EXCEPT ![w].ans = ans] = [cmd EXCEPT ![w] = x]
  OBVIOUS
<1> HIDE DEF x
<1>5. TablesOK(batch, asg, ord, k2, [cmd EXCEPT ![w] = x], read)
  BY <1>1, <1>2, <1>3, OneCommand
<1> QED
  BY <1>4, <1>5

LEMMA LandOK ==
  ASSUME Tables, NEW w \in Writes, Land(w)
  PROVE  Tables'
<1>1. /\ cmd[w].ans = "asked" /\ w \in Writes
      /\ UNCHANGED <<batch, asg, ord, ret, read>>
  BY DEF Land
<1>2. PICK ans \in {"ok", "unclear", "refused", "kiz"} :
        /\ cmd' = [cmd EXCEPT ![w].ans = ans]
        /\ \/ kiz' = kiz /\ ans # "kiz"
           \/ \E bad \in (SUBSET {o \in Orders : kiz[o] = "ok"}) \ {{}} :
                /\ ans = "kiz"
                /\ kiz' = [o \in Orders |-> IF o \in bad THEN "refused" ELSE kiz[o]]
  <2>1. CASE Carriable(w) /\ cmd' = [cmd EXCEPT ![w].ans = "ok"] /\ UNCHANGED kiz
    BY <2>1
  <2>2. CASE /\ \E a \in IF Carriable(w) THEN {"unclear"} ELSE Refusals(w) :
                  cmd' = [cmd EXCEPT ![w].ans = a]
             /\ ~Carriable(w) \/ (w[1] = "add" /\ place[w[2]] = "elsewhere")
             /\ UNCHANGED kiz
    <3>1. ~Carriable(w) => Refusals(w) \subseteq {"ok", "unclear", "refused"}
      <4>1. CASE \E o \in Orders : w = Add(o)
        BY <4>1, OrderWrites DEF Refusals
      <4>2. CASE \E o \in Orders : w = Cancel(o)
        BY <4>2, OrderWrites DEF Refusals
      <4>3. CASE w = Deliver
        BY <4>3, SupplyWrites DEF Refusals
      <4>4. CASE w = Create
        BY <4>4, SupplyWrites DEF Carriable
      <4> QED
        BY <4>1, <4>2, <4>3, <4>4, WriteCases
    <3> QED
      BY <2>2, <3>1
  <2>3. CASE \E bad \in (SUBSET {o \in Orders : Here(o) /\ o \notin dead /\ kiz[o] = "ok"}) \ {{}} :
               /\ kiz' = [o \in Orders |-> IF o \in bad THEN "refused" ELSE kiz[o]]
               /\ cmd' = [cmd EXCEPT ![w].ans = "kiz"]
    BY <2>3
  <2> QED
    BY <2>1, <2>2, <2>3 DEF Land
<1>3. kiz' \in [Orders -> Code]
  BY <1>2, Known1 DEF Code
<1>4. Barred(kiz) => Barred(kiz')
  BY <1>2, Known1 DEF Barred
<1>5. ans = "kiz" \/ cmd[Deliver].ans = "kiz" => \E o \in Orders : kiz'[o] = "refused"
  <2>1. CASE kiz' = kiz /\ ans # "kiz"
    BY <2>1, Known1
  <2>2. CASE kiz' # kiz \/ ans = "kiz"
    <3>1. PICK bad \in (SUBSET {o \in Orders : kiz[o] = "ok"}) \ {{}} :
            kiz' = [o \in Orders |-> IF o \in bad THEN "refused" ELSE kiz[o]]
      BY <1>2, <2>2
    <3>2. \E o \in Orders : o \in bad
      BY <3>1
    <3>3. PICK o \in Orders : o \in bad
      BY <3>2
    <3> QED
      BY <3>1, <3>3
  <2> QED
    BY <2>1, <2>2
<1>6. TablesOK(batch, asg, ord, kiz', cmd', read)
  BY <1>1, <1>2, <1>3, <1>4, <1>5, AnsweredOK
<1> QED
  BY <1>1, <1>6, Known1 DEF Tables

LEMMA LoseOK ==
  ASSUME Tables, NEW w \in Writes, Lose(w)
  PROVE  Tables'
<1>1. /\ cmd[w].ans = "asked" /\ UNCHANGED <<batch, asg, ord, ret, kiz, read>>
      /\ \E a \in {"ok", "unclear"} : cmd' = [cmd EXCEPT ![w].ans = a]
  BY DEF Lose, people
<1>2. TablesOK(batch, asg, ord, kiz, cmd', read)
  <2>1. PICK a \in {"ok", "unclear"} : cmd' = [cmd EXCEPT ![w].ans = a]
    BY <1>1
  <2>2. /\ kiz \in [Orders -> Code] /\ a \in {"ok", "unclear", "refused", "kiz"} /\ a # "kiz"
        /\ cmd[Deliver].ans = "kiz" => \E o \in Orders : kiz[o] = "refused"
    BY <2>1, Known1
  <2>3. TablesOK(batch, asg, ord, kiz, [cmd EXCEPT ![w].ans = a], read)
    BY <1>1, <2>2, AnsweredOK
  <2> QED
    BY <2>1, <2>3
<1> QED
  BY <1>1, <1>2, Known1 DEF Tables

\* A read is sent and answered.
LEMMA AskWbOK ==
  ASSUME Tables, NEW w \in Writes, AskWb(w)
  PROVE  Tables'
<1>1. PICK a \in Answers(w) \cup {"error", "conflict"} :
        /\ read[w].st \in Active
        /\ read' = [read EXCEPT ![w] = [at |-> read[w].at, st |-> "sent",
                                        tries |-> read[w].tries + 1, ans |-> a]]
        /\ UNCHANGED <<batch, asg, ord, ret, kiz, cmd>>
  BY DEF AskWb, people
<1> DEFINE y == [at |-> read[w].at, st |-> "sent", tries |-> read[w].tries + 1, ans |-> a]
<1>2. read[w] \in ReadRow /\ RowOK(w, cmd[w], read[w], batch, asg, ord, kiz)
  BY Known1
<1>3. a \in {"nothing", "one", "several", "missing", "closed", "open", "here",
             "away", "elsewhere", "nowhere", "refused", "conflict", "error"}
  <2>1. CASE read[w].at = "find"
    BY <2>1 DEF Answers
  <2>2. CASE read[w].at = "lookup"
    BY <2>2 DEF Answers
  <2>3. CASE read[w].at \notin {"find", "lookup"} /\ a \notin {"error", "conflict"}
    <3>1. a \in SupplyAnswers(read[w].at, w[2])
      BY <2>3 DEF Answers
    <3>2. read[w].at \in {"presence", "member", "absence", "done"}
      BY <1>1, <1>2, <2>3 DEF ReadRow, RowOK, Active
    <3> QED
      BY <3>1, <3>2 DEF SupplyAnswers
  <2> QED
    BY <2>1, <2>2, <2>3
<1>4. y \in ReadRow
  BY <1>2, <1>3 DEF ReadRow, ReadStatuses
<1>5. RowOK(w, cmd[w], y, batch, asg, ord, kiz)
  BY <1>1, <1>2 DEF RowOK, Held, Open, Active
<1> HIDE DEF y
<1>6. TablesOK(batch, asg, ord, kiz, cmd, [read EXCEPT ![w] = y])
  BY <1>4, <1>5, OneRead DEF Tables
<1> QED
  BY <1>1, <1>6, Known1 DEF Tables, y

-----------------------------------------------------------------------------
\* The answers to writes.
LEMMA DoubtOK ==
  ASSUME Tables, NEW w \in Writes, cmd[w].ans # "none", Deferred(w), kiz' = kiz
  PROVE  Tables'
<1>1. TablesOK(batch, asg, ord, kiz', Settle(cmd, w, "conflict"), Ask(read, w, Readback(w)))
  BY DeferredOK
<1> QED
  BY <1>1, Known1, CommitOK DEF Deferred

\* What well formed tables say of the orders.
LEMMA RowsSay ==
  ASSUME NEW b, NEW a, NEW os, NEW k, NEW c, NEW r, TablesOK(b, a, os, k, c, r)
  PROVE  /\ a \in [Orders -> Assignment] /\ os \in [Orders -> OrderState] /\ k \in [Orders -> Code]
         /\ \A o \in Orders :
              /\ OrderOK(a[o], os[o])
              /\ os[o] # "exception" /\ c[Add(o)].st \in Live => a[o] = "pending"
         /\ c[Deliver].ans = "kiz" => \E o \in Orders : k[o] = "refused"
<1>1. /\ \A w \in Writes : RowOK(w, c[w], r[w], b, a, os, k)
      /\ \A o \in Orders : OrderOK(a[o], os[o])
  BY DEF TablesOK
<1>2. ASSUME NEW o \in Orders, os[o] # "exception", c[Add(o)].st \in Live
      PROVE  a[o] = "pending"
  <2>1. PICK w \in Writes : w = Add(o) /\ w[1] = "add" /\ w[2] = o
    BY OrderWrites
  <2>2. RowOK(w, c[w], r[w], b, a, os, k)
    BY <1>1
  <2> QED
    BY <1>2, <2>1, <2>2 DEF RowOK
<1>3. ASSUME c[Deliver].ans = "kiz"  PROVE \E o \in Orders : k[o] = "refused"
  <2>1. RowOK(Deliver, c[Deliver], r[Deliver], b, a, os, k)
    BY <1>1, SupplyWrites
  <2> QED
    BY <1>3, <2>1 DEF RowOK
<1>4. a \in [Orders -> Assignment] /\ os \in [Orders -> OrderState] /\ k \in [Orders -> Code]
  BY DEF TablesOK
<1> QED
  BY <1>1, <1>2, <1>3, <1>4

\* The batch learns something; it stays closed.
LEMMA BatchOK ==
  ASSUME NEW b, NEW a, NEW os, NEW k, NEW c, NEW r, TablesOK(b, a, os, k, c, r),
         NEW b2 \in Batch, b.st # "open" => b2.st # "open"
  PROVE  TablesOK(b2, a, os, k, c, r)
<1>1. /\ a \in [Orders -> Assignment] /\ os \in [Orders -> OrderState] /\ k \in [Orders -> Code]
      /\ \A o \in Orders :
           /\ OrderOK(a[o], os[o])
           /\ os[o] # "exception" /\ c[Add(o)].st \in Live => a[o] = "pending"
      /\ c[Deliver].ans = "kiz" => \E o \in Orders : k[o] = "refused"
  BY RowsSay
<1> QED
  BY <1>1, Beside

\* The supply is made: the orders waiting for it are scheduled.
LEMMA MadeOK ==
  ASSUME NEW c, NEW r, TablesOK(batch, asg, ord, kiz, c, r), ret \in [Orders -> Return],
         Commit(Known, asg, Scheduling(c, OrdersAdded), r, FALSE), kiz' = kiz
  PROVE  Tables'
<1>1. Known \in Batch /\ Known.st = batch.st
  BY DEF Known, TablesOK, Batch
<1>2. OrdersAdded \in SUBSET {o \in Orders : asg[o] = "pending"}
  BY DEF OrdersAdded
<1>3. TablesOK(batch, asg, ord, kiz, Scheduling(c, OrdersAdded), r)
  BY <1>2, SchedulingOK
<1>4. TablesOK(Known, asg, ord, kiz', Scheduling(c, OrdersAdded), r)
  BY <1>1, <1>3, BatchOK
<1> QED
  BY <1>4, CommitOK

\* The supply is delivered, and its orders perhaps handed over.
LEMMA DeliveredOK ==
  ASSUME NEW c, NEW r, TablesOK(batch, asg, ord, kiz, c, r), ret \in [Orders -> Return],
         Delivered(c, r), kiz' = kiz
  PROVE  Tables'
<1>1. /\ cmd' = c /\ read' = r /\ UNCHANGED <<asg, ret>>
      /\ \/ ord' = HandedOver /\ batch' = [batch EXCEPT !.mk = "complete", !.st = "dispatched"]
         \/ ord' = ord /\ batch' = [batch EXCEPT !.mk = "complete"]
  BY DEF Delivered
<1>2. batch' \in Batch /\ (batch.st # "open" => batch'.st # "open")
  BY <1>1 DEF TablesOK, Batch
<1>3. ord' \in [Orders -> OrderState]
  BY <1>1 DEF TablesOK, HandedOver, OrderState
<1>4. /\ asg \in [Orders -> Assignment] /\ kiz \in [Orders -> Code]
      /\ \A o \in Orders :
           /\ OrderOK(asg[o], ord'[o])
           /\ ord[o] = "exception" => ord'[o] = "exception"
           /\ ord'[o] # "exception" /\ c[Add(o)].st \in Live => asg[o] = "pending"
      /\ c[Deliver].ans = "kiz" => \E o \in Orders : kiz[o] = "refused"
  <2>1. /\ asg \in [Orders -> Assignment] /\ ord \in [Orders -> OrderState]
        /\ kiz \in [Orders -> Code]
        /\ \A o \in Orders :
             /\ OrderOK(asg[o], ord[o])
             /\ ord[o] # "exception" /\ c[Add(o)].st \in Live => asg[o] = "pending"
        /\ c[Deliver].ans = "kiz" => \E o \in Orders : kiz[o] = "refused"
    BY RowsSay
  <2>2. \A o \in Orders : ord'[o] = ord[o] \/ (ord[o] = "ready" /\ ord'[o] = "handed")
    <3>1. CASE ord' = HandedOver
      BY <3>1 DEF HandedOver
    <3>2. CASE ord' = ord
      BY <3>2
    <3> QED
      BY <1>1, <3>1, <3>2
  <2>3. ASSUME NEW o \in Orders
        PROVE  /\ OrderOK(asg[o], ord'[o])
               /\ ord[o] = "exception" => ord'[o] = "exception"
               /\ ord'[o] # "exception" => ord[o] # "exception"
    BY <2>1, <2>2 DEF OrderOK
  <2> QED
    BY <2>1, <2>3
<1>5. TablesOK(batch', asg, ord', kiz, c, r)
  BY <1>2, <1>3, <1>4, Beside
<1> QED
  BY <1>1, <1>5 DEF Tables

LEMMA AcceptedOK ==
  ASSUME Tables, NEW w \in Writes, Accepted(w)
  PROVE  Tables'
<1>1. cmd[w].ans = "ok" /\ kiz' = kiz
  BY DEF Accepted
<1>2. /\ RowOK(w, cmd[w], read[w], batch, asg, ord, kiz) /\ cmd[w] \in Command
      /\ ret \in [Orders -> Return]
  BY Known1
<1>3. CASE w = Create
  <2>1. Commit(Known, asg, Scheduling(Confirm(cmd, w), OrdersAdded), read, FALSE)
    BY <1>3, SupplyWrites DEF Accepted
  <2>2. TablesOK(batch, asg, ord, kiz, Confirm(cmd, w), read)
    BY <1>3, SupplyWrites, ConfirmOK
  <2> QED
    BY <1>1, <1>2, <2>1, <2>2, MadeOK
<1>4. CASE w = Deliver
  <2>1. Delivered(Confirm(cmd, w), read)
    BY <1>4, SupplyWrites DEF Accepted
  <2>2. batch.st # "open"
    BY <1>1, <1>2, <1>4 DEF RowOK, Held
  <2>3. TablesOK(batch, asg, ord, kiz, Confirm(cmd, w), read)
    BY <2>2, ConfirmOK
  <2> QED
    BY <1>1, <1>2, <2>1, <2>3, DeliveredOK
<1>5. CASE w[1] \in {"add", "cancel"}
  <2>1. IF cmd[w].st = "sent" THEN Deferred(w)
        ELSE Commit(batch, asg, Settle(cmd, w, cmd[w].st), read, FALSE)
    BY <1>5, SupplyWrites DEF Accepted
  <2>2. CASE cmd[w].st = "sent"
    BY <1>1, <2>1, <2>2, DoubtOK
  <2>3. CASE cmd[w].st # "sent"
    <3>1. cmd[w].st = "cancelled"
      BY <1>1, <1>2, <2>3 DEF RowOK, Held
    <3>2. TablesOK(batch, asg, ord, kiz', Settle(cmd, w, cmd[w].st), read)
      BY <1>1, <3>1, SettleOK DEF Statuses
    <3> QED
      BY <1>2, <2>1, <2>3, <3>2, CommitOK
  <2> QED
    BY <2>2, <2>3
<1>6. w = Create \/ w = Deliver \/ w[1] \in {"add", "cancel"}
  BY WriteCases, OrderWrites
<1> QED
  BY <1>3, <1>4, <1>5, <1>6

LEMMA UnclearOK ==
  ASSUME Tables, NEW w \in Writes, Unclear(w)
  PROVE  Tables'
  BY DoubtOK DEF Unclear

LEMMA RefusedOK ==
  ASSUME Tables, NEW w \in Writes, Refused(w)
  PROVE  Tables'
<1>1. /\ cmd[w].ans = "refused" /\ kiz' = kiz
      /\ Commit(batch, asg, Settle(cmd, w, "failed"), read, FALSE)
  BY DEF Refused
<1>2. cmd[w].st # "none" /\ "failed" \in Statuses /\ ret \in [Orders -> Return]
  BY <1>1, Known1 DEF RowOK, Held, Statuses
<1>3. TablesOK(batch, asg, ord, kiz', Settle(cmd, w, "failed"), read)
  BY <1>1, <1>2, SettleOK
<1> QED
  BY <1>1, <1>2, <1>3, CommitOK

LEMMA CodesRefusedOK ==
  ASSUME Tables, CodesRefused
  PROVE  Tables'
<1> DEFINE b == [batch EXCEPT !.mk = "error"]
           x == Settle(cmd, Deliver, "conflict")[Deliver]
<1>1. /\ cmd[Deliver].ans = "kiz"
      /\ kiz' = [o \in Orders |-> IF kiz[o] = "refused" THEN "rejected" ELSE kiz[o]]
      /\ Commit(b, asg, Settle(cmd, Deliver, "conflict"), read, FALSE)
  BY DEF CodesRefused
<1>2. kiz' \in [Orders -> Code] /\ Barred(kiz')
  BY <1>1, Known1 DEF Barred, Code
<1>3. /\ Settle(cmd, Deliver, "conflict") = [cmd EXCEPT ![Deliver] = x] /\ x \in Command
      /\ x.st = "conflict" /\ x.ans = "none"
  BY SettledCommand, SupplyWrites, Known1 DEF Statuses
<1>4. RowOK(Deliver, x, read[Deliver], batch, asg, ord, kiz')
  BY <1>1, <1>2, <1>3, SupplyWrites, Known1 DEF RowOK, Held
<1>5. \A w \in Writes \ {Deliver} : RowOK(w, cmd[w], read[w], batch, asg, ord, kiz')
  BY Known1 DEF RowOK
<1>6. TablesOK(batch, asg, ord, kiz', Settle(cmd, Deliver, "conflict"), read)
  <2> HIDE DEF x
  <2> QED
    BY <1>2, <1>3, <1>4, <1>5, SupplyWrites, Known1 DEF TablesOK
<1>7. b \in Batch /\ (batch.st # "open" => b.st # "open")
  BY Known1 DEF Batch
<1> HIDE DEF b
<1>8. TablesOK(b, asg, ord, kiz', Settle(cmd, Deliver, "conflict"), read)
  BY <1>6, <1>7, BatchOK
<1> QED
  BY <1>1, <1>8, Known1, CommitOK

-----------------------------------------------------------------------------
\* The answers to readbacks.
LEMMA ReadFailedOK ==
  ASSUME Tables, NEW w \in Writes, ReadFailed(w)
  PROVE  Tables'
<1> DEFINE reads == CASE read[w].ans = "refused" -> Settle(read, w, "failed")
                      [] read[w].ans = "conflict" -> Settle(read, w, "conflict")
                      [] OTHER -> RetryOrFailed(read, w)
           table == IF read[w].at = "lookup" /\ reads[w].st \in {"failed", "conflict"}
                    THEN Retried(w) ELSE cmd
<1>1. /\ read[w].ans # "none" /\ kiz' = kiz
      /\ Commit(batch, asg, table, reads, FALSE)
  BY DEF ReadFailed, Reading, Unread
<1>2. /\ cmd \in [Writes -> Command] /\ read \in [Writes -> ReadRow]
      /\ ret \in [Orders -> Return]
      /\ RowOK(w, cmd[w], read[w], batch, asg, ord, kiz)
  BY Known1
<1>3. PICK st \in {"retry", "failed", "conflict"} : reads = Settle(read, w, st)
  BY DEF RetryOrFailed
<1>4. \/ reads[w].st \in {"failed", "conflict"} /\ table = Retried(w)
      \/ table = cmd
  OBVIOUS
<1> HIDE DEF reads, table
<1>5. /\ reads = [read EXCEPT ![w] = reads[w]] /\ reads[w] \in ReadRow
      /\ reads[w].st = st /\ reads[w].ans = "none" /\ reads[w].at = read[w].at
  BY <1>2, <1>3, SettledRead DEF ReadStatuses
<1>6. /\ table = [cmd EXCEPT ![w] = table[w]] /\ table[w] \in Command
      /\ \/ table[w] = cmd[w]
         \/ /\ cmd[w].st = "conflict" /\ st # "retry" /\ table[w].ans = "none"
            /\ table[w].st \in {"confirmed", "retry", "failed"}
  BY <1>2, <1>4, <1>5, VerdictRow DEF InDoubt
<1>7. RowOK(w, table[w], reads[w], batch, asg, ord, kiz)
  BY <1>1, <1>2, <1>5, <1>6 DEF RowOK, Held, Open, Live, Idle
<1>8. TablesOK(batch, asg, ord, kiz, [cmd EXCEPT ![w] = table[w]], [read EXCEPT ![w] = reads[w]])
  BY <1>5, <1>6, <1>7, OneWrite DEF Tables
<1>9. TablesOK(batch, asg, ord, kiz', table, reads)
  BY <1>1, <1>5, <1>6, <1>8
<1> QED
  BY <1>1, <1>2, <1>9, CommitOK

\* A readback is followed by another one of the same write.
LEMMA AskAgainOK ==
  ASSUME Tables, NEW o \in Orders, NEW at \in {"member", "lookup"},
         read[Add(o)].ans # "none", kiz' = kiz,
         Commit(batch, asg, cmd, Ask(read, Add(o), at), FALSE)
  PROVE  Tables'
<1>1. Add(o) \in Writes /\ at \in Kinds(Add(o)) \ {"none"}
  BY OrderWrites DEF Kinds
<1>2. ord[o] # "exception" => cmd[Add(o)].st \notin Idle
  BY Known1, OrderWrites DEF RowOK
<1>3. TablesOK(batch, asg, ord, kiz', cmd, Ask(read, Add(o), at))
  BY <1>1, <1>2, OrderWrites, AskOK DEF Tables
<1> QED
  BY <1>3, Known1, CommitOK

\* A readback settles its write, and the batch may learn something.
LEMMA SettlesOK ==
  ASSUME Tables, NEW w \in Writes, read[w].ans # "none", kiz' = kiz,
         NEW c \in {Confirmed(w), Retried(w), Failed(w)},
         NEW b \in {batch, [batch EXCEPT !.mk = "complete"]}, NEW conclusive,
         Commit(b, asg, c, Done(w), conclusive)
  PROVE  Tables'
<1>1. b \in Batch /\ b.st = batch.st
  BY Known1 DEF Batch
<1>2. TablesOK(batch, asg, ord, kiz, c, Done(w))
  BY VerdictOK
<1>3. TablesOK(b, asg, ord, kiz', c, Done(w))
  BY <1>1, <1>2, BatchOK
<1> QED
  BY <1>3, Known1, CommitOK

LEMMA FoundOK ==
  ASSUME Tables, Found
  PROVE  Tables'
<1>1. /\ read[Create].ans # "none" /\ kiz' = kiz
      /\ Commit(Known, asg, Scheduling(Confirmed(Create), OrdersAdded), Done(Create), FALSE)
  BY DEF Found, Reading, Unread
<1>2. TablesOK(batch, asg, ord, kiz, Confirmed(Create), Done(Create))
  BY <1>1, SupplyWrites, VerdictOK
<1> QED
  BY <1>1, <1>2, Known1, MadeOK

LEMMA NotFoundOK ==
  ASSUME Tables, NotFound
  PROVE  Tables'
<1>1. /\ read[Create].ans # "none" /\ kiz' = kiz
      /\ Commit(batch, asg, Retried(Create), Done(Create), FALSE)
  BY DEF NotFound, Reading, Unread
<1>2. TablesOK(batch, asg, ord, kiz', Retried(Create), Done(Create))
  BY <1>1, SupplyWrites, VerdictOK
<1> QED
  BY <1>1, <1>2, Known1, CommitOK

LEMMA SupplyOpenOK ==
  ASSUME Tables, NEW o \in Orders, SupplyOpen(o)
  PROVE  Tables'
  BY AskAgainOK DEF SupplyOpen, Reading, Unread

LEMMA SupplyClosedOK ==
  ASSUME Tables, NEW o \in Orders, SupplyClosed(o)
  PROVE  Tables'
<1>1. /\ read[Add(o)].ans # "none" /\ kiz' = kiz
      /\ Commit([batch EXCEPT !.mk = "complete"], asg, Failed(Add(o)), Done(Add(o)), FALSE)
  BY DEF SupplyClosed, Reading, Unread
<1> QED
  BY <1>1, OrderWrites, SettlesOK

\* What is left behind when a supply is gone holds no doubt about an order that
\* is not out: such an order had a pending assignment, and moves.
LEMMA SupplyMissingOK ==
  ASSUME Tables, NEW o \in Orders, SupplyMissing(o)
  PROVE  Tables'
<1> DEFINE moved == {x \in Orders : asg[x] \in {"pending", "error"} /\ ord[x] = "picked"}
           left == {Add(x) : x \in moved} \cup {Cancel(x) : x \in moved}
<1>1. /\ read[Add(o)].ans # "none"
      /\ batch' = [batch EXCEPT !.st = "problem", !.mk = "error"]
      /\ asg' = [x \in Orders |-> IF x \in moved THEN "moved" ELSE asg[x]]
      /\ cmd' = [w \in Writes |-> IF w \in left THEN NoCommand ELSE cmd[w]]
      /\ read' = [w \in Writes |-> IF w \in left THEN NoRead ELSE Done(Add(o))[w]]
      /\ UNCHANGED <<ord, ret, kiz>>
  BY DEF SupplyMissing, Reading, Unread
<1>2. batch' \in Batch /\ batch'.st # "open" /\ asg' \in [Orders -> Assignment]
  BY <1>1, Known1 DEF Batch, Assignment
<1>3. /\ NoCommand \in Command /\ NoRead \in ReadRow
      /\ NoCommand.st = "none" /\ NoCommand.ans = "none"
      /\ NoRead.st = "none" /\ NoRead.ans = "none" /\ NoRead.at = "none"
  BY DEF NoCommand, NoRead, Command, ReadRow, Statuses, ReadStatuses
<1>4. ASSUME NEW w \in Writes
      PROVE  /\ cmd'[w] \in Command /\ read'[w] \in ReadRow
             /\ RowOK(w, cmd'[w], read'[w], batch', asg', ord', kiz')
  <2>1. CASE w \in left
    <3>1. cmd'[w] = NoCommand /\ read'[w] = NoRead /\ w # Deliver
      BY <1>1, <2>1, OrderWrites
    <3> QED
      BY <1>3, <3>1 DEF RowOK, Held, Open, Live, Idle, Kinds
  <2>2. CASE w \notin left /\ w[1] = "add"
    <3>1. PICK p \in Orders : w = Add(p) /\ w[2] = p
      BY <2>2, AddsAre
    <3>2. /\ p \notin moved /\ asg'[p] = asg[p] /\ cmd'[w] = cmd[w]
          /\ read'[w] \in {NoRead, read[w]}
      BY <1>1, <2>2, <3>1 DEF Done
    <3>3. RowOK(w, cmd[w], read[w], batch, asg, ord, kiz) /\ OrderOK(asg[p], ord[p])
          /\ cmd[w] \in Command /\ read[w] \in ReadRow
      BY Known1
    <3>4. ord[p] # "exception" => cmd[w].st \notin Live
      BY <2>2, <3>1, <3>2, <3>3 DEF RowOK, OrderOK
    <3>5. w # Deliver /\ ord' = ord
      BY <1>1, <2>2, SupplyWrites
    <3> QED
      BY <1>1, <1>3, <2>2, <3>1, <3>2, <3>3, <3>4, <3>5
         DEF RowOK, Held, Open, Live, Idle, Kinds
  <2>3. CASE w \notin left /\ w[1] # "add"
    <3>1. cmd'[w] = cmd[w] /\ read'[w] = read[w]
      BY <1>1, <2>3, OrderWrites DEF Done
    <3>2. /\ RowOK(w, cmd[w], read[w], batch, asg, ord, kiz)
          /\ cmd[w] \in Command /\ read[w] \in ReadRow
      BY Known1
    <3>3. ord' = ord /\ kiz' = kiz
      BY <1>1
    <3>4. RowOK(w, cmd[w], read[w], batch', asg', ord, kiz)
      BY <1>2, <2>3, <3>2 DEF RowOK
    <3> QED
      BY <3>1, <3>2, <3>3, <3>4
  <2> QED
    BY <2>1, <2>2, <2>3
<1>5. \A p \in Orders : OrderOK(asg'[p], ord'[p])
  BY <1>1, Known1 DEF OrderOK
<1>6. cmd' \in [Writes -> Command] /\ read' \in [Writes -> ReadRow]
  BY <1>1, <1>4
<1> QED
  BY <1>1, <1>2, <1>4, <1>5, <1>6, Known1 DEF Tables, TablesOK

LEMMA MemberOK ==
  ASSUME Tables, NEW o \in Orders, Member(o)
  PROVE  Tables'
<1> DEFINE a == [asg EXCEPT ![o] = "confirmed"]
<1>1. /\ read[Add(o)].ans # "none" /\ kiz' = kiz /\ Add(o) \in Writes
      /\ Commit(batch, a, Confirmed(Add(o)), Done(Add(o)), FALSE)
  BY OrderWrites DEF Member, Reading
<1>2. TablesOK(batch, asg, ord, kiz, Confirmed(Add(o)), Done(Add(o)))
  BY <1>1, VerdictOK
<1>3. a \in [Orders -> Assignment]
  BY Known1 DEF Assignment
<1>4. ord[o] # "exception" => Confirmed(Add(o))[Add(o)].st \notin Live
  <2>1. \/ cmd[Add(o)].st # "conflict" /\ Confirmed(Add(o)) = cmd
        \/ Confirmed(Add(o))[Add(o)].st = "confirmed"
    <3>1. CASE InDoubt(Add(o))
      <4>1. Confirmed(Add(o))[Add(o)] = [NoCommand EXCEPT !.st = "confirmed"]
        BY <1>1, <3>1, Known1 DEF Confirmed, Confirm
      <4> QED
        BY <4>1 DEF NoCommand
    <3>2. CASE ~InDoubt(Add(o))
      BY <3>2 DEF Confirmed, InDoubt
    <3> QED
      BY <3>1, <3>2
  <2>2. ord[o] # "exception" => cmd[Add(o)].st \notin Idle \cup {"cancelled"}
    BY <1>1, Known1, OrderWrites DEF RowOK, Live
  <2> QED
    BY <2>1, <2>2 DEF Live, Idle
<1>5. \A p \in Orders :
        /\ OrderOK(a[p], ord[p])
        /\ ord[p] # "exception" /\ Confirmed(Add(o))[Add(p)].st \in Live => a[p] = "pending"
  BY <1>2, <1>4, OrderWrites DEF TablesOK, RowOK, OrderOK
<1>6. Confirmed(Add(o))[Deliver].ans = "kiz" => \E p \in Orders : kiz[p] = "refused"
  BY <1>2, SupplyWrites DEF TablesOK, RowOK
<1> HIDE DEF a
<1>7. TablesOK(batch, a, ord, kiz', Confirmed(Add(o)), Done(Add(o)))
  BY <1>1, <1>2, <1>3, <1>5, <1>6, Known1, Beside
<1> QED
  BY <1>1, <1>7, Known1, CommitOK

LEMMA NoMemberOK ==
  ASSUME Tables, NEW o \in Orders, NoMember(o)
  PROVE  Tables'
  BY AskAgainOK DEF NoMember, Reading, Unread

LEMMA LocatedOK ==
  ASSUME Tables, NEW o \in Orders, Located(o)
  PROVE  Tables'
<1> DEFINE over == read[Add(o)].ans = "elsewhere" \/ o \in told
<1>1. /\ read[Add(o)].ans # "none" /\ kiz' = kiz /\ Add(o) \in Writes
      /\ Commit(batch, asg, IF over THEN Failed(Add(o)) ELSE Retried(Add(o)),
                Done(Add(o)), over)
  BY OrderWrites DEF Located, Unread
<1> HIDE DEF over
<1> QED
  BY <1>1, SettlesOK

LEMMA StillThereOK ==
  ASSUME Tables, NEW o \in Orders, StillThere(o)
  PROVE  Tables'
<1> DEFINE w == Cancel(o)
           reads == IF read[w].st = "sent" THEN RetryOrFailed(read, w)
                    ELSE Settle(read, w, read[w].st)
<1>1. /\ read[w].ans # "none" /\ kiz' = kiz
      /\ Commit(batch, asg, cmd, reads, FALSE)
  BY DEF StillThere, Reading, Unread
<1>2. /\ w \in Writes /\ read \in [Writes -> ReadRow] /\ w[1] # "add" /\ w # Deliver
      /\ RowOK(w, cmd[w], read[w], batch, asg, ord, kiz)
  BY OrderWrites, Known1
<1>3. read[w].st = "sent"
  BY <1>1, <1>2 DEF RowOK, Held
<1>4. PICK st \in {"retry", "failed", "conflict"} : reads = Settle(read, w, st)
  BY <1>3 DEF RetryOrFailed
<1> HIDE DEF reads, w
<1>5. /\ reads = [read EXCEPT ![w] = reads[w]] /\ reads[w] \in ReadRow
      /\ reads[w].st = st /\ reads[w].ans = "none" /\ reads[w].at = read[w].at
  BY <1>2, <1>4, SettledRead DEF ReadStatuses
<1>6. RowOK(w, cmd[w], reads[w], batch, asg, ord, kiz)
  BY <1>2, <1>3, <1>5 DEF RowOK, Held, Open
<1>7. TablesOK(batch, asg, ord, kiz, cmd, [read EXCEPT ![w] = reads[w]])
  BY <1>2, <1>5, <1>6, OneRead DEF Tables
<1>8. TablesOK(batch, asg, ord, kiz', cmd, reads)
  BY <1>1, <1>5, <1>7
<1> QED
  BY <1>1, <1>8, Known1, CommitOK

\* Commands and readbacks of an order that is out may be cancelled.
LEMMA CancelledOK ==
  ASSUME NEW b, NEW a, NEW os, NEW k, NEW c, NEW r, TablesOK(b, a, os, k, c, r),
         NEW adds \in SUBSET {Add(o) : o \in {x \in Orders : os[x] = "exception"}},
         NEW more \in SUBSET adds, NEW sts \in SUBSET Open
  PROVE  TablesOK(b, a, os, k, Cancelled(c, adds, sts), Cancelled(r, more, sts))
<1>1. ASSUME NEW w \in Writes
      PROVE  /\ Cancelled(c, adds, sts)[w] \in Command
             /\ Cancelled(r, more, sts)[w] \in ReadRow
             /\ RowOK(w, Cancelled(c, adds, sts)[w], Cancelled(r, more, sts)[w], b, a, os, k)
  <2>1. c[w] \in Command /\ r[w] \in ReadRow /\ RowOK(w, c[w], r[w], b, a, os, k)
    BY DEF TablesOK
  <2>2. \/ Cancelled(c, adds, sts)[w] = c[w]
        \/ /\ Cancelled(c, adds, sts)[w] = [c[w] EXCEPT !.st = "cancelled"]
           /\ w \in adds
    BY DEF Cancelled
  <2>3. \/ Cancelled(r, more, sts)[w] = r[w]
        \/ /\ Cancelled(r, more, sts)[w] = [r[w] EXCEPT !.st = "cancelled"]
           /\ w \in adds /\ r[w].st \in Open
    BY DEF Cancelled
  <2>4. w \in adds => w[1] = "add" /\ os[w[2]] = "exception" /\ w # Deliver
    BY OrderWrites
  <2> DEFINE x == Cancelled(c, adds, sts)[w]
             y == Cancelled(r, more, sts)[w]
  <2>5. /\ x \in Command
        /\ \/ x = c[w]
           \/ w \in adds /\ x.st = "cancelled" /\ x.ans = c[w].ans
    <3>1. LET z == [c[w] EXCEPT !.st = "cancelled"]
          IN z \in Command /\ z.st = "cancelled" /\ z.ans = c[w].ans
      BY <2>1 DEF Command, Statuses
    <3> QED
      BY <2>1, <2>2, <3>1
  <2>6. /\ y \in ReadRow
        /\ \/ y = r[w]
           \/ /\ w \in adds /\ r[w].st \in Open
              /\ y.st = "cancelled" /\ y.ans = r[w].ans /\ y.at = r[w].at
    <3>1. LET z == [r[w] EXCEPT !.st = "cancelled"]
          IN z \in ReadRow /\ z.st = "cancelled" /\ z.ans = r[w].ans /\ z.at = r[w].at
      BY <2>1 DEF ReadRow, ReadStatuses
    <3> QED
      BY <2>1, <2>3, <3>1
  <2> HIDE DEF x, y
  <2>7. RowOK(w, x, y, b, a, os, k)
    BY <2>1, <2>4, <2>5, <2>6 DEF RowOK, Held, Open
  <2> QED
    BY <2>5, <2>6, <2>7 DEF x, y
<1>2. /\ Cancelled(c, adds, sts) \in [Writes -> Command]
      /\ Cancelled(r, more, sts) \in [Writes -> ReadRow]
  BY <1>1 DEF Cancelled
<1> QED
  BY <1>1, <1>2 DEF TablesOK

\* Orders are taken out, their assignments with them.
LEMMA OutOK ==
  ASSUME NEW b, NEW a, NEW os, NEW k, NEW c, NEW r, TablesOK(b, a, os, k, c, r),
         NEW os2 \in [Orders -> OrderState], NEW a2 \in [Orders -> Assignment],
         \A o \in Orders : /\ os2[o] \in {os[o], "exception"}
                           /\ a2[o] = a[o] \/ (os2[o] = "exception" /\ a2[o] = "canceled")
  PROVE  TablesOK(b, a2, os2, k, c, r)
<1>1. /\ b \in Batch /\ k \in [Orders -> Code]
      /\ c[Deliver].ans = "kiz" => \E o \in Orders : k[o] = "refused"
  BY SupplyWrites DEF TablesOK, RowOK
<1>2. ASSUME NEW o \in Orders
      PROVE  /\ OrderOK(a2[o], os2[o])
             /\ os[o] = "exception" => os2[o] = "exception"
             /\ os2[o] # "exception" /\ c[Add(o)].st \in Live => a2[o] = "pending"
  <2>1. RowOK(Add(o), c[Add(o)], r[Add(o)], b, a, os, k) /\ OrderOK(a[o], os[o])
    BY OrderWrites DEF TablesOK
  <2> QED
    BY <2>1, OrderWrites DEF RowOK, OrderOK
<1> QED
  BY <1>1, <1>2, Beside

LEMMA HasLeftOK ==
  ASSUME Tables, NEW o \in Orders, HasLeft(o)
  PROVE  Tables'
<1>1. PICK kept \in BOOLEAN :
        /\ read[Cancel(o)].ans # "none"
        /\ ret' = [ret EXCEPT ![o].st = "queued"]
        /\ ord' = [ord EXCEPT ![o] = "exception"]
        /\ asg' = [asg EXCEPT ![o] = "canceled"]
        /\ kiz' = [kiz EXCEPT ![o] = IF @ = "rejected" THEN "dropped" ELSE @]
        /\ cmd' = Cancelled(Confirmed(Cancel(o)), {Add(o)}, Open)
        /\ read' = Cancelled(Done(Cancel(o)), IF kept THEN {} ELSE {Add(o)}, Open)
        /\ UNCHANGED batch
  BY DEF HasLeft, Reading
<1> DEFINE c == Confirmed(Cancel(o))
           r == Done(Cancel(o))
<1>2. TablesOK(batch, asg, ord, kiz, c, r)
  BY <1>1, OrderWrites, VerdictOK
<1> HIDE DEF c, r
<1>3. asg' \in [Orders -> Assignment] /\ kiz' \in [Orders -> Code]
      /\ (Barred(kiz) => Barred(kiz'))
      /\ ((\E p \in Orders : kiz[p] = "refused") => (\E p \in Orders : kiz'[p] = "refused"))
  BY <1>1, Known1 DEF Assignment, Code, Barred
<1>4. ord' \in [Orders -> OrderState]
  BY <1>1, Known1 DEF OrderState
<1>5. \A p \in Orders :
        /\ ord'[p] \in {ord[p], "exception"}
        /\ asg'[p] = asg[p] \/ (ord'[p] = "exception" /\ asg'[p] = "canceled")
  BY <1>1, Known1
<1>6. TablesOK(batch, asg', ord', kiz, c, r)
  BY <1>2, <1>3, <1>4, <1>5, OutOK
<1>7. TablesOK(batch, asg', ord', kiz', c, r)
  <2>1. /\ \A w \in Writes : RowOK(w, c[w], r[w], batch, asg', ord', kiz')
    <3> SUFFICES ASSUME NEW w \in Writes
                 PROVE  RowOK(w, c[w], r[w], batch, asg', ord', kiz')
      OBVIOUS
    <3>1. RowOK(w, c[w], r[w], batch, asg', ord', kiz)
      BY <1>6 DEF TablesOK
    <3> QED
      BY <1>3, <3>1 DEF RowOK
  <2> QED
    BY <1>3, <1>6, <2>1 DEF TablesOK
<1>8. Add(o) \in {Add(x) : x \in {y \in Orders : ord'[y] = "exception"}}
  BY <1>1, Known1
<1>9. TablesOK(batch, asg', ord', kiz', Cancelled(c, {Add(o)}, Open),
               Cancelled(r, IF kept THEN {} ELSE {Add(o)}, Open))
  BY <1>7, <1>8, CancelledOK
<1>10. ret' \in [Orders -> Return]
  BY <1>1, Known1 DEF Return
<1> QED
  BY <1>1, <1>9, <1>10 DEF Tables, c, r

LEMMA IsDeliveredOK ==
  ASSUME Tables, IsDelivered
  PROVE  Tables'
<1>1. /\ read[Deliver].ans # "none" /\ kiz' = kiz
      /\ Delivered(Confirmed(Deliver), Done(Deliver))
  BY DEF IsDelivered, Reading, Unread
<1>2. TablesOK(batch, asg, ord, kiz, Confirmed(Deliver), Done(Deliver))
  BY <1>1, SupplyWrites, VerdictOK
<1> QED
  BY <1>1, <1>2, Known1, DeliveredOK

LEMMA NotDeliveredOK ==
  ASSUME Tables, NotDelivered
  PROVE  Tables'
<1>1. /\ read[Deliver].ans # "none" /\ kiz' = kiz
      /\ Commit(batch, asg, Retried(Deliver), Done(Deliver), FALSE)
  BY DEF NotDelivered, Reading, Unread
<1>2. TablesOK(batch, asg, ord, kiz', Retried(Deliver), Done(Deliver))
  BY <1>1, SupplyWrites, VerdictOK
<1> QED
  BY <1>1, <1>2, Known1, CommitOK

\* The composition sync touches settled assignments only.
LEMMA ReconciledOK ==
  ASSUME Tables, NEW seen \in SUBSET Orders, asg' = Reconciled(seen),
         UNCHANGED <<batch, ord, ret, kiz, cmd, read>>
  PROVE  Tables'
<1> DEFINE a == Reconciled(seen)
<1>0. ASSUME NEW o \in Orders
      PROVE  \/ a[o] = asg[o]
             \/ asg[o] \in {"confirmed", "error"} /\ a[o] \in {"confirmed", "error"}
  BY DEF Reconciled, Settled
<1>1. asg' \in [Orders -> Assignment]
      /\ \A o \in Orders :
           \/ asg'[o] = asg[o]
           \/ asg[o] \in {"confirmed", "error"} /\ asg'[o] \in {"confirmed", "error"}
  <2>1. asg' \in [Orders -> Assignment]
    BY Known1 DEF Reconciled, Assignment
  <2> HIDE DEF a
  <2>2. asg' = a
    BY DEF a
  <2> QED
    BY <1>0, <2>1, <2>2
<1>2. \A o \in Orders :
        /\ OrderOK(asg'[o], ord[o])
        /\ ord[o] # "exception" /\ cmd[Add(o)].st \in Live => asg'[o] = "pending"
  BY <1>1, LiveAdds DEF OrderOK
<1>3. TablesOK(batch, asg', ord, kiz, cmd, read)
  BY <1>1, <1>2, Known1, BesideStep
<1> QED
  BY <1>3, Known1 DEF Tables

-----------------------------------------------------------------------------
\* The controllers, and the import.
LEMMA PackOK ==
  ASSUME Tables, NEW o \in Orders, Pack(o)
  PROVE  Tables'
<1>1. /\ asg[o] = "confirmed" /\ ord[o] = "picked"
      /\ ord' = [ord EXCEPT ![o] = "ready"]
      /\ UNCHANGED <<batch, asg, ret, kiz, cmd, read>>
  BY DEF Pack
<1>2. ord' \in [Orders -> OrderState]
  BY <1>1, Known1 DEF OrderState
<1>3. \A p \in Orders :
        /\ OrderOK(asg[p], ord'[p])
        /\ ord[p] = "exception" => ord'[p] = "exception"
        /\ ord'[p] # "exception" /\ cmd[Add(p)].st \in Live => asg[p] = "pending"
  BY <1>1, LiveAdds, Known1 DEF OrderOK
<1>4. TablesOK(batch, asg, ord', kiz, cmd, read)
  BY <1>2, <1>3, Known1, BesideStep
<1> QED
  BY <1>1, <1>4, Known1 DEF Tables

LEMMA RequestDeliveryOK ==
  ASSUME Tables, RequestDelivery
  PROVE  Tables'
<1>1. /\ cmd' = Enqueue(cmd, Deliver)
      /\ \E mk \in {"complete", "error", "delivery_pending"} :
           batch' = [batch EXCEPT !.st = "ready", !.mk = mk]
      /\ UNCHANGED <<asg, ord, ret, kiz, read>>
  BY DEF RequestDelivery, people
<1>2. batch' \in Batch /\ batch'.st # "open"
  BY <1>1, Known1 DEF Batch
<1>3. TablesOK(batch', asg, ord, kiz, cmd, read)
  BY <1>2, BatchOK DEF Tables
<1>4. TablesOK(batch', asg, ord, kiz, Enqueue(cmd, Deliver), read)
  BY <1>2, <1>3, SupplyWrites, EnqueueOK
<1> QED
  BY <1>1, <1>4, Known1 DEF Tables

LEMMA DispatchOK ==
  ASSUME Tables, Dispatch
  PROVE  Tables'
<1>1. /\ batch' = [batch EXCEPT !.st = "dispatched"] /\ ord' = HandedOver
      /\ UNCHANGED <<asg, ret, kiz, cmd, read>>
  BY DEF Dispatch
<1>2. batch' \in Batch /\ batch'.st # "open"
  BY <1>1, Known1 DEF Batch
<1>3. ord' \in [Orders -> OrderState]
  BY <1>1, Known1 DEF HandedOver, OrderState
<1>4. \A p \in Orders :
        /\ OrderOK(asg[p], ord'[p])
        /\ ord[p] = "exception" => ord'[p] = "exception"
        /\ ord'[p] # "exception" /\ cmd[Add(p)].st \in Live => asg[p] = "pending"
  BY <1>1, LiveAdds DEF OrderOK, HandedOver
<1>5. TablesOK(batch', asg, ord', kiz, cmd, read)
  BY <1>2, <1>3, <1>4, Known1, BesideStep
<1> QED
  BY <1>1, <1>5, Known1 DEF Tables

\* The last code resumes a delivery; before that, another code still bars it.
LEMMA FixCodeOK ==
  ASSUME Tables, NEW o \in Orders, FixCode(o)
  PROVE  Tables'
<1> DEFINE free == \A x \in Orders : kiz'[x] \notin {"rejected", "dropped"}
           x == Settle(cmd, Deliver, "retry")[Deliver]
<1>1. /\ kiz[o] = "rejected" /\ kiz' = [kiz EXCEPT ![o] = "ok"]
      /\ batch.st \in {"open", "ready"} /\ UNCHANGED <<asg, ord, ret, read>>
      /\ IF batch.st = "ready" /\ cmd[Deliver].st = "conflict" /\ free
         THEN cmd' = Settle(cmd, Deliver, "retry")
              /\ batch' = [batch EXCEPT !.mk = "delivery_pending"]
         ELSE UNCHANGED <<cmd, batch>>
  BY DEF FixCode
<1>2. /\ kiz' \in [Orders -> Code]
      /\ (\E p \in Orders : kiz[p] = "refused") => (\E p \in Orders : kiz'[p] = "refused")
  BY <1>1, Known1 DEF Code
<1>3. CASE batch.st = "ready" /\ cmd[Deliver].st = "conflict" /\ free
  <2>1. /\ Settle(cmd, Deliver, "retry") = [cmd EXCEPT ![Deliver] = x] /\ x \in Command
        /\ x.st = "retry" /\ x.ans = "none"
    BY SettledCommand, SupplyWrites, Known1 DEF Statuses
  <2> HIDE DEF x, free
  <2>2. RowOK(Deliver, x, read[Deliver], batch, asg, ord, kiz')
    BY <1>3, <2>1, SupplyWrites, Known1 DEF RowOK, Held
  <2>3. \A w \in Writes \ {Deliver} : RowOK(w, cmd[w], read[w], batch, asg, ord, kiz')
    BY Known1 DEF RowOK
  <2>4. TablesOK(batch, asg, ord, kiz', Settle(cmd, Deliver, "retry"), read)
    BY <1>2, <2>1, <2>2, <2>3, SupplyWrites, Known1 DEF TablesOK
  <2>5. batch' \in Batch /\ (batch.st # "open" => batch'.st # "open")
    BY <1>1, <1>3, Known1 DEF Batch
  <2>6. TablesOK(batch', asg, ord, kiz', Settle(cmd, Deliver, "retry"), read)
    BY <2>4, <2>5, BatchOK
  <2> QED
    BY <1>1, <1>3, <2>6, Known1 DEF Tables
<1>4. CASE ~(batch.st = "ready" /\ cmd[Deliver].st = "conflict" /\ free)
  <2>1. UNCHANGED <<cmd, batch>>
    BY <1>1, <1>4
  <2>2. cmd[Deliver].st = "conflict" => Barred(kiz')
    BY <1>1, <1>4, Known1, SupplyWrites DEF RowOK, Barred
  <2>3. ASSUME NEW w \in Writes PROVE RowOK(w, cmd[w], read[w], batch, asg, ord, kiz')
    <3>1. RowOK(w, cmd[w], read[w], batch, asg, ord, kiz)
      BY Known1
    <3>2. CASE w = Deliver
      BY <1>2, <2>2, <3>1, <3>2 DEF RowOK
    <3>3. CASE w # Deliver
      BY <3>1, <3>3 DEF RowOK
    <3> QED
      BY <3>2, <3>3
  <2> QED
    BY <1>1, <1>2, <2>1, <2>3, Known1 DEF Tables, TablesOK
<1> QED
  BY <1>3, <1>4

\* An order is taken out: a readback is asked for, or WB asked to cancel it.
LEMMA TakeOutOK ==
  ASSUME Tables, NEW o \in Orders, NEW client \in BOOLEAN, TakeOut(o, client),
         UNCHANGED <<batch, asg, kiz>>
  PROVE  Tables'
<1>1. /\ ord' = [ord EXCEPT ![o] = "exception"]
      /\ \/ /\ ret' = [ret EXCEPT ![o] = TakenOut("verify", client)]
            /\ read' = Ask(read, Cancel(o), "absence") /\ cmd' = cmd
         \/ /\ ret' = [ret EXCEPT ![o] = TakenOut("seller", FALSE)]
            /\ cmd' = Enqueue(cmd, Cancel(o)) /\ read' = read
  BY DEF TakeOut
<1>2. TakenOut("verify", client) \in Return /\ TakenOut("seller", FALSE) \in Return
  BY TakenOutOK
<1>3. ret' \in [Orders -> Return]
  BY <1>1, <1>2, Known1
<1>4. ord' \in [Orders -> OrderState]
  BY <1>1, Known1 DEF OrderState
<1>5. \A p \in Orders : ord'[p] \in {ord[p], "exception"}
  BY <1>1, Known1
<1>6. TablesOK(batch, asg, ord', kiz, cmd, read)
  BY <1>4, <1>5, Known1, OutOK DEF Tables
<1>7. CASE read' = Ask(read, Cancel(o), "absence") /\ cmd' = cmd
  <2>1. Cancel(o) \in Writes /\ "absence" \in Kinds(Cancel(o)) \ {"none"}
        /\ Cancel(o)[1] # "add"
    BY OrderWrites DEF Kinds
  <2>2. TablesOK(batch, asg, ord', kiz, cmd, Ask(read, Cancel(o), "absence"))
    BY <1>6, <2>1, AskOK
  <2> QED
    BY <1>3, <1>7, <2>2 DEF Tables
<1>8. CASE cmd' = Enqueue(cmd, Cancel(o)) /\ read' = read
  <2>1. Cancel(o) \in Writes /\ Cancel(o)[1] # "add" /\ Cancel(o) # Deliver
    BY OrderWrites
  <2>2. TablesOK(batch, asg, ord', kiz, Enqueue(cmd, Cancel(o)), read)
    BY <1>6, <2>1, EnqueueOK
  <2> QED
    BY <1>3, <1>8, <2>2 DEF Tables
<1> QED
  BY <1>1, <1>7, <1>8

LEMMA ExcludeOK ==
  ASSUME Tables, NEW o \in Orders, NEW client \in BOOLEAN, Exclude(o, client)
  PROVE  Tables'
  BY TakeOutOK DEF Exclude

LEMMA ImportOK ==
  ASSUME Tables, NEW o \in Orders, Import(o)
  PROVE  Tables'
<1>1. CASE TakeOut(o, TRUE) /\ UNCHANGED <<batch, asg, kiz>>
  BY <1>1, TakeOutOK
<1>2. CASE UNCHANGED <<ord, ret, cmd, read, batch, asg, kiz>>
  BY <1>2 DEF Tables
<1> QED
  BY <1>1, <1>2 DEF Import

LEMMA RetryExclusionOK ==
  ASSUME Tables, NEW o \in Orders, RetryExclusion(o)
  PROVE  Tables'
<1> DEFINE w == Cancel(o)
           x == Settle(cmd, w, "retry")[w]
           y == Settle(read, w, "retry")[w]
<1>1. /\ ret' = [ret EXCEPT ![o].st = "waiting"]
      /\ UNCHANGED <<batch, asg, ord, kiz>>
      /\ \/ UNCHANGED <<cmd, read>>
         \/ GivenUp(w) /\ read' = Settle(read, w, "retry") /\ cmd' = cmd
         \/ cmd[w].st \in {"failed", "conflict"} /\ cmd' = Settle(cmd, w, "retry") /\ read' = read
  BY DEF RetryExclusion
<1>2. ret' \in [Orders -> Return]
  BY <1>1, Known1 DEF Return
<1>3. /\ w \in Writes /\ w[1] # "add" /\ w # Deliver
      /\ RowOK(w, cmd[w], read[w], batch, asg, ord, kiz)
  BY OrderWrites, Known1
<1>4. CASE UNCHANGED <<cmd, read>>
  BY <1>1, <1>2, <1>4 DEF Tables
<1>5. CASE GivenUp(w) /\ read' = Settle(read, w, "retry") /\ cmd' = cmd
  <2> HIDE DEF w
  <2>1. /\ read' = [read EXCEPT ![w] = y] /\ y \in ReadRow
        /\ y.st = "retry" /\ y.ans = "none" /\ y.at = read[w].at
    BY <1>3, <1>5, SettledRead, Known1 DEF ReadStatuses
  <2> HIDE DEF y
  <2>2. RowOK(w, cmd[w], y, batch, asg, ord, kiz)
    BY <1>3, <1>5, <2>1 DEF RowOK, Held, Open, GivenUp
  <2>3. TablesOK(batch, asg, ord, kiz, cmd, [read EXCEPT ![w] = y])
    BY <1>3, <2>1, <2>2, OneRead DEF Tables
  <2> QED
    BY <1>1, <1>2, <1>5, <2>1, <2>3 DEF Tables
<1>6. CASE cmd[w].st \in {"failed", "conflict"} /\ cmd' = Settle(cmd, w, "retry") /\ read' = read
  <2> HIDE DEF w
  <2>1. /\ cmd' = [cmd EXCEPT ![w] = x] /\ x \in Command /\ x.st = "retry" /\ x.ans = "none"
    BY <1>3, <1>6, SettledCommand, Known1 DEF Statuses
  <2> HIDE DEF x
  <2>2. RowOK(w, x, read[w], batch, asg, ord, kiz)
    BY <1>3, <1>6, <2>1 DEF RowOK, Held
  <2>3. TablesOK(batch, asg, ord, kiz, [cmd EXCEPT ![w] = x], read)
    BY <1>3, <2>1, <2>2, OneCommand DEF Tables
  <2> QED
    BY <1>1, <1>2, <1>6, <2>1, <2>3 DEF Tables
<1> QED
  BY <1>1, <1>4, <1>5, <1>6

LEMMA ReportProblemOK ==
  ASSUME Tables, NEW o \in Orders, ReportProblem(o)
  PROVE  Tables'
<1>1. /\ ord' = [ord EXCEPT ![o] = "exception"] /\ UNCHANGED <<batch, kiz>>
      /\ \/ /\ ret' = [ret EXCEPT ![o] = TakenOut("verify", TRUE)]
            /\ read' = Ask(read, Cancel(o), "absence") /\ UNCHANGED <<asg, cmd>>
         \/ /\ ret' = [ret EXCEPT ![o] = [TakenOut("none", o \in told) EXCEPT !.st = "queued"]]
            /\ asg' = [asg EXCEPT ![o] = IF @ \in {"pending", "error"} THEN "canceled" ELSE @]
            /\ cmd' = Cancelled(cmd, {Add(o)}, Active) /\ read' = read
  BY DEF ReportProblem
<1>2. /\ TakenOut("verify", TRUE) \in Return
      /\ [TakenOut("none", o \in told) EXCEPT !.st = "queued"] \in Return
  <2>1. ASSUME NEW x \in Return PROVE [x EXCEPT !.st = "queued"] \in Return
    BY DEF Return
  <2>2. TakenOut("none", o \in told) \in Return
    <3>1. Gap \in {"none", "delivery"} /\ (o \in told) \in BOOLEAN
      BY DEF Gap
    <3> QED
      BY <3>1 DEF TakenOut, Return
  <2> QED
    BY <2>1, <2>2, TakenOutOK
<1>3. ret' \in [Orders -> Return]
  BY <1>1, <1>2, Known1
<1>4. ord' \in [Orders -> OrderState] /\ asg' \in [Orders -> Assignment]
  BY <1>1, Known1 DEF OrderState, Assignment
<1>5. \A p \in Orders : /\ ord'[p] \in {ord[p], "exception"}
                        /\ asg'[p] = asg[p] \/ (ord'[p] = "exception" /\ asg'[p] = "canceled")
  BY <1>1, Known1
<1>6. TablesOK(batch, asg', ord', kiz, cmd, read)
  BY <1>4, <1>5, OutOK DEF Tables
<1>7. CASE read' = Ask(read, Cancel(o), "absence") /\ cmd' = cmd
  <2>1. Cancel(o) \in Writes /\ "absence" \in Kinds(Cancel(o)) \ {"none"}
        /\ Cancel(o)[1] # "add"
    BY OrderWrites DEF Kinds
  <2>2. TablesOK(batch, asg', ord', kiz, cmd, Ask(read, Cancel(o), "absence"))
    BY <1>6, <2>1, AskOK
  <2> QED
    BY <1>1, <1>3, <1>7, <2>2 DEF Tables
<1>8. CASE cmd' = Cancelled(cmd, {Add(o)}, Active) /\ read' = read
  <2>1. /\ {Add(o)} \in SUBSET {Add(x) : x \in {y \in Orders : ord'[y] = "exception"}}
        /\ {} \in SUBSET {Add(o)} /\ Active \in SUBSET Open
    BY <1>1, Known1 DEF Active, Open
  <2>2. TablesOK(batch, asg', ord', kiz, Cancelled(cmd, {Add(o)}, Active), Cancelled(read, {}, Active))
    BY <1>6, <2>1, CancelledOK
  <2>3. Cancelled(read, {}, Active) = read
    <3>1. read = [w \in Writes |-> read[w]]
      BY Known1
    <3>2. Cancelled(read, {}, Active) = [w \in Writes |-> read[w]]
      BY DEF Cancelled
    <3> QED
      BY <3>1, <3>2
  <2> QED
    BY <1>1, <1>3, <1>8, <2>2, <2>3 DEF Tables
<1> QED
  BY <1>1, <1>7, <1>8

LEMMA ReturnWaveOK ==
  ASSUME Tables, ReturnWave
  PROVE  Tables'
<1> DEFINE own == {Add(o) : o \in Orders}
<1>1. /\ ret' = [o \in Orders |-> [NoReturn EXCEPT !.st = "queued",
               !.gap = IF cmd[Add(o)].st \in {"sent", "conflict"} THEN "wave" ELSE "none"]]
      /\ ord' = [o \in Orders |-> "exception"]
      /\ asg' = [o \in Orders |-> IF asg[o] = "none" THEN "none" ELSE "canceled"]
      /\ cmd' = Cancelled(cmd, own, Open) /\ read' = Cancelled(read, own, Open)
      /\ UNCHANGED <<batch, kiz>>
  BY DEF ReturnWave
<1>2. ret' \in [Orders -> Return]
  BY <1>1 DEF NoReturn, Return
<1>3. ord' \in [Orders -> OrderState] /\ asg' \in [Orders -> Assignment]
  BY <1>1 DEF OrderState, Assignment
<1>4. \A p \in Orders : /\ ord'[p] \in {ord[p], "exception"}
                        /\ asg'[p] = asg[p] \/ (ord'[p] = "exception" /\ asg'[p] = "canceled")
  BY <1>1
<1>5. TablesOK(batch, asg', ord', kiz, cmd, read)
  BY <1>3, <1>4, OutOK DEF Tables
<1>6. own \in SUBSET {Add(x) : x \in {y \in Orders : ord'[y] = "exception"}}
  BY <1>1
<1> HIDE DEF own
<1>7. TablesOK(batch, asg', ord', kiz, Cancelled(cmd, own, Open), Cancelled(read, own, Open))
  BY <1>5, <1>6, CancelledOK
<1> QED
  BY <1>1, <1>2, <1>7 DEF Tables

-----------------------------------------------------------------------------
\* The steps that leave the tables alone.
LEMMA OthersOK ==
  ASSUME Tables,
         \/ \E w \in Writes : LandLate(w)
         \/ \E o \in Orders : ClientCancels(o) \/ SellerMoves(o)
         \/ Survey \/ SellerDeletes \/ UNCHANGED vars
  PROVE  Tables'
<1>1. UNCHANGED <<batch, asg, ord, ret, kiz, cmd, read>>
  BY DEF LandLate, ClientCancels, SellerMoves, Survey, SellerDeletes, vars, people
<1> QED
  BY <1>1 DEF Tables

LEMMA SyncOK ==
  ASSUME Tables, Rest, Sync \/ Reconcile
  PROVE  Tables'
<1>1. UNCHANGED <<batch, ord, ret, kiz, cmd, read>>
  BY DEF Sync, Reconcile, people
<1>2. \E seen \in SUBSET Orders : asg' = Reconciled(seen)
  BY DEF Sync, Reconcile, Views, Rest
<1> QED
  BY <1>1, <1>2, ReconciledOK

-----------------------------------------------------------------------------
\* The tables are kept by every step, and so are the types of the rest.
LEMMA TablesStep ==
  ASSUME Tables, Rest, [Next]_vars
  PROVE  Tables'
<1>1. ASSUME NEW w \in Writes, Writing(w) \/ AskWb(w) \/ ReadFailed(w)
      PROVE  Tables'
  BY <1>1, ClaimOK, LandOK, LoseOK, AcceptedOK, UnclearOK, RefusedOK, AskWbOK,
     ReadFailedOK, OthersOK DEF Writing
<1>2. ASSUME NEW o \in Orders, Readings(o)
      PROVE  Tables'
  BY <1>2, SupplyOpenOK, SupplyClosedOK, SupplyMissingOK, MemberOK, NoMemberOK,
     LocatedOK, StillThereOK, HasLeftOK DEF Readings
<1>3. ASSUME NEW o \in Orders, Controllers(o)
      PROVE  Tables'
  BY <1>3, PackOK, FixCodeOK, RetryExclusionOK, ReportProblemOK, ExcludeOK DEF Controllers
<1>4. ASSUME NEW o \in Orders,
             Assign(o) \/ Schedule(o) \/ ClientCancels(o) \/ SellerMoves(o) \/ Import(o)
      PROVE  Tables'
  BY <1>4, AssignOK, ScheduleOK, ImportOK, OthersOK
<1>5. CASE \/ CodesRefused \/ Found \/ NotFound \/ IsDelivered \/ NotDelivered
           \/ RequestDelivery \/ Dispatch \/ ReturnWave
  BY <1>5, CodesRefusedOK, FoundOK, NotFoundOK, IsDeliveredOK, NotDeliveredOK,
     RequestDeliveryOK, DispatchOK, ReturnWaveOK
<1>6. CASE Sync \/ Reconcile \/ Survey \/ SellerDeletes \/ UNCHANGED vars
  BY <1>6, SyncOK, OthersOK
<1> QED
  BY <1>1, <1>2, <1>3, <1>4, <1>5, <1>6 DEF Next

\* A step takes some trouble, or none.
LEMMA TroubleOK ==
  ASSUME trouble \in 0..MaxTrouble, Trouble \/ UNCHANGED trouble
  PROVE  trouble' \in 0..MaxTrouble
  BY HandoverAssumption DEF Trouble

\* What WB carries out.
LEMMA CarryOK ==
  ASSUME Rest, NEW w \in Writes, NEW as \in {"here", "late"}, Carry(w, as)
  PROVE  /\ supply' \in [made : Nat, closed : BOOLEAN, gone : BOOLEAN]
         /\ place' \in [Orders -> {"free", "here", "late", "elsewhere"}]
         /\ dead' \subseteq Orders
<1>1. supply' \in [made : Nat, closed : BOOLEAN, gone : BOOLEAN]
  <2>1. CASE w[1] = "create"
    BY <2>1 DEF Carry, Rest
  <2>2. CASE w[1] = "deliver"
    BY <2>2 DEF Carry, Rest
  <2>3. CASE w[1] \notin {"create", "deliver"}
    BY <2>3 DEF Carry, Rest
  <2> QED
    BY <2>1, <2>2, <2>3
<1>2. place' \in [Orders -> {"free", "here", "late", "elsewhere"}]
  BY DEF Carry, Rest
<1>3. w[1] = "cancel" => w[2] \in Orders
  <2>1. CASE \E o \in Orders : w = Cancel(o)
    BY <2>1, OrderWrites
  <2>2. CASE \E o \in Orders : w = Add(o)
    BY <2>2, OrderWrites
  <2> QED
    BY <2>1, <2>2, WriteCases, SupplyWrites
<1>4. dead' \subseteq Orders
  BY <1>3 DEF Carry, Rest
<1> QED
  BY <1>1, <1>2, <1>4

LEMMA RestOfWrites ==
  ASSUME Rest, NEW w \in Writes, Writing(w) \/ AskWb(w) \/ ReadFailed(w)
  PROVE  Rest'
<1>1. CASE Claim(w) \/ Accepted(w) \/ Unclear(w) \/ Refused(w)
  BY <1>1 DEF Claim, Accepted, Unclear, Refused, wbVars, Rest
<1>2. CASE Land(w)
  <2>1. /\ UNCHANGED <<told, view, late>>
        /\ Trouble \/ UNCHANGED trouble
        /\ Carry(w, "here") \/ Ignore
    BY <1>2 DEF Land
  <2> QED
    BY <2>1, TroubleOK, CarryOK DEF Rest, Ignore
<1>3. CASE Lose(w)
  <2>1. /\ UNCHANGED <<told, view>> /\ Trouble /\ late' \in {late, late \cup {w}}
        /\ Carry(w, "here") \/ Ignore
    BY <1>3 DEF Lose, people
  <2> QED
    BY <2>1, TroubleOK, CarryOK DEF Rest, Ignore
<1>4. CASE LandLate(w)
  <2>1. /\ UNCHANGED <<told, view, trouble>> /\ late' = late \ {w}
        /\ Carry(w, "late") \/ Ignore
    BY <1>4 DEF LandLate, people
  <2> QED
    BY <2>1, CarryOK DEF Rest, Ignore
<1>5. CASE AskWb(w)
  <2>1. UNCHANGED <<told, view, wbVars>> /\ (Trouble \/ UNCHANGED trouble)
    BY <1>5 DEF AskWb, people
  <2> QED
    BY <2>1, TroubleOK DEF Rest, wbVars
<1>6. CASE ReadFailed(w)
  BY <1>6 DEF ReadFailed, Unread, wbVars, Rest
<1> QED
  BY <1>1, <1>2, <1>3, <1>4, <1>5, <1>6 DEF Writing

LEMMA RestOfOrders ==
  ASSUME Rest, NEW o \in Orders,
         \/ Assign(o) \/ Schedule(o) \/ Readings(o) \/ Controllers(o)
         \/ ClientCancels(o) \/ SellerMoves(o) \/ Import(o)
  PROVE  Rest'
<1>1. CASE Assign(o) \/ Schedule(o)
  BY <1>1 DEF Assign, Schedule, people, wbVars, Rest
<1>2. CASE Readings(o)
  <2>1. CASE Member(o)
    <3>1. told' = told \ {o} /\ UNCHANGED <<view, wbVars, trouble>>
      BY <2>1 DEF Member
    <3> QED
      BY <3>1 DEF wbVars, Rest
  <2>2. CASE ~Member(o)
    <3>1. UNCHANGED <<told, view, wbVars, trouble>>
      BY <1>2, <2>2 DEF Readings, SupplyOpen, SupplyClosed, SupplyMissing, NoMember,
                        Located, StillThere, HasLeft, Unread
    <3> QED
      BY <3>1 DEF wbVars, Rest
  <2> QED
    BY <2>1, <2>2
<1>3. CASE Controllers(o)
  <2>1. UNCHANGED <<told, view, wbVars>> /\ (Trouble \/ UNCHANGED trouble)
    BY <1>3 DEF Controllers, Pack, FixCode, RetryExclusion, ReportProblem, Exclude
  <2> QED
    BY <2>1, TroubleOK DEF wbVars, Rest
<1>4. CASE ClientCancels(o)
  BY <1>4, TroubleOK DEF ClientCancels, people, Rest
<1>5. CASE SellerMoves(o)
  BY <1>5, TroubleOK DEF SellerMoves, people, Rest
<1>6. CASE Import(o)
  BY <1>6 DEF Import, wbVars, Rest
<1> QED
  BY <1>1, <1>2, <1>3, <1>4, <1>5, <1>6

LEMMA RestOfBatch ==
  ASSUME Rest,
         \/ CodesRefused \/ Found \/ NotFound \/ IsDelivered \/ NotDelivered
         \/ Sync \/ Survey \/ Reconcile \/ RequestDelivery \/ Dispatch \/ ReturnWave
         \/ SellerDeletes \/ UNCHANGED vars
  PROVE  Rest'
<1>1. CASE CodesRefused \/ Found \/ NotFound \/ IsDelivered \/ NotDelivered
  BY <1>1 DEF CodesRefused, Found, NotFound, IsDelivered, NotDelivered, Unread, wbVars, Rest
<1>2. CASE Sync \/ RequestDelivery \/ Dispatch \/ UNCHANGED vars
  BY <1>2 DEF Sync, RequestDelivery, Dispatch, people, wbVars, vars, Rest
<1>3. CASE Reconcile
  BY <1>3 DEF Reconcile, NoView, people, wbVars, Rest
<1>4. CASE Survey
  <2>1. PICK seen \in Views : view' = [on |-> TRUE, seen |-> seen]
    BY <1>4 DEF Survey
  <2>2. seen \in SUBSET Orders
    BY <2>1 DEF Views
  <2>3. UNCHANGED <<told, wbVars>> /\ Trouble
    BY <1>4 DEF Survey, people
  <2> QED
    BY <2>1, <2>2, <2>3, TroubleOK DEF wbVars, Rest
<1>5. CASE ReturnWave
  BY <1>5, TroubleOK DEF ReturnWave, wbVars, Rest
<1>6. CASE SellerDeletes
  BY <1>6, TroubleOK DEF SellerDeletes, people, Rest
<1> QED
  BY <1>1, <1>2, <1>3, <1>4, <1>5, <1>6

LEMMA Initially == Init => Invariant
<1> SUFFICES ASSUME Init PROVE Invariant
  OBVIOUS
<1>1. /\ NoCommand \in Command /\ NoRead \in ReadRow /\ NoReturn \in Return
      /\ NoCommand.st = "none" /\ NoCommand.ans = "none"
      /\ NoRead.st = "none" /\ NoRead.ans = "none" /\ NoRead.at = "none"
  BY DEF NoCommand, NoRead, NoReturn, Command, ReadRow, Return, Statuses, ReadStatuses
<1>2. \A w \in Writes : RowOK(w, NoCommand, NoRead, batch, asg, ord, kiz)
  BY <1>1 DEF RowOK, Held, Kinds, Live, Open
<1>3. /\ batch \in Batch /\ asg \in [Orders -> Assignment] /\ ord \in [Orders -> OrderState]
      /\ kiz \in [Orders -> Code] /\ ret \in [Orders -> Return]
      /\ cmd = [w \in Writes |-> NoCommand] /\ read = [w \in Writes |-> NoRead]
      /\ \A o \in Orders : OrderOK(asg[o], ord[o])
  BY <1>1 DEF Init, Batch, Assignment, OrderState, Code, OrderOK
<1>4. Tables
  BY <1>1, <1>2, <1>3 DEF Tables, TablesOK
<1>5. Rest
  BY HandoverAssumption DEF Init, NoView, Rest
<1> QED
  BY <1>4, <1>5 DEF Invariant

LEMMA Step == Invariant /\ [Next]_vars => Invariant'
<1> SUFFICES ASSUME Tables, Rest, [Next]_vars PROVE Tables' /\ Rest'
  BY DEF Invariant
<1> QED
  BY TablesStep, RestOfWrites, RestOfOrders, RestOfBatch DEF Next

LEMMA Invariance == Spec => []Invariant
  BY Initially, Step, PTL DEF Spec

\* The tables of the handover have their types, no answer can be applied to a
\* command that is not waiting for it, and every readback is of a kind its write
\* needs (the first and second transactions of process_marketplace_command).
THEOREM HandoverTyping == Spec => []HandoverTypeOK
<1>1. Invariant => HandoverTypeOK
  <2> SUFFICES ASSUME Tables, Rest PROVE HandoverTypeOK
    BY DEF Invariant
  <2>1. ASSUME NEW w \in Writes
        PROVE  /\ cmd[w].ans # "none" => cmd[w].st \in {"sent", "cancelled"}
               /\ read[w].ans # "none" => read[w].st \in {"sent", "cancelled"}
               /\ read[w].at \in {"none", Readback(w)}
                    \cup (IF w[1] = "add" THEN {"member", "lookup"} ELSE {})
    BY Known1 DEF RowOK, Held, Kinds
  <2>2. /\ batch \in Batch /\ asg \in [Orders -> Assignment] /\ ord \in [Orders -> OrderState]
        /\ kiz \in [Orders -> Code] /\ cmd \in [Writes -> Command]
        /\ read \in [Writes -> ReadRow] /\ ret \in [Orders -> Return]
    BY Known1
  <2> QED
    BY <2>1, <2>2 DEF HandoverTypeOK, Rest, Batch, Assignment, OrderState, Code, Command,
                      ReadRow, Return, Statuses, ReadStatuses
<1> QED
  BY <1>1, Invariance, PTL

-----------------------------------------------------------------------------
(***************************************************************************)
(* Where the orders are.  An order that is not out and is in the supply    *)
(* has an add that may have brought it there, which no readback says it    *)
(* did not; one that is out is brought there only by an add that the       *)
(* return of its wave passed over; a delivery waits for no order.          *)
(***************************************************************************)
InSupply(o) == place[o] = "here" /\ o \notin dead

AddFits(o, x, y, order, gap) ==
  /\ x.ans = "asked" /\ order = "exception" => o \in dead \/ gap = "wave"
  /\ x.ans = "refused" => supply.gone \/ o \in dead
  /\ y.ans = "missing" => supply.gone
  /\ y.ans = "closed" => supply.closed
  /\ order # "exception" => y.st # "cancelled"
  /\ InSupply(o) /\ order # "exception" =>
       /\ x.st \in {"sent", "conflict", "confirmed"}
       /\ y.ans \notin {"away", "elsewhere"}
       /\ y.at = "lookup" => y.st \notin Open

CancelFits(o, x, y, order, gap) ==
  /\ order # "exception" => y.at = "none" /\ x.st = "none"
  /\ InSupply(o) /\ y.ans = "away" => gap = "wave"

OrderFits(o, assignment, order, return, delivery) ==
  /\ (return.st = "none") <=> (order # "exception")
  /\ order # "exception" /\ assignment = "pending" => delivery.st = "none"
  /\ InSupply(o) => ~supply.gone /\ (return.st = "queued" => return.gap = "wave")

Fit(o, a, os, rt, c, r) ==
  /\ AddFits(o, c[Add(o)], r[Add(o)], os[o], rt[o].gap)
  /\ CancelFits(o, c[Cancel(o)], r[Cancel(o)], os[o], rt[o].gap)
  /\ OrderFits(o, a[o], os[o], rt[o], c[Deliver])

Fits == \A o \in Orders : Fit(o, asg, ord, ret, cmd, read)

Told == /\ told \subseteq dead
        /\ cmd[Deliver].st = "none" => Deliver \notin late /\ ~supply.closed

\* What a step leaves of WB's side.
LEMMA FitNext ==
  ASSUME UNCHANGED <<supply, place, dead>>, NEW o, Fit(o, asg', ord', ret', cmd', read')
  PROVE  Fit(o, asg, ord, ret, cmd, read)'
  BY DEF Fit, AddFits, CancelFits, OrderFits, InSupply

\* One write and its readback change: only its own order is in question.
LEMMA FitOne ==
  ASSUME NEW a, NEW os, NEW rt, NEW c \in [Writes -> Command], NEW r \in [Writes -> ReadRow],
         \A o \in Orders : Fit(o, a, os, rt, c, r),
         NEW w \in Writes, NEW x, NEW y,
         w = Deliver => (x.st = "none") <=> (c[w].st = "none"),
         \A o \in Orders : w = Add(o) => AddFits(o, x, y, os[o], rt[o].gap),
         \A o \in Orders : w = Cancel(o) => CancelFits(o, x, y, os[o], rt[o].gap)
  PROVE  \A o \in Orders : Fit(o, a, os, rt, [c EXCEPT ![w] = x], [r EXCEPT ![w] = y])
<1> TAKE o \in Orders
<1> DEFINE c2 == [c EXCEPT ![w] = x]
           r2 == [r EXCEPT ![w] = y]
<1>1. /\ \A v \in Writes : v # w => c2[v] = c[v] /\ r2[v] = r[v]
      /\ c2[w] = x /\ r2[w] = y
  OBVIOUS
<1>2. /\ AddFits(o, c[Add(o)], r[Add(o)], os[o], rt[o].gap)
      /\ CancelFits(o, c[Cancel(o)], r[Cancel(o)], os[o], rt[o].gap)
      /\ OrderFits(o, a[o], os[o], rt[o], c[Deliver])
  BY DEF Fit
<1> HIDE DEF c2, r2
<1>3. AddFits(o, c2[Add(o)], r2[Add(o)], os[o], rt[o].gap)
  <2>1. CASE w = Add(o)
    BY <1>1, <2>1
  <2>2. CASE w # Add(o)
    <3>1. c2[Add(o)] = c[Add(o)] /\ r2[Add(o)] = r[Add(o)]
      BY <1>1, <2>2, OrderWrites
    <3> QED
      BY <1>2, <3>1
  <2> QED
    BY <2>1, <2>2
<1>4. CancelFits(o, c2[Cancel(o)], r2[Cancel(o)], os[o], rt[o].gap)
  <2>1. CASE w = Cancel(o)
    BY <1>1, <2>1
  <2>2. CASE w # Cancel(o)
    <3>1. c2[Cancel(o)] = c[Cancel(o)] /\ r2[Cancel(o)] = r[Cancel(o)]
      BY <1>1, <2>2, OrderWrites
    <3> QED
      BY <1>2, <3>1
  <2> QED
    BY <2>1, <2>2
<1>5. (c2[Deliver].st = "none") <=> (c[Deliver].st = "none")
  BY <1>1, SupplyWrites
<1>6. OrderFits(o, a[o], os[o], rt[o], c2[Deliver])
  BY <1>2, <1>5 DEF OrderFits
<1>7. Fit(o, a, os, rt, c2, r2)
  BY <1>3, <1>4, <1>6 DEF Fit
<1> QED
  BY <1>7 DEF c2, r2

\* A command alone, or a readback alone.
LEMMA FitCommand ==
  ASSUME NEW a, NEW os, NEW rt, NEW c \in [Writes -> Command], NEW r \in [Writes -> ReadRow],
         \A o \in Orders : Fit(o, a, os, rt, c, r),
         NEW w \in Writes, NEW x,
         w = Deliver => (x.st = "none") <=> (c[w].st = "none"),
         \A o \in Orders : w = Add(o) => AddFits(o, x, r[w], os[o], rt[o].gap),
         \A o \in Orders : w = Cancel(o) => CancelFits(o, x, r[w], os[o], rt[o].gap)
  PROVE  \A o \in Orders : Fit(o, a, os, rt, [c EXCEPT ![w] = x], r)
<1>1. [r EXCEPT ![w] = r[w]] = r
  OBVIOUS
<1>2. \A o \in Orders : Fit(o, a, os, rt, [c EXCEPT ![w] = x], [r EXCEPT ![w] = r[w]])
  BY FitOne
<1> QED
  BY <1>1, <1>2

LEMMA FitRead ==
  ASSUME NEW a, NEW os, NEW rt, NEW c \in [Writes -> Command], NEW r \in [Writes -> ReadRow],
         \A o \in Orders : Fit(o, a, os, rt, c, r),
         NEW w \in Writes, NEW y,
         \A o \in Orders : w = Add(o) => AddFits(o, c[w], y, os[o], rt[o].gap),
         \A o \in Orders : w = Cancel(o) => CancelFits(o, c[w], y, os[o], rt[o].gap)
  PROVE  \A o \in Orders : Fit(o, a, os, rt, c, [r EXCEPT ![w] = y])
<1>1. [c EXCEPT ![w] = c[w]] = c
  OBVIOUS
<1>2. \A o \in Orders : Fit(o, a, os, rt, [c EXCEPT ![w] = c[w]], [r EXCEPT ![w] = y])
  BY FitOne
<1> QED
  BY <1>1, <1>2

\* What a transaction commits fits if its own writes do.
LEMMA CommitFits ==
  ASSUME NEW b, NEW a, NEW c, NEW r, NEW conclusive,
         c \in [Writes -> Command], r \in [Writes -> ReadRow], ret \in [Orders -> Return],
         \A o \in Orders : Held(c[Add(o)]),
         \A o \in Orders : Fit(o, a, ord, ret, c, r),
         Commit(b, a, c, r, conclusive), UNCHANGED <<supply, place, dead>>
  PROVE  Fits'
<1> DEFINE New(old, new, w) == new[w].st = "failed" /\ old[w].st # "failed"
           lost == {o \in Orders : New(cmd, c, Add(o)) /\ a[o] # "moved"}
           stuck == {o \in Orders : New(cmd, c, Cancel(o)) \/ New(read, r, Cancel(o))}
           may == {o \in lost : conclusive /\ ret[o].st = "none" /\ MayLeave}
<1>1. PICK back \in SUBSET may :
        /\ cmd' = c
        /\ asg' = [o \in Orders |-> IF o \in lost THEN "error" ELSE a[o]]
        /\ ord' = [o \in Orders |-> IF o \in back THEN "exception" ELSE ord[o]]
        /\ ret' = [o \in Orders |->
             CASE o \in back -> TakenOut("verify", FALSE)
               [] o \in stuck /\ ret[o].st = "waiting" -> [ret[o] EXCEPT !.st = "failed"]
               [] OTHER -> ret[o]]
        /\ read' = [w \in Writes |->
             IF w \in {Cancel(o) : o \in back} THEN Ask(r, w, "absence")[w] ELSE r[w]]
  BY DEF Commit
<1> SUFFICES ASSUME NEW o \in Orders PROVE Fit(o, asg', ord', ret', cmd', read')
  BY FitNext DEF Fits
<1>2. /\ c \in [Writes -> Command] /\ r \in [Writes -> ReadRow]
      /\ Add(o) \in Writes /\ Cancel(o) \in Writes /\ Add(o) # Cancel(o)
      /\ Fit(o, a, ord, ret, c, r) /\ Held(c[Add(o)])
  BY OrderWrites
<1>3. /\ cmd'[Add(o)] = c[Add(o)] /\ cmd'[Cancel(o)] = c[Cancel(o)] /\ cmd'[Deliver] = c[Deliver]
      /\ asg'[o] \in {a[o], "error"}
      /\ read'[Add(o)] = r[Add(o)]
  <2>1. read'[Add(o)] = r[Add(o)]
    <3>1. Add(o) \notin {Cancel(p) : p \in back}
      BY OrderWrites DEF Add, Cancel
    <3> QED
      BY <1>1, <1>2, <3>1
  <2> QED
    BY <1>1, <2>1
<1>4. CASE o \in back
  <2>1. c[Add(o)].st = "failed" /\ ret'[o] = TakenOut("verify", FALSE) /\ ord'[o] = "exception"
    BY <1>1, <1>4
  <2>2. ret'[o].st = "waiting"
    BY <2>1, TakenOutOK
  <2>3. c[Add(o)].ans = "none"
    BY <1>2, <2>1 DEF Held
  <2>4. read'[Cancel(o)].ans = "none"
    <3>1. read'[Cancel(o)] = Ask(r, Cancel(o), "absence")[Cancel(o)]
      BY <1>1, <1>2, <1>4
    <3> QED
      BY <1>2, <3>1 DEF Ask
  <2> QED
    <3>1. AddFits(o, c[Add(o)], read'[Add(o)], ord'[o], ret'[o].gap)
      BY <1>2, <1>3, <2>1, <2>3 DEF Fit, AddFits
    <3>2. CancelFits(o, c[Cancel(o)], read'[Cancel(o)], ord'[o], ret'[o].gap)
      BY <1>2, <1>3, <2>1, <2>4 DEF Fit, CancelFits
    <3>3. OrderFits(o, asg'[o], ord'[o], ret'[o], c[Deliver])
      BY <1>2, <1>3, <2>1, <2>2 DEF Fit, OrderFits
    <3> QED
      BY <1>3, <3>1, <3>2, <3>3 DEF Fit
<1>5. CASE o \notin back
  <2>1. ord'[o] = ord[o] /\ read'[Cancel(o)] = r[Cancel(o)]
    <3>1. Cancel(o) \notin {Cancel(p) : p \in back}
      BY <1>5, OrderWrites
    <3> QED
      BY <1>1, <1>2, <1>5, <3>1
  <2>2. ret'[o] = ret[o] \/ (ret[o].st = "waiting" /\ ret'[o] = [ret[o] EXCEPT !.st = "failed"])
    BY <1>1, <1>5
  <2>3. ret'[o].gap = ret[o].gap /\ (ret'[o].st = ret[o].st \/ (ret[o].st = "waiting" /\ ret'[o].st = "failed"))
    BY <2>2 DEF Return
  <2> QED
    BY <1>2, <1>3, <2>1, <2>3 DEF Fit, AddFits, CancelFits, OrderFits
<1> QED
  BY <1>4, <1>5

\* The usual case: one write and its readback.
LEMMA CommitOne ==
  ASSUME Tables, Fits, NEW b, NEW a, NEW conclusive,
         \A o \in Orders : a[o] = asg[o] \/ a[o] = "confirmed",
         NEW w \in Writes, NEW x \in Command, NEW y \in ReadRow, Held(x),
         Commit(b, a, [cmd EXCEPT ![w] = x], [read EXCEPT ![w] = y], conclusive),
         UNCHANGED <<supply, place, dead>>,
         w = Deliver => (x.st = "none") <=> (cmd[w].st = "none"),
         \A o \in Orders : w = Add(o) => AddFits(o, x, y, ord[o], ret[o].gap),
         \A o \in Orders : w = Cancel(o) => CancelFits(o, x, y, ord[o], ret[o].gap)
  PROVE  Fits'
<1> DEFINE c == [cmd EXCEPT ![w] = x]
           r == [read EXCEPT ![w] = y]
<1>1. cmd \in [Writes -> Command] /\ read \in [Writes -> ReadRow] /\ ret \in [Orders -> Return]
  BY Known1
<1>2. c \in [Writes -> Command] /\ r \in [Writes -> ReadRow]
  BY <1>1
<1>3. \A o \in Orders : Held(cmd[Add(o)])
  BY Known1 DEF RowOK
<1>4. \A o \in Orders : Held(c[Add(o)])
  BY <1>1, <1>3, OrderWrites
<1>5. \A o \in Orders : Fit(o, asg, ord, ret, c, r)
  BY <1>1, FitOne DEF Fits
<1> HIDE DEF c, r
<1>6. \A o \in Orders : Fit(o, a, ord, ret, c, r)
  BY <1>5 DEF Fit, OrderFits
<1>7. Commit(b, a, c, r, conclusive)
  BY DEF c, r
<1> QED
  BY <1>1, <1>2, <1>4, <1>6, <1>7, CommitFits

-----------------------------------------------------------------------------
\* The answers to writes.
LEMMA FitsAre ==
  ASSUME Fits, NEW o \in Orders
  PROVE  /\ AddFits(o, cmd[Add(o)], read[Add(o)], ord[o], ret[o].gap)
         /\ CancelFits(o, cmd[Cancel(o)], read[Cancel(o)], ord[o], ret[o].gap)
         /\ OrderFits(o, asg[o], ord[o], ret[o], cmd[Deliver])
  BY DEF Fits, Fit

LEMMA DoubtFits ==
  ASSUME Tables, Fits, NEW w \in Writes, cmd[w].ans # "none", Deferred(w),
         UNCHANGED <<supply, place, dead>>
  PROVE  Fits'
<1> DEFINE x == Settle(cmd, w, "conflict")[w]
           y == [at |-> Readback(w), st |-> "pending", tries |-> 0, ans |-> "none"]
<1>1. /\ Settle(cmd, w, "conflict") = [cmd EXCEPT ![w] = x] /\ x \in Command
      /\ x.st = "conflict" /\ x.ans = "none" /\ Held(x)
  BY SettledCommand, Known1 DEF Statuses, Held
<1>2. y \in ReadRow /\ Ask(read, w, Readback(w)) = [read EXCEPT ![w] = y]
  BY ReadbackKinds DEF ReadRow, ReadStatuses, Ask
<1>3. cmd[w].st \in {"sent", "cancelled"}
  BY Known1 DEF RowOK, Held
<1>4. y.at = Readback(w) /\ y.st = "pending" /\ y.ans = "none"
  OBVIOUS
<1> HIDE DEF x, y
<1>5. ASSUME NEW o \in Orders, w = Add(o) PROVE AddFits(o, x, y, ord[o], ret[o].gap)
  BY <1>1, <1>4, <1>5, OrderWrites DEF AddFits
<1>6. ASSUME NEW o \in Orders, w = Cancel(o) PROVE CancelFits(o, x, y, ord[o], ret[o].gap)
  BY <1>3, <1>4, <1>6, FitsAre DEF CancelFits
<1>7. Commit(batch, asg, [cmd EXCEPT ![w] = x], [read EXCEPT ![w] = y], FALSE)
  BY <1>1, <1>2 DEF Deferred
<1> QED
  BY <1>1, <1>2, <1>3, <1>5, <1>6, <1>7, CommitOne

\* A write that had been answered, or was not sent, is settled for good.
LEMMA SettleFits ==
  ASSUME Tables, Fits, NEW w \in Writes, NEW st \in Statuses \ {"none"}, NEW b, NEW conclusive,
         cmd[w].st # "none", Commit(b, asg, Settle(cmd, w, st), read, conclusive),
         UNCHANGED <<supply, place, dead>>,
         \A o \in Orders : w = Add(o) => ord[o] = "exception" \/ ~InSupply(o)
  PROVE  Fits'
<1> DEFINE x == Settle(cmd, w, st)[w]
<1>1. /\ Settle(cmd, w, st) = [cmd EXCEPT ![w] = x] /\ x \in Command
      /\ x.st = st /\ x.ans = "none" /\ Held(x)
  BY SettledCommand, Known1 DEF Held
<1> HIDE DEF x
<1>2. read[w] \in ReadRow /\ [read EXCEPT ![w] = read[w]] = read
  BY Known1
<1>3. ASSUME NEW o \in Orders, w = Add(o) PROVE AddFits(o, x, read[w], ord[o], ret[o].gap)
  BY <1>1, <1>3, FitsAre DEF AddFits
<1>4. ASSUME NEW o \in Orders, w = Cancel(o) PROVE CancelFits(o, x, read[w], ord[o], ret[o].gap)
  BY <1>1, <1>4, FitsAre DEF CancelFits
<1>5. Commit(b, asg, [cmd EXCEPT ![w] = x], [read EXCEPT ![w] = read[w]], conclusive)
  BY <1>1, <1>2
<1> QED
  BY <1>1, <1>2, <1>3, <1>4, <1>5, CommitOne

LEMMA ClaimFits ==
  ASSUME Tables, Fits, Told, NEW w \in Writes, Claim(w)
  PROVE  Fits'
<1>1. cmd[w].st \in Active /\ UNCHANGED <<supply, place, dead>>
  BY DEF Claim, wbVars
<1>2. CASE w[1] = "add" /\ Excluded(w[2])
  <2>1. PICK o \in Orders : w = Add(o) /\ w[2] = o /\ ord[o] = "exception"
    BY <1>2, AddsAre, Known1
  <2>2. /\ cmd' = Settle(cmd, w, "cancelled") /\ UNCHANGED <<batch, ord, ret, read>>
        /\ asg' = [asg EXCEPT ![o] = IF @ \in {"pending", "error"} THEN "canceled" ELSE @]
    BY <1>2, <2>1 DEF Claim
  <2> DEFINE x == Settle(cmd, w, "cancelled")[w]
  <2>3. cmd' = [cmd EXCEPT ![w] = x] /\ x.ans = "none"
    BY <2>2, SettledCommand, Known1 DEF Statuses
  <2> HIDE DEF x
  <2>4. AddFits(o, x, read[w], ord[o], ret[o].gap)
    BY <2>1, <2>3, FitsAre DEF AddFits
  <2>5. \A p \in Orders : w = Add(p) => p = o
    BY <2>1, OrderWrites
  <2>6. \A p \in Orders : Fit(p, asg, ord, ret, [cmd EXCEPT ![w] = x], read)
    <3>1. \A p \in Orders : w # Cancel(p)
      BY <1>2, OrderWrites
    <3>2. w # Deliver
      BY <2>1, OrderWrites
    <3> QED
      BY <2>1, <2>4, <2>5, <3>1, <3>2, FitCommand, Known1 DEF Fits
  <2>7. ASSUME NEW p \in Orders PROVE Fit(p, asg', ord', ret', cmd', read')
    <3>1. Fit(p, asg, ord, ret, cmd', read)
      BY <2>3, <2>6
    <3>2. asg'[p] = asg[p] \/ ord[p] = "exception"
      BY <2>1, <2>2, Known1
    <3> QED
      BY <2>2, <3>1, <3>2 DEF Fit, OrderFits
  <2> QED
    BY <1>1, <2>7, FitNext DEF Fits
<1>3. CASE ~(w[1] = "add" /\ Excluded(w[2])) /\ w[1] = "add" /\ w[2] \in told
  <2>1. Commit(batch, asg, Settle(cmd, w, "failed"), read, TRUE)
    BY <1>3 DEF Claim
  <2>2. \A o \in Orders : w = Add(o) => ~InSupply(o)
    BY <1>3, OrderWrites DEF Told, InSupply
  <2> QED
    BY <1>1, <2>1, <2>2, SettleFits DEF Statuses, Active
<1>4. CASE ~(w[1] = "add" /\ Excluded(w[2])) /\ ~(w[1] = "add" /\ w[2] \in told)
  <2> DEFINE x == [st |-> "sent", tries |-> cmd[w].tries + 1, ans |-> "asked"]
  <2>1. cmd' = [cmd EXCEPT ![w] = x] /\ UNCHANGED <<batch, asg, ord, ret, read>>
    BY <1>4 DEF Claim
  <2>2. x.st = "sent" /\ x.ans = "asked"
    OBVIOUS
  <2> HIDE DEF x
  <2>3. cmd[w].st # "none"
    BY <1>1 DEF Active
  <2>4. ASSUME NEW o \in Orders, w = Add(o) PROVE AddFits(o, x, read[w], ord[o], ret[o].gap)
    <3>1. ord[o] # "exception"
      BY <1>4, <2>4, OrderWrites DEF Excluded
    <3> QED
      BY <2>2, <2>4, <3>1, FitsAre DEF AddFits
  <2>5. ASSUME NEW o \in Orders, w = Cancel(o) PROVE CancelFits(o, x, read[w], ord[o], ret[o].gap)
    BY <2>3, <2>5, FitsAre DEF CancelFits
  <2>6. \A p \in Orders : Fit(p, asg, ord, ret, [cmd EXCEPT ![w] = x], read)
    BY <2>2, <2>3, <2>4, <2>5, FitCommand, Known1 DEF Fits
  <2> QED
    BY <1>1, <2>1, <2>6, FitNext DEF Fits
<1> QED
  BY <1>2, <1>3, <1>4

\* The supply is made: what waited for it is scheduled.
LEMMA EnqueuedRow ==
  ASSUME NEW c \in [Writes -> Command], NEW w \in Writes
  PROVE  /\ Enqueue(c, w)[w].ans = c[w].ans
         /\ Enqueue(c, w)[w].st = (IF c[w].st = "none" THEN "pending" ELSE c[w].st)
         /\ \A v \in Writes : v # w => Enqueue(c, w)[v] = c[v]
         /\ Enqueue(c, w) \in [Writes -> Command]
<1>1. ASSUME NEW z \in Command PROVE LET x == [z EXCEPT !.st = "pending"]
                                     IN x \in Command /\ x.st = "pending" /\ x.ans = z.ans
  BY DEF Command, Statuses
<1>2. CASE c[w].st = "none"
  <2> DEFINE x == [c[w] EXCEPT !.st = "pending"]
  <2>1. x \in Command /\ x.st = "pending" /\ x.ans = c[w].ans
    BY <1>1
  <2>2. Enqueue(c, w) = [c EXCEPT ![w] = x]
    BY <1>2 DEF Enqueue
  <2> HIDE DEF x
  <2> QED
    BY <1>2, <2>1, <2>2
<1>3. CASE c[w].st # "none"
  BY <1>3 DEF Enqueue
<1> QED
  BY <1>2, <1>3

LEMMA MadeFits ==
  ASSUME Tables, Fits, NEW x \in Command, NEW y \in ReadRow,
         Commit(Known, asg, Scheduling([cmd EXCEPT ![Create] = x], OrdersAdded),
                [read EXCEPT ![Create] = y], FALSE),
         UNCHANGED <<supply, place, dead>>
  PROVE  Fits'
<1> DEFINE c == [cmd EXCEPT ![Create] = x]
           r == [read EXCEPT ![Create] = y]
           s == Scheduling(c, OrdersAdded)
<1>1. c \in [Writes -> Command] /\ r \in [Writes -> ReadRow] /\ ret \in [Orders -> Return]
      /\ cmd \in [Writes -> Command] /\ read \in [Writes -> ReadRow]
  BY Known1
<1>2. \A o \in Orders : Fit(o, asg, ord, ret, c, r)
  <2>1. \A o \in Orders : Create # Add(o) /\ Create # Cancel(o)
    BY OrderWrites
  <2> QED
    BY <1>1, <2>1, SupplyWrites, FitOne DEF Fits
<1>3. \A o \in Orders : Held(c[Add(o)])
  BY <1>1, OrderWrites, SupplyWrites, Known1 DEF RowOK
<1> HIDE DEF c, r
<1>4. ASSUME NEW w \in Writes
      PROVE  /\ s[w] \in Command /\ s[w].ans = c[w].ans
             /\ s[w].st = c[w].st \/ (c[w].st = "none" /\ s[w].st = "pending" /\ w[1] = "add")
  <2>1. CASE \E o \in OrdersAdded : w = Add(o)
    <3>1. s[w] = Enqueue(c, w)[w] /\ w[1] = "add"
      BY <2>1, OrderWrites DEF Scheduling, OrdersAdded
    <3> QED
      BY <1>1, <3>1, EnqueuedRow
  <2>2. CASE ~\E o \in OrdersAdded : w = Add(o)
    BY <1>1, <2>2 DEF Scheduling
  <2> QED
    BY <2>1, <2>2
<1>5. s \in [Writes -> Command]
  BY <1>4 DEF Scheduling
<1> HIDE DEF s
<1>6. ASSUME NEW o \in Orders PROVE Held(s[Add(o)]) /\ Fit(o, asg, ord, ret, s, r)
  <2>1. /\ s[Add(o)].ans = c[Add(o)].ans
        /\ s[Add(o)].st = c[Add(o)].st \/ (c[Add(o)].st = "none" /\ s[Add(o)].st = "pending")
        /\ s[Cancel(o)].st = c[Cancel(o)].st
        /\ s[Deliver].st = c[Deliver].st
    BY <1>4, OrderWrites, SupplyWrites
  <2>2. Fit(o, asg, ord, ret, c, r) /\ Held(c[Add(o)])
    BY <1>2, <1>3
  <2> QED
    BY <2>1, <2>2 DEF Fit, AddFits, CancelFits, OrderFits, Held
<1>7. Commit(Known, asg, s, r, FALSE)
  BY DEF s, c, r
<1> QED
  BY <1>1, <1>5, <1>6, <1>7, CommitFits

LEMMA DeliveredFits ==
  ASSUME Tables, Fits, NEW x \in Command, NEW y \in ReadRow,
         (x.st = "none") <=> (cmd[Deliver].st = "none"),
         Delivered([cmd EXCEPT ![Deliver] = x], [read EXCEPT ![Deliver] = y]),
         UNCHANGED <<supply, place, dead>>
  PROVE  Fits'
<1>1. /\ cmd' = [cmd EXCEPT ![Deliver] = x] /\ read' = [read EXCEPT ![Deliver] = y]
      /\ UNCHANGED <<asg, ret>> /\ (ord' = HandedOver \/ ord' = ord)
  BY DEF Delivered
<1>2. \A o \in Orders : Fit(o, asg, ord, ret, cmd', read')
  <2>1. \A o \in Orders : Deliver # Add(o) /\ Deliver # Cancel(o)
    BY OrderWrites
  <2> QED
    BY <1>1, <2>1, SupplyWrites, FitOne, Known1 DEF Fits
<1>3. \A o \in Orders : (ord'[o] = "exception") <=> (ord[o] = "exception")
  BY <1>1 DEF HandedOver
<1>4. \A o \in Orders : Fit(o, asg', ord', ret', cmd', read')
  BY <1>1, <1>2, <1>3 DEF Fit, AddFits, CancelFits, OrderFits
<1> QED
  BY <1>4, FitNext DEF Fits

LEMMA AcceptedFits ==
  ASSUME Tables, Fits, NEW w \in Writes, Accepted(w)
  PROVE  Fits'
<1>1. cmd[w].ans = "ok" /\ UNCHANGED <<supply, place, dead>>
  BY DEF Accepted, wbVars
<1>2. RowOK(w, cmd[w], read[w], batch, asg, ord, kiz) /\ cmd[w].st \in {"sent", "cancelled"}
  BY <1>1, Known1 DEF RowOK, Held
<1> DEFINE x == [NoCommand EXCEPT !.st = "confirmed"]
<1>3. x \in Command /\ x.st = "confirmed" /\ Confirm(cmd, w) = [cmd EXCEPT ![w] = x]
      /\ read[w] \in ReadRow /\ [read EXCEPT ![w] = read[w]] = read
  BY Known1 DEF NoCommand, Command, Statuses, Confirm
<1> HIDE DEF x
<1>4. CASE w = Create
  <2>1. Commit(Known, asg, Scheduling(Confirm(cmd, w), OrdersAdded), read, FALSE)
    BY <1>4, SupplyWrites DEF Accepted
  <2>2. Commit(Known, asg, Scheduling([cmd EXCEPT ![Create] = x], OrdersAdded),
               [read EXCEPT ![Create] = read[w]], FALSE)
    BY <1>3, <1>4, <2>1
  <2> QED
    BY <1>1, <1>3, <2>2, MadeFits
<1>5. CASE w = Deliver
  <2>1. Delivered(Confirm(cmd, w), read)
    BY <1>5, SupplyWrites DEF Accepted
  <2>2. Delivered([cmd EXCEPT ![Deliver] = x], [read EXCEPT ![Deliver] = read[w]])
    BY <1>3, <1>5, <2>1
  <2> QED
    BY <1>1, <1>2, <1>3, <1>5, <2>2, DeliveredFits
<1>6. CASE w[1] \in {"add", "cancel"}
  <2>1. IF cmd[w].st = "sent" THEN Deferred(w)
        ELSE Commit(batch, asg, Settle(cmd, w, cmd[w].st), read, FALSE)
    BY <1>6, SupplyWrites DEF Accepted
  <2>2. CASE cmd[w].st = "sent"
    BY <1>1, <2>1, <2>2, DoubtFits
  <2>3. CASE cmd[w].st # "sent"
    <3>1. cmd[w].st = "cancelled" /\ "cancelled" \in Statuses \ {"none"}
      BY <1>2, <2>3 DEF Statuses
    <3>2. \A o \in Orders : w = Add(o) => ord[o] = "exception"
      BY <1>2, <3>1, OrderWrites DEF RowOK
    <3> QED
      BY <1>1, <2>1, <3>1, <3>2, SettleFits
  <2> QED
    BY <2>2, <2>3
<1>7. w = Create \/ w = Deliver \/ w[1] \in {"add", "cancel"}
  BY WriteCases, OrderWrites
<1> QED
  BY <1>4, <1>5, <1>6, <1>7

LEMMA UnclearFits ==
  ASSUME Tables, Fits, NEW w \in Writes, Unclear(w)
  PROVE  Fits'
  BY DoubtFits DEF Unclear, wbVars

\* WB refuses an add only if it has no such supply, or the order is over.
LEMMA RefusedFits ==
  ASSUME Tables, Fits, NEW w \in Writes, Refused(w)
  PROVE  Fits'
<1>1. /\ cmd[w].ans = "refused" /\ UNCHANGED <<supply, place, dead>>
      /\ Commit(batch, asg, Settle(cmd, w, "failed"), read, FALSE)
  BY DEF Refused, wbVars
<1>2. cmd[w].st # "none" /\ "failed" \in Statuses \ {"none"}
  BY <1>1, Known1 DEF RowOK, Held, Statuses
<1>3. \A o \in Orders : w = Add(o) => ~InSupply(o)
  BY <1>1, FitsAre DEF AddFits, OrderFits, InSupply
<1> QED
  BY <1>1, <1>2, <1>3, SettleFits

LEMMA CodesRefusedFits ==
  ASSUME Tables, Fits, CodesRefused
  PROVE  Fits'
<1>1. /\ cmd[Deliver].ans = "kiz" /\ UNCHANGED <<supply, place, dead>>
      /\ Commit([batch EXCEPT !.mk = "error"], asg, Settle(cmd, Deliver, "conflict"), read, FALSE)
  BY DEF CodesRefused, wbVars
<1>2. cmd[Deliver].st # "none" /\ "conflict" \in Statuses \ {"none"}
  BY <1>1, SupplyWrites, Known1 DEF RowOK, Held, Statuses
<1>3. \A o \in Orders : Deliver # Add(o)
  BY OrderWrites
<1> QED
  BY <1>1, <1>2, <1>3, SupplyWrites, SettleFits

-----------------------------------------------------------------------------
\* The answers to readbacks.
LEMMA EmptyRead ==
  /\ NoRead \in ReadRow
  /\ NoRead.st = "none" /\ NoRead.ans = "none" /\ NoRead.at = "none"
  BY DEF NoRead, ReadRow, ReadStatuses

\* A search that is under way is of an order that is not in the supply, if it
\* is not out; and so is one that was answered.
LEMMA SearchedFor ==
  ASSUME Tables, Fits, NEW o \in Orders, ord[o] # "exception",
         read[Add(o)].at = "lookup", read[Add(o)].ans # "none" \/ read[Add(o)].st \in Open
  PROVE  ~InSupply(o)
<1>1. Held(read[Add(o)]) /\ read[Add(o)].st # "cancelled"
  BY FitsAre, Known1 DEF AddFits, RowOK
<1>2. read[Add(o)].st \in Open
  BY <1>1 DEF Held, Open
<1> QED
  BY <1>2, FitsAre DEF AddFits

LEMMA ReadFailedFits ==
  ASSUME Tables, Fits, NEW w \in Writes, ReadFailed(w)
  PROVE  Fits'
<1> DEFINE reads == CASE read[w].ans = "refused" -> Settle(read, w, "failed")
                      [] read[w].ans = "conflict" -> Settle(read, w, "conflict")
                      [] OTHER -> RetryOrFailed(read, w)
           table == IF read[w].at = "lookup" /\ reads[w].st \in {"failed", "conflict"}
                    THEN Retried(w) ELSE cmd
<1>1. /\ read[w].ans # "none" /\ UNCHANGED <<supply, place, dead>>
      /\ Commit(batch, asg, table, reads, FALSE)
  BY DEF ReadFailed, Reading, Unread, wbVars
<1>2. /\ cmd \in [Writes -> Command] /\ read \in [Writes -> ReadRow]
      /\ RowOK(w, cmd[w], read[w], batch, asg, ord, kiz)
  BY Known1
<1>3. PICK st \in {"retry", "failed", "conflict"} : reads = Settle(read, w, st)
  BY DEF RetryOrFailed
<1>4. \/ read[w].at = "lookup" /\ table = Retried(w)
      \/ table = cmd
  OBVIOUS
<1> HIDE DEF reads, table
<1>5. /\ reads = [read EXCEPT ![w] = reads[w]] /\ reads[w] \in ReadRow
      /\ reads[w].st = st /\ reads[w].ans = "none" /\ reads[w].at = read[w].at
  BY <1>2, <1>3, SettledRead DEF ReadStatuses
<1>6. /\ table = [cmd EXCEPT ![w] = table[w]] /\ table[w] \in Command
      /\ \/ table[w] = cmd[w]
         \/ /\ cmd[w].st = "conflict" /\ read[w].at = "lookup" /\ table[w].ans = "none"
            /\ table[w].st \in {"confirmed", "retry", "failed"}
  BY <1>2, <1>4, VerdictRow DEF InDoubt
<1>7. Held(table[w])
  BY <1>2, <1>6 DEF RowOK, Held
<1>8. ASSUME NEW o \in Orders, w = Add(o)
      PROVE  AddFits(o, table[w], reads[w], ord[o], ret[o].gap)
  <2>1. ord[o] # "exception" /\ read[w].at = "lookup" => ~InSupply(o)
    BY <1>1, <1>8, SearchedFor
  <2> QED
    BY <1>5, <1>6, <1>8, <2>1, FitsAre DEF AddFits
<1>9. ASSUME NEW o \in Orders, w = Cancel(o)
      PROVE  CancelFits(o, table[w], reads[w], ord[o], ret[o].gap)
  BY <1>5, <1>6, <1>9, FitsAre DEF CancelFits
<1>10. Commit(batch, asg, [cmd EXCEPT ![w] = table[w]], [read EXCEPT ![w] = reads[w]], FALSE)
  BY <1>1, <1>5, <1>6
<1>11. w = Deliver => (table[w].st = "none") <=> (cmd[w].st = "none")
  BY <1>6
<1> QED
  BY <1>1, <1>5, <1>6, <1>7, <1>8, <1>9, <1>10, <1>11, CommitOne

\* A readback settles its write.
LEMMA VerdictFits ==
  ASSUME Tables, Fits, NEW w \in Writes, read[w].ans # "none",
         NEW c \in {Confirmed(w), Retried(w), Failed(w)}, NEW b, NEW a, NEW conclusive,
         \A o \in Orders : a[o] = asg[o] \/ a[o] = "confirmed",
         Commit(b, a, c, Done(w), conclusive), UNCHANGED <<supply, place, dead>>,
         \A o \in Orders : w = Add(o) /\ ord[o] # "exception" =>
            c = Confirmed(w) \/ ~InSupply(o)
  PROVE  Fits'
<1>1. c = [cmd EXCEPT ![w] = c[w]] /\ c[w] \in Command
      /\ \/ ~InDoubt(w) /\ c[w] = cmd[w]
         \/ InDoubt(w) /\ c[w].st \in {"confirmed", "retry", "failed"} /\ c[w].ans = "none"
  BY VerdictRow
<1>2. Held(c[w]) /\ cmd[w] \in Command
  BY <1>1, Known1 DEF RowOK, Held
<1>3. c = Confirmed(w) /\ InDoubt(w) => c[w].st = "confirmed"
  <2> SUFFICES ASSUME c = Confirmed(w), InDoubt(w) PROVE c[w].st = "confirmed"
    OBVIOUS
  <2>1. c[w] = [NoCommand EXCEPT !.st = "confirmed"]
    BY Known1 DEF Confirmed, Confirm
  <2> QED
    BY <2>1 DEF NoCommand
<1>4. ASSUME NEW o \in Orders, w = Add(o)
      PROVE  AddFits(o, c[w], NoRead, ord[o], ret[o].gap)
  BY <1>1, <1>3, <1>4, EmptyRead, FitsAre DEF AddFits, Open
<1>5. ASSUME NEW o \in Orders, w = Cancel(o)
      PROVE  CancelFits(o, c[w], NoRead, ord[o], ret[o].gap)
  BY <1>1, <1>5, EmptyRead, FitsAre DEF CancelFits, InDoubt
<1>6. Commit(b, a, [cmd EXCEPT ![w] = c[w]], [read EXCEPT ![w] = NoRead], conclusive)
  BY <1>1 DEF Done
<1>7. w = Deliver => (c[w].st = "none") <=> (cmd[w].st = "none")
  BY <1>1 DEF InDoubt
<1> QED
  BY <1>1, <1>2, <1>4, <1>5, <1>6, <1>7, EmptyRead, CommitOne

LEMMA FoundFits ==
  ASSUME Tables, Fits, Found
  PROVE  Fits'
<1>1. /\ UNCHANGED <<supply, place, dead>>
      /\ Commit(Known, asg, Scheduling(Confirmed(Create), OrdersAdded), Done(Create), FALSE)
  BY DEF Found, Unread, wbVars
<1> DEFINE c == Confirmed(Create)
<1>2. c = [cmd EXCEPT ![Create] = c[Create]] /\ c[Create] \in Command
  BY SupplyWrites, VerdictRow
<1>3. Commit(Known, asg, Scheduling([cmd EXCEPT ![Create] = c[Create]], OrdersAdded),
             [read EXCEPT ![Create] = NoRead], FALSE)
  BY <1>1, <1>2 DEF Done
<1> HIDE DEF c
<1> QED
  BY <1>1, <1>2, <1>3, EmptyRead, MadeFits

LEMMA NotFoundFits ==
  ASSUME Tables, Fits, NotFound
  PROVE  Fits'
<1>1. /\ read[Create].ans # "none" /\ UNCHANGED <<supply, place, dead>>
      /\ Commit(batch, asg, Retried(Create), Done(Create), FALSE)
  BY DEF NotFound, Reading, Unread, wbVars
<1>2. \A o \in Orders : Create # Add(o)
  BY OrderWrites
<1> QED
  BY <1>1, <1>2, SupplyWrites, VerdictFits

LEMMA NotDeliveredFits ==
  ASSUME Tables, Fits, NotDelivered
  PROVE  Fits'
<1>1. /\ read[Deliver].ans # "none" /\ UNCHANGED <<supply, place, dead>>
      /\ Commit(batch, asg, Retried(Deliver), Done(Deliver), FALSE)
  BY DEF NotDelivered, Reading, Unread, wbVars
<1>2. \A o \in Orders : Deliver # Add(o)
  BY OrderWrites
<1> QED
  BY <1>1, <1>2, SupplyWrites, VerdictFits

\* A readback of an add is followed by another one: the search for an order
\* only if it is not in the supply, or out.
LEMMA AskAgainFits ==
  ASSUME Tables, Fits, NEW o \in Orders, NEW at \in {"member", "lookup"},
         Commit(batch, asg, cmd, Ask(read, Add(o), at), FALSE),
         UNCHANGED <<supply, place, dead>>,
         at = "lookup" /\ ord[o] # "exception" => ~InSupply(o)
  PROVE  Fits'
<1> DEFINE w == Add(o)
           y == [at |-> at, st |-> "pending", tries |-> 0, ans |-> "none"]
<1>1. /\ y \in ReadRow /\ Ask(read, w, at) = [read EXCEPT ![w] = y]
      /\ y.at = at /\ y.st = "pending" /\ y.ans = "none"
  BY DEF ReadRow, ReadStatuses, Ask
<1>2. w \in Writes /\ w # Deliver /\ (\A p \in Orders : w = Add(p) => p = o)
      /\ \A p \in Orders : w # Cancel(p)
  <2>1. \A p \in Orders : Cancel(p)[1] = "cancel" /\ Add(p)[2] = p
    BY OrderWrites
  <2>2. w \in Writes /\ w # Deliver /\ w[1] = "add" /\ w[2] = o
    BY OrderWrites
  <2> HIDE DEF w
  <2> QED
    BY <2>1, <2>2
<1>3. cmd[w] \in Command /\ Held(cmd[w]) /\ [cmd EXCEPT ![w] = cmd[w]] = cmd
  BY <1>2, Known1 DEF RowOK
<1> HIDE DEF y
<1>4. AddFits(o, cmd[w], y, ord[o], ret[o].gap)
  BY <1>1, FitsAre DEF AddFits
<1>5. Commit(batch, asg, [cmd EXCEPT ![w] = cmd[w]], [read EXCEPT ![w] = y], FALSE)
  BY <1>1, <1>3
<1> HIDE DEF w
<1>6. /\ \A p \in Orders : w = Add(p) => AddFits(p, cmd[w], y, ord[p], ret[p].gap)
      /\ \A p \in Orders : w = Cancel(p) => CancelFits(p, cmd[w], y, ord[p], ret[p].gap)
  BY <1>2, <1>4, Zenon DEF w
<1> QED
  BY <1>1, <1>2, <1>3, <1>5, <1>6, CommitOne

LEMMA SupplyOpenFits ==
  ASSUME Tables, Fits, NEW o \in Orders, SupplyOpen(o)
  PROVE  Fits'
  BY AskAgainFits DEF SupplyOpen, Unread, wbVars

LEMMA NoMemberFits ==
  ASSUME Tables, Fits, NEW o \in Orders, NoMember(o)
  PROVE  Fits'
<1>1. /\ read[Add(o)].ans = "away" /\ UNCHANGED <<supply, place, dead>>
      /\ Commit(batch, asg, cmd, Ask(read, Add(o), "lookup"), FALSE)
  BY DEF NoMember, Reading, Unread, wbVars
<1>2. ord[o] # "exception" => ~InSupply(o)
  BY <1>1, FitsAre DEF AddFits
<1> QED
  BY <1>1, <1>2, AskAgainFits

\* An add in doubt of an order that is not out: the delivery was not asked for,
\* so the supply is not closed.
LEMMA SupplyClosedFits ==
  ASSUME Tables, Fits, Told, NEW o \in Orders, SupplyClosed(o)
  PROVE  Fits'
<1> DEFINE w == Add(o)
<1>1. /\ read[w].ans = "closed" /\ UNCHANGED <<supply, place, dead>>
      /\ Commit([batch EXCEPT !.mk = "complete"], asg, Failed(w), Done(w), FALSE)
  BY DEF SupplyClosed, Reading, Unread, wbVars
<1>2. w \in Writes /\ \A p \in Orders : w = Add(p) => p = o
  BY OrderWrites
<1>3. CASE ord[o] # "exception" /\ InDoubt(w)
  <2>1. asg[o] = "pending"
    BY <1>3, LiveAdds DEF InDoubt, Live
  <2>2. cmd[Deliver].st = "none" /\ supply.closed
    BY <1>1, <1>3, <2>1, FitsAre DEF AddFits, OrderFits
  <2> QED
    BY <2>2 DEF Told
<1>4. CASE ~(ord[o] # "exception" /\ InDoubt(w)) /\ InDoubt(w)
  BY <1>1, <1>2, <1>4, VerdictFits
<1>5. CASE ~InDoubt(w)
  <2>1. Failed(w) = Confirmed(w)
    BY <1>5 DEF Failed, Confirmed
  <2> QED
    BY <1>1, <1>2, <2>1, VerdictFits
<1> QED
  BY <1>3, <1>4, <1>5

\* Nobody is in a supply that is gone.
LEMMA SupplyMissingFits ==
  ASSUME Tables, Fits, NEW o \in Orders, SupplyMissing(o)
  PROVE  Fits'
<1> DEFINE moved == {x \in Orders : asg[x] \in {"pending", "error"} /\ ord[x] = "picked"}
           left == {Add(x) : x \in moved} \cup {Cancel(x) : x \in moved}
<1>1. /\ read[Add(o)].ans = "missing" /\ UNCHANGED <<supply, place, dead>>
      /\ asg' = [x \in Orders |-> IF x \in moved THEN "moved" ELSE asg[x]]
      /\ cmd' = [w \in Writes |-> IF w \in left THEN NoCommand ELSE cmd[w]]
      /\ read' = [w \in Writes |-> IF w \in left THEN NoRead ELSE Done(Add(o))[w]]
      /\ UNCHANGED <<ord, ret>>
  BY DEF SupplyMissing, Reading, Unread, wbVars
<1>2. supply.gone
  BY <1>1, FitsAre DEF AddFits
<1>3. NoCommand.st = "none" /\ NoCommand.ans = "none"
  BY DEF NoCommand
<1>4. \A p \in Orders : p \notin moved => Add(p) \notin left /\ Cancel(p) \notin left
  <2>1. \A p, q \in Orders : Add(p) # Cancel(q) /\ (Add(p) = Add(q) => p = q)
                             /\ (Cancel(p) = Cancel(q) => p = q)
    BY OrderWrites
  <2> QED
    BY <2>1
<1>5. Deliver \notin left
  BY OrderWrites
<1> SUFFICES ASSUME NEW p \in Orders PROVE Fit(p, asg', ord', ret', cmd', read')
  BY <1>1, FitNext DEF Fits
<1>6. ~InSupply(p)
  BY <1>2, FitsAre DEF OrderFits
<1>7. cmd'[Deliver] = cmd[Deliver]
  BY <1>1, <1>5, SupplyWrites
<1>8. CASE p \in moved
  <2>1. cmd'[Add(p)] = NoCommand /\ cmd'[Cancel(p)] = NoCommand
        /\ read'[Add(p)] = NoRead /\ read'[Cancel(p)] = NoRead /\ asg'[p] = "moved"
    BY <1>1, <1>8, OrderWrites
  <2> HIDE DEF moved, left
  <2> QED
    BY <1>1, <1>3, <1>6, <1>7, <2>1, EmptyRead, FitsAre
       DEF Fit, AddFits, CancelFits, OrderFits
<1>9. CASE p \notin moved
  <2>1. cmd'[Add(p)] = cmd[Add(p)] /\ cmd'[Cancel(p)] = cmd[Cancel(p)]
        /\ read'[Add(p)] \in {NoRead, read[Add(p)]} /\ read'[Cancel(p)] = read[Cancel(p)]
        /\ asg'[p] = asg[p]
    <3>1. Add(p) \in Writes /\ Cancel(p) \in Writes /\ Cancel(p) # Add(o)
      BY OrderWrites
    <3>2. Done(Add(o))[Add(p)] \in {NoRead, read[Add(p)]} /\ Done(Add(o))[Cancel(p)] = read[Cancel(p)]
      BY <3>1, Known1 DEF Done
    <3> QED
      BY <1>1, <1>4, <1>9, <3>1, <3>2
  <2> HIDE DEF moved, left
  <2> QED
    BY <1>1, <1>6, <1>7, <2>1, EmptyRead, FitsAre
       DEF Fit, AddFits, CancelFits, OrderFits
<1> QED
  BY <1>8, <1>9

LEMMA MemberFits ==
  ASSUME Tables, Fits, NEW o \in Orders, Member(o)
  PROVE  Fits'
<1> DEFINE a == [asg EXCEPT ![o] = "confirmed"]
<1>1. /\ read[Add(o)].ans # "none" /\ UNCHANGED <<supply, place, dead>> /\ Add(o) \in Writes
      /\ Commit(batch, a, Confirmed(Add(o)), Done(Add(o)), FALSE)
  BY OrderWrites DEF Member, Reading, wbVars
<1>2. \A p \in Orders : a[p] = asg[p] \/ a[p] = "confirmed"
  BY Known1
<1> HIDE DEF a
<1> QED
  BY <1>1, <1>2, VerdictFits

LEMMA LocatedFits ==
  ASSUME Tables, Fits, NEW o \in Orders, Located(o)
  PROVE  Fits'
<1> DEFINE over == read[Add(o)].ans = "elsewhere" \/ o \in told
<1>1. /\ read[Add(o)].at = "lookup" /\ read[Add(o)].ans # "none"
      /\ UNCHANGED <<supply, place, dead>> /\ Add(o) \in Writes
      /\ Commit(batch, asg, IF over THEN Failed(Add(o)) ELSE Retried(Add(o)),
                Done(Add(o)), over)
  BY OrderWrites DEF Located, Unread, wbVars
<1>2. \A p \in Orders : Add(o) = Add(p) => p = o
  BY OrderWrites
<1>3. ord[o] # "exception" => ~InSupply(o)
  BY <1>1, SearchedFor
<1> HIDE DEF over
<1> QED
  BY <1>1, <1>2, <1>3, VerdictFits

LEMMA StillThereFits ==
  ASSUME Tables, Fits, NEW o \in Orders, StillThere(o)
  PROVE  Fits'
<1> DEFINE w == Cancel(o)
           reads == IF read[w].st = "sent" THEN RetryOrFailed(read, w)
                    ELSE Settle(read, w, read[w].st)
<1>1. /\ read[w].ans # "none" /\ UNCHANGED <<supply, place, dead>>
      /\ Commit(batch, asg, cmd, reads, FALSE)
  BY DEF StillThere, Reading, Unread, wbVars
<1>2. /\ w \in Writes /\ read \in [Writes -> ReadRow] /\ w # Deliver /\ cmd[w] \in Command
      /\ [cmd EXCEPT ![w] = cmd[w]] = cmd /\ Held(cmd[w]) /\ read[w].st \in ReadStatuses
      /\ (\A p \in Orders : w # Add(p)) /\ (\A p \in Orders : w = Cancel(p) => p = o)
  BY OrderWrites, Known1 DEF RowOK, ReadRow
<1>3. PICK st \in ReadStatuses : reads = Settle(read, w, st)
  BY <1>2 DEF RetryOrFailed, ReadStatuses
<1> HIDE DEF reads, w
<1>4. /\ reads = [read EXCEPT ![w] = reads[w]] /\ reads[w] \in ReadRow
      /\ reads[w].ans = "none" /\ reads[w].at = read[w].at
  BY <1>2, <1>3, SettledRead
<1>5. CancelFits(o, cmd[w], reads[w], ord[o], ret[o].gap)
  BY <1>4, FitsAre DEF CancelFits, w
<1>6. Commit(batch, asg, [cmd EXCEPT ![w] = cmd[w]], [read EXCEPT ![w] = reads[w]], FALSE)
  BY <1>1, <1>2, <1>4
<1>7. /\ \A p \in Orders : w = Add(p) => AddFits(p, cmd[w], reads[w], ord[p], ret[p].gap)
      /\ \A p \in Orders : w = Cancel(p) => CancelFits(p, cmd[w], reads[w], ord[p], ret[p].gap)
  BY <1>2, <1>5, Zenon
<1>8. PICK x \in Command, y \in ReadRow : x = cmd[w] /\ y = reads[w]
  BY <1>2, <1>4
<1>9. /\ Commit(batch, asg, [cmd EXCEPT ![w] = x], [read EXCEPT ![w] = y], FALSE)
      /\ w \in Writes /\ w # Deliver /\ Held(x) /\ UNCHANGED <<supply, place, dead>>
  BY <1>1, <1>2, <1>6, <1>8
<1>10. /\ \A p \in Orders : w = Add(p) => AddFits(p, x, y, ord[p], ret[p].gap)
       /\ \A p \in Orders : w = Cancel(p) => CancelFits(p, x, y, ord[p], ret[p].gap)
  BY <1>7, <1>8
<1> HIDE DEF w, reads
<1> QED
  BY <1>9, <1>10, CommitOne

\* What cancelling leaves of a row.
LEMMA CancelledRow ==
  ASSUME NEW S, NEW t \in [Writes -> S], NEW writes, NEW sts \in SUBSET Open, NEW w \in Writes,
         \A row \in S : LET x == [row EXCEPT !.st = "cancelled"]
                        IN x.st = "cancelled" /\ x.ans = row.ans
  PROVE  LET x == Cancelled(t, writes, sts)[w]
         IN /\ x.ans = t[w].ans
            /\ x.st = t[w].st \/ (w \in writes /\ t[w].st \in Open /\ x.st = "cancelled")
  BY DEF Cancelled

LEMMA CancelledCommand ==
  ASSUME NEW c \in [Writes -> Command], NEW writes, NEW sts \in SUBSET Open, NEW w \in Writes
  PROVE  LET x == Cancelled(c, writes, sts)[w]
         IN /\ x.ans = c[w].ans
            /\ x.st = c[w].st \/ (w \in writes /\ c[w].st \in Open /\ x.st = "cancelled")
            /\ w \notin writes => x = c[w]
<1>1. \A row \in Command : LET x == [row EXCEPT !.st = "cancelled"]
                           IN x.st = "cancelled" /\ x.ans = row.ans
  BY DEF Command
<1>2. w \notin writes => Cancelled(c, writes, sts)[w] = c[w]
  BY DEF Cancelled
<1> QED
  BY <1>1, <1>2, CancelledRow

LEMMA CancelledRead ==
  ASSUME NEW r \in [Writes -> ReadRow], NEW writes, NEW sts \in SUBSET Open, NEW w \in Writes
  PROVE  LET x == Cancelled(r, writes, sts)[w]
         IN /\ x.ans = r[w].ans
            /\ x.st = r[w].st \/ (w \in writes /\ r[w].st \in Open /\ x.st = "cancelled")
            /\ w \notin writes => x = r[w]
<1>1. \A row \in ReadRow : LET x == [row EXCEPT !.st = "cancelled"]
                           IN x.st = "cancelled" /\ x.ans = row.ans
  BY DEF ReadRow
<1>2. w \notin writes => Cancelled(r, writes, sts)[w] = r[w]
  BY DEF Cancelled
<1> QED
  BY <1>1, <1>2, CancelledRow

\* An order leaves once a read no longer shows it, or once it is told cancelled.
LEMMA HasLeftFits ==
  ASSUME Tables, Fits, Told, NEW o \in Orders, HasLeft(o)
  PROVE  Fits'
<1> DEFINE w == Cancel(o)
           c == Confirmed(w)
           r == Done(w)
<1>1. PICK kept \in BOOLEAN :
        /\ read[w].at = "absence"
        /\ read[w].ans = "away" \/ o \in told
        /\ ret' = [ret EXCEPT ![o].st = "queued"]
        /\ ord' = [ord EXCEPT ![o] = "exception"]
        /\ asg' = [asg EXCEPT ![o] = "canceled"]
        /\ cmd' = Cancelled(c, {Add(o)}, Open)
        /\ read' = Cancelled(r, IF kept THEN {} ELSE {Add(o)}, Open)
        /\ UNCHANGED <<supply, place, dead>>
  BY DEF HasLeft, Reading, BuyerCancelled, wbVars
<1>2. w \in Writes /\ (\A p \in Orders : Add(p) # w) /\ (\A p \in Orders : Cancel(p) = w => p = o)
      /\ (\A p \in Orders : Cancel(p) # Add(o)) /\ Deliver # w /\ Deliver # Add(o)
      /\ (\A p \in Orders : Add(p) = Add(o) => p = o)
  BY OrderWrites
<1>3. /\ c = [cmd EXCEPT ![w] = c[w]] /\ c[w] \in Command
      /\ \/ ~InDoubt(w) /\ c[w] = cmd[w]
         \/ InDoubt(w) /\ c[w].st \in {"confirmed", "retry", "failed"} /\ c[w].ans = "none"
  BY <1>2, VerdictRow
<1>4. c \in [Writes -> Command] /\ r \in [Writes -> ReadRow] /\ r = [read EXCEPT ![w] = NoRead]
  BY <1>2, <1>3, EmptyRead, Known1 DEF Done
<1> HIDE DEF c, r
<1>5. /\ ord[o] = "exception" /\ ret[o].st # "none"
      /\ InSupply(o) => ret[o].gap = "wave"
  BY <1>1, FitsAre DEF CancelFits, OrderFits, Told, InSupply
<1> SUFFICES ASSUME NEW p \in Orders PROVE Fit(p, asg', ord', ret', cmd', read')
  BY <1>1, FitNext DEF Fits
<1>6. /\ cmd[Add(p)] = c[Add(p)] /\ read[Add(p)] = r[Add(p)]
      /\ p # o => cmd[Cancel(p)] = c[Cancel(p)] /\ read[Cancel(p)] = r[Cancel(p)]
      /\ cmd[Deliver] = c[Deliver] /\ r[w] = NoRead
  BY <1>2, <1>3, <1>4, OrderWrites, SupplyWrites, Known1
<1>7. /\ cmd'[Cancel(p)] = c[Cancel(p)] /\ read'[Cancel(p)] = r[Cancel(p)]
      /\ cmd'[Deliver] = c[Deliver]
      /\ p # o => cmd'[Add(p)] = c[Add(p)] /\ read'[Add(p)] = r[Add(p)]
      /\ cmd'[Add(p)].ans = c[Add(p)].ans /\ read'[Add(p)].ans = r[Add(p)].ans
  <2>1. Add(p) \in Writes /\ Cancel(p) \in Writes /\ Deliver \in Writes
    BY OrderWrites, SupplyWrites
  <2> DEFINE own == {Add(o)}
             more == IF kept THEN {} ELSE {Add(o)}
  <2>2. Cancel(p) \notin own /\ Deliver \notin own /\ (p # o => Add(p) \notin own)
    BY <1>2
  <2>3. Cancel(p) \notin more /\ (p # o => Add(p) \notin more)
    BY <1>2
  <2>4. cmd' = Cancelled(c, own, Open) /\ read' = Cancelled(r, more, Open)
    BY <1>1
  <2> HIDE DEF own, more
  <2>5. /\ cmd'[Cancel(p)] = c[Cancel(p)] /\ cmd'[Deliver] = c[Deliver]
        /\ p # o => cmd'[Add(p)] = c[Add(p)]
        /\ cmd'[Add(p)].ans = c[Add(p)].ans
    <3>1. ASSUME NEW v \in Writes
          PROVE  cmd'[v].ans = c[v].ans /\ (v \notin own => cmd'[v] = c[v])
      BY <1>4, <2>4, CancelledCommand
    <3> QED
      BY <2>1, <2>2, <3>1
  <2>6. /\ read'[Cancel(p)] = r[Cancel(p)]
        /\ p # o => read'[Add(p)] = r[Add(p)]
        /\ read'[Add(p)].ans = r[Add(p)].ans
    <3>1. ASSUME NEW v \in Writes
          PROVE  read'[v].ans = r[v].ans /\ (v \notin more => read'[v] = r[v])
      <4>1. r \in [Writes -> ReadRow] /\ read' = Cancelled(r, more, Open)
        BY <1>4, <2>4
      <4> QED
        BY <4>1, CancelledRead
    <3> QED
      BY <2>1, <2>3, <3>1
  <2> QED
    BY <2>5, <2>6
<1>8. CASE p = o
  <2>1. ord'[p] = "exception" /\ ret'[p].st = "queued" /\ ret'[p].gap = ret[p].gap
    BY <1>1, <1>8, Known1 DEF Return
  <2>2. read'[Cancel(p)] = NoRead
    BY <1>6, <1>7, <1>8
  <2>3. AddFits(p, cmd'[Add(p)], read'[Add(p)], ord'[p], ret'[p].gap)
    BY <1>5, <1>6, <1>7, <1>8, <2>1, FitsAre DEF AddFits
  <2> QED
    BY <1>5, <1>8, <2>1, <2>2, <2>3, EmptyRead, FitsAre DEF Fit, CancelFits, OrderFits
<1>9. CASE p # o
  <2>1. asg'[p] = asg[p] /\ ord'[p] = ord[p] /\ ret'[p] = ret[p]
    BY <1>1, <1>9
  <2> QED
    BY <1>6, <1>7, <1>9, <2>1, FitsAre DEF Fit
<1> QED
  BY <1>8, <1>9

LEMMA IsDeliveredFits ==
  ASSUME Tables, Fits, IsDelivered
  PROVE  Fits'
<1> DEFINE c == Confirmed(Deliver)
<1>1. /\ UNCHANGED <<supply, place, dead>> /\ Delivered(c, Done(Deliver))
      /\ read[Deliver].ans # "none"
  BY DEF IsDelivered, Reading, Unread, wbVars
<1>2. /\ c = [cmd EXCEPT ![Deliver] = c[Deliver]] /\ c[Deliver] \in Command
      /\ \/ ~InDoubt(Deliver) /\ c[Deliver] = cmd[Deliver]
         \/ InDoubt(Deliver) /\ c[Deliver].st \in {"confirmed", "retry", "failed"}
  BY SupplyWrites, VerdictRow
<1> HIDE DEF c
<1>3. Delivered([cmd EXCEPT ![Deliver] = c[Deliver]], [read EXCEPT ![Deliver] = NoRead])
  BY <1>1, <1>2 DEF Done
<1>4. (c[Deliver].st = "none") <=> (cmd[Deliver].st = "none")
  BY <1>2 DEF InDoubt
<1> QED
  BY <1>1, <1>2, <1>3, <1>4, EmptyRead, DeliveredFits

-----------------------------------------------------------------------------
\* The steps of the desk.
LEMMA AssignFits ==
  ASSUME Tables, Fits, NEW o \in Orders, Assign(o) \/ Schedule(o)
  PROVE  Fits'
<1>1. /\ batch.st = "open" /\ UNCHANGED <<ord, ret, read, supply, place, dead>>
      /\ \A p \in Orders : asg'[p] = asg[p] \/ asg'[p] = "pending"
      /\ cmd' = Enqueue(cmd, Add(o)) \/ cmd' = Enqueue(cmd, Create)
  BY Known1 DEF Assign, Schedule, Scheduled, people, wbVars
<1>2. cmd[Deliver].st = "none"
  BY <1>1, Known1 DEF RowOK
<1> SUFFICES ASSUME NEW p \in Orders PROVE Fit(p, asg', ord', ret', cmd', read')
  BY <1>1, FitNext DEF Fits
<1>3. /\ cmd'[Add(p)].ans = cmd[Add(p)].ans
      /\ cmd'[Add(p)].st = cmd[Add(p)].st \/ cmd[Add(p)].st = "none"
      /\ cmd'[Cancel(p)] = cmd[Cancel(p)] /\ cmd'[Deliver] = cmd[Deliver]
  <2>1. /\ Add(p) \in Writes /\ Cancel(p) \in Writes /\ Deliver \in Writes /\ Create \in Writes
        /\ Add(o) \in Writes /\ Cancel(p) # Add(o) /\ Cancel(p) # Create /\ Deliver # Add(o)
        /\ Deliver # Create /\ Add(p) # Create
    BY OrderWrites, SupplyWrites
  <2>2. PICK w \in {Add(o), Create} : cmd' = Enqueue(cmd, w)
    BY <1>1
  <2>3. /\ w \in Writes /\ cmd'[w].ans = cmd[w].ans
        /\ cmd'[w].st = cmd[w].st \/ cmd[w].st = "none"
        /\ \A v \in Writes : v # w => cmd'[v] = cmd[v]
    BY <2>1, <2>2, EnqueuedRow, Known1
  <2> QED
    BY <2>1, <2>2, <2>3
<1>4. cmd[Add(p)].st = "none" /\ ord[p] # "exception" => ~InSupply(p)
  BY FitsAre DEF AddFits
<1>5. AddFits(p, cmd'[Add(p)], read[Add(p)], ord[p], ret[p].gap)
  BY <1>3, <1>4, FitsAre DEF AddFits
<1>6. OrderFits(p, asg'[p], ord[p], ret[p], cmd'[Deliver])
  BY <1>1, <1>2, <1>3, FitsAre DEF OrderFits
<1> QED
  BY <1>1, <1>3, <1>5, <1>6, FitsAre DEF Fit

LEMMA AsideFits ==
  ASSUME Tables, Fits, UNCHANGED <<ret, cmd, read, supply, place, dead>>,
         \A o \in Orders : /\ (ord'[o] = "exception") <=> (ord[o] = "exception")
                           /\ asg'[o] = "pending" => asg[o] = "pending"
  PROVE  Fits'
<1>1. \A o \in Orders : Fit(o, asg', ord', ret', cmd', read')
  BY DEF Fits, Fit, AddFits, CancelFits, OrderFits
<1> QED
  BY <1>1, FitNext DEF Fits

LEMMA SyncFits ==
  ASSUME Tables, Fits, Sync \/ Reconcile
  PROVE  Fits'
<1>1. UNCHANGED <<ord, ret, cmd, read, supply, place, dead>>
  BY DEF Sync, Reconcile, people, wbVars
<1>2. PICK seen : asg' = Reconciled(seen)
  BY DEF Sync, Reconcile
<1>3. \A o \in Orders : asg'[o] = "pending" => asg[o] = "pending"
  BY <1>2 DEF Reconciled
<1> QED
  BY <1>1, <1>3, AsideFits

LEMMA PackFits ==
  ASSUME Tables, Fits, NEW o \in Orders, Pack(o)
  PROVE  Fits'
<1>1. /\ UNCHANGED <<asg, ret, cmd, read, supply, place, dead>>
      /\ ord[o] = "picked" /\ ord' = [ord EXCEPT ![o] = "ready"]
  BY DEF Pack, wbVars
<1>2. \A p \in Orders : (ord'[p] = "exception") <=> (ord[p] = "exception")
  BY <1>1, Known1
<1> QED
  BY <1>1, <1>2, AsideFits

LEMMA DispatchFits ==
  ASSUME Tables, Fits, Dispatch
  PROVE  Fits'
<1>1. UNCHANGED <<asg, ret, cmd, read, supply, place, dead>> /\ ord' = HandedOver
  BY DEF Dispatch, wbVars
<1>2. \A p \in Orders : (ord'[p] = "exception") <=> (ord[p] = "exception")
  BY <1>1 DEF HandedOver
<1> QED
  BY <1>1, <1>2, AsideFits

\* A delivery is asked for when no order waits for its add.
LEMMA RequestDeliveryFits ==
  ASSUME Tables, Fits, RequestDelivery
  PROVE  Fits'
<1>1. Composed /\ cmd' = Enqueue(cmd, Deliver)
      /\ UNCHANGED <<asg, ord, ret, read, supply, place, dead>>
  BY DEF RequestDelivery, people, wbVars
<1>2. \A p \in Orders : asg[p] # "pending"
  BY <1>1 DEF Composed
<1>3. \A p \in Orders : cmd'[Add(p)] = cmd[Add(p)] /\ cmd'[Cancel(p)] = cmd[Cancel(p)]
  BY <1>1, OrderWrites, SupplyWrites, EnqueuedRow, Known1
<1>4. \A p \in Orders : Fit(p, asg', ord', ret', cmd', read')
  BY <1>1, <1>2, <1>3 DEF Fits, Fit, OrderFits
<1> QED
  BY <1>1, <1>4, FitNext DEF Fits

LEMMA FixCodeFits ==
  ASSUME Tables, Fits, NEW o \in Orders, FixCode(o)
  PROVE  Fits'
<1>1. /\ UNCHANGED <<asg, ord, ret, read, supply, place, dead>>
      /\ \/ cmd[Deliver].st = "conflict" /\ cmd' = Settle(cmd, Deliver, "retry")
         \/ cmd' = cmd
  BY DEF FixCode, wbVars
<1>2. CASE cmd[Deliver].st = "conflict" /\ cmd' = Settle(cmd, Deliver, "retry")
  <2> DEFINE x == Settle(cmd, Deliver, "retry")[Deliver]
  <2>1. cmd' = [cmd EXCEPT ![Deliver] = x] /\ x.st = "retry"
    BY <1>2, SettledCommand, SupplyWrites, Known1 DEF Statuses
  <2> HIDE DEF x
  <2>2. \A p \in Orders : cmd'[Add(p)] = cmd[Add(p)] /\ cmd'[Cancel(p)] = cmd[Cancel(p)]
    BY <2>1, OrderWrites, Known1
  <2>3. cmd'[Deliver].st = "retry"
    BY <2>1, SupplyWrites, Known1
  <2>4. \A p \in Orders : Fit(p, asg', ord', ret', cmd', read')
    BY <1>1, <1>2, <2>2, <2>3 DEF Fits, Fit, OrderFits
  <2> QED
    BY <1>1, <2>4, FitNext DEF Fits
<1>3. CASE cmd' = cmd
  BY <1>1, <1>3, AsideFits
<1> QED
  BY <1>1, <1>2, <1>3

\* An order is taken out: no add of it waits for its answer.
LEMMA TakeOutFits ==
  ASSUME Tables, Fits, NEW o \in Orders, NEW client \in BOOLEAN, TakeOut(o, client),
         ret[o].st = "none", asg[o] # "pending",
         UNCHANGED <<asg, supply, place, dead>>
  PROVE  Fits'
<1>1. /\ ord' = [ord EXCEPT ![o] = "exception"]
      /\ \/ /\ ret' = [ret EXCEPT ![o] = TakenOut("verify", client)]
            /\ read' = Ask(read, Cancel(o), "absence") /\ cmd' = cmd
         \/ /\ ret' = [ret EXCEPT ![o] = TakenOut("seller", FALSE)]
            /\ cmd' = Enqueue(cmd, Cancel(o)) /\ read' = read
  BY DEF TakeOut
<1>2. TakenOut("verify", client).st = "waiting" /\ TakenOut("seller", FALSE).st = "waiting"
  BY TakenOutOK
<1>3. ord'[o] = "exception" /\ ret'[o].st = "waiting"
      /\ \A p \in Orders : p # o => ord'[p] = ord[p] /\ ret'[p] = ret[p]
  BY <1>1, <1>2, Known1
<1>4. ord[o] # "exception" /\ read[Cancel(o)].at = "none"
  BY FitsAre DEF OrderFits, CancelFits
<1>5. cmd[Add(o)].ans # "asked"
  <2>1. RowOK(Add(o), cmd[Add(o)], read[Add(o)], batch, asg, ord, kiz)
    BY Known1
  <2>2. cmd[Add(o)].st \notin Live
    BY <1>4, LiveAdds
  <2> QED
    BY <1>4, <2>1, <2>2, OrderWrites DEF RowOK, Held, Live
<1>6. read[Cancel(o)].ans = "none"
  BY <1>4, Known1, OrderWrites DEF RowOK, Held
<1> DEFINE y == [at |-> "absence", st |-> "pending", tries |-> 0, ans |-> "none"]
<1>7. ASSUME NEW p \in Orders
      PROVE  /\ cmd'[Add(p)] = cmd[Add(p)] /\ read'[Add(p)] = read[Add(p)]
             /\ p # o => cmd'[Cancel(p)] = cmd[Cancel(p)] /\ read'[Cancel(p)] = read[Cancel(p)]
             /\ cmd'[Deliver] = cmd[Deliver] /\ read'[Cancel(o)].ans = "none"
  <2>1. /\ Add(p) \in Writes /\ Cancel(p) \in Writes /\ Deliver \in Writes /\ Cancel(o) \in Writes
        /\ Cancel(o) # Add(p) /\ Deliver # Cancel(o) /\ (p # o => Cancel(p) # Cancel(o))
    BY OrderWrites, SupplyWrites
  <2>2. CASE read' = Ask(read, Cancel(o), "absence") /\ cmd' = cmd
    <3>1. read' = [read EXCEPT ![Cancel(o)] = y]
      BY <2>2 DEF Ask
    <3> QED
      BY <2>1, <2>2, <3>1, Known1
  <2>3. CASE cmd' = Enqueue(cmd, Cancel(o)) /\ read' = read
    BY <1>6, <2>1, <2>3, EnqueuedRow, Known1
  <2> QED
    BY <1>1, <2>2, <2>3
<1> SUFFICES ASSUME NEW p \in Orders PROVE Fit(p, asg', ord', ret', cmd', read')
  BY FitNext DEF Fits
<1>8. CASE p = o
  BY <1>3, <1>5, <1>7, <1>8, FitsAre DEF Fit, AddFits, CancelFits, OrderFits
<1>9. CASE p # o
  BY <1>3, <1>7, <1>9, FitsAre DEF Fit
<1> QED
  BY <1>8, <1>9

LEMMA ExcludeFits ==
  ASSUME Tables, Fits, NEW o \in Orders, NEW client \in BOOLEAN, Exclude(o, client)
  PROVE  Fits'
<1>1. ret[o].st = "none" /\ asg[o] # "pending"
  BY DEF Exclude, MayExclude
<1> QED
  BY <1>1, TakeOutFits DEF Exclude, wbVars

LEMMA ImportFits ==
  ASSUME Tables, Fits, NEW o \in Orders, Import(o)
  PROVE  Fits'
<1>1. UNCHANGED <<asg, supply, place, dead>>
  BY DEF Import, wbVars
<1>2. CASE MayExclude(o, TRUE, TRUE) /\ TakeOut(o, TRUE)
  <2>1. ret[o].st = "none" /\ asg[o] # "pending"
    BY <1>2 DEF MayExclude
  <2> QED
    BY <1>1, <1>2, <2>1, TakeOutFits
<1>3. CASE UNCHANGED <<ord, ret, cmd, read>>
  BY <1>1, <1>3, AsideFits
<1> QED
  BY <1>2, <1>3 DEF Import

LEMMA RetryExclusionFits ==
  ASSUME Tables, Fits, NEW o \in Orders, RetryExclusion(o)
  PROVE  Fits'
<1> DEFINE w == Cancel(o)
           x == Settle(cmd, w, "retry")[w]
           y == Settle(read, w, "retry")[w]
<1>1. /\ ret[o].st = "failed" /\ ret' = [ret EXCEPT ![o].st = "waiting"]
      /\ UNCHANGED <<asg, ord, supply, place, dead>>
      /\ \/ UNCHANGED <<cmd, read>>
         \/ read' = Settle(read, w, "retry") /\ cmd' = cmd
         \/ cmd' = Settle(cmd, w, "retry") /\ read' = read
  BY DEF RetryExclusion, wbVars
<1>2. /\ ret'[o].st = "waiting" /\ ret'[o].gap = ret[o].gap
      /\ \A p \in Orders : p # o => ret'[p] = ret[p]
  BY <1>1, Known1 DEF Return
<1>3. /\ w \in Writes /\ w # Deliver /\ (\A p \in Orders : w # Add(p))
      /\ \A p \in Orders : w = Cancel(p) => p = o
  BY OrderWrites
<1> HIDE DEF w
<1>4. /\ Settle(cmd, w, "retry") = [cmd EXCEPT ![w] = x]
      /\ Settle(read, w, "retry") = [read EXCEPT ![w] = y] /\ y.ans = "none"
  <2>1. PICK s \in Statuses : s = "retry" /\ s \in ReadStatuses
    BY DEF Statuses, ReadStatuses
  <2>2. cmd \in [Writes -> Command] /\ read \in [Writes -> ReadRow]
    BY Known1
  <2>3. Settle(cmd, w, s) = [cmd EXCEPT ![w] = Settle(cmd, w, s)[w]]
    BY <1>3, <2>2, SettledCommand
  <2>4. /\ Settle(read, w, s) = [read EXCEPT ![w] = Settle(read, w, s)[w]]
        /\ Settle(read, w, s)[w].ans = "none"
    BY <1>3, <2>1, <2>2, SettledRead
  <2> QED
    BY <2>1, <2>3, <2>4
<1> HIDE DEF x, y
<1>5. ASSUME NEW v \in Writes PROVE v # w => cmd'[v] = cmd[v] /\ read'[v] = read[v]
  BY <1>1, <1>4, Known1
<1>6. read'[w].ans \in {read[w].ans, "none"}
  BY <1>1, <1>3, <1>4, Known1
<1> SUFFICES ASSUME NEW p \in Orders PROVE Fit(p, asg', ord', ret', cmd', read')
  BY <1>1, FitNext DEF Fits
<1>7. /\ cmd'[Add(p)] = cmd[Add(p)] /\ read'[Add(p)] = read[Add(p)]
      /\ cmd'[Deliver] = cmd[Deliver]
      /\ p # o => cmd'[Cancel(p)] = cmd[Cancel(p)] /\ read'[Cancel(p)] = read[Cancel(p)]
  <2>1. Add(p) \in Writes /\ Cancel(p) \in Writes /\ Deliver \in Writes
        /\ Add(p) # w /\ Deliver # w /\ (p # o => Cancel(p) # w)
    BY <1>3, OrderWrites, SupplyWrites
  <2> QED
    BY <1>5, <2>1
<1>8. CASE p = o
  <2>1. ord[o] = "exception"
    BY <1>1, FitsAre DEF OrderFits
  <2>2. read'[Cancel(p)].ans \in {read[Cancel(p)].ans, "none"}
    BY <1>6, <1>8 DEF w
  <2> QED
    BY <1>1, <1>2, <1>7, <1>8, <2>1, <2>2, FitsAre DEF Fit, AddFits, CancelFits, OrderFits
<1>9. CASE p # o
  BY <1>1, <1>2, <1>7, <1>9, FitsAre DEF Fit
<1> QED
  BY <1>8, <1>9

\* An order is taken back at once only if no add may have brought it to WB, or
\* if it is cancelled.
LEMMA ReportProblemFits ==
  ASSUME Tables, Fits, Told, NEW o \in Orders, ReportProblem(o)
  PROVE  Fits'
<1>1. /\ ord' = [ord EXCEPT ![o] = "exception"] /\ UNCHANGED <<supply, place, dead>>
      /\ ret[o].st = "none" /\ (MayContain(o) => o \in dead)
      /\ \/ /\ ret' = [ret EXCEPT ![o] = TakenOut("verify", TRUE)]
            /\ read' = Ask(read, Cancel(o), "absence") /\ UNCHANGED <<asg, cmd>>
         \/ /\ ret' = [ret EXCEPT ![o] = [TakenOut("none", o \in told) EXCEPT !.st = "queued"]]
            /\ asg' = [asg EXCEPT ![o] = IF @ \in {"pending", "error"} THEN "canceled" ELSE @]
            /\ cmd' = Cancelled(cmd, {Add(o)}, Active) /\ read' = read
  BY DEF ReportProblem, Told, wbVars
<1>2. TakenOut("verify", TRUE).st = "waiting"
      /\ [TakenOut("none", o \in told) EXCEPT !.st = "queued"].st = "queued"
  BY TakenOutOK DEF TakenOut
<1>3. ord'[o] = "exception" /\ ret'[o].st # "none"
      /\ \A p \in Orders : p # o => ord'[p] = ord[p] /\ ret'[p] = ret[p]
  BY <1>1, <1>2, Known1
<1>4. ord[o] # "exception"
  BY <1>1, FitsAre DEF OrderFits
<1>5. read[Cancel(o)].ans = "none"
  <2>1. read[Cancel(o)].at = "none"
    BY <1>4, FitsAre DEF CancelFits
  <2> QED
    BY <2>1, Known1, OrderWrites DEF RowOK, Held
<1>6. ~InSupply(o) /\ (cmd[Add(o)].ans = "asked" => o \in dead)
  <2>1. CASE MayContain(o)
    BY <1>1, <2>1 DEF InSupply
  <2>2. CASE ~MayContain(o)
    <3>1. cmd[Add(o)].st \notin {"sent", "confirmed", "conflict"}
      BY <2>2 DEF MayContain
    <3>2. ~InSupply(o)
      BY <1>4, <3>1, FitsAre DEF AddFits
    <3>3. cmd[Add(o)].ans = "none"
      BY <1>4, <3>1, Known1, OrderWrites DEF RowOK, Held
    <3> QED
      BY <3>2, <3>3
  <2> QED
    BY <2>1, <2>2
<1>7. ASSUME NEW p \in Orders
      PROVE  /\ cmd'[Add(p)].ans = cmd[Add(p)].ans /\ read'[Add(p)] = read[Add(p)]
             /\ cmd'[Deliver] = cmd[Deliver] /\ read'[Cancel(o)].ans = "none"
             /\ p # o => /\ cmd'[Add(p)] = cmd[Add(p)] /\ cmd'[Cancel(p)] = cmd[Cancel(p)]
                         /\ read'[Cancel(p)] = read[Cancel(p)] /\ asg'[p] = asg[p]
  <2>1. /\ Add(p) \in Writes /\ Cancel(p) \in Writes /\ Deliver \in Writes /\ Cancel(o) \in Writes
        /\ Cancel(o) # Add(p) /\ (p # o => Cancel(p) # Cancel(o) /\ Add(p) # Add(o))
        /\ Cancel(p) # Add(o) /\ Deliver # Add(o)
    BY OrderWrites, SupplyWrites
  <2>2. CASE read' = Ask(read, Cancel(o), "absence") /\ UNCHANGED <<asg, cmd>>
    <3> DEFINE y == [at |-> "absence", st |-> "pending", tries |-> 0, ans |-> "none"]
    <3>1. read' = [read EXCEPT ![Cancel(o)] = y] /\ y.ans = "none"
      BY <2>2 DEF Ask
    <3> HIDE DEF y
    <3> QED
      BY <2>1, <2>2, <3>1, Known1
  <2>3. CASE /\ cmd' = Cancelled(cmd, {Add(o)}, Active) /\ read' = read
             /\ asg' = [asg EXCEPT ![o] = IF @ \in {"pending", "error"} THEN "canceled" ELSE @]
    <3> DEFINE own == {Add(o)}
    <3>1. Deliver \notin own /\ Cancel(p) \notin own /\ (p # o => Add(p) \notin own)
      BY <2>1
    <3>2. cmd' = Cancelled(cmd, own, Active) /\ Active \in SUBSET Open
      BY <2>3 DEF Active, Open
    <3> HIDE DEF own
    <3>3. ASSUME NEW v \in Writes
          PROVE  cmd'[v].ans = cmd[v].ans /\ (v \notin own => cmd'[v] = cmd[v])
      BY <3>2, CancelledCommand, Known1
    <3>4. p # o => asg'[p] = asg[p]
      BY <2>3, Known1
    <3> QED
      BY <1>5, <2>1, <2>3, <3>1, <3>3, <3>4
  <2> QED
    BY <1>1, <2>2, <2>3
<1> SUFFICES ASSUME NEW p \in Orders PROVE Fit(p, asg', ord', ret', cmd', read')
  BY <1>1, FitNext DEF Fits
<1>8. CASE p = o
  BY <1>3, <1>6, <1>7, <1>8, FitsAre DEF Fit, AddFits, CancelFits, OrderFits
<1>9. CASE p # o
  BY <1>3, <1>7, <1>9, FitsAre DEF Fit
<1> QED
  BY <1>8, <1>9

\* The whole wave goes back: what an add under way may still bring is the gap.
LEMMA ReturnWaveFits ==
  ASSUME Tables, Fits, ReturnWave
  PROVE  Fits'
<1> DEFINE own == {Add(o) : o \in Orders}
<1>1. /\ ret' = [o \in Orders |-> [NoReturn EXCEPT !.st = "queued",
               !.gap = IF cmd[Add(o)].st \in {"sent", "conflict"} THEN "wave" ELSE "none"]]
      /\ ord' = [o \in Orders |-> "exception"]
      /\ cmd' = Cancelled(cmd, own, Open) /\ read' = Cancelled(read, own, Open)
      /\ UNCHANGED <<supply, place, dead>>
      /\ \A o \in Orders : ord[o] # "exception" /\ ret[o].st = "none" /\ cmd[Add(o)].st # "confirmed"
  BY DEF ReturnWave, wbVars
<1> SUFFICES ASSUME NEW p \in Orders PROVE Fit(p, asg', ord', ret', cmd', read')
  BY <1>1, FitNext DEF Fits
<1>2. /\ Add(p) \in Writes /\ Cancel(p) \in Writes
      /\ Cancel(p) \notin own
  BY OrderWrites
<1> HIDE DEF own
<1>3. /\ cmd'[Add(p)].ans = cmd[Add(p)].ans /\ cmd'[Cancel(p)] = cmd[Cancel(p)]
      /\ read'[Add(p)].ans = read[Add(p)].ans /\ read'[Cancel(p)] = read[Cancel(p)]
  <2>1. cmd \in [Writes -> Command] /\ cmd' = Cancelled(cmd, own, Open)
    BY <1>1, Known1
  <2>2. read \in [Writes -> ReadRow] /\ read' = Cancelled(read, own, Open)
    BY <1>1, Known1
  <2>3. cmd'[Add(p)].ans = cmd[Add(p)].ans /\ cmd'[Cancel(p)] = cmd[Cancel(p)]
    BY <1>2, <2>1, CancelledCommand
  <2>4. read'[Add(p)].ans = read[Add(p)].ans /\ read'[Cancel(p)] = read[Cancel(p)]
    BY <1>2, <2>2, CancelledRead
  <2> QED
    BY <2>3, <2>4
<1>4. /\ ord'[p] = "exception" /\ ret'[p].st = "queued"
      /\ cmd[Add(p)].st \in {"sent", "conflict"} => ret'[p].gap = "wave"
  BY <1>1 DEF NoReturn
<1>5. InSupply(p) \/ cmd[Add(p)].ans = "asked" => ret'[p].gap = "wave"
  <2>1. cmd[Add(p)].ans = "asked" => cmd[Add(p)].st = "sent"
    <3>1. RowOK(Add(p), cmd[Add(p)], read[Add(p)], batch, asg, ord, kiz) /\ ord[p] # "exception"
      BY <1>1, Known1
    <3> QED
      BY <3>1, OrderWrites DEF RowOK, Held
  <2> QED
    BY <1>1, <1>4, <2>1, FitsAre DEF AddFits
<1>6. read[Cancel(p)].ans = "none"
  <2>1. read[Cancel(p)].at = "none"
    BY <1>1, FitsAre DEF CancelFits
  <2> QED
    BY <2>1, Known1, OrderWrites DEF RowOK, Held
<1> QED
  BY <1>3, <1>4, <1>5, <1>6, FitsAre DEF Fit, AddFits, CancelFits, OrderFits

-----------------------------------------------------------------------------
\* Wildberries, the buyers and the seller.

\* Orders that are in the supply afterwards were there before, and the closed
\* and the gone supply stay so.
LEMMA WbFits ==
  ASSUME Tables, Fits, UNCHANGED <<asg, ord, ret>>,
         \A o \in Orders : InSupply(o)' => InSupply(o), dead \subseteq dead',
         supply.closed => supply'.closed, supply'.gone = supply.gone,
         NEW w \in Writes, NEW x \in Command, NEW y \in ReadRow,
         cmd' = [cmd EXCEPT ![w] = x], read' = [read EXCEPT ![w] = y],
         w = Deliver => (x.st = "none") <=> (cmd[w].st = "none"),
         \A o \in Orders : w = Add(o) => AddFits(o, x, y, ord[o], ret[o].gap),
         \A o \in Orders : w = Cancel(o) => CancelFits(o, x, y, ord[o], ret[o].gap)
  PROVE  Fits'
<1>1. \A o \in Orders : Fit(o, asg, ord, ret, cmd', read')
  BY FitOne, Known1 DEF Fits
<1> SUFFICES ASSUME NEW o \in Orders PROVE Fit(o, asg, ord, ret, cmd, read)'
  BY DEF Fits
<1>2. Fit(o, asg', ord', ret', cmd', read')
  BY <1>1
<1>3. /\ InSupply(o)' => InSupply(o)
      /\ o \in dead => o \in dead'
      /\ supply.closed => supply'.closed
      /\ supply'.gone = supply.gone
  OBVIOUS
<1> QED
  BY <1>2, <1>3 DEF Fit, AddFits, CancelFits, OrderFits

LEMMA AskWbFits ==
  ASSUME Tables, Fits, NEW w \in Writes, AskWb(w)
  PROVE  Fits'
<1>1. PICK a \in Answers(w) \cup {"error", "conflict"} :
        /\ read[w].st \in Active
        /\ read' = [read EXCEPT ![w] = [at |-> read[w].at, st |-> "sent",
                                        tries |-> read[w].tries + 1, ans |-> a]]
        /\ UNCHANGED <<asg, ord, ret, cmd, supply, place, dead>>
  BY DEF AskWb, people, wbVars
<1> DEFINE y == [at |-> read[w].at, st |-> "sent", tries |-> read[w].tries + 1, ans |-> a]
<1>2. read' = [read EXCEPT ![w] = y] /\ y.at = read[w].at /\ y.st = "sent" /\ y.ans = a
  BY <1>1
<1> HIDE DEF y
<1>3. RowOK(w, cmd[w], read[w], batch, asg, ord, kiz)
  BY Known1
<1>4. ASSUME NEW o \in Orders, w = Add(o)
      PROVE  AddFits(o, cmd[w], y, ord[o], ret[o].gap)
  <2>1. AddFits(o, cmd[w], read[w], ord[o], ret[o].gap) /\ w[2] = o
    BY <1>4, FitsAre, OrderWrites
  <2>2. read[w].st \in Open
    BY <1>1 DEF Active, Open
  <2>3. CASE read[w].at = "lookup"
    <3>1. a \in {"elsewhere", "nowhere", "conflict", "error"}
      BY <2>3 DEF Answers
    <3>2. ord[o] # "exception" => ~InSupply(o)
      BY <1>4, <2>2, <2>3, SearchedFor
    <3> QED
      BY <1>2, <2>1, <3>1, <3>2 DEF AddFits
  <2>4. CASE read[w].at = "presence"
    <3>1. a \in {"missing", "open", "closed", "conflict", "error"}
          /\ (a = "missing" => supply.gone) /\ (a = "closed" => supply.closed)
      BY <2>4 DEF Answers, SupplyAnswers
    <3> QED
      BY <1>2, <2>1, <2>4, <3>1 DEF AddFits
  <2>5. CASE read[w].at = "member"
    <3>1. a \in {"refused", "here", "away", "conflict", "error"} /\ (a = "away" => ~InSupply(o))
      BY <2>1, <2>5 DEF Answers, SupplyAnswers, Here, InSupply
    <3> QED
      BY <1>2, <2>1, <2>5, <3>1 DEF AddFits
  <2>6. read[w].at \in {"presence", "member", "lookup"}
    BY <1>1, <1>3, <1>4, OrderWrites DEF RowOK, Kinds, Active
  <2> QED
    BY <2>3, <2>4, <2>5, <2>6
<1>5. ASSUME NEW o \in Orders, w = Cancel(o)
      PROVE  CancelFits(o, cmd[w], y, ord[o], ret[o].gap)
  <2>1. CancelFits(o, cmd[w], read[w], ord[o], ret[o].gap) /\ w[2] = o
    BY <1>5, FitsAre, OrderWrites
  <2>2. read[w].at = "absence"
    BY <1>1, <1>3, <1>5, OrderWrites DEF RowOK, Kinds, Active
  <2>3. a = "away" => ~InSupply(o)
    BY <2>1, <2>2 DEF Answers, SupplyAnswers, Here, InSupply
  <2> QED
    BY <1>2, <2>1, <2>3 DEF CancelFits
<1>6. \A o \in Orders : Fit(o, asg, ord, ret, cmd, [read EXCEPT ![w] = y])
  BY <1>4, <1>5, FitRead, Known1 DEF Fits
<1> QED
  BY <1>1, <1>2, <1>6, FitNext DEF Fits

\* What WB carries out other than an add, or too late, brings no order in.
LEMMA CarriedAside ==
  ASSUME Rest, NEW w \in Writes, NEW as \in {"here", "late"}, Carry(w, as),
         w[1] = "add" => as = "late"
  PROVE  /\ \A o \in Orders : InSupply(o)' => InSupply(o)
         /\ dead \subseteq dead'
         /\ supply.closed => supply'.closed
         /\ supply'.gone = supply.gone
<1>1. /\ supply' = CASE w[1] = "create" -> [supply EXCEPT !.made = @ + 1]
                     [] w[1] = "deliver" -> [supply EXCEPT !.closed = TRUE]
                     [] OTHER -> supply
      /\ place' = IF w[1] = "add" THEN [place EXCEPT ![w[2]] = as] ELSE place
      /\ dead' = IF w[1] = "cancel" THEN dead \cup {w[2]} ELSE dead
  BY DEF Carry
<1>2. supply'.gone = supply.gone /\ (supply.closed => supply'.closed)
  <2>1. supply \in [made : Nat, closed : BOOLEAN, gone : BOOLEAN]
    BY DEF Rest
  <2>2. CASE w[1] = "create"
    BY <1>1, <2>1, <2>2
  <2>3. CASE w[1] = "deliver"
    BY <1>1, <2>1, <2>3
  <2>4. CASE w[1] \notin {"create", "deliver"}
    BY <1>1, <2>4
  <2> QED
    BY <2>2, <2>3, <2>4
<1>3. dead \subseteq dead'
  BY <1>1
<1>4. ASSUME NEW o \in Orders, InSupply(o)' PROVE InSupply(o)
  <2>1. place'[o] = "here" /\ o \notin dead'
    BY <1>4 DEF InSupply
  <2>2. place'[o] = place[o] \/ place'[o] = "late"
    BY <1>1 DEF Rest
  <2> QED
    BY <1>3, <2>1, <2>2 DEF InSupply
<1> QED
  BY <1>2, <1>3, <1>4

\* The answer to a write.
LEMMA AnsweredFits ==
  ASSUME Tables, Rest, Fits, NEW w \in Writes, cmd[w].ans = "asked",
         NEW ans \in {"ok", "unclear", "refused", "kiz"}, cmd' = [cmd EXCEPT ![w].ans = ans],
         \A o \in Orders : w = Add(o) /\ ans = "refused" => supply.gone \/ o \in dead,
         UNCHANGED <<asg, ord, ret, read>>,
         (Carriable(w) /\ Carry(w, "here")) \/ Ignore
  PROVE  Fits'
<1> DEFINE x == [cmd[w] EXCEPT !.ans = ans]
<1>1. x \in Command /\ x.st = cmd[w].st /\ x.ans = ans /\ cmd' = [cmd EXCEPT ![w] = x]
      /\ read[w] \in ReadRow /\ [read EXCEPT ![w] = read[w]] = read
  BY Known1 DEF Command
<1> HIDE DEF x
<1>2. ASSUME NEW o \in Orders, w = Add(o)
      PROVE  AddFits(o, x, read[w], ord[o], ret[o].gap)
  BY <1>1, <1>2, FitsAre DEF AddFits
<1>3. ASSUME NEW o \in Orders, w = Cancel(o)
      PROVE  CancelFits(o, x, read[w], ord[o], ret[o].gap)
  BY <1>1, <1>3, FitsAre DEF CancelFits
<1>4. CASE Ignore \/ (Carry(w, "here") /\ w[1] # "add")
  <2>1. /\ \A o \in Orders : InSupply(o)' => InSupply(o)
        /\ dead \subseteq dead'
        /\ supply.closed => supply'.closed
        /\ supply'.gone = supply.gone
    <3>1. CASE Ignore
      BY <3>1 DEF Ignore, InSupply
    <3>2. CASE Carry(w, "here") /\ w[1] # "add"
      BY <3>2, CarriedAside
    <3> QED
      BY <1>4, <3>1, <3>2
  <2>2. /\ read' = [read EXCEPT ![w] = read[w]]
        /\ w = Deliver => (x.st = "none") <=> (cmd[w].st = "none")
    BY <1>1
  <2> QED
    BY <1>1, <1>2, <1>3, <2>1, <2>2, WbFits
<1>5. CASE Carriable(w) /\ Carry(w, "here") /\ w[1] = "add"
  <2>1. PICK o \in Orders : w = Add(o) /\ w[2] = o
    BY <1>5, AddsAre
  <2>2. ~supply.gone /\ o \notin dead
    BY <1>5, <2>1 DEF Carriable
  <2>3. place' = [place EXCEPT ![o] = "here"] /\ UNCHANGED <<supply, dead>>
    BY <1>5, <2>1 DEF Carry
  <2>4. \A p \in Orders : Fit(p, asg, ord, ret, cmd', read')
    <3>1. w # Deliver
      BY <2>1, OrderWrites
    <3>2. /\ \A p \in Orders : w = Add(p) => AddFits(p, x, read[w], ord[p], ret[p].gap)
          /\ \A p \in Orders : w = Cancel(p) => CancelFits(p, x, read[w], ord[p], ret[p].gap)
      BY <1>2, <1>3
    <3>3. /\ cmd \in [Writes -> Command] /\ read \in [Writes -> ReadRow]
          /\ \A p \in Orders : Fit(p, asg, ord, ret, cmd, read)
      BY Known1 DEF Fits
    <3>4. \A p \in Orders : Fit(p, asg, ord, ret, [cmd EXCEPT ![w] = x], read)
      BY <3>1, <3>2, <3>3, FitCommand
    <3> QED
      BY <1>1, <3>4
  <2> SUFFICES ASSUME NEW p \in Orders PROVE Fit(p, asg, ord, ret, cmd, read)'
    BY DEF Fits
  <2>5. Fit(p, asg', ord', ret', cmd', read')
    BY <2>4
  <2>6. CASE p # o
    <3>1. InSupply(p)' <=> InSupply(p)
      BY <2>3, <2>6 DEF InSupply, Rest
    <3> QED
      BY <2>3, <2>5, <3>1 DEF Fit, AddFits, CancelFits, OrderFits
  <2>7. CASE p = o
    <3>1. cmd'[Add(p)] = x /\ cmd[Add(p)].ans = "asked" /\ read' = read
      BY <1>1, <2>1, <2>7, Known1
    <3>2. ord[p] = "exception" => ret[p].gap = "wave"
      BY <2>2, <2>7, <3>1, FitsAre DEF AddFits
    <3>3. ord[p] # "exception" => /\ cmd[Add(p)].st = "sent" /\ read[Add(p)].ans = "none"
                                  /\ read[Add(p)].st \notin Open
      <4>1. RowOK(Add(p), cmd[Add(p)], read[Add(p)], batch, asg, ord, kiz)
        BY Known1
      <4> QED
        BY <3>1, <4>1, OrderWrites DEF RowOK, Held, Idle
    <3>4. ret[p].st = "queued" => ord[p] = "exception"
      BY FitsAre DEF OrderFits
    <3>5. ord[p] # "exception" => read[Cancel(p)].ans = "none"
      <4>1. ord[p] # "exception" => read[Cancel(p)].at = "none"
        BY FitsAre DEF CancelFits
      <4> QED
        BY <4>1, Known1, OrderWrites DEF RowOK, Held
    <3>6. UNCHANGED <<asg, ord, ret, read, supply, dead>>
      BY <2>3
    <3>7. AddFits(p, cmd[Add(p)], read[Add(p)], ord[p], ret[p].gap)'
      BY <1>1, <2>2, <2>5, <2>7, <3>1, <3>2, <3>3, <3>6 DEF Fit, AddFits
    <3>8. CancelFits(p, cmd[Cancel(p)], read[Cancel(p)], ord[p], ret[p].gap)'
      BY <2>5, <3>2, <3>5, <3>6 DEF Fit, CancelFits
    <3>9. OrderFits(p, asg[p], ord[p], ret[p], cmd[Deliver])'
      BY <2>2, <2>5, <3>2, <3>4, <3>6 DEF Fit, OrderFits
    <3> QED
      BY <3>7, <3>8, <3>9 DEF Fit
  <2> QED
    BY <2>6, <2>7
<1> QED
  BY <1>4, <1>5

LEMMA LandFits ==
  ASSUME Tables, Rest, Fits, NEW w \in Writes, Land(w) \/ Lose(w)
  PROVE  Fits'
<1>1. cmd[w].ans = "asked" /\ UNCHANGED <<asg, ord, ret, read>>
  BY DEF Land, Lose, people
<1>2. PICK ans \in {"ok", "unclear", "refused", "kiz"} :
        /\ cmd' = [cmd EXCEPT ![w].ans = ans]
        /\ (Carriable(w) /\ Carry(w, "here")) \/ Ignore
        /\ ans = "refused" => ~Carriable(w) /\ "refused" \in Refusals(w)
  <2>1. ~Carriable(w) => Refusals(w) \subseteq {"ok", "unclear", "refused"}
    <3>1. CASE \E o \in Orders : w = Add(o)
      BY <3>1, OrderWrites DEF Refusals
    <3>2. CASE \E o \in Orders : w = Cancel(o)
      BY <3>2, OrderWrites DEF Refusals
    <3>3. CASE w = Deliver
      BY <3>3, SupplyWrites DEF Refusals
    <3>4. CASE w = Create
      BY <3>4, SupplyWrites DEF Carriable
    <3> QED
      BY <3>1, <3>2, <3>3, <3>4, WriteCases
  <2>2. CASE Carriable(w) /\ Carry(w, "here") /\ \E a \in {"ok", "unclear"} : cmd' = [cmd EXCEPT ![w].ans = a]
    BY <2>2
  <2>3. CASE /\ Ignore
             /\ \E a \in IF Carriable(w) THEN {"unclear"} ELSE Refusals(w) :
                  cmd' = [cmd EXCEPT ![w].ans = a]
    BY <2>1, <2>3
  <2>4. CASE Ignore /\ \E a \in {"ok", "unclear", "kiz"} : cmd' = [cmd EXCEPT ![w].ans = a]
    BY <2>4
  <2> QED
    BY <2>2, <2>3, <2>4 DEF Land, Lose
<1>3. \A o \in Orders : w = Add(o) /\ ans = "refused" => supply.gone \/ o \in dead
  <2> SUFFICES ASSUME NEW o \in Orders, w = Add(o), "refused" \in Refusals(w)
               PROVE  supply.gone \/ o \in dead
    BY <1>2
  <2> QED
    BY OrderWrites DEF Refusals
<1> QED
  BY <1>1, <1>2, <1>3, AnsweredFits

LEMMA LandLateFits ==
  ASSUME Tables, Rest, Fits, NEW w \in Writes, LandLate(w)
  PROVE  Fits'
<1>1. UNCHANGED <<asg, ord, ret, cmd, read>> /\ (Carry(w, "late") \/ Ignore)
  BY DEF LandLate, people
<1>2. /\ \A o \in Orders : InSupply(o)' => InSupply(o)
      /\ dead \subseteq dead'
      /\ supply.closed => supply'.closed
      /\ supply'.gone = supply.gone
  <2>1. CASE Carry(w, "late")
    BY <2>1, CarriedAside
  <2>2. CASE Ignore
    BY <2>2 DEF Ignore, InSupply
  <2> QED
    BY <1>1, <2>1, <2>2
<1> SUFFICES ASSUME NEW o \in Orders PROVE Fit(o, asg, ord, ret, cmd, read)'
  BY DEF Fits
<1> QED
  BY <1>1, <1>2, FitsAre DEF Fit, AddFits, CancelFits, OrderFits

LEMMA PeopleFits ==
  ASSUME Tables, Rest, Fits,
         (\E o \in Orders : ClientCancels(o) \/ SellerMoves(o)) \/ Survey \/ UNCHANGED vars
  PROVE  Fits'
<1>1. UNCHANGED <<asg, ord, ret, cmd, read, supply>> /\ dead \subseteq dead'
  BY DEF ClientCancels, SellerMoves, Survey, people, wbVars, vars
<1>2. ASSUME NEW o \in Orders, InSupply(o)' PROVE InSupply(o)
  <2>1. place'[o] = "here" /\ o \notin dead'
    BY <1>2 DEF InSupply
  <2>2. place'[o] = place[o] \/ place'[o] = "elsewhere"
    BY DEF ClientCancels, SellerMoves, Survey, people, wbVars, vars, Rest
  <2> QED
    BY <1>1, <2>1, <2>2 DEF InSupply
<1> SUFFICES ASSUME NEW o \in Orders PROVE Fit(o, asg, ord, ret, cmd, read)'
  BY DEF Fits
<1>3. (InSupply(o)' => InSupply(o)) /\ (o \in dead => o \in dead')
  BY <1>1, <1>2
<1> QED
  BY <1>1, <1>3, FitsAre DEF Fit, AddFits, CancelFits, OrderFits

LEMMA SellerDeletesFits ==
  ASSUME Tables, Rest, Fits, SellerDeletes
  PROVE  Fits'
<1>1. /\ UNCHANGED <<asg, ord, ret, cmd, read, place, dead>>
      /\ supply' = [supply EXCEPT !.gone = TRUE] /\ \A o \in Orders : ~Here(o)
  BY DEF SellerDeletes, people
<1>2. supply'.gone /\ supply'.closed = supply.closed
  BY <1>1 DEF Rest
<1> SUFFICES ASSUME NEW o \in Orders PROVE Fit(o, asg, ord, ret, cmd, read)'
  BY DEF Fits
<1>3. ~InSupply(o)' /\ ~InSupply(o)
  BY <1>1 DEF InSupply, Here
<1> QED
  BY <1>1, <1>2, <1>3, FitsAre DEF Fit, AddFits, CancelFits, OrderFits

-----------------------------------------------------------------------------
\* A delivery that was asked for stays asked for.
Asked(c) == c[Deliver].st = "none" => cmd[Deliver].st = "none"

LEMMA TablesAsked ==
  ASSUME Tables, NEW w \in Writes
  PROVE  /\ Asked(cmd) /\ Asked(Enqueue(cmd, w)) /\ Asked(Confirm(cmd, w))
         /\ \A st \in Statuses \ {"none"} : Asked(Settle(cmd, w, st))
         /\ Asked(Confirmed(w)) /\ Asked(Retried(w)) /\ Asked(Failed(w))
<1>1. cmd \in [Writes -> Command] /\ Deliver \in Writes
  BY Known1, SupplyWrites
<1>2. Asked(cmd)
  BY DEF Asked
<1>3. Asked(Enqueue(cmd, w))
  BY <1>1, EnqueuedRow DEF Asked
<1>4. Asked(Confirm(cmd, w))
  BY <1>1 DEF Asked, Confirm, NoCommand
<1>5. ASSUME NEW st \in Statuses \ {"none"} PROVE Asked(Settle(cmd, w, st))
  <2> DEFINE x == Settle(cmd, w, st)[w]
  <2>1. Settle(cmd, w, st) = [cmd EXCEPT ![w] = x] /\ x.st # "none"
    BY <1>1, <1>5, SettledCommand
  <2> HIDE DEF x
  <2> QED
    BY <1>1, <2>1 DEF Asked
<1>6. ASSUME NEW c \in {Confirmed(w), Retried(w), Failed(w)} PROVE Asked(c)
  <2>1. /\ c = [cmd EXCEPT ![w] = c[w]]
        /\ \/ c[w] = cmd[w]
           \/ c[w].st \in {"confirmed", "retry", "failed"}
    BY <1>6, VerdictRow
  <2> QED
    BY <1>1, <2>1 DEF Asked
<1> QED
  BY <1>2, <1>3, <1>4, <1>5, <1>6

LEMMA MadeAsked ==
  ASSUME NEW c, Asked(c)
  PROVE  Asked(Scheduling(c, OrdersAdded))
<1>1. Scheduling(c, OrdersAdded)[Deliver] = c[Deliver]
  BY OrderWrites, SupplyWrites DEF Scheduling, OrdersAdded
<1> QED
  BY <1>1 DEF Asked

LEMMA CancelledAsked ==
  ASSUME NEW c \in [Writes -> Command], Asked(c), NEW adds \in SUBSET {Add(o) : o \in Orders},
         NEW sts \in SUBSET Open
  PROVE  Asked(Cancelled(c, adds, sts))
<1>1. Deliver \in Writes /\ Deliver \notin adds
  BY OrderWrites, SupplyWrites
<1> QED
  BY <1>1, CancelledCommand DEF Asked

LEMMA Committed ==
  ASSUME NEW b, NEW a, NEW c, NEW r, NEW conclusive, Commit(b, a, c, r, conclusive)
  PROVE  cmd' = c
  BY DEF Commit

LEMMA WritesAsked ==
  ASSUME Tables, NEW w \in Writes, Writing(w) \/ AskWb(w) \/ ReadFailed(w)
  PROVE  Asked(cmd')
<1>0. \A st \in {"cancelled", "failed", "conflict"} : Asked(Settle(cmd, w, st))
  BY TablesAsked DEF Statuses
<1>1. CASE Claim(w)
  <2>1. CASE cmd' = [cmd EXCEPT ![w] = [st |-> "sent", tries |-> @.tries + 1, ans |-> "asked"]]
    BY <2>1, SupplyWrites, Known1 DEF Asked
  <2>2. CASE cmd' = Settle(cmd, w, "cancelled") \/ cmd' = Settle(cmd, w, "failed")
    BY <1>0, <2>2
  <2> QED
    BY <1>1, <2>1, <2>2, Committed DEF Claim
<1>2. CASE Land(w) \/ Lose(w)
  <2>1. \E a : cmd' = [cmd EXCEPT ![w].ans = a]
    BY <1>2 DEF Land, Lose
  <2>2. cmd'[Deliver].st = cmd[Deliver].st
    BY <2>1, SupplyWrites, Known1 DEF Command
  <2> QED
    BY <2>2 DEF Asked
<1>3. CASE LandLate(w) \/ AskWb(w)
  BY <1>3, TablesAsked DEF LandLate, AskWb
<1>4. CASE Unclear(w) \/ Refused(w)
  BY <1>0, <1>4, Committed DEF Unclear, Refused, Deferred
<1>5. CASE Accepted(w)
  <2>1. w = Create \/ w = Deliver \/ w[1] \in {"add", "cancel"}
    BY WriteCases, OrderWrites
  <2>2. CASE w = Create
    <3>1. cmd' = Scheduling(Confirm(cmd, w), OrdersAdded)
      BY <1>5, <2>2, SupplyWrites, Committed DEF Accepted
    <3> QED
      BY <3>1, MadeAsked, TablesAsked
  <2>3. CASE w = Deliver
    <3>1. cmd' = Confirm(cmd, w)
      BY <1>5, <2>3, SupplyWrites DEF Accepted, Delivered
    <3> QED
      BY <3>1, TablesAsked
  <2>4. CASE w[1] \in {"add", "cancel"}
    <3>1. cmd[w].st # "none" /\ cmd[w].st \in Statuses
      BY <1>5, Known1 DEF Accepted, RowOK, Held, Command
    <3>2. cmd' = Settle(cmd, w, "conflict") \/ cmd' = Settle(cmd, w, cmd[w].st)
      BY <1>5, <2>4, SupplyWrites, Committed DEF Accepted, Deferred
    <3> QED
      BY <1>0, <3>1, <3>2, TablesAsked
  <2> QED
    BY <2>1, <2>2, <2>3, <2>4
<1>6. CASE ReadFailed(w)
  <2>1. cmd' = Retried(w) \/ cmd' = cmd
    BY <1>6, Committed DEF ReadFailed
  <2> QED
    BY <2>1, TablesAsked
<1> QED
  BY <1>1, <1>2, <1>3, <1>4, <1>5, <1>6 DEF Writing

LEMMA ReadingsAsked ==
  ASSUME Tables, NEW o \in Orders, Readings(o)
  PROVE  Asked(cmd')
<1>1. Add(o) \in Writes /\ Cancel(o) \in Writes
  BY OrderWrites
<1>2. CASE cmd' \in {cmd, Confirmed(Add(o)), Retried(Add(o)), Failed(Add(o))}
  BY <1>1, <1>2, TablesAsked
<1>3. CASE SupplyMissing(o)
  <2>1. cmd'[Deliver] = cmd[Deliver]
    BY <1>3, OrderWrites, SupplyWrites DEF SupplyMissing
  <2> QED
    BY <2>1 DEF Asked
<1>4. CASE HasLeft(o)
  <2>1. cmd' = Cancelled(Confirmed(Cancel(o)), {Add(o)}, Open)
    BY <1>4 DEF HasLeft
  <2>2. Confirmed(Cancel(o)) \in [Writes -> Command]
    <3>1. PICK w, c : w \in Writes /\ w = Cancel(o) /\ c = Confirmed(w)
      BY <1>1
    <3>2. c = [cmd EXCEPT ![w] = c[w]] /\ c[w] \in Command
      BY <3>1, VerdictRow
    <3>3. cmd \in [Writes -> Command]
      BY Known1
    <3>4. c \in [Writes -> Command]
      BY <3>2, <3>3
    <3> QED
      BY <3>1, <3>4
  <2> QED
    BY <1>1, <2>1, <2>2, TablesAsked, CancelledAsked
<1>5. CASE SupplyOpen(o) \/ SupplyClosed(o) \/ Member(o) \/ NoMember(o) \/ Located(o)
           \/ StillThere(o)
  <2>1. cmd' \in {cmd, Confirmed(Add(o)), Retried(Add(o)), Failed(Add(o))}
    BY <1>5, Committed DEF SupplyOpen, SupplyClosed, Member, NoMember, Located, StillThere
  <2> QED
    BY <1>2, <2>1
<1> QED
  BY <1>3, <1>4, <1>5 DEF Readings

LEMMA OrdersAsked ==
  ASSUME Tables, NEW o \in Orders,
         Assign(o) \/ Schedule(o) \/ Controllers(o) \/ ClientCancels(o) \/ SellerMoves(o) \/ Import(o)
  PROVE  Asked(cmd')
<1>1. /\ Add(o) \in Writes /\ Cancel(o) \in Writes /\ Create \in Writes /\ Deliver \in Writes
      /\ "retry" \in Statuses \ {"none"}
  BY OrderWrites, SupplyWrites DEF Statuses
<1>2. CASE Assign(o) \/ Schedule(o)
  <2>1. cmd' = Enqueue(cmd, Add(o)) \/ cmd' = Enqueue(cmd, Create)
    BY <1>2 DEF Assign, Schedule, Scheduled
  <2> QED
    BY <1>1, <2>1, TablesAsked
<1>3. CASE TakeOut(o, TRUE) \/ TakeOut(o, FALSE) \/ cmd' = cmd
  <2>1. cmd' = Enqueue(cmd, Cancel(o)) \/ cmd' = cmd
    BY <1>3 DEF TakeOut
  <2> QED
    BY <1>1, <2>1, TablesAsked
<1>4. CASE RetryExclusion(o) \/ FixCode(o)
  <2>1. cmd' \in {cmd, Settle(cmd, Cancel(o), "retry"), Settle(cmd, Deliver, "retry")}
    BY <1>4 DEF RetryExclusion, FixCode
  <2> QED
    BY <1>1, <2>1, TablesAsked
<1>5. CASE ReportProblem(o)
  <2>1. cmd' = cmd \/ cmd' = Cancelled(cmd, {Add(o)}, Active)
    BY <1>5 DEF ReportProblem
  <2>2. Active \in SUBSET Open /\ {Add(o)} \in SUBSET {Add(p) : p \in Orders}
    BY DEF Active, Open
  <2> QED
    BY <1>1, <2>1, <2>2, TablesAsked, CancelledAsked, Known1
<1>6. CASE Pack(o) \/ ClientCancels(o) \/ SellerMoves(o)
  BY <1>1, <1>6, TablesAsked DEF Pack, ClientCancels, SellerMoves
<1>7. CASE Import(o) \/ \E client \in BOOLEAN : Exclude(o, client)
  BY <1>3, <1>7 DEF Import, Exclude
<1> QED
  BY <1>2, <1>4, <1>5, <1>6, <1>7 DEF Controllers

LEMMA BatchAsked ==
  ASSUME Tables,
         \/ CodesRefused \/ Found \/ NotFound \/ IsDelivered \/ NotDelivered
         \/ Sync \/ Survey \/ Reconcile \/ RequestDelivery \/ Dispatch \/ ReturnWave
         \/ SellerDeletes \/ UNCHANGED vars
  PROVE  Asked(cmd')
<1>1. /\ Create \in Writes /\ Deliver \in Writes /\ "conflict" \in Statuses \ {"none"}
  BY SupplyWrites DEF Statuses
<1>2. CASE CodesRefused \/ NotFound \/ IsDelivered \/ NotDelivered \/ RequestDelivery
  <2>1. cmd' \in {Settle(cmd, Deliver, "conflict"), Retried(Create), Confirmed(Deliver),
                  Retried(Deliver), Enqueue(cmd, Deliver)}
    BY <1>2, Committed DEF CodesRefused, NotFound, IsDelivered, Delivered, NotDelivered,
                           RequestDelivery
  <2> QED
    BY <1>1, <2>1, TablesAsked
<1>3. CASE Found
  <2>1. cmd' = Scheduling(Confirmed(Create), OrdersAdded)
    BY <1>3, Committed DEF Found
  <2> QED
    BY <1>1, <2>1, MadeAsked, TablesAsked
<1>4. CASE ReturnWave
  <2>1. cmd' = Cancelled(cmd, {Add(o) : o \in Orders}, Open)
    BY <1>4 DEF ReturnWave
  <2> QED
    BY <1>1, <2>1, TablesAsked, CancelledAsked, Known1
<1>5. CASE Sync \/ Survey \/ Reconcile \/ Dispatch \/ SellerDeletes \/ UNCHANGED vars
  BY <1>1, <1>5, TablesAsked DEF Sync, Survey, Reconcile, Dispatch, SellerDeletes, vars
<1> QED
  BY <1>2, <1>3, <1>4, <1>5

LEMMA StaysAsked ==
  ASSUME Tables, [Next]_vars
  PROVE  Asked(cmd')
  BY WritesAsked, ReadingsAsked, OrdersAsked, BatchAsked DEF Next

-----------------------------------------------------------------------------
\* What the import was told has happened, and nobody delivers unasked.
LEMMA ToldStep ==
  ASSUME Tables, Rest, Told, [Next]_vars
  PROVE  Told'
<1>1. CASE UNCHANGED wbVars /\ told' \subseteq dead
  <2>1. cmd'[Deliver].st = "none" => cmd[Deliver].st = "none"
    BY StaysAsked DEF Asked
  <2> QED
    BY <1>1, <2>1 DEF Told, wbVars
<1>2. ASSUME NEW w \in Writes, Land(w) \/ Lose(w) \/ LandLate(w) PROVE Told'
  <2>1. UNCHANGED told /\ dead \subseteq dead'
    BY <1>2 DEF Land, Lose, LandLate, Carry, Ignore, people
  <2>2. ASSUME cmd'[Deliver].st = "none" PROVE Deliver \notin late' /\ ~supply'.closed
    <3>1. cmd[Deliver].st = "none" /\ Deliver \notin late /\ ~supply.closed
      BY <2>2, StaysAsked DEF Told, Asked
    <3>2. cmd[Deliver].ans = "none"
      BY <3>1, SupplyWrites, Known1 DEF RowOK, Held
    <3>3. w # Deliver
      BY <1>2, <3>1, <3>2 DEF Land, Lose, LandLate
    <3>4. supply'.closed = supply.closed
      <4>1. w[1] # "deliver"
        <5>1. CASE \E o \in Orders : w = Add(o) \/ w = Cancel(o)
          BY <5>1, OrderWrites
        <5> QED
          BY <3>3, <5>1, WriteCases, SupplyWrites
      <4>2. Carry(w, "here") \/ Carry(w, "late") \/ Ignore
        BY <1>2 DEF Land, Lose, LandLate
      <4>3. CASE w[1] = "create" /\ ~Ignore
        BY <4>2, <4>3 DEF Carry, Rest
      <4>4. CASE w[1] # "create" \/ Ignore
        BY <4>1, <4>2, <4>4 DEF Carry, Ignore
      <4> QED
        BY <4>3, <4>4
    <3>5. late' \subseteq late \cup {w}
      BY <1>2 DEF Land, Lose, LandLate
    <3> QED
      BY <3>1, <3>3, <3>4, <3>5
  <2> QED
    BY <2>1, <2>2 DEF Told
<1>3. ASSUME NEW o \in Orders, ClientCancels(o) \/ SellerMoves(o) \/ SellerDeletes PROVE Told'
  <2>1. UNCHANGED <<told, cmd, late>> /\ dead \subseteq dead'
    BY <1>3 DEF ClientCancels, SellerMoves, SellerDeletes, people
  <2>2. supply'.closed = supply.closed
    BY <1>3 DEF ClientCancels, SellerMoves, SellerDeletes, Rest
  <2> QED
    BY <2>1, <2>2 DEF Told
<1>4. CASE SellerDeletes
  <2>1. UNCHANGED <<told, cmd, late, dead>>
    BY <1>4 DEF SellerDeletes, people
  <2>2. supply'.closed = supply.closed
    BY <1>4 DEF SellerDeletes, Rest
  <2> QED
    BY <2>1, <2>2 DEF Told
<1>5. ASSUME NEW w \in Writes, Writing(w) \/ AskWb(w) \/ ReadFailed(w) PROVE Told'
  <2>1. CASE Claim(w) \/ Accepted(w) \/ Unclear(w) \/ Refused(w) \/ AskWb(w) \/ ReadFailed(w)
    <3>1. UNCHANGED wbVars /\ told' = told
      BY <2>1 DEF Claim, Accepted, Unclear, Refused, AskWb, ReadFailed, Unread, people
    <3> QED
      BY <1>1, <3>1 DEF Told
  <2> QED
    BY <1>2, <1>5, <2>1 DEF Writing
<1>6. ASSUME NEW o \in Orders,
             Assign(o) \/ Schedule(o) \/ Readings(o) \/ Controllers(o) \/ Import(o)
      PROVE  Told'
  <2>1. CASE Import(o)
    BY <1>1, <2>1 DEF Import, Told
  <2>2. CASE Assign(o) \/ Schedule(o) \/ Controllers(o)
    <3>1. UNCHANGED wbVars /\ told' = told
      BY <2>2 DEF Assign, Schedule, Controllers, Pack, FixCode, RetryExclusion, ReportProblem,
                  Exclude, people
    <3> QED
      BY <1>1, <3>1 DEF Told
  <2>3. CASE Readings(o)
    <3>1. UNCHANGED wbVars /\ told' \subseteq told
      BY <2>3 DEF Readings, Member, SupplyOpen, SupplyClosed, SupplyMissing, NoMember,
                  Located, StillThere, HasLeft, Unread
    <3> QED
      BY <1>1, <3>1 DEF Told
  <2> QED
    BY <1>6, <2>1, <2>2, <2>3
<1>7. CASE \/ CodesRefused \/ Found \/ NotFound \/ IsDelivered \/ NotDelivered
           \/ Sync \/ Survey \/ Reconcile \/ RequestDelivery \/ Dispatch \/ ReturnWave
           \/ UNCHANGED vars
  <2>1. UNCHANGED wbVars /\ told' = told
    BY <1>7 DEF CodesRefused, Found, NotFound, IsDelivered, NotDelivered, Sync, Survey,
                Reconcile, RequestDelivery, Dispatch, ReturnWave, Unread, people, wbVars, vars
  <2> QED
    BY <1>1, <2>1 DEF Told
<1> QED
  BY <1>3, <1>4, <1>5, <1>6, <1>7 DEF Next

LEMMA FitsStep ==
  ASSUME Tables, Rest, Fits, Told, [Next]_vars
  PROVE  Fits'
<1>1. ASSUME NEW w \in Writes, Writing(w) \/ AskWb(w) \/ ReadFailed(w)
      PROVE  Fits'
  BY <1>1, ClaimFits, LandFits, LandLateFits, AcceptedFits, UnclearFits, RefusedFits, AskWbFits,
     ReadFailedFits DEF Writing
<1>2. ASSUME NEW o \in Orders, Readings(o)
      PROVE  Fits'
  BY <1>2, SupplyOpenFits, SupplyClosedFits, SupplyMissingFits, MemberFits, NoMemberFits,
     LocatedFits, StillThereFits, HasLeftFits DEF Readings
<1>3. ASSUME NEW o \in Orders, Controllers(o)
      PROVE  Fits'
  BY <1>3, PackFits, FixCodeFits, RetryExclusionFits, ReportProblemFits, ExcludeFits
     DEF Controllers
<1>4. ASSUME NEW o \in Orders,
             Assign(o) \/ Schedule(o) \/ ClientCancels(o) \/ SellerMoves(o) \/ Import(o)
      PROVE  Fits'
  BY <1>4, AssignFits, ImportFits, PeopleFits
<1>5. CASE \/ CodesRefused \/ Found \/ NotFound \/ IsDelivered \/ NotDelivered
           \/ RequestDelivery \/ Dispatch \/ ReturnWave
  BY <1>5, CodesRefusedFits, FoundFits, NotFoundFits, IsDeliveredFits, NotDeliveredFits,
     RequestDeliveryFits, DispatchFits, ReturnWaveFits
<1>6. CASE Sync \/ Reconcile \/ Survey \/ SellerDeletes \/ UNCHANGED vars
  BY <1>6, SyncFits, SellerDeletesFits, PeopleFits
<1> QED
  BY <1>1, <1>2, <1>3, <1>4, <1>5, <1>6 DEF Next

LEMMA PlacesInvariance == Spec => [](Invariant /\ Fits /\ Told)
<1>1. Init => Fits /\ Told
  <2> SUFFICES ASSUME Init PROVE Fits /\ Told
    OBVIOUS
  <2>1. /\ NoCommand.st = "none" /\ NoCommand.ans = "none" /\ NoReturn.st = "none"
        /\ NoReturn.gap = "none"
    BY DEF NoCommand, NoReturn
  <2>2. Told
    BY <2>1, SupplyWrites DEF Init, Told
  <2>3. ASSUME NEW o \in Orders PROVE Fit(o, asg, ord, ret, cmd, read)
    <3>1. /\ cmd[Add(o)] = NoCommand /\ cmd[Cancel(o)] = NoCommand /\ cmd[Deliver] = NoCommand
          /\ read[Add(o)] = NoRead /\ read[Cancel(o)] = NoRead
      BY OrderWrites, SupplyWrites DEF Init
    <3>2. /\ ord[o] = "picked" /\ ret[o] = NoReturn /\ ~InSupply(o)
      BY DEF Init, InSupply
    <3> QED
      BY <2>1, <3>1, <3>2, EmptyRead DEF Fit, AddFits, CancelFits, OrderFits
  <2> QED
    BY <2>2, <2>3 DEF Fits
<1>2. Invariant /\ Fits /\ Told /\ [Next]_vars => (Fits /\ Told)'
  BY FitsStep, ToldStep DEF Invariant
<1> QED
  BY <1>1, <1>2, Initially, Step, PTL DEF Spec

\* An order whose goods go back to stock is not in the supply, by whatever path
\* it was taken back, but for the orders of a wave returned with an add under
\* way and those a buyer cancelled (queue_order_pick_restock_after_marketplace,
\* queue_verification_problem_restock, _sync_handover_failure).
THEOREM HandoverTakenBackIsFree == Spec => []TakenBackIsFree
<1>1. Fits => TakenBackIsFree
  BY FitsAre DEF TakenBackIsFree, OrderFits, InSupply
<1> QED
  BY <1>1, PlacesInvariance, PTL

-----------------------------------------------------------------------------
(***************************************************************************)
(* Who is in doubt is followed up (DoubtIsPursued).  The rows say it of    *)
(* the writes; of a return that waits or failed, Pursued says where its    *)
(* cancellation x and its readback y are.                                  *)
(***************************************************************************)
Pursued(rt, x, y) ==
  /\ rt.st = "waiting" /\ rt.act = "verify" => x.st = "none" /\ y.st \in Open \cup {"conflict"}
  /\ rt.st = "waiting" /\ rt.act # "verify" =>
       \/ x.st \in Open /\ y.st \notin Open
       \/ x.st = "conflict" /\ y.st \in Open \cup {"conflict"}
  /\ rt.st = "failed" /\ rt.act = "verify" => x.st = "none" /\ y.st = "failed"
  /\ rt.st = "failed" /\ rt.act # "verify" =>
       \/ x.st = "conflict" /\ y.st = "failed"
       \/ x.st = "failed" /\ y.st \notin Open

Pursuit == \A o \in Orders : Pursued(ret[o], cmd[Cancel(o)], read[Cancel(o)])

\* What a transaction may write of a cancellation and its readback.
Chased(x, y, x2, y2) ==
  \/ x2.st = x.st /\ (y2.st = y.st \/ (y.st \in Open /\ y2.st \in Open \cup {"failed", "conflict"}))
  \/ x.st \in Open /\ x2.st = "conflict" /\ y2.st = "pending"
  \/ x.st \in Open /\ x2.st = "failed" /\ y2.st = y.st

\* What it does to a return beside.
LEMMA CommitPursued ==
  ASSUME Tables, Fits, Pursuit, NEW o \in Orders, NEW b, NEW a, NEW c, NEW r, NEW conclusive,
         DOMAIN r = Writes, Commit(b, a, c, r, conclusive),
         Chased(cmd[Cancel(o)], read[Cancel(o)], c[Cancel(o)], r[Cancel(o)])
  PROVE  Pursued(ret'[o], cmd'[Cancel(o)], read'[Cancel(o)])
<1> DEFINE New(old, new, w) == new[w].st = "failed" /\ old[w].st # "failed"
           lost == {p \in Orders : New(cmd, c, Add(p)) /\ a[p] # "moved"}
           stuck == {p \in Orders : New(cmd, c, Cancel(p)) \/ New(read, r, Cancel(p))}
           may == {p \in lost : conclusive /\ ret[p].st = "none" /\ MayLeave}
<1>1. PICK back \in SUBSET may :
        /\ cmd' = c
        /\ ret' = [p \in Orders |->
             CASE p \in back -> TakenOut("verify", FALSE)
               [] p \in stuck /\ ret[p].st = "waiting" -> [ret[p] EXCEPT !.st = "failed"]
               [] OTHER -> ret[p]]
        /\ read' = [w \in Writes |->
             IF w \in {Cancel(p) : p \in back} THEN Ask(r, w, "absence")[w] ELSE r[w]]
  BY DEF Commit
<1>2. /\ Cancel(o) \in Writes /\ ret[o] \in Return
      /\ Pursued(ret[o], cmd[Cancel(o)], read[Cancel(o)])
  BY OrderWrites, Known1 DEF Pursuit
<1>3. CASE o \in back
  <2>1. ret[o].st = "none" /\ ret'[o] = TakenOut("verify", FALSE)
    BY <1>1, <1>3
  <2>2. ret'[o].st = "waiting" /\ ret'[o].act = "verify"
    BY <2>1 DEF TakenOut
  <2>3. cmd[Cancel(o)].st = "none"
    BY <2>1, FitsAre DEF CancelFits, OrderFits
  <2>4. c[Cancel(o)].st = "none"
    BY <2>3 DEF Chased, Open
  <2>5. read'[Cancel(o)] = Ask(r, Cancel(o), "absence")[Cancel(o)]
    BY <1>1, <1>2, <1>3
  <2>6. read'[Cancel(o)].st = "pending"
    BY <1>2, <2>5 DEF Ask
  <2> QED
    BY <1>1, <2>2, <2>4, <2>6 DEF Pursued, Open
<1>4. CASE o \notin back
  <2>1. read'[Cancel(o)] = r[Cancel(o)] /\ cmd'[Cancel(o)] = c[Cancel(o)]
    <3>1. Cancel(o) \notin {Cancel(p) : p \in back}
      BY <1>4, OrderWrites
    <3> QED
      BY <1>1, <1>2, <3>1
  <2>2. CASE o \in stuck /\ ret[o].st = "waiting"
    <3>1. ret'[o] = [ret[o] EXCEPT !.st = "failed"]
      BY <1>1, <1>4, <2>2
    <3>2. ret'[o].st = "failed" /\ ret'[o].act = ret[o].act
      BY <1>2, <3>1 DEF Return
    <3>3. \/ c[Cancel(o)].st = "failed" /\ cmd[Cancel(o)].st # "failed"
          \/ r[Cancel(o)].st = "failed" /\ read[Cancel(o)].st # "failed"
      BY <2>2
    <3> QED
      BY <1>2, <2>1, <2>2, <3>2, <3>3 DEF Pursued, Chased, Open
  <2>3. CASE ~(o \in stuck /\ ret[o].st = "waiting")
    <3>1. ret'[o] = ret[o]
      BY <1>1, <1>4, <2>3
    <3>2. ret[o].st = "waiting" =>
            /\ c[Cancel(o)].st = "failed" => cmd[Cancel(o)].st = "failed"
            /\ r[Cancel(o)].st = "failed" => read[Cancel(o)].st = "failed"
      BY <2>3
    <3> QED
      BY <1>2, <2>1, <3>1, <3>2 DEF Pursued, Chased, Open
  <2> QED
    BY <2>2, <2>3
<1> QED
  BY <1>3, <1>4

\* It leaves the cancellations alone, or settles one.
LEMMA BesidePursued ==
  ASSUME Tables, Fits, Pursuit, NEW b, NEW a, NEW c, NEW r, NEW conclusive,
         DOMAIN r = Writes, Commit(b, a, c, r, conclusive),
         \A o \in Orders : c[Cancel(o)] = cmd[Cancel(o)] /\ r[Cancel(o)] = read[Cancel(o)]
  PROVE  Pursuit'
<1> SUFFICES ASSUME NEW o \in Orders
             PROVE  Pursued(ret'[o], cmd'[Cancel(o)], read'[Cancel(o)])
  BY DEF Pursuit
<1>1. Chased(cmd[Cancel(o)], read[Cancel(o)], c[Cancel(o)], r[Cancel(o)])
  BY DEF Chased
<1> QED
  BY <1>1, CommitPursued

LEMMA OnePursued ==
  ASSUME Tables, Fits, Pursuit, NEW w \in Writes, NEW x, NEW y, NEW b, NEW a, NEW conclusive,
         Commit(b, a, [cmd EXCEPT ![w] = x], [read EXCEPT ![w] = y], conclusive),
         w[1] = "cancel" => Chased(cmd[w], read[w], x, y)
  PROVE  Pursuit'
<1> DEFINE c == [cmd EXCEPT ![w] = x]
           r == [read EXCEPT ![w] = y]
<1>1. DOMAIN cmd = Writes /\ DOMAIN read = Writes
  BY Known1
<1>2. /\ \A v \in Writes : v # w => c[v] = cmd[v] /\ r[v] = read[v]
      /\ c[w] = x /\ r[w] = y /\ DOMAIN r = Writes
  BY <1>1
<1>3. Commit(b, a, c, r, conclusive)
  OBVIOUS
<1> HIDE DEF c, r
<1> SUFFICES ASSUME NEW o \in Orders
             PROVE  Pursued(ret'[o], cmd'[Cancel(o)], read'[Cancel(o)])
  BY DEF Pursuit
<1>4. CASE w = Cancel(o)
  <2>1. Chased(cmd[Cancel(o)], read[Cancel(o)], c[Cancel(o)], r[Cancel(o)])
    BY <1>2, <1>4, OrderWrites
  <2> QED
    BY <1>2, <1>3, <2>1, CommitPursued
<1>5. CASE w # Cancel(o)
  <2>1. c[Cancel(o)] = cmd[Cancel(o)] /\ r[Cancel(o)] = read[Cancel(o)]
    BY <1>2, <1>5, OrderWrites
  <2>2. Chased(cmd[Cancel(o)], read[Cancel(o)], c[Cancel(o)], r[Cancel(o)])
    BY <2>1 DEF Chased
  <2> QED
    BY <1>2, <1>3, <2>2, CommitPursued
<1> QED
  BY <1>4, <1>5

\* No return changes, and no cancellation or readback but from open to open.
LEMMA StaysPursued ==
  ASSUME Pursuit,
         \A o \in Orders :
           \/ ret'[o].st \in {"none", "queued"}
           \/ /\ ret'[o].st = ret[o].st /\ ret'[o].act = ret[o].act
              /\ \/ cmd'[Cancel(o)].st = cmd[Cancel(o)].st
                 \/ cmd[Cancel(o)].st \in Open /\ cmd'[Cancel(o)].st \in Open
              /\ \/ read'[Cancel(o)].st = read[Cancel(o)].st
                 \/ read[Cancel(o)].st \in Open /\ read'[Cancel(o)].st \in Open
  PROVE  Pursuit'
<1> SUFFICES ASSUME NEW o \in Orders
             PROVE  Pursued(ret'[o], cmd'[Cancel(o)], read'[Cancel(o)])
  BY DEF Pursuit
<1>1. Pursued(ret[o], cmd[Cancel(o)], read[Cancel(o)])
  BY DEF Pursuit
<1> QED
  BY <1>1 DEF Pursued, Open

\* The operations on another write leave the cancellations alone.
LEMMA Elsewhere ==
  ASSUME Tables, NEW w \in Writes, w[1] # "cancel", NEW o \in Orders
  PROVE  /\ \A st : Settle(cmd, w, st)[Cancel(o)] = cmd[Cancel(o)]
         /\ Confirm(cmd, w)[Cancel(o)] = cmd[Cancel(o)]
         /\ Enqueue(cmd, w)[Cancel(o)] = cmd[Cancel(o)]
         /\ Confirmed(w)[Cancel(o)] = cmd[Cancel(o)]
         /\ Retried(w)[Cancel(o)] = cmd[Cancel(o)]
         /\ Failed(w)[Cancel(o)] = cmd[Cancel(o)]
         /\ \A at : Ask(read, w, at)[Cancel(o)] = read[Cancel(o)]
         /\ Done(w)[Cancel(o)] = read[Cancel(o)]
         /\ DOMAIN read = Writes /\ (\A at : DOMAIN Ask(read, w, at) = Writes) /\ DOMAIN Done(w) = Writes
<1>1. /\ cmd \in [Writes -> Command] /\ read \in [Writes -> ReadRow]
      /\ Cancel(o) \in Writes /\ Cancel(o) # w
  BY OrderWrites, Known1
<1>2. ASSUME NEW x PROVE [cmd EXCEPT ![w] = x][Cancel(o)] = cmd[Cancel(o)]
  BY <1>1
<1>3. ASSUME NEW y PROVE [read EXCEPT ![w] = y][Cancel(o)] = read[Cancel(o)]
  BY <1>1
<1>4. \A st : Settle(cmd, w, st)[Cancel(o)] = cmd[Cancel(o)]
  BY <1>2 DEF Settle
<1>5. Confirm(cmd, w)[Cancel(o)] = cmd[Cancel(o)]
  BY <1>2 DEF Confirm
<1>6. Enqueue(cmd, w)[Cancel(o)] = cmd[Cancel(o)]
  BY <1>1, EnqueuedRow
<1>7. Retried(w)[Cancel(o)] = cmd[Cancel(o)]
  BY <1>4 DEF Retried, RetryOrFailed
<1>8. (\A at : Ask(read, w, at)[Cancel(o)] = read[Cancel(o)]) /\ Done(w)[Cancel(o)] = read[Cancel(o)]
  BY <1>3 DEF Ask, Done
<1>9. DOMAIN read = Writes /\ (\A at : DOMAIN Ask(read, w, at) = Writes) /\ DOMAIN Done(w) = Writes
  BY <1>1 DEF Ask, Done
<1> QED
  BY <1>4, <1>5, <1>6, <1>7, <1>8, <1>9 DEF Confirmed, Failed

LEMMA MadePursued ==
  ASSUME Tables, Fits, Pursuit, NEW c \in {Confirm(cmd, Create), Confirmed(Create)},
         NEW r \in {read, Done(Create)},
         Commit(Known, asg, Scheduling(c, OrdersAdded), r, FALSE)
  PROVE  Pursuit'
<1>1. Create \in Writes /\ Create[1] # "cancel"
  BY SupplyWrites
<1>2. ASSUME NEW o \in Orders
      PROVE  /\ Scheduling(c, OrdersAdded)[Cancel(o)] = cmd[Cancel(o)]
             /\ r[Cancel(o)] = read[Cancel(o)]
  <2>1. c[Cancel(o)] = cmd[Cancel(o)] /\ r[Cancel(o)] = read[Cancel(o)]
    BY <1>1, Elsewhere
  <2>2. Scheduling(c, OrdersAdded)[Cancel(o)] = c[Cancel(o)]
    BY OrderWrites DEF Scheduling, OrdersAdded
  <2> QED
    BY <2>1, <2>2
<1>3. DOMAIN r = Writes
  BY Known1 DEF Done
<1>4. PICK b, a, t, conclusive : /\ t = Scheduling(c, OrdersAdded)
                                 /\ Commit(b, a, t, r, conclusive)
  OBVIOUS
<1>5. \A o \in Orders : t[Cancel(o)] = cmd[Cancel(o)] /\ r[Cancel(o)] = read[Cancel(o)]
  BY <1>2, <1>4
<1> QED
  BY <1>3, <1>4, <1>5, BesidePursued

LEMMA DeferredPursued ==
  ASSUME Tables, Fits, Pursuit, NEW w \in Writes, cmd[w].ans # "none", Deferred(w)
  PROVE  Pursuit'
<1>1. PICK x, y : /\ x = Settle(cmd, w, "conflict")[w]
                  /\ y = [at |-> Readback(w), st |-> "pending", tries |-> 0, ans |-> "none"]
  OBVIOUS
<1>2. Settle(cmd, w, "conflict") = [cmd EXCEPT ![w] = x] /\ x.st = "conflict"
  <2>1. cmd \in [Writes -> Command] /\ "conflict" \in Statuses
    BY Known1 DEF Statuses
  <2> QED
    BY <1>1, <2>1, SettledCommand
<1>3. Ask(read, w, Readback(w)) = [read EXCEPT ![w] = y] /\ y.st = "pending"
  BY <1>1 DEF Ask
<1>4. w[1] = "cancel" => cmd[w].st = "sent"
  BY Known1 DEF RowOK, Held
<1>5. w[1] = "cancel" => Chased(cmd[w], read[w], x, y)
  BY <1>2, <1>3, <1>4 DEF Chased, Open
<1>6. Commit(batch, asg, [cmd EXCEPT ![w] = x], [read EXCEPT ![w] = y], FALSE)
  BY <1>2, <1>3 DEF Deferred
<1> QED
  BY <1>5, <1>6, OnePursued

\* A command is settled for good, or a cancelled one keeps its status.
LEMMA SettlePursued ==
  ASSUME Tables, Fits, Pursuit, NEW w \in Writes, NEW st \in Statuses, NEW b, NEW conclusive,
         Commit(b, asg, Settle(cmd, w, st), read, conclusive),
         w[1] = "cancel" => st = cmd[w].st \/ (cmd[w].st \in Open /\ st = "failed")
  PROVE  Pursuit'
<1>1. PICK x : x = Settle(cmd, w, st)[w]
  OBVIOUS
<1>2. Settle(cmd, w, st) = [cmd EXCEPT ![w] = x] /\ x.st = st
  BY <1>1, SettledCommand, Known1
<1>3. [read EXCEPT ![w] = read[w]] = read
  BY Known1
<1>4. w[1] = "cancel" => Chased(cmd[w], read[w], x, read[w])
  BY <1>2 DEF Chased
<1>5. Commit(b, asg, [cmd EXCEPT ![w] = x], [read EXCEPT ![w] = read[w]], conclusive)
  BY <1>2, <1>3
<1> QED
  BY <1>4, <1>5, OnePursued

LEMMA ClaimPursued ==
  ASSUME Tables, Fits, Pursuit, NEW w \in Writes, Claim(w)
  PROVE  Pursuit'
<1>1. CASE /\ cmd' = [cmd EXCEPT ![w] = [st |-> "sent", tries |-> @.tries + 1, ans |-> "asked"]]
           /\ UNCHANGED <<ret, read>>
  <2>1. PICK x : x = [st |-> "sent", tries |-> cmd[w].tries + 1, ans |-> "asked"]
    OBVIOUS
  <2>2. x.st = "sent" /\ cmd' = [cmd EXCEPT ![w] = x] /\ cmd[w].st \in Open
    BY <1>1, <2>1 DEF Claim, Active, Open
  <2>3. \A v \in Writes : cmd'[v].st = cmd[v].st \/ (cmd[v].st \in Open /\ cmd'[v].st \in Open)
    BY <2>2, Known1 DEF Open
  <2> QED
    BY <1>1, <2>3, OrderWrites, StaysPursued
<1>2. CASE w[1] = "add" /\ cmd' = Settle(cmd, w, "cancelled") /\ UNCHANGED <<ret, read>>
  BY <1>2, Elsewhere, StaysPursued
<1>3. CASE w[1] = "add" /\ Commit(batch, asg, Settle(cmd, w, "failed"), read, TRUE)
  BY <1>3, SettlePursued DEF Statuses
<1> QED
  BY <1>1, <1>2, <1>3 DEF Claim

LEMMA ReadFailedPursued ==
  ASSUME Tables, Fits, Pursuit, NEW w \in Writes, ReadFailed(w)
  PROVE  Pursuit'
<1> DEFINE reads == CASE read[w].ans = "refused" -> Settle(read, w, "failed")
                      [] read[w].ans = "conflict" -> Settle(read, w, "conflict")
                      [] OTHER -> RetryOrFailed(read, w)
           table == IF read[w].at = "lookup" /\ reads[w].st \in {"failed", "conflict"}
                    THEN Retried(w) ELSE cmd
<1>1. read[w].ans # "none" /\ Commit(batch, asg, table, reads, FALSE)
  BY DEF ReadFailed, Reading
<1>2. /\ cmd \in [Writes -> Command] /\ read \in [Writes -> ReadRow]
      /\ RowOK(w, cmd[w], read[w], batch, asg, ord, kiz)
  BY Known1
<1>3. PICK st \in {"retry", "failed", "conflict"} : reads = Settle(read, w, st)
  BY DEF RetryOrFailed
<1>4. \/ read[w].at = "lookup" /\ table = Retried(w)
      \/ table = cmd
  OBVIOUS
<1> HIDE DEF reads, table
<1>5. /\ reads = [read EXCEPT ![w] = reads[w]] /\ reads[w].st = st
  BY <1>2, <1>3, SettledRead DEF ReadStatuses
<1>6. /\ table = [cmd EXCEPT ![w] = table[w]]
      /\ table[w] = cmd[w] \/ read[w].at = "lookup"
  BY <1>2, <1>4, VerdictRow
<1>7. Commit(batch, asg, [cmd EXCEPT ![w] = table[w]], [read EXCEPT ![w] = reads[w]], FALSE)
  BY <1>1, <1>5, <1>6
<1>8. ASSUME w[1] = "cancel" PROVE Chased(cmd[w], read[w], table[w], reads[w])
  <2>1. read[w].st = "sent" /\ read[w].at # "lookup"
    BY <1>1, <1>2, <1>8 DEF RowOK, Held, Kinds, Readback
  <2> QED
    BY <1>5, <1>6, <2>1 DEF Chased, Open
<1> QED
  BY <1>7, <1>8, OnePursued

LEMMA WritesPursued ==
  ASSUME Tables, Fits, Pursuit, NEW w \in Writes, Writing(w) \/ AskWb(w) \/ ReadFailed(w)
  PROVE  Pursuit'
<1>1. CASE Claim(w) \/ ReadFailed(w)
  BY <1>1, ClaimPursued, ReadFailedPursued
<1>2. CASE Land(w) \/ Lose(w)
  <2>1. PICK a : cmd' = [cmd EXCEPT ![w].ans = a] /\ UNCHANGED <<ret, read>>
    BY <1>2 DEF Land, Lose, people
  <2>2. PICK x : x = [cmd[w] EXCEPT !.ans = a]
    OBVIOUS
  <2>3. x.st = cmd[w].st /\ cmd' = [cmd EXCEPT ![w] = x]
    BY <2>1, <2>2, Known1 DEF Command
  <2>4. \A v \in Writes : cmd'[v].st = cmd[v].st
    BY <2>3, Known1
  <2> QED
    BY <2>1, <2>4, OrderWrites, StaysPursued
<1>3. CASE LandLate(w)
  <2>1. UNCHANGED <<ret, cmd, read>>
    BY <1>3 DEF LandLate, people
  <2> QED
    BY <2>1, StaysPursued
<1>4. CASE AskWb(w)
  <2>1. PICK a : /\ read[w].st \in Active /\ UNCHANGED <<ret, cmd>>
                 /\ read' = [read EXCEPT ![w] = [at |-> read[w].at, st |-> "sent",
                                                 tries |-> read[w].tries + 1, ans |-> a]]
    BY <1>4 DEF AskWb, people
  <2>2. PICK y : y = [at |-> read[w].at, st |-> "sent", tries |-> read[w].tries + 1, ans |-> a]
    OBVIOUS
  <2>3. y.st = "sent" /\ read' = [read EXCEPT ![w] = y] /\ read[w].st \in Open
    BY <2>1, <2>2 DEF Active, Open
  <2>4. \A v \in Writes : read'[v].st = read[v].st \/ (read[v].st \in Open /\ read'[v].st \in Open)
    BY <2>3, Known1 DEF Open
  <2> QED
    BY <2>1, <2>4, OrderWrites, StaysPursued
<1>5. CASE Unclear(w) \/ Refused(w)
  <2>1. CASE Unclear(w)
    BY <2>1, DeferredPursued DEF Unclear
  <2>2. CASE Refused(w)
    <3>1. w[1] = "cancel" => cmd[w].st \in Open
      BY <2>2, Known1 DEF Refused, RowOK, Held, Open
    <3> QED
      BY <2>2, <3>1, SettlePursued DEF Refused, Statuses
  <2> QED
    BY <1>5, <2>1, <2>2
<1>6. CASE Accepted(w)
  <2>1. w = Create \/ w = Deliver \/ w[1] \in {"add", "cancel"}
    BY WriteCases, OrderWrites
  <2>2. CASE w = Create
    <3>1. Commit(Known, asg, Scheduling(Confirm(cmd, Create), OrdersAdded), read, FALSE)
      BY <1>6, <2>2, SupplyWrites DEF Accepted
    <3> QED
      BY <3>1, MadePursued
  <2>3. CASE w = Deliver
    <3>1. cmd' = Confirm(cmd, w) /\ UNCHANGED <<ret, read>> /\ w[1] # "cancel"
      BY <1>6, <2>3, SupplyWrites DEF Accepted, Delivered
    <3> QED
      BY <3>1, Elsewhere, StaysPursued
  <2>4. CASE w[1] \in {"add", "cancel"}
    <3>1. \/ Deferred(w) /\ cmd[w].ans # "none"
          \/ Commit(batch, asg, Settle(cmd, w, cmd[w].st), read, FALSE)
      BY <1>6, <2>4, SupplyWrites DEF Accepted
    <3>2. cmd[w].st \in Statuses
      BY Known1 DEF Command
    <3> QED
      BY <3>1, <3>2, DeferredPursued, SettlePursued
  <2> QED
    BY <2>1, <2>2, <2>3, <2>4
<1> QED
  BY <1>1, <1>2, <1>3, <1>4, <1>5, <1>6 DEF Writing

LEMMA SupplyMissingPursued ==
  ASSUME Tables, Fits, Pursuit, NEW o \in Orders, SupplyMissing(o)
  PROVE  Pursuit'
<1>1. PICK moved \in SUBSET {x \in Orders : ord[x] = "picked"} :
        LET left == {Add(x) : x \in moved} \cup {Cancel(x) : x \in moved}
        IN /\ cmd' = [w \in Writes |-> IF w \in left THEN NoCommand ELSE cmd[w]]
           /\ read' = [w \in Writes |-> IF w \in left THEN NoRead ELSE Done(Add(o))[w]]
           /\ ret' = ret
  BY DEF SupplyMissing
<1> DEFINE left == {Add(x) : x \in moved} \cup {Cancel(x) : x \in moved}
<1>2. ASSUME NEW p \in Orders, ret'[p].st \notin {"none", "queued"}
      PROVE  cmd'[Cancel(p)] = cmd[Cancel(p)] /\ read'[Cancel(p)] = read[Cancel(p)]
  <2>1. p \notin moved
    BY <1>1, <1>2, FitsAre DEF OrderFits
  <2>2. Cancel(p) \notin left /\ Cancel(p) \in Writes
    BY <2>1, OrderWrites
  <2>3. Done(Add(o))[Cancel(p)] = read[Cancel(p)]
    BY OrderWrites, Elsewhere
  <2> QED
    BY <1>1, <2>2, <2>3
<1> QED
  BY <1>1, <1>2, StaysPursued

LEMMA StillTherePursued ==
  ASSUME Tables, Fits, Pursuit, NEW o \in Orders, StillThere(o)
  PROVE  Pursuit'
<1> DEFINE w == Cancel(o)
           reads == IF read[w].st = "sent" THEN RetryOrFailed(read, w)
                    ELSE Settle(read, w, read[w].st)
<1>1. read[w].ans # "none" /\ Commit(batch, asg, cmd, reads, FALSE)
  BY DEF StillThere, Reading
<1>2. /\ w \in Writes /\ cmd \in [Writes -> Command] /\ read \in [Writes -> ReadRow]
      /\ w[1] = "cancel" /\ RowOK(w, cmd[w], read[w], batch, asg, ord, kiz)
  BY OrderWrites, Known1
<1>3. read[w].st = "sent"
  BY <1>1, <1>2 DEF RowOK, Held
<1>4. PICK st \in {"retry", "failed"} : reads = Settle(read, w, st)
  BY <1>3 DEF RetryOrFailed
<1> HIDE DEF reads, w
<1>5. reads = [read EXCEPT ![w] = reads[w]] /\ reads[w].st = st
  BY <1>2, <1>4, SettledRead DEF ReadStatuses
<1>6. [cmd EXCEPT ![w] = cmd[w]] = cmd
  BY <1>2
<1>7. Commit(batch, asg, [cmd EXCEPT ![w] = cmd[w]], [read EXCEPT ![w] = reads[w]], FALSE)
  BY <1>1, <1>5, <1>6
<1>8. Chased(cmd[w], read[w], cmd[w], reads[w])
  BY <1>3, <1>5 DEF Chased, Open
<1> QED
  BY <1>2, <1>7, <1>8, OnePursued

LEMMA HasLeftPursued ==
  ASSUME Tables, Fits, Pursuit, NEW o \in Orders, HasLeft(o)
  PROVE  Pursuit'
<1>1. PICK sts \in SUBSET Writes :
        /\ ret' = [ret EXCEPT ![o].st = "queued"]
        /\ cmd' = Cancelled(Confirmed(Cancel(o)), {Add(o)}, Open)
        /\ sts \subseteq {Add(o)} /\ read' = Cancelled(Done(Cancel(o)), sts, Open)
  BY OrderWrites DEF HasLeft
<1>2. Cancel(o) \in Writes /\ cmd \in [Writes -> Command] /\ read \in [Writes -> ReadRow]
  BY OrderWrites, Known1
<1>3. PICK x : x = [NoCommand EXCEPT !.st = "confirmed"]
  OBVIOUS
<1>4. Confirmed(Cancel(o)) = [cmd EXCEPT ![Cancel(o)] = x] \/ Confirmed(Cancel(o)) = cmd
  BY <1>3 DEF Confirmed, Confirm
<1>5. ASSUME NEW p \in Orders, p # o
      PROVE  cmd'[Cancel(p)] = cmd[Cancel(p)] /\ read'[Cancel(p)] = read[Cancel(p)]
  <2>1. Cancel(p) \in Writes /\ Cancel(p) # Cancel(o) /\ Cancel(p) # Add(o)
    BY <1>5, OrderWrites
  <2>2. /\ Confirmed(Cancel(o))[Cancel(p)] = cmd[Cancel(p)]
        /\ Done(Cancel(o))[Cancel(p)] = read[Cancel(p)]
    BY <1>2, <1>4, <2>1 DEF Done
  <2> QED
    BY <1>1, <2>1, <2>2 DEF Cancelled
<1>6. ret'[o].st = "queued" /\ \A p \in Orders : p # o => ret'[p] = ret[p]
  BY <1>1, Known1 DEF Return
<1> QED
  BY <1>5, <1>6, StaysPursued

LEMMA ReadingsPursued ==
  ASSUME Tables, Fits, Pursuit, NEW o \in Orders, Readings(o)
  PROVE  Pursuit'
<1>1. Add(o) \in Writes /\ Add(o)[1] # "cancel"
  BY OrderWrites
<1>2. CASE SupplyOpen(o) \/ SupplyClosed(o) \/ Member(o) \/ NoMember(o) \/ Located(o)
  <2>1. PICK b, a, c, r, conclusive :
          /\ Commit(b, a, c, r, conclusive)
          /\ c \in {cmd, Confirmed(Add(o)), Retried(Add(o)), Failed(Add(o))}
          /\ r \in {Done(Add(o)), Ask(read, Add(o), "member"), Ask(read, Add(o), "lookup")}
    BY <1>2 DEF SupplyOpen, SupplyClosed, Member, NoMember, Located
  <2>2. \A p \in Orders : c[Cancel(p)] = cmd[Cancel(p)] /\ r[Cancel(p)] = read[Cancel(p)]
    BY <1>1, <2>1, Elsewhere
  <2>3. DOMAIN r = Writes
    BY <1>1, <2>1, Elsewhere
  <2> QED
    BY <2>1, <2>2, <2>3, BesidePursued
<1> QED
  BY <1>2, SupplyMissingPursued, StillTherePursued, HasLeftPursued DEF Readings

\* An order is taken out: its cancellation, or the readback, is new.
LEMMA TakenOutPursued ==
  ASSUME Tables, Fits, Pursuit, NEW o \in Orders, NEW act \in {"verify", "seller"}, NEW client,
         ret[o].st = "none", ret' = [ret EXCEPT ![o] = TakenOut(act, client)],
         IF act = "verify" THEN cmd' = cmd /\ read' = Ask(read, Cancel(o), "absence")
                           ELSE cmd' = Enqueue(cmd, Cancel(o)) /\ read' = read
  PROVE  Pursuit'
<1>1. /\ Cancel(o) \in Writes /\ cmd \in [Writes -> Command] /\ read \in [Writes -> ReadRow]
      /\ ret \in [Orders -> Return]
      /\ RowOK(Cancel(o), cmd[Cancel(o)], read[Cancel(o)], batch, asg, ord, kiz)
  BY OrderWrites, Known1
<1>2. cmd[Cancel(o)].st = "none" /\ read[Cancel(o)].at = "none"
  BY FitsAre DEF CancelFits, OrderFits
<1>3. read[Cancel(o)].st \notin Open
  BY <1>1, <1>2 DEF RowOK, Open
<1>4. ret'[o].st = "waiting" /\ ret'[o].act = act /\ \A p \in Orders : p # o => ret'[p] = ret[p]
  BY <1>1 DEF TakenOut
<1>5. /\ \A v \in Writes : v # Cancel(o) => cmd'[v] = cmd[v] /\ read'[v] = read[v]
      /\ act = "verify" => cmd'[Cancel(o)].st = "none" /\ read'[Cancel(o)].st = "pending"
      /\ act # "verify" => cmd'[Cancel(o)].st = "pending" /\ read'[Cancel(o)] = read[Cancel(o)]
  <2>1. CASE act = "verify"
    BY <1>1, <1>2, <2>1 DEF Ask
  <2>2. CASE act # "verify"
    BY <1>1, <1>2, <2>2, EnqueuedRow
  <2> QED
    BY <2>1, <2>2
<1> SUFFICES ASSUME NEW p \in Orders
             PROVE  Pursued(ret'[p], cmd'[Cancel(p)], read'[Cancel(p)])
  BY DEF Pursuit
<1>6. CASE p = o
  BY <1>3, <1>4, <1>5, <1>6 DEF Pursued, Open
<1>7. CASE p # o
  <2>1. Cancel(p) \in Writes /\ Cancel(p) # Cancel(o)
    BY <1>7, OrderWrites
  <2> QED
    BY <1>4, <1>5, <1>7, <2>1 DEF Pursuit
<1> QED
  BY <1>6, <1>7

LEMMA RetryExclusionPursued ==
  ASSUME Tables, Fits, Pursuit, NEW o \in Orders, RetryExclusion(o)
  PROVE  Pursuit'
<1>1. /\ Cancel(o) \in Writes /\ cmd \in [Writes -> Command] /\ read \in [Writes -> ReadRow]
      /\ ret \in [Orders -> Return] /\ Pursued(ret[o], cmd[Cancel(o)], read[Cancel(o)])
  BY OrderWrites, Known1 DEF Pursuit
<1>2. ret[o].st = "failed" /\ ret' = [ret EXCEPT ![o].st = "waiting"]
  BY DEF RetryExclusion
<1>3. ret'[o].st = "waiting" /\ ret'[o].act = ret[o].act /\ \A p \in Orders : p # o => ret'[p] = ret[p]
  BY <1>1, <1>2 DEF Return
<1>4. CASE ret[o].act = "verify"
  <2>1. read[Cancel(o)].st = "failed" /\ cmd[Cancel(o)].st = "none"
    BY <1>1, <1>2, <1>4 DEF Pursued
  <2>2. read' = Settle(read, Cancel(o), "retry") /\ cmd' = cmd
    BY <1>4, <2>1 DEF RetryExclusion, GivenUp
  <2>3. PICK y : y = Settle(read, Cancel(o), "retry")[Cancel(o)]
    OBVIOUS
  <2>4. read' = [read EXCEPT ![Cancel(o)] = y] /\ y.st = "retry"
    BY <1>1, <2>2, <2>3, SettledRead DEF ReadStatuses
  <2>5. ASSUME NEW p \in Orders PROVE Pursued(ret'[p], cmd'[Cancel(p)], read'[Cancel(p)])
    <3>1. CASE p = o
      <4>1. read'[Cancel(p)].st = "retry" /\ cmd'[Cancel(p)].st = "none"
        BY <1>1, <2>1, <2>2, <2>4, <3>1
      <4> QED
        BY <1>3, <1>4, <3>1, <4>1 DEF Pursued, Open
    <3>2. CASE p # o
      <4>1. Cancel(p) \in Writes /\ Cancel(p) # Cancel(o)
        BY <3>2, OrderWrites
      <4> QED
        BY <1>1, <1>3, <2>2, <2>4, <3>2, <4>1 DEF Pursuit
    <3> QED
      BY <3>1, <3>2
  <2> QED
    BY <2>5 DEF Pursuit
<1>5. CASE ret[o].act # "verify"
  <2>1. cmd[Cancel(o)].st \in {"failed", "conflict"} /\ read[Cancel(o)].st \notin Open
    BY <1>1, <1>2, <1>5 DEF Pursued, Open
  <2>2. cmd' = Settle(cmd, Cancel(o), "retry") /\ read' = read
    BY <1>5, <2>1 DEF RetryExclusion
  <2>3. PICK x : x = Settle(cmd, Cancel(o), "retry")[Cancel(o)]
    OBVIOUS
  <2>4. cmd' = [cmd EXCEPT ![Cancel(o)] = x] /\ x.st = "retry"
    BY <1>1, <2>2, <2>3, SettledCommand DEF Statuses
  <2>5. ASSUME NEW p \in Orders PROVE Pursued(ret'[p], cmd'[Cancel(p)], read'[Cancel(p)])
    <3>1. CASE p = o
      <4>1. cmd'[Cancel(p)].st = "retry" /\ read'[Cancel(p)].st \notin Open
        BY <1>1, <2>1, <2>2, <2>4, <3>1
      <4> QED
        BY <1>3, <1>5, <3>1, <4>1 DEF Pursued, Open
    <3>2. CASE p # o
      <4>1. Cancel(p) \in Writes /\ Cancel(p) # Cancel(o)
        BY <3>2, OrderWrites
      <4> QED
        BY <1>1, <1>3, <2>2, <2>4, <3>2, <4>1 DEF Pursuit
    <3> QED
      BY <3>1, <3>2
  <2> QED
    BY <2>5 DEF Pursuit
<1> QED
  BY <1>4, <1>5

LEMMA ReportProblemPursued ==
  ASSUME Tables, Fits, Pursuit, NEW o \in Orders, ReportProblem(o)
  PROVE  Pursuit'
<1>1. CASE MayContain(o)
  <2>1. /\ ret[o].st = "none" /\ ret' = [ret EXCEPT ![o] = TakenOut("verify", TRUE)]
        /\ cmd' = cmd /\ read' = Ask(read, Cancel(o), "absence")
    BY <1>1 DEF ReportProblem
  <2> QED
    BY <2>1, TakenOutPursued
<1>2. CASE ~MayContain(o)
  <2>1. /\ ret' = [ret EXCEPT ![o] = [TakenOut("none", o \in told) EXCEPT !.st = "queued"]]
        /\ cmd' = Cancelled(cmd, {Add(o)}, Active) /\ read' = read
    BY <1>2 DEF ReportProblem
  <2>2. ret'[o].st = "queued" /\ \A p \in Orders : p # o => ret'[p] = ret[p]
    BY <2>1, Known1 DEF TakenOut
  <2>3. \A p \in Orders : cmd'[Cancel(p)] = cmd[Cancel(p)]
    BY <2>1, OrderWrites DEF Cancelled
  <2> QED
    BY <2>1, <2>2, <2>3, StaysPursued
<1> QED
  BY <1>1, <1>2

LEMMA OrdersPursued ==
  ASSUME Tables, Fits, Pursuit, NEW o \in Orders,
         Assign(o) \/ Schedule(o) \/ Controllers(o) \/ ClientCancels(o) \/ SellerMoves(o) \/ Import(o)
  PROVE  Pursuit'
<1>1. /\ Add(o) \in Writes /\ Add(o)[1] # "cancel" /\ Create \in Writes /\ Create[1] # "cancel"
      /\ Deliver \in Writes /\ Deliver[1] # "cancel"
  BY OrderWrites, SupplyWrites
<1>2. CASE Assign(o) \/ Schedule(o) \/ FixCode(o)
  <2>1. /\ cmd' \in {cmd, Enqueue(cmd, Add(o)), Enqueue(cmd, Create), Settle(cmd, Deliver, "retry")}
        /\ UNCHANGED <<ret, read>>
    BY <1>2 DEF Assign, Schedule, Scheduled, FixCode, people
  <2>2. \A p \in Orders : cmd'[Cancel(p)] = cmd[Cancel(p)]
    BY <1>1, <2>1, Elsewhere
  <2> QED
    BY <2>1, <2>2, StaysPursued
<1>3. CASE (TakeOut(o, TRUE) \/ TakeOut(o, FALSE)) /\ ret[o].st = "none"
  BY <1>3, TakenOutPursued DEF TakeOut
<1>4. CASE UNCHANGED <<ret, cmd, read>>
  BY <1>4, StaysPursued
<1>5. CASE Import(o) \/ \E client \in BOOLEAN : Exclude(o, client)
  BY <1>3, <1>4, <1>5 DEF Import, Exclude, MayExclude
<1>6. CASE Pack(o) \/ ClientCancels(o) \/ SellerMoves(o)
  BY <1>4, <1>6 DEF Pack, ClientCancels, SellerMoves, people
<1> QED
  BY <1>2, <1>5, <1>6, RetryExclusionPursued, ReportProblemPursued DEF Controllers

LEMMA BatchPursued ==
  ASSUME Tables, Fits, Pursuit,
         \/ CodesRefused \/ Found \/ NotFound \/ IsDelivered \/ NotDelivered
         \/ Sync \/ Survey \/ Reconcile \/ RequestDelivery \/ Dispatch \/ ReturnWave
         \/ SellerDeletes \/ UNCHANGED vars
  PROVE  Pursuit'
<1>1. Create \in Writes /\ Create[1] # "cancel" /\ Deliver \in Writes /\ Deliver[1] # "cancel"
  BY SupplyWrites
<1>2. CASE CodesRefused
  BY <1>1, <1>2, SettlePursued DEF CodesRefused, Statuses
<1>3. CASE NotFound \/ NotDelivered
  <2>1. PICK w \in {Create, Deliver} : Commit(batch, asg, Retried(w), Done(w), FALSE)
    BY <1>3 DEF NotFound, NotDelivered
  <2>2. \A o \in Orders : /\ Retried(w)[Cancel(o)] = cmd[Cancel(o)]
                          /\ Done(w)[Cancel(o)] = read[Cancel(o)]
    BY <1>1, Elsewhere
  <2>3. DOMAIN Done(w) = Writes
    BY Known1 DEF Done
  <2>4. PICK b, a, c, r, conclusive : /\ c = Retried(w) /\ r = Done(w)
                                      /\ Commit(b, a, c, r, conclusive)
    BY <2>1
  <2>5. DOMAIN r = Writes
    BY <2>3, <2>4
  <2>6. \A o \in Orders : c[Cancel(o)] = cmd[Cancel(o)] /\ r[Cancel(o)] = read[Cancel(o)]
    BY <2>2, <2>4
  <2> QED
    BY <2>4, <2>5, <2>6, BesidePursued
<1>4. CASE Found
  BY <1>4, MadePursued DEF Found
<1>5. CASE IsDelivered \/ RequestDelivery
  <2>1. /\ cmd' \in {Confirmed(Deliver), Enqueue(cmd, Deliver)} /\ read' \in {read, Done(Deliver)}
        /\ ret' = ret
    BY <1>5 DEF IsDelivered, Delivered, RequestDelivery, people
  <2>2. \A o \in Orders : cmd'[Cancel(o)] = cmd[Cancel(o)] /\ read'[Cancel(o)] = read[Cancel(o)]
    BY <1>1, <2>1, Elsewhere
  <2> QED
    BY <2>1, <2>2, StaysPursued
<1>6. CASE ReturnWave
  <2>1. \A o \in Orders : ret'[o].st = "queued"
    BY <1>6 DEF ReturnWave, NoReturn
  <2> QED
    BY <2>1, StaysPursued
<1>7. CASE Sync \/ Survey \/ Reconcile \/ Dispatch \/ SellerDeletes \/ UNCHANGED vars
  <2>1. UNCHANGED <<ret, cmd, read>>
    BY <1>7 DEF Sync, Survey, Reconcile, Dispatch, SellerDeletes, people, vars
  <2> QED
    BY <2>1, StaysPursued
<1> QED
  BY <1>2, <1>3, <1>4, <1>5, <1>6, <1>7

LEMMA PursuitStep ==
  ASSUME Tables, Fits, Pursuit, [Next]_vars
  PROVE  Pursuit'
  BY WritesPursued, ReadingsPursued, OrdersPursued, BatchPursued DEF Next

\* A write in doubt is never left to itself: its readback is under way or was
\* given up, or a delivery waits for codes, or an add is of an order that is out;
\* and a return waits only while its cancellation or its readback is under way,
\* or that readback was answered with a conflict, which nobody retries
\* (_defer_wb_handover_write_to_readback, _mark_http_failure,
\* fail_order_pick_restock_marketplace, retry_order_pick_restock_marketplace).
THEOREM HandoverDoubtIsPursued == Spec => []DoubtIsPursued
<1>1. Init => Pursuit
  <2>1. NoReturn.st = "none"
    BY DEF NoReturn
  <2>2. Init => ret = [o \in Orders |-> NoReturn]
    BY Zenon DEF Init
  <2>3. Init => \A o \in Orders : ret[o].st = "none"
    BY <2>1, <2>2
  <2> QED
    BY <2>3 DEF Pursuit, Pursued
<1>2. Invariant /\ Fits /\ Pursuit /\ [Next]_vars => Pursuit'
  BY PursuitStep DEF Invariant
<1>3. ASSUME Invariant, Pursuit
      PROVE  DoubtIsPursued
  <2>1. ASSUME NEW w \in Writes, InDoubt(w)
        PROVE  \/ read[w].st \in Open \/ GivenUp(w)
               \/ w = Deliver /\ \E o \in Orders : kiz[o] \in {"rejected", "dropped"}
               \/ w[1] = "add" /\ Excluded(w[2])
    BY <1>3, <2>1, Known1 DEF Invariant, InDoubt, GivenUp, RowOK, Barred, Excluded
  <2>2. ASSUME NEW o \in Orders, ret[o].st = "waiting"
        PROVE  \/ cmd[Cancel(o)].st \in Open
               \/ read[Cancel(o)].st \in Open \cup {"conflict"}
    BY <1>3, <2>2 DEF Pursuit, Pursued
  <2> QED
    BY <2>1, <2>2 DEF DoubtIsPursued
<1> QED
  BY <1>1, <1>2, <1>3, PlacesInvariance, PTL DEF Spec

-----------------------------------------------------------------------------
(***************************************************************************)
(* What is delivered (ShippedAsVerified).  The desk: a delivery under way  *)
(* keeps the supply from being changed, until WB stopped it or it failed.  *)
(* Shut: what says the supply is delivered is right.  Reached: what says   *)
(* WB has an order is right.  Traced: while a delivery is under way an     *)
(* order of the supply is ready, or was taken out when WB had stopped it.  *)
(***************************************************************************)
Started(o) ==
  cmd[Add(o)].st # "none" \/ read[Add(o)].at # "none" \/ asg[o] \in {"confirmed", "error"}

DeskOK(b, x, y, d, e) ==
  /\ b.known => x.st = "confirmed"
  /\ y.st # "none" => x.st = "conflict"
  /\ e.st # "none" => d.st = "conflict"
  /\ d.st # "none" => b.known
  /\ b.st \in {"open", "ready"} =>
       /\ d.st \in Open => b.mk \in {"delivery_pending", "complete"}
       /\ d.st = "conflict" => \/ b.mk \in {"delivery_pending", "complete"}
                               \/ b.mk = "error" /\ e.st = "none"
       /\ d.st = "failed" => b.mk \in {"complete", "error"}

Desk ==
  /\ DeskOK(batch, cmd[Create], read[Create], cmd[Deliver], read[Deliver])
  /\ \A o \in Orders : kiz[o] = "rejected" =>
       cmd[Deliver].st = "conflict" /\ read[Deliver].st = "none"

Shut ==
  /\ cmd[Deliver].st = "confirmed" => supply.closed
  /\ cmd[Deliver].ans = "ok" => supply.closed
  /\ read[Deliver].ans = "closed" => supply.closed
  /\ batch.mk = "complete" => supply.closed
  /\ \A o \in Orders : ord[o] = "handed" => supply.closed

Reached(o) ==
  /\ asg[o] = "confirmed" => place[o] # "free"
  /\ ord[o] \in {"ready", "handed"} => place[o] # "free"
  /\ read[Add(o)].ans = "here" => place[o] # "free"
  /\ o \in view.seen => place[o] # "free"

Traced(o) ==
  /\ Started(o) => batch.known
  /\ asg[o] = "none" => cmd[Add(o)].st = "none"
  /\ asg[o] = "moved" => batch.st = "problem"
  /\ ret[o].gap = "wave" => cmd[Deliver].st = "none" /\ \A p \in Orders : ord[p] = "exception"
  /\ cmd[Deliver].st # "none" /\ ~supply.closed /\ InSupply(o) =>
       ord[o] = "ready" \/ (ord[o] = "exception" /\ ret[o].gap = "delivery")

Course ==
  /\ Desk /\ Shut
  /\ \A o \in Orders : Reached(o) /\ Traced(o)
  /\ cmd[Deliver].st # "none" => \E o \in Orders : ord[o] # "picked"

\* What a step may do with an order,
Moves(o) ==
  \/ ord'[o] = ord[o] /\ ret'[o].gap = ret[o].gap
  \/ ord[o] = "picked" /\ ord'[o] = "ready" /\ asg[o] = "confirmed" /\ ret'[o].gap = ret[o].gap
  \/ ord[o] = "ready" /\ ord'[o] = "handed" /\ supply.closed /\ ret'[o].gap = ret[o].gap
  \/ /\ ord[o] = "picked" /\ ord'[o] = "exception"
     /\ ret'[o].gap = "wave" => \A p \in Orders : ord[p] = "picked" /\ ord'[p] = "exception"
  \/ ord[o] # "exception" /\ ord'[o] = "exception" /\ MayLeave /\ ret'[o].gap = Gap

\* with the rows of its add,
Adds(o) ==
  /\ cmd'[Add(o)].st # "none" => cmd[Add(o)].st # "none" \/ (batch'.known /\ asg'[o] # "none")
  /\ read'[Add(o)].at # "none" => Started(o)
  /\ read'[Add(o)].ans = "here" => read[Add(o)].ans = "here" \/ Here(o)
  /\ \/ asg'[o] = asg[o]
     \/ asg'[o] \in {"pending", "canceled"}
     \/ asg'[o] = "error" /\ (cmd'[Add(o)].st = "failed" \/ Started(o))
     \/ /\ asg'[o] = "confirmed" /\ Started(o)
        /\ read[Add(o)].ans = "here" \/ o \in view.seen \/ Here(o)
     \/ asg'[o] = "moved" /\ batch'.st = "problem"

\* at WB,
Brings(o) ==
  /\ place[o] # "free" => place'[o] # "free"
  /\ o \in view'.seen => o \in view.seen \/ Here(o)
  /\ InSupply(o)' => InSupply(o) \/ (cmd[Add(o)].ans = "asked" /\ o \notin dead)

\* and with the batch.
Turns ==
  /\ batch.known => batch'.known
  /\ batch.st = "problem" => batch'.st = "problem"
  /\ supply.closed => supply'.closed
  /\ supply'.closed => supply.closed \/ cmd[Deliver].st # "none"
  /\ cmd'[Deliver].st # "none" => cmd[Deliver].st # "none" \/ RequestDelivery

Goes == Turns /\ \A o \in Orders : Moves(o) /\ Adds(o) /\ Brings(o)

LEMMA CourseIs ==
  ASSUME Course, NEW o \in Orders
  PROVE  Reached(o) /\ Traced(o)
  BY DEF Course

\* An order leaves only a supply whose delivery is not under way.
LEMMA LeavesInGap ==
  ASSUME Tables, Course, MayLeave, cmd[Deliver].st # "none", ~supply.closed
  PROVE  Gap = "delivery"
<1>1. /\ cmd[Deliver].st \in Statuses /\ cmd[Deliver].st \notin {"none", "cancelled", "confirmed"}
      /\ DeskOK(batch, cmd[Create], read[Create], cmd[Deliver], read[Deliver])
  <2>1. cmd[Deliver] \in Command /\ cmd[Deliver].st # "cancelled"
    BY Known1, SupplyWrites DEF RowOK
  <2> QED
    BY <2>1 DEF Course, Desk, Shut, Command
<1> QED
  BY <1>1 DEF DeskOK, MayLeave, Gap, Open, Statuses

LEMMA ReachedStep ==
  ASSUME Course, Goes, NEW o \in Orders
  PROVE  Reached(o)'
<1>1. Reached(o) /\ Moves(o) /\ Adds(o) /\ Brings(o)
  BY CourseIs DEF Goes
<1>2. Here(o) => place[o] # "free"
  BY DEF Here
<1> QED
  BY <1>1, <1>2 DEF Reached, Moves, Adds, Brings

LEMMA TracedStep ==
  ASSUME Tables, Fits, Course, Goes, ~RequestDelivery, NEW o \in Orders
  PROVE  Traced(o)'
<1>1. Traced(o) /\ Moves(o) /\ Adds(o) /\ Brings(o) /\ Turns
  BY CourseIs DEF Goes
<1>2. Started(o)' => batch'.known
  BY <1>1 DEF Traced, Adds, Turns, Started
<1>3. asg'[o] = "none" => cmd'[Add(o)].st = "none"
  BY <1>1 DEF Traced, Adds
<1>4. asg'[o] = "moved" => batch'.st = "problem"
  BY <1>1 DEF Traced, Adds, Turns
<1>5. ASSUME ret'[o].gap = "wave"
      PROVE  cmd'[Deliver].st = "none" /\ \A p \in Orders : ord'[p] = "exception"
  <2>1. CASE ret[o].gap = "wave"
    <3>1. cmd'[Deliver].st = "none" /\ \A p \in Orders : ord[p] = "exception"
      BY <1>1, <2>1 DEF Traced, Turns
    <3>2. ASSUME NEW p \in Orders PROVE ord'[p] = "exception"
      <4>1. Moves(p)
        BY DEF Goes
      <4> QED
        BY <3>1, <4>1 DEF Moves
    <3> QED
      BY <3>1, <3>2
  <2>2. CASE ret[o].gap # "wave"
    <3>1. Gap # "wave"
      BY DEF Gap
    <3>2. \A p \in Orders : ord[p] = "picked" /\ ord'[p] = "exception"
      BY <1>1, <1>5, <2>2, <3>1 DEF Moves
    <3> QED
      BY <1>1, <3>2 DEF Course, Turns
  <2> QED
    BY <2>1, <2>2
<1>6. ASSUME cmd'[Deliver].st # "none", ~supply'.closed, InSupply(o)'
      PROVE  ord'[o] = "ready" \/ (ord'[o] = "exception" /\ ret'[o].gap = "delivery")
  <2>1. cmd[Deliver].st # "none" /\ ~supply.closed
    BY <1>1, <1>6 DEF Turns
  <2>2. InSupply(o)
    <3> SUFFICES ASSUME cmd[Add(o)].ans = "asked", o \notin dead PROVE FALSE
      BY <1>1, <1>6 DEF Brings
    <3>1. RowOK(Add(o), cmd[Add(o)], read[Add(o)], batch, asg, ord, kiz)
      BY Known1
    <3>2. ord[o] # "exception" => asg[o] = "pending"
      BY <3>1, OrderWrites DEF RowOK, Held, Live
    <3>3. ord[o] = "exception" => ret[o].gap = "wave"
      BY FitsAre DEF AddFits
    <3> QED
      BY <1>1, <2>1, <3>2, <3>3, FitsAre DEF OrderFits, Traced
  <2>3. ord[o] = "ready" \/ (ord[o] = "exception" /\ ret[o].gap = "delivery")
    BY <1>1, <2>1, <2>2 DEF Traced
  <2>4. MayLeave => Gap = "delivery"
    BY <2>1, LeavesInGap
  <2> QED
    BY <1>1, <2>1, <2>3, <2>4 DEF Moves
<1> QED
  BY <1>2, <1>3, <1>4, <1>5, <1>6 DEF Traced, Started

LEMMA PackedStep ==
  ASSUME Course, Goes, ~RequestDelivery
  PROVE  cmd'[Deliver].st # "none" => \E o \in Orders : ord'[o] # "picked"
<1> SUFFICES ASSUME cmd'[Deliver].st # "none" PROVE \E o \in Orders : ord'[o] # "picked"
  OBVIOUS
<1>1. PICK o \in Orders : ord[o] # "picked"
  BY DEF Course, Goes, Turns
<1>2. Moves(o)
  BY DEF Goes
<1> QED
  BY <1>1, <1>2 DEF Moves

-----------------------------------------------------------------------------
\* What a transaction does to the orders and the batch.
LEMMA CommitEffect ==
  ASSUME NEW b, NEW a, NEW c \in [Writes -> Command], NEW r \in [Writes -> ReadRow],
         NEW conclusive, ret \in [Orders -> Return], Commit(b, a, c, r, conclusive)
  PROVE  /\ cmd' = c
         /\ \A w \in Writes : w[1] # "cancel" => read'[w] = r[w]
         /\ batch' = IF \E w \in {Create, Deliver} : c[w].st = "failed" /\ cmd[w].st # "failed"
                     THEN [b EXCEPT !.mk = "error"] ELSE b
         /\ \A o \in Orders : \/ asg'[o] = a[o]
                              \/ asg'[o] = "error" /\ c[Add(o)].st = "failed"
         /\ \A o \in Orders :
              \/ ord'[o] = ord[o] /\ ret'[o].gap = ret[o].gap
              \/ /\ ord'[o] = "exception" /\ ret'[o].gap = Gap
                 /\ MayLeave /\ ret[o].st = "none"
<1> DEFINE New(old, new, w) == new[w].st = "failed" /\ old[w].st # "failed"
           lost == {o \in Orders : New(cmd, c, Add(o)) /\ a[o] # "moved"}
           stuck == {o \in Orders : New(cmd, c, Cancel(o)) \/ New(read, r, Cancel(o))}
           may == {o \in lost : conclusive /\ ret[o].st = "none" /\ MayLeave}
<1>1. PICK back \in SUBSET may :
        /\ cmd' = c
        /\ asg' = [o \in Orders |-> IF o \in lost THEN "error" ELSE a[o]]
        /\ ord' = [o \in Orders |-> IF o \in back THEN "exception" ELSE ord[o]]
        /\ ret' = [o \in Orders |->
             CASE o \in back -> TakenOut("verify", FALSE)
               [] o \in stuck /\ ret[o].st = "waiting" -> [ret[o] EXCEPT !.st = "failed"]
               [] OTHER -> ret[o]]
        /\ read' = [w \in Writes |->
             IF w \in {Cancel(o) : o \in back} THEN Ask(r, w, "absence")[w] ELSE r[w]]
        /\ batch' = IF \E w \in {Create, Deliver} : New(cmd, c, w)
                    THEN [b EXCEPT !.mk = "error"] ELSE b
  BY DEF Commit
<1>2. ASSUME NEW w \in Writes, w[1] # "cancel" PROVE read'[w] = r[w]
  <2>1. w \notin {Cancel(o) : o \in back}
    BY <1>2, OrderWrites
  <2> QED
    BY <1>1, <2>1
<1>3. ASSUME NEW o \in Orders PROVE asg'[o] = a[o] \/ (asg'[o] = "error" /\ c[Add(o)].st = "failed")
  BY <1>1
<1>4. ASSUME NEW o \in Orders
      PROVE  \/ ord'[o] = ord[o] /\ ret'[o].gap = ret[o].gap
             \/ /\ ord'[o] = "exception" /\ ret'[o].gap = Gap
                /\ MayLeave /\ ret[o].st = "none"
  <2>1. CASE o \in back
    <3>1. ord'[o] = "exception" /\ ret'[o] = TakenOut("verify", FALSE)
      BY <1>1, <2>1
    <3>2. MayLeave /\ ret[o].st = "none"
      BY <2>1
    <3> QED
      BY <3>1, <3>2 DEF TakenOut
  <2>2. CASE o \notin back
    <3>1. ord'[o] = ord[o]
      BY <1>1, <2>2
    <3>2. ret'[o] = ret[o] \/ ret'[o] = [ret[o] EXCEPT !.st = "failed"]
      BY <1>1, <2>2
    <3>3. ret'[o].gap = ret[o].gap
      BY <3>2 DEF Return
    <3> QED
      BY <3>1, <3>3
  <2> QED
    BY <2>1, <2>2
<1>5. cmd' = c /\ batch' = IF \E w \in {Create, Deliver} : c[w].st = "failed" /\ cmd[w].st # "failed"
                           THEN [b EXCEPT !.mk = "error"] ELSE b
  BY <1>1
<1> HIDE DEF New, lost, stuck, may
<1> QED
  BY <1>2, <1>3, <1>4, <1>5

Quiet == UNCHANGED <<supply, place, dead, view>>

LEMMA QuietBrings ==
  ASSUME Quiet, NEW o \in Orders
  PROVE  Brings(o)
  BY DEF Quiet, Brings, InSupply

\* One write and its readback, which follow from what was there.
Follows(w, x, y) ==
  /\ x.st # "none" => cmd[w].st # "none"
  /\ y.at # "none" => cmd[w].st # "none" \/ read[w].at # "none"
  /\ y.ans = "here" => read[w].ans = "here"

LEMMA CommitGoes ==
  ASSUME Tables, Fits, Quiet, NEW b \in Batch, NEW a, NEW conclusive,
         NEW w \in Writes, NEW x \in Command, NEW y \in ReadRow,
         Commit(b, a, [cmd EXCEPT ![w] = x], [read EXCEPT ![w] = y], conclusive),
         Follows(w, x, y), b.st = batch.st, batch.known => b.known,
         \A o \in Orders : \/ a[o] = asg[o]
                           \/ /\ w = Add(o) /\ a[o] = "confirmed"
                              /\ read[w].at # "none" /\ read[w].ans = "here"
  PROVE  Goes
<1> DEFINE c == [cmd EXCEPT ![w] = x]
           r == [read EXCEPT ![w] = y]
<1>1. /\ cmd \in [Writes -> Command] /\ read \in [Writes -> ReadRow] /\ ret \in [Orders -> Return]
      /\ c \in [Writes -> Command] /\ r \in [Writes -> ReadRow]
  BY Known1
<1>2. /\ \A v \in Writes : v # w => c[v] = cmd[v] /\ r[v] = read[v]
      /\ c[w] = x /\ r[w] = y
  BY <1>1
<1> HIDE DEF c, r
<1>3. Commit(b, a, c, r, conclusive)
  BY DEF c, r
<1>4. /\ cmd' = c
      /\ \A v \in Writes : v[1] # "cancel" => read'[v] = r[v]
      /\ batch' \in {b, [b EXCEPT !.mk = "error"]}
      /\ \A o \in Orders : \/ asg'[o] = a[o]
                           \/ asg'[o] = "error" /\ c[Add(o)].st = "failed"
      /\ \A o \in Orders :
           \/ ord'[o] = ord[o] /\ ret'[o].gap = ret[o].gap
           \/ /\ ord'[o] = "exception" /\ ret'[o].gap = Gap
              /\ MayLeave /\ ret[o].st = "none"
  <2>1. /\ cmd' = c
        /\ \A v \in Writes : v[1] # "cancel" => read'[v] = r[v]
        /\ batch' = IF \E v \in {Create, Deliver} : c[v].st = "failed" /\ cmd[v].st # "failed"
                    THEN [b EXCEPT !.mk = "error"] ELSE b
        /\ \A o \in Orders : \/ asg'[o] = a[o]
                             \/ asg'[o] = "error" /\ c[Add(o)].st = "failed"
        /\ \A o \in Orders :
             \/ ord'[o] = ord[o] /\ ret'[o].gap = ret[o].gap
             \/ /\ ord'[o] = "exception" /\ ret'[o].gap = Gap
                /\ MayLeave /\ ret[o].st = "none"
    BY <1>1, <1>3, CommitEffect, Zenon
  <2>2. batch' \in {b, [b EXCEPT !.mk = "error"]}
    BY <2>1, Zenon
  <2> QED
    BY <2>1, <2>2, Zenon
<1>5. Turns
  <2>1. batch'.st = b.st /\ batch'.known = b.known
    BY <1>4 DEF Batch
  <2>2. cmd'[Deliver].st # "none" => cmd[Deliver].st # "none"
    BY <1>2, <1>4, SupplyWrites DEF Follows
  <2> QED
    BY <2>1, <2>2 DEF Turns, Quiet
<1>6. ASSUME NEW o \in Orders PROVE Moves(o)
  <2>1. ret[o].st = "none" => ord[o] # "exception"
    BY FitsAre DEF OrderFits
  <2> QED
    BY <1>4, <2>1 DEF Moves
<1>7. ASSUME NEW o \in Orders PROVE Adds(o)
  <2>1. Add(o) \in Writes /\ read'[Add(o)] = r[Add(o)] /\ cmd'[Add(o)] = c[Add(o)]
    BY <1>4, OrderWrites
  <2>2. /\ c[Add(o)].st # "none" => cmd[Add(o)].st # "none"
        /\ r[Add(o)].at # "none" => cmd[Add(o)].st # "none" \/ read[Add(o)].at # "none"
        /\ r[Add(o)].ans = "here" => read[Add(o)].ans = "here"
    BY <1>2, <2>1 DEF Follows
  <2>3. \/ asg'[o] = asg[o]
        \/ asg'[o] = "confirmed" /\ read[Add(o)].at # "none" /\ read[Add(o)].ans = "here"
        \/ asg'[o] = "error" /\ c[Add(o)].st = "failed"
    BY <1>4
  <2> QED
    BY <2>1, <2>2, <2>3 DEF Adds, Started
<1> QED
  BY <1>5, <1>6, <1>7, QuietBrings DEF Goes

-----------------------------------------------------------------------------
\* What keeps the desk in order and the supply shut.
Aside ==
  /\ batch' = batch
  /\ cmd'[Create] = cmd[Create] /\ read'[Create] = read[Create]
  /\ cmd'[Deliver] = cmd[Deliver] /\ read'[Deliver] = read[Deliver]
  /\ \A o \in Orders : kiz'[o] = "rejected" => kiz[o] = "rejected"

LEMMA ShutStep ==
  ASSUME Course, Goes,
         cmd'[Deliver].st = "confirmed" => cmd[Deliver].st = "confirmed" \/ supply'.closed,
         cmd'[Deliver].ans = "ok" => cmd[Deliver].ans = "ok" \/ supply'.closed,
         read'[Deliver].ans = "closed" => read[Deliver].ans = "closed" \/ supply'.closed,
         batch'.mk = "complete" => batch.mk = "complete" \/ supply'.closed
  PROVE  Shut'
<1>1. Shut /\ (supply.closed => supply'.closed)
  BY DEF Course, Goes, Turns
<1>2. ASSUME NEW o \in Orders, ord'[o] = "handed" PROVE supply'.closed
  <2>1. Moves(o)
    BY DEF Goes
  <2> QED
    BY <1>1, <1>2, <2>1 DEF Shut, Moves
<1> QED
  BY <1>1, <1>2 DEF Shut

LEMMA AsideStep ==
  ASSUME Course, Goes, Aside
  PROVE  Desk' /\ Shut'
<1>1. Desk'
  BY DEF Course, Desk, Aside
<1> QED
  BY <1>1, ShutStep DEF Aside

\* The supply is not known yet: nothing is delivered.
LEMMA CreateStep ==
  ASSUME Course, Goes, ~batch.known, kiz' = kiz,
         cmd'[Deliver] = cmd[Deliver] /\ read'[Deliver] = read[Deliver],
         batch'.known => cmd'[Create].st = "confirmed",
         read'[Create].st # "none" => cmd'[Create].st = "conflict",
         batch'.mk = "complete" => batch.mk = "complete"
  PROVE  Desk' /\ Shut'
<1>1. /\ DeskOK(batch, cmd[Create], read[Create], cmd[Deliver], read[Deliver])
      /\ \A o \in Orders : kiz[o] = "rejected" => cmd[Deliver].st = "conflict"
  BY DEF Course, Desk
<1>2. cmd[Deliver].st = "none" /\ read[Deliver].st = "none"
  BY <1>1 DEF DeskOK
<1>3. DeskOK(batch', cmd'[Create], read'[Create], cmd'[Deliver], read'[Deliver])
  BY <1>2 DEF DeskOK, Open
<1>4. \A o \in Orders : kiz'[o] # "rejected"
  BY <1>1, <1>2
<1>5. Desk'
  BY <1>3, <1>4 DEF Desk
<1> QED
  BY <1>5, ShutStep

LEMMA DeliverStep ==
  ASSUME Course, Goes, cmd[Deliver].st # "none", kiz' = kiz,
         cmd'[Create] = cmd[Create] /\ read'[Create] = read[Create], batch'.known = batch.known,
         batch'.st \in {"open", "ready"} => batch.st \in {"open", "ready"},
         NEW x, NEW y, x = cmd'[Deliver], y = read'[Deliver],
         y.st # "none" => x.st = "conflict",
         batch.st \in {"open", "ready"} =>
           /\ x.st \in Open => batch'.mk \in {"delivery_pending", "complete"}
           /\ x.st = "conflict" => batch'.mk \in {"delivery_pending", "complete"}
           /\ x.st = "failed" => batch'.mk \in {"complete", "error"},
         \A o \in Orders : kiz[o] # "rejected",
         x.st = "confirmed" => supply'.closed, x.ans = "ok" => cmd[Deliver].ans = "ok" \/ supply'.closed,
         y.ans = "closed" => supply'.closed,
         batch'.mk = "complete" => batch.mk = "complete" \/ supply'.closed
  PROVE  Desk' /\ Shut'
<1>1. DeskOK(batch, cmd[Create], read[Create], cmd[Deliver], read[Deliver])
  BY DEF Course, Desk
<1>2. DeskOK(batch', cmd'[Create], read'[Create], cmd'[Deliver], read'[Deliver])
  BY <1>1 DEF DeskOK
<1>3. Desk'
  BY <1>2 DEF Desk
<1> QED
  BY <1>3, ShutStep

\* What a transaction about write w makes of the desk's rows and the batch.
DeskAfter(w, x, y, b) ==
  /\ \A v \in {Create, Deliver} : v # w => cmd'[v] = cmd[v] /\ read'[v] = read[v]
  /\ w \in {Create, Deliver} => cmd'[w] = x /\ read'[w] = y
  /\ batch' = IF w \in {Create, Deliver} /\ x.st = "failed" /\ cmd[w].st # "failed"
              THEN [b EXCEPT !.mk = "error"] ELSE b

LEMMA CommitDesk ==
  ASSUME Tables, NEW a, NEW conclusive, NEW b,
         NEW w \in Writes, NEW x \in Command, NEW y \in ReadRow,
         Commit(b, a, [cmd EXCEPT ![w] = x], [read EXCEPT ![w] = y], conclusive)
  PROVE  DeskAfter(w, x, y, b)
<1> DEFINE c == [cmd EXCEPT ![w] = x]
           r == [read EXCEPT ![w] = y]
           e == [b EXCEPT !.mk = "error"]
<1>1. /\ cmd \in [Writes -> Command] /\ read \in [Writes -> ReadRow] /\ ret \in [Orders -> Return]
      /\ c \in [Writes -> Command] /\ r \in [Writes -> ReadRow]
  BY Known1
<1>2. /\ \A v \in Writes : v # w => c[v] = cmd[v] /\ r[v] = read[v]
      /\ c[w] = x /\ r[w] = y
  BY <1>1
<1> HIDE DEF c, r
<1>3. Commit(b, a, c, r, conclusive)
  BY DEF c, r
<1> HIDE DEF e
<1>4. /\ cmd' = c
      /\ \A v \in Writes : v[1] # "cancel" => read'[v] = r[v]
      /\ batch' = IF \E v \in {Create, Deliver} : c[v].st = "failed" /\ cmd[v].st # "failed"
                  THEN e ELSE b
  <2>1. /\ cmd' = c
        /\ \A v \in Writes : v[1] # "cancel" => read'[v] = r[v]
        /\ batch' = IF \E v \in {Create, Deliver} : c[v].st = "failed" /\ cmd[v].st # "failed"
                    THEN [b EXCEPT !.mk = "error"] ELSE b
        /\ \A o \in Orders : \/ asg'[o] = a[o]
                             \/ asg'[o] = "error" /\ c[Add(o)].st = "failed"
        /\ \A o \in Orders :
             \/ ord'[o] = ord[o] /\ ret'[o].gap = ret[o].gap
             \/ /\ ord'[o] = "exception" /\ ret'[o].gap = Gap
                /\ MayLeave /\ ret[o].st = "none"
    BY <1>1, <1>3, CommitEffect, Zenon
  <2> QED
    BY <2>1 DEF e
<1>5. (\E v \in {Create, Deliver} : c[v].st = "failed" /\ cmd[v].st # "failed")
        <=> (w \in {Create, Deliver} /\ x.st = "failed" /\ cmd[w].st # "failed")
  BY <1>2, SupplyWrites
<1>6. batch' = IF w \in {Create, Deliver} /\ x.st = "failed" /\ cmd[w].st # "failed" THEN e ELSE b
  BY <1>4, <1>5
<1>7. \A v \in {Create, Deliver} : v \in Writes /\ v[1] # "cancel"
  BY SupplyWrites
<1> QED
  BY <1>2, <1>4, <1>6, <1>7 DEF e, DeskAfter

\* So an order's write goes on beside the desk.
LEMMA OwnGoes ==
  ASSUME Tables, Fits, Course, Quiet, NEW a, NEW conclusive,
         NEW w \in Writes, w[1] \in {"add", "cancel"}, NEW x \in Command, NEW y \in ReadRow,
         Commit(batch, a, [cmd EXCEPT ![w] = x], [read EXCEPT ![w] = y], conclusive),
         Follows(w, x, y), kiz' = kiz,
         \A o \in Orders : \/ a[o] = asg[o]
                           \/ /\ w = Add(o) /\ a[o] = "confirmed"
                              /\ read[w].at # "none" /\ read[w].ans = "here"
  PROVE  Goes /\ Desk' /\ Shut'
<1>1. batch \in Batch
  BY Known1
<1>2. Goes
  BY <1>1, CommitGoes
<1>3. w \notin {Create, Deliver}
  BY SupplyWrites
<1>4. Aside
  <2>1. DeskAfter(w, x, y, batch)
    BY CommitDesk
  <2> QED
    BY <1>3, <2>1 DEF Aside, DeskAfter
<1> QED
  BY <1>2, <1>4, AsideStep

Kept == Goes /\ Desk' /\ Shut'

LEMMA DeskIs ==
  ASSUME Course
  PROVE  /\ DeskOK(batch, cmd[Create], read[Create], cmd[Deliver], read[Deliver])
         /\ \A o \in Orders : kiz[o] = "rejected" =>
              cmd[Deliver].st = "conflict" /\ read[Deliver].st = "none"
         /\ Shut
  BY DEF Course, Desk

\* The batch's own writes have no cancelled rows.
LEMMA DeskRows ==
  ASSUME Tables, NEW w \in {Create, Deliver}
  PROVE  /\ w \in Writes /\ cmd[w] \in Command /\ read[w] \in ReadRow
         /\ cmd[w].st # "cancelled" /\ read[w].st # "cancelled"
         /\ cmd[w].ans # "none" => cmd[w].st = "sent"
         /\ read[w].ans # "none" => read[w].st = "sent"
         /\ read[w].at \in {"none", Readback(w)}
<1>1. RowOK(w, cmd[w], read[w], batch, asg, ord, kiz) /\ w \in Writes /\ w[1] # "add"
  BY Known1, SupplyWrites
<1> QED
  BY <1>1, Known1 DEF RowOK, Held, Kinds

LEMMA DoubtGoes ==
  ASSUME Tables, Fits, Course, NEW w \in Writes, cmd[w].ans \in {"ok", "unclear"}, Deferred(w),
         w # Deliver \/ cmd[w].ans # "ok", Quiet, kiz' = kiz
  PROVE  Kept
<1> DEFINE x == Settle(cmd, w, "conflict")[w]
           y == [at |-> Readback(w), st |-> "pending", tries |-> 0, ans |-> "none"]
<1>1. /\ Settle(cmd, w, "conflict") = [cmd EXCEPT ![w] = x] /\ x \in Command
      /\ x.st = "conflict" /\ x.ans = "none"
  BY SettledCommand, Known1 DEF Statuses
<1>2. y \in ReadRow /\ Ask(read, w, Readback(w)) = [read EXCEPT ![w] = y]
  BY ReadbackKinds DEF ReadRow, ReadStatuses, Ask
<1>3. cmd[w].st # "none" /\ batch \in Batch
  BY Known1 DEF RowOK, Held
<1>4. y.at = Readback(w) /\ y.st = "pending" /\ y.ans = "none"
  OBVIOUS
<1> HIDE DEF x, y
<1>5. Commit(batch, asg, [cmd EXCEPT ![w] = x], [read EXCEPT ![w] = y], FALSE)
  BY <1>1, <1>2 DEF Deferred
<1>6. Follows(w, x, y)
  BY <1>3, <1>4 DEF Follows
<1>7. CASE w[1] \in {"add", "cancel"}
  BY <1>1, <1>2, <1>5, <1>6, <1>7, OwnGoes DEF Kept
<1>8. Goes
  BY <1>1, <1>2, <1>3, <1>5, <1>6, CommitGoes
<1>9. DeskAfter(w, x, y, batch)
  BY <1>1, <1>2, <1>5, CommitDesk
<1>10. CASE w = Create
  <2>1. cmd[Create].st = "sent"
    BY <1>10, DeskRows
  <2>2. ~batch.known
    BY <2>1, DeskIs DEF DeskOK
  <2>3. /\ cmd'[Deliver] = cmd[Deliver] /\ read'[Deliver] = read[Deliver]
        /\ cmd'[Create] = x /\ read'[Create] = y /\ batch' = batch
    BY <1>1, <1>9, <1>10, SupplyWrites DEF DeskAfter
  <2> QED
    BY <1>1, <1>8, <2>2, <2>3, CreateStep DEF Kept
<1>11. CASE w = Deliver
  <2>1. cmd[Deliver].st = "sent"
    BY <1>11, DeskRows
  <2>2. /\ \A o \in Orders : kiz[o] # "rejected"
        /\ batch.st \in {"open", "ready"} => batch.mk \in {"delivery_pending", "complete"}
    BY <2>1, DeskIs DEF DeskOK, Open
  <2>3. /\ cmd'[Create] = cmd[Create] /\ read'[Create] = read[Create]
        /\ cmd'[Deliver] = x /\ read'[Deliver] = y /\ batch' = batch
    BY <1>1, <1>9, <1>11, SupplyWrites DEF DeskAfter
  <2>4. x.st \notin Open
    BY <1>1 DEF Open
  <2> QED
    BY <1>1, <1>4, <1>8, <2>1, <2>2, <2>3, <2>4, DeliverStep DEF Kept
<1> QED
  BY <1>7, <1>10, <1>11, WriteCases, OrderWrites

LEMMA UnclearGoes ==
  ASSUME Tables, Fits, Course, NEW w \in Writes, Unclear(w)
  PROVE  Kept
<1>1. cmd[w].ans = "unclear" /\ Deferred(w) /\ Quiet /\ kiz' = kiz
  BY DEF Unclear, Quiet, wbVars
<1> QED
  BY <1>1, DoubtGoes

\* A write is settled for good by its answer: not one that is under way.
LEMMA SettleGoes ==
  ASSUME Tables, Fits, Course, NEW w \in Writes, NEW st \in {"failed", "cancelled"},
         cmd[w].st \in Active \cup {"sent", "cancelled"},
         w \in {Create, Deliver} => st = "failed", NEW conclusive,
         Commit(batch, asg, Settle(cmd, w, st), read, conclusive), Quiet, kiz' = kiz
  PROVE  Kept
<1> DEFINE x == Settle(cmd, w, st)[w]
           y == read[w]
<1>1. /\ Settle(cmd, w, st) = [cmd EXCEPT ![w] = x] /\ x \in Command
      /\ x.st = st /\ x.ans = "none"
  BY SettledCommand, Known1 DEF Statuses
<1>2. y \in ReadRow /\ [read EXCEPT ![w] = y] = read
  BY Known1
<1>3. cmd[w].st \notin {"none", "failed", "conflict", "confirmed"} /\ batch \in Batch
  BY Known1 DEF Active
<1> HIDE DEF x
<1>4. Follows(w, x, y)
  BY <1>3 DEF Follows
<1>5. Commit(batch, asg, [cmd EXCEPT ![w] = x], [read EXCEPT ![w] = y], conclusive)
  BY <1>1, <1>2
<1> HIDE DEF y
<1>6. CASE w[1] \in {"add", "cancel"}
  BY <1>1, <1>2, <1>4, <1>5, <1>6, OwnGoes DEF Kept
<1>7. Goes
  BY <1>1, <1>2, <1>3, <1>4, <1>5, CommitGoes
<1>8. DeskAfter(w, x, y, batch)
  BY <1>1, <1>2, <1>5, CommitDesk
<1>9. CASE w = Create
  <2>1. ~batch.known /\ read[Create].st = "none"
    BY <1>3, <1>9, DeskIs DEF DeskOK
  <2>2. /\ cmd'[Deliver] = cmd[Deliver] /\ read'[Deliver] = read[Deliver]
        /\ cmd'[Create] = x /\ read'[Create] = y /\ batch' = [batch EXCEPT !.mk = "error"]
    BY <1>1, <1>3, <1>8, <1>9, SupplyWrites DEF DeskAfter
  <2>3. batch'.known = batch.known /\ batch'.mk = "error"
    BY <1>3, <2>2 DEF Batch
  <2>4. read'[Create].st = "none"
    BY <1>9, <2>1, <2>2 DEF y
  <2> QED
    BY <1>7, <2>1, <2>2, <2>3, <2>4, CreateStep DEF Kept
<1>10. CASE w = Deliver
  <2>1. /\ read[Deliver].st = "none" /\ \A o \in Orders : kiz[o] # "rejected"
    BY <1>3, <1>10, DeskIs DEF DeskOK
  <2>2. /\ cmd'[Create] = cmd[Create] /\ read'[Create] = read[Create]
        /\ cmd'[Deliver] = x /\ read'[Deliver] = y /\ batch' = [batch EXCEPT !.mk = "error"]
        /\ x.st = "failed"
    BY <1>1, <1>3, <1>8, <1>10, SupplyWrites DEF DeskAfter
  <2>3. batch'.known = batch.known /\ batch'.mk = "error" /\ batch'.st = batch.st
    BY <1>3, <2>2 DEF Batch
  <2>4. y.st = "none" /\ y.ans = "none"
    BY <1>10, <2>1, DeskRows DEF y
  <2>5. x.st \notin Open
    BY <2>2 DEF Open
  <2>6. cmd[Deliver].st # "none"
    BY <1>3, <1>10
  <2> QED
    BY <1>1, <1>7, <2>1, <2>2, <2>3, <2>4, <2>5, <2>6, DeliverStep DEF Kept
<1> QED
  BY <1>6, <1>9, <1>10, WriteCases, OrderWrites

LEMMA RefusedGoes ==
  ASSUME Tables, Fits, Course, NEW w \in Writes, Refused(w)
  PROVE  Kept
<1>1. /\ cmd[w].ans = "refused" /\ Quiet /\ kiz' = kiz
      /\ Commit(batch, asg, Settle(cmd, w, "failed"), read, FALSE)
  BY DEF Refused, Quiet, wbVars
<1>2. cmd[w].st \in {"sent", "cancelled"}
  BY <1>1, Known1 DEF RowOK, Held
<1> QED
  BY <1>1, <1>2, SettleGoes

LEMMA CodesRefusedGoes ==
  ASSUME Tables, Fits, Course, CodesRefused
  PROVE  Kept
<1> DEFINE x == Settle(cmd, Deliver, "conflict")[Deliver]
           y == read[Deliver]
           b == [batch EXCEPT !.mk = "error"]
<1>1. /\ cmd[Deliver].ans = "kiz" /\ Quiet
      /\ Commit(b, asg, Settle(cmd, Deliver, "conflict"), read, FALSE)
  BY DEF CodesRefused, Quiet, wbVars
<1>2. /\ Settle(cmd, Deliver, "conflict") = [cmd EXCEPT ![Deliver] = x] /\ x \in Command
      /\ x.st = "conflict" /\ x.ans = "none"
  BY SettledCommand, SupplyWrites, Known1 DEF Statuses
<1>3. y \in ReadRow /\ [read EXCEPT ![Deliver] = y] = read
  BY Known1, SupplyWrites
<1>4. b \in Batch /\ b.st = batch.st /\ b.known = batch.known /\ b.mk = "error"
  BY Known1 DEF Batch
<1>5. cmd[Deliver].st = "sent" /\ y.st = "none" /\ y.ans = "none"
  BY <1>1, DeskRows, DeskIs DEF DeskOK
<1> HIDE DEF x, b
<1>6. Follows(Deliver, x, y)
  BY <1>5 DEF Follows
<1>7. Commit(b, asg, [cmd EXCEPT ![Deliver] = x], [read EXCEPT ![Deliver] = y], FALSE)
  BY <1>1, <1>2, <1>3
<1> HIDE DEF y
<1>8. Goes
  BY <1>1, <1>2, <1>3, <1>4, <1>6, <1>7, SupplyWrites, CommitGoes
<1>9. DeskAfter(Deliver, x, y, b)
  BY <1>2, <1>3, <1>7, SupplyWrites, CommitDesk
<1>10. /\ cmd'[Create] = cmd[Create] /\ read'[Create] = read[Create]
       /\ cmd'[Deliver] = x /\ read'[Deliver] = y /\ batch' = b
  BY <1>2, <1>9, SupplyWrites DEF DeskAfter
<1>11. DeskOK(batch', cmd'[Create], read'[Create], cmd'[Deliver], read'[Deliver])
  BY <1>2, <1>4, <1>5, <1>10, DeskIs DEF DeskOK, Open
<1>12. Desk'
  BY <1>2, <1>5, <1>10, <1>11 DEF Desk
<1> QED
  BY <1>2, <1>4, <1>5, <1>8, <1>10, <1>12, ShutStep DEF Kept

\* Rows written without consequences.
LEMMA RowsGo ==
  ASSUME Tables, Fits, Quiet, batch' = batch, UNCHANGED <<ord, ret>>,
         NEW w \in Writes, NEW x, NEW y,
         cmd' = [cmd EXCEPT ![w] = x], read' = [read EXCEPT ![w] = y], Follows(w, x, y),
         \A o \in Orders : asg'[o] = asg[o] \/ asg'[o] = "canceled"
  PROVE  Goes
<1>1. cmd \in [Writes -> Command] /\ read \in [Writes -> ReadRow]
  BY Known1
<1>2. /\ \A v \in Writes : v # w => cmd'[v] = cmd[v] /\ read'[v] = read[v]
      /\ cmd'[w] = x /\ read'[w] = y
  BY <1>1
<1>3. Turns
  BY <1>2, SupplyWrites DEF Turns, Quiet, Follows
<1>4. ASSUME NEW o \in Orders PROVE Moves(o) /\ Adds(o)
  <2>1. /\ cmd'[Add(o)].st # "none" => cmd[Add(o)].st # "none"
        /\ read'[Add(o)].at # "none" => cmd[Add(o)].st # "none" \/ read[Add(o)].at # "none"
        /\ read'[Add(o)].ans = "here" => read[Add(o)].ans = "here"
    BY <1>2, OrderWrites DEF Follows
  <2> QED
    BY <2>1 DEF Moves, Adds, Started
<1> QED
  BY <1>3, <1>4, QuietBrings DEF Goes

LEMMA ClaimGoes ==
  ASSUME Tables, Fits, Course, NEW w \in Writes, Claim(w)
  PROVE  Kept
<1>1. cmd[w].st \in Active /\ Quiet /\ kiz' = kiz
  BY DEF Claim, Quiet, wbVars
<1>2. /\ cmd \in [Writes -> Command] /\ read \in [Writes -> ReadRow]
      /\ read' = read => read' = [read EXCEPT ![w] = read[w]]
  BY Known1
<1>3. CASE w[1] = "add" /\ Excluded(w[2])
  <2>1. /\ cmd' = Settle(cmd, w, "cancelled") /\ UNCHANGED <<batch, ord, ret, read>>
        /\ asg' = [asg EXCEPT ![w[2]] = IF @ \in {"pending", "error"} THEN "canceled" ELSE @]
    BY <1>3 DEF Claim
  <2> DEFINE x == Settle(cmd, w, "cancelled")[w]
  <2>2. cmd' = [cmd EXCEPT ![w] = x]
    BY <2>1, SettledCommand, Known1 DEF Statuses
  <2> HIDE DEF x
  <2>3. Follows(w, x, read[w])
    BY <1>1 DEF Follows, Active
  <2>4. \A o \in Orders : asg'[o] = asg[o] \/ asg'[o] = "canceled"
    BY <2>1, Known1
  <2>5. Goes
    BY <1>1, <1>2, <2>1, <2>2, <2>3, <2>4, RowsGo
  <2>6. Create # w /\ Deliver # w
    BY <1>3, SupplyWrites
  <2>7. Aside
    BY <1>1, <1>2, <2>1, <2>2, <2>6, SupplyWrites DEF Aside
  <2> QED
    BY <2>5, <2>7, AsideStep DEF Kept
<1>4. CASE w[1] = "add" /\ ~Excluded(w[2]) /\ w[2] \in told
  <2>1. Commit(batch, asg, Settle(cmd, w, "failed"), read, TRUE)
    BY <1>4 DEF Claim
  <2> QED
    BY <1>1, <2>1, SettleGoes
<1>5. CASE ~(w[1] = "add" /\ Excluded(w[2])) /\ ~(w[1] = "add" /\ w[2] \in told)
  <2> DEFINE x == [st |-> "sent", tries |-> cmd[w].tries + 1, ans |-> "asked"]
  <2>1. cmd' = [cmd EXCEPT ![w] = x] /\ UNCHANGED <<batch, asg, ord, ret, read>>
    BY <1>5 DEF Claim
  <2>2. x.st = "sent" /\ x.ans = "asked"
    OBVIOUS
  <2> HIDE DEF x
  <2>3. Follows(w, x, read[w])
    BY <1>1 DEF Follows, Active
  <2>4. Goes
    BY <1>1, <1>2, <2>1, <2>3, RowsGo
  <2>5. cmd'[w] = x /\ \A v \in Writes : v # w => cmd'[v] = cmd[v]
    BY <1>2, <2>1
  <2>6. CASE w \notin {Create, Deliver}
    <3>1. Aside
      BY <1>1, <2>1, <2>5, <2>6, SupplyWrites DEF Aside
    <3> QED
      BY <2>4, <3>1, AsideStep DEF Kept
  <2>7. CASE w = Create
    <3>1. ~batch.known /\ read[Create].st = "none"
      BY <1>1, <2>7, DeskIs DEF DeskOK, Active
    <3> QED
      BY <1>1, <2>1, <2>4, <2>5, <2>7, <3>1, SupplyWrites, CreateStep DEF Kept
  <2>8. CASE w = Deliver
    <3>1. /\ read[Deliver].st = "none" /\ \A o \in Orders : kiz[o] # "rejected"
          /\ batch.st \in {"open", "ready"} => batch.mk \in {"delivery_pending", "complete"}
      BY <1>1, <2>8, DeskIs DEF DeskOK, Active, Open
    <3>2. cmd[Deliver].st # "none" /\ read[Deliver].ans = "none"
      BY <1>1, <2>8, <3>1, DeskRows DEF Active
    <3>3. /\ cmd'[Create] = cmd[Create] /\ read'[Create] = read[Create]
          /\ cmd'[Deliver] = x /\ read'[Deliver] = read[Deliver] /\ batch' = batch
      BY <2>1, <2>5, <2>8, SupplyWrites
    <3> QED
      BY <1>1, <2>2, <2>4, <3>1, <3>2, <3>3, DeliverStep DEF Kept
  <2> QED
    BY <2>6, <2>7, <2>8
<1> QED
  BY <1>3, <1>4, <1>5

LEMMA AskWbGoes ==
  ASSUME Tables, Fits, Course, NEW w \in Writes, AskWb(w)
  PROVE  Kept
<1>1. PICK a \in Answers(w) \cup {"error", "conflict"} :
        /\ read[w].st \in Active
        /\ read' = [read EXCEPT ![w] = [at |-> read[w].at, st |-> "sent",
                                        tries |-> read[w].tries + 1, ans |-> a]]
        /\ UNCHANGED <<batch, asg, ord, ret, kiz, cmd>> /\ Quiet
  BY DEF AskWb, people, wbVars, Quiet
<1> DEFINE y == [at |-> read[w].at, st |-> "sent", tries |-> read[w].tries + 1, ans |-> a]
<1>2. read' = [read EXCEPT ![w] = y] /\ y.at = read[w].at /\ y.st = "sent" /\ y.ans = a
  BY <1>1
<1> HIDE DEF y
<1>3. /\ read'[w] = y /\ \A v \in Writes : v # w => read'[v] = read[v]
      /\ RowOK(w, cmd[w], read[w], batch, asg, ord, kiz)
  BY <1>2, Known1
<1>4. \A o \in Orders : w = Add(o) /\ a = "here" => Here(o)
  <2> SUFFICES ASSUME NEW o \in Orders, w = Add(o), a = "here" PROVE Here(o)
    OBVIOUS
  <2>1. read[w].at \in {"presence", "member", "lookup"} /\ w[2] = o
    BY <1>1, <1>3, OrderWrites DEF RowOK, Kinds, Active
  <2> QED
    BY <2>1 DEF Answers, SupplyAnswers
<1>5. Goes
  <2>1. Turns
    BY <1>1, SupplyWrites DEF Turns, Quiet
  <2>2. ASSUME NEW o \in Orders PROVE Moves(o) /\ Adds(o)
    <3>1. /\ read'[Add(o)].at = read[Add(o)].at
          /\ read'[Add(o)].ans = "here" => read[Add(o)].ans = "here" \/ Here(o)
      BY <1>2, <1>3, <1>4, OrderWrites
    <3> QED
      BY <1>1, <3>1 DEF Moves, Adds, Started
  <2> QED
    BY <1>1, <2>1, <2>2, QuietBrings DEF Goes
<1>6. CASE w \notin {Create, Deliver}
  <2>1. Aside
    BY <1>1, <1>3, <1>6, SupplyWrites DEF Aside
  <2> QED
    BY <1>5, <2>1, AsideStep DEF Kept
<1>7. CASE w = Create
  <2>1. cmd[Create].st = "conflict" /\ ~batch.known
    BY <1>1, <1>7, DeskIs DEF DeskOK, Active
  <2> QED
    BY <1>1, <1>3, <1>5, <1>7, <2>1, SupplyWrites, CreateStep DEF Kept
<1>8. CASE w = Deliver
  <2>1. /\ cmd[Deliver].st = "conflict" /\ \A o \in Orders : kiz[o] # "rejected"
        /\ batch.st \in {"open", "ready"} => batch.mk \in {"delivery_pending", "complete"}
    BY <1>1, <1>8, DeskIs DEF DeskOK, Active, Open
  <2>2. a = "closed" => supply.closed
    <3>1. read[w].at = "done"
      BY <1>1, <1>3, <1>8, SupplyWrites DEF RowOK, Kinds, Active
    <3> QED
      BY <3>1 DEF Answers, SupplyAnswers
  <2>3. supply' = supply /\ cmd[Deliver].st \notin Open /\ cmd[Deliver].ans = "none"
    BY <1>1, <2>1, DeskRows DEF Quiet, Open
  <2>4. /\ cmd'[Create] = cmd[Create] /\ read'[Create] = read[Create]
        /\ cmd'[Deliver] = cmd[Deliver] /\ read'[Deliver] = y /\ batch' = batch
    BY <1>1, <1>3, <1>8, SupplyWrites
  <2> QED
    BY <1>1, <1>2, <1>5, <2>1, <2>2, <2>3, <2>4, DeliverStep DEF Kept
<1> QED
  BY <1>6, <1>7, <1>8

\* A readback of a write in doubt that fails.
LEMMA ReadFailedGoes ==
  ASSUME Tables, Fits, Course, NEW w \in Writes, ReadFailed(w)
  PROVE  Kept
<1> DEFINE reads == CASE read[w].ans = "refused" -> Settle(read, w, "failed")
                      [] read[w].ans = "conflict" -> Settle(read, w, "conflict")
                      [] OTHER -> RetryOrFailed(read, w)
           table == IF read[w].at = "lookup" /\ reads[w].st \in {"failed", "conflict"}
                    THEN Retried(w) ELSE cmd
<1>1. /\ read[w].ans # "none" /\ Quiet /\ kiz' = kiz
      /\ Commit(batch, asg, table, reads, FALSE)
  BY DEF ReadFailed, Reading, Unread, Quiet, wbVars
<1>2. /\ cmd \in [Writes -> Command] /\ read \in [Writes -> ReadRow]
      /\ RowOK(w, cmd[w], read[w], batch, asg, ord, kiz)
  BY Known1
<1>3. PICK st \in {"retry", "failed", "conflict"} : reads = Settle(read, w, st)
  BY DEF RetryOrFailed
<1>4. \/ read[w].at = "lookup" /\ table = Retried(w)
      \/ table = cmd
  OBVIOUS
<1> HIDE DEF reads, table
<1> DEFINE x == table[w]
           y == reads[w]
<1>5. /\ reads = [read EXCEPT ![w] = y] /\ y \in ReadRow
      /\ y.st = st /\ y.ans = "none" /\ y.at = read[w].at
  BY <1>2, <1>3, SettledRead DEF ReadStatuses
<1>6. /\ table = [cmd EXCEPT ![w] = x] /\ x \in Command
      /\ \/ x = cmd[w]
         \/ cmd[w].st = "conflict" /\ read[w].at = "lookup"
  BY <1>2, <1>4, VerdictRow DEF InDoubt
<1>7. Commit(batch, asg, [cmd EXCEPT ![w] = x], [read EXCEPT ![w] = y], FALSE)
  BY <1>1, <1>5, <1>6
<1> HIDE DEF x, y
<1>8. Follows(w, x, y) /\ batch \in Batch
  BY <1>5, <1>6, Known1 DEF Follows
<1>9. CASE w[1] \in {"add", "cancel"}
  BY <1>1, <1>5, <1>6, <1>7, <1>8, <1>9, OwnGoes DEF Kept
<1>10. Goes
  BY <1>1, <1>5, <1>6, <1>7, <1>8, CommitGoes
<1>11. DeskAfter(w, x, y, batch)
  BY <1>5, <1>6, <1>7, CommitDesk
<1>12. CASE w = Create
  <2>1. cmd[Create].st = "conflict" /\ ~batch.known /\ read[w].at # "lookup"
    BY <1>1, <1>12, DeskRows, DeskIs, SupplyWrites DEF DeskOK
  <2>2. /\ cmd'[Deliver] = cmd[Deliver] /\ read'[Deliver] = read[Deliver]
        /\ cmd'[Create] = cmd[Create] /\ batch' = batch
    BY <1>6, <1>11, <1>12, <2>1, SupplyWrites DEF DeskAfter
  <2> QED
    BY <1>1, <1>10, <2>1, <2>2, CreateStep DEF Kept
<1>13. CASE w = Deliver
  <2>1. /\ cmd[Deliver].st = "conflict" /\ \A o \in Orders : kiz[o] # "rejected"
        /\ batch.st \in {"open", "ready"} => batch.mk \in {"delivery_pending", "complete"}
        /\ read[w].at # "lookup" /\ cmd[Deliver].ans = "none"
    BY <1>1, <1>13, DeskRows, DeskIs, SupplyWrites DEF DeskOK
  <2>2. /\ cmd'[Create] = cmd[Create] /\ read'[Create] = read[Create]
        /\ cmd'[Deliver] = cmd[Deliver] /\ read'[Deliver] = y /\ batch' = batch
    BY <1>6, <1>11, <1>13, <2>1, SupplyWrites DEF DeskAfter
  <2>3. cmd[Deliver].st \notin Open
    BY <2>1 DEF Open
  <2> QED
    BY <1>1, <1>5, <1>10, <2>1, <2>2, <2>3, DeliverStep DEF Kept
<1> QED
  BY <1>9, <1>12, <1>13, WriteCases, OrderWrites

\* The supply becomes known.
LEMMA MadeGoes ==
  ASSUME Tables, Fits, Course, Quiet, kiz' = kiz, ~batch.known,
         NEW x \in Command, NEW y \in ReadRow, x.st = "confirmed", y.st = "none",
         Commit(Known, asg, Scheduling([cmd EXCEPT ![Create] = x], OrdersAdded),
                [read EXCEPT ![Create] = y], FALSE)
  PROVE  Kept
<1> DEFINE c == [cmd EXCEPT ![Create] = x]
           r == [read EXCEPT ![Create] = y]
           s == Scheduling(c, OrdersAdded)
<1>1. c \in [Writes -> Command] /\ r \in [Writes -> ReadRow] /\ ret \in [Orders -> Return]
      /\ cmd \in [Writes -> Command] /\ read \in [Writes -> ReadRow]
  BY Known1
<1>2. /\ \A v \in Writes : v # Create => c[v] = cmd[v] /\ r[v] = read[v]
      /\ c[Create] = x /\ r[Create] = y
  BY <1>1, SupplyWrites
<1>3. Commit(Known, asg, s, r, FALSE)
  BY DEF s, c, r
<1> HIDE DEF c, r
<1>4. ASSUME NEW w \in Writes
      PROVE  /\ s[w] \in Command
             /\ s[w] = c[w] \/ \E o \in OrdersAdded : w = Add(o)
  <2>1. CASE \E o \in OrdersAdded : w = Add(o)
    <3>1. s[w] = Enqueue(c, w)[w]
      BY <2>1 DEF Scheduling
    <3> QED
      BY <1>1, <2>1, <3>1, EnqueuedRow
  <2>2. CASE ~\E o \in OrdersAdded : w = Add(o)
    BY <1>1, <2>2 DEF Scheduling
  <2> QED
    BY <2>1, <2>2
<1>5. s \in [Writes -> Command]
  BY <1>4 DEF Scheduling
<1> HIDE DEF s
<1>6. s[Create] = x /\ s[Deliver] = cmd[Deliver]
  <2>1. \A o \in OrdersAdded : Create # Add(o) /\ Deliver # Add(o)
    BY OrderWrites DEF OrdersAdded
  <2> QED
    BY <1>2, <1>4, <2>1, SupplyWrites
<1>7. /\ cmd' = s
      /\ \A w \in Writes : w[1] # "cancel" => read'[w] = r[w]
      /\ batch' = IF \E w \in {Create, Deliver} : s[w].st = "failed" /\ cmd[w].st # "failed"
                  THEN [Known EXCEPT !.mk = "error"] ELSE Known
      /\ \A o \in Orders : asg'[o] = asg[o] \/ (asg'[o] = "error" /\ s[Add(o)].st = "failed")
      /\ \A o \in Orders :
           \/ ord'[o] = ord[o] /\ ret'[o].gap = ret[o].gap
           \/ /\ ord'[o] = "exception" /\ ret'[o].gap = Gap
              /\ MayLeave /\ ret[o].st = "none"
  BY <1>1, <1>3, <1>5, CommitEffect, Zenon
<1>8. batch' = Known
  <2>1. ~\E w \in {Create, Deliver} : s[w].st = "failed" /\ cmd[w].st # "failed"
    BY <1>6
  <2> QED
    BY <1>7, <2>1, Zenon
<1>9. batch'.known /\ batch'.mk = "open" /\ batch'.st = batch.st
  BY <1>8, Known1 DEF Known, Batch
<1>10. Goes
  <2>1. Turns
    BY <1>6, <1>7, <1>9 DEF Turns, Quiet
  <2>2. ASSUME NEW o \in Orders PROVE Moves(o)
    <3>1. ret[o].st = "none" => ord[o] # "exception"
      BY FitsAre DEF OrderFits
    <3> QED
      BY <1>7, <3>1 DEF Moves
  <2>3. ASSUME NEW o \in Orders PROVE Adds(o)
    <3>1. read'[Add(o)] = read[Add(o)] /\ c[Add(o)] = cmd[Add(o)] /\ Add(o) \in Writes
      BY <1>2, <1>7, OrderWrites
    <3>2. s[Add(o)].st # "none" => cmd[Add(o)].st # "none" \/ asg[o] = "pending"
      <4>1. \A p \in OrdersAdded : Add(o) = Add(p) => asg[o] = "pending"
        BY OrderWrites DEF OrdersAdded
      <4> QED
        BY <1>4, <3>1, <4>1
    <3>3. asg'[o] = asg[o] \/ (asg'[o] = "error" /\ cmd'[Add(o)].st = "failed")
      BY <1>7
    <3> QED
      BY <1>7, <1>9, <3>1, <3>2, <3>3 DEF Adds, Started
  <2> QED
    BY <2>1, <2>2, <2>3, QuietBrings DEF Goes
<1>11. /\ cmd'[Deliver] = cmd[Deliver] /\ read'[Deliver] = read[Deliver]
       /\ cmd'[Create] = x /\ read'[Create] = y
  BY <1>2, <1>6, <1>7, SupplyWrites
<1> QED
  BY <1>9, <1>10, <1>11, CreateStep DEF Kept

\* The supply is delivered, and the wave may be handed over with it.
LEMMA DeliveredGoes ==
  ASSUME Tables, Fits, Course, Quiet, kiz' = kiz, supply.closed, cmd[Deliver].st # "none",
         NEW x \in Command, NEW y \in ReadRow, x.st = "confirmed", x.ans = "none",
         y.st = "none", y.at = "none" \/ y.at = read[Deliver].at, y.ans = "none",
         \A o \in Orders : kiz[o] # "rejected",
         Delivered([cmd EXCEPT ![Deliver] = x], [read EXCEPT ![Deliver] = y])
  PROVE  Kept
<1>1. /\ cmd' = [cmd EXCEPT ![Deliver] = x] /\ read' = [read EXCEPT ![Deliver] = y]
      /\ UNCHANGED <<asg, ret>> /\ (ord' = HandedOver \/ ord' = ord)
      /\ \/ batch' = [batch EXCEPT !.mk = "complete"]
         \/ batch' = [batch EXCEPT !.mk = "complete", !.st = "dispatched"] /\ batch.st = "ready"
  BY DEF Delivered
<1>2. /\ cmd \in [Writes -> Command] /\ read \in [Writes -> ReadRow]
      /\ \A v \in Writes : v # Deliver => cmd'[v] = cmd[v] /\ read'[v] = read[v]
      /\ cmd'[Deliver] = x /\ read'[Deliver] = y
  BY <1>1, Known1, SupplyWrites
<1>3. /\ batch'.known = batch.known /\ batch'.mk = "complete"
      /\ batch'.st = batch.st \/ (batch'.st = "dispatched" /\ batch.st = "ready")
  BY <1>1, Known1 DEF Batch
<1>4. Goes
  <2>1. Turns
    BY <1>2, <1>3 DEF Turns, Quiet
  <2>2. ASSUME NEW o \in Orders PROVE Moves(o)
    BY <1>1 DEF HandedOver, Moves
  <2>3. ASSUME NEW o \in Orders PROVE Adds(o)
    <3>1. cmd'[Add(o)] = cmd[Add(o)] /\ read'[Add(o)] = read[Add(o)]
      BY <1>2, OrderWrites
    <3> QED
      BY <1>1, <3>1 DEF Adds, Started
  <2> QED
    BY <2>1, <2>2, <2>3, QuietBrings DEF Goes
<1>5. /\ cmd'[Create] = cmd[Create] /\ read'[Create] = read[Create]
      /\ x.st \notin Open /\ supply'.closed
  BY <1>2, SupplyWrites DEF Open, Quiet
<1> QED
  BY <1>2, <1>3, <1>4, <1>5, DeliverStep DEF Kept

LEMMA AcceptedGoes ==
  ASSUME Tables, Fits, Course, NEW w \in Writes, Accepted(w)
  PROVE  Kept
<1>1. cmd[w].ans = "ok" /\ Quiet /\ kiz' = kiz
  BY DEF Accepted, Quiet, wbVars
<1>2. RowOK(w, cmd[w], read[w], batch, asg, ord, kiz) /\ cmd[w].st \in {"sent", "cancelled"}
  BY <1>1, Known1 DEF RowOK, Held
<1> DEFINE x == [NoCommand EXCEPT !.st = "confirmed"]
           y == read[w]
<1>3. x \in Command /\ x.st = "confirmed" /\ x.ans = "none"
      /\ Confirm(cmd, w) = [cmd EXCEPT ![w] = x]
      /\ y \in ReadRow /\ [read EXCEPT ![w] = y] = read
  BY Known1 DEF NoCommand, Command, Statuses, Confirm
<1> HIDE DEF x
<1>4. CASE w = Create
  <2>1. Commit(Known, asg, Scheduling(Confirm(cmd, w), OrdersAdded), read, FALSE)
    BY <1>4, SupplyWrites DEF Accepted
  <2>2. Commit(Known, asg, Scheduling([cmd EXCEPT ![Create] = x], OrdersAdded),
               [read EXCEPT ![Create] = y], FALSE)
    BY <1>3, <1>4, <2>1
  <2>3. ~batch.known /\ y.st = "none"
    BY <1>1, <1>4, DeskRows, DeskIs DEF DeskOK
  <2> HIDE DEF y
  <2> QED
    BY <1>1, <1>3, <2>2, <2>3, MadeGoes
<1>5. CASE w = Deliver
  <2>1. Delivered(Confirm(cmd, w), read)
    BY <1>5, SupplyWrites DEF Accepted
  <2>2. Delivered([cmd EXCEPT ![Deliver] = x], [read EXCEPT ![Deliver] = y])
    BY <1>3, <1>5, <2>1
  <2>3. /\ supply.closed /\ cmd[Deliver].st = "sent" /\ y.st = "none" /\ y.ans = "none"
        /\ y.at = read[Deliver].at /\ \A o \in Orders : kiz[o] # "rejected"
    BY <1>1, <1>5, DeskRows, DeskIs DEF DeskOK, Shut
  <2> HIDE DEF y
  <2> QED
    BY <1>1, <1>3, <2>2, <2>3, DeliveredGoes
<1>6. CASE w[1] \in {"add", "cancel"}
  <2>1. IF cmd[w].st = "sent" THEN Deferred(w)
        ELSE Commit(batch, asg, Settle(cmd, w, cmd[w].st), read, FALSE)
    BY <1>6, SupplyWrites DEF Accepted
  <2>2. CASE cmd[w].st = "sent"
    <3>1. w # Deliver
      BY <1>6, SupplyWrites
    <3> QED
      BY <1>1, <2>1, <2>2, <3>1, DoubtGoes
  <2>3. CASE cmd[w].st # "sent"
    <3>1. cmd[w].st = "cancelled" /\ w \notin {Create, Deliver}
      BY <1>2, <1>6, <2>3, SupplyWrites
    <3> QED
      BY <1>1, <2>1, <3>1, SettleGoes
  <2> QED
    BY <2>2, <2>3
<1> QED
  BY <1>4, <1>5, <1>6, WriteCases, OrderWrites

\* A readback settles an order's write.
LEMMA VerdictGoes ==
  ASSUME Tables, Fits, Course, Quiet, kiz' = kiz,
         NEW w \in Writes, w[1] \in {"add", "cancel"}, read[w].ans # "none",
         NEW c \in {Confirmed(w), Retried(w), Failed(w)}, NEW a, NEW conclusive,
         Commit(batch, a, c, Done(w), conclusive),
         \A o \in Orders : \/ a[o] = asg[o]
                           \/ /\ w = Add(o) /\ a[o] = "confirmed"
                              /\ read[w].at # "none" /\ read[w].ans = "here"
  PROVE  Kept
<1>1. /\ c = [cmd EXCEPT ![w] = c[w]] /\ c[w] \in Command
      /\ \/ c[w] = cmd[w]
         \/ InDoubt(w)
  BY VerdictRow
<1>2. Commit(batch, a, [cmd EXCEPT ![w] = c[w]], [read EXCEPT ![w] = NoRead], conclusive)
  BY <1>1 DEF Done
<1>3. Follows(w, c[w], NoRead)
  BY <1>1, EmptyRead DEF Follows, InDoubt
<1> DEFINE x == c[w]
<1>4. x \in Command /\ Follows(w, x, NoRead)
      /\ Commit(batch, a, [cmd EXCEPT ![w] = x], [read EXCEPT ![w] = NoRead], conclusive)
  BY <1>1, <1>2, <1>3
<1> HIDE DEF x
<1> QED
  BY <1>4, EmptyRead, OwnGoes DEF Kept

LEMMA FoundGoes ==
  ASSUME Tables, Fits, Course, Found
  PROVE  Kept
<1>1. /\ read[Create].ans # "none" /\ Quiet /\ kiz' = kiz
      /\ Commit(Known, asg, Scheduling(Confirmed(Create), OrdersAdded), Done(Create), FALSE)
  BY DEF Found, Reading, Unread, wbVars, Quiet
<1> DEFINE x == [NoCommand EXCEPT !.st = "confirmed"]
<1>2. cmd[Create].st = "conflict" /\ ~batch.known
  BY <1>1, DeskRows, DeskIs DEF DeskOK
<1>3. Confirmed(Create) = [cmd EXCEPT ![Create] = x]
  BY <1>2 DEF Confirmed, InDoubt, Confirm
<1>4. x \in Command /\ x.st = "confirmed"
  BY DEF NoCommand, Command, Statuses
<1> HIDE DEF x
<1>5. Commit(Known, asg, Scheduling([cmd EXCEPT ![Create] = x], OrdersAdded),
             [read EXCEPT ![Create] = NoRead], FALSE)
  BY <1>1, <1>3 DEF Done
<1> QED
  BY <1>1, <1>2, <1>4, <1>5, EmptyRead, MadeGoes

LEMMA RetriedRow ==
  ASSUME Tables, NEW w \in Writes, InDoubt(w)
  PROVE  LET x == Retried(w)[w]
         IN /\ Retried(w) = [cmd EXCEPT ![w] = x] /\ x \in Command
            /\ x.st \in {"retry", "failed"} /\ x.ans = "none"
<1>1. PICK st \in {"retry", "failed"} : Retried(w) = Settle(cmd, w, st)
  BY DEF Retried, RetryOrFailed
<1> QED
  BY <1>1, SettledCommand, Known1 DEF Statuses

\* The batch's write is tried again, or fails.
LEMMA RetriedGoes ==
  ASSUME Tables, Fits, Course, Quiet, kiz' = kiz, NEW w \in {Create, Deliver},
         read[w].ans # "none", Commit(batch, asg, Retried(w), Done(w), FALSE)
  PROVE  Kept
<1>1. w \in Writes /\ cmd[w].st = "conflict" /\ batch \in Batch
  BY DeskRows, DeskIs, Known1 DEF DeskOK
<1> DEFINE x == Retried(w)[w]
<1>2. /\ Retried(w) = [cmd EXCEPT ![w] = x] /\ x \in Command
      /\ x.st \in {"retry", "failed"} /\ x.ans = "none"
  BY <1>1, RetriedRow DEF InDoubt
<1> HIDE DEF x
<1>3. Commit(batch, asg, [cmd EXCEPT ![w] = x], [read EXCEPT ![w] = NoRead], FALSE)
  BY <1>2 DEF Done
<1>4. Follows(w, x, NoRead)
  BY <1>1, EmptyRead DEF Follows
<1>5. Goes
  BY <1>1, <1>2, <1>3, <1>4, EmptyRead, CommitGoes
<1>6. DeskAfter(w, x, NoRead, batch)
  BY <1>1, <1>2, <1>3, EmptyRead, CommitDesk
<1>7. /\ batch'.known = batch.known /\ batch'.st = batch.st
      /\ batch'.mk = IF x.st = "failed" THEN "error" ELSE batch.mk
  <2>1. batch' = IF x.st = "failed" THEN [batch EXCEPT !.mk = "error"] ELSE batch
    BY <1>1, <1>6 DEF DeskAfter
  <2> QED
    BY <1>1, <2>1 DEF Batch
<1>8. CASE w = Create
  <2>1. ~batch.known
    BY <1>1, <1>8, DeskIs DEF DeskOK
  <2>2. /\ cmd'[Deliver] = cmd[Deliver] /\ read'[Deliver] = read[Deliver]
        /\ read'[Create] = NoRead
    BY <1>6, <1>8, SupplyWrites DEF DeskAfter
  <2> QED
    BY <1>5, <1>7, <2>1, <2>2, EmptyRead, CreateStep DEF Kept
<1>9. CASE w = Deliver
  <2>1. /\ \A o \in Orders : kiz[o] # "rejected"
        /\ batch.st \in {"open", "ready"} => batch.mk \in {"delivery_pending", "complete"}
    BY <1>1, <1>9, DeskRows, DeskIs DEF DeskOK
  <2>2. /\ cmd'[Create] = cmd[Create] /\ read'[Create] = read[Create]
        /\ cmd'[Deliver] = x /\ read'[Deliver] = NoRead
    BY <1>6, <1>9, SupplyWrites DEF DeskAfter
  <2>3. x.st = "failed" => x.st \notin Open
    BY DEF Open
  <2> QED
    BY <1>1, <1>2, <1>5, <1>7, <1>9, <2>1, <2>2, <2>3, EmptyRead, DeliverStep DEF Kept
<1> QED
  BY <1>8, <1>9

LEMMA NotFoundGoes ==
  ASSUME Tables, Fits, Course, NotFound \/ NotDelivered
  PROVE  Kept
<1>1. Quiet /\ kiz' = kiz
  BY DEF NotFound, NotDelivered, Unread, wbVars, Quiet
<1>2. CASE NotFound
  <2>1. read[Create].ans # "none" /\ Commit(batch, asg, Retried(Create), Done(Create), FALSE)
    BY <1>2 DEF NotFound, Reading
  <2> QED
    BY <1>1, <2>1, RetriedGoes
<1>3. CASE NotDelivered
  <2>1. read[Deliver].ans # "none" /\ Commit(batch, asg, Retried(Deliver), Done(Deliver), FALSE)
    BY <1>3 DEF NotDelivered, Reading
  <2> QED
    BY <1>1, <2>1, RetriedGoes
<1> QED
  BY <1>2, <1>3

LEMMA IsDeliveredGoes ==
  ASSUME Tables, Fits, Course, IsDelivered
  PROVE  Kept
<1>1. /\ read[Deliver].ans = "closed" /\ Quiet /\ kiz' = kiz
      /\ Delivered(Confirmed(Deliver), Done(Deliver))
  BY DEF IsDelivered, Reading, Unread, wbVars, Quiet
<1> DEFINE x == [NoCommand EXCEPT !.st = "confirmed"]
<1>2. /\ cmd[Deliver].st = "conflict" /\ supply.closed
      /\ \A o \in Orders : kiz[o] # "rejected"
  BY <1>1, DeskRows, DeskIs DEF DeskOK, Shut
<1>3. Confirmed(Deliver) = [cmd EXCEPT ![Deliver] = x]
  BY <1>2 DEF Confirmed, InDoubt, Confirm
<1>4. x \in Command /\ x.st = "confirmed" /\ x.ans = "none"
  BY DEF NoCommand, Command, Statuses
<1> HIDE DEF x
<1>5. Delivered([cmd EXCEPT ![Deliver] = x], [read EXCEPT ![Deliver] = NoRead])
  BY <1>1, <1>3 DEF Done
<1> QED
  BY <1>1, <1>2, <1>4, <1>5, EmptyRead, DeliveredGoes

LEMMA AskAgainGoes ==
  ASSUME Tables, Fits, Course, NEW o \in Orders, SupplyOpen(o) \/ NoMember(o)
  PROVE  Kept
<1> DEFINE w == Add(o)
<1>1. PICK at \in {"member", "lookup"} :
        /\ Commit(batch, asg, cmd, Ask(read, w, at), FALSE)
        /\ read[w].at # "none" /\ Quiet /\ kiz' = kiz
  BY DEF SupplyOpen, NoMember, Reading, Unread, wbVars, Quiet
<1> DEFINE y == [at |-> at, st |-> "pending", tries |-> 0, ans |-> "none"]
           x == cmd[w]
<1>2. /\ y \in ReadRow /\ Ask(read, w, at) = [read EXCEPT ![w] = y]
      /\ y.at = at /\ y.ans = "none"
  BY DEF ReadRow, ReadStatuses, Ask
<1>3. w \in Writes /\ w[1] = "add" /\ x \in Command /\ [cmd EXCEPT ![w] = x] = cmd
  BY OrderWrites, Known1
<1> HIDE DEF y
<1>4. Commit(batch, asg, [cmd EXCEPT ![w] = x], [read EXCEPT ![w] = y], FALSE)
  BY <1>1, <1>2, <1>3
<1>5. Follows(w, x, y)
  BY <1>1, <1>2 DEF Follows
<1> HIDE DEF w, x
<1> QED
  BY <1>1, <1>2, <1>3, <1>4, <1>5, OwnGoes DEF Kept

LEMMA SupplyClosedGoes ==
  ASSUME Tables, Fits, Course, NEW o \in Orders, SupplyClosed(o)
  PROVE  Kept
<1> DEFINE w == Add(o)
           b == [batch EXCEPT !.mk = "complete"]
           x == Failed(w)[w]
<1>1. /\ read[w].ans = "closed" /\ Quiet /\ kiz' = kiz
      /\ Commit(b, asg, Failed(w), Done(w), FALSE)
  BY DEF SupplyClosed, Reading, Unread, wbVars, Quiet
<1>2. supply.closed /\ w \in Writes /\ w \notin {Create, Deliver}
  BY <1>1, FitsAre, OrderWrites DEF AddFits
<1>3. /\ Failed(w) = [cmd EXCEPT ![w] = x] /\ x \in Command
      /\ x = cmd[w] \/ cmd[w].st = "conflict"
  BY <1>2, VerdictRow DEF InDoubt
<1>4. b \in Batch /\ b.st = batch.st /\ b.known = batch.known /\ b.mk = "complete"
  BY Known1 DEF Batch
<1> HIDE DEF b, x, w
<1>5. Commit(b, asg, [cmd EXCEPT ![w] = x], [read EXCEPT ![w] = NoRead], FALSE)
  BY <1>1, <1>3 DEF Done
<1>6. Follows(w, x, NoRead)
  BY <1>3, EmptyRead DEF Follows
<1>7. Goes
  BY <1>1, <1>2, <1>3, <1>4, <1>5, <1>6, EmptyRead, CommitGoes
<1>8. DeskAfter(w, x, NoRead, b)
  BY <1>2, <1>3, <1>5, EmptyRead, CommitDesk
<1>9. /\ cmd'[Create] = cmd[Create] /\ read'[Create] = read[Create]
      /\ cmd'[Deliver] = cmd[Deliver] /\ read'[Deliver] = read[Deliver] /\ batch' = b
  BY <1>2, <1>8 DEF DeskAfter
<1>10. DeskOK(batch', cmd'[Create], read'[Create], cmd'[Deliver], read'[Deliver])
  BY <1>4, <1>9, DeskIs DEF DeskOK
<1>11. Desk'
  BY <1>1, <1>9, <1>10, DeskIs DEF Desk
<1>12. supply'.closed
  BY <1>1, <1>2 DEF Quiet
<1> QED
  BY <1>4, <1>7, <1>9, <1>11, <1>12, ShutStep DEF Kept

LEMMA SupplyMissingGoes ==
  ASSUME Tables, Fits, Course, NEW o \in Orders, SupplyMissing(o)
  PROVE  Kept
<1> DEFINE moved == {x \in Orders : asg[x] \in {"pending", "error"} /\ ord[x] = "picked"}
           left == {Add(x) : x \in moved} \cup {Cancel(x) : x \in moved}
<1>1. /\ Quiet /\ kiz' = kiz /\ batch' = [batch EXCEPT !.st = "problem", !.mk = "error"]
      /\ asg' = [x \in Orders |-> IF x \in moved THEN "moved" ELSE asg[x]]
      /\ cmd' = [w \in Writes |-> IF w \in left THEN NoCommand ELSE cmd[w]]
      /\ read' = [w \in Writes |-> IF w \in left THEN NoRead ELSE Done(Add(o))[w]]
      /\ UNCHANGED <<ord, ret>>
  BY DEF SupplyMissing, Unread, wbVars, Quiet
<1>2. NoCommand.st = "none"
  BY DEF NoCommand
<1>3. batch'.st = "problem" /\ batch'.known = batch.known /\ batch'.mk = "error"
  BY <1>1, Known1 DEF Batch
<1>4. ASSUME NEW w \in Writes
      PROVE  cmd'[w] \in {NoCommand, cmd[w]} /\ read'[w] \in {NoRead, read[w]}
  <2>1. Done(Add(o))[w] \in {NoRead, read[w]}
    BY Known1 DEF Done
  <2> QED
    BY <1>1, <2>1
<1>5. /\ cmd'[Create] = cmd[Create] /\ read'[Create] = read[Create]
      /\ cmd'[Deliver] = cmd[Deliver] /\ read'[Deliver] = read[Deliver]
  <2>1. Create \notin left /\ Deliver \notin left /\ Create # Add(o) /\ Deliver # Add(o)
    BY OrderWrites
  <2>2. Done(Add(o))[Create] = read[Create] /\ Done(Add(o))[Deliver] = read[Deliver]
    BY <2>1, Known1, SupplyWrites DEF Done
  <2> QED
    BY <1>1, <2>1, <2>2, SupplyWrites
<1>6. \A p \in Orders : asg'[p] = asg[p] \/ asg'[p] = "moved"
  BY <1>1
<1> HIDE DEF moved, left
<1>7. Goes
  <2>1. Turns
    BY <1>1, <1>3, <1>5 DEF Turns, Quiet
  <2>2. ASSUME NEW p \in Orders PROVE Moves(p) /\ Adds(p)
    <3>1. cmd'[Add(p)] \in {NoCommand, cmd[Add(p)]} /\ read'[Add(p)] \in {NoRead, read[Add(p)]}
      BY <1>4, OrderWrites
    <3> QED
      BY <1>1, <1>2, <1>3, <1>6, <3>1, EmptyRead DEF Moves, Adds, Started
  <2> QED
    BY <1>1, <2>1, <2>2, QuietBrings DEF Goes
<1>8. DeskOK(batch', cmd'[Create], read'[Create], cmd'[Deliver], read'[Deliver])
  BY <1>3, <1>5, DeskIs DEF DeskOK
<1>9. Desk'
  BY <1>1, <1>5, <1>8, DeskIs DEF Desk
<1> QED
  BY <1>3, <1>5, <1>7, <1>9, ShutStep DEF Kept

LEMMA MemberGoes ==
  ASSUME Tables, Fits, Course, NEW o \in Orders, Member(o)
  PROVE  Kept
<1> DEFINE a == [asg EXCEPT ![o] = "confirmed"]
           w == Add(o)
<1>1. /\ read[w].at # "none" /\ read[w].ans = "here" /\ Quiet /\ kiz' = kiz
      /\ w \in Writes /\ w[1] = "add"
      /\ Commit(batch, a, Confirmed(w), Done(w), FALSE)
  BY OrderWrites DEF Member, Reading, wbVars, Quiet
<1>2. \A p \in Orders : a[p] = asg[p] \/ (p = o /\ a[p] = "confirmed")
  BY Known1
<1>3. \A p \in Orders : \/ a[p] = asg[p]
                        \/ /\ w = Add(p) /\ a[p] = "confirmed"
                           /\ read[w].at # "none" /\ read[w].ans = "here"
  BY <1>1, <1>2
<1> HIDE DEF a, w
<1> QED
  BY <1>1, <1>3, VerdictGoes

LEMMA LocatedGoes ==
  ASSUME Tables, Fits, Course, NEW o \in Orders, Located(o)
  PROVE  Kept
<1> DEFINE over == read[Add(o)].ans = "elsewhere" \/ o \in told
           w == Add(o)
           c == IF over THEN Failed(w) ELSE Retried(w)
<1>1. /\ read[w].ans # "none" /\ Quiet /\ kiz' = kiz /\ w \in Writes /\ w[1] = "add"
      /\ Commit(batch, asg, c, Done(w), over)
  BY OrderWrites DEF Located, Unread, wbVars, Quiet
<1>2. c \in {Confirmed(w), Retried(w), Failed(w)}
  OBVIOUS
<1> HIDE DEF over, w, c
<1> QED
  BY <1>1, <1>2, VerdictGoes

LEMMA StillThereGoes ==
  ASSUME Tables, Fits, Course, NEW o \in Orders, StillThere(o)
  PROVE  Kept
<1> DEFINE w == Cancel(o)
           reads == IF read[w].st = "sent" THEN RetryOrFailed(read, w)
                    ELSE Settle(read, w, read[w].st)
<1>1. /\ read[w].at # "none" /\ Quiet /\ kiz' = kiz
      /\ Commit(batch, asg, cmd, reads, FALSE)
  BY DEF StillThere, Reading, Unread, wbVars, Quiet
<1>2. /\ w \in Writes /\ w[1] = "cancel" /\ cmd[w] \in Command
      /\ [cmd EXCEPT ![w] = cmd[w]] = cmd /\ read[w].st \in ReadStatuses
  BY OrderWrites, Known1 DEF ReadRow
<1>3. PICK st \in ReadStatuses : reads = Settle(read, w, st)
  BY <1>2 DEF RetryOrFailed, ReadStatuses
<1> DEFINE x == cmd[w]
           y == reads[w]
<1> HIDE DEF reads, w
<1>4. reads = [read EXCEPT ![w] = y] /\ y \in ReadRow /\ y.ans = "none"
  BY <1>2, <1>3, Known1, SettledRead
<1>5. x \in Command /\ Commit(batch, asg, [cmd EXCEPT ![w] = x], [read EXCEPT ![w] = y], FALSE)
  BY <1>1, <1>2, <1>4
<1>6. Follows(w, x, y)
  BY <1>1, <1>4 DEF Follows
<1> HIDE DEF x, y
<1> QED
  BY <1>1, <1>2, <1>4, <1>5, <1>6, OwnGoes DEF Kept

-----------------------------------------------------------------------------
\* The controllers.
LEMMA CancelledAt ==
  ASSUME NEW r \in [Writes -> ReadRow], NEW writes, NEW sts, NEW w \in Writes
  PROVE  Cancelled(r, writes, sts)[w].at = r[w].at
<1>1. \A row \in ReadRow : [row EXCEPT !.st = "cancelled"].at = row.at
  BY DEF ReadRow
<1> QED
  BY <1>1 DEF Cancelled

LEMMA HasLeftGoes ==
  ASSUME Tables, Fits, Course, NEW o \in Orders, HasLeft(o)
  PROVE  Kept
<1> DEFINE w == Cancel(o)
           c == Confirmed(w)
           r == Done(w)
<1>1. PICK kept \in BOOLEAN :
        /\ read[w].at = "absence"
        /\ ret' = [ret EXCEPT ![o].st = "queued"]
        /\ ord' = [ord EXCEPT ![o] = "exception"]
        /\ asg' = [asg EXCEPT ![o] = "canceled"]
        /\ kiz' = [kiz EXCEPT ![o] = IF @ = "rejected" THEN "dropped" ELSE @]
        /\ cmd' = Cancelled(c, {Add(o)}, Open)
        /\ read' = Cancelled(r, IF kept THEN {} ELSE {Add(o)}, Open)
        /\ batch' = batch /\ Quiet
  BY DEF HasLeft, Reading, wbVars, Quiet
<1>2. w \in Writes /\ w[1] = "cancel"
  BY OrderWrites
<1>3. /\ c \in [Writes -> Command] /\ r \in [Writes -> ReadRow]
      /\ \A v \in Writes : v # w => c[v] = cmd[v] /\ r[v] = read[v]
  <2>1. c = [cmd EXCEPT ![w] = c[w]] /\ c[w] \in Command
    BY <1>2, VerdictRow
  <2> QED
    BY <1>2, <2>1, Known1, EmptyRead DEF Done
<1> HIDE DEF c, r
<1>4. ord[o] = "exception"
  BY <1>1, FitsAre DEF CancelFits
<1>5. \A p \in Orders : /\ ord'[p] = ord[p] /\ asg'[p] \in {asg[p], "canceled"}
                        /\ kiz'[p] = "rejected" => kiz[p] = "rejected"
  BY <1>1, <1>4, Known1
<1>6. ASSUME NEW p \in Orders PROVE ret'[p].gap = ret[p].gap
  BY <1>1, Known1 DEF Return
<1> DEFINE ra == IF kept THEN {} ELSE {Add(o)}
<1>7. ASSUME NEW v \in Writes, v # w
      PROVE  /\ cmd'[v].st # "none" => cmd[v].st # "none"
             /\ read'[v].at = read[v].at /\ read'[v].ans = read[v].ans
             /\ v # Add(o) => cmd'[v] = cmd[v] /\ read'[v] = read[v]
  <2>1. ra \in SUBSET {Add(o)} /\ read' = Cancelled(r, ra, Open)
    BY <1>1
  <2> HIDE DEF ra
  <2>2. /\ cmd'[v].st = c[v].st \/ (v \in {Add(o)} /\ c[v].st \in Open /\ cmd'[v].st = "cancelled")
        /\ v \notin {Add(o)} => cmd'[v] = c[v]
    BY <1>1, <1>3, CancelledCommand
  <2>3. read'[v].ans = r[v].ans /\ (v \notin ra => read'[v] = r[v])
    BY <1>3, <2>1, CancelledRead
  <2>4. read'[v].at = r[v].at
    BY <1>3, <2>1, CancelledAt
  <2> QED
    BY <1>3, <1>7, <2>1, <2>2, <2>3, <2>4 DEF Open
<1>8. /\ \A v \in {Create, Deliver} : cmd'[v] = cmd[v] /\ read'[v] = read[v]
  BY <1>2, <1>7, SupplyWrites, OrderWrites
<1>9. Goes
  <2>1. Turns
    BY <1>1, <1>8 DEF Turns, Quiet
  <2>2. ASSUME NEW p \in Orders PROVE Moves(p) /\ Adds(p)
    <3>1. Add(p) \in Writes /\ Add(p) # w
      BY <1>2, OrderWrites
    <3> QED
      BY <1>5, <1>6, <1>7, <3>1 DEF Moves, Adds, Started
  <2> QED
    BY <1>1, <2>1, <2>2, QuietBrings DEF Goes
<1>10. Aside
  BY <1>1, <1>5, <1>8 DEF Aside
<1> QED
  BY <1>9, <1>10, AsideStep DEF Kept

LEMMA ScheduledGoes ==
  ASSUME Tables, Fits, Course, NEW o \in Orders, Scheduled(o), Quiet, kiz' = kiz,
         UNCHANGED <<ord, ret, read>>, asg'[o] = "pending",
         \A p \in Orders : asg'[p] \in {asg[p], "pending"}
  PROVE  Kept
<1>1. CASE batch.known
  <2>1. cmd' = Enqueue(cmd, Add(o)) /\ batch' = batch
    BY <1>1 DEF Scheduled
  <2>2. \A v \in Writes : v # Add(o) => cmd'[v] = cmd[v]
    BY <2>1, OrderWrites, Known1, EnqueuedRow
  <2>3. cmd'[Create] = cmd[Create] /\ cmd'[Deliver] = cmd[Deliver]
    BY <2>2, OrderWrites, SupplyWrites
  <2>4. Goes
    <3>1. Turns
      BY <2>1, <2>3 DEF Turns, Quiet
    <3>2. ASSUME NEW p \in Orders PROVE Moves(p) /\ Adds(p)
      <4>1. p # o => cmd'[Add(p)] = cmd[Add(p)]
        <5>1. Add(p) \in Writes /\ (p # o => Add(p) # Add(o))
          BY OrderWrites
        <5> QED
          BY <2>2, <5>1
      <4> QED
        BY <1>1, <2>1, <4>1 DEF Moves, Adds, Started
    <3> QED
      BY <3>1, <3>2, QuietBrings DEF Goes
  <2>5. Aside
    BY <2>1, <2>3 DEF Aside
  <2> QED
    BY <2>4, <2>5, AsideStep DEF Kept
<1>2. CASE ~batch.known
  <2>1. cmd' = Enqueue(cmd, Create) /\ batch' = [batch EXCEPT !.mk = "creating"]
    BY <1>2 DEF Scheduled
  <2>2. batch'.st = batch.st /\ batch'.known = batch.known /\ batch'.mk = "creating"
    BY <2>1, Known1 DEF Batch
  <2>3. /\ \A v \in Writes : v # Create => cmd'[v] = cmd[v]
        /\ cmd[Create].st # "none" => cmd'[Create].st = cmd[Create].st
    BY <2>1, SupplyWrites, Known1, EnqueuedRow
  <2>4. cmd'[Deliver] = cmd[Deliver] /\ (read[Create].st # "none" => cmd[Create].st = "conflict")
    BY <2>3, SupplyWrites, DeskIs DEF DeskOK
  <2>5. Goes
    <3>1. Turns
      BY <2>2, <2>4 DEF Turns, Quiet
    <3>2. ASSUME NEW p \in Orders PROVE Moves(p) /\ Adds(p)
      <4>1. cmd'[Add(p)] = cmd[Add(p)]
        BY <2>3, OrderWrites
      <4> QED
        BY <4>1 DEF Moves, Adds, Started
    <3> QED
      BY <3>1, <3>2, QuietBrings DEF Goes
  <2> QED
    BY <1>2, <2>2, <2>3, <2>4, <2>5, CreateStep DEF Kept
<1> QED
  BY <1>1, <1>2

LEMMA AssignGoes ==
  ASSUME Tables, Fits, Course, NEW o \in Orders, Assign(o) \/ Schedule(o)
  PROVE  Kept
<1>1. Scheduled(o) /\ Quiet /\ kiz' = kiz /\ UNCHANGED <<ord, ret, read>>
  BY DEF Assign, Schedule, people, wbVars, Quiet
<1>2. asg'[o] = "pending" /\ \A p \in Orders : asg'[p] \in {asg[p], "pending"}
  BY Known1 DEF Assign, Schedule
<1> QED
  BY <1>1, <1>2, ScheduledGoes

\* Rows, batch and codes stay.
LEMMA StayGoes ==
  ASSUME Course, UNCHANGED <<batch, kiz, cmd, read>>,
         supply.closed => supply'.closed,
         supply'.closed => supply.closed \/ cmd[Deliver].st # "none",
         \A o \in Orders : /\ Moves(o) /\ Brings(o)
                           /\ \/ asg'[o] \in {asg[o], "pending", "canceled"}
                              \/ /\ Started(o)
                                 /\ \/ asg'[o] = "error"
                                    \/ /\ asg'[o] = "confirmed"
                                       /\ o \in view.seen \/ Here(o)
  PROVE  Kept
<1>1. Turns
  BY DEF Turns
<1>2. \A o \in Orders : Adds(o)
  BY DEF Adds, Started
<1>3. Goes
  BY <1>1, <1>2 DEF Goes
<1>4. Aside
  BY DEF Aside
<1> QED
  BY <1>3, <1>4, AsideStep DEF Kept

LEMMA SyncGoes ==
  ASSUME Course, Sync \/ Survey \/ Reconcile
  PROVE  Kept
<1>1. UNCHANGED <<batch, ord, ret, kiz, cmd, read, supply, place, dead>>
  BY DEF Sync, Survey, Reconcile, people, wbVars
<1>2. ASSUME NEW o \in Orders, NEW seen, o \in seen => o \in view.seen \/ Here(o),
             asg' = Reconciled(seen)
      PROVE  \/ asg'[o] = asg[o]
             \/ /\ Started(o)
                /\ \/ asg'[o] = "error"
                   \/ asg'[o] = "confirmed" /\ (o \in view.seen \/ Here(o))
  <2>1. asg'[o] = IF o \notin Settled THEN asg[o] ELSE IF o \in seen THEN "confirmed" ELSE "error"
    BY <1>2 DEF Reconciled
  <2>2. o \in Settled => Started(o)
    BY DEF Settled, Started
  <2> QED
    BY <1>2, <2>1, <2>2
<1>3. \A seen \in Views : \A o \in Orders : o \in seen => Here(o)
  BY DEF Views
<1>4. ASSUME NEW o \in Orders
      PROVE  /\ o \in view'.seen => o \in view.seen \/ Here(o)
             /\ \/ asg'[o] = asg[o]
                \/ /\ Started(o)
                   /\ \/ asg'[o] = "error"
                      \/ asg'[o] = "confirmed" /\ (o \in view.seen \/ Here(o))
  <2>1. CASE Sync
    <3>1. PICK seen \in Views : asg' = Reconciled(seen)
      BY <2>1 DEF Sync
    <3>2. view' = view
      BY <2>1 DEF Sync
    <3> QED
      BY <1>2, <1>3, <3>1, <3>2
  <2>2. CASE Survey
    BY <1>3, <2>2 DEF Survey
  <2>3. CASE Reconcile
    BY <1>2, <2>3 DEF Reconcile, NoView
  <2> QED
    BY <2>1, <2>2, <2>3
<1>5. \A o \in Orders : Moves(o) /\ Brings(o)
  BY <1>1, <1>4 DEF Moves, Brings, InSupply
<1> QED
  BY <1>1, <1>4, <1>5, StayGoes

LEMMA PackGoes ==
  ASSUME Tables, Course, NEW o \in Orders, Pack(o)
  PROVE  Kept
<1>1. /\ UNCHANGED <<batch, asg, ret, kiz, cmd, read>> /\ Quiet
      /\ ord[o] = "picked" /\ asg[o] = "confirmed" /\ ord' = [ord EXCEPT ![o] = "ready"]
  BY DEF Pack, wbVars, Quiet
<1>2. \A p \in Orders : Moves(p)
  BY <1>1, Known1 DEF Moves
<1> QED
  BY <1>1, <1>2, QuietBrings, StayGoes DEF Quiet

LEMMA DispatchGoes ==
  ASSUME Tables, Course, Dispatch
  PROVE  Kept
<1>1. /\ UNCHANGED <<asg, ret, kiz, cmd, read>> /\ Quiet /\ batch.mk = "complete"
      /\ batch.st = "ready" /\ batch' = [batch EXCEPT !.st = "dispatched"] /\ ord' = HandedOver
  BY DEF Dispatch, wbVars, Quiet
<1>2. batch'.st = "dispatched" /\ batch'.known = batch.known /\ supply.closed
  BY <1>1, Known1, DeskIs DEF Batch, Shut
<1>3. Goes
  <2>1. Turns
    BY <1>1, <1>2 DEF Turns, Quiet
  <2>2. \A o \in Orders : Moves(o) /\ Adds(o)
    BY <1>1, <1>2 DEF Moves, Adds, HandedOver, Started
  <2> QED
    BY <1>1, <2>1, <2>2, QuietBrings DEF Goes
<1>4. DeskOK(batch', cmd'[Create], read'[Create], cmd'[Deliver], read'[Deliver])
  BY <1>1, <1>2, DeskIs DEF DeskOK
<1>5. Desk' /\ supply'.closed
  BY <1>1, <1>2, <1>4, DeskIs DEF Desk, Quiet
<1> QED
  BY <1>3, <1>5, ShutStep DEF Kept

LEMMA FixCodeGoes ==
  ASSUME Tables, Fits, Course, NEW o \in Orders, FixCode(o)
  PROVE  Kept
<1>1. /\ kiz[o] = "rejected" /\ kiz' = [kiz EXCEPT ![o] = "ok"] /\ Quiet
      /\ UNCHANGED <<asg, ord, ret, read>>
      /\ \/ /\ cmd' = Settle(cmd, Deliver, "retry")
            /\ batch' = [batch EXCEPT !.mk = "delivery_pending"]
            /\ \A p \in Orders : kiz'[p] # "rejected"
         \/ UNCHANGED <<cmd, batch>>
  BY DEF FixCode, wbVars, Quiet
<1>2. \A p \in Orders : kiz'[p] = "rejected" => kiz[p] = "rejected"
  BY <1>1, Known1
<1>3. CASE UNCHANGED <<cmd, batch>>
  <2>1. Turns
    BY <1>1, <1>3 DEF Turns, Quiet
  <2>2. \A p \in Orders : Moves(p) /\ Adds(p)
    BY <1>1, <1>3 DEF Moves, Adds, Started
  <2>3. Goes
    BY <1>1, <2>1, <2>2, QuietBrings DEF Goes
  <2>4. Aside
    BY <1>1, <1>2, <1>3 DEF Aside
  <2> QED
    BY <2>3, <2>4, AsideStep DEF Kept
<1>4. CASE /\ cmd' = Settle(cmd, Deliver, "retry")
           /\ batch' = [batch EXCEPT !.mk = "delivery_pending"]
           /\ \A p \in Orders : kiz'[p] # "rejected"
  <2> DEFINE x == Settle(cmd, Deliver, "retry")[Deliver]
  <2>1. cmd' = [cmd EXCEPT ![Deliver] = x] /\ x.st = "retry" /\ x.ans = "none"
    BY <1>4, SettledCommand, SupplyWrites, Known1 DEF Statuses
  <2> HIDE DEF x
  <2>2. cmd'[Deliver] = x /\ \A v \in Writes : v # Deliver => cmd'[v] = cmd[v]
    BY <2>1, Known1, SupplyWrites
  <2>3. batch'.st = batch.st /\ batch'.known = batch.known /\ batch'.mk = "delivery_pending"
    BY <1>4, Known1 DEF Batch
  <2>4. cmd[Deliver].st = "conflict" /\ read[Deliver].st = "none"
    BY <1>1, DeskIs
  <2>5. Goes
    <3>1. Turns
      BY <1>1, <2>3, <2>4 DEF Turns, Quiet
    <3>2. ASSUME NEW p \in Orders PROVE Moves(p) /\ Adds(p)
      <4>1. cmd'[Add(p)] = cmd[Add(p)]
        BY <2>2, OrderWrites
      <4> QED
        BY <1>1, <4>1 DEF Moves, Adds, Started
    <3> QED
      BY <1>1, <3>1, <3>2, QuietBrings DEF Goes
  <2>6. cmd'[Create] = cmd[Create] /\ x.st # "failed" /\ x.st # "conflict"
    BY <2>1, <2>2, SupplyWrites
  <2>7. DeskOK(batch', cmd'[Create], read'[Create], cmd'[Deliver], read'[Deliver])
    BY <1>1, <2>2, <2>3, <2>4, <2>6, DeskIs DEF DeskOK
  <2>8. Desk'
    BY <1>4, <2>7 DEF Desk
  <2> QED
    BY <1>1, <2>1, <2>2, <2>3, <2>5, <2>8, ShutStep DEF Kept
<1> QED
  BY <1>1, <1>3, <1>4

\* Only cancellations change, and orders.
LEMMA BesideAddsGoes ==
  ASSUME Course, Quiet, batch' = batch, kiz' = kiz,
         \A v \in Writes : v[1] # "cancel" => cmd'[v] = cmd[v] /\ read'[v] = read[v],
         \A o \in Orders : Moves(o) /\ asg'[o] \in {asg[o], "canceled"}
  PROVE  Kept
<1>1. /\ cmd'[Create] = cmd[Create] /\ read'[Create] = read[Create]
      /\ cmd'[Deliver] = cmd[Deliver] /\ read'[Deliver] = read[Deliver]
  BY SupplyWrites
<1>2. Turns
  BY <1>1 DEF Turns, Quiet
<1>3. ASSUME NEW o \in Orders PROVE Adds(o)
  <2>1. cmd'[Add(o)] = cmd[Add(o)] /\ read'[Add(o)] = read[Add(o)]
    BY OrderWrites
  <2> QED
    BY <2>1 DEF Adds, Started
<1>4. Goes
  BY <1>2, <1>3, QuietBrings DEF Goes
<1>5. Aside
  BY <1>1 DEF Aside
<1> QED
  BY <1>4, <1>5, AsideStep DEF Kept

LEMMA TakeOutGoes ==
  ASSUME Tables, Fits, Course, NEW o \in Orders, NEW client, NEW reported,
         MayExclude(o, client, reported), TakeOut(o, client), Quiet, UNCHANGED <<batch, asg, kiz>>
  PROVE  Kept
<1>1. ret[o].st = "none" /\ MayLeave /\ ord' = [ord EXCEPT ![o] = "exception"]
  BY DEF MayExclude, TakeOut
<1>2. PICK act, cl : ret' = [ret EXCEPT ![o] = TakenOut(act, cl)]
  BY DEF TakeOut
<1>3. ord[o] # "exception"
  BY <1>1, FitsAre DEF OrderFits
<1>4. ASSUME NEW p \in Orders PROVE Moves(p)
  <2>1. CASE p = o
    <3>1. ord'[o] = "exception" /\ ret'[o] = TakenOut(act, cl)
      BY <1>1, <1>2, Known1
    <3> QED
      BY <1>1, <1>3, <2>1, <3>1 DEF Moves, TakenOut
  <2>2. CASE p # o
    BY <1>1, <1>2, <2>2, Known1 DEF Moves
  <2> QED
    BY <2>1, <2>2
<1>5. ASSUME NEW v \in Writes, v[1] # "cancel" PROVE cmd'[v] = cmd[v] /\ read'[v] = read[v]
  <2>1. v # Cancel(o) /\ Cancel(o) \in Writes
    BY <1>5, OrderWrites
  <2>2. Enqueue(cmd, Cancel(o))[v] = cmd[v] /\ Ask(read, Cancel(o), "absence")[v] = read[v]
    BY <2>1, Known1, EnqueuedRow DEF Ask
  <2> QED
    BY <2>2 DEF TakeOut
<1> QED
  BY <1>4, <1>5, BesideAddsGoes

LEMMA ExcludeGoes ==
  ASSUME Tables, Fits, Course, NEW o \in Orders, NEW client \in BOOLEAN, Exclude(o, client)
  PROVE  Kept
<1>1. /\ MayExclude(o, client, o \in told) /\ TakeOut(o, client)
      /\ Quiet /\ UNCHANGED <<batch, asg, kiz>>
  BY DEF Exclude, wbVars, Quiet
<1> QED
  BY <1>1, TakeOutGoes

LEMMA ImportGoes ==
  ASSUME Tables, Fits, Course, NEW o \in Orders, Import(o)
  PROVE  Kept
<1>1. Quiet /\ UNCHANGED <<batch, asg, kiz>>
  BY DEF Import, wbVars, Quiet
<1>2. CASE MayExclude(o, TRUE, TRUE) /\ TakeOut(o, TRUE)
  BY <1>1, <1>2, TakeOutGoes
<1>3. CASE UNCHANGED <<ord, ret, cmd, read>>
  BY <1>1, <1>3, BesideAddsGoes DEF Moves
<1> QED
  BY <1>2, <1>3 DEF Import

LEMMA RetryExclusionGoes ==
  ASSUME Tables, Course, NEW o \in Orders, RetryExclusion(o)
  PROVE  Kept
<1>1. Quiet /\ UNCHANGED <<batch, asg, ord, kiz>> /\ ret' = [ret EXCEPT ![o].st = "waiting"]
  BY DEF RetryExclusion, wbVars, Quiet
<1>2. ASSUME NEW p \in Orders PROVE Moves(p)
  <2>1. ret'[p].gap = ret[p].gap
    BY <1>1, Known1 DEF Return
  <2> QED
    BY <1>1, <2>1 DEF Moves
<1>3. ASSUME NEW v \in Writes, v[1] # "cancel" PROVE cmd'[v] = cmd[v] /\ read'[v] = read[v]
  <2>1. v # Cancel(o)
    BY <1>3, OrderWrites
  <2>2. Settle(cmd, Cancel(o), "retry")[v] = cmd[v] /\ Settle(read, Cancel(o), "retry")[v] = read[v]
    BY <2>1, Known1 DEF Settle
  <2> QED
    BY <2>2 DEF RetryExclusion
<1> QED
  BY <1>1, <1>2, <1>3, BesideAddsGoes

LEMMA ReportProblemGoes ==
  ASSUME Tables, Fits, Course, NEW o \in Orders, ReportProblem(o)
  PROVE  Kept
<1>1. /\ ord[o] = "picked" /\ ord' = [ord EXCEPT ![o] = "exception"]
      /\ Quiet /\ UNCHANGED <<batch, kiz>>
      /\ \/ /\ ret' = [ret EXCEPT ![o] = TakenOut("verify", TRUE)]
            /\ read' = Ask(read, Cancel(o), "absence") /\ UNCHANGED <<asg, cmd>>
         \/ /\ ret' = [ret EXCEPT ![o] = [TakenOut("none", o \in told) EXCEPT !.st = "queued"]]
            /\ asg' = [asg EXCEPT ![o] = IF @ \in {"pending", "error"} THEN "canceled" ELSE @]
            /\ cmd' = Cancelled(cmd, {Add(o)}, Active) /\ read' = read
  BY DEF ReportProblem, wbVars, Quiet
<1>2. ret'[o].gap # "wave" /\ \A p \in Orders : p # o => ret'[p] = ret[p]
  <2>1. /\ TakenOut("verify", TRUE).gap # "wave"
        /\ [TakenOut("none", o \in told) EXCEPT !.st = "queued"].gap # "wave"
    BY DEF TakenOut, Gap
  <2> QED
    BY <1>1, <2>1, Known1
<1>3. ASSUME NEW p \in Orders PROVE Moves(p)
  <2>1. ord'[o] = "exception" /\ (p # o => ord'[p] = ord[p])
    BY <1>1, Known1
  <2> QED
    BY <1>1, <1>2, <2>1 DEF Moves
<1>4. CASE read' = Ask(read, Cancel(o), "absence") /\ UNCHANGED <<asg, cmd>>
  <2>1. ASSUME NEW v \in Writes, v[1] # "cancel" PROVE cmd'[v] = cmd[v] /\ read'[v] = read[v]
    <3>1. v # Cancel(o)
      BY <2>1, OrderWrites
    <3> QED
      BY <1>4, <3>1, Known1 DEF Ask
  <2> QED
    BY <1>1, <1>3, <1>4, <2>1, BesideAddsGoes
<1>5. CASE /\ cmd' = Cancelled(cmd, {Add(o)}, Active) /\ read' = read
           /\ asg' = [asg EXCEPT ![o] = IF @ \in {"pending", "error"} THEN "canceled" ELSE @]
  <2> DEFINE own == {Add(o)}
  <2>1. Deliver \notin own /\ Create \notin own
    BY OrderWrites
  <2>2. cmd' = Cancelled(cmd, own, Active) /\ Active \in SUBSET Open
    BY <1>5 DEF Active, Open
  <2> HIDE DEF own
  <2>3. ASSUME NEW v \in Writes
        PROVE  (cmd'[v].st # "none" => cmd[v].st # "none") /\ (v \notin own => cmd'[v] = cmd[v])
    BY <2>2, CancelledCommand, Known1 DEF Open
  <2>4. cmd'[Create] = cmd[Create] /\ cmd'[Deliver] = cmd[Deliver]
    BY <2>1, <2>3, SupplyWrites
  <2>5. Turns
    BY <1>1, <2>4 DEF Turns, Quiet
  <2>6. ASSUME NEW p \in Orders PROVE Adds(p)
    <3>1. cmd'[Add(p)].st # "none" => cmd[Add(p)].st # "none"
      BY <2>3, OrderWrites
    <3>2. asg'[p] \in {asg[p], "canceled"}
      BY <1>5, Known1
    <3> QED
      BY <1>5, <3>1, <3>2 DEF Adds, Started
  <2>7. Goes
    BY <1>1, <1>3, <2>5, <2>6, QuietBrings DEF Goes
  <2>8. Aside
    BY <1>1, <1>5, <2>4 DEF Aside
  <2> QED
    BY <2>7, <2>8, AsideStep DEF Kept
<1> QED
  BY <1>1, <1>4, <1>5

LEMMA ReturnWaveGoes ==
  ASSUME Tables, Fits, Course, ReturnWave
  PROVE  Kept
<1> DEFINE own == {Add(o) : o \in Orders}
<1>1. /\ \A o \in Orders : ord[o] = "picked"
      /\ ord' = [o \in Orders |-> "exception"]
      /\ asg' = [o \in Orders |-> IF asg[o] = "none" THEN "none" ELSE "canceled"]
      /\ cmd' = Cancelled(cmd, own, Open) /\ read' = Cancelled(read, own, Open)
      /\ Quiet /\ UNCHANGED <<batch, kiz>>
  BY DEF ReturnWave, wbVars, Quiet
<1>2. Deliver \notin own /\ Create \notin own
  BY OrderWrites
<1> HIDE DEF own
<1>3. ASSUME NEW v \in Writes
      PROVE  /\ cmd'[v].st # "none" => cmd[v].st # "none"
             /\ read'[v].at = read[v].at /\ read'[v].ans = read[v].ans
             /\ v \notin own => cmd'[v] = cmd[v] /\ read'[v] = read[v]
  <2>1. cmd \in [Writes -> Command] /\ cmd' = Cancelled(cmd, own, Open)
    BY <1>1, Known1
  <2>2. read \in [Writes -> ReadRow] /\ read' = Cancelled(read, own, Open)
    BY <1>1, Known1
  <2>3. (cmd'[v].st # "none" => cmd[v].st # "none") /\ (v \notin own => cmd'[v] = cmd[v])
    BY <2>1, CancelledCommand DEF Open
  <2>4. read'[v].ans = read[v].ans /\ (v \notin own => read'[v] = read[v])
    BY <2>2, CancelledRead
  <2>5. read'[v].at = read[v].at
    BY <2>2, CancelledAt
  <2> QED
    BY <2>3, <2>4, <2>5
<1>4. /\ cmd'[Create] = cmd[Create] /\ read'[Create] = read[Create]
      /\ cmd'[Deliver] = cmd[Deliver] /\ read'[Deliver] = read[Deliver]
  BY <1>2, <1>3, SupplyWrites
<1>5. Turns
  BY <1>1, <1>4 DEF Turns, Quiet
<1>6. \A p \in Orders : ord[p] = "picked" /\ ord'[p] = "exception"
  BY <1>1
<1>7. ASSUME NEW p \in Orders PROVE Moves(p) /\ Adds(p)
  <2>1. /\ cmd'[Add(p)].st # "none" => cmd[Add(p)].st # "none"
        /\ read'[Add(p)].at = read[Add(p)].at /\ read'[Add(p)].ans = read[Add(p)].ans
    BY <1>3, OrderWrites
  <2>2. asg'[p] \in {asg[p], "canceled"}
    BY <1>1
  <2> QED
    BY <1>6, <2>1, <2>2 DEF Moves, Adds, Started
<1>8. Goes
  BY <1>1, <1>5, <1>7, QuietBrings DEF Goes
<1>9. Aside
  BY <1>1, <1>4 DEF Aside
<1> QED
  BY <1>8, <1>9, AsideStep DEF Kept

\* A delivery is requested only over orders that are confirmed and ready, and
\* never beside one that is on its way out or whose wave was returned.
LEMMA RequestDeliveryGoes ==
  ASSUME Tables, Fits, Course, RequestDelivery
  PROVE  Kept /\ Course'
<1>1. /\ batch.st \in {"open", "ready"} /\ Composed /\ Quiet
      /\ cmd' = Enqueue(cmd, Deliver)
      /\ UNCHANGED <<asg, ord, ret, kiz, read>>
  BY DEF RequestDelivery, people, wbVars, Quiet
<1>2. PICK p \in Orders : asg[p] \notin {"none", "canceled", "moved"}
  BY <1>1 DEF Composed
<1>3. \A o \in Orders : /\ ret[o].st \notin {"waiting", "failed"}
                        /\ asg[o] \notin {"none", "canceled", "moved"} =>
                             asg[o] = "confirmed" /\ ord[o] \in {"ready", "handed"}
  BY <1>1 DEF Composed
<1>4. asg[p] = "confirmed" /\ ord[p] \in {"ready", "handed"} /\ batch.known
  BY <1>2, <1>3, CourseIs DEF Traced, Started
<1>5. /\ \A v \in Writes : v # Deliver => cmd'[v] = cmd[v]
      /\ cmd'[Deliver] = cmd[Deliver] \/ (cmd[Deliver].st = "none" /\ cmd'[Deliver].st = "pending")
      /\ cmd'[Deliver].ans = cmd[Deliver].ans
  <2>1. cmd \in [Writes -> Command]
    BY Known1
  <2> QED
    BY <1>1, <2>1, SupplyWrites DEF Enqueue, Command
<1>6. /\ batch'.st = "ready" /\ batch'.known = batch.known
      /\ batch'.mk = CASE cmd[Deliver].st = "confirmed" -> "complete"
                       [] cmd[Deliver].st = "failed" -> "error"
                       [] OTHER -> "delivery_pending"
  BY Known1 DEF RequestDelivery, Batch
<1>7. Goes
  <2>1. Turns
    BY <1>1, <1>6 DEF Turns, Quiet
  <2>2. ASSUME NEW o \in Orders PROVE Moves(o) /\ Adds(o)
    <3>1. cmd'[Add(o)] = cmd[Add(o)]
      BY <1>5, OrderWrites
    <3> QED
      BY <1>1, <3>1 DEF Moves, Adds, Started
  <2> QED
    BY <1>1, <2>1, <2>2, QuietBrings DEF Goes
<1>8. cmd'[Create] = cmd[Create]
  BY <1>5, SupplyWrites
<1>9. DeskOK(batch', cmd'[Create], read'[Create], cmd'[Deliver], read'[Deliver])
  BY <1>1, <1>4, <1>5, <1>6, <1>8, DeskIs DEF DeskOK, Open
<1>10. Desk'
  <2>1. ASSUME NEW o \in Orders, kiz'[o] = "rejected"
        PROVE  cmd'[Deliver].st = "conflict" /\ read'[Deliver].st = "none"
    BY <1>1, <1>5, <2>1, DeskIs
  <2> QED
    BY <1>9, <2>1 DEF Desk
<1>11. Shut'
  <2>1. cmd'[Deliver].st = "confirmed" => cmd[Deliver].st = "confirmed"
    BY <1>5
  <2>2. batch'.mk = "complete" => supply'.closed
    BY <1>1, <1>6, DeskIs DEF Shut, Quiet
  <2> QED
    BY <1>1, <1>5, <1>7, <2>1, <2>2, ShutStep
<1>12. ASSUME NEW o \in Orders PROVE Traced(o)'
  <2>1. Traced(o) /\ asg[o] # "moved" /\ ret[o].gap # "wave" /\ cmd'[Add(o)] = cmd[Add(o)]
    <3>1. Traced(o)
      BY CourseIs
    <3>2. cmd'[Add(o)] = cmd[Add(o)]
      BY <1>5, OrderWrites
    <3> QED
      BY <1>1, <1>4, <3>1, <3>2 DEF Traced
  <2>2. ASSUME ~supply.closed, InSupply(o)
        PROVE  ord[o] = "ready"
    <3>1. ord[o] # "exception"
      <4>1. ret[o].st = "queued" => ret[o].gap = "wave"
        BY <2>2, FitsAre DEF OrderFits
      <4>2. ret[o].st # "queued"
        BY <2>1, <4>1
      <4>3. ret[o] \in Return
        BY Known1
      <4>4. ret[o].st = "none"
        BY <1>3, <4>2, <4>3 DEF Return
      <4> QED
        BY <4>4, FitsAre DEF OrderFits
    <3>2. asg[o] # "canceled"
      BY <3>1, Known1 DEF OrderOK
    <3>3. asg[o] # "none"
      BY <2>1, <2>2, <3>1, FitsAre DEF Traced, AddFits
    <3>4. ord[o] # "handed"
      BY <2>2, DeskIs DEF Shut
    <3> QED
      BY <1>3, <2>1, <3>2, <3>3, <3>4
  <2>3. InSupply(o)' <=> InSupply(o)
    BY <1>1 DEF Quiet, InSupply
  <2>4. Started(o)' <=> Started(o)
    BY <1>1, <2>1 DEF Started
  <2> QED
    BY <1>1, <1>6, <2>1, <2>2, <2>3, <2>4 DEF Traced, Quiet
<1>13. \A o \in Orders : Reached(o)'
  BY <1>7, ReachedStep
<1>14. \E o \in Orders : ord'[o] # "picked"
  BY <1>1, <1>4
<1>15. Course'
  BY <1>10, <1>11, <1>12, <1>13, <1>14 DEF Course
<1> QED
  BY <1>7, <1>10, <1>11, <1>15 DEF Kept

-----------------------------------------------------------------------------
\* Wildberries, the buyers and the seller.
Carries(w, as) ==
  /\ supply.closed => supply'.closed
  /\ supply'.closed => supply.closed \/ w = Deliver
  /\ w = Deliver => supply'.closed
  /\ \A o \in Orders : place'[o] = place[o] \/ (w = Add(o) /\ place'[o] = as)
  /\ dead \subseteq dead'

LEMMA CarriesIs ==
  ASSUME Rest, NEW w \in Writes, NEW as, Carry(w, as)
  PROVE  Carries(w, as)
<1>1. /\ supply' = CASE w[1] = "create" -> [supply EXCEPT !.made = @ + 1]
                     [] w[1] = "deliver" -> [supply EXCEPT !.closed = TRUE]
                     [] OTHER -> supply
      /\ place' = IF w[1] = "add" THEN [place EXCEPT ![w[2]] = as] ELSE place
      /\ dead' = IF w[1] = "cancel" THEN dead \cup {w[2]} ELSE dead
  BY DEF Carry
<1>2. /\ w = Deliver => w[1] = "deliver"
      /\ w[1] = "deliver" => w = Deliver
  <2>1. CASE \E o \in Orders : w = Add(o) \/ w = Cancel(o)
    BY <2>1, OrderWrites
  <2> QED
    BY <2>1, WriteCases, SupplyWrites
<1>3. /\ supply.closed => supply'.closed
      /\ supply'.closed => supply.closed \/ w = Deliver
      /\ w = Deliver => supply'.closed
  <2>1. supply \in [made : Nat, closed : BOOLEAN, gone : BOOLEAN]
    BY DEF Rest
  <2>2. CASE w[1] = "create"
    BY <1>1, <1>2, <2>1, <2>2
  <2>3. CASE w[1] = "deliver"
    BY <1>1, <1>2, <2>1, <2>3
  <2>4. CASE w[1] \notin {"create", "deliver"}
    BY <1>1, <1>2, <2>4
  <2> QED
    BY <2>2, <2>3, <2>4
<1>4. ASSUME NEW o \in Orders PROVE place'[o] = place[o] \/ (w = Add(o) /\ place'[o] = as)
  <2>1. CASE w[1] = "add"
    <3>1. w[2] \in Orders /\ w = Add(w[2])
      BY <2>1, AddsAre
    <3>2. place' = [place EXCEPT ![w[2]] = as]
      BY <1>1, <2>1
    <3> DEFINE p == w[2]
    <3>3. p \in Orders /\ w = Add(p) /\ place' = [place EXCEPT ![p] = as]
      BY <3>1, <3>2
    <3> HIDE DEF p
    <3> QED
      BY <3>3 DEF Rest
  <2>2. CASE w[1] # "add"
    BY <1>1, <2>2
  <2> QED
    BY <2>1, <2>2
<1> QED
  BY <1>1, <1>3, <1>4 DEF Carries

LEMMA AnsweredGoes ==
  ASSUME Tables, Rest, Fits, Course, NEW w \in Writes, cmd[w].ans = "asked",
         NEW ans \in {"ok", "unclear", "refused", "kiz"}, cmd' = [cmd EXCEPT ![w].ans = ans],
         UNCHANGED <<batch, asg, ord, ret, read, view>>,
         Carry(w, "here") \/ Ignore, w = Deliver /\ ans = "ok" => Carry(w, "here"),
         \A o \in Orders : kiz'[o] = "rejected" => kiz[o] = "rejected"
  PROVE  Kept
<1> DEFINE x == [cmd[w] EXCEPT !.ans = ans]
<1>1. x.st = cmd[w].st /\ x.ans = ans /\ cmd' = [cmd EXCEPT ![w] = x]
  BY Known1 DEF Command
<1> HIDE DEF x
<1>2. /\ \A v \in Writes : v # w => cmd'[v] = cmd[v]
      /\ cmd'[w] = x
  BY <1>1, Known1
<1>3. \A v \in Writes : cmd'[v].st = cmd[v].st
  BY <1>1, <1>2
<1>4. Carries(w, "here") \/ Ignore
  BY CarriesIs
<1>5. w = Deliver => cmd[Deliver].st # "none"
  BY SupplyWrites, Known1 DEF RowOK, Held
<1>6. Turns
  <2>1. /\ supply.closed => supply'.closed
        /\ supply'.closed => supply.closed \/ cmd[Deliver].st # "none"
    BY <1>4, <1>5 DEF Carries, Ignore
  <2>2. cmd'[Deliver].st = cmd[Deliver].st
    BY <1>3, SupplyWrites
  <2> QED
    BY <2>1, <2>2 DEF Turns
<1>7. ASSUME NEW o \in Orders PROVE Moves(o) /\ Adds(o) /\ Brings(o)
  <2>1. cmd'[Add(o)].st = cmd[Add(o)].st
    BY <1>3, OrderWrites
  <2>2. Moves(o) /\ Adds(o)
    BY <2>1 DEF Moves, Adds, Started
  <2>3. /\ place'[o] = place[o] \/ (w = Add(o) /\ place'[o] = "here")
        /\ dead \subseteq dead'
    BY <1>4 DEF Carries, Ignore
  <2>4. Brings(o)
    BY <2>3 DEF Brings, InSupply
  <2> QED
    BY <2>2, <2>4
<1>8. Goes
  BY <1>6, <1>7 DEF Goes
<1>9. /\ cmd'[Deliver].st = cmd[Deliver].st /\ cmd'[Create].st = cmd[Create].st
      /\ cmd'[Deliver].ans = "ok" => cmd[Deliver].ans = "ok" \/ supply'.closed
  <2>1. w = Deliver /\ ans = "ok" => supply'.closed
    BY CarriesIs DEF Carries
  <2> QED
    BY <1>1, <1>2, <1>3, <2>1, SupplyWrites
<1>10. Desk'
  <2>1. DeskOK(batch', cmd'[Create], read'[Create], cmd'[Deliver], read'[Deliver])
    BY <1>9, DeskIs DEF DeskOK
  <2> QED
    BY <1>9, <2>1, DeskIs DEF Desk
<1>11. Shut'
  <2>1. cmd'[Deliver].st = "confirmed" => cmd[Deliver].st = "confirmed"
    BY <1>9
  <2> QED
    BY <1>8, <1>9, <2>1, ShutStep
<1> QED
  BY <1>8, <1>10, <1>11 DEF Kept

LEMMA LandGoes ==
  ASSUME Tables, Rest, Fits, Course, NEW w \in Writes, Land(w) \/ Lose(w)
  PROVE  Kept
<1>1. cmd[w].ans = "asked" /\ UNCHANGED <<batch, asg, ord, ret, read, view>>
  BY DEF Land, Lose, people
<1>2. \A o \in Orders : kiz'[o] = "rejected" => kiz[o] = "rejected"
  BY DEF Land, Lose, people
<1>3. ~Carriable(w) => Refusals(w) \subseteq {"ok", "unclear", "refused"}
  <2>1. CASE \E o \in Orders : w = Add(o)
    BY <2>1, OrderWrites DEF Refusals
  <2>2. CASE \E o \in Orders : w = Cancel(o)
    BY <2>2, OrderWrites DEF Refusals
  <2>3. CASE w = Deliver
    BY <2>3, SupplyWrites DEF Refusals
  <2>4. CASE w = Create
    BY <2>4, SupplyWrites DEF Carriable
  <2> QED
    BY <2>1, <2>2, <2>3, <2>4, WriteCases
<1>4. ~Carriable(Deliver) => "ok" \notin Refusals(Deliver)
  BY SupplyWrites DEF Refusals
<1>5. PICK ans \in {"ok", "unclear", "refused", "kiz"} :
        /\ cmd' = [cmd EXCEPT ![w].ans = ans]
        /\ Carry(w, "here") \/ Ignore
        /\ w = Deliver /\ ans = "ok" => Carry(w, "here")
  <2>1. CASE Carry(w, "here") /\ \E a \in {"ok", "unclear"} : cmd' = [cmd EXCEPT ![w].ans = a]
    BY <2>1
  <2>2. CASE /\ Ignore
             /\ \E a \in IF Carriable(w) THEN {"unclear"} ELSE Refusals(w) :
                  cmd' = [cmd EXCEPT ![w].ans = a]
    BY <1>3, <1>4, <2>2
  <2>3. CASE Ignore /\ cmd' = [cmd EXCEPT ![w].ans = "kiz"]
    BY <2>3
  <2>4. CASE /\ Ignore
             /\ \E a \in IF w[1] \in {"add", "cancel"} THEN {"ok", "unclear"} ELSE {"unclear"} :
                  cmd' = [cmd EXCEPT ![w].ans = a]
    BY <2>4, SupplyWrites
  <2> QED
    BY <2>1, <2>2, <2>3, <2>4 DEF Land, Lose
<1> QED
  BY <1>1, <1>2, <1>5, AnsweredGoes

LEMMA LandLateGoes ==
  ASSUME Tables, Rest, Told, Course, NEW w \in Writes, LandLate(w)
  PROVE  Kept
<1>1. /\ UNCHANGED <<batch, asg, ord, ret, kiz, cmd, read, view>> /\ w \in late
      /\ Carry(w, "late") \/ Ignore
  BY DEF LandLate, people
<1>2. Carries(w, "late") \/ Ignore
  BY <1>1, CarriesIs
<1>3. w = Deliver => cmd[Deliver].st # "none"
  BY <1>1 DEF Told
<1>4. ASSUME NEW o \in Orders PROVE Moves(o) /\ Brings(o)
  <2>1. /\ place'[o] = place[o] \/ place'[o] = "late"
        /\ dead \subseteq dead'
    BY <1>2 DEF Carries, Ignore
  <2> QED
    BY <1>1, <2>1 DEF Moves, Brings, InSupply
<1>5. /\ supply.closed => supply'.closed
      /\ supply'.closed => supply.closed \/ cmd[Deliver].st # "none"
  BY <1>2, <1>3 DEF Carries, Ignore
<1> QED
  BY <1>1, <1>4, <1>5, StayGoes

LEMMA OthersGo ==
  ASSUME Rest, Course,
         (\E o \in Orders : ClientCancels(o) \/ SellerMoves(o)) \/ SellerDeletes \/ UNCHANGED vars
  PROVE  Kept
<1>1. UNCHANGED <<batch, asg, ord, ret, kiz, cmd, read, view>> /\ dead \subseteq dead'
  BY DEF ClientCancels, SellerMoves, SellerDeletes, people, wbVars, vars
<1>2. supply'.closed = supply.closed
  BY DEF ClientCancels, SellerMoves, SellerDeletes, people, wbVars, vars, Rest
<1>3. ASSUME NEW o \in Orders PROVE Moves(o) /\ Brings(o)
  <2>1. place'[o] = place[o] \/ place'[o] = "elsewhere"
    BY DEF ClientCancels, SellerMoves, SellerDeletes, people, wbVars, vars, Rest
  <2> QED
    BY <1>1, <2>1 DEF Moves, Brings, InSupply
<1> QED
  BY <1>1, <1>2, <1>3, StayGoes

-----------------------------------------------------------------------------
\* Every step keeps to the course.
LEMMA GoesStep ==
  ASSUME Tables, Rest, Fits, Told, Course, [Next]_vars
  PROVE  Kept
<1>1. ASSUME NEW w \in Writes, Writing(w) \/ AskWb(w) \/ ReadFailed(w)
      PROVE  Kept
  BY <1>1, ClaimGoes, LandGoes, LandLateGoes, AcceptedGoes, UnclearGoes, RefusedGoes, AskWbGoes,
     ReadFailedGoes DEF Writing
<1>2. ASSUME NEW o \in Orders, Readings(o)
      PROVE  Kept
  BY <1>2, AskAgainGoes, SupplyClosedGoes, SupplyMissingGoes, MemberGoes,
     LocatedGoes, StillThereGoes, HasLeftGoes DEF Readings
<1>3. ASSUME NEW o \in Orders, Controllers(o)
      PROVE  Kept
  BY <1>3, PackGoes, FixCodeGoes, RetryExclusionGoes, ReportProblemGoes, ExcludeGoes
     DEF Controllers
<1>4. ASSUME NEW o \in Orders,
             Assign(o) \/ Schedule(o) \/ ClientCancels(o) \/ SellerMoves(o) \/ Import(o)
      PROVE  Kept
  BY <1>4, AssignGoes, ImportGoes, OthersGo
<1>5. CASE \/ CodesRefused \/ Found \/ NotFound \/ IsDelivered \/ NotDelivered
           \/ RequestDelivery \/ Dispatch \/ ReturnWave
  BY <1>5, CodesRefusedGoes, FoundGoes, NotFoundGoes, IsDeliveredGoes,
     RequestDeliveryGoes, DispatchGoes, ReturnWaveGoes
<1>6. CASE Sync \/ Reconcile \/ Survey \/ SellerDeletes \/ UNCHANGED vars
  BY <1>6, SyncGoes, OthersGo
<1> QED
  BY <1>1, <1>2, <1>3, <1>4, <1>5, <1>6 DEF Next

LEMMA CourseStep ==
  ASSUME Tables, Rest, Fits, Told, Course, [Next]_vars
  PROVE  Course'
<1>1. Kept
  BY GoesStep
<1>2. CASE RequestDelivery
  BY <1>2, RequestDeliveryGoes
<1>3. CASE ~RequestDelivery
  <2>1. Goes /\ Desk' /\ Shut'
    BY <1>1 DEF Kept
  <2>2. \A o \in Orders : Reached(o)' /\ Traced(o)'
    BY <1>3, <2>1, ReachedStep, TracedStep
  <2>3. cmd'[Deliver].st # "none" => \E o \in Orders : ord'[o] # "picked"
    BY <1>3, <2>1, PackedStep
  <2> QED
    BY <2>1, <2>2, <2>3 DEF Course
<1> QED
  BY <1>2, <1>3

LEMMA CourseInit == Init => Course
<1> SUFFICES ASSUME Init PROVE Course
  OBVIOUS
<1>1. /\ NoCommand.st = "none" /\ NoCommand.ans = "none"
      /\ NoReturn.st = "none" /\ NoReturn.gap = "none" /\ NoView.seen = {}
  BY DEF NoCommand, NoReturn, NoView
<1>2. /\ batch.st = "open" /\ batch.mk = "draft" /\ ~batch.known
      /\ cmd[Create] = NoCommand /\ cmd[Deliver] = NoCommand
      /\ read[Create] = NoRead /\ read[Deliver] = NoRead
  BY SupplyWrites DEF Init
<1>3. Desk
  BY <1>1, <1>2, EmptyRead DEF Init, Desk, DeskOK, Open
<1>4. Shut
  BY <1>1, <1>2, EmptyRead DEF Init, Shut
<1>5. ASSUME NEW o \in Orders PROVE Reached(o) /\ Traced(o)
  <2>1. /\ cmd[Add(o)] = NoCommand /\ read[Add(o)] = NoRead /\ asg[o] = "none"
        /\ ord[o] = "picked" /\ ret[o] = NoReturn /\ view.seen = {}
    BY <1>1, OrderWrites DEF Init
  <2> QED
    BY <1>1, <1>2, <2>1, EmptyRead DEF Reached, Traced, Started
<1> QED
  BY <1>1, <1>2, <1>3, <1>4, <1>5 DEF Course

LEMMA CourseInvariance == Spec => [](Invariant /\ Fits /\ Told /\ Course)
<1>1. Invariant /\ Fits /\ Told /\ Course /\ [Next]_vars => Course'
  BY CourseStep DEF Invariant
<1> QED
  BY <1>1, CourseInit, PlacesInvariance, PTL DEF Spec

\* WB closes the supply over live orders only that were labelled, packed and
\* checked, or excluded while the delivery was stopped; and an order is handed
\* over only when its supply is closed and WB has had the order
\* (request_wb_handover_delivery, dispatch_handover_batch).
THEOREM HandoverShippedAsVerified == Spec => ShippedAsVerified
<1>1. ASSUME Invariant, Fits, Told, Course, [Next]_vars
      PROVE  /\ supply'.closed /\ ~supply.closed =>
                  \A o \in Orders : place[o] = "here" /\ o \notin dead =>
                    ord[o] = "ready" \/ ret[o].gap = "delivery"
             /\ \A o \in Orders : ord'[o] = "handed" /\ ord[o] # "handed" =>
                  supply.closed /\ (place[o] # "free" \/ o \in dead)
  <2>1. Goes
    BY <1>1, GoesStep DEF Invariant, Kept
  <2>2. ASSUME supply'.closed, ~supply.closed, NEW o \in Orders, place[o] = "here", o \notin dead
        PROVE  ord[o] = "ready" \/ ret[o].gap = "delivery"
    <3>1. cmd[Deliver].st # "none"
      BY <2>1, <2>2 DEF Goes, Turns
    <3>2. Traced(o)
      BY <1>1, CourseIs
    <3> QED
      BY <2>2, <3>1, <3>2 DEF Traced, InSupply
  <2>3. ASSUME NEW o \in Orders, ord'[o] = "handed", ord[o] # "handed"
        PROVE  supply.closed /\ place[o] # "free"
    <3>1. Moves(o) /\ Reached(o)
      BY <1>1, <2>1, CourseIs DEF Goes
    <3> QED
      BY <2>3, <3>1 DEF Moves, Reached
  <2> QED
    BY <2>2, <2>3
<1> QED
  BY <1>1, CourseInvariance, PTL DEF Spec, ShippedAsVerified

-----------------------------------------------------------------------------
(***************************************************************************)
(* Who waits is waited upon (PendingIsUnderWay): a step that confirms or   *)
(* fails the add of an order also takes its assignment out of pending, and *)
(* one that confirms the create makes the supply known.                    *)
(***************************************************************************)
Clean(c) == \A w \in Writes :
  w[1] \in {"create", "add"} /\ c[w].st = "confirmed" => cmd[w].st = "confirmed"

Calm(c) == Clean(c) /\ \A w \in Writes :
  w[1] = "add" /\ c[w].st = "failed" => cmd[w].st = "failed"

Waits ==
  /\ cmd'[Create].st = "confirmed" => cmd[Create].st = "confirmed" \/ batch'.known
  /\ \A o \in Orders : asg'[o] = "pending" =>
       /\ asg[o] \in {"none", "pending"}
       /\ cmd'[Add(o)].st \in {"confirmed", "failed"} => cmd'[Add(o)].st = cmd[Add(o)].st

LEMMA CalmWaits ==
  ASSUME Calm(cmd'), \A o \in Orders : asg'[o] = "pending" => asg[o] \in {"none", "pending"}
  PROVE  Waits
<1>1. Create \in Writes /\ Create[1] = "create"
  BY SupplyWrites
<1>2. \A o \in Orders : Add(o) \in Writes /\ Add(o)[1] = "add"
  BY OrderWrites
<1>3. cmd'[Create].st = "confirmed" => cmd[Create].st = "confirmed"
  BY <1>1 DEF Calm, Clean
<1>4. ASSUME NEW o \in Orders, cmd'[Add(o)].st \in {"confirmed", "failed"}
      PROVE  cmd'[Add(o)].st = cmd[Add(o)].st
  BY <1>2, <1>4 DEF Calm, Clean
<1> QED
  BY <1>3, <1>4 DEF Waits

\* What a transaction commits: an add that failed is no longer waited for.
LEMMA CommitWaits ==
  ASSUME NEW b \in Batch, NEW a, NEW c, NEW r, NEW conclusive, Commit(b, a, c, r, conclusive),
         c[Create].st = "confirmed" => cmd[Create].st = "confirmed" \/ b.known,
         \A o \in Orders : a[o] = "pending" =>
           /\ asg[o] = "pending"
           /\ c[Add(o)].st = "confirmed" => cmd[Add(o)].st = "confirmed"
  PROVE  Waits
<1> DEFINE New(old, new, w) == new[w].st = "failed" /\ old[w].st # "failed"
           lost == {o \in Orders : New(cmd, c, Add(o)) /\ a[o] # "moved"}
<1>1. /\ cmd' = c
      /\ asg' = [o \in Orders |-> IF o \in lost THEN "error" ELSE a[o]]
      /\ batch' = b \/ batch' = [b EXCEPT !.mk = "error"]
  BY DEF Commit
<1>2. batch'.known = b.known
  BY <1>1 DEF Batch
<1>3. ASSUME NEW o \in Orders, asg'[o] = "pending"
      PROVE  /\ asg[o] = "pending"
             /\ cmd'[Add(o)].st \in {"confirmed", "failed"} => cmd'[Add(o)].st = cmd[Add(o)].st
  <2>1. a[o] = "pending" /\ o \notin lost
    BY <1>1, <1>3
  <2>2. c[Add(o)].st = "failed" => cmd[Add(o)].st = "failed"
    BY <2>1
  <2> HIDE DEF lost
  <2> QED
    BY <1>1, <2>1, <2>2
<1> HIDE DEF New, lost
<1> QED
  BY <1>1, <1>2, <1>3 DEF Waits

LEMMA CleanCommit ==
  ASSUME NEW b \in Batch, NEW c, NEW r, NEW conclusive, Commit(b, asg, c, r, conclusive), Clean(c)
  PROVE  Waits
<1>1. Create \in Writes /\ Create[1] = "create"
  BY SupplyWrites
<1>2. \A o \in Orders : Add(o) \in Writes /\ Add(o)[1] = "add"
  BY OrderWrites
<1>3. c[Create].st = "confirmed" => cmd[Create].st = "confirmed" \/ b.known
  BY <1>1 DEF Clean
<1>4. \A o \in Orders : c[Add(o)].st = "confirmed" => cmd[Add(o)].st = "confirmed"
  BY <1>2 DEF Clean
<1> QED
  BY <1>3, <1>4, CommitWaits

\* The operations on commands: what they confirm and fail.
LEMMA OneClean ==
  ASSUME NEW w \in Writes, NEW x, NEW c, c = [cmd EXCEPT ![w] = x],
         cmd \in [Writes -> Command]
  PROVE  /\ (x.st \in {"confirmed", "failed"} => x.st = cmd[w].st) => Calm(c)
         /\ w[1] \notin {"create", "add"} => Calm(c)
         /\ x.st # "confirmed" => Clean(c)
<1>1. c[w] = x /\ \A v \in Writes : v # w => c[v] = cmd[v]
  OBVIOUS
<1> QED
  BY <1>1 DEF Calm, Clean

LEMMA TablesCalm ==
  ASSUME Tables, NEW w \in Writes
  PROVE  /\ Calm(cmd) /\ Calm(Enqueue(cmd, w))
         /\ \A st \in Statuses \ {"confirmed", "failed"} : Calm(Settle(cmd, w, st))
         /\ Calm(Settle(cmd, w, cmd[w].st))
         /\ Clean(Settle(cmd, w, "failed"))
         /\ w[1] \notin {"create", "add"} =>
              /\ Calm(Confirm(cmd, w))
              /\ \A c \in {Confirmed(w), Retried(w), Failed(w)} : Calm(c)
         /\ Clean(Retried(w)) /\ Clean(Failed(w))
<1>1. cmd \in [Writes -> Command] /\ cmd[w].st \in Statuses
  BY Known1 DEF Command
<1>2. Calm(cmd)
  BY DEF Calm, Clean
<1>3. Calm(Enqueue(cmd, w))
  <2>1. \A v \in Writes : Enqueue(cmd, w)[v].st \in {cmd[v].st, "pending"}
    BY <1>1, EnqueuedRow
  <2> QED
    BY <2>1 DEF Calm, Clean
<1>4. ASSUME NEW st \in Statuses
      PROVE  /\ (st \in {"confirmed", "failed"} => st = cmd[w].st) => Calm(Settle(cmd, w, st))
             /\ w[1] \notin {"create", "add"} => Calm(Settle(cmd, w, st))
             /\ st # "confirmed" => Clean(Settle(cmd, w, st))
  <2>1. PICK x, c : x = Settle(cmd, w, st)[w] /\ c = Settle(cmd, w, st)
    OBVIOUS
  <2>2. c = [cmd EXCEPT ![w] = x] /\ x.st = st
    BY <1>1, <2>1, SettledCommand
  <2>3. /\ (st \in {"confirmed", "failed"} => st = cmd[w].st) => Calm(c)
        /\ w[1] \notin {"create", "add"} => Calm(c)
        /\ st # "confirmed" => Clean(c)
    BY <1>1, <2>2, OneClean
  <2> QED
    BY <2>1, <2>3
<1>5. Calm(Settle(cmd, w, cmd[w].st)) /\ Clean(Settle(cmd, w, "failed"))
  BY <1>1, <1>4 DEF Statuses
<1>6. ASSUME w[1] \notin {"create", "add"}, NEW c \in {Confirmed(w), Retried(w), Failed(w)}
      PROVE  Calm(c)
  <2>1. PICK x : x = c[w]
    OBVIOUS
  <2>2. c = [cmd EXCEPT ![w] = x]
    BY <1>6, <2>1, VerdictRow
  <2> QED
    BY <1>1, <1>6, <2>2, OneClean
<1>7. w[1] \notin {"create", "add"} => Calm(Confirm(cmd, w))
  <2>1. PICK x : x = [NoCommand EXCEPT !.st = "confirmed"]
    OBVIOUS
  <2>2. PICK c : c = Confirm(cmd, w)
    OBVIOUS
  <2>3. c = [cmd EXCEPT ![w] = x]
    BY <2>1, <2>2 DEF Confirm
  <2> QED
    BY <1>1, <2>2, <2>3, OneClean
<1>8. ASSUME NEW c \in {Retried(w), Failed(w)} PROVE Clean(c)
  <2>1. c = cmd \/ c = Settle(cmd, w, "retry") \/ c = Settle(cmd, w, "failed")
    BY <1>8 DEF Retried, Failed, RetryOrFailed
  <2>2. {"retry", "failed"} \subseteq Statuses
    BY DEF Statuses
  <2>3. Clean(Settle(cmd, w, "retry")) /\ Clean(Settle(cmd, w, "failed"))
    BY <1>4, <2>2
  <2> QED
    BY <1>2, <2>1, <2>3 DEF Calm
<1> QED
  BY <1>2, <1>3, <1>4, <1>5, <1>6, <1>7, <1>8

\* A supply that was made is known, and its orders are scheduled.
LEMMA MadeWaits ==
  ASSUME Tables, NEW c \in {Confirm(cmd, Create), Confirmed(Create)}, NEW r,
         Commit(Known, asg, Scheduling(c, OrdersAdded), r, FALSE)
  PROVE  Waits
<1>1. Known \in Batch /\ Known.known
  BY Known1 DEF Known, Batch
<1>2. c \in [Writes -> Command] /\ \A o \in Orders : c[Add(o)] = cmd[Add(o)]
  <2>1. PICK x : x = [NoCommand EXCEPT !.st = "confirmed"]
    OBVIOUS
  <2>2. c = [cmd EXCEPT ![Create] = x] \/ c = cmd
    BY <2>1 DEF Confirmed, Confirm
  <2>3. x \in Command
    BY <2>1 DEF NoCommand, Command, Statuses
  <2> QED
    BY <2>2, <2>3, Known1, OrderWrites, SupplyWrites
<1>3. ASSUME NEW o \in Orders, Scheduling(c, OrdersAdded)[Add(o)].st = "confirmed"
      PROVE  cmd[Add(o)].st = "confirmed"
  <2>1. \/ Scheduling(c, OrdersAdded)[Add(o)] = Enqueue(c, Add(o))[Add(o)]
        \/ Scheduling(c, OrdersAdded)[Add(o)] = c[Add(o)]
    BY OrderWrites DEF Scheduling
  <2>2. Enqueue(c, Add(o))[Add(o)].st \in {c[Add(o)].st, "pending"}
    BY <1>2, OrderWrites, EnqueuedRow
  <2> QED
    BY <1>2, <1>3, <2>1, <2>2
<1>4. PICK t : t = Scheduling(c, OrdersAdded)
  OBVIOUS
<1> QED
  BY <1>1, <1>3, <1>4, CommitWaits

LEMMA CancelledCalm ==
  ASSUME NEW c \in [Writes -> Command], Calm(c), NEW writes, NEW sts \in SUBSET Open
  PROVE  Calm(Cancelled(c, writes, sts))
<1>1. ASSUME NEW w \in Writes
      PROVE  Cancelled(c, writes, sts)[w].st \in {c[w].st, "cancelled"}
  BY CancelledCommand
<1> QED
  BY <1>1 DEF Calm, Clean

LEMMA WritesWait ==
  ASSUME Tables, NEW w \in Writes, Writing(w) \/ AskWb(w) \/ ReadFailed(w)
  PROVE  Waits
<1>0. /\ \A st \in {"cancelled", "conflict"} : Calm(Settle(cmd, w, st))
      /\ batch \in Batch /\ cmd \in [Writes -> Command]
  BY TablesCalm, Known1 DEF Statuses
<1>1. CASE Claim(w)
  <2>1. CASE cmd' = [cmd EXCEPT ![w] = [st |-> "sent", tries |-> @.tries + 1, ans |-> "asked"]] /\ asg' = asg
    <3>1. PICK x : x = [st |-> "sent", tries |-> cmd[w].tries + 1, ans |-> "asked"]
      OBVIOUS
    <3>2. x.st = "sent" /\ cmd' = [cmd EXCEPT ![w] = x]
      BY <2>1, <3>1
    <3>3. Calm(cmd')
      BY <1>0, <3>2, OneClean
    <3> QED
      BY <2>1, <3>3, CalmWaits
  <2>2. CASE w[1] = "add" /\ cmd' = Settle(cmd, w, "cancelled")
             /\ asg' = [asg EXCEPT ![w[2]] = IF @ \in {"pending", "error"} THEN "canceled" ELSE @]
    <3>1. \A o \in Orders : asg'[o] = "pending" => asg[o] = "pending"
      BY <2>2, Known1
    <3> QED
      BY <1>0, <2>2, <3>1, CalmWaits
  <2>3. CASE Commit(batch, asg, Settle(cmd, w, "failed"), read, TRUE)
    BY <1>0, <2>3, TablesCalm, CleanCommit
  <2> QED
    BY <1>1, <2>1, <2>2, <2>3 DEF Claim
<1>2. CASE Land(w) \/ Lose(w)
  <2>1. PICK a : cmd' = [cmd EXCEPT ![w].ans = a] /\ asg' = asg
    BY <1>2 DEF Land, Lose, people
  <2>2. PICK x : x = [cmd[w] EXCEPT !.ans = a]
    OBVIOUS
  <2>3. x.st = cmd[w].st /\ cmd' = [cmd EXCEPT ![w] = x]
    BY <1>0, <2>1, <2>2 DEF Command
  <2>4. Calm(cmd')
    BY <1>0, <2>3, OneClean
  <2> QED
    BY <2>1, <2>4, CalmWaits
<1>3. CASE LandLate(w) \/ AskWb(w)
  <2>1. cmd' = cmd /\ asg' = asg
    BY <1>3 DEF LandLate, AskWb
  <2> QED
    BY <2>1, TablesCalm, CalmWaits
<1>4. CASE Deferred(w)
  BY <1>0, <1>4, CleanCommit DEF Deferred, Calm
<1>5. CASE Unclear(w) \/ Refused(w)
  <2>1. Deferred(w) \/ Commit(batch, asg, Settle(cmd, w, "failed"), read, FALSE)
    BY <1>5 DEF Unclear, Refused
  <2> QED
    BY <1>0, <1>4, <2>1, TablesCalm, CleanCommit
<1>6. CASE Accepted(w)
  <2>1. w = Create \/ w = Deliver \/ w[1] \in {"add", "cancel"}
    BY WriteCases, OrderWrites
  <2>2. CASE w = Create
    <3>1. Commit(Known, asg, Scheduling(Confirm(cmd, Create), OrdersAdded), read, FALSE)
      BY <1>6, <2>2, SupplyWrites DEF Accepted
    <3> QED
      BY <3>1, MadeWaits
  <2>3. CASE w = Deliver
    <3>1. cmd' = Confirm(cmd, w) /\ asg' = asg
      BY <1>6, <2>3, SupplyWrites DEF Accepted, Delivered
    <3>2. Calm(Confirm(cmd, w))
      BY <2>3, SupplyWrites, TablesCalm
    <3> QED
      BY <3>1, <3>2, CalmWaits
  <2>4. CASE w[1] \in {"add", "cancel"}
    <3>1. Deferred(w) \/ Commit(batch, asg, Settle(cmd, w, cmd[w].st), read, FALSE)
      BY <1>6, <2>4, SupplyWrites DEF Accepted
    <3>2. Clean(Settle(cmd, w, cmd[w].st))
      BY TablesCalm DEF Calm
    <3> QED
      BY <1>0, <1>4, <3>1, <3>2, CleanCommit
  <2> QED
    BY <2>1, <2>2, <2>3, <2>4
<1>7. CASE ReadFailed(w)
  <2>1. PICK r, c : Commit(batch, asg, c, r, FALSE) /\ c \in {Retried(w), cmd}
    BY <1>7 DEF ReadFailed
  <2>2. Clean(c)
    BY <2>1, TablesCalm DEF Calm
  <2> QED
    BY <1>0, <2>1, <2>2, CleanCommit
<1> QED
  BY <1>1, <1>2, <1>3, <1>5, <1>6, <1>7 DEF Writing

LEMMA ReadingsWait ==
  ASSUME Tables, NEW o \in Orders, Readings(o)
  PROVE  Waits
<1>0. Add(o) \in Writes /\ Cancel(o) \in Writes /\ Cancel(o)[1] = "cancel" /\ batch \in Batch
  BY OrderWrites, Known1
<1>1. CASE SupplyOpen(o) \/ NoMember(o) \/ Located(o) \/ StillThere(o)
  <2>1. PICK c, r, conclusive : /\ Commit(batch, asg, c, r, conclusive)
                                /\ c \in {cmd, Failed(Add(o)), Retried(Add(o))}
    BY <1>1 DEF SupplyOpen, NoMember, Located, StillThere
  <2>2. Clean(c)
    BY <1>0, <2>1, TablesCalm DEF Calm
  <2> QED
    BY <1>0, <2>1, <2>2, CleanCommit
<1>2. CASE SupplyClosed(o)
  <2>1. PICK b : b = [batch EXCEPT !.mk = "complete"]
    OBVIOUS
  <2>2. b \in Batch
    BY <1>0, <2>1 DEF Batch
  <2>3. Commit(b, asg, Failed(Add(o)), Done(Add(o)), FALSE)
    BY <1>2, <2>1 DEF SupplyClosed
  <2> QED
    BY <1>0, <2>2, <2>3, TablesCalm, CleanCommit
<1>3. CASE SupplyMissing(o)
  <2>1. PICK moved : asg' = [x \in Orders |-> IF x \in moved THEN "moved" ELSE asg[x]]
    BY <1>3 DEF SupplyMissing
  <2>2. \A w \in Writes : cmd'[w] \in {NoCommand, cmd[w]}
    BY <1>3 DEF SupplyMissing
  <2>3. NoCommand.st = "none"
    BY DEF NoCommand
  <2>4. Calm(cmd')
    BY <2>2, <2>3 DEF Calm, Clean
  <2>5. \A p \in Orders : asg'[p] = "pending" => asg[p] = "pending"
    BY <2>1
  <2> QED
    BY <2>4, <2>5, CalmWaits
<1>4. CASE Member(o)
  <2>1. PICK a, c, r, conclusive :
          /\ Commit(batch, a, c, r, conclusive)
          /\ a = [asg EXCEPT ![o] = "confirmed"] /\ c = Confirmed(Add(o))
    BY <1>4 DEF Member
  <2>2. \A w \in Writes : w # Add(o) => c[w] = cmd[w]
    BY <1>0, <2>1, VerdictRow, Known1
  <2>3. c[Create].st = "confirmed" => cmd[Create].st = "confirmed" \/ batch.known
    BY <2>2, SupplyWrites, OrderWrites
  <2>4. ASSUME NEW p \in Orders, a[p] = "pending"
        PROVE  asg[p] = "pending" /\ c[Add(p)] = cmd[Add(p)]
    <3>1. p # o /\ asg[p] = "pending"
      BY <2>1, <2>4, Known1
    <3>2. Add(p) # Add(o)
      BY <3>1, OrderWrites
    <3> QED
      BY <2>2, <3>1, <3>2, OrderWrites
  <2>5. \A p \in Orders : a[p] = "pending" =>
          /\ asg[p] = "pending"
          /\ c[Add(p)].st = "confirmed" => cmd[Add(p)].st = "confirmed"
    BY <2>4
  <2>6. Commit(batch, a, c, r, conclusive)
    BY <2>1
  <2>7. batch \in Batch
    BY <1>0
  <2> QED
    BY ONLY <2>3, <2>5, <2>6, <2>7, CommitWaits
<1>5. CASE HasLeft(o)
  <2>1. /\ cmd' = Cancelled(Confirmed(Cancel(o)), {Add(o)}, Open)
        /\ asg' = [asg EXCEPT ![o] = "canceled"]
    BY <1>5 DEF HasLeft
  <2>2. Confirmed(Cancel(o)) \in [Writes -> Command]
    <3>1. PICK w, c : w \in Writes /\ w = Cancel(o) /\ c = Confirmed(w)
      BY <1>0
    <3>2. c = [cmd EXCEPT ![w] = c[w]] /\ c[w] \in Command
      BY <3>1, VerdictRow
    <3> QED
      BY <3>1, <3>2, Known1
  <2>3. Calm(Confirmed(Cancel(o)))
    BY <1>0, TablesCalm
  <2>4. Calm(cmd')
    BY <2>1, <2>2, <2>3, CancelledCalm
  <2>5. \A p \in Orders : asg'[p] = "pending" => asg[p] = "pending"
    BY <2>1, Known1
  <2> QED
    BY <2>4, <2>5, CalmWaits
<1> QED
  BY <1>1, <1>2, <1>3, <1>4, <1>5 DEF Readings

LEMMA OrdersWait ==
  ASSUME Tables, NEW o \in Orders,
         Assign(o) \/ Schedule(o) \/ Controllers(o) \/ ClientCancels(o) \/ SellerMoves(o) \/ Import(o)
  PROVE  Waits
<1>1. /\ Add(o) \in Writes /\ Cancel(o) \in Writes /\ Create \in Writes /\ Deliver \in Writes
      /\ "retry" \in Statuses \ {"confirmed", "failed"}
  BY OrderWrites, SupplyWrites DEF Statuses
<1>2. CASE Assign(o) \/ Schedule(o)
  <2>1. cmd' = Enqueue(cmd, Add(o)) \/ cmd' = Enqueue(cmd, Create)
    BY <1>2 DEF Assign, Schedule, Scheduled
  <2>2. \A p \in Orders : asg'[p] = "pending" => asg[p] \in {"none", "pending"}
    BY <1>2, Known1 DEF Assign, Schedule
  <2>3. Calm(cmd')
    BY <1>1, <2>1, TablesCalm
  <2> QED
    BY <2>2, <2>3, CalmWaits
<1>3. CASE (TakeOut(o, TRUE) \/ TakeOut(o, FALSE) \/ cmd' = cmd) /\ asg' = asg
  <2>1. cmd' = Enqueue(cmd, Cancel(o)) \/ cmd' = cmd
    BY <1>3 DEF TakeOut
  <2>2. Calm(cmd')
    BY <1>1, <2>1, TablesCalm
  <2> QED
    BY <1>3, <2>2, CalmWaits
<1>4. CASE RetryExclusion(o) \/ FixCode(o)
  <2>1. cmd' \in {cmd, Settle(cmd, Cancel(o), "retry"), Settle(cmd, Deliver, "retry")} /\ asg' = asg
    BY <1>4 DEF RetryExclusion, FixCode
  <2>2. Calm(cmd')
    BY <1>1, <2>1, TablesCalm
  <2> QED
    BY <2>1, <2>2, CalmWaits
<1>5. CASE ReportProblem(o)
  <2>1. cmd' = cmd \/ cmd' = Cancelled(cmd, {Add(o)}, Active)
    BY <1>5 DEF ReportProblem
  <2>2. Active \in SUBSET Open
    BY DEF Active, Open
  <2>3. Calm(cmd')
    BY <1>1, <2>1, <2>2, TablesCalm, CancelledCalm, Known1
  <2>4. asg' = asg \/ asg' = [asg EXCEPT ![o] = IF @ \in {"pending", "error"} THEN "canceled" ELSE @]
    BY <1>5 DEF ReportProblem
  <2>5. \A p \in Orders : asg'[p] = "pending" => asg[p] = "pending"
    BY <2>4, Known1
  <2> QED
    BY <2>3, <2>5, CalmWaits
<1>6. CASE Pack(o) \/ ClientCancels(o) \/ SellerMoves(o)
  <2>1. cmd' = cmd /\ asg' = asg
    BY <1>6 DEF Pack, ClientCancels, SellerMoves
  <2> QED
    BY <1>1, <2>1, TablesCalm, CalmWaits
<1>7. CASE Import(o) \/ \E client \in BOOLEAN : Exclude(o, client)
  BY <1>3, <1>7 DEF Import, Exclude
<1> QED
  BY <1>2, <1>4, <1>5, <1>6, <1>7 DEF Controllers

LEMMA BatchWait ==
  ASSUME Tables,
         \/ CodesRefused \/ Found \/ NotFound \/ IsDelivered \/ NotDelivered
         \/ Sync \/ Survey \/ Reconcile \/ RequestDelivery \/ Dispatch \/ ReturnWave
         \/ SellerDeletes \/ UNCHANGED vars
  PROVE  Waits
<1>1. /\ Create \in Writes /\ Deliver \in Writes /\ Deliver[1] = "deliver"
      /\ "conflict" \in Statuses \ {"confirmed", "failed"} /\ batch \in Batch
  BY SupplyWrites, Known1 DEF Statuses
<1>2. CASE CodesRefused
  <2>1. PICK b : b = [batch EXCEPT !.mk = "error"]
    OBVIOUS
  <2>2. b \in Batch
    BY <1>1, <2>1 DEF Batch
  <2>3. Commit(b, asg, Settle(cmd, Deliver, "conflict"), read, FALSE)
    BY <1>2, <2>1 DEF CodesRefused
  <2>4. Clean(Settle(cmd, Deliver, "conflict"))
    BY <1>1, TablesCalm DEF Calm
  <2> QED
    BY <2>2, <2>3, <2>4, CleanCommit
<1>3. CASE NotFound \/ NotDelivered
  <2>1. PICK c, r : Commit(batch, asg, c, r, FALSE) /\ c \in {Retried(Create), Retried(Deliver)}
    BY <1>3 DEF NotFound, NotDelivered
  <2>2. Clean(c)
    BY <1>1, <2>1, TablesCalm
  <2> QED
    BY <1>1, <2>1, <2>2, CleanCommit
<1>4. CASE Found
  <2>1. Commit(Known, asg, Scheduling(Confirmed(Create), OrdersAdded), Done(Create), FALSE)
    BY <1>4 DEF Found
  <2> QED
    BY <2>1, MadeWaits
<1>5. CASE IsDelivered \/ RequestDelivery
  <2>1. cmd' \in {Confirmed(Deliver), Enqueue(cmd, Deliver)} /\ asg' = asg
    BY <1>5 DEF IsDelivered, Delivered, RequestDelivery
  <2>2. Calm(cmd')
    BY <1>1, <2>1, TablesCalm
  <2> QED
    BY <2>1, <2>2, CalmWaits
<1>6. CASE ReturnWave
  <2>1. cmd' = Cancelled(cmd, {Add(o) : o \in Orders}, Open)
    BY <1>6 DEF ReturnWave
  <2>2. \A o \in Orders : asg'[o] # "pending"
    BY <1>6 DEF ReturnWave
  <2>3. Calm(cmd')
    BY <1>1, <2>1, TablesCalm, CancelledCalm, Known1
  <2> QED
    BY <2>2, <2>3, CalmWaits
<1>7. CASE Sync \/ Survey \/ Reconcile \/ Dispatch \/ SellerDeletes \/ UNCHANGED vars
  <2>1. cmd' = cmd
    BY <1>7 DEF Sync, Survey, Reconcile, Dispatch, SellerDeletes, vars
  <2>2. asg' = asg \/ \E seen : asg' = Reconciled(seen)
    BY <1>7 DEF Sync, Survey, Reconcile, Dispatch, SellerDeletes, vars
  <2>3. \A o \in Orders : asg'[o] = "pending" => asg[o] = "pending"
    BY <2>2 DEF Reconciled
  <2> QED
    BY <1>1, <2>1, <2>3, TablesCalm, CalmWaits
<1> QED
  BY <1>2, <1>3, <1>4, <1>5, <1>6, <1>7

LEMMA WaitsStep ==
  ASSUME Tables, [Next]_vars
  PROVE  Waits
  BY WritesWait, ReadingsWait, OrdersWait, BatchWait DEF Next

Waited ==
  /\ cmd[Create].st = "confirmed" => batch.known
  /\ \A o \in Orders : asg[o] = "pending" /\ ord[o] = "picked" =>
       cmd[Add(o)].st \notin {"confirmed", "failed"}

LEMMA WaitedStep ==
  ASSUME Tables, Rest, Fits, Told, Course, Waited, [Next]_vars
  PROVE  Waited'
<1>1. Waits /\ Turns /\ \A o \in Orders : Moves(o)
  BY WaitsStep, GoesStep DEF Kept, Goes
<1>2. cmd'[Create].st = "confirmed" => batch'.known
  BY <1>1 DEF Waits, Waited, Turns
<1>3. ASSUME NEW o \in Orders, asg'[o] = "pending", ord'[o] = "picked",
             cmd'[Add(o)].st \in {"confirmed", "failed"}
      PROVE  FALSE
  <2>1. ord[o] = "picked"
    BY <1>1, <1>3 DEF Moves
  <2>2. asg[o] \in {"none", "pending"} /\ cmd[Add(o)].st \in {"confirmed", "failed"}
    BY <1>1, <1>3 DEF Waits
  <2>3. asg[o] = "none" => cmd[Add(o)].st = "none"
    BY CourseIs DEF Traced
  <2> QED
    BY <2>1, <2>2, <2>3 DEF Waited
<1> QED
  BY <1>2, <1>3 DEF Waited

\* A picked order that waits for its supply waits for a command that can still
\* act, its add or the create of a supply not known yet, unless the readback of
\* that command's doubt was given up or the create failed for good: then
\* _enqueue_handover_spec, which never repeats a key, leaves it waiting.
THEOREM HandoverPendingIsUnderWay == Spec => []PendingIsUnderWay
<1>1. Init => Waited
  <2>1. NoCommand.st = "none"
    BY DEF NoCommand
  <2> QED
    BY <2>1, OrderWrites, SupplyWrites DEF Init, Waited
<1>2. Invariant /\ Fits /\ Told /\ Course /\ Waited /\ [Next]_vars => Waited'
  BY WaitedStep DEF Invariant
<1>3. ASSUME Invariant, Waited
      PROVE  PendingIsUnderWay
  <2>1. /\ Create \in Writes /\ Create[1] = "create" /\ Create # Deliver
        /\ cmd[Create].st \in Statuses
        /\ RowOK(Create, cmd[Create], read[Create], batch, asg, ord, kiz)
    BY <1>3, Known1, SupplyWrites DEF Invariant, Command
  <2>2. ~batch.known => Ahead(Create) \/ (InDoubt(Create) /\ GivenUp(Create))
                          \/ cmd[Create].st = "failed"
    BY <1>3, <2>1 DEF Waited, RowOK, Statuses, Ahead, InDoubt, GivenUp, Open
  <2>3. ASSUME NEW o \in Orders, asg[o] = "pending", ord[o] = "picked"
        PROVE  Ahead(Add(o)) \/ (InDoubt(Add(o)) /\ GivenUp(Add(o)))
    <3>1. /\ Add(o) \in Writes /\ Add(o)[1] = "add" /\ Add(o)[2] = o /\ Add(o) # Deliver
          /\ cmd[Add(o)].st \in Statuses
          /\ RowOK(Add(o), cmd[Add(o)], read[Add(o)], batch, asg, ord, kiz)
      BY <1>3, Known1, OrderWrites, SupplyWrites DEF Invariant, Command
    <3>2. cmd[Add(o)].st \notin {"confirmed", "failed"}
      BY <1>3, <2>3 DEF Waited
    <3> QED
      BY <2>3, <3>1, <3>2 DEF RowOK, Statuses, Ahead, InDoubt, GivenUp, Open
  <2> QED
    BY <2>2, <2>3 DEF PendingIsUnderWay
<1> QED
  BY <1>1, <1>2, <1>3, CourseInvariance, PTL DEF Spec

================================================================================
