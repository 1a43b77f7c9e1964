--------------------------- MODULE FbsOzonShipProofs ---------------------------
(***************************************************************************)
(* Proofs about FbsOzonShip.  For workers that answer before their command *)
(* counts as stale: a ship in doubt is always being checked                *)
(* (DoubtIsChecked), and no ship is sent again without that check          *)
(* (NoBlindResend).  For any workers: the command an order needs next is   *)
(* not spent (KeyIsNotSpent).                                              *)
(*                                                                         *)
(* None is inductive.  A doubt is checked because every attempt of the  *)
(* ship has a readback of its own, used up only to order a retry           *)
(* (ReadsInOrder), which needs that nobody but its worker writes a claimed *)
(* row (Held), that what the order and the readbacks know of the posting   *)
(* is at most outdated (PostingKnown), and that no command is claimed      *)
(* beyond its last attempt (AttemptsLeft).  A key is spent only by what it *)
(* achieved (RowsTell), since an answer is true of the posting however     *)
(* late it is written (Remembers).                                         *)
(***************************************************************************)
EXTENDS FbsOzonShip, TLAPS

Row == [st : CommandStatuses, tries : 0..MaxAttempts]
Table == [Commands -> Row]
Tries == cmd[Ship].tries
Busy(w) == pc[w].at # "idle"

\* A claimed command has one worker, and its row says sent.
Held ==
  \A w \in Workers :
    /\ Busy(w) => cmd[pc[w].of].st = "sent"
    /\ ~Busy(w) => pc[w] = Idle
    /\ \A v \in Workers : Busy(w) /\ Busy(v) /\ pc[w].of = pc[v].of => w = v

\* A command that may be claimed has an attempt left.
AttemptsLeft ==
  \A c \in Commands :
    /\ cmd[c].st \in {"none", "pending"} => cmd[c].tries = 0
    /\ cmd[c].st = "retry" => cmd[c].tries < MaxAttempts

\* The readbacks of earlier attempts are confirmed and none is there for a later
\* one; what the ship's status says of the readback of its last attempt.
ReadsInOrder ==
  /\ \A n \in 1..MaxAttempts :
       /\ n < Tries => cmd[Read(n)].st = "confirmed"
       /\ n > Tries => cmd[Read(n)].st = "none"
  /\ cmd[Ship].st = "sent" => Tries > 0 /\ cmd[Read(Tries)].st = "none"
  /\ cmd[Ship].st = "retry" => Tries > 0 /\ cmd[Read(Tries)].st = "confirmed"
  /\ cmd[Ship].st = "conflict" => Tries > 0 /\ cmd[Read(Tries)].st # "none"

\* A posting on its way, and what a readback of it may be answered.
Gone == {"delivering", "cancelled"}
GoneAnswers == Gone \cup {"unclear", "refused"}

\* What the order and the workers know of the posting is true or outdated.
PostingKnown ==
  /\ known = "delivering" => posting \in Gone
  /\ cmd[Read(0)].st # "none" => posting \in Gone
  /\ \A w \in Workers : pc[w].at = "answered" /\ pc[w].of \in Reads =>
       /\ pc[w].answer = "delivering" => posting \in Gone
       /\ pc[w].answer \in {"awaiting_deliver", "cancelled"}
          => posting # "awaiting_packaging"
       /\ pc[w].of = Read(0) => pc[w].answer \in GoneAnswers

Invariant ==
  ShipTypeOK /\ Held /\ AttemptsLeft /\ ReadsInOrder /\ PostingKnown /\ DoubtIsChecked

USE DEF Gone, GoneAnswers

-----------------------------------------------------------------------------
\* Commands with different keys are different.
LEMMA Keys ==
  /\ Ship # Label
  /\ \A n : Read(n) # Ship /\ Read(n) # Label
  /\ \A m, n : Read(m) = Read(n) => m = n
  /\ Ship \in Commands /\ Label \in Commands
  /\ Reads \subseteq Commands
  /\ \A n \in 0..MaxAttempts : Read(n) \in Reads
  /\ \A c \in Commands : c = Ship \/ c = Label \/ \E n \in 0..MaxAttempts : c = Read(n)
  /\ Ship \notin Reads /\ Label \notin Reads
  BY DEF Ship, Label, Read, Reads, Commands

\* What Settle writes: one status, nothing else.
LEMMA SettleWrites ==
  ASSUME NEW t \in Table, NEW c \in Commands, NEW s \in CommandStatuses
  PROVE  /\ Settle(t, c, s) \in Table
         /\ \A d \in Commands :
              /\ Settle(t, c, s)[d].tries = t[d].tries
              /\ Settle(t, c, s)[d].st = IF d = c THEN s ELSE t[d].st
  BY DEF Settle, Table, Row

\* What Enqueue writes: the status of a new command.
LEMMA EnqueueWrites ==
  ASSUME NEW t \in Table, NEW c \in Commands
  PROVE  /\ Enqueue(t, c) \in Table
         /\ \A d \in Commands :
              /\ Enqueue(t, c)[d].tries = t[d].tries
              /\ Enqueue(t, c)[d].st =
                   IF d = c /\ t[c].st = "none" THEN "pending" ELSE t[d].st
  BY DEF Enqueue, Table, Row, CommandStatuses

\* What _set_retry_or_failed writes.
LEMMA RetryWrites ==
  ASSUME NEW t \in Table, NEW c \in Commands
  PROVE  /\ RetryOrFailed(t, c) \in Table
         /\ \A d \in Commands :
              /\ RetryOrFailed(t, c)[d].tries = t[d].tries
              /\ RetryOrFailed(t, c)[d].st =
                   IF d = c
                   THEN IF t[c].tries >= MaxAttempts THEN "failed" ELSE "retry"
                   ELSE t[d].st
  <1> DEFINE s == IF t[c].tries >= MaxAttempts THEN "failed" ELSE "retry"
  <1>1. s \in CommandStatuses
    BY DEF CommandStatuses
  <1>2. RetryOrFailed(t, c) = Settle(t, c, s)
    BY DEF RetryOrFailed
  <1> HIDE DEF s
  <1>3. /\ RetryOrFailed(t, c) \in Table
        /\ \A d \in Commands :
             /\ RetryOrFailed(t, c)[d].tries = t[d].tries
             /\ RetryOrFailed(t, c)[d].st = IF d = c THEN s ELSE t[d].st
    BY <1>1, <1>2, SettleWrites
  <1> QED BY <1>3 DEF s

\* What _defer_ozon_ship_to_readback writes.
LEMMA DeferWrites ==
  ASSUME NEW t \in Table
  PROVE  /\ DeferToReadback(t) \in Table
         /\ \A d \in Commands :
              /\ DeferToReadback(t)[d].tries = t[d].tries
              /\ DeferToReadback(t)[d].st =
                   IF d = Ship THEN "conflict"
                   ELSE IF d = Read(t[Ship].tries) /\ t[d].st = "none"
                        THEN "pending" ELSE t[d].st
  <1> DEFINE u == Settle(t, Ship, "conflict")
  <1>1. /\ u \in Table
        /\ \A d \in Commands : /\ u[d].tries = t[d].tries
                               /\ u[d].st = IF d = Ship THEN "conflict" ELSE t[d].st
    BY SettleWrites, Keys DEF CommandStatuses
  <1>2. t[Ship].tries \in 0..MaxAttempts
    BY Keys DEF Table, Row
  <1>3. Read(t[Ship].tries) \in Commands /\ Read(t[Ship].tries) # Ship
    BY <1>2, Keys
  <1>4. DeferToReadback(t) = Enqueue(u, Read(t[Ship].tries))
    BY DEF DeferToReadback, ReadbackKey
  <1> HIDE DEF u
  <1>5. PICK k \in Commands : k = Read(t[Ship].tries) /\ k # Ship
    BY <1>3
  <1>6. /\ Enqueue(u, k) \in Table
        /\ \A d \in Commands :
             /\ Enqueue(u, k)[d].tries = u[d].tries
             /\ Enqueue(u, k)[d].st = IF d = k /\ u[k].st = "none" THEN "pending" ELSE u[d].st
    BY ONLY <1>1, k \in Commands, EnqueueWrites
  <1>7. /\ DeferToReadback(t) \in Table
        /\ \A d \in Commands :
             /\ DeferToReadback(t)[d].tries = t[d].tries
             /\ DeferToReadback(t)[d].st =
                  IF d = Ship THEN "conflict"
                  ELSE IF d = k /\ t[d].st = "none" THEN "pending" ELSE t[d].st
    BY <1>1, <1>4, <1>5, <1>6
  <1> QED BY <1>5, <1>7

-----------------------------------------------------------------------------
\* The table part of the type invariant, and what it says of the rows.
LEMMA TableTyped ==
  ASSUME ShipTypeOK
  PROVE  cmd \in Table /\ Tries \in 0..MaxAttempts
  BY Keys DEF ShipTypeOK, Table, Row, Tries

\* Before anything is enqueued the invariant holds.
THEOREM InitInvariant ==
  Init => Invariant
  <1> SUFFICES ASSUME Init PROVE Invariant
    OBVIOUS
  <1> USE DEF Init
  <1>1. ShipTypeOK
    <2>1. cmd \in [Commands -> [st : CommandStatuses, tries : 0..MaxAttempts]]
      BY ShipAssumption DEF CommandStatuses, NoCommand
    <2>2. pc \in [Workers -> [at : {"idle", "asking", "answered"}, of : Commands,
               answer : {"none", "done", "unclear", "refused"} \cup PostingStatuses]]
      BY Keys DEF Idle
    <2>3. /\ posting \in PostingStatuses /\ known \in PostingStatuses
          /\ faults \in Nat /\ stalls \in Nat
      BY DEF PostingStatuses
    <2>4. scanned \in BOOLEAN /\ late \in BOOLEAN
      BY Zenon
    <2> QED BY <2>1, <2>2, <2>3, <2>4 DEF ShipTypeOK
  <1>2. \A c \in Commands : cmd[c].st = "none" /\ cmd[c].tries = 0
    BY DEF NoCommand
  <1>3. Held
    BY DEF Held, Busy, Idle
  <1>4. AttemptsLeft
    BY <1>2 DEF AttemptsLeft
  <1>5. \A n \in 0..MaxAttempts : cmd[Read(n)].st = "none"
    BY <1>2, Keys
  <1>6. cmd[Ship].st = "none" /\ cmd[Ship].tries = 0
    BY <1>2, Keys
  <1>7. ReadsInOrder
    BY <1>5, <1>6, ShipAssumption DEF ReadsInOrder, Tries
  <1>8. PostingKnown
    BY <1>5, ShipAssumption DEF PostingKnown, Idle
  <1>9. DoubtIsChecked
    BY <1>6 DEF DoubtIsChecked, ShipInDoubt
  <1> QED BY <1>1, <1>3, <1>4, <1>7, <1>8, <1>9 DEF Invariant

-----------------------------------------------------------------------------
\* Steps of Ozon, of the import and of crashes leave the commands alone; the
\* posting only moves forward.
LEMMA PostingMoves ==
  ASSUME ShipTypeOK,
         MovePosting \/ ShipLate \/ \E w \in Workers : Answer(w) \/ Fail(w)
  PROVE  /\ posting' \in PostingStatuses
         /\ posting \in Gone => posting' \in Gone
         /\ posting # "awaiting_packaging" => posting' # "awaiting_packaging"
  BY DEF ShipTypeOK, PostingStatuses, MovePosting, ShipLate, Answer, Fail, Shipped,
     ozonVars

\* Ozon's own steps and the import.
LEMMA OutsideKeeps ==
  ASSUME Invariant,
         UNCHANGED <<cmd, pc>>,
         MovePosting \/ ShipLate \/ Import
  PROVE  Invariant'
  <1> USE DEF Invariant
  <1>1. /\ posting' \in PostingStatuses
        /\ posting \in Gone => posting' \in Gone
        /\ posting # "awaiting_packaging" => posting' # "awaiting_packaging"
    BY PostingMoves DEF Import, ozonVars, ShipTypeOK
  <1>2. ShipTypeOK'
    BY <1>1 DEF ShipTypeOK, MovePosting, ShipLate, Import, ozonVars, boundVars
  <1>3. Held' /\ AttemptsLeft' /\ ReadsInOrder'
    BY DEF Held, Busy, AttemptsLeft, ReadsInOrder, Tries
  <1>4. known' = "delivering" => posting' \in Gone
    BY <1>1 DEF PostingKnown, Import, MovePosting, ShipLate, ozonVars
  <1>5. PostingKnown'
    BY <1>1, <1>4 DEF PostingKnown
  <1>6. DoubtIsChecked'
    BY <1>1 DEF DoubtIsChecked, ShipInDoubt
  <1> QED BY <1>2, <1>3, <1>5, <1>6

\* Ozon's answers, and calls that fail.
LEMMA AnswersKeep ==
  ASSUME Invariant, NEW w \in Workers,
         Answer(w) \/ Fail(w) \/ ReadOld(w) \/ Refuse(w)
  PROVE  Invariant'
  <1> USE DEF Invariant
  <1>1. /\ posting' \in PostingStatuses
        /\ posting \in Gone => posting' \in Gone
        /\ posting # "awaiting_packaging" => posting' # "awaiting_packaging"
    BY PostingMoves DEF ReadOld, Refuse, ozonVars, ShipTypeOK
  <1>2. /\ UNCHANGED <<cmd, known, label, scanned>>
        /\ pc[w].at = "asking"
        /\ pc[w].of \in Commands
    BY DEF Answer, Fail, ReadOld, Refuse, ShipTypeOK
  <1>3. PICK a \in {"done", "unclear", "refused"} \cup PostingStatuses :
          /\ pc' = [pc EXCEPT ![w].at = "answered", ![w].answer = a]
          /\ pc[w].of \in Reads =>
               \/ a \in {"unclear", "refused"}
               \/ (a = posting /\ posting' = posting)
               \/ (a = "awaiting_packaging" /\ posting = "awaiting_deliver")
    <2>1. CASE Answer(w)
      <3>1. CASE pc[w].of = Ship
        BY <2>1, <3>1, Keys DEF Answer, Answered
      <3>2. CASE pc[w].of \in Reads
        BY <2>1, <3>2, Keys DEF Answer, Answered, ShipTypeOK
      <3>3. CASE pc[w].of = Label
        BY <2>1, <3>3, Keys DEF Answer, Answered
      <3> QED BY <2>1, <3>1, <3>2, <3>3 DEF Answer
    <2>2. CASE Fail(w)
      BY <2>2 DEF Fail, Answered
    <2>3. CASE ReadOld(w)
      BY <2>3 DEF ReadOld, Answered, PostingStatuses
    <2>4. CASE Refuse(w)
      BY <2>4, Keys DEF Refuse, Answered
    <2> QED BY <2>1, <2>2, <2>3, <2>4
  <1>4. /\ pc' \in [Workers -> [at : {"idle", "asking", "answered"}, of : Commands,
                   answer : {"none", "done", "unclear", "refused"} \cup PostingStatuses]]
        /\ \A v \in Workers : v # w => pc'[v] = pc[v]
        /\ pc'[w].at = "answered" /\ pc'[w].of = pc[w].of /\ pc'[w].answer = a
    BY <1>3 DEF ShipTypeOK
  <1>5. ShipTypeOK'
    <2>1. late' \in BOOLEAN
      BY Zenon DEF ShipTypeOK, Answer, Fail, ReadOld, Refuse, ozonVars
    <2>2. faults' \in Nat /\ stalls' \in Nat
      BY DEF ShipTypeOK, Answer, Fail, Fault, ReadOld, Refuse, boundVars
    <2> QED BY <1>1, <1>2, <1>4, <2>1, <2>2 DEF ShipTypeOK
  <1>6. Held'
    BY <1>2, <1>4 DEF Held, Busy
  <1>7. AttemptsLeft' /\ ReadsInOrder'
    BY <1>2 DEF AttemptsLeft, ReadsInOrder, Tries
  <1>8. PostingKnown'
    <2>1. pc[w].of = Read(0) => posting \in Gone
      BY <1>2 DEF Held, Busy, PostingKnown
    <2>2. pc[w].of \in Reads =>
            /\ a = "delivering" => posting' \in Gone
            /\ a \in {"awaiting_deliver", "cancelled"} => posting' # "awaiting_packaging"
            /\ pc[w].of = Read(0) => a \in GoneAnswers
      BY <1>1, <1>3, <2>1
    <2>3. \A v \in Workers : pc'[v].at = "answered" /\ pc'[v].of \in Reads =>
            /\ pc'[v].answer = "delivering" => posting' \in Gone
            /\ pc'[v].answer \in {"awaiting_deliver", "cancelled"}
               => posting' # "awaiting_packaging"
            /\ pc'[v].of = Read(0) => pc'[v].answer \in GoneAnswers
      BY <1>1, <1>4, <2>2 DEF PostingKnown
    <2> QED BY <1>1, <1>2, <2>3 DEF PostingKnown
  <1>9. DoubtIsChecked'
    BY <1>1, <1>2 DEF DoubtIsChecked, ShipInDoubt
  <1> QED BY <1>5, <1>6, <1>7, <1>8, <1>9

\* A worker that dies only forgets.
LEMMA CrashKeeps ==
  ASSUME Invariant, NEW w \in Workers, Crash(w)
  PROVE  Invariant'
  <1> USE DEF Invariant
  <1>1. UNCHANGED <<cmd, posting, known, label, scanned>>
    BY DEF Crash
  <1>2. /\ pc' \in [Workers -> [at : {"idle", "asking", "answered"}, of : Commands,
                   answer : {"none", "done", "unclear", "refused"} \cup PostingStatuses]]
        /\ \A v \in Workers : v # w => pc'[v] = pc[v]
        /\ pc'[w] = Idle /\ pc'[w].at = "idle"
    BY Keys DEF ShipTypeOK, Crash, Idle
  <1>3. ShipTypeOK'
    <2>1. late' \in BOOLEAN
      BY Zenon DEF ShipTypeOK, Crash
    <2>2. faults' \in Nat /\ stalls' \in Nat
      BY DEF ShipTypeOK, Crash, Fault
    <2> QED BY <1>1, <1>2, <2>1, <2>2 DEF ShipTypeOK
  <1>4. Held'
    BY <1>1, <1>2 DEF Held, Busy
  <1>5. AttemptsLeft' /\ ReadsInOrder'
    BY <1>1 DEF AttemptsLeft, ReadsInOrder, Tries
  <1>6. PostingKnown'
    BY <1>1, <1>2 DEF PostingKnown
  <1>7. DoubtIsChecked'
    BY <1>1 DEF DoubtIsChecked, ShipInDoubt
  <1> QED BY <1>3, <1>4, <1>5, <1>6, <1>7

-----------------------------------------------------------------------------
\* Only a row that is not sent may change under a worker's hands: the part of
\* Held that speaks of the table.
LEMMA SentRowsStay ==
  ASSUME Invariant, UNCHANGED pc,
         \A c \in Commands : cmd[c].st = "sent" =>
           \/ cmd'[c].st = "sent"
           \/ \A w \in Workers : Busy(w) => pc[w].of # c
  PROVE  Held'
  BY DEF Invariant, ShipTypeOK, Held, Busy

\* The scheduler adds a command, and the plain readback only for a posting
\* that is on its way.
LEMMA ScheduleKeeps ==
  ASSUME Invariant, Schedule
  PROVE  Invariant'
  <1> USE DEF Invariant
  <1> DEFINE c == NextCommand
  <1>1. /\ c \in {Ship, Label, Read(0)}
        /\ c = Read(0) => known = "delivering"
    BY Keys DEF NextCommand, Schedule, ShipTypeOK, PostingStatuses
  <1>2. /\ c \in Commands /\ cmd[c].st = "none"
        /\ cmd' = Enqueue(cmd, c)
        /\ UNCHANGED <<posting, late, known, label, scanned, pc, faults, stalls>>
    BY <1>1, Keys, ShipAssumption DEF Schedule, ozonVars, boundVars
  <1> HIDE DEF c
  <1>3. /\ cmd' \in Table
        /\ \A d \in Commands :
             /\ cmd'[d].tries = cmd[d].tries
             /\ cmd'[d].st = IF d = c THEN "pending" ELSE cmd[d].st
    BY <1>2, TableTyped, EnqueueWrites
  <1>4. ShipTypeOK'
    BY <1>2, <1>3 DEF ShipTypeOK, Table, Row
  <1>5. Held'
    BY <1>2, <1>3, SentRowsStay
  <1>6. AttemptsLeft'
    BY <1>2, <1>3 DEF AttemptsLeft
  <1>7. \A n \in 1..MaxAttempts : cmd'[Read(n)] = cmd[Read(n)]
    <2>1. \A n \in 1..MaxAttempts : Read(n) \in Commands /\ Read(n) # c
      BY <1>1, Keys
    <2> QED BY <2>1, <1>2, TableTyped, Keys DEF Enqueue, Table
  <1>8. ReadsInOrder'
    <2>1. Tries' = Tries /\ Tries \in 0..MaxAttempts
      BY <1>3, Keys, TableTyped DEF Tries
    <2>2. cmd'[Ship].st = cmd[Ship].st \/ cmd'[Ship].st = "pending"
      BY <1>3, Keys
    <2> QED BY <1>7, <2>1, <2>2 DEF ReadsInOrder
  <1>9. PostingKnown'
    <2>1. cmd'[Read(0)].st # "none" => posting \in Gone
      BY <1>1, <1>3, Keys, ShipAssumption DEF PostingKnown
    <2> QED BY <1>2, <2>1 DEF PostingKnown
  <1>10. DoubtIsChecked'
    <2>1. cmd'[Ship].st = "conflict" => cmd[Ship].st = "conflict"
      BY <1>3, Keys
    <2>2. cmd[Ship].st = "conflict" => Tries \in 1..MaxAttempts
      BY TableTyped DEF ReadsInOrder
    <2>3. Tries' = Tries
      BY <1>3, Keys DEF Tries
    <2> QED BY <1>2, <1>7, <2>1, <2>2, <2>3 DEF DoubtIsChecked, ShipInDoubt, Tries
  <1> QED BY <1>4, <1>5, <1>6, <1>8, <1>9, <1>10

\* A claim counts an attempt; one of the ship opens the place of its readback.
LEMMA ClaimKeeps ==
  ASSUME Invariant, NEW w \in Workers, NEW c \in Commands, Claim(w, c)
  PROVE  Invariant'
  <1> USE DEF Invariant
  <1>1. /\ pc[w] = Idle /\ cmd[c].st \in Active
        /\ cmd' = [cmd EXCEPT ![c] = [st |-> "sent", tries |-> cmd[c].tries + 1]]
        /\ pc' = [pc EXCEPT ![w] = [at |-> "asking", of |-> c, answer |-> "none"]]
        /\ UNCHANGED <<posting, late, known, label, scanned, faults, stalls>>
    BY DEF Claim, ozonVars, boundVars
  <1>2. cmd[c].tries + 1 \in 1..MaxAttempts
    BY <1>1, ShipAssumption DEF AttemptsLeft, Active, ShipTypeOK
  <1>3. /\ cmd' \in Table
        /\ cmd'[c].st = "sent" /\ cmd'[c].tries = cmd[c].tries + 1
        /\ \A d \in Commands : d # c => cmd'[d] = cmd[d]
    BY <1>1, <1>2 DEF ShipTypeOK, Table, Row, CommandStatuses
  <1>4. /\ pc' \in [Workers -> [at : {"idle", "asking", "answered"}, of : Commands,
                   answer : {"none", "done", "unclear", "refused"} \cup PostingStatuses]]
        /\ \A v \in Workers : v # w => pc'[v] = pc[v]
        /\ pc'[w].at = "asking" /\ pc'[w].of = c
    BY <1>1 DEF ShipTypeOK
  <1>5. ShipTypeOK'
    BY <1>1, <1>3, <1>4 DEF ShipTypeOK, Table, Row
  <1>6. Held'
    <2>1. \A v \in Workers : pc[v].at # "idle" => pc[v].of # c /\ pc[v].of \in Commands
      BY <1>1 DEF Held, Busy, Active, ShipTypeOK
    <2> QED BY <1>3, <1>4, <2>1 DEF Held, Busy
  <1>7. AttemptsLeft'
    BY <1>3 DEF AttemptsLeft
  <1>8. ReadsInOrder'
    <2>1. CASE c = Ship
      <3>1. Tries' = Tries + 1 /\ cmd'[Ship].st = "sent" /\ Tries' \in 1..MaxAttempts
        BY <1>2, <1>3, <2>1 DEF Tries
      <3>2. \A n \in 1..MaxAttempts : cmd'[Read(n)] = cmd[Read(n)]
        BY <1>3, <2>1, Keys
      <3>3. Tries > 0 => cmd[Read(Tries)].st = "confirmed"
        BY <1>1, <2>1 DEF Active, AttemptsLeft, ReadsInOrder, Tries
      <3> QED BY <3>1, <3>2, <3>3, TableTyped DEF ReadsInOrder
    <2>2. CASE c # Ship
      <3>1. Tries' = Tries /\ cmd'[Ship] = cmd[Ship] /\ Tries \in 0..MaxAttempts
        BY <1>3, <2>2, Keys, TableTyped DEF Tries
      <3>2. \A n \in 1..MaxAttempts :
              \/ cmd'[Read(n)] = cmd[Read(n)]
              \/ cmd[Read(n)].st \in Active /\ cmd'[Read(n)].st = "sent"
        BY <1>1, <1>3, Keys
      <3> QED BY <3>1, <3>2 DEF ReadsInOrder, Active
    <2> QED BY <2>1, <2>2
  <1>9. PostingKnown'
    <2>1. cmd'[Read(0)].st # "none" => posting \in Gone
      BY <1>1, <1>3, Keys, ShipAssumption DEF PostingKnown, Active
    <2> QED BY <1>1, <1>4, <2>1 DEF PostingKnown
  <1>10. DoubtIsChecked'
    <2>1. cmd'[Ship].st = "conflict" => c # Ship /\ cmd'[Ship] = cmd[Ship]
      BY <1>3, Keys
    <2>2. cmd[Ship].st = "conflict" => Read(cmd[Ship].tries) \in Commands
      BY Keys, TableTyped DEF ReadsInOrder, Tries
    <2> QED BY <1>1, <1>3, <2>1, <2>2 DEF DoubtIsChecked, ShipInDoubt
  <1> QED BY <1>5, <1>6, <1>7, <1>8, <1>9, <1>10

-----------------------------------------------------------------------------
\* Finishing frees the worker; its command leaves the status sent.
LEMMA FinishKeeps ==
  ASSUME Invariant, NEW w \in Workers, pc[w].at = "answered", Finish(w),
         cmd' \in Table,
         \A c \in Commands :
           cmd[c].st = "sent" => cmd'[c].st = "sent" \/ c = pc[w].of
  PROVE  /\ pc' \in [Workers -> [at : {"idle", "asking", "answered"}, of : Commands,
               answer : {"none", "done", "unclear", "refused"} \cup PostingStatuses]]
         /\ \A v \in Workers : v # w => pc'[v] = pc[v]
         /\ pc'[w] = Idle /\ pc'[w].at = "idle"
         /\ Held'
  <1> USE DEF Invariant
  <1>1. /\ pc' \in [Workers -> [at : {"idle", "asking", "answered"}, of : Commands,
               answer : {"none", "done", "unclear", "refused"} \cup PostingStatuses]]
        /\ \A v \in Workers : v # w => pc'[v] = pc[v]
        /\ pc'[w] = Idle /\ pc'[w].at = "idle"
    BY Keys DEF Finish, ShipTypeOK, Idle
  <1>2. \A v \in Workers : Busy(v) /\ v # w => pc[v].of # pc[w].of /\ pc[v].of \in Commands
    BY DEF Held, Busy, ShipTypeOK
  <1>3. Held'
    BY <1>1, <1>2 DEF Held, Busy
  <1> QED BY <1>1, <1>3

\* What is left of the invariant when the worker's memory only shrinks.
LEMMA KnowledgeKept ==
  ASSUME Invariant, NEW w \in Workers,
         \A v \in Workers : v # w => pc'[v] = pc[v],
         pc'[w].at = "idle",
         UNCHANGED posting,
         known' = "delivering" => posting \in Gone,
         cmd'[Read(0)].st # "none" => posting \in Gone
  PROVE  PostingKnown'
  BY DEF Invariant, PostingKnown

\* The outcome of a ship: its readback is added unless Ozon turned it down.
LEMMA ApplyShipKeeps ==
  ASSUME Invariant, NEW w \in Workers, ApplyShip(w)
  PROVE  Invariant'
  <1> USE DEF Invariant
  <1> DEFINE r == Read(Tries)
  <1>1. /\ pc[w].at = "answered" /\ pc[w].of = Ship /\ Finish(w)
        /\ UNCHANGED <<posting, late, known, label, scanned, faults, stalls>>
    BY DEF ApplyShip, Has, ozonVars, boundVars
  <1>2. /\ cmd \in Table /\ Tries \in 1..MaxAttempts
        /\ cmd[Ship].st = "sent" /\ cmd[r].st = "none"
    BY <1>1, TableTyped DEF Held, Busy, ReadsInOrder
  <1>3. r \in Commands /\ r # Ship /\ r # Read(0)
    BY <1>2, Keys
  <1>4. /\ cmd' \in Table
        /\ \A d \in Commands : cmd'[d].tries = cmd[d].tries
        /\ \A d \in Commands : d \notin {Ship, r} => cmd'[d].st = cmd[d].st
        /\ \/ cmd'[Ship].st \in {"confirmed", "conflict"} /\ cmd'[r].st = "pending"
           \/ cmd'[Ship].st = "failed" /\ cmd'[r].st = "none"
    <2>1. CASE cmd' = Enqueue(Settle(cmd, Ship, "confirmed"), r)
      <3> DEFINE u == Settle(cmd, Ship, "confirmed")
      <3>1. /\ u \in Table
            /\ \A d \in Commands : /\ u[d].tries = cmd[d].tries
                                   /\ u[d].st = IF d = Ship THEN "confirmed" ELSE cmd[d].st
        BY <1>2, SettleWrites, Keys DEF CommandStatuses
      <3>2. cmd' = Enqueue(u, r)
        BY <2>1
      <3> HIDE DEF u, r
      <3>3. /\ cmd' \in Table
            /\ \A d \in Commands :
                 /\ cmd'[d].tries = u[d].tries
                 /\ cmd'[d].st = IF d = r /\ u[r].st = "none" THEN "pending"
                                 ELSE u[d].st
        BY <1>3, <3>1, <3>2, EnqueueWrites
      <3> QED BY <1>2, <1>3, <3>1, <3>3, Keys
    <2>2. CASE cmd' = DeferToReadback(cmd)
      <3>1. r = Read(cmd[Ship].tries)
        BY DEF Tries
      <3> HIDE DEF r
      <3> QED BY <1>2, <1>3, <2>2, <3>1, DeferWrites, Keys
    <2>3. CASE cmd' = Settle(cmd, Ship, "failed")
      <3> HIDE DEF r
      <3>1. "failed" \in CommandStatuses
        BY DEF CommandStatuses
      <3>2. /\ cmd' \in Table
            /\ \A d \in Commands : /\ cmd'[d].tries = cmd[d].tries
                                   /\ cmd'[d].st = IF d = Ship THEN "failed" ELSE cmd[d].st
        BY <1>2, <2>3, <3>1, SettleWrites, Keys
      <3> QED BY <1>2, <1>3, <3>2, Keys
    <2> QED BY <2>1, <2>2, <2>3 DEF ApplyShip, ReadbackKey, Tries
  <1> HIDE DEF r
  <1>5. /\ pc' \in [Workers -> [at : {"idle", "asking", "answered"}, of : Commands,
               answer : {"none", "done", "unclear", "refused"} \cup PostingStatuses]]
        /\ \A v \in Workers : v # w => pc'[v] = pc[v]
        /\ pc'[w] = Idle /\ pc'[w].at = "idle"
        /\ Held'
    BY <1>1, <1>2, <1>4, FinishKeeps
  <1>6. ShipTypeOK'
    BY <1>1, <1>4, <1>5 DEF ShipTypeOK, Table, Row
  <1>7. AttemptsLeft'
    BY <1>2, <1>3, <1>4 DEF AttemptsLeft
  <1>8. Tries' = Tries
    BY <1>4, Keys DEF Tries
  <1>9. ReadsInOrder'
    <2>1. \A n \in 1..MaxAttempts : n # Tries => cmd'[Read(n)].st = cmd[Read(n)].st
      <3>1. \A n \in 1..MaxAttempts :
              n # Tries => Read(n) # r /\ Read(n) # Ship /\ Read(n) \in Commands
        BY Keys DEF r
      <3> QED BY <1>4, <3>1
    <2>2. cmd'[Ship].st = "conflict" => cmd'[Read(Tries)].st # "none"
      BY <1>4 DEF r
    <2>3. cmd'[Ship].st \notin {"sent", "retry"}
      BY <1>4
    <2> QED BY <1>2, <1>8, <2>1, <2>2, <2>3 DEF ReadsInOrder
  <1>10. PostingKnown'
    <2>1. cmd'[Read(0)].st = cmd[Read(0)].st
      BY <1>3, <1>4, Keys, ShipAssumption
    <2> QED BY <1>1, <1>5, <2>1, KnowledgeKept DEF PostingKnown
  <1>11. DoubtIsChecked'
    BY <1>4, <1>8 DEF DoubtIsChecked, ShipInDoubt, r, Tries
  <1> QED BY <1>5, <1>6, <1>7, <1>9, <1>10, <1>11

\* The outcome of a label touches no other command.
LEMMA ApplyLabelKeeps ==
  ASSUME Invariant, NEW w \in Workers, ApplyLabel(w)
  PROVE  Invariant'
  <1> USE DEF Invariant
  <1>1. /\ pc[w].at = "answered" /\ pc[w].of = Label /\ Finish(w)
        /\ UNCHANGED <<posting, late, known, scanned, faults, stalls>>
        /\ label' \in {"requested", "ready"}
    BY DEF ApplyLabel, Has, ozonVars, boundVars, ShipTypeOK
  <1>2. cmd \in Table /\ Label \in Commands /\ cmd[Label].st = "sent"
    BY <1>1, TableTyped, Keys DEF Held, Busy
  <1>3. /\ cmd' \in Table
        /\ \A d \in Commands : cmd'[d].tries = cmd[d].tries
        /\ \A d \in Commands : d # Label => cmd'[d].st = cmd[d].st
        /\ cmd'[Label].st \in {"confirmed", "failed", "conflict", "retry"}
        /\ cmd'[Label].st = "retry" => cmd[Label].tries < MaxAttempts
    <2>1. CASE \/ cmd' = Settle(cmd, Label, "confirmed")
               \/ TurnDown(Label)
      <3>1. {"confirmed", "failed", "conflict"} \subseteq CommandStatuses
        BY DEF CommandStatuses
      <3>2. PICK s \in {"confirmed", "failed", "conflict"} : cmd' = Settle(cmd, Label, s)
        BY <2>1 DEF TurnDown
      <3>3. s \in CommandStatuses
        BY <3>1
      <3>4. /\ cmd' \in Table
            /\ \A d \in Commands : /\ cmd'[d].tries = cmd[d].tries
                                   /\ cmd'[d].st = IF d = Label THEN s ELSE cmd[d].st
        BY <1>2, <3>2, <3>3, SettleWrites
      <3> QED BY <1>2, <3>4
    <2>2. CASE cmd' = RetryOrFailed(cmd, Label)
      <3>1. cmd[Label].tries \in Nat
        BY <1>2 DEF Table, Row
      <3> QED BY <1>2, <2>2, <3>1, ShipAssumption, RetryWrites
    <2> QED BY <2>1, <2>2 DEF ApplyLabel
  <1>4. /\ pc' \in [Workers -> [at : {"idle", "asking", "answered"}, of : Commands,
               answer : {"none", "done", "unclear", "refused"} \cup PostingStatuses]]
        /\ \A v \in Workers : v # w => pc'[v] = pc[v]
        /\ pc'[w] = Idle /\ pc'[w].at = "idle"
        /\ Held'
    BY <1>1, <1>3, FinishKeeps
  <1>5. ShipTypeOK'
    BY <1>1, <1>3, <1>4 DEF ShipTypeOK, Table, Row
  <1>6. AttemptsLeft'
    BY <1>3 DEF AttemptsLeft
  <1>7. /\ Tries' = Tries /\ Tries \in 0..MaxAttempts
        /\ cmd'[Ship].st = cmd[Ship].st
        /\ \A n \in 0..MaxAttempts : cmd'[Read(n)].st = cmd[Read(n)].st
    BY <1>3, Keys, TableTyped DEF Tries
  <1>8. ReadsInOrder'
    BY <1>7 DEF ReadsInOrder
  <1>9. PostingKnown'
    <2>1. cmd'[Read(0)].st = cmd[Read(0)].st
      BY <1>7, ShipAssumption
    <2> QED BY <1>1, <1>4, <2>1, KnowledgeKept DEF PostingKnown
  <1>10. DoubtIsChecked'
    BY <1>1, <1>7 DEF DoubtIsChecked, ShipInDoubt, Tries
  <1> QED BY <1>4, <1>5, <1>6, <1>8, <1>9, <1>10

\* Recovery, when only the commands of dead workers are stale.
LEMMA RecoverKeeps ==
  ASSUME Invariant, MaxStalls = 0, NEW c \in Commands, RecoverStale(c)
  PROVE  Invariant'
  <1> USE DEF Invariant
  <1>1. /\ cmd[c].st = "sent"
        /\ \A w \in Workers : ~(pc[w] # Idle /\ pc[w].of = c)
        /\ cmd' = Recovered(c)
        /\ UNCHANGED <<posting, late, known, label, scanned, pc, faults, stalls>>
    BY ShipAssumption DEF RecoverStale, ozonVars, ShipTypeOK
  <1>2. \A w \in Workers : Busy(w) => pc[w].of # c
    BY <1>1, Keys DEF Busy, Idle
  <1>3. cmd \in Table
    BY TableTyped
  <1> DEFINE r == Read(Tries)
  <1>4. c = Ship => /\ Tries \in 1..MaxAttempts /\ cmd[r].st = "none"
                    /\ r \in Commands /\ r # Ship /\ r # Read(0)
    BY <1>1, Keys, TableTyped DEF ReadsInOrder
  <1>5. /\ cmd' \in Table
        /\ \A d \in Commands : cmd'[d].tries = cmd[d].tries
        /\ c = Ship => /\ cmd'[Ship].st = "conflict" /\ cmd'[r].st = "pending"
                       /\ \A d \in Commands : d \notin {Ship, r} => cmd'[d].st = cmd[d].st
        /\ c # Ship => /\ cmd'[c].st \in {"failed", "retry"}
                       /\ cmd'[c].st = "retry" => cmd[c].tries < MaxAttempts
                       /\ \A d \in Commands : d # c => cmd'[d].st = cmd[d].st
    <2>1. CASE c = Ship
      <3>1. r = Read(cmd[Ship].tries) /\ cmd' = DeferToReadback(cmd)
        BY <1>1, <2>1 DEF Recovered, Tries
      <3> HIDE DEF r
      <3> QED BY <1>3, <1>4, <2>1, <3>1, DeferWrites, Keys
    <2>2. CASE c # Ship
      <3>1. cmd' = RetryOrFailed(cmd, c) /\ cmd[c].tries \in Nat
        BY <1>1, <1>3, <2>2 DEF Recovered, Table, Row
      <3> QED BY <1>3, <2>2, <3>1, ShipAssumption, RetryWrites
    <2> QED BY <2>1, <2>2
  <1> HIDE DEF r
  <1>6. ShipTypeOK'
    BY <1>1, <1>5 DEF ShipTypeOK, Table, Row
  <1>7. Held'
    BY <1>1, <1>2, <1>4, <1>5, SentRowsStay
  <1>8. AttemptsLeft'
    BY <1>4, <1>5 DEF AttemptsLeft
  <1>9. Tries' = Tries /\ Tries \in 0..MaxAttempts
    BY <1>5, Keys, TableTyped DEF Tries
  <1>10. ReadsInOrder'
    <2>1. CASE c = Ship
      <3>1. \A n \in 1..MaxAttempts :
              n # Tries => Read(n) # r /\ Read(n) # Ship /\ Read(n) \in Commands
        BY Keys DEF r
      <3>2. \A n \in 1..MaxAttempts : n # Tries => cmd'[Read(n)].st = cmd[Read(n)].st
        BY <1>5, <2>1, <3>1
      <3> QED BY <1>4, <1>5, <1>9, <2>1, <3>2 DEF ReadsInOrder, r
    <2>2. CASE c # Ship
      <3>1. cmd'[Ship].st = cmd[Ship].st
        BY <1>5, <2>2, Keys
      <3>2. \A n \in 1..MaxAttempts :
              \/ cmd'[Read(n)].st = cmd[Read(n)].st
              \/ cmd[Read(n)].st = "sent" /\ cmd'[Read(n)].st \in {"failed", "retry"}
        BY <1>1, <1>5, <2>2, Keys
      <3> QED BY <1>9, <3>1, <3>2 DEF ReadsInOrder
    <2> QED BY <2>1, <2>2
  <1>11. PostingKnown'
    <2>1. cmd'[Read(0)].st # "none" => cmd[Read(0)].st # "none"
      BY <1>1, <1>4, <1>5, Keys, ShipAssumption
    <2> QED BY <1>1, <2>1 DEF PostingKnown
  <1>12. DoubtIsChecked'
    <2>1. CASE c = Ship
      BY <1>5, <1>9, <2>1 DEF DoubtIsChecked, ShipInDoubt, r, Tries
    <2>2. CASE c # Ship
      <3>1. cmd'[Ship].st = cmd[Ship].st
        BY <1>5, <2>2, Keys
      <3>2. \/ cmd'[Read(Tries)].st = cmd[Read(Tries)].st
            \/ cmd'[Read(Tries)].st \in {"failed", "retry"}
        BY <1>5, <1>9, <2>2, Keys
      <3> QED BY <1>1, <1>9, <3>1, <3>2 DEF DoubtIsChecked, ShipInDoubt, Tries
    <2> QED BY <2>1, <2>2
  <1> QED BY <1>6, <1>7, <1>8, <1>10, <1>11, <1>12

\* Two writes in a row, as the readback does.
LEMMA SettleThenEnqueue ==
  ASSUME NEW t \in Table, NEW c \in Commands, NEW d \in Commands, c # d,
         NEW s \in CommandStatuses
  PROVE  /\ Enqueue(Settle(t, c, s), d) \in Table
         /\ \A e \in Commands :
              /\ Enqueue(Settle(t, c, s), d)[e].tries = t[e].tries
              /\ Enqueue(Settle(t, c, s), d)[e].st =
                   IF e = c THEN s
                   ELSE IF e = d /\ t[d].st = "none" THEN "pending" ELSE t[e].st
  <1> DEFINE u == Settle(t, c, s)
  <1>1. /\ u \in Table
        /\ \A e \in Commands : /\ u[e].tries = t[e].tries
                               /\ u[e].st = IF e = c THEN s ELSE t[e].st
    BY SettleWrites
  <1> HIDE DEF u
  <1>2. /\ Enqueue(u, d) \in Table
        /\ \A e \in Commands :
             /\ Enqueue(u, d)[e].tries = u[e].tries
             /\ Enqueue(u, d)[e].st =
                  IF e = d /\ u[d].st = "none" THEN "pending" ELSE u[e].st
    BY <1>1, EnqueueWrites
  <1> QED BY <1>1, <1>2 DEF u

\* A readback that finds the posting waiting frees its ship for a retry.
LEMMA RetryThenSettle ==
  ASSUME NEW t \in Table, NEW c \in Commands, NEW d \in Commands, c # d,
         NEW s \in CommandStatuses
  PROVE  /\ Settle(RetryOrFailed(t, c), d, s) \in Table
         /\ \A e \in Commands :
              /\ Settle(RetryOrFailed(t, c), d, s)[e].tries = t[e].tries
              /\ Settle(RetryOrFailed(t, c), d, s)[e].st =
                   IF e = d THEN s
                   ELSE IF e = c
                        THEN IF t[c].tries >= MaxAttempts THEN "failed" ELSE "retry"
                        ELSE t[e].st
  <1> DEFINE u == RetryOrFailed(t, c)
  <1>1. /\ u \in Table
        /\ \A e \in Commands :
             /\ u[e].tries = t[e].tries
             /\ u[e].st =
                  IF e = c THEN IF t[c].tries >= MaxAttempts THEN "failed" ELSE "retry"
                  ELSE t[e].st
    BY RetryWrites
  <1> HIDE DEF u
  <1>2. /\ Settle(u, d, s) \in Table
        /\ \A e \in Commands :
             /\ Settle(u, d, s)[e].tries = u[e].tries
             /\ Settle(u, d, s)[e].st = IF e = d THEN s ELSE u[e].st
    BY <1>1, SettleWrites
  <1> QED BY <1>1, <1>2 DEF u

\* What a readback writes, and what its worker knew of the posting.
LEMMA ReadWrites ==
  ASSUME Invariant, NEW w \in Workers, NEW c \in Reads, ApplyRead(w, c)
  PROVE  /\ cmd' \in Table
         /\ \A d \in Commands : cmd'[d].tries = cmd[d].tries
         /\ \A d \in Commands : d \notin {c, Ship, Label} => cmd'[d].st = cmd[d].st
         /\ cmd'[Label].st \in {cmd[Label].st, "pending"}
         /\ cmd'[Label].st # cmd[Label].st => cmd[Label].st = "none"
         /\ cmd'[c].st \in {"confirmed", "conflict", "failed", "retry"}
         /\ cmd'[c].st = "retry" => cmd[c].tries < MaxAttempts
         /\ \/ /\ cmd'[Ship].st = cmd[Ship].st
               /\ cmd'[c].st = "confirmed" => posting # "awaiting_packaging"
            \/ /\ cmd[Ship].st = "conflict" /\ cmd'[Ship].st \in {"failed", "retry"}
               /\ cmd'[Ship].st = "retry" => cmd[Ship].tries < MaxAttempts
               /\ cmd'[c].st = "confirmed" /\ c # Read(0)
         /\ known' = "delivering" => posting \in Gone
  <1> USE DEF Invariant
  <1>1. cmd \in Table /\ c \in Commands /\ c # Ship /\ c # Label
    BY TableTyped, Keys
  <1>2. cmd[c].tries \in Nat /\ cmd[Ship].tries \in Nat /\ MaxAttempts \in Nat
    BY <1>1, Keys, ShipAssumption DEF Table, Row
  <1>3. {"confirmed", "conflict"} \subseteq CommandStatuses
    BY DEF CommandStatuses
  <1>4. CASE Has(w, c, "unclear") /\ cmd' = RetryOrFailed(cmd, c) /\ known' = known
    <2>1. /\ cmd' \in Table
          /\ \A d \in Commands :
               /\ cmd'[d].tries = cmd[d].tries
               /\ cmd'[d].st =
                    IF d = c
                    THEN IF cmd[c].tries >= MaxAttempts THEN "failed" ELSE "retry"
                    ELSE cmd[d].st
      BY <1>1, <1>4, RetryWrites
    <2>2. /\ cmd'[c].st \in {"failed", "retry"}
          /\ cmd'[c].st = "retry" => cmd[c].tries < MaxAttempts
      BY <1>1, <1>2, <2>1
    <2>3. known' = "delivering" => posting \in Gone
      BY <1>4 DEF PostingKnown
    <2> QED BY <1>1, <2>1, <2>2, <2>3, Keys
  <1>5. ASSUME NEW status \in PostingStatuses, Has(w, c, status), known' = status
        PROVE  /\ known' = "delivering" => posting \in Gone
               /\ known' \in {"delivering", "awaiting_deliver", "cancelled"}
                  => posting # "awaiting_packaging"
               /\ known' = "awaiting_packaging" => c # Read(0)
    BY <1>5 DEF PostingKnown, Has
  <1>6. ASSUME NEW status \in PostingStatuses, Has(w, c, status), known' = status,
               NEW s \in {"confirmed", "conflict"}, cmd' = Settle(cmd, c, s),
               known' \in {"delivering", "cancelled"}
        PROVE  /\ cmd' \in Table
               /\ \A d \in Commands : /\ cmd'[d].tries = cmd[d].tries
                                      /\ cmd'[d].st = IF d = c THEN s ELSE cmd[d].st
               /\ posting # "awaiting_packaging"
               /\ known' = "delivering" => posting \in Gone
    BY <1>1, <1>3, <1>5, <1>6, SettleWrites
  <1>7. ASSUME NEW status \in PostingStatuses, Has(w, c, status), known' = status,
               known' = "awaiting_packaging",
               cmd' = IF ShipInDoubt THEN Settle(RetryOrFailed(cmd, Ship), c, "confirmed")
                      ELSE RetryOrFailed(cmd, c)
        PROVE  /\ cmd' \in Table
               /\ \A d \in Commands : cmd'[d].tries = cmd[d].tries
               /\ \A d \in Commands : d \notin {c, Ship} => cmd'[d].st = cmd[d].st
               /\ \/ /\ cmd'[Ship].st = cmd[Ship].st
                     /\ cmd'[c].st \in {"failed", "retry"}
                     /\ cmd'[c].st = "retry" => cmd[c].tries < MaxAttempts
                  \/ /\ cmd[Ship].st = "conflict"
                     /\ cmd'[Ship].st \in {"failed", "retry"}
                     /\ cmd'[Ship].st = "retry" => cmd[Ship].tries < MaxAttempts
                     /\ cmd'[c].st = "confirmed" /\ c # Read(0)
    <2>1. CASE ShipInDoubt
      <3>1. "confirmed" \in CommandStatuses /\ c # Read(0)
        BY <1>3, <1>5, <1>7
      <3>2. cmd' = Settle(RetryOrFailed(cmd, Ship), c, "confirmed")
        BY <1>7, <2>1
      <3>3. /\ cmd' \in Table
            /\ \A e \in Commands :
                 /\ cmd'[e].tries = cmd[e].tries
                 /\ cmd'[e].st =
                      IF e = c THEN "confirmed"
                      ELSE IF e = Ship
                           THEN IF cmd[Ship].tries >= MaxAttempts THEN "failed" ELSE "retry"
                           ELSE cmd[e].st
        BY <1>1, <3>1, <3>2, RetryThenSettle, Keys
      <3> QED BY <1>1, <1>2, <2>1, <3>1, <3>3, Keys DEF ShipInDoubt
    <2>2. CASE ~ShipInDoubt
      <3>1. cmd' = RetryOrFailed(cmd, c)
        BY <1>7, <2>2
      <3>2. /\ cmd' \in Table
            /\ \A d \in Commands :
                 /\ cmd'[d].tries = cmd[d].tries
                 /\ cmd'[d].st =
                      IF d = c
                      THEN IF cmd[c].tries >= MaxAttempts THEN "failed" ELSE "retry"
                      ELSE cmd[d].st
        BY <1>1, <3>1, RetryWrites
      <3>3. /\ cmd'[c].st \in {"failed", "retry"}
            /\ cmd'[c].st = "retry" => cmd[c].tries < MaxAttempts
        BY <1>1, <1>2, <3>2
      <3> QED BY <1>1, <3>2, <3>3, Keys
    <2> QED BY <2>1, <2>2
  <1>8. ASSUME NEW status \in PostingStatuses, Has(w, c, status), known' = status,
               known' = "awaiting_deliver",
               cmd' = Enqueue(Settle(cmd, c, "confirmed"), Label)
        PROVE  /\ cmd' \in Table
               /\ \A d \in Commands :
                    /\ cmd'[d].tries = cmd[d].tries
                    /\ cmd'[d].st = IF d = c THEN "confirmed"
                                    ELSE IF d = Label /\ cmd[Label].st = "none"
                                         THEN "pending" ELSE cmd[d].st
               /\ posting # "awaiting_packaging"
    <2>1. "confirmed" \in CommandStatuses
      BY <1>3
    <2>2. /\ cmd' \in Table
          /\ \A d \in Commands :
               /\ cmd'[d].tries = cmd[d].tries
               /\ cmd'[d].st = IF d = c THEN "confirmed"
                               ELSE IF d = Label /\ cmd[Label].st = "none"
                                    THEN "pending" ELSE cmd[d].st
      <3>1. cmd' = Enqueue(Settle(cmd, c, "confirmed"), Label)
        BY <1>8
      <3>2. cmd \in Table /\ c \in Commands /\ Label \in Commands /\ c # Label
        BY <1>1, Keys
      <3>3. PICK s \in CommandStatuses, l \in Commands : s = "confirmed" /\ l = Label
        BY <2>1, <3>2
      <3>4. /\ Enqueue(Settle(cmd, c, s), l) \in Table
            /\ \A d \in Commands :
                 /\ Enqueue(Settle(cmd, c, s), l)[d].tries = cmd[d].tries
                 /\ Enqueue(Settle(cmd, c, s), l)[d].st =
                      IF d = c THEN s
                      ELSE IF d = l /\ cmd[l].st = "none" THEN "pending" ELSE cmd[d].st
        BY ONLY <3>2, <3>3, SettleThenEnqueue
      <3> QED BY ONLY <3>1, <3>3, <3>4
    <2>3. posting # "awaiting_packaging"
      BY <1>5, <1>8
    <2> QED BY <2>2, <2>3
  <1>9. ASSUME NEW status \in PostingStatuses, Has(w, c, status), known' = status
        PROVE  \/ known' \in {"cancelled", "delivering"}
                  /\ \E s \in {"confirmed", "conflict"} : cmd' = Settle(cmd, c, s)
               \/ known' = "awaiting_packaging"
                  /\ cmd' = IF ShipInDoubt
                            THEN Settle(RetryOrFailed(cmd, Ship), c, "confirmed")
                            ELSE RetryOrFailed(cmd, c)
               \/ known' = "awaiting_deliver"
                  /\ cmd' = Enqueue(Settle(cmd, c, "confirmed"), Label)
    <2>1. pc[w].answer = status /\ status \notin {"unclear", "refused"}
      BY <1>9 DEF Has, PostingStatuses
    <2> QED BY <1>9, <2>1 DEF ApplyRead, Has
  <1>10. CASE Has(w, c, "refused") /\ TurnDown(c) /\ known' = known
    <2>1. PICK s \in {"failed", "conflict"} : cmd' = Settle(cmd, c, s)
      BY <1>10 DEF TurnDown
    <2>2. s \in CommandStatuses
      BY DEF CommandStatuses
    <2>3. /\ cmd' \in Table
          /\ \A d \in Commands : /\ cmd'[d].tries = cmd[d].tries
                                 /\ cmd'[d].st = IF d = c THEN s ELSE cmd[d].st
      BY <1>1, <2>1, <2>2, SettleWrites
    <2>4. known' = "delivering" => posting \in Gone
      BY <1>10 DEF PostingKnown
    <2> QED BY <1>1, <2>3, <2>4, Keys
  <1> QED
    <2>1. CASE \E status \in PostingStatuses : Has(w, c, status) /\ known' = status
      <3>1. PICK status \in PostingStatuses : Has(w, c, status) /\ known' = status
        BY <2>1
      <3>2. CASE /\ known' \in {"cancelled", "delivering"}
                 /\ \E s \in {"confirmed", "conflict"} : cmd' = Settle(cmd, c, s)
        BY <1>1, <1>6, <3>1, <3>2, Keys
      <3>3. CASE /\ known' = "awaiting_packaging"
                 /\ cmd' = IF ShipInDoubt
                           THEN Settle(RetryOrFailed(cmd, Ship), c, "confirmed")
                           ELSE RetryOrFailed(cmd, c)
        BY <1>1, <1>7, <3>1, <3>3, Keys
      <3>4. CASE /\ known' = "awaiting_deliver"
                 /\ cmd' = Enqueue(Settle(cmd, c, "confirmed"), Label)
        BY <1>1, <1>8, <3>1, <3>4, Keys
      <3> QED BY <1>9, <3>1, <3>2, <3>3, <3>4
    <2> QED BY <1>4, <1>10, <2>1 DEF ApplyRead

\* The outcome of a readback: it spends itself only when it settles the doubt.
LEMMA ApplyReadKeeps ==
  ASSUME Invariant, NEW w \in Workers, NEW c \in Reads, ApplyRead(w, c)
  PROVE  Invariant'
  <1> USE DEF Invariant
  <1>1. PICK n \in 0..MaxAttempts : c = Read(n)
    BY DEF Reads
  <1>2. c \in Commands /\ c # Ship /\ c # Label /\ Label # Ship
    BY Keys
  <1>3. /\ pc[w].at = "answered" /\ pc[w].of = c /\ Finish(w)
        /\ UNCHANGED <<posting, late, scanned, faults, stalls>>
        /\ label' \in {"requested", "ready"} /\ known' \in PostingStatuses
    BY DEF ApplyRead, Has, ozonVars, boundVars, ShipTypeOK
  <1>4. cmd \in Table /\ Tries \in 0..MaxAttempts /\ cmd[c].st = "sent"
    BY <1>3, TableTyped DEF Held, Busy
  <1>5. /\ n = 0 \/ n = Tries
        /\ n # 0 => cmd[Ship].st \notin {"sent", "retry"}
    BY <1>1, <1>4 DEF ReadsInOrder
  <1>6. /\ cmd' \in Table
        /\ \A d \in Commands : cmd'[d].tries = cmd[d].tries
        /\ \A d \in Commands : d \notin {c, Ship, Label} => cmd'[d].st = cmd[d].st
        /\ cmd'[Label].st \in {cmd[Label].st, "pending"}
        /\ cmd'[Label].st # cmd[Label].st => cmd[Label].st = "none"
        /\ cmd'[c].st \in {"confirmed", "conflict", "failed", "retry"}
        /\ cmd'[c].st = "retry" => cmd[c].tries < MaxAttempts
    BY ReadWrites
  <1>7. \/ /\ cmd'[Ship].st = cmd[Ship].st
           /\ cmd'[c].st = "confirmed" => posting # "awaiting_packaging"
        \/ /\ cmd[Ship].st = "conflict" /\ cmd'[Ship].st \in {"failed", "retry"}
           /\ cmd'[Ship].st = "retry" => cmd[Ship].tries < MaxAttempts
           /\ cmd'[c].st = "confirmed" /\ n = Tries /\ n # 0
    BY <1>1, <1>5, ReadWrites
  <1>8. /\ pc' \in [Workers -> [at : {"idle", "asking", "answered"}, of : Commands,
               answer : {"none", "done", "unclear", "refused"} \cup PostingStatuses]]
        /\ \A v \in Workers : v # w => pc'[v] = pc[v]
        /\ pc'[w] = Idle /\ pc'[w].at = "idle"
        /\ Held'
    <2>1. \A d \in Commands : cmd[d].st = "sent" => cmd'[d].st = "sent" \/ d = pc[w].of
      BY <1>2, <1>3, <1>6, <1>7
    <2> QED BY <1>3, <1>6, <2>1, FinishKeeps
  <1>9. ShipTypeOK'
    BY <1>3, <1>6, <1>8 DEF ShipTypeOK, Table, Row
  <1>10. AttemptsLeft'
    <2>1. \A d \in Commands : d \notin {c, Ship, Label} =>
            cmd'[d].st = cmd[d].st /\ cmd'[d].tries = cmd[d].tries
      BY <1>6
    <2>2. \A d \in {c, Ship, Label} :
            /\ cmd'[d].st \in {"none", "pending"} => cmd'[d].tries = 0
            /\ cmd'[d].st = "retry" => cmd'[d].tries < MaxAttempts
      BY <1>2, <1>6, <1>7, Keys DEF AttemptsLeft
    <2> QED BY <2>1, <2>2 DEF AttemptsLeft
  <1>11. Tries' = Tries
    BY <1>6, Keys DEF Tries
  <1>12. \A k \in 0..MaxAttempts :
           k # n => Read(k) \in Commands /\ cmd'[Read(k)].st = cmd[Read(k)].st
    <2>1. \A k \in 0..MaxAttempts :
            k # n => Read(k) \in Commands /\ Read(k) \notin {c, Ship, Label}
      BY <1>1, Keys
    <2> QED BY <1>6, <2>1
  <1>13. ReadsInOrder'
    <2>1. \A k \in 1..MaxAttempts :
            /\ k < Tries => cmd'[Read(k)].st = "confirmed"
            /\ k > Tries => cmd'[Read(k)].st = "none"
      BY <1>4, <1>5, <1>12 DEF ReadsInOrder
    <2>2. cmd'[Ship].st = "sent" => Tries > 0 /\ cmd'[Read(Tries)].st = "none"
      BY <1>4, <1>5, <1>7, <1>12 DEF ReadsInOrder
    <2>3. cmd'[Ship].st = "retry" => Tries > 0 /\ cmd'[Read(Tries)].st = "confirmed"
      BY <1>1, <1>4, <1>5, <1>7, <1>12 DEF ReadsInOrder
    <2>4. cmd'[Ship].st = "conflict" => Tries > 0 /\ cmd'[Read(Tries)].st # "none"
      BY <1>1, <1>4, <1>5, <1>6, <1>7, <1>12 DEF ReadsInOrder
    <2> QED BY <1>11, <2>1, <2>2, <2>3, <2>4 DEF ReadsInOrder
  <1>14. PostingKnown'
    <2>1. cmd'[Read(0)].st # "none" => cmd[Read(0)].st # "none"
      BY <1>1, <1>4, <1>12, ShipAssumption
    <2>2. known' = "delivering" => posting \in Gone
      BY ReadWrites
    <2> QED BY <1>3, <1>8, <2>1, <2>2, KnowledgeKept DEF PostingKnown
  <1>15. DoubtIsChecked'
    <2>1. SUFFICES ASSUME cmd'[Ship].st = "conflict", posting = "awaiting_packaging"
                   PROVE  cmd'[Read(Tries)].st \notin {"none", "confirmed"}
      BY <1>3, <1>11 DEF DoubtIsChecked, ShipInDoubt, Tries
    <2>2. cmd[Ship].st = "conflict" /\ cmd'[c].st # "confirmed"
      BY <1>7, <2>1
    <2>3. cmd[Read(Tries)].st \notin {"none", "confirmed"}
      BY <2>1, <2>2 DEF DoubtIsChecked, ShipInDoubt, Tries
    <2> QED BY <1>1, <1>4, <1>6, <1>12, <2>2, <2>3
  <1> QED BY <1>8, <1>9, <1>10, <1>13, <1>14, <1>15

-----------------------------------------------------------------------------
\* Every step keeps the invariant when no worker outlives its claim.
LEMMA ShipStep ==
  ASSUME Invariant, MaxStalls = 0, [Next]_vars
  PROVE  Invariant'
  <1>1. CASE Schedule
    BY <1>1, ScheduleKeeps
  <1>2. CASE Import \/ MovePosting \/ ShipLate
    <2>1. UNCHANGED <<cmd, pc>>
      BY <1>2 DEF Import, MovePosting, ShipLate
    <2> QED BY <1>2, <2>1, OutsideKeeps
  <1>3. ASSUME NEW w \in Workers, WorkerStep(w)
        PROVE  Invariant'
    <2>1. ASSUME NEW c \in Commands, Claim(w, c)
          PROVE  Invariant'
      BY <2>1, ClaimKeeps
    <2>2. CASE Answer(w)
      BY <2>2, AnswersKeep
    <2>3. CASE ApplyShip(w)
      BY <2>3, ApplyShipKeeps
    <2>4. CASE ApplyLabel(w)
      BY <2>4, ApplyLabelKeeps
    <2>5. ASSUME NEW c \in Reads, ApplyRead(w, c)
          PROVE  Invariant'
      BY <2>5, ApplyReadKeeps
    <2> QED BY <1>3, <2>1, <2>2, <2>3, <2>4, <2>5 DEF WorkerStep
  <1>4. ASSUME NEW w \in Workers, FaultStep(w)
        PROVE  Invariant'
    <2>1. CASE Crash(w)
      BY <2>1, CrashKeeps
    <2>2. CASE Fail(w) \/ ReadOld(w) \/ Refuse(w)
      BY <2>2, AnswersKeep
    <2> QED BY <1>4, <2>1, <2>2 DEF FaultStep
  <1>5. ASSUME NEW c \in Commands, RecoverStale(c)
        PROVE  Invariant'
    BY <1>5, RecoverKeeps
  <1>6. CASE UNCHANGED vars
    BY <1>6 DEF vars, Invariant, ShipTypeOK, Held, Busy, AttemptsLeft, ReadsInOrder,
       Tries, PostingKnown, DoubtIsChecked, ShipInDoubt
  <1> QED BY <1>1, <1>2, <1>3, <1>4, <1>5, <1>6 DEF Next

\* Only a claim counts an attempt.
LEMMA OnlyClaimsCount ==
  ASSUME Invariant, [Next]_vars, cmd'[Ship].tries # cmd[Ship].tries
  PROVE  \E w \in Workers : Claim(w, Ship)
  <1> USE DEF Invariant
  <1>1. cmd \in Table /\ Ship \in Commands /\ Label \in Commands
    BY TableTyped, Keys
  <1>2. cmd' # cmd
    OBVIOUS
  <1>3. ~Schedule
    <2>1. SUFFICES ASSUME Schedule PROVE FALSE
      OBVIOUS
    <2>2. NextCommand \in Commands
      BY <2>1, Keys, ShipAssumption
      DEF NextCommand, Schedule, ShipTypeOK, PostingStatuses
    <2>3. cmd' = Enqueue(cmd, NextCommand)
      BY <2>1 DEF Schedule
    <2> QED BY <1>1, <2>2, <2>3, EnqueueWrites
  <1>4. \A w \in Workers : ~ApplyShip(w)
    <2>1. SUFFICES ASSUME NEW w \in Workers, ApplyShip(w) PROVE FALSE
      OBVIOUS
    <2>2. Read(Tries) \in Commands /\ Read(Tries) # Ship
      BY TableTyped, Keys
    <2>3. {"confirmed", "failed"} \subseteq CommandStatuses
      BY DEF CommandStatuses
    <2>4. CASE cmd' = Enqueue(Settle(cmd, Ship, "confirmed"), Read(Tries))
      <3>1. "confirmed" \in CommandStatuses
        BY <2>3
      <3> QED BY <1>1, <2>2, <2>4, <3>1, SettleThenEnqueue
    <2>5. CASE cmd' = DeferToReadback(cmd)
      BY <1>1, <2>5, DeferWrites
    <2>6. CASE cmd' = Settle(cmd, Ship, "failed")
      <3>1. "failed" \in CommandStatuses
        BY <2>3
      <3> QED BY <1>1, <2>6, <3>1, SettleWrites
    <2> QED BY <2>1, <2>4, <2>5, <2>6 DEF ApplyShip, ReadbackKey, Tries
  <1>5. \A w \in Workers : ~ApplyLabel(w)
    <2>1. SUFFICES ASSUME NEW w \in Workers, ApplyLabel(w) PROVE FALSE
      OBVIOUS
    <2>2. {"confirmed", "failed", "conflict"} \subseteq CommandStatuses
      BY DEF CommandStatuses
    <2>3. ASSUME NEW s \in {"confirmed", "failed", "conflict"}, cmd' = Settle(cmd, Label, s)
          PROVE  FALSE
      <3>1. s \in CommandStatuses
        BY <2>2
      <3> QED BY <1>1, <2>3, <3>1, SettleWrites
    <2>4. CASE cmd' = RetryOrFailed(cmd, Label)
      BY <1>1, <2>4, RetryWrites
    <2> QED BY <2>1, <2>3, <2>4 DEF ApplyLabel, TurnDown
  <1>6. \A w \in Workers : \A c \in Reads : ~ApplyRead(w, c)
    BY <1>1, ReadWrites
  <1>7. \A c \in Commands : ~RecoverStale(c)
    <2>1. SUFFICES ASSUME NEW c \in Commands, RecoverStale(c) PROVE FALSE
      OBVIOUS
    <2>2. cmd' = DeferToReadback(cmd) \/ cmd' = RetryOrFailed(cmd, c)
      BY <2>1 DEF RecoverStale, Recovered
    <2>3. cmd' # DeferToReadback(cmd)
      BY <1>1, DeferWrites
    <2>4. cmd' # RetryOrFailed(cmd, c)
      BY <1>1, RetryWrites
    <2> QED BY <2>2, <2>3, <2>4
  <1>8. \A w \in Workers : \A c \in Commands : Claim(w, c) => c = Ship
    BY <1>1 DEF Claim, Table
  <1> QED
    BY <1>2, <1>3, <1>4, <1>5, <1>6, <1>7, <1>8
    DEF Next, WorkerStep, FaultStep, vars, Import, MovePosting, ShipLate, Answer,
        Fail, ReadOld, Refuse, Crash

\* A ship claimed again waits for a retry, which its last readback ordered.
LEMMA ResendIsChecked ==
  ASSUME Invariant, [Next]_vars
  PROVE  /\ cmd'[Ship].tries > cmd[Ship].tries
         /\ cmd[Ship].tries > 0
         => cmd[Read(cmd[Ship].tries)].st = "confirmed"
  <1> USE DEF Invariant
  <1>1. SUFFICES ASSUME cmd'[Ship].tries > cmd[Ship].tries, cmd[Ship].tries > 0
                 PROVE  cmd[Read(cmd[Ship].tries)].st = "confirmed"
    OBVIOUS
  <1>2. cmd[Ship].tries \in 0..MaxAttempts /\ Ship \in Commands
    BY TableTyped, Keys DEF Tries
  <1>3. cmd'[Ship].tries # cmd[Ship].tries
    <2>1. CASE cmd'[Ship].tries = cmd[Ship].tries
      BY <1>1, <1>2, <2>1
    <2> QED BY <2>1
  <1>4. PICK w \in Workers : Claim(w, Ship)
    BY <1>3, OnlyClaimsCount
  <1>5. cmd[Ship].st \in {"pending", "retry"}
    BY <1>4 DEF Claim, Active
  <1>6. cmd[Ship].st = "retry"
    BY <1>1, <1>2, <1>5 DEF AttemptsLeft
  <1> QED BY <1>6 DEF ReadsInOrder, Tries

-----------------------------------------------------------------------------
\* Workers that answer in time keep the invariant, whatever Ozon answers.
THEOREM ShipInvariant ==
  ASSUME MaxStalls = 0
  PROVE  Spec => []Invariant
  <1>1. Init => Invariant
    BY InitInvariant
  <1>2. Invariant /\ [Next]_vars => Invariant'
    BY ShipStep
  <1> QED BY <1>1, <1>2, PTL DEF Spec

-----------------------------------------------------------------------------
\* Types need no assumption about slow workers: whoever writes a row, an attempt
\* is left in it when it may be claimed.
TableOK(t) ==
  /\ t \in Table
  /\ \A c \in Commands : /\ t[c].st \in {"none", "pending"} => t[c].tries = 0
                         /\ t[c].st = "retry" => t[c].tries < MaxAttempts

Typed == ShipTypeOK /\ AttemptsLeft

LEMMA TypedTable == Typed => TableOK(cmd)
  BY DEF Typed, ShipTypeOK, AttemptsLeft, TableOK, Table, Row

\* The writes of the outbox keep a table well formed.
LEMMA WritesKeepTable ==
  ASSUME NEW t, TableOK(t), NEW c \in Commands
  PROVE  /\ \A st \in {"sent", "confirmed", "failed", "conflict"} : TableOK(Settle(t, c, st))
         /\ TableOK(Enqueue(t, c))
         /\ TableOK(RetryOrFailed(t, c))
         /\ TableOK(DeferToReadback(t))
  <1>1. t \in Table
    BY DEF TableOK
  <1>2. ASSUME NEW st \in {"sent", "confirmed", "failed", "conflict"}
        PROVE  TableOK(Settle(t, c, st))
    <2>1. st \in CommandStatuses
      BY DEF CommandStatuses
    <2> QED BY <1>1, <2>1, SettleWrites DEF TableOK
  <1>3. TableOK(Enqueue(t, c))
    <2>1. /\ Enqueue(t, c) \in Table
          /\ \A d \in Commands :
               /\ Enqueue(t, c)[d].tries = t[d].tries
               /\ Enqueue(t, c)[d].st =
                    IF d = c /\ t[c].st = "none" THEN "pending" ELSE t[d].st
      BY <1>1, EnqueueWrites
    <2> QED BY <1>1, <2>1 DEF TableOK
  <1>4. TableOK(RetryOrFailed(t, c))
    <2>1. t[c].tries \in 0..MaxAttempts
      BY <1>1 DEF Table, Row
    <2>2. PICK r, s : /\ r = RetryOrFailed(t, c)
                      /\ s = IF t[c].tries >= MaxAttempts THEN "failed" ELSE "retry"
      OBVIOUS
    <2>3. /\ r \in Table
          /\ \A d \in Commands : /\ r[d].tries = t[d].tries
                                 /\ r[d].st = IF d = c THEN s ELSE t[d].st
      BY ONLY <1>1, <2>2, RetryWrites
    <2>4. /\ s \notin {"none", "pending"}
          /\ s = "retry" => t[c].tries < MaxAttempts
      BY ONLY <2>1, <2>2, ShipAssumption
    <2>5. TableOK(r)
      BY ONLY TableOK(t), <2>3, <2>4 DEF TableOK
    <2> QED BY ONLY <2>2, <2>5
  <1>5. TableOK(DeferToReadback(t))
    BY <1>1, DeferWrites DEF TableOK
  <1> QED BY <1>2, <1>3, <1>4, <1>5

\* What the second transaction writes, whatever became of the row meanwhile.
LEMMA AppliedTable ==
  ASSUME Typed, NEW w \in Workers,
         \/ ApplyShip(w) \/ ApplyLabel(w)
         \/ \E c \in Reads : ApplyRead(w, c)
  PROVE  TableOK(cmd')
  <1>1. TableOK(cmd) /\ Tries \in 0..MaxAttempts
    BY TypedTable, TableTyped DEF Typed
  <1>2. Read(Tries) \in Commands /\ Ship \in Commands /\ Label \in Commands
    BY <1>1, Keys
  <1>3. CASE ApplyShip(w)
    <2>1. \/ cmd' = Enqueue(Settle(cmd, Ship, "confirmed"), Read(Tries))
          \/ cmd' = DeferToReadback(cmd)
          \/ cmd' = Settle(cmd, Ship, "failed")
      BY <1>3 DEF ApplyShip, ReadbackKey, Tries
    <2>2. TableOK(Settle(cmd, Ship, "confirmed")) /\ TableOK(Settle(cmd, Ship, "failed"))
      BY <1>1, <1>2, WritesKeepTable
    <2> QED BY <1>1, <1>2, <2>1, <2>2, WritesKeepTable
  <1>4. CASE ApplyLabel(w)
    BY <1>1, <1>2, <1>4, WritesKeepTable DEF ApplyLabel, TurnDown
  <1>5. ASSUME NEW c \in Reads, ApplyRead(w, c) PROVE TableOK(cmd')
    <2>1. c \in Commands
      BY Keys
    <2>2. \/ cmd' = RetryOrFailed(cmd, c)
          \/ \E st \in {"failed", "conflict", "confirmed"} : cmd' = Settle(cmd, c, st)
          \/ cmd' = Settle(RetryOrFailed(cmd, Ship), c, "confirmed")
          \/ cmd' = Enqueue(Settle(cmd, c, "confirmed"), Label)
      BY <1>5 DEF ApplyRead, TurnDown
    <2>3. TableOK(RetryOrFailed(cmd, Ship)) /\ TableOK(Settle(cmd, c, "confirmed"))
      BY <1>1, <1>2, <2>1, WritesKeepTable
    <2> QED BY <1>1, <1>2, <2>1, <2>2, <2>3, WritesKeepTable
  <1> QED BY <1>3, <1>4, <1>5

\* A claim uses the attempt that was left.
LEMMA ClaimedTable ==
  ASSUME Typed, NEW w \in Workers, NEW c \in Commands, Claim(w, c)
  PROVE  TableOK(cmd')
  <1>1. TableOK(cmd)
    BY TypedTable
  <1>2. cmd[c].tries \in 0..MaxAttempts /\ cmd[c].tries < MaxAttempts
    BY <1>1, ShipAssumption DEF Claim, Active, TableOK, Table, Row
  <1>3. cmd[c].tries + 1 \in 0..MaxAttempts
    BY <1>2, ShipAssumption
  <1>4. cmd' = [cmd EXCEPT ![c] = [st |-> "sent", tries |-> cmd[c].tries + 1]]
    BY DEF Claim
  <1> QED BY <1>1, <1>3, <1>4 DEF TableOK, Table, Row, CommandStatuses

\* The table of every step, and the worker's memory.
LEMMA TypedStep ==
  ASSUME Typed, [Next]_vars
  PROVE  Typed'
  <1> DEFINE Memory == [at : {"idle", "asking", "answered"}, of : Commands,
                        answer : {"none", "done", "unclear", "refused"} \cup PostingStatuses]
  <1>1. TableOK(cmd) /\ ShipTypeOK
    BY TypedTable DEF Typed
  <1>2. SUFFICES /\ TableOK(cmd') /\ pc' \in [Workers -> Memory]
                 /\ posting' \in PostingStatuses /\ known' \in PostingStatuses
                 /\ label' \in {"requested", "ready"} /\ scanned' \in BOOLEAN /\ late' \in BOOLEAN
                 /\ faults' \in Nat /\ stalls' \in Nat
    BY DEF Typed, ShipTypeOK, AttemptsLeft, TableOK, Table, Row
  <1>3. /\ pc \in [Workers -> Memory] /\ posting \in PostingStatuses
        /\ known \in PostingStatuses /\ label \in {"requested", "ready"}
        /\ scanned \in BOOLEAN /\ late \in BOOLEAN /\ faults \in Nat /\ stalls \in Nat
    BY <1>1 DEF ShipTypeOK
  <1>4. Idle \in Memory
    BY Keys DEF Idle
  <1> HIDE DEF Memory
  <1>5. CASE Schedule
    <2>1. NextCommand \in Commands
      <3>1. known \in {"awaiting_packaging", "awaiting_deliver", "delivering"}
        BY <1>3, <1>5 DEF Schedule, PostingStatuses
      <3> QED BY <3>1, Keys, ShipAssumption DEF NextCommand
    <2> QED BY <1>1, <1>3, <1>5, <2>1, WritesKeepTable DEF Schedule, ozonVars, boundVars
  <1>6. CASE Import \/ MovePosting \/ ShipLate
    BY <1>1, <1>3, <1>6
    DEF Import, MovePosting, ShipLate, Shipped, ozonVars, boundVars, PostingStatuses
  <1>7. ASSUME NEW w \in Workers, NEW c \in Commands, Claim(w, c)
        PROVE  TableOK(cmd') /\ pc' \in [Workers -> Memory]
    <2>1. [at |-> "asking", of |-> c, answer |-> "none"] \in Memory
      BY DEF Memory
    <2> QED BY <1>3, <1>7, <2>1, ClaimedTable DEF Claim
  <1>8. ASSUME NEW w \in Workers, NEW a \in {"done", "unclear", "refused"} \cup PostingStatuses,
               Answered(w, a)
        PROVE  pc' \in [Workers -> Memory]
    BY <1>3, <1>8 DEF Answered, Memory
  <1>9. ASSUME NEW w \in Workers, Answer(w) \/ Fail(w) \/ ReadOld(w) \/ Refuse(w)
        PROVE  /\ pc' \in [Workers -> Memory]
               /\ posting' \in PostingStatuses /\ late' \in BOOLEAN /\ faults' \in Nat
               /\ UNCHANGED <<known, cmd, label, scanned, stalls>>
    <2>1. \E a \in {"done", "unclear", "refused"} \cup PostingStatuses : Answered(w, a)
      BY <1>3, <1>9 DEF Answer, Fail, ReadOld, Refuse, PostingStatuses
    <2>2. pc' \in [Workers -> Memory]
      BY <1>8, <2>1
    <2>3. faults' \in Nat
      BY <1>3, <1>9 DEF Answer, Fail, ReadOld, Refuse, Fault, boundVars
    <2>4. posting' \in PostingStatuses
      BY <1>3, <1>9 DEF Answer, Fail, ReadOld, Refuse, Shipped, ozonVars, PostingStatuses
    <2>5. late' \in BOOLEAN
      BY <1>3, <1>9 DEF Answer, Fail, ReadOld, Refuse, ozonVars
    <2>6. UNCHANGED <<known, cmd, label, scanned, stalls>>
      BY <1>9 DEF Answer, Fail, ReadOld, Refuse, boundVars
    <2> QED BY <2>2, <2>3, <2>4, <2>5, <2>6
  <1>10. ASSUME NEW w \in Workers, Crash(w)
         PROVE  pc' \in [Workers -> Memory] /\ late' \in BOOLEAN /\ faults' \in Nat
    <2>1. pc' \in [Workers -> Memory] /\ faults' \in Nat
      BY <1>3, <1>4, <1>10 DEF Crash, Fault
    <2>2. late' = late \/ late' = TRUE \/ late' = FALSE
      BY <1>10, Zenon DEF Crash
    <2>3. late' \in BOOLEAN
      BY <1>3, <2>2
    <2> QED BY <2>1, <2>3
  <1>11. ASSUME NEW w \in Workers,
                ApplyShip(w) \/ ApplyLabel(w) \/ \E c \in Reads : ApplyRead(w, c)
         PROVE  /\ pc' \in [Workers -> Memory] /\ known' \in PostingStatuses
                /\ label' \in {"requested", "ready"}
                /\ UNCHANGED <<posting, late, scanned, faults, stalls>>
    BY <1>3, <1>4, <1>11 DEF ApplyShip, ApplyLabel, ApplyRead, Finish, ozonVars, boundVars
  <1>12. ASSUME NEW c \in Commands, RecoverStale(c)
         PROVE  TableOK(cmd') /\ stalls' \in Nat
    <2>1. cmd' = DeferToReadback(cmd) \/ cmd' = RetryOrFailed(cmd, c)
      BY <1>12 DEF RecoverStale, Recovered
    <2>2. TableOK(cmd')
      BY <1>1, <2>1, WritesKeepTable
    <2> QED BY <1>3, <1>12, <2>2 DEF RecoverStale
  <1>13. CASE UNCHANGED vars
    BY <1>1, <1>3, <1>13 DEF vars
  <1>14. ASSUME NEW w \in Workers, WorkerStep(w) \/ FaultStep(w)
         PROVE  /\ TableOK(cmd') /\ pc' \in [Workers -> Memory]
                /\ posting' \in PostingStatuses /\ known' \in PostingStatuses
                /\ label' \in {"requested", "ready"} /\ scanned' \in BOOLEAN /\ late' \in BOOLEAN
                /\ faults' \in Nat /\ stalls' \in Nat
    <2>1. CASE \E c \in Commands : Claim(w, c)
      BY <1>3, <1>7, <2>1 DEF Claim, ozonVars, boundVars
    <2>2. CASE Answer(w) \/ Fail(w) \/ ReadOld(w) \/ Refuse(w)
      BY <1>1, <1>3, <1>9, <2>2
    <2>3. CASE ApplyShip(w) \/ ApplyLabel(w) \/ \E c \in Reads : ApplyRead(w, c)
      BY <1>3, <1>11, <2>3, AppliedTable
    <2>4. CASE Crash(w)
      BY <1>1, <1>3, <1>10, <2>4 DEF Crash
    <2> QED BY <1>14, <2>1, <2>2, <2>3, <2>4 DEF WorkerStep, FaultStep
  <1>15. ASSUME NEW c \in Commands, RecoverStale(c)
         PROVE  UNCHANGED <<posting, late, known, label, scanned, pc, faults>>
    BY <1>15 DEF RecoverStale, ozonVars
  <1> QED BY <1>3, <1>5, <1>6, <1>12, <1>13, <1>14, <1>15 DEF Next

\* What the rows of the outbox say of the posting and its label, whoever wrote
\* them: a command is confirmed for what it achieved, and the plain readback is
\* there only for a posting on its way.
RowsTell ==
  /\ cmd[Ship].st = "confirmed" => posting # "awaiting_packaging"
  /\ cmd[Ship].st = "sent" => Tries > 0
  /\ cmd[Label].st = "confirmed" => label = "ready"
  /\ cmd[Read(0)].st # "none" => posting \in Gone
  /\ cmd[Read(0)].st = "confirmed" => label = "ready" \/ posting = "cancelled"
  /\ known = "delivering" => posting \in Gone

\* What worker w remembers, in time or not: it works for a command that is there,
\* and an answer it holds was true of the posting or is outdated.
Remembers(w) ==
  /\ Busy(w) /\ pc[w].of = Ship => Tries > 0
  /\ Busy(w) /\ pc[w].of = Read(0) => cmd[Read(0)].st # "none"
  /\ Has(w, Ship, "done") => posting # "awaiting_packaging"
  /\ \A c \in Reads :
       /\ Has(w, c, "delivering") => posting \in Gone
       /\ Has(w, c, "cancelled") => posting = "cancelled"
  /\ ~Has(w, Read(0), "awaiting_packaging") /\ ~Has(w, Read(0), "awaiting_deliver")

KeysHold == Typed /\ RowsTell /\ \A w \in Workers : Remembers(w)

\* The rows the facts speak of, and who holds an answer is at work for the command.
LEMMA KeyRows ==
  ASSUME KeysHold
  PROVE  /\ cmd \in Table /\ Tries \in 0..MaxAttempts
         /\ Ship \in Commands /\ Label \in Commands /\ Read(0) \in Commands
         /\ Ship # Label /\ Read(0) # Ship /\ Read(0) # Label
         /\ \A w \in Workers : \A c, a : Has(w, c, a) => Busy(w) /\ pc[w].of = c
  <1>1. Typed
    BY DEF KeysHold
  <1>2. cmd \in Table /\ Tries \in 0..MaxAttempts
    BY <1>1, TableTyped DEF Typed
  <1>3. 0 \in 0..MaxAttempts
    BY ShipAssumption
  <1>4. Read(0) \in Commands
    BY <1>3, Keys
  <1>5. \A w \in Workers : \A c, a : Has(w, c, a) => Busy(w) /\ pc[w].of = c
    BY DEF Has, Busy
  <1> QED BY <1>2, <1>4, <1>5, Keys

\* A write that spends no label and no plain readback leaves what the rows tell.
LEMMA QuietRows ==
  ASSUME RowsTell, UNCHANGED <<posting, label, known>>,
         cmd'[Ship].tries = cmd[Ship].tries,
         cmd'[Ship].st = "confirmed" =>
           cmd[Ship].st = "confirmed" \/ posting # "awaiting_packaging",
         cmd'[Ship].st = "sent" => cmd[Ship].st = "sent",
         cmd'[Label].st = "confirmed" => cmd[Label].st = "confirmed",
         cmd'[Read(0)].st = "none" <=> cmd[Read(0)].st = "none",
         cmd'[Read(0)].st = "confirmed" => cmd[Read(0)].st = "confirmed"
  PROVE  RowsTell'
  BY DEF RowsTell, Tries

\* A posting that only moves forward and rows that are not removed leave a
\* worker's memory true.
LEMMA StillRemembers ==
  ASSUME NEW v \in Workers, Remembers(v), pc'[v] = pc[v],
         Tries > 0 => Tries' > 0,
         cmd[Read(0)].st # "none" => cmd'[Read(0)].st # "none",
         posting \in Gone => posting' \in Gone,
         posting # "awaiting_packaging" => posting' # "awaiting_packaging",
         posting = "cancelled" => posting' = "cancelled"
  PROVE  Remembers(v)'
  BY DEF Remembers, Busy, Has

\* An idle worker remembers nothing.
LEMMA IdleRemembers ==
  ASSUME NEW v \in Workers, pc'[v] = Idle
  PROVE  Remembers(v)'
  BY DEF Remembers, Busy, Has, Idle

\* The second transaction, once its writes are known to keep the rows' tale.
LEMMA FinishRemembers ==
  ASSUME KeysHold, NEW w \in Workers, Finish(w), UNCHANGED posting, Tries' = Tries,
         cmd[Read(0)].st # "none" => cmd'[Read(0)].st # "none"
  PROVE  \A v \in Workers : Remembers(v)'
  <1>1. pc'[w] = Idle /\ \A v \in Workers : v # w => pc'[v] = pc[v]
    BY DEF KeysHold, Typed, ShipTypeOK, Finish
  <1>2. ASSUME NEW v \in Workers PROVE Remembers(v)'
    <2>1. CASE v = w
      BY <1>1, <2>1, IdleRemembers
    <2>2. CASE v # w
      BY <1>1, <2>2, StillRemembers DEF KeysHold
    <2> QED BY <2>1, <2>2
  <1> QED BY <1>2

\* The ship's outcome: confirmed when it went, in doubt with its own readback, or
\* failed.
LEMMA ShipTells ==
  ASSUME KeysHold, NEW w \in Workers, ApplyShip(w)
  PROVE  RowsTell' /\ \A v \in Workers : Remembers(v)'
  <1> DEFINE n == Tries
  <1>1. /\ cmd \in Table /\ n \in 0..MaxAttempts
        /\ Ship \in Commands /\ Label \in Commands /\ Read(0) \in Commands
        /\ Ship # Label /\ Read(0) # Ship /\ Read(0) # Label
    BY KeyRows
  <1>2. n > 0 /\ (Has(w, Ship, "done") => posting # "awaiting_packaging")
    BY KeyRows DEF ApplyShip, KeysHold, Remembers
  <1>3. Read(n) \in Commands /\ Read(n) \notin {Ship, Label, Read(0)}
    BY <1>1, <1>2, Keys
  <1>4. PICK k \in Commands : k = Read(n) /\ k \notin {Ship, Label, Read(0)}
    BY <1>3
  <1>5. /\ Finish(w) /\ UNCHANGED <<posting, known, label>>
        /\ \/ cmd' = Enqueue(Settle(cmd, Ship, "confirmed"), k) /\ posting # "awaiting_packaging"
           \/ cmd' = DeferToReadback(cmd)
           \/ cmd' = Settle(cmd, Ship, "failed")
    BY <1>2, <1>4 DEF ApplyShip, ReadbackKey, Tries, ozonVars
  <1>6. PICK yes, no : yes = "confirmed" /\ no = "failed" /\ {yes, no} \subseteq CommandStatuses
    BY DEF CommandStatuses
  <1>7. /\ cmd'[Ship].tries = cmd[Ship].tries
        /\ cmd'[Ship].st \in {"confirmed", "conflict", "failed"}
        /\ cmd'[Ship].st = "confirmed" => posting # "awaiting_packaging"
        /\ cmd'[Label].st = cmd[Label].st
        /\ cmd'[Read(0)].st = cmd[Read(0)].st
    <2>1. CASE cmd' = Enqueue(Settle(cmd, Ship, yes), k) /\ posting # "awaiting_packaging"
      <3>1. \A e \in Commands :
              /\ cmd'[e].tries = cmd[e].tries
              /\ cmd'[e].st = IF e = Ship THEN yes
                              ELSE IF e = k /\ cmd[k].st = "none" THEN "pending" ELSE cmd[e].st
        <4>1. /\ cmd \in Table /\ Ship \in Commands /\ k \in Commands /\ Ship # k
              /\ yes \in CommandStatuses
          BY <1>1, <1>4, <1>6
        <4>2. PICK t, p : t = cmd /\ p = Ship
          OBVIOUS
        <4>3. /\ t \in Table /\ p \in Commands /\ k \in Commands /\ p # k
              /\ yes \in CommandStatuses
          BY ONLY <4>1, <4>2
        <4>4. \A e \in Commands :
                /\ Enqueue(Settle(t, p, yes), k)[e].tries = t[e].tries
                /\ Enqueue(Settle(t, p, yes), k)[e].st =
                    IF e = p THEN yes
                    ELSE IF e = k /\ t[k].st = "none" THEN "pending" ELSE t[e].st
          BY ONLY <4>3, SettleThenEnqueue
        <4> QED BY <2>1, <4>2, <4>4
      <3> QED BY ONLY <1>1, <1>4, <1>6, <2>1, <3>1
    <2>2. CASE cmd' = DeferToReadback(cmd)
      <3>1. \A d \in Commands :
              /\ cmd'[d].tries = cmd[d].tries
              /\ cmd'[d].st = IF d = Ship THEN "conflict"
                              ELSE IF d = k /\ cmd[d].st = "none" THEN "pending" ELSE cmd[d].st
        BY <1>1, <1>4, <2>2, DeferWrites DEF Tries
      <3> QED BY ONLY <1>1, <1>4, <3>1
    <2>3. CASE cmd' = Settle(cmd, Ship, no)
      <3>1. \A d \in Commands : /\ cmd'[d].tries = cmd[d].tries
                                 /\ cmd'[d].st = IF d = Ship THEN no ELSE cmd[d].st
        <4>1. cmd \in Table /\ Ship \in Commands /\ no \in CommandStatuses
          BY <1>1, <1>6
        <4> QED BY ONLY <4>1, <2>3, SettleWrites
      <3> QED BY ONLY <1>1, <1>6, <3>1
    <2> QED BY <1>5, <1>6, <2>1, <2>2, <2>3
  <1>8. RowsTell'
    BY <1>5, <1>7, QuietRows DEF KeysHold
  <1>9. Tries' = Tries
    BY <1>7 DEF Tries
  <1> QED BY <1>5, <1>7, <1>8, <1>9, FinishRemembers

\* The label's outcome: it is confirmed together with the label.
LEMMA LabelTells ==
  ASSUME KeysHold, NEW w \in Workers, ApplyLabel(w)
  PROVE  RowsTell' /\ \A v \in Workers : Remembers(v)'
  <1>1. /\ cmd \in Table
        /\ Ship \in Commands /\ Label \in Commands /\ Read(0) \in Commands
        /\ Ship # Label /\ Read(0) # Ship /\ Read(0) # Label
    BY KeyRows
  <1>2. /\ Finish(w) /\ UNCHANGED <<posting, known>>
        /\ \/ cmd' = RetryOrFailed(cmd, Label) /\ label' = label
           \/ \E s \in {"confirmed", "failed", "conflict"} :
                cmd' = Settle(cmd, Label, s) /\ label' \in {label, "ready"}
                /\ (s = "confirmed" => label' = "ready")
    BY DEF ApplyLabel, TurnDown, ozonVars
  <1>3. PICK s : /\ \A d \in Commands : /\ cmd'[d].tries = cmd[d].tries
                                         /\ cmd'[d].st = IF d = Label THEN s ELSE cmd[d].st
                 /\ s = "confirmed" => label' = "ready"
                 /\ label' \in {label, "ready"}
    <2>1. CASE cmd' = RetryOrFailed(cmd, Label) /\ label' = label
      <3>1. PICK s : s = IF cmd[Label].tries >= MaxAttempts THEN "failed" ELSE "retry"
        OBVIOUS
      <3>2. \A d \in Commands : /\ cmd'[d].tries = cmd[d].tries
                                 /\ cmd'[d].st = IF d = Label THEN s ELSE cmd[d].st
        <4>1. cmd \in Table /\ Label \in Commands
          BY <1>1
        <4>2. PICK t, p : t = cmd /\ p = Label
          OBVIOUS
        <4>3. t \in Table /\ p \in Commands /\ s = IF t[p].tries >= MaxAttempts THEN "failed" ELSE "retry"
          BY <3>1, <4>1, <4>2
        <4>4. \A d \in Commands : /\ RetryOrFailed(t, p)[d].tries = t[d].tries
                                   /\ RetryOrFailed(t, p)[d].st = IF d = p THEN s ELSE t[d].st
          BY ONLY <4>3, RetryWrites
        <4> QED BY <2>1, <4>2, <4>4
      <3>3. s # "confirmed"
        BY ONLY <3>1
      <3> QED BY <2>1, <3>2, <3>3
    <2>2. ASSUME NEW s \in {"confirmed", "failed", "conflict"},
                 cmd' = Settle(cmd, Label, s), label' \in {label, "ready"},
                 s = "confirmed" => label' = "ready"
          PROVE  /\ \A d \in Commands : /\ cmd'[d].tries = cmd[d].tries
                                         /\ cmd'[d].st = IF d = Label THEN s ELSE cmd[d].st
                 /\ s = "confirmed" => label' = "ready"
                 /\ label' \in {label, "ready"}
      <3>1. s \in CommandStatuses
        BY DEF CommandStatuses
      <3> QED BY <1>1, <2>2, <3>1, SettleWrites
    <2> QED BY <1>2, <2>1, <2>2
  <1>4. /\ cmd'[Ship].tries = cmd[Ship].tries /\ cmd'[Ship].st = cmd[Ship].st
        /\ cmd'[Read(0)].st = cmd[Read(0)].st
        /\ cmd'[Label].st = s
    BY ONLY <1>1, <1>3
  <1>5. RowsTell'
    BY <1>2, <1>3, <1>4 DEF KeysHold, RowsTell, Tries
  <1>6. Tries' = Tries
    BY <1>4 DEF Tries
  <1> QED BY <1>2, <1>4, <1>5, <1>6, FinishRemembers

\* What a readback writes into the rows: its own, that of a ship in doubt, which
\* may be tried again, and a new label command.
LEMMA ReadRows ==
  ASSUME KeysHold, NEW w \in Workers, NEW c \in Reads, ApplyRead(w, c)
  PROVE  /\ cmd'[Ship].tries = cmd[Ship].tries
         /\ cmd'[Ship].st \in {cmd[Ship].st, "failed", "retry"}
         /\ cmd'[Label].st \in {cmd[Label].st, "pending"}
         /\ c # Read(0) => cmd'[Read(0)].st = cmd[Read(0)].st
         /\ cmd'[c].st # "none"
         /\ cmd'[c].st = "confirmed" =>
              \/ Has(w, c, "cancelled") \/ label' = "ready"
              \/ Has(w, c, "awaiting_packaging") \/ Has(w, c, "awaiting_deliver")
         /\ label' \in {label, "ready"}
         /\ known' = known \/ \E status \in PostingStatuses : Has(w, c, status) /\ known' = status
  <1>1. /\ cmd \in Table /\ c \in Commands /\ c # Ship /\ c # Label
        /\ Ship \in Commands /\ Label \in Commands /\ Read(0) \in Commands
        /\ Ship # Label /\ Read(0) # Ship /\ Read(0) # Label
    BY KeyRows, Keys
  <1>2. /\ label' \in {label, "ready"}
        /\ known' = known \/ \E status \in PostingStatuses : Has(w, c, status) /\ known' = status
    BY DEF ApplyRead
  <1>3. \/ cmd' = RetryOrFailed(cmd, c)
        \/ \E s \in {"failed", "conflict"} : cmd' = Settle(cmd, c, s)
        \/ cmd' = Settle(cmd, c, "confirmed") /\ (Has(w, c, "cancelled") \/ label' = "ready")
        \/ /\ cmd' = Settle(RetryOrFailed(cmd, Ship), c, "confirmed")
           /\ Has(w, c, "awaiting_packaging")
        \/ /\ cmd' = Enqueue(Settle(cmd, c, "confirmed"), Label)
           /\ Has(w, c, "awaiting_deliver")
    BY DEF ApplyRead, TurnDown
  <1>4. PICK e, p, q, z : e = cmd' /\ p = Ship /\ q = Label /\ z = Read(0)
    OBVIOUS
  <1>5. /\ p \in Commands /\ q \in Commands /\ z \in Commands
        /\ p # q /\ z # p /\ z # q /\ p # c /\ c # q
        /\ c \in Commands
    BY <1>1, <1>4
  <1>6. PICK t \in Table : t = cmd
    BY <1>1
  <1>7. "confirmed" \in CommandStatuses
    BY DEF CommandStatuses
  <1> DEFINE Rows == /\ e[p].tries = t[p].tries
                     /\ e[p].st \in {t[p].st, "failed", "retry"}
                     /\ e[q].st \in {t[q].st, "pending"}
                     /\ c # z => e[z].st = t[z].st
                     /\ e[c].st # "none"
  <1>8. ASSUME e = RetryOrFailed(t, c)
        PROVE  Rows /\ e[c].st # "confirmed"
    <2>1. PICK s : s = IF t[c].tries >= MaxAttempts THEN "failed" ELSE "retry"
      OBVIOUS
    <2>2. \A d \in Commands : /\ e[d].tries = t[d].tries
                               /\ e[d].st = IF d = c THEN s ELSE t[d].st
      <3>1. \A d \in Commands : /\ RetryOrFailed(t, c)[d].tries = t[d].tries
                                 /\ RetryOrFailed(t, c)[d].st = IF d = c THEN s ELSE t[d].st
        BY ONLY <1>5, <2>1, t \in Table, RetryWrites
      <3> QED BY ONLY <1>8, <3>1
    <2>3. s \notin {"none", "confirmed"}
      BY ONLY <2>1
    <2> QED BY ONLY <1>1, <1>5, <2>2, <2>3
  <1>9. ASSUME NEW s \in {"failed", "conflict", "confirmed"}, e = Settle(t, c, s)
        PROVE  Rows /\ e[c].st = s
    <2>1. s \in CommandStatuses
      BY DEF CommandStatuses
    <2>2. \A d \in Commands : /\ e[d].tries = t[d].tries
                               /\ e[d].st = IF d = c THEN s ELSE t[d].st
      <3>1. \A d \in Commands : /\ Settle(t, c, s)[d].tries = t[d].tries
                                 /\ Settle(t, c, s)[d].st = IF d = c THEN s ELSE t[d].st
        BY ONLY <1>5, <2>1, t \in Table, SettleWrites
      <3> QED BY ONLY <1>9, <3>1
    <2>3. s # "none"
      OBVIOUS
    <2> QED BY ONLY <1>1, <1>5, <2>2, <2>3
  <1>10. ASSUME e = Settle(RetryOrFailed(t, p), c, "confirmed")
         PROVE  Rows
    <2>1. PICK s, y : /\ s = IF t[p].tries >= MaxAttempts THEN "failed" ELSE "retry"
                      /\ y = "confirmed"
      OBVIOUS
    <2>2. y \in CommandStatuses /\ e = Settle(RetryOrFailed(t, p), c, y)
      BY <1>7, <1>10, <2>1
    <2>4. y \in CommandStatuses
      BY <2>2
    <2>3. \A d \in Commands :
            /\ e[d].tries = t[d].tries
            /\ e[d].st = IF d = c THEN y ELSE IF d = p THEN s ELSE t[d].st
      <3>1. \A d \in Commands :
              /\ Settle(RetryOrFailed(t, p), c, y)[d].tries = t[d].tries
              /\ Settle(RetryOrFailed(t, p), c, y)[d].st =
                   IF d = c THEN y ELSE IF d = p
                   THEN IF t[p].tries >= MaxAttempts THEN "failed" ELSE "retry"
                   ELSE t[d].st
        BY ONLY <1>5, <2>4, t \in Table, RetryThenSettle
      <3> QED BY ONLY <2>1, <2>2, <3>1
    <2> QED BY ONLY <1>1, <1>5, <2>1, <2>3
  <1>11. ASSUME e = Enqueue(Settle(t, c, "confirmed"), q)
         PROVE  Rows
    <2>1. PICK y : y = "confirmed"
      OBVIOUS
    <2>2. y \in CommandStatuses /\ e = Enqueue(Settle(t, c, y), q)
      BY <1>7, <1>11, <2>1
    <2>4. y \in CommandStatuses
      BY <2>2
    <2>3. \A d \in Commands :
            /\ e[d].tries = t[d].tries
            /\ e[d].st = IF d = c THEN y
                         ELSE IF d = q /\ t[q].st = "none" THEN "pending" ELSE t[d].st
      <3>1. \A d \in Commands :
              /\ Enqueue(Settle(t, c, y), q)[d].tries = t[d].tries
              /\ Enqueue(Settle(t, c, y), q)[d].st =
                   IF d = c THEN y
                   ELSE IF d = q /\ t[q].st = "none" THEN "pending" ELSE t[d].st
        BY ONLY <1>5, <2>4, t \in Table, SettleThenEnqueue
      <3> QED BY ONLY <2>2, <3>1
    <2> QED BY ONLY <1>1, <1>5, <2>1, <2>3
  <1>12. Rows
    <2>1. CASE \E s \in {"failed", "conflict"} : cmd' = Settle(cmd, c, s)
      <3>1. PICK s \in {"failed", "conflict"} : cmd' = Settle(cmd, c, s)
        BY <2>1
      <3> QED BY <1>4, <1>6, <1>9, <3>1
    <2> QED BY <1>3, <1>4, <1>6, <1>8, <1>9, <1>10, <1>11, <2>1
  <1>13. e[c].st = "confirmed" =>
           \/ Has(w, c, "cancelled") \/ label' = "ready"
           \/ Has(w, c, "awaiting_packaging") \/ Has(w, c, "awaiting_deliver")
    <2>1. CASE \E s \in {"failed", "conflict"} : cmd' = Settle(cmd, c, s)
      <3>1. PICK s \in {"failed", "conflict"} : cmd' = Settle(cmd, c, s)
        BY <2>1
      <3> QED BY <1>4, <1>6, <1>9, <3>1
    <2> QED BY <1>3, <1>4, <1>6, <1>8, <2>1
  <1> QED BY <1>2, <1>4, <1>6, <1>12, <1>13

\* The readback's outcome: it is spent on a posting that is cancelled, or with the
\* label; the plain one is answered by a posting on its way.
LEMMA ReadTells ==
  ASSUME KeysHold, NEW w \in Workers, NEW c \in Reads, ApplyRead(w, c)
  PROVE  RowsTell' /\ \A v \in Workers : Remembers(v)'
  <1>1. /\ cmd'[Ship].tries = cmd[Ship].tries
        /\ cmd'[Ship].st \in {cmd[Ship].st, "failed", "retry"}
        /\ cmd'[Label].st \in {cmd[Label].st, "pending"}
        /\ c # Read(0) => cmd'[Read(0)].st = cmd[Read(0)].st
        /\ cmd'[c].st # "none"
        /\ cmd'[c].st = "confirmed" =>
             \/ Has(w, c, "cancelled") \/ label' = "ready"
             \/ Has(w, c, "awaiting_packaging") \/ Has(w, c, "awaiting_deliver")
        /\ label' \in {label, "ready"}
        /\ known' = known \/ \E status \in PostingStatuses : Has(w, c, status) /\ known' = status
    BY ReadRows
  <1>2. /\ Finish(w) /\ UNCHANGED posting /\ Busy(w) /\ pc[w].of = c
    <2>1. \E a : Has(w, c, a)
      BY DEF ApplyRead
    <2> QED BY <2>1, KeyRows DEF ApplyRead, ozonVars
  <1>3. /\ Has(w, c, "delivering") => posting \in Gone
        /\ Has(w, c, "cancelled") => posting = "cancelled"
        /\ c = Read(0) => /\ cmd[Read(0)].st # "none" /\ posting \in Gone
                          /\ ~Has(w, c, "awaiting_packaging")
                          /\ ~Has(w, c, "awaiting_deliver")
    BY <1>2 DEF KeysHold, Remembers, RowsTell
  <1>4. known' = "delivering" => posting \in Gone
    BY <1>1, <1>3 DEF KeysHold, RowsTell
  <1>5. /\ cmd'[Read(0)].st # "none" => posting \in Gone
        /\ cmd'[Read(0)].st = "confirmed" => label' = "ready" \/ posting = "cancelled"
        /\ cmd[Read(0)].st # "none" => cmd'[Read(0)].st # "none"
    <2>1. CASE c = Read(0)
      <3>1. cmd'[Read(0)] = cmd'[c]
        BY <2>1
      <3> QED BY <1>1, <1>3, <2>1, <3>1
    <2>2. CASE c # Read(0)
      BY <1>1, <2>2 DEF KeysHold, RowsTell
    <2> QED BY <2>1, <2>2
  <1>6. RowsTell'
    BY <1>1, <1>2, <1>4, <1>5 DEF KeysHold, RowsTell, Tries
  <1>7. Tries' = Tries
    BY <1>1 DEF Tries
  <1> QED BY <1>2, <1>5, <1>6, <1>7, FinishRemembers

\* A stale command is written off while its worker may still hold its answer.
LEMMA StaleTells ==
  ASSUME KeysHold, NEW c \in Commands, RecoverStale(c)
  PROVE  RowsTell' /\ \A v \in Workers : Remembers(v)'
  <1>1. /\ cmd \in Table /\ Tries \in 0..MaxAttempts
        /\ Ship \in Commands /\ Label \in Commands /\ Read(0) \in Commands
        /\ Ship # Label /\ Read(0) # Ship /\ Read(0) # Label
    BY KeyRows
  <1>2. /\ UNCHANGED <<posting, known, label, pc>> /\ cmd[c].st = "sent"
        /\ cmd' = IF c = Ship THEN DeferToReadback(cmd) ELSE RetryOrFailed(cmd, c)
    BY DEF RecoverStale, Recovered, ozonVars
  <1>3. /\ cmd'[Ship].tries = cmd[Ship].tries
        /\ cmd'[Ship].st \in {cmd[Ship].st, "conflict"}
        /\ cmd'[Label].st \in {cmd[Label].st, "failed", "retry"}
        /\ cmd'[Read(0)].st # cmd[Read(0)].st =>
             cmd[Read(0)].st # "none" /\ cmd'[Read(0)].st \in {"failed", "retry"}
    <2>1. CASE c = Ship
      <3>1. Tries > 0
        BY <1>2, <2>1 DEF KeysHold, RowsTell
      <3>2. Read(Tries) \in Commands /\ Read(Tries) \notin {Ship, Label, Read(0)}
        BY <1>1, <3>1, Keys
      <3>3. PICK k \in Commands : k = Read(Tries) /\ k \notin {Ship, Label, Read(0)}
        BY <3>2
      <3>4. \A d \in Commands :
              /\ cmd'[d].tries = cmd[d].tries
              /\ cmd'[d].st = IF d = Ship THEN "conflict"
                              ELSE IF d = k /\ cmd[d].st = "none" THEN "pending" ELSE cmd[d].st
        BY <1>1, <1>2, <2>1, <3>3, DeferWrites DEF Tries
      <3> QED BY ONLY <1>1, <3>3, <3>4
    <2>2. CASE c # Ship
      <3>1. PICK s : s = IF cmd[c].tries >= MaxAttempts THEN "failed" ELSE "retry"
        OBVIOUS
      <3>2. PICK t \in Table : t = cmd
        BY <1>1
      <3>3. s = IF t[c].tries >= MaxAttempts THEN "failed" ELSE "retry"
        BY <3>1, <3>2
      <3>4. \A d \in Commands : /\ RetryOrFailed(t, c)[d].tries = t[d].tries
                                 /\ RetryOrFailed(t, c)[d].st = IF d = c THEN s ELSE t[d].st
        BY ONLY <3>3, c \in Commands, t \in Table, RetryWrites
      <3>5. \A d \in Commands : /\ cmd'[d].tries = cmd[d].tries
                                 /\ cmd'[d].st = IF d = c THEN s ELSE cmd[d].st
        BY <1>2, <2>2, <3>2, <3>4
      <3>6. s \in {"failed", "retry"}
        BY ONLY <3>1
      <3> QED BY ONLY <1>1, <1>2, <2>2, <3>5, <3>6
    <2> QED BY <2>1, <2>2
  <1>4. RowsTell'
    BY <1>2, <1>3, QuietRows DEF KeysHold
  <1>5. Tries' = Tries
    BY <1>3 DEF Tries
  <1>6. ASSUME NEW v \in Workers PROVE Remembers(v)'
    BY <1>2, <1>3, <1>5, StillRemembers DEF KeysHold
  <1> QED BY <1>4, <1>6

\* A claim counts an attempt and remembers the command it works for.
LEMMA ClaimTells ==
  ASSUME KeysHold, NEW w \in Workers, NEW c \in Commands, Claim(w, c)
  PROVE  RowsTell' /\ \A v \in Workers : Remembers(v)'
  <1>1. /\ cmd \in Table /\ Tries \in 0..MaxAttempts
        /\ Ship \in Commands /\ Label \in Commands /\ Read(0) \in Commands
        /\ Ship # Label /\ Read(0) # Ship /\ Read(0) # Label
    BY KeyRows
  <1>2. /\ UNCHANGED <<posting, known, label>> /\ cmd[c].st \in {"pending", "retry"}
        /\ cmd' = [cmd EXCEPT ![c] = [st |-> "sent", tries |-> cmd[c].tries + 1]]
        /\ pc' = [pc EXCEPT ![w] = [at |-> "asking", of |-> c, answer |-> "none"]]
    BY DEF Claim, Active, ozonVars
  <1>3. /\ \A d \in Commands : d # c => cmd'[d] = cmd[d]
        /\ cmd'[c].st = "sent" /\ cmd'[c].tries = cmd[c].tries + 1
    BY <1>1, <1>2 DEF Table
  <1>4. /\ cmd[Ship].tries \in Nat
        /\ c = Ship => Tries' = Tries + 1
        /\ c # Ship => Tries' = Tries
        /\ Tries > 0 => Tries' > 0
    BY <1>1, <1>3, ShipAssumption DEF Tries
  <1>5. cmd[Read(0)].st # "none" => cmd'[Read(0)].st # "none"
    BY <1>1, <1>3
  <1>6. RowsTell'
    <2>1. cmd'[Ship].st = "sent" => Tries' > 0
      BY <1>1, <1>3, <1>4 DEF KeysHold, RowsTell, Tries
    <2>2. /\ cmd'[Ship].st = "confirmed" => cmd[Ship].st = "confirmed"
          /\ cmd'[Label].st = "confirmed" => cmd[Label].st = "confirmed"
          /\ cmd'[Read(0)].st = "confirmed" => cmd[Read(0)].st = "confirmed"
          /\ cmd'[Read(0)].st # "none" => cmd[Read(0)].st # "none"
      BY <1>1, <1>2, <1>3
    <2> QED BY <1>2, <2>1, <2>2 DEF KeysHold, RowsTell
  <1>7. /\ \A v \in Workers : v # w => pc'[v] = pc[v]
        /\ pc'[w] = [at |-> "asking", of |-> c, answer |-> "none"]
    BY <1>2 DEF KeysHold, Typed, ShipTypeOK
  <1>8. ASSUME NEW v \in Workers PROVE Remembers(v)'
    <2>1. CASE v = w
      <3>1. pc'[v].at = "asking" /\ pc'[v].of = c
        BY <1>7, <2>1
      <3>2. \A d, a : ~Has(v, d, a)'
        BY <3>1 DEF Has
      <3>3. c = Ship => Tries' > 0
        BY <1>1, <1>4
      <3>4. c = Read(0) => cmd'[Read(0)].st # "none"
        BY <1>3
      <3> QED BY <3>1, <3>2, <3>3, <3>4 DEF Remembers
    <2>2. CASE v # w
      BY <1>2, <1>4, <1>5, <1>7, <2>2, StillRemembers DEF KeysHold
    <2> QED BY <2>1, <2>2
  <1> QED BY <1>6, <1>8

\* The scheduler asks for the plain readback only of a posting on its way.
LEMMA ScheduleTells ==
  ASSUME KeysHold, Schedule
  PROVE  RowsTell' /\ \A v \in Workers : Remembers(v)'
  <1>1. /\ cmd \in Table
        /\ Ship \in Commands /\ Label \in Commands /\ Read(0) \in Commands
        /\ Ship # Label /\ Read(0) # Ship /\ Read(0) # Label
    BY KeyRows
  <1>2. known \in PostingStatuses
    BY DEF KeysHold, Typed, ShipTypeOK
  <1>3. PICK c : c = NextCommand
    OBVIOUS
  <1>4. c \in {Ship, Label, Read(0)} /\ (c = Read(0) => known = "delivering")
    BY <1>1, <1>2, <1>3 DEF NextCommand, Schedule, PostingStatuses
  <1>5. /\ UNCHANGED <<posting, known, label, pc>> /\ c \in Commands
        /\ cmd' = Enqueue(cmd, c)
    BY <1>1, <1>3, <1>4 DEF Schedule, ozonVars
  <1>6. \A d \in Commands :
          /\ cmd'[d].tries = cmd[d].tries
          /\ cmd'[d].st = IF d = c /\ cmd[c].st = "none" THEN "pending" ELSE cmd[d].st
    <2>1. PICK t \in Table : t = cmd
      BY <1>1
    <2>2. c \in Commands
      BY <1>5
    <2>3. \A d \in Commands :
            /\ Enqueue(t, c)[d].tries = t[d].tries
            /\ Enqueue(t, c)[d].st =
                 IF d = c /\ t[c].st = "none" THEN "pending" ELSE t[d].st
      BY ONLY <2>2, t \in Table, EnqueueWrites
    <2> QED BY <1>5, <2>1, <2>3
  <1>7. /\ cmd'[Ship].tries = cmd[Ship].tries
        /\ \A d \in {Ship, Label, Read(0)} : cmd'[d].st \in {cmd[d].st, "pending"}
        /\ cmd'[Read(0)].st # cmd[Read(0)].st => known = "delivering"
    BY ONLY <1>1, <1>4, <1>6
  <1>8. RowsTell'
    <2>1. posting \in Gone \/ known # "delivering"
      BY DEF KeysHold, RowsTell
    <2> QED BY <1>5, <1>7, <2>1 DEF KeysHold, RowsTell, Tries
  <1>9. Tries' = Tries /\ (cmd[Read(0)].st # "none" => cmd'[Read(0)].st # "none")
    BY <1>7 DEF Tries
  <1>10. ASSUME NEW v \in Workers PROVE Remembers(v)'
    BY <1>5, <1>9, StillRemembers DEF KeysHold
  <1> QED BY <1>8, <1>10

\* Ozon's own steps, the import and crashes leave the rows; the posting only moves
\* forward.
LEMMA PostingForward ==
  ASSUME ShipTypeOK,
         \/ MovePosting \/ ShipLate \/ Import
         \/ \E w \in Workers : Answer(w) \/ FaultStep(w)
  PROVE  /\ posting \in Gone => posting' \in Gone
         /\ posting # "awaiting_packaging" => posting' # "awaiting_packaging"
         /\ posting = "cancelled" => posting' = "cancelled"
         /\ UNCHANGED <<cmd, label>>
         /\ known' = known \/ (Import /\ known' = posting /\ posting' = posting)
  BY DEF ShipTypeOK, PostingStatuses, MovePosting, ShipLate, Import, FaultStep, Answer, Fail,
     ReadOld, Refuse, Crash, Shipped, ozonVars

LEMMA OutsideTells ==
  ASSUME KeysHold, MovePosting \/ ShipLate \/ Import
  PROVE  RowsTell' /\ \A v \in Workers : Remembers(v)'
  <1>1. /\ posting \in Gone => posting' \in Gone
        /\ posting # "awaiting_packaging" => posting' # "awaiting_packaging"
        /\ posting = "cancelled" => posting' = "cancelled"
        /\ UNCHANGED <<cmd, label>>
        /\ known' = known \/ (known' = posting /\ posting' = posting)
    BY PostingForward DEF KeysHold, Typed
  <1>2. UNCHANGED pc
    BY DEF MovePosting, ShipLate, Import
  <1>3. RowsTell'
    BY <1>1 DEF KeysHold, RowsTell, Tries
  <1>4. ASSUME NEW v \in Workers PROVE Remembers(v)'
    BY <1>1, <1>2, StillRemembers DEF KeysHold, Tries
  <1> QED BY <1>3, <1>4

\* A worker that dies forgets; one that is answered remembers what was true.
LEMMA AnswersTell ==
  ASSUME KeysHold, NEW w \in Workers, Answer(w) \/ FaultStep(w)
  PROVE  RowsTell' /\ \A v \in Workers : Remembers(v)'
  <1>1. /\ posting \in Gone => posting' \in Gone
        /\ posting # "awaiting_packaging" => posting' # "awaiting_packaging"
        /\ posting = "cancelled" => posting' = "cancelled"
        /\ UNCHANGED <<cmd, label>>
        /\ known' = known \/ (Import /\ known' = posting /\ posting' = posting)
    BY PostingForward DEF KeysHold, Typed
  <1>2. UNCHANGED known /\ Tries' = Tries
    BY <1>1 DEF Answer, FaultStep, Fail, ReadOld, Refuse, Crash, Tries
  <1>3. RowsTell'
    BY <1>1, <1>2 DEF KeysHold, RowsTell
  <1>4. pc \in [Workers -> [at : {"idle", "asking", "answered"}, of : Commands,
               answer : {"none", "done", "unclear", "refused"} \cup PostingStatuses]]
    BY DEF KeysHold, Typed, ShipTypeOK
  <1>5. \A v \in Workers : v # w => pc'[v] = pc[v]
    BY <1>4 DEF Answer, FaultStep, Fail, ReadOld, Refuse, Crash, Answered
  <1>6. Remembers(w)'
    <2>1. CASE Crash(w)
      <3>1. pc'[w] = Idle
        BY <1>4, <2>1 DEF Crash
      <3> QED BY <3>1, IdleRemembers
    <2>2. CASE ~Crash(w)
      <3>1. PICK a : /\ pc[w].at = "asking" /\ Answered(w, a)
                     /\ pc[w].of = Ship /\ a = "done" => posting' # "awaiting_packaging"
                     /\ pc[w].of \in Reads =>
                          \/ a \in {"unclear", "refused"}
                          \/ a = posting /\ posting' = posting
                          \/ a = "awaiting_packaging" /\ posting = "awaiting_deliver"
        <4>1. CASE Answer(w)
          <5>1. CASE pc[w].of = Ship
            BY <4>1, <5>1, Keys DEF Answer, Shipped
          <5>2. CASE pc[w].of \in Reads
            BY <4>1, <5>2, Keys DEF Answer
          <5>3. CASE pc[w].of = Label
            BY <4>1, <5>3, Keys DEF Answer
          <5> QED BY <4>1, <5>1, <5>2, <5>3 DEF Answer
        <4>2. CASE Fail(w)
          BY <4>2 DEF Fail
        <4>3. CASE ReadOld(w)
          BY <4>3, Keys DEF ReadOld
        <4>4. CASE Refuse(w)
          BY <4>4 DEF Refuse
        <4> QED BY <2>2, <4>1, <4>2, <4>3, <4>4 DEF FaultStep
      <3>2. pc'[w].at = "answered" /\ pc'[w].of = pc[w].of /\ pc'[w].answer = a
        BY <1>4, <3>1 DEF Answered
      <3>3. /\ pc[w].of = Ship => Tries > 0
            /\ pc[w].of = Read(0) => cmd[Read(0)].st # "none" /\ posting \in Gone
        BY <3>1 DEF KeysHold, Remembers, RowsTell, Busy
      <3>4. \A c, b : Has(w, c, b)' <=> c = pc[w].of /\ b = a
        BY <3>2 DEF Has
      <3>5. ASSUME NEW c \in Reads
            PROVE  /\ Has(w, c, "delivering")' => posting' \in Gone
                   /\ Has(w, c, "cancelled")' => posting' = "cancelled"
        BY <3>1, <3>4
      <3>6. Read(0) \in Reads
        BY Keys, ShipAssumption
      <3>7. ~Has(w, Read(0), "awaiting_packaging")' /\ ~Has(w, Read(0), "awaiting_deliver")'
        BY <3>1, <3>3, <3>4, <3>6
      <3>8. Has(w, Ship, "done")' => posting' # "awaiting_packaging"
        BY <3>1, <3>4
      <3>9. Busy(w)' => /\ pc'[w].of = Ship => Tries' > 0
                        /\ pc'[w].of = Read(0) => cmd'[Read(0)].st # "none"
        BY <1>1, <1>2, <3>2, <3>3
      <3> QED BY <3>5, <3>7, <3>8, <3>9 DEF Remembers
    <2> QED BY <2>1, <2>2
  <1>7. ASSUME NEW v \in Workers PROVE Remembers(v)'
    <2>1. CASE v = w
      BY <1>6, <2>1
    <2>2. CASE v # w
      BY <1>1, <1>2, <1>5, <2>2, StillRemembers DEF KeysHold
    <2> QED BY <2>1, <2>2
  <1> QED BY <1>3, <1>7

LEMMA KeysStep ==
  ASSUME KeysHold, [Next]_vars
  PROVE  KeysHold'
  <1>1. Typed'
    BY TypedStep DEF KeysHold
  <1>2. ASSUME NEW w \in Workers, WorkerStep(w)
        PROVE  RowsTell' /\ \A v \in Workers : Remembers(v)'
    BY <1>2, ClaimTells, AnswersTell, ShipTells, LabelTells, ReadTells DEF WorkerStep
  <1>3. CASE UNCHANGED vars
    <2>1. RowsTell'
      BY <1>3 DEF KeysHold, RowsTell, Tries, vars
    <2>2. ASSUME NEW v \in Workers PROVE Remembers(v)'
      BY <1>3, StillRemembers DEF KeysHold, Tries, vars
    <2> QED BY <1>1, <2>1, <2>2 DEF KeysHold
  <1>4. CASE Next
    <2>1. RowsTell' /\ \A v \in Workers : Remembers(v)'
      BY <1>2, <1>4, ScheduleTells, OutsideTells, AnswersTell, StaleTells DEF Next
    <2> QED BY <1>1, <2>1 DEF KeysHold
  <1> QED BY <1>3, <1>4

\* However slow the workers are: the command table and the workers' memories are
\* well formed, and no command is claimed beyond its last attempt.
THEOREM ShipTyping == Spec => []ShipTypeOK
  <1>1. Init => Typed
    BY InitInvariant DEF Invariant, Typed
  <1>2. Typed /\ [Next]_vars => Typed'
    BY TypedStep
  <1>3. Typed => ShipTypeOK
    BY DEF Typed
  <1> QED BY <1>1, <1>2, <1>3, PTL DEF Spec

\* However slow the workers are, whatever calls fail or arrive late: as long as the
\* order knows its posting's status and wants its label, the command that status
\* asks for is not spent, so that the scheduler or a worker can still bring the
\* label on.
THEOREM ShipKeyIsNotSpent == Spec => []KeyIsNotSpent
  <1>1. Init => KeysHold
    <2>1. SUFFICES ASSUME Init PROVE KeysHold
      OBVIOUS
    <2>2. Typed
      BY <2>1, InitInvariant DEF Invariant, Typed
    <2>3. \A c \in Commands : cmd[c].st = "none"
      BY <2>1 DEF Init, NoCommand
    <2>4. Read(0) \in Commands /\ Ship \in Commands /\ Label \in Commands
      BY Keys, ShipAssumption
    <2>5. RowsTell
      BY <2>1, <2>3, <2>4 DEF RowsTell, Init
    <2>6. \A v \in Workers : pc[v].at = "idle"
      BY <2>1 DEF Init, Idle
    <2>7. \A v \in Workers : Remembers(v)
      BY <2>6 DEF Remembers, Busy, Has
    <2> QED BY <2>2, <2>5, <2>7 DEF KeysHold
  <1>2. KeysHold /\ [Next]_vars => KeysHold'
    BY KeysStep
  <1>3. KeysHold => KeyIsNotSpent
    <2>1. SUFFICES ASSUME KeysHold, label = "requested", known = posting, known # "cancelled"
                   PROVE  cmd[NextCommand].st # "confirmed"
      BY DEF KeyIsNotSpent
    <2>2. known \in {"awaiting_packaging", "awaiting_deliver", "delivering"}
      BY <2>1 DEF KeysHold, Typed, ShipTypeOK, PostingStatuses
    <2>3. RowsTell
      BY <2>1 DEF KeysHold
    <2> QED BY <2>1, <2>2, <2>3 DEF RowsTell, NextCommand
  <1> QED BY <1>1, <1>2, <1>3, PTL DEF Spec

\* Whatever calls fail, arrive late or are lost with their worker: the readback
\* that can settle a ship in doubt is still to come.
THEOREM ShipDoubtIsChecked ==
  ASSUME MaxStalls = 0
  PROVE  Spec => []DoubtIsChecked
  <1>1. Invariant => DoubtIsChecked
    BY DEF Invariant
  <1> QED BY <1>1, ShipInvariant, PTL

\* Whatever calls fail, arrive late or are lost with their worker: a ship is sent
\* again only once a readback found the posting still waiting.
THEOREM ShipNeverResentBlindly ==
  ASSUME MaxStalls = 0
  PROVE  Spec => NoBlindResend
  <1>1. /\ Invariant
        /\ [Next]_vars
        => [ cmd'[Ship].tries > cmd[Ship].tries /\ cmd[Ship].tries > 0
             => cmd[Read(cmd[Ship].tries)].st = "confirmed" ]_vars
    BY ResendIsChecked
  <1> QED BY <1>1, ShipInvariant, PTL DEF Spec, NoBlindResend
=============================================================================
