----------------------- MODULE FbsFulfilmentBooksProofs -----------------------
(***************************************************************************)
(* The books of picking and verification agree, for any number of orders,  *)
(* balances, waves and employees: the rows of an order with its status and *)
(* task, the counters of tasks and waves with the rows, the balances with  *)
(* all rows, and the waves and labels with the tasks.                      *)
(***************************************************************************)
EXTENDS FbsFulfilmentProofs, FbsSums

-----------------------------------------------------------------------------
(***************************************************************************)
(* What the rows of one order add up to.                                   *)
(***************************************************************************)

ResOf(rows) == [b \in Balances |-> rows[b].res]
PickedOf(rows) == [b \in Balances |-> rows[b].picked]
Planned(rows) == SumFunctionOnSet(ResOf(rows), Balances)
Taken(rows) == SumFunctionOnSet(PickedOf(rows), Balances)

\* The sums of the model.
LEMMA SumsOfRows ==
  ASSUME NEW rows
  PROVE  SumOf(Reserved, rows) = Planned(rows) /\ SumOf(Picked, rows) = Taken(rows)
BY DEF SumOf, SumFunction, Reserved, Picked, Planned, Taken, ResOf, PickedOf

LEMMA RowSumsTyped ==
  ASSUME NEW rows \in [Balances -> Rows]
  PROVE  /\ Planned(rows) \in Nat /\ Taken(rows) \in Nat
         /\ \A b \in Balances : rows[b].res <= Planned(rows)
                             /\ rows[b].picked <= Taken(rows)
<1>1. \A b \in Balances : /\ ResOf(rows)[b] \in Nat /\ ResOf(rows)[b] = rows[b].res
                          /\ PickedOf(rows)[b] \in Nat
                          /\ PickedOf(rows)[b] = rows[b].picked
  BY DEF ResOf, PickedOf, Rows
<1>2. IsFiniteSet(Balances)
  BY ConstantsAssumption
<1>. QED  BY <1>1, <1>2, SumIsNat DEF Planned, Taken

\* A plan is carried by some row.
LEMMA PlanNeedsRow ==
  ASSUME NEW rows \in [Balances -> Rows]
  PROVE  /\ (\A b \in Balances : rows[b].res = 0) => Planned(rows) = 0
         /\ (\A b \in Balances : rows[b].picked = 0) => Taken(rows) = 0
         /\ Planned(rows) > 0 => \E b \in Balances : rows[b].res # 0
<1>1. IsFiniteSet(Balances)
  BY ConstantsAssumption
<1>2. (\A b \in Balances : rows[b].res = 0) => Planned(rows) = 0
  <2>1. (\A b \in Balances : rows[b].res = 0)
          => \A b \in Balances : ResOf(rows)[b] = 0
    BY DEF ResOf
  <2>. QED  BY <1>1, <2>1, SumOfZeros DEF Planned
<1>3. (\A b \in Balances : rows[b].picked = 0) => Taken(rows) = 0
  <2>1. (\A b \in Balances : rows[b].picked = 0)
          => \A b \in Balances : PickedOf(rows)[b] = 0
    BY DEF PickedOf
  <2>. QED  BY <1>1, <2>1, SumOfZeros DEF Taken
<1>. QED  BY <1>2, <1>3, RowSumsTyped

\* Rows with the same quantities add up to the same.
LEMMA SameRowSums ==
  ASSUME NEW rows, NEW next,
         \A b \in Balances : /\ next[b].res = rows[b].res
                             /\ next[b].picked = rows[b].picked
  PROVE  Planned(next) = Planned(rows) /\ Taken(next) = Taken(rows)
BY DEF Planned, Taken, ResOf, PickedOf

\* Rows that were all picked.
LEMMA AllTaken ==
  ASSUME NEW rows, \A b \in Balances : rows[b].picked = rows[b].res
  PROVE  Taken(rows) = Planned(rows)
BY DEF Planned, Taken, ResOf, PickedOf

\* One row changes.
LEMMA RowSumsChanged ==
  ASSUME NEW rows \in [Balances -> Rows], NEW b \in Balances, NEW row \in Rows
  PROVE  /\ Planned([rows EXCEPT ![b] = row]) = Planned(rows) - rows[b].res + row.res
         /\ Taken([rows EXCEPT ![b] = row]) = Taken(rows) - rows[b].picked + row.picked
<1>. DEFINE next == [rows EXCEPT ![b] = row]
<1>1. IsFiniteSet(Balances)
  BY ConstantsAssumption
<1>2. next[b] = row /\ \A c \in Balances : c # b => next[c] = rows[c]
  OBVIOUS
<1>. HIDE DEF next
<1>3. /\ \A c \in Balances : ResOf(rows)[c] \in Int /\ PickedOf(rows)[c] \in Int
      /\ ResOf(next)[b] = row.res /\ PickedOf(next)[b] = row.picked
      /\ row.res \in Int /\ row.picked \in Int
      /\ ResOf(rows)[b] = rows[b].res /\ PickedOf(rows)[b] = rows[b].picked
      /\ \A c \in Balances : c # b => /\ ResOf(next)[c] = ResOf(rows)[c]
                                     /\ PickedOf(next)[c] = PickedOf(rows)[c]
  BY <1>2 DEF ResOf, PickedOf, Rows
<1>4. Planned(next) = Planned(rows) - rows[b].res + row.res
  BY <1>1, <1>3, SumChanged DEF Planned
<1>5. Taken(next) = Taken(rows) - rows[b].picked + row.picked
  BY <1>1, <1>3, SumChanged DEF Taken
<1>. QED  BY <1>4, <1>5 DEF next

-----------------------------------------------------------------------------
(***************************************************************************)
(* Rows: what a row holds at each stage.                                   *)
(***************************************************************************)

RowFits(row) ==
  /\ row.st = "none" => row = NoRow
  /\ row.st = "reserved" => row.res > 0 /\ row.picked = 0 /\ row.ver = 0
  /\ row.st = "picking" => row.picked < row.res /\ row.ver = 0
  /\ row.st \in {"picked", "canceled"} => row.picked = row.res /\ row.res > 0

RowsFit == \A o \in Orders, b \in Balances : RowFits(alloc[o][b])

LEMMA NoRowFits == RowFits(NoRow) /\ NoRow \in Rows
BY DEF RowFits, NoRow, Rows, RowStatuses

\* A row that lost some of its open units.
LEMMA LostUnitsFits ==
  ASSUME NEW row \in Rows, RowFits(row), IsActive(row),
         NEW n \in Nat, n > 0, n <= Open(row)
  PROVE  /\ RowFits(LostUnits(row, n))
         /\ LostUnits(row, n).res = row.res - n
         /\ LostUnits(row, n).picked = row.picked
         /\ LostUnits(row, n).st \in {"none", "picked", row.st}
         /\ IsActive(LostUnits(row, n)) <=> n < Open(row)
         /\ LostUnits(row, n).st = "picked" <=> n = Open(row) /\ row.picked > 0
         /\ IsActive(LostUnits(row, n)) => Open(LostUnits(row, n)) = Open(row) - n
<1>0. /\ row.res \in Nat /\ row.picked \in Nat /\ row.picked < row.res
      /\ row.ver = 0 /\ row.st \in {"reserved", "picking"}
      /\ row.st = "reserved" => row.picked = 0
  BY DEF IsActive, RowFits, Rows
<1>1. CASE row.res = n
  BY <1>0, <1>1, NoRowFits DEF LostUnits, NoRow, IsActive, Open
<1>2. CASE row.res # n
  <2>. DEFINE s == IF row.res - n = row.picked THEN "picked" ELSE row.st
              next == LostUnits(row, n)
  <2>1. next = [row EXCEPT !.res = row.res - n, !.st = s]
    BY <1>2 DEF LostUnits
  <2>2. /\ next.res = row.res - n /\ next.picked = row.picked
        /\ next.st = s /\ next.ver = 0
    BY <1>0, <2>1 DEF Rows
  <2>. HIDE DEF next
  <2>3. row.res - n > 0 /\ row.picked <= row.res - n
    BY <1>0, <1>2 DEF Open
  <2>4. CASE row.res - n = row.picked
    <3>1. s = "picked" /\ n = Open(row) /\ row.picked > 0
      BY <1>0, <2>3, <2>4 DEF Open
    <3>. QED  BY <1>0, <2>2, <2>3, <2>4, <3>1 DEF RowFits, IsActive, next
  <2>5. CASE row.res - n # row.picked
    <3>1. s = row.st /\ n < Open(row)
      BY <1>0, <2>3, <2>5 DEF Open
    <3>2. Open(next) = Open(row) - n
      BY <1>0, <2>2 DEF Open
    <3>3. RowFits(next)
      BY <1>0, <2>2, <2>3, <2>5, <3>1 DEF RowFits
    <3>. QED  BY <1>0, <2>2, <3>1, <3>2, <3>3 DEF IsActive, next
  <2>. QED  BY <2>4, <2>5
<1>. QED  BY <1>1, <1>2

\* Some quantity of every plan of _plan_reservation is a number.
LEMMA PlanIsNat ==
  ASSUME NEW o \in Orders, NEW candidates, NEW take \in Plans(o, candidates),
         NEW b \in Balances
  PROVE  take[b] \in Nat
<1>1. take \in [Balances -> 0 .. Need[o]] /\ Need[o] \in Nat
  BY ConstantsAssumption DEF Plans
<1>. QED  BY <1>1

\* The reservation of an order, as one change: nothing, or a whole plan.
LEMMA ReserveIsHold ==
  ASSUME TypeOK, NEW o \in Orders, ReserveStock(o)
  PROVE  \/ UNCHANGED <<ord, stockVars, alloc>>
         \/ /\ ord[o] \in {"absent", "received", "awaiting_stock"}
            /\ ActiveAt(alloc[o]) = {}
            /\ \/ /\ ord' = [ord EXCEPT ![o] = "awaiting_stock"]
                  /\ UNCHANGED <<stockVars, alloc>>
               \/ \E candidates \in SUBSET Balances :
                    \E take \in Plans(o, candidates) : Hold(o, take)
<1>. DEFINE free == {b \in Balances : lock[b] = "none"}
<1>1. free \in SUBSET Balances /\ Balances \in SUBSET Balances
  OBVIOUS
<1>2. \/ UNCHANGED <<ord, stockVars, alloc>>
      \/ /\ ord[o] \in {"absent", "received", "awaiting_stock"}
         /\ ActiveAt(alloc[o]) = {}
         /\ \/ /\ ord' = [ord EXCEPT ![o] = "awaiting_stock"]
               /\ UNCHANGED <<stockVars, alloc>>
            \/ \E take \in Plans(o, free) : Hold(o, take)
            \/ \E take \in Plans(o, Balances) : Hold(o, take)
  BY DEF ReserveStock
<1>. HIDE DEF free
<1>. QED  BY <1>1, <1>2

\* The rows an order gets in a reservation.
LEMMA HeldRows ==
  ASSUME TypeOK, NEW o \in Orders, NEW candidates \in SUBSET Balances,
         NEW take \in Plans(o, candidates), Hold(o, take)
  PROVE  /\ \A c \in Orders : c # o => alloc'[c] = alloc[c]
         /\ \A b \in Balances :
              /\ take[b] = 0 => alloc'[o][b] = alloc[o][b]
              /\ take[b] # 0 => alloc'[o][b] = [st |-> "reserved", res |-> take[b],
                                                picked |-> 0, ver |-> 0]
              /\ resv'[b] = resv[b] + take[b]
         /\ UNCHANGED qty
<1>1. alloc' = [alloc EXCEPT ![o] =
       [b \in Balances |->
          IF take[b] = 0 THEN alloc[o][b]
          ELSE [st |-> "reserved", res |-> take[b], picked |-> 0, ver |-> 0]]]
  BY DEF Hold
<1>2. resv' = [b \in Balances |-> resv[b] + take[b]] /\ UNCHANGED qty
  BY DEF Hold
<1>. QED  BY <1>1, <1>2 DEF TypeOK

\* The rows an order gives up in a release.
LEMMA ReleasedRows ==
  ASSUME TypeOK, NEW o \in Orders, NEW to, NEW gone, NEW have,
         ReleaseReservation(o, to, gone, have)
  PROVE  /\ \A c \in Orders : c # o => alloc'[c] = alloc[c]
         /\ \A b \in Balances :
              /\ IsActive(alloc[o][b]) =>
                   /\ alloc'[o][b] = NoRow
                   /\ alloc[o][b].picked = 0
                   /\ resv'[b] = resv[b] - Open(alloc[o][b])
              /\ ~IsActive(alloc[o][b]) =>
                   alloc'[o][b] = alloc[o][b] /\ resv'[b] = resv[b]
         /\ UNCHANGED qty
<1>1. alloc' = [alloc EXCEPT ![o] =
          [b \in Balances |-> IF b \in ActiveAt(alloc[o]) THEN NoRow
                              ELSE alloc[o][b]]]
  BY DEF ReleaseReservation
<1>2. /\ \A b \in ActiveAt(alloc[o]) : alloc[o][b].picked = 0
      /\ resv' = [b \in Balances |->
           IF b \in ActiveAt(alloc[o]) THEN resv[b] - Open(alloc[o][b])
           ELSE resv[b]]
      /\ UNCHANGED qty
  BY DEF ReleaseReservation
<1>3. \A b \in Balances : b \in ActiveAt(alloc[o]) <=> IsActive(alloc[o][b])
  BY DEF ActiveAt
<1>. QED  BY <1>1, <1>2, <1>3 DEF TypeOK

\* The row a picker's scan leaves.
Scanned(row) ==
  [row EXCEPT !.picked = @ + 1, !.st = IF Open(row) = 1 THEN "picked" ELSE "picking"]

LEMMA ScannedFits ==
  ASSUME NEW row \in Rows, RowFits(row), row.st = "picking", Open(row) > 0
  PROVE  /\ RowFits(Scanned(row)) /\ Scanned(row) \in Rows
         /\ Scanned(row).res = row.res
         /\ Scanned(row).picked = row.picked + 1
         /\ Scanned(row).st = "picked" <=> Open(row) = 1
         /\ Scanned(row).st = "picking" <=> Open(row) # 1
<1>1. /\ row.res \in Nat /\ row.picked \in Nat /\ row.picked < row.res
      /\ row.ver = 0
  BY DEF RowFits, Rows
<1>2. PICK s \in {"picked", "picking"} : s = IF Open(row) = 1 THEN "picked" ELSE "picking"
  OBVIOUS
<1>3. Scanned(row) = [row EXCEPT !.picked = row.picked + 1, !.st = s]
  BY <1>2 DEF Scanned
<1>4. /\ Scanned(row).res = row.res /\ Scanned(row).picked = row.picked + 1
      /\ Scanned(row).st = s /\ Scanned(row).ver = 0
      /\ Scanned(row) \in Rows
  <2>1. s \in RowStatuses
    BY DEF RowStatuses
  <2>2. [row EXCEPT !.picked = @ + 1, !.st = s] \in Rows
    BY ONLY row \in Rows, <2>1, RowProgressTyped
  <2>3. Scanned(row) = [row EXCEPT !.picked = @ + 1, !.st = s]
    BY <1>2 DEF Scanned
  <2>4. Scanned(row) \in Rows
    BY ONLY <2>2, <2>3
  <2>. QED  BY <1>1, <1>3, <2>4 DEF Rows
<1>5. RowFits(Scanned(row))
  <2>1. CASE Open(row) = 1
    BY <1>1, <1>2, <1>4, <2>1 DEF RowFits, Open
  <2>2. CASE Open(row) # 1
    BY <1>1, <1>2, <1>4, <2>2 DEF RowFits, Open
  <2>. QED  BY <2>1, <2>2
<1>6. /\ s = "picked" <=> Open(row) = 1
      /\ s = "picking" <=> Open(row) # 1
  BY <1>2
<1>. QED  BY <1>4, <1>5, <1>6

\* A scan of a picker changes one row.
LEMMA PickedRows ==
  ASSUME TypeOK, NEW p \in Pickers, NEW o \in Orders, NEW b \in Balances,
         PickUnit(p, o, b)
  PROVE  /\ \A c \in Orders : c # o => alloc'[c] = alloc[c]
         /\ alloc'[o] = [alloc[o] EXCEPT ![b] = Scanned(alloc[o][b])]
         /\ alloc[o][b].st = "picking" /\ Open(alloc[o][b]) > 0
         /\ task[o].st = "in_progress"
BY DEF PickUnit, Progress, Scanned, TypeOK, IsTaskActor

\* The orders that lose some of what they were to get, not all of it.
LostPart(group, miss) == {c \in group : miss[c] > 0} \ LostWhole(group, miss)

\* A report of missing units splits them over the group.
LEMMA MissingSplit ==
  ASSUME NEW p \in Pickers, NEW o \in Orders, NEW b \in Balances,
         NEW m \in Nat, ReportMissing(p, o, b, m)
  PROVE  \E miss \in [MissingGroup(p, o, b) -> Nat] :
           /\ SumFunction(miss) = m
           /\ \A c \in MissingGroup(p, o, b) : miss[c] <= Open(alloc[c][b])
           /\ DropMissing(task[o].wave, b, miss,
                          LostWhole(MissingGroup(p, o, b), miss),
                          LostPart(MissingGroup(p, o, b), miss))
<1>1. PICK miss \in Splits(o, b, MissingGroup(p, o, b), m) :
        DropMissing(task[o].wave, b, miss,
                    LostWhole(MissingGroup(p, o, b), miss),
                    LostPart(MissingGroup(p, o, b), miss))
  BY DEF ReportMissing, LostPart
<1>2. /\ miss \in [MissingGroup(p, o, b) -> Nat]
      /\ SumFunction(miss) = m
      /\ \A c \in MissingGroup(p, o, b) : miss[c] <= Open(alloc[c][b])
  BY DEF Splits
<1>. QED  BY <1>1, <1>2

\* The rows after it: those of an order that lost everything are given up, an
\* order that lost a part keeps the rest of one row.
LEMMA MissingRows ==
  ASSUME TypeOK, NEW w, NEW b \in Balances, NEW group \in SUBSET Orders,
         NEW miss \in [group -> Nat],
         DropMissing(w, b, miss, LostWhole(group, miss), LostPart(group, miss))
  PROVE  \A c \in Orders :
           /\ c \in LostWhole(group, miss) =>
                \A x \in Balances :
                  alloc'[c][x] = IF IsActive(alloc[c][x]) THEN NoRow ELSE alloc[c][x]
           /\ c \in LostPart(group, miss) =>
                /\ alloc'[c] = [alloc[c] EXCEPT ![b] = LostUnits(alloc[c][b], miss[c])]
                /\ miss[c] > 0
           /\ c \notin LostWhole(group, miss) /\ c \notin LostPart(group, miss) =>
                alloc'[c] = alloc[c]
<1>1. alloc' = RowsAfterLoss(b, miss, LostWhole(group, miss), LostPart(group, miss))
  BY DEF DropMissing
<1>2. LostWhole(group, miss) \cap LostPart(group, miss) = {}
      /\ \A c \in LostPart(group, miss) : miss[c] > 0
  BY DEF LostPart
<1>. QED  BY <1>1, <1>2 DEF RowsAfterLoss

\* The group of a report: orders being picked whose row at b is open.
LEMMA MissingMembers ==
  ASSUME NEW p, NEW o, NEW b
  PROVE  /\ MissingGroup(p, o, b) \in SUBSET Orders
         /\ \A c \in MissingGroup(p, o, b) :
              /\ task[c].st = "in_progress" /\ task[c].wave = task[o].wave
              /\ IsActive(alloc[c][b])
BY DEF MissingGroup, TasksOf, IsTaskActor

-----------------------------------------------------------------------------
\* One row of one order is replaced by one that fits.
LEMMA FitReplaced ==
  ASSUME TypeOK, RowsFit, NEW o \in Orders, NEW b \in Balances,
         NEW row, RowFits(row),
         \A c \in Orders : c # o => alloc'[c] = alloc[c],
         alloc'[o] = [alloc[o] EXCEPT ![b] = row]
  PROVE  RowsFit'
<1>1. SUFFICES ASSUME NEW c \in Orders, NEW x \in Balances
               PROVE  RowFits(alloc'[c][x])
  BY DEF RowsFit
<1>2. alloc[o] \in [Balances -> Rows] /\ RowFits(alloc[c][x])
  BY DEF TypeOK, RowsFit
<1>3. CASE c = o /\ x = b
  BY <1>2, <1>3
<1>4. CASE c = o /\ x # b
  BY <1>2, <1>4
<1>5. CASE c # o
  BY <1>2, <1>5
<1>. QED  BY <1>3, <1>4, <1>5

LEMMA FitReserved ==
  ASSUME TypeOK, RowsFit, NEW o \in Orders, ReserveStock(o)
  PROVE  RowsFit'
<1>1. ASSUME NEW candidates \in SUBSET Balances,
             NEW take \in Plans(o, candidates), Hold(o, take)
      PROVE  RowsFit'
  <2>1. SUFFICES ASSUME NEW c \in Orders, NEW x \in Balances
                 PROVE  RowFits(alloc'[c][x])
    BY DEF RowsFit
  <2>2. RowFits(alloc[c][x]) /\ take[x] \in Nat
    BY PlanIsNat DEF RowsFit
  <2>3. c # o => alloc'[c] = alloc[c]
    BY <1>1, HeldRows
  <2>4. /\ take[x] = 0 => alloc'[o][x] = alloc[o][x]
        /\ take[x] # 0 => alloc'[o][x] = [st |-> "reserved", res |-> take[x],
                                          picked |-> 0, ver |-> 0]
    BY <1>1, HeldRows
  <2>. QED  BY <2>2, <2>3, <2>4 DEF RowFits
<1>2. CASE UNCHANGED alloc
  BY <1>2 DEF RowsFit
<1>. QED  BY <1>1, <1>2, ReserveIsHold

LEMMA FitReleased ==
  ASSUME TypeOK, RowsFit, NEW o \in Orders, NEW to, NEW gone, NEW have,
         ReleaseReservation(o, to, gone, have)
  PROVE  RowsFit'
<1>1. \A c \in Orders, x \in Balances :
        alloc'[c][x] = alloc[c][x] \/ alloc'[c][x] = NoRow
  BY ReleasedRows
<1>. QED  BY <1>1, NoRowFits DEF RowsFit

\* Rows of orders change to the same row with another status.
LEMMA FitRenamed ==
  ASSUME TypeOK, RowsFit, NEW from \in RowStatuses, NEW to \in RowStatuses,
         \A row \in Rows : RowFits(row) /\ row.st = from
                             => RowFits([row EXCEPT !.st = to]),
         \A c \in Orders, x \in Balances :
           \/ alloc'[c][x] = alloc[c][x]
           \/ /\ alloc[c][x].st = from
              /\ alloc'[c][x] = [alloc[c][x] EXCEPT !.st = to]
  PROVE  RowsFit'
<1>1. SUFFICES ASSUME NEW c \in Orders, NEW x \in Balances
               PROVE  RowFits(alloc'[c][x])
  BY DEF RowsFit
<1>2. alloc[c][x] \in Rows /\ RowFits(alloc[c][x])
  BY DEF RowsFit, TypeOK
<1>. QED  BY <1>2

\* A claim and a report of the controller change the status of rows only.
LEMMA ClaimedRows ==
  ASSUME TypeOK, NEW p, NEW k, NEW w, ClaimWave(p, k, w)
  PROVE  \A c \in Orders, x \in Balances :
           /\ c \in TasksOf(task, w) /\ alloc[c][x].st = "reserved" =>
                alloc'[c][x] = [alloc[c][x] EXCEPT !.st = "picking"]
           /\ ~(c \in TasksOf(task, w) /\ alloc[c][x].st = "reserved") =>
                alloc'[c][x] = alloc[c][x]
BY DEF ClaimWave

LEMMA SetAsideRows ==
  ASSUME TypeOK, NEW k, NEW o \in Orders, ReportProblem(k, o)
  PROVE  /\ \A c \in Orders : c # o => alloc'[c] = alloc[c]
         /\ \A x \in Balances :
              /\ alloc[o][x].st = "picked" =>
                   alloc'[o][x] = [alloc[o][x] EXCEPT !.st = "canceled"]
              /\ alloc[o][x].st # "picked" => alloc'[o][x] = alloc[o][x]
BY DEF ReportProblem, TypeOK

LEMMA VerifiedRow ==
  ASSUME TypeOK, NEW k, NEW o \in Orders, NEW b \in Balances, VerifyUnit(k, o, b)
  PROVE  /\ \A c \in Orders : c # o => alloc'[c] = alloc[c]
         /\ alloc'[o] = [alloc[o] EXCEPT ![b] = [alloc[o][b] EXCEPT !.ver = @ + 1]]
         /\ alloc[o][b].st = "picked" /\ task[o].st = "picked"
BY DEF VerifyUnit, TypeOK

\* Every row holds what its status says, through every operation.
LEMMA RowsFitStep == TypeOK /\ RowsFit /\ [Next]_vars => RowsFit'
<1>. SUFFICES ASSUME TypeOK, RowsFit, [Next]_vars  PROVE RowsFit'
  OBVIOUS
<1>0. ASSUME UNCHANGED alloc  PROVE RowsFit'
  BY <1>0 DEF RowsFit
<1>1. CASE UNCHANGED vars
  BY <1>0, <1>1 DEF vars
<1>2. CASE StockSteps
  BY <1>0, <1>2, FitReserved, FitReleased
  DEF StockSteps, RetryReservation, ReturnUpperTier, ImportOrder,
      RetryException, CountSteps, CheckDrained, StartCounting
<1>3. CASE WaveSteps
  <2>1. ASSUME NEW p \in Pickers, NEW c \in Carts, NEW w \in Waves,
               ClaimWave(p, c, w)
        PROVE  RowsFit'
    <3>1. \A row \in Rows : RowFits(row) /\ row.st = "reserved"
                             => RowFits([row EXCEPT !.st = "picking"])
      BY DEF Rows, RowFits
    <3>. QED  BY <2>1, <3>1, FitRenamed, ClaimedRows DEF RowStatuses
  <2>. QED  BY <1>0, <1>3, <2>1, WaveStepsLeaveStock, WaveStepsLeaveRows
<1>4. CASE PickSteps
  <2>1. ASSUME NEW p \in Pickers, NEW o \in Orders, NEW b \in Balances,
               PickUnit(p, o, b)
        PROVE  RowsFit'
    <3>1. /\ \A c \in Orders : c # o => alloc'[c] = alloc[c]
          /\ alloc'[o] = [alloc[o] EXCEPT ![b] = Scanned(alloc[o][b])]
          /\ alloc[o][b].st = "picking" /\ Open(alloc[o][b]) > 0
      BY <2>1, PickedRows
    <3>2. RowFits(Scanned(alloc[o][b]))
      BY <3>1, ScannedFits DEF TypeOK, RowsFit
    <3>. QED  BY <3>1, <3>2, FitReplaced
  <2>2. ASSUME NEW p \in Pickers, NEW o \in Orders, NEW b \in Balances,
               ReportNotFound(p, o, b)
        PROVE  RowsFit'
    <3>. DEFINE row == alloc[o][b]
    <3>1. CASE ReleaseReservation(o, "awaiting_stock",
                 [NothingGone EXCEPT ![b] = Open(row)], Quarantined(b))
      BY <3>1, FitReleased
    <3>2. CASE /\ Open(row) > 0
               /\ Progress(o, [alloc[o] EXCEPT ![b] = LostUnits(row, Open(row))],
                           0, Open(row))
      <4>1. row \in Rows /\ RowFits(row) /\ IsActive(row)
            /\ Open(row) \in Nat /\ Open(row) <= Open(row)
        BY <2>2, <3>2 DEF Open, Rows, TypeOK, RowsFit, ReportNotFound
      <4>2. RowFits(LostUnits(row, Open(row)))
        BY <3>2, <4>1, LostUnitsFits
      <4>3. alloc' = [alloc EXCEPT ![o] =
                        [alloc[o] EXCEPT ![b] = LostUnits(row, Open(row))]]
        BY <3>2 DEF Progress
      <4>4. /\ \A c \in Orders : c # o => alloc'[c] = alloc[c]
            /\ alloc'[o] = [alloc[o] EXCEPT ![b] = LostUnits(row, Open(row))]
        BY <4>3 DEF TypeOK
      <4>. HIDE DEF row
      <4>. QED  BY <4>2, <4>4, FitReplaced
    <3>. QED  BY <2>2, <3>1, <3>2 DEF ReportNotFound
  <2>3. ASSUME NEW p \in Pickers, NEW o \in Orders, NEW b \in Balances,
               NEW m \in 1 .. resv[b], ReportMissing(p, o, b, m)
        PROVE  RowsFit'
    <3>. DEFINE group == MissingGroup(p, o, b)
    <3>0. m \in Nat
      BY DEF TypeOK
    <3>1. PICK miss \in [group -> Nat] :
            /\ \A c \in group : miss[c] <= Open(alloc[c][b])
            /\ DropMissing(task[o].wave, b, miss, LostWhole(group, miss),
                           LostPart(group, miss))
      BY <2>3, <3>0, MissingSplit
    <3>2. group \in SUBSET Orders /\ \A c \in group : IsActive(alloc[c][b])
      BY MissingMembers
    <3>3. LostPart(group, miss) \subseteq group
      BY DEF LostPart
    <3>. HIDE DEF group
    <3>30. PICK w : w = task[o].wave
      OBVIOUS
    <3>31. DropMissing(w, b, miss, LostWhole(group, miss), LostPart(group, miss))
      BY ONLY <3>1, <3>30
    <3>32. \A c \in Orders :
             /\ c \in LostWhole(group, miss) =>
                  \A x \in Balances :
                    alloc'[c][x] = IF IsActive(alloc[c][x]) THEN NoRow ELSE alloc[c][x]
             /\ c \in LostPart(group, miss) =>
                  /\ alloc'[c] = [alloc[c] EXCEPT ![b] = LostUnits(alloc[c][b], miss[c])]
                  /\ miss[c] > 0
             /\ c \notin LostWhole(group, miss) /\ c \notin LostPart(group, miss) =>
                  alloc'[c] = alloc[c]
      BY ONLY TypeOK, b \in Balances, <3>1, <3>2, <3>31, MissingRows
    <3>4. SUFFICES ASSUME NEW c \in Orders, NEW x \in Balances
                   PROVE  RowFits(alloc'[c][x])
      BY DEF RowsFit
    <3>5. alloc[c] \in [Balances -> Rows] /\ RowFits(alloc[c][x])
          /\ RowFits(alloc[c][b])
      BY DEF TypeOK, RowsFit
    <3>6. CASE c \in LostPart(group, miss)
      <4>1. /\ alloc'[c] = [alloc[c] EXCEPT ![b] = LostUnits(alloc[c][b], miss[c])]
            /\ miss[c] > 0
        BY <3>32, <3>6
      <4>2. RowFits(LostUnits(alloc[c][b], miss[c]))
        BY <3>1, <3>2, <3>3, <3>5, <3>6, <4>1, LostUnitsFits
      <4>3. CASE x = b
        BY <3>5, <4>1, <4>2, <4>3
      <4>4. CASE x # b
        BY <3>5, <4>1, <4>4
      <4>. QED  BY <4>3, <4>4
    <3>7. CASE c \notin LostPart(group, miss)
      <4>1. alloc'[c][x] = alloc[c][x] \/ alloc'[c][x] = NoRow
        BY <3>32, <3>7
      <4>. QED  BY <3>5, <4>1, NoRowFits
    <3>. QED  BY <3>6, <3>7
  <2>. QED  BY <1>0, <1>4, <2>1, <2>2, <2>3 DEF PickSteps, ReportOther, HandOver
<1>5. CASE VerifySteps
  <2>1. ASSUME NEW k \in Controllers, NEW o \in Orders, NEW b \in Balances,
               VerifyUnit(k, o, b)
        PROVE  RowsFit'
    <3>. DEFINE row == alloc[o][b]
                next == [row EXCEPT !.ver = @ + 1]
    <3>1. /\ \A c \in Orders : c # o => alloc'[c] = alloc[c]
          /\ alloc'[o] = [alloc[o] EXCEPT ![b] = next]
          /\ row.st = "picked"
      BY <2>1, VerifiedRow
    <3>2. RowFits(next)
      BY <3>1 DEF RowFits, RowsFit, TypeOK, Rows
    <3>. HIDE DEF next
    <3>. QED  BY <3>1, <3>2, FitReplaced
  <2>2. ASSUME NEW k \in Controllers, NEW o \in Orders, ReportProblem(k, o)
        PROVE  RowsFit'
    <3>1. \A row \in Rows : RowFits(row) /\ row.st = "picked"
                             => RowFits([row EXCEPT !.st = "canceled"])
      BY DEF Rows, RowFits
    <3>2. \A c \in Orders, x \in Balances :
            \/ alloc'[c][x] = alloc[c][x]
            \/ /\ alloc[c][x].st = "picked"
               /\ alloc'[c][x] = [alloc[c][x] EXCEPT !.st = "canceled"]
      BY <2>2, SetAsideRows
    <3>. QED  BY <3>1, <3>2, FitRenamed DEF RowStatuses
  <2>. QED  BY <1>0, <1>5, <2>1, <2>2
       DEF VerifySteps, ClaimVerification, PrefetchLabel, RegisterLabel,
           ConfirmLabel
<1>. QED  BY <1>1, <1>2, <1>3, <1>4, <1>5 DEF Next, PickingNext

-----------------------------------------------------------------------------
(***************************************************************************)
(* Orders: status, task and rows of an order tell one story.               *)
(***************************************************************************)

Only(rows, sts) == \A b \in Balances : rows[b].st \in sts
Has(rows, st) == \E b \in Balances : rows[b].st = st

\* The rows of an order: waiting on the shelf, being picked, all in the tote,
\* or set aside by the controller.
OnShelf(o) == Only(alloc[o], {"none", "reserved"}) /\ Planned(alloc[o]) = Need[o]
InHand(o) == Only(alloc[o], {"none", "picking", "picked"}) /\ Has(alloc[o], "picking")
InTote(o) == Only(alloc[o], {"none", "picked"}) /\ Has(alloc[o], "picked")
SetAside(o) ==
  /\ Only(alloc[o], {"none", "canceled"}) /\ Has(alloc[o], "canceled")
  /\ wave[task[o].wave].handed

Stage(o) ==
  /\ ord[o] \in {"absent", "received", "awaiting_stock", "cancelled"} =>
       task[o] = NoTask /\ Only(alloc[o], {"none"})
  /\ ord[o] = "reserved" => task[o] = NoTask /\ OnShelf(o)
  /\ ord[o] = "queued_for_pick" => task[o].st = "queued" /\ OnShelf(o)
  /\ ord[o] = "picking" => task[o].st = "in_progress" /\ InHand(o)
  /\ ord[o] \in {"picked", "ready_for_handover"} =>
       task[o].st = "picked" /\ InTote(o)
  /\ ord[o] = "exception" =>
       task[o].st = "exception" /\ (InHand(o) \/ SetAside(o))

\* The counters of a task are those of its rows, and it stands for the whole
\* order as long as no shortage of it is open.
Books(o) ==
  /\ task[o].st = "none" => tPlanned[o] = 0 /\ tPicked[o] = 0 /\ short[o] = {}
  /\ task[o].st # "none" =>
       /\ tPlanned[o] = Planned(alloc[o])
       /\ tPicked[o] = Taken(alloc[o])
       /\ short[o] = {} => tPlanned[o] = Need[o]

OrdersSound == \A o \in Orders : Stage(o) /\ Books(o)

CountersTyped ==
  /\ tPlanned \in [Orders -> Nat] /\ tPicked \in [Orders -> Nat]
  /\ wPlanned \in [Waves -> Nat] /\ wPicked \in [Waves -> Nat]

\* The status of a task tells the status of its order.
LEMMA OrderOfTask ==
  ASSUME TypeOK, NEW o \in Orders, Stage(o)
  PROVE  /\ task[o].st = "none" =>
              ord[o] \in {"absent", "received", "awaiting_stock", "cancelled",
                          "reserved"}
         /\ task[o].st = "queued" => ord[o] = "queued_for_pick"
         /\ task[o].st = "in_progress" => ord[o] = "picking"
         /\ task[o].st = "picked" => ord[o] \in {"picked", "ready_for_handover"}
         /\ task[o].st = "exception" => ord[o] = "exception"
         /\ task[o].st # "none" => task[o].wave \in Waves
<1>1. ord[o] \in OrderStatuses /\ task[o] \in Tasks
  BY DEF TypeOK
<1>2. task[o].st # "none" => task[o].wave \in Waves
  BY <1>1 DEF Tasks, NoTask
<1>3. NoTask.st = "none"
  BY DEF NoTask
<1>. QED  BY <1>1, <1>2, <1>3 DEF Stage, OrderStatuses

\* Merging and regrouping deal out the tasks of untouched waves again.
LEMMA RepackOfUntouched ==
  ASSUME \/ \E w \in Waves, ws \in SUBSET Waves : MergeWaves(w, ws)
         \/ RegroupWaves
  PROVE  \E ws \in SUBSET Waves : \E to \in [Orders -> ws] :
           Repack(ws, to) /\ \A w \in ws : Untouched(w)
<1>1. ASSUME NEW w \in Waves, NEW ws \in SUBSET Waves, MergeWaves(w, ws)
      PROVE  \E vs \in SUBSET Waves : \E to \in [Orders -> vs] :
               Repack(vs, to) /\ \A v \in vs : Untouched(v)
  <2>. DEFINE vs == ws \cup {w}
              to == [o \in Orders |-> w]
  <2>1. Repack(vs, to) /\ \A v \in vs : Untouched(v)
    BY <1>1 DEF MergeWaves
  <2>2. vs \in SUBSET Waves /\ to \in [Orders -> vs]
    OBVIOUS
  <2>. HIDE DEF vs, to
  <2>. QED  BY <2>1, <2>2
<1>2. CASE RegroupWaves
  <2>. DEFINE vs == {w \in Waves : Untouched(w)}
  <2>1. PICK to \in [Orders -> vs] : Repack(vs, to)
    BY <1>2 DEF RegroupWaves
  <2>2. vs \in SUBSET Waves /\ \A w \in vs : Untouched(w)
    OBVIOUS
  <2>. HIDE DEF vs
  <2>. QED  BY <2>1, <2>2
<1>. QED  BY <1>1, <1>2

\* The ways to build, repack and claim waves.
LEMMA WaveCases ==
  ASSUME WaveSteps
  PROVE  \/ \E w \in Waves, os \in (SUBSET Orders) \ {{}} : AttachOrders(w, os)
         \/ \E ws \in SUBSET Waves : \E to \in [Orders -> ws] :
              Repack(ws, to) /\ \A w \in ws : Untouched(w)
         \/ \E p \in Pickers, k \in Carts, w \in Waves : ClaimWave(p, k, w)
         \/ \E p \in Pickers, k \in Carts, w \in Waves : TakeOverWave(p, k, w)
<1>1. CASE \E w \in Waves, os \in (SUBSET Orders) \ {{}} : AttachOrders(w, os)
  BY <1>1
<1>2. CASE \/ \E w \in Waves, ws \in SUBSET Waves : MergeWaves(w, ws)
           \/ RegroupWaves
  BY <1>2, RepackOfUntouched
<1>3. CASE \E p \in Pickers, k \in Carts, w \in Waves :
             ClaimWave(p, k, w) \/ TakeOverWave(p, k, w)
  BY ONLY <1>3
<1>. QED  BY ONLY <1>1, <1>2, <1>3, WaveSteps DEF WaveSteps

\* A wave that was handed over stays so.
HandedStays == \A w \in Waves : wave[w].handed => wave'[w].handed

LEMMA HandedStep == TypeOK /\ [Next]_vars => HandedStays
<1>. SUFFICES ASSUME TypeOK, [Next]_vars  PROVE HandedStays
  OBVIOUS
<1>0. ASSUME \A w \in Waves : \/ wave'[w] = wave[w]
                              \/ \E s : wave'[w] = [wave[w] EXCEPT !.st = s]
      PROVE  HandedStays
  BY <1>0 DEF HandedStays, TypeOK, Batches
<1>1. ASSUME NEW w \in Waves, NEW s, wave' = [wave EXCEPT ![w].st = s]
      PROVE  HandedStays
  <2>1. \A v \in Waves : wave'[v] = wave[v] \/ wave'[v] = [wave[v] EXCEPT !.st = s]
    BY <1>1 DEF TypeOK
  <2>. QED  BY <1>0, <2>1
<1>2. CASE UNCHANGED wave
  BY <1>0, <1>2
<1>3. \A o \in Orders : task[o].st # "none" => task[o].wave \in Waves
  BY DEF TypeOK, Tasks, NoTask
<1>4. ASSUME NEW o \in Orders, NEW to, NEW gone, NEW have,
             ReleaseReservation(o, to, gone, have)
      PROVE  HandedStays
  <2>1. CASE task[o].st = "none"
    BY <1>2, <1>4, <2>1 DEF ReleaseReservation, waveVars
  <2>2. CASE task[o].st # "none"
    <3>1. \E s : wave' = [wave EXCEPT ![task[o].wave].st = s]
      BY <1>4, <2>2 DEF ReleaseReservation
    <3>. QED  BY <1>1, <1>3, <2>2, <3>1
  <2>. QED  BY <2>1, <2>2
<1>5. CASE StockSteps
  BY <1>2, <1>4, <1>5
  DEF StockSteps, RetryReservation, ReturnUpperTier, ImportOrder,
      RetryException, CountSteps, CheckDrained, StartCounting, waveVars
<1>6. CASE WaveSteps
  <2>1. ASSUME NEW w \in Waves, NEW os, AttachOrders(w, os)  PROVE HandedStays
    <3>1. wave' = [wave EXCEPT ![w].st = "queued"]
      BY <2>1 DEF AttachOrders
    <3>. QED  BY <1>1, <3>1
  <2>2. ASSUME NEW ws, NEW to, Repack(ws, to)  PROVE HandedStays
    BY <1>0, <2>2 DEF Repack
  <2>3. ASSUME NEW p \in Pickers, NEW c \in Carts, NEW w \in Waves,
               ClaimWave(p, c, w)
        PROVE  HandedStays
    BY <2>3 DEF ClaimWave, HandedStays, TypeOK, Batches
  <2>4. ASSUME NEW p \in Pickers, NEW c \in Carts, NEW w \in Waves,
               TakeOverWave(p, c, w)
        PROVE  HandedStays
    BY <2>4 DEF TakeOverWave, HandedStays, TypeOK, Batches
  <2>5. CASE \E w \in Waves, os \in (SUBSET Orders) \ {{}} : AttachOrders(w, os)
    BY ONLY <2>1, <2>5
  <2>6. CASE \E ws \in SUBSET Waves : \E to \in [Orders -> ws] :
               Repack(ws, to) /\ \A w \in ws : Untouched(w)
    BY ONLY <2>2, <2>6
  <2>7. CASE \E p \in Pickers, k \in Carts, w \in Waves : ClaimWave(p, k, w)
    BY ONLY <2>3, <2>7
  <2>8. CASE \E p \in Pickers, k \in Carts, w \in Waves : TakeOverWave(p, k, w)
    BY ONLY <2>4, <2>8
  <2>. QED  BY ONLY <1>6, <2>5, <2>6, <2>7, <2>8, WaveCases
<1>7. CASE PickSteps
  <2>1. ASSUME NEW o \in Orders, task[o].st # "none", NEW rows, NEW n, NEW m,
               Progress(o, rows, n, m)
        PROVE  HandedStays
    <3>1. \E s : wave' = [wave EXCEPT ![task[o].wave].st = s]
      BY <2>1 DEF Progress
    <3>. QED  BY <1>1, <1>3, <2>1, <3>1
  <2>2. ASSUME NEW p \in Pickers, NEW o \in Orders, NEW b \in Balances,
               ReportNotFound(p, o, b)
        PROVE  HandedStays
    BY <1>4, <2>1, <2>2 DEF ReportNotFound, IsTaskActor
  <2>3. ASSUME NEW p \in Pickers, NEW o \in Orders, NEW b \in Balances, NEW m,
               ReportMissing(p, o, b, m)
        PROVE  HandedStays
    <3>1. \E s : wave' = [wave EXCEPT ![task[o].wave].st = s]
      BY <2>3 DEF ReportMissing, DropMissing
    <3>. QED  BY <1>1, <1>3, <2>3, <3>1 DEF ReportMissing, IsTaskActor
  <2>4. ASSUME NEW p \in Pickers, NEW w \in Waves, HandOver(p, w)
        PROVE  HandedStays
    BY <2>4 DEF HandOver, HandedStays, TypeOK, Batches
  <2>5. ASSUME NEW p \in Pickers, NEW o \in Orders, NEW b \in Balances,
               PickUnit(p, o, b)
        PROVE  HandedStays
    BY <2>1, <2>5 DEF PickUnit, IsTaskActor
  <2>. QED  BY <1>2, <1>7, <2>2, <2>3, <2>4, <2>5
       DEF PickSteps, ReportOther, waveVars
<1>8. CASE VerifySteps
  <2>1. ASSUME NEW k \in Controllers, NEW w \in Waves, ClaimVerification(k, w)
        PROVE  HandedStays
    BY <2>1 DEF ClaimVerification, HandedStays, TypeOK, Batches
  <2>2. ASSUME NEW k \in Controllers, NEW o \in Orders, ConfirmLabel(k, o)
        PROVE  HandedStays
    BY <1>0, <2>2 DEF ConfirmLabel
  <2>3. ASSUME NEW k \in Controllers, NEW o \in Orders, ReportProblem(k, o)
        PROVE  HandedStays
    <3>1. \E s : wave' = [wave EXCEPT ![task[o].wave].st = s]
      BY <2>3 DEF ReportProblem
    <3>. QED  BY <1>1, <1>3, <2>3, <3>1 DEF ReportProblem
  <2>4. ASSUME NEW k \in Controllers, NEW o \in Orders, NEW b \in Balances,
               VerifyUnit(k, o, b)
        PROVE  HandedStays
    BY <1>2, <2>4 DEF VerifyUnit, waveVars
  <2>5. ASSUME NEW o \in Orders, PrefetchLabel(o)  PROVE HandedStays
    BY <1>2, <2>5 DEF PrefetchLabel, waveVars
  <2>6. ASSUME NEW o \in Orders, RegisterLabel(o)  PROVE HandedStays
    BY <1>2, <2>6 DEF RegisterLabel, waveVars
  <2>. QED  BY <1>8, <2>1, <2>2, <2>3, <2>4, <2>5, <2>6 DEF VerifySteps
<1>. QED  BY <1>2, <1>5, <1>6, <1>7, <1>8 DEF Next, PickingNext, vars, waveVars

\* An order a step leaves alone, up to the scans of the controller.
Untold(c) ==
  /\ \A b \in Balances : /\ alloc'[c][b].st = alloc[c][b].st
                         /\ alloc'[c][b].res = alloc[c][b].res
                         /\ alloc'[c][b].picked = alloc[c][b].picked
  /\ ord'[c] = ord[c] /\ short'[c] = short[c]
  /\ tPlanned'[c] = tPlanned[c] /\ tPicked'[c] = tPicked[c]
  /\ task'[c].st = task[c].st
  /\ task[c].st \in {"none", "exception"} => task'[c] = task[c]

LEMMA UntoldSound ==
  ASSUME TypeOK, HandedStays, NEW c \in Orders, Untold(c), Stage(c), Books(c)
  PROVE  Stage(c)' /\ Books(c)'
<1>1. task[c].st = "exception" =>
        /\ task[c].wave \in Waves /\ task'[c] = task[c]
        /\ wave[task[c].wave].handed => wave'[task'[c].wave].handed
  BY OrderOfTask DEF Untold, HandedStays
<1>2. (task[c] = NoTask) => (task'[c] = task[c])
  BY DEF Untold, NoTask
<1>0. Planned(alloc'[c]) = Planned(alloc[c]) /\ Taken(alloc'[c]) = Taken(alloc[c])
  BY SameRowSums DEF Untold
<1>3. /\ OnShelf(c) => OnShelf(c)'
      /\ InHand(c) => InHand(c)'
      /\ InTote(c) => InTote(c)'
      /\ Only(alloc[c], {"none"}) => Only(alloc'[c], {"none"})
      /\ task[c].st = "exception" /\ SetAside(c) => SetAside(c)'
  BY <1>0, <1>1 DEF Untold, OnShelf, InHand, InTote, SetAside, Only, Has
<1>4. Stage(c)'
  BY <1>1, <1>2, <1>3 DEF Untold, Stage
<1>5. Books(c)'
  BY <1>0 DEF Untold, Books
<1>. QED  BY <1>4, <1>5

\* An order that is given a whole plan.
LEMMA HeldSound ==
  ASSUME TypeOK, RowsFit, NEW o \in Orders, Stage(o), Books(o),
         NEW candidates \in SUBSET Balances, NEW take \in Plans(o, candidates),
         Hold(o, take), ord[o] \in {"absent", "received", "awaiting_stock"},
         UNCHANGED <<task, tPlanned, tPicked, short>>
  PROVE  Stage(o)' /\ Books(o)'
<1>1. task[o] = NoTask /\ \A b \in Balances : alloc[o][b] = NoRow
  BY DEF Stage, Only, RowsFit, RowFits
<1>2. /\ take \in [Balances -> 0 .. Need[o]] /\ SumFunction(take) = Need[o]
  BY DEF Plans
<1>3. \A b \in Balances :
        /\ alloc'[o][b].res = take[b]
        /\ alloc'[o][b].st \in {"none", "reserved"}
  <2>1. SUFFICES ASSUME NEW b \in Balances
                 PROVE  /\ alloc'[o][b].res = take[b]
                        /\ alloc'[o][b].st \in {"none", "reserved"}
    OBVIOUS
  <2>2. /\ take[b] = 0 => alloc'[o][b] = NoRow
        /\ take[b] # 0 => alloc'[o][b] = [st |-> "reserved", res |-> take[b],
                                          picked |-> 0, ver |-> 0]
    BY <1>1, HeldRows
  <2>. QED  BY <2>2 DEF NoRow
<1>4. ResOf(alloc'[o]) = take
  BY <1>2, <1>3 DEF ResOf
<1>5. SumFunctionOnSet(take, Balances) = Need[o]
  BY <1>2 DEF SumFunction
<1>6. Planned(alloc'[o]) = Need[o]
  BY <1>4, <1>5 DEF Planned
<1>7. ord'[o] = "reserved"
  BY DEF Hold, TypeOK
<1>8. Stage(o)'
  BY <1>1, <1>3, <1>6, <1>7 DEF Stage, OnShelf, Only
<1>9. Books(o)'
  BY <1>1 DEF Books, NoTask
<1>. QED  BY <1>8, <1>9

\* An order that gives up its rows, none of which was picked in full.
LEMMA ReleasedSound ==
  ASSUME TypeOK, RowsFit, CountersTyped, NEW o \in Orders, Stage(o), Books(o),
         NEW to \in {"awaiting_stock", "cancelled"}, NEW gone, NEW have,
         \A b \in Balances : alloc[o][b].st # "picked",
         ReleaseReservation(o, to, gone, have)
  PROVE  /\ Stage(o)' /\ Books(o)'
         /\ \A c \in Orders : c # o => Untold(c)
<1>1. ord[o] \in {"reserved", "queued_for_pick", "picking"} /\ ord'[o] = to
      /\ short'[o] = {}
  BY DEF ReleaseReservation, TypeOK
<1>2. Only(alloc'[o], {"none"})
  <2>1. SUFFICES ASSUME NEW b \in Balances  PROVE alloc'[o][b].st = "none"
    BY DEF Only
  <2>2. alloc[o][b].st \in {"none", "reserved", "picking"}
    BY <1>1 DEF Stage, OnShelf, InHand, Only
  <2>3. /\ IsActive(alloc[o][b]) => alloc'[o][b] = NoRow
        /\ ~IsActive(alloc[o][b]) => alloc'[o][b] = alloc[o][b]
    BY ReleasedRows
  <2>. QED  BY <2>2, <2>3 DEF IsActive, NoRow
<1>3. /\ task'[o] = NoTask /\ tPlanned'[o] = 0 /\ tPicked'[o] = 0
      /\ \A c \in Orders : c # o => task'[c] = task[c]
                                 /\ tPlanned'[c] = tPlanned[c]
                                 /\ tPicked'[c] = tPicked[c]
  <2>1. CASE task[o].st = "none"
    <3>1. task[o] = NoTask /\ tPlanned[o] = 0 /\ tPicked[o] = 0
      BY <1>1, <2>1 DEF Stage, Books
    <3>2. UNCHANGED <<task, tPlanned, tPicked>>
      BY <2>1 DEF ReleaseReservation, taskVars
    <3>. QED  BY <3>1, <3>2
  <2>2. CASE task[o].st # "none"
    <3>1. /\ task' = [task EXCEPT ![o] = NoTask]
          /\ tPlanned' = [tPlanned EXCEPT ![o] = 0]
          /\ tPicked' = [tPicked EXCEPT ![o] = 0]
      BY <2>2 DEF ReleaseReservation
    <3>. QED  BY <3>1 DEF TypeOK, CountersTyped
  <2>. QED  BY <2>1, <2>2
<1>4. \A c \in Orders : c # o => alloc'[c] = alloc[c] /\ ord'[c] = ord[c]
                              /\ short'[c] = short[c]
  <2>1. /\ \A c \in Orders : c # o => alloc'[c] = alloc[c]
        /\ \E s : ord' = [ord EXCEPT ![o] = s]
        /\ \E s : short' = [short EXCEPT ![o] = s]
    <3>1. /\ ord' = [ord EXCEPT ![o] = to] /\ short' = [short EXCEPT ![o] = {}]
      BY DEF ReleaseReservation
    <3>2. \A c \in Orders : c # o => alloc'[c] = alloc[c]
      BY ReleasedRows
    <3>. QED  BY ONLY <3>1, <3>2
  <2>. QED  BY <2>1 DEF TypeOK
<1>5. Stage(o)'
  BY <1>1, <1>2, <1>3 DEF Stage
<1>6. Books(o)'
  BY <1>1, <1>3 DEF Books, NoTask
<1>7. \A c \in Orders : c # o => Untold(c)
  BY <1>3, <1>4 DEF Untold
<1>. QED  BY <1>5, <1>6, <1>7

\* An order whose rows moved on in a wave that is being picked.
LEMMA ProgressedSound ==
  ASSUME TypeOK', RowsFit', NEW o \in Orders,
         Only(alloc'[o], {"none", "picking", "picked"}),
         ActiveAt(alloc'[o]) # {} =>
           ord'[o] = "picking" /\ task'[o].st = "in_progress",
         ActiveAt(alloc'[o]) = {} => ord'[o] = "picked" /\ task'[o].st = "picked",
         tPlanned'[o] = Planned(alloc'[o]), tPlanned'[o] > 0,
         tPicked'[o] = Taken(alloc'[o]),
         short'[o] = {} => tPlanned'[o] = Need[o]
  PROVE  Stage(o)' /\ Books(o)'
<1>1. Books(o)'
  BY DEF Books
<1>2. CASE ActiveAt(alloc'[o]) # {}
  <2>1. Has(alloc'[o], "picking")
    BY <1>2 DEF ActiveAt, IsActive, Has, Only
  <2>. QED  BY <1>1, <1>2, <2>1 DEF Stage, InHand
<1>3. CASE ActiveAt(alloc'[o]) = {}
  <2>1. alloc'[o] \in [Balances -> Rows]
    BY DEF TypeOK
  <2>2. PICK b \in Balances : alloc'[o][b].res # 0
    BY <2>1, PlanNeedsRow
  <2>3. RowFits(alloc'[o][b])
    BY DEF RowsFit
  <2>4. alloc'[o][b].st = "picked"
    BY <1>3, <2>2, <2>3 DEF Only, RowFits, NoRow, ActiveAt, IsActive
  <2>5. Only(alloc'[o], {"none", "picked"}) /\ Has(alloc'[o], "picked")
    BY <1>3, <2>4 DEF Only, Has, ActiveAt, IsActive
  <2>. QED  BY <1>1, <1>3, <2>5 DEF Stage, InTote
<1>. QED  BY <1>2, <1>3

\* _finalize_pick_task_progress for the order it is called for.
LEMMA ProgressEffect ==
  ASSUME TypeOK, CountersTyped, NEW o \in Orders, NEW rows,
         NEW dPicked \in Int, NEW dPlanned \in Int, task[o].st = "in_progress",
         ord[o] = "picking", Progress(o, rows, dPicked, dPlanned)
  PROVE  /\ alloc'[o] = rows
         /\ ActiveAt(alloc'[o]) # {} =>
              ord'[o] = "picking" /\ task'[o].st = "in_progress"
         /\ ActiveAt(alloc'[o]) = {} =>
              ord'[o] = "picked" /\ task'[o].st = "picked"
         /\ tPlanned'[o] = tPlanned[o] - dPlanned /\ tPlanned'[o] > 0
         /\ tPicked'[o] = tPicked[o] + dPicked
         /\ \A c \in Orders : c # o =>
              /\ alloc'[c] = alloc[c] /\ ord'[c] = ord[c] /\ task'[c] = task[c]
              /\ tPlanned'[c] = tPlanned[c] /\ tPicked'[c] = tPicked[c]
<1>1. alloc' = [alloc EXCEPT ![o] = rows]
  BY DEF Progress
<1>2. /\ task' = IF ActiveAt(rows) = {} THEN [task EXCEPT ![o].st = "picked"] ELSE task
      /\ ord' = IF ActiveAt(rows) = {} THEN [ord EXCEPT ![o] = "picked"] ELSE ord
  BY DEF Progress
<1>3. /\ tPlanned[o] - dPlanned > 0
      /\ tPlanned' = [tPlanned EXCEPT ![o] = @ - dPlanned]
      /\ tPicked' = [tPicked EXCEPT ![o] = @ + dPicked]
  BY DEF Progress
<1>4. alloc'[o] = rows /\ \A c \in Orders : c # o => alloc'[c] = alloc[c]
  BY <1>1 DEF TypeOK
<1>5. /\ tPlanned'[o] = tPlanned[o] - dPlanned /\ tPicked'[o] = tPicked[o] + dPicked
      /\ \A c \in Orders : c # o => tPlanned'[c] = tPlanned[c]
                                 /\ tPicked'[c] = tPicked[c]
  BY <1>3 DEF CountersTyped
<1>6. /\ ActiveAt(rows) # {} => ord'[o] = "picking" /\ task'[o].st = "in_progress"
      /\ ActiveAt(rows) = {} => ord'[o] = "picked" /\ task'[o].st = "picked"
      /\ \A c \in Orders : c # o => ord'[c] = ord[c] /\ task'[c] = task[c]
  <2>1. task[o] \in [st : TaskStatuses \ {"none"}, wave : Waves,
                     picker : Pickers \cup {None}]
    BY DEF TypeOK, Tasks, NoTask
  <2>. HIDE DEF ActiveAt
  <2>. QED  BY <1>2, <2>1 DEF TypeOK
<1>. QED  BY <1>3, <1>4, <1>5, <1>6
\* The books of every order, given those the step touches.
LEMMA FrameSound ==
  ASSUME TypeOK, HandedStays, OrdersSound,
         \A c \in Orders : Untold(c) \/ (Stage(c)' /\ Books(c)')
  PROVE  OrdersSound'
BY UntoldSound DEF OrdersSound

LEMMA ReservedOrders ==
  ASSUME TypeOK, RowsFit, OrdersSound, HandedStays, NEW o \in Orders,
         ReserveStock(o), UNCHANGED <<taskVars, issueVars>>
  PROVE  OrdersSound'
<1>0. UNCHANGED <<task, tPlanned, tPicked, short>>
  BY DEF taskVars, issueVars
<1>1. ASSUME NEW candidates \in SUBSET Balances,
             NEW take \in Plans(o, candidates), Hold(o, take),
             ord[o] \in {"absent", "received", "awaiting_stock"}
      PROVE  OrdersSound'
  <2>1. Stage(o)' /\ Books(o)'
    BY <1>0, <1>1, HeldSound DEF OrdersSound
  <2>2. \A c \in Orders : c # o => alloc'[c] = alloc[c] /\ ord'[c] = ord[c]
    BY <1>1 DEF Hold, TypeOK
  <2>3. \A c \in Orders : c # o => Untold(c)
    BY <1>0, <2>2 DEF Untold
  <2>. QED  BY <2>1, <2>3, FrameSound
<1>2. CASE UNCHANGED <<ord, stockVars, alloc>>
  <2>1. \A c \in Orders : Untold(c)
    BY <1>0, <1>2 DEF Untold
  <2>. QED  BY <2>1, FrameSound
<1>3. CASE /\ ord[o] \in {"absent", "received", "awaiting_stock"}
           /\ ord' = [ord EXCEPT ![o] = "awaiting_stock"]
           /\ UNCHANGED <<stockVars, alloc>>
  <2>1. ord'[o] = "awaiting_stock" /\ \A c \in Orders : c # o => ord'[c] = ord[c]
    BY <1>3 DEF TypeOK
  <2>2. Stage(o) /\ Books(o) /\ UNCHANGED alloc
    BY <1>3 DEF OrdersSound
  <2>3. Stage(o)' /\ Books(o)'
    BY <1>0, <1>3, <2>1, <2>2 DEF Stage, Books
  <2>4. \A c \in Orders : c # o => Untold(c)
    BY <1>0, <2>1, <2>2 DEF Untold
  <2>. QED  BY <2>3, <2>4, FrameSound
<1>. QED  BY <1>1, <1>2, <1>3, ReserveIsHold

LEMMA ReleasedOrders ==
  ASSUME TypeOK, RowsFit, OrdersSound, CountersTyped, HandedStays,
         NEW o \in Orders, NEW to \in {"awaiting_stock", "cancelled"}, NEW gone,
         NEW have, \A b \in Balances : alloc[o][b].st # "picked",
         ReleaseReservation(o, to, gone, have)
  PROVE  OrdersSound'
<1>1. Stage(o) /\ Books(o)
  BY DEF OrdersSound
<1>. QED  BY <1>1, ReleasedSound, FrameSound

\* The import of an order.
LEMMA ImportedOrders ==
  ASSUME TypeOK, RowsFit, OrdersSound, CountersTyped, HandedStays,
         NEW o \in Orders, NEW s \in Statuses, ImportOrder(o, s)
  PROVE  OrdersSound'
<1>0. Stage(o) /\ Books(o)
  BY DEF OrdersSound
<1>1. CASE ReserveStock(o) /\ UNCHANGED <<taskVars, issueVars, waveVars>>
  BY <1>1, ReservedOrders
<1>2. CASE /\ CanRelease(o)
           /\ ReleaseReservation(o,
                IF s = "cancelled" THEN "cancelled" ELSE "awaiting_stock",
                NothingGone, avail)
  <2>. DEFINE to == IF s = "cancelled" THEN "cancelled" ELSE "awaiting_stock"
  <2>1. \A b \in Balances : alloc[o][b].st # "picked"
    <3>1. CASE ord[o] \in {"reserved", "queued_for_pick"}
      BY <1>0, <3>1 DEF Stage, OnShelf, Only
    <3>2. CASE \A b \in Balances : alloc[o][b].picked = 0
      BY <3>2 DEF RowsFit, RowFits
    <3>. QED  BY <1>2, <3>1, <3>2 DEF CanRelease
  <2>2. to \in {"awaiting_stock", "cancelled"}
    OBVIOUS
  <2>3. ReleaseReservation(o, to, NothingGone, avail)
    BY <1>2
  <2>. HIDE DEF to
  <2>. QED  BY <2>1, <2>2, <2>3, ReleasedOrders
<1>3. CASE /\ ord[o] \in {"absent", "received", "awaiting_stock"}
           /\ ord' = [ord EXCEPT ![o] =
                IF s = "cancelled" THEN "cancelled"
                ELSE IF @ = "absent" THEN "received" ELSE @]
           /\ UNCHANGED <<stockVars, lock, alloc, taskVars, issueVars, waveVars>>
  <2>1. /\ ord'[o] \in {"cancelled", "received", "awaiting_stock"}
        /\ \A c \in Orders : c # o => ord'[c] = ord[c]
    BY <1>3 DEF TypeOK
  <2>2. UNCHANGED <<alloc, task, tPlanned, tPicked, short>>
    BY <1>3 DEF taskVars, issueVars
  <2>3. Stage(o)' /\ Books(o)'
    BY <1>0, <1>3, <2>1, <2>2 DEF Stage, Books
  <2>4. \A c \in Orders : c # o => Untold(c)
    BY <2>1, <2>2 DEF Untold
  <2>. QED  BY <2>3, <2>4, FrameSound
<1>4. CASE UNCHANGED <<ord, stockVars, lock, alloc, taskVars, issueVars, waveVars>>
  <2>1. \A c \in Orders : Untold(c)
    BY <1>4 DEF Untold, taskVars, issueVars
  <2>. QED  BY <2>1, FrameSound
<1>. QED  BY <1>1, <1>2, <1>3, <1>4 DEF ImportOrder

\* An exception is raised, or decided.
LEMMA ExceptionOrders ==
  ASSUME TypeOK, OrdersSound, HandedStays, NEW o \in Orders,
         ord[o] \in {"picking", "exception"}, InHand(o),
         NEW to \in {"picking", "exception"}, NEW s \in {"in_progress", "exception"},
         s = "in_progress" <=> to = "picking",
         task' = [task EXCEPT ![o].st = s], ord' = [ord EXCEPT ![o] = to],
         UNCHANGED <<alloc, tPlanned, tPicked, short>>
  PROVE  OrdersSound'
<1>0. Stage(o) /\ Books(o)
  BY DEF OrdersSound
<1>2. task[o].st # "none"
  BY <1>0 DEF Stage
<1>3. task[o] \in [st : TaskStatuses \ {"none"}, wave : Waves,
                   picker : Pickers \cup {None}]
  BY <1>2 DEF TypeOK, Tasks, NoTask
<1>4. task'[o].st = s /\ ord'[o] = to
      /\ \A c \in Orders : c # o => task'[c] = task[c] /\ ord'[c] = ord[c]
  BY <1>3 DEF TypeOK
<1>5. InHand(o)'
  BY DEF InHand
<1>6. Stage(o)'
  BY <1>4, <1>5 DEF Stage
<1>7. Books(o)'
  BY <1>0, <1>2, <1>4 DEF Books
<1>8. \A c \in Orders : c # o => Untold(c)
  BY <1>4 DEF Untold
<1>. QED  BY <1>6, <1>7, <1>8, FrameSound

LEMMA StockOrders ==
  ASSUME TypeOK, RowsFit, OrdersSound, CountersTyped, HandedStays, StockSteps
  PROVE  OrdersSound'
<1>1. ASSUME NEW o \in Orders, RetryReservation(o)  PROVE OrdersSound'
  BY <1>1, ReservedOrders DEF RetryReservation
<1>2. ASSUME NEW o \in Orders, ReturnUpperTier(o)  PROVE OrdersSound'
  <2>1. \A b \in Balances : alloc[o][b].st # "picked"
    BY <1>2 DEF ReturnUpperTier, OrdersSound, Stage, OnShelf, Only
  <2>2. ReleaseReservation(o, "awaiting_stock", NothingGone, avail)
    BY <1>2 DEF ReturnUpperTier
  <2>. QED  BY <2>1, <2>2, ReleasedOrders
<1>3. ASSUME NEW o \in Orders, RetryException(o)  PROVE OrdersSound'
  <2>1. task[o].st = "exception"
    BY <1>3 DEF RetryException
  <2>2. ord[o] = "exception"
    BY <2>1, OrderOfTask DEF OrdersSound
  <2>3. ~SetAside(o)
    BY <1>3 DEF RetryException, SetAside, Has
  <2>4. InHand(o)
    BY <2>2, <2>3 DEF OrdersSound, Stage
  <2>5. /\ task' = [task EXCEPT ![o].st = "in_progress"]
        /\ ord' = [ord EXCEPT ![o] = "picking"]
        /\ UNCHANGED <<alloc, tPlanned, tPicked, short>>
    BY <1>3 DEF RetryException, issueVars
  <2>. QED  BY <2>2, <2>4, <2>5, ExceptionOrders
<1>4. ASSUME NEW b \in Balances, CountSteps(b)  PROVE OrdersSound'
  <2>1. \A c \in Orders : Untold(c)
    BY <1>4 DEF CountSteps, CheckDrained, StartCounting, Untold, taskVars, issueVars
  <2>. QED  BY <2>1, FrameSound
<1>. QED  BY <1>1, <1>2, <1>3, <1>4, ImportedOrders DEF StockSteps

\* Orders that enter a wave bring their whole plan.
LEMMA AttachedOrders ==
  ASSUME TypeOK, RowsFit, OrdersSound, HandedStays, NEW w \in Waves,
         NEW os \in SUBSET Orders, AttachOrders(w, os)
  PROVE  OrdersSound'
<1>1. /\ \A o \in os : ord[o] = "reserved" /\ task[o].st = "none"
      /\ \A o \in Orders :
           /\ o \in os => /\ ord'[o] = "queued_for_pick"
                          /\ task'[o].st = "queued"
                          /\ tPlanned'[o] = SumOf(Reserved, alloc[o])
           /\ o \notin os => /\ ord'[o] = ord[o] /\ task'[o] = task[o]
                             /\ tPlanned'[o] = tPlanned[o]
  BY DEF AttachOrders
<1>2. UNCHANGED <<alloc, tPicked, short>>
  BY DEF AttachOrders, issueVars
<1>3. ASSUME NEW o \in os  PROVE Stage(o)' /\ Books(o)'
  <2>1. Stage(o) /\ Books(o) /\ ord[o] = "reserved" /\ OnShelf(o)
    BY <1>1, <1>3 DEF OrdersSound, Stage
  <2>2. \A b \in Balances : alloc[o][b].picked = 0
    BY <2>1 DEF OnShelf, Only, RowsFit, RowFits, NoRow
  <2>3. alloc[o] \in [Balances -> Rows]
    BY DEF TypeOK
  <2>4. Taken(alloc[o]) = 0
    BY <2>2, <2>3, PlanNeedsRow
  <2>5. /\ tPicked[o] = 0 /\ short[o] = {} /\ Planned(alloc[o]) = Need[o]
    BY <1>1, <2>1 DEF Books, OnShelf
  <2>6. /\ ord'[o] = "queued_for_pick" /\ task'[o].st = "queued"
        /\ tPlanned'[o] = Planned(alloc[o])
    BY <1>1, <1>3, SumsOfRows
  <2>7. OnShelf(o)'
    BY <1>2, <2>1 DEF OnShelf
  <2>8. Stage(o)'
    BY <2>6, <2>7 DEF Stage
  <2>9. Books(o)'
    BY <1>2, <2>4, <2>5, <2>6 DEF Books
  <2>. QED  BY <2>8, <2>9
<1>4. \A o \in Orders : o \notin os => Untold(o)
  BY <1>1, <1>2 DEF Untold
<1>. QED  BY <1>3, <1>4, FrameSound

\* Tasks that change their wave only.
LEMMA RepackedOrders ==
  ASSUME TypeOK, OrdersSound, HandedStays, NEW ws \in SUBSET Waves,
         NEW to \in [Orders -> ws], Repack(ws, to), \A w \in ws : Untouched(w)
  PROVE  OrdersSound'
<1>1. \A o \in Orders : \A w \in ws : o \in TasksOf(task, w) => task[o].st = "queued"
  BY DEF Untouched
<1>2. \A o \in Orders : o \in UNION {TasksOf(task, w) : w \in ws}
                          => task[o].st = "queued"
  BY <1>1
<1>3. \A o \in Orders :
        task'[o] = IF o \in UNION {TasksOf(task, w) : w \in ws}
                   THEN [task[o] EXCEPT !.wave = to[o]] ELSE task[o]
  BY DEF Repack
<1>4. \A o \in Orders : \/ task'[o] = task[o]
                        \/ /\ task[o].st = "queued"
                           /\ task'[o] = [task[o] EXCEPT !.wave = to[o]]
  BY <1>2, <1>3
<1>5. \A o \in Orders : task'[o].st = task[o].st
                     /\ (task[o].st # "queued" => task'[o] = task[o])
  <2>1. \A o \in Orders : task[o].st = "queued" =>
          task[o] \in [st : TaskStatuses \ {"none"}, wave : Waves,
                       picker : Pickers \cup {None}]
    BY DEF TypeOK, Tasks, NoTask
  <2>. QED  BY <1>4, <2>1
<1>6. UNCHANGED <<ord, alloc, tPlanned, tPicked, short>>
  BY DEF Repack, issueVars
<1>7. \A o \in Orders : Untold(o)
  BY <1>5, <1>6 DEF Untold
<1>. QED  BY <1>7, FrameSound

\* A claimed wave starts its tasks.
LEMMA ClaimedOrders ==
  ASSUME TypeOK, RowsFit, OrdersSound, HandedStays, NEW p \in Pickers,
         NEW k \in Carts, NEW w \in Waves, ClaimWave(p, k, w)
  PROVE  OrdersSound'
<1>. DEFINE os == TasksOf(task, w)
<1>1. /\ \A o \in os : o \in Orders /\ task[o].st = "queued"
      /\ \A o \in Orders :
           /\ o \in os => ord'[o] = "picking"
                       /\ task'[o] = [task[o] EXCEPT !.st = "in_progress",
                                                     !.picker = p]
           /\ o \notin os => ord'[o] = ord[o] /\ task'[o] = task[o]
      /\ UNCHANGED <<tPlanned, tPicked, short>>
  BY DEF ClaimWave, issueVars, TasksOf
<1>2. \A o \in Orders, b \in Balances :
        /\ o \in os /\ alloc[o][b].st = "reserved" =>
             alloc'[o][b] = [alloc[o][b] EXCEPT !.st = "picking"]
        /\ ~(o \in os /\ alloc[o][b].st = "reserved") => alloc'[o][b] = alloc[o][b]
  BY ClaimedRows
<1>. HIDE DEF os
<1>3. ASSUME NEW o \in os  PROVE Stage(o)' /\ Books(o)'
  <2>1. o \in Orders /\ ord[o] = "queued_for_pick" /\ OnShelf(o) /\ Books(o)
    BY <1>1, OrderOfTask DEF OrdersSound, Stage
  <2>2. /\ alloc[o] \in [Balances -> Rows]
        /\ \A b \in Balances : alloc[o][b] \in Rows /\ RowFits(alloc[o][b])
    BY <2>1 DEF TypeOK, RowsFit
  <2>3. Planned(alloc[o]) = Need[o] /\ Need[o] \in Nat \ {0}
    BY <2>1, ConstantsAssumption DEF OnShelf
  <2>4. PICK b \in Balances : alloc[o][b].res # 0
    BY <2>2, <2>3, PlanNeedsRow
  <2>5. /\ \A x \in Balances : alloc[o][x].st \in {"none", "reserved"}
        /\ alloc[o][b].st = "reserved"
    BY <2>1, <2>2, <2>4 DEF OnShelf, Only, RowFits, NoRow
  <2>6. \A x \in Balances :
          /\ alloc'[o][x].res = alloc[o][x].res
          /\ alloc'[o][x].picked = alloc[o][x].picked
          /\ alloc[o][x].st = "reserved" => alloc'[o][x].st = "picking"
          /\ alloc[o][x].st = "none" => alloc'[o][x].st = "none"
    <3>1. SUFFICES ASSUME NEW x \in Balances
          PROVE /\ alloc'[o][x].res = alloc[o][x].res
                /\ alloc'[o][x].picked = alloc[o][x].picked
                /\ alloc[o][x].st = "reserved" => alloc'[o][x].st = "picking"
                /\ alloc[o][x].st = "none" => alloc'[o][x].st = "none"
      OBVIOUS
    <3>2. CASE alloc[o][x].st = "reserved"
      <4>1. alloc'[o][x] = [alloc[o][x] EXCEPT !.st = "picking"]
        BY <1>2, <2>1, <3>2
      <4>2. alloc[o][x] \in Rows
        BY <2>2
      <4>. QED  BY <3>2, <4>1, <4>2 DEF Rows
    <3>3. CASE alloc[o][x].st # "reserved"
      BY <1>2, <2>1, <3>3
    <3>. QED  BY <3>2, <3>3
  <2>7. Planned(alloc'[o]) = Planned(alloc[o]) /\ Taken(alloc'[o]) = Taken(alloc[o])
    BY <2>6, SameRowSums
  <2>8. task'[o].st = "in_progress" /\ task[o].st = "queued"
    <3>1. /\ task[o].st = "queued" /\ task[o] \in Tasks
          /\ task'[o] = [task[o] EXCEPT !.st = "in_progress", !.picker = p]
      BY <1>1, <2>1 DEF TypeOK
    <3>2. PICK t : t = task[o]
      OBVIOUS
    <3>3. t.st # "none" /\ t \in Tasks
          /\ task'[o] = [t EXCEPT !.st = "in_progress", !.picker = p]
      BY ONLY <3>1, <3>2
    <3>4. t \in [st : TaskStatuses \ {"none"}, wave : Waves, picker : Pickers \cup {None}]
      BY ONLY <3>3 DEF Tasks, NoTask
    <3>5. task'[o].st = "in_progress"
      BY ONLY <3>3, <3>4
    <3>. QED  BY ONLY <3>1, <3>5
  <2>9. Books(o)'
    BY <1>1, <2>1, <2>7, <2>8 DEF Books
  <2>10. InHand(o)'
    BY <2>5, <2>6 DEF InHand, Only, Has
  <2>11. ord'[o] = "picking"
    BY <1>1, <2>1
  <2>12. Stage(o)'
    BY <2>8, <2>10, <2>11 DEF Stage
  <2>. QED  BY <2>9, <2>12
<1>4. \A o \in Orders : o \notin os => Untold(o)
  BY <1>1, <1>2 DEF Untold
<1>. QED  BY <1>3, <1>4, FrameSound

LEMMA WaveOrders ==
  ASSUME TypeOK, RowsFit, OrdersSound, HandedStays, WaveSteps
  PROVE  OrdersSound'
<1>1. CASE \E w \in Waves, os \in (SUBSET Orders) \ {{}} : AttachOrders(w, os)
  BY <1>1, AttachedOrders
<1>2. CASE \E ws \in SUBSET Waves : \E to \in [Orders -> ws] :
             Repack(ws, to) /\ \A w \in ws : Untouched(w)
  BY <1>2, RepackedOrders
<1>3. CASE \E p \in Pickers, k \in Carts, w \in Waves : ClaimWave(p, k, w)
  BY <1>3, ClaimedOrders
<1>4. ASSUME NEW p \in Pickers, NEW k \in Carts, NEW w \in Waves,
             TakeOverWave(p, k, w)
      PROVE  OrdersSound'
  <2>1. /\ \A o \in Orders :
             \/ task'[o] = task[o]
             \/ /\ task[o].st \in {"queued", "in_progress"}
                /\ task'[o] = [task[o] EXCEPT !.picker = p]
        /\ UNCHANGED <<ord, alloc, tPlanned, tPicked, short>>
    BY <1>4 DEF TakeOverWave, ActiveTasks, issueVars
  <2>2. \A o \in Orders : task[o].st \in {"queued", "in_progress"} =>
          task[o] \in [st : TaskStatuses \ {"none"}, wave : Waves,
                       picker : Pickers \cup {None}]
    BY DEF TypeOK, Tasks, NoTask
  <2>3. \A o \in Orders :
          /\ task'[o].st = task[o].st
          /\ task[o].st \in {"none", "exception"} => task'[o] = task[o]
    BY <2>1, <2>2
  <2>4. \A o \in Orders : Untold(o)
    BY <2>1, <2>3 DEF Untold
  <2>. QED  BY <2>4, FrameSound
<1>. QED  BY <1>1, <1>2, <1>3, <1>4, WaveCases

\* A scan of a picker.
LEMMA PickedOrders ==
  ASSUME TypeOK, TypeOK', RowsFit, RowsFit', OrdersSound, CountersTyped,
         HandedStays, NEW p \in Pickers, NEW o \in Orders, NEW b \in Balances,
         PickUnit(p, o, b)
  PROVE  OrdersSound'
<1>. DEFINE row == alloc[o][b]
            next == Scanned(row)
            rows == [alloc[o] EXCEPT ![b] = next]
<1>1. /\ row.st = "picking" /\ Open(row) > 0 /\ task[o].st = "in_progress"
      /\ alloc'[o] = rows
  BY PickedRows
<1>2. Progress(o, rows, 1, 0) /\ UNCHANGED short
  BY DEF PickUnit, Scanned, issueVars
<1>3. row \in Rows /\ RowFits(row) /\ alloc[o] \in [Balances -> Rows]
  BY DEF TypeOK, RowsFit
<1>4. ord[o] = "picking" /\ Stage(o) /\ Books(o)
  BY <1>1, OrderOfTask DEF OrdersSound
<1>. HIDE DEF row
<1>5. next \in Rows /\ next.res = row.res /\ next.picked = row.picked + 1
      /\ next.st \in {"picked", "picking"}
  BY <1>1, <1>3, ScannedFits
<1>. HIDE DEF next
<1>6. Planned(rows) = Planned(alloc[o]) - alloc[o][b].res + next.res
      /\ Taken(rows) = Taken(alloc[o]) - alloc[o][b].picked + next.picked
  BY <1>3, <1>5, RowSumsChanged
<1>7. /\ Planned(alloc[o]) \in Nat /\ Taken(alloc[o]) \in Nat
      /\ row.res \in Nat /\ row.picked \in Nat
  BY <1>3, RowSumsTyped DEF Rows
<1>8. Planned(rows) = Planned(alloc[o]) /\ Taken(rows) = Taken(alloc[o]) + 1
  BY <1>5, <1>6, <1>7 DEF row
<1>9. Only(rows, {"none", "picking", "picked"})
  BY <1>3, <1>4, <1>5 DEF Only, Stage, InHand
<1>. HIDE DEF rows
<1>10. /\ ActiveAt(alloc'[o]) # {} =>
            ord'[o] = "picking" /\ task'[o].st = "in_progress"
       /\ ActiveAt(alloc'[o]) = {} =>
            ord'[o] = "picked" /\ task'[o].st = "picked"
       /\ tPlanned'[o] = tPlanned[o] - 0 /\ tPlanned'[o] > 0
       /\ tPicked'[o] = tPicked[o] + 1
       /\ \A c \in Orders : c # o =>
            /\ alloc'[c] = alloc[c] /\ ord'[c] = ord[c] /\ task'[c] = task[c]
            /\ tPlanned'[c] = tPlanned[c] /\ tPicked'[c] = tPicked[c]
  <2>1. PICK one \in Int, zero \in Int : one = 1 /\ zero = 0
    OBVIOUS
  <2>2. Progress(o, rows, one, zero)
    BY ONLY <1>2, <2>1
  <2>3. task[o].st = "in_progress" /\ ord[o] = "picking"
    BY <1>1, <1>4
  <2>4. /\ ActiveAt(alloc'[o]) # {} =>
             ord'[o] = "picking" /\ task'[o].st = "in_progress"
        /\ ActiveAt(alloc'[o]) = {} =>
             ord'[o] = "picked" /\ task'[o].st = "picked"
        /\ tPlanned'[o] = tPlanned[o] - zero /\ tPlanned'[o] > 0
        /\ tPicked'[o] = tPicked[o] + one
        /\ \A c \in Orders : c # o =>
             /\ alloc'[c] = alloc[c] /\ ord'[c] = ord[c] /\ task'[c] = task[c]
             /\ tPlanned'[c] = tPlanned[c] /\ tPicked'[c] = tPicked[c]
    BY ONLY TypeOK, CountersTyped, o \in Orders, one \in Int, zero \in Int,
            <2>2, <2>3, ProgressEffect
  <2>. QED  BY <2>1, <2>4
<1>11. /\ tPlanned[o] = Planned(alloc[o]) /\ tPicked[o] = Taken(alloc[o])
       /\ short[o] = {} => tPlanned[o] = Need[o]
  BY <1>1, <1>4 DEF Books
<1>12. tPlanned'[o] = Planned(alloc'[o]) /\ tPicked'[o] = Taken(alloc'[o])
       /\ (short'[o] = {} => tPlanned'[o] = Need[o])
  BY <1>1, <1>2, <1>7, <1>8, <1>10, <1>11
<1>13. Stage(o)' /\ Books(o)'
  BY <1>1, <1>9, <1>10, <1>12, ProgressedSound
<1>14. \A c \in Orders : c # o => Untold(c)
  BY <1>2, <1>10 DEF Untold
<1>. QED  BY <1>13, <1>14, FrameSound

\* A row an order loses units of while the rest of it is picked: what the
\* counters become.
LEMMA LostSums ==
  ASSUME TypeOK, NEW o \in Orders, NEW b \in Balances, NEW n \in Nat, n > 0,
         RowFits(alloc[o][b]), IsActive(alloc[o][b]), n <= Open(alloc[o][b]),
         Only(alloc[o], {"none", "picking", "picked"}),
         alloc'[o] = [alloc[o] EXCEPT ![b] = LostUnits(alloc[o][b], n)]
  PROVE  /\ Planned(alloc'[o]) = Planned(alloc[o]) - n
         /\ Taken(alloc'[o]) = Taken(alloc[o])
         /\ Only(alloc'[o], {"none", "picking", "picked"})
         /\ Planned(alloc[o]) \in Nat /\ Taken(alloc[o]) \in Nat
<1>. DEFINE row == alloc[o][b]
            next == LostUnits(row, n)
<1>1. alloc[o] \in [Balances -> Rows] /\ row \in Rows
  BY DEF TypeOK
<1>2. /\ next \in Rows /\ next.res = row.res - n /\ next.picked = row.picked
      /\ next.st \in {"none", "picked", row.st}
  BY <1>1, LostUnitsFits, LostUnitsTyped
<1>. HIDE DEF next
<1>3. /\ Planned([alloc[o] EXCEPT ![b] = next])
           = Planned(alloc[o]) - row.res + next.res
      /\ Taken([alloc[o] EXCEPT ![b] = next])
           = Taken(alloc[o]) - row.picked + next.picked
  BY <1>1, <1>2, RowSumsChanged
<1>4. /\ Planned(alloc[o]) \in Nat /\ Taken(alloc[o]) \in Nat
      /\ row.res \in Nat /\ row.picked \in Nat
  BY <1>1, RowSumsTyped DEF Rows
<1>5. row.st \in {"none", "picking", "picked"}
  BY DEF Only
<1>6. alloc'[o] = [alloc[o] EXCEPT ![b] = next]
  BY DEF next
<1>7. Only(alloc'[o], {"none", "picking", "picked"})
  BY <1>1, <1>2, <1>5, <1>6 DEF Only
<1>. HIDE DEF row
<1>. QED  BY <1>2, <1>3, <1>4, <1>6, <1>7

\* A place found empty.
LEMMA NotFoundOrders ==
  ASSUME TypeOK, TypeOK', RowsFit, RowsFit', OrdersSound, CountersTyped,
         HandedStays, NEW p \in Pickers, NEW o \in Orders, NEW b \in Balances,
         ReportNotFound(p, o, b)
  PROVE  OrdersSound'
<1>. DEFINE row == alloc[o][b]
            rows == [alloc[o] EXCEPT ![b] = LostUnits(row, Open(row))]
<1>1. task[o].st = "in_progress" /\ IsActive(row)
  BY DEF ReportNotFound, IsTaskActor
<1>2. row \in Rows /\ RowFits(row)
  BY DEF TypeOK, RowsFit
<1>3. ord[o] = "picking" /\ Stage(o) /\ Books(o)
  BY <1>1, OrderOfTask DEF OrdersSound
<1>4. CASE /\ \A c \in Balances : alloc[o][c].st # "picked"
           /\ ReleaseReservation(o, "awaiting_stock",
                [NothingGone EXCEPT ![b] = Open(row)], Quarantined(b))
  BY <1>4, ReleasedOrders
<1>5. CASE /\ Open(row) > 0
           /\ short' = [short EXCEPT ![o] = @ \cup {Open(row)}]
           /\ Progress(o, rows, 0, Open(row))
  <2>1. Open(row) \in Nat /\ Open(row) <= Open(row) /\ Open(row) \in Int
    BY <1>2, <1>5 DEF Open, Rows
  <2>. HIDE DEF rows, row
  <2>0. PICK n \in Nat : n = Open(row)
    BY <2>1
  <2>00. Progress(o, rows, 0, n) /\ n \in Int /\ 0 \in Int
    BY <1>5, <2>0
  <2>2. /\ alloc'[o] = rows
        /\ ActiveAt(alloc'[o]) # {} =>
             ord'[o] = "picking" /\ task'[o].st = "in_progress"
        /\ ActiveAt(alloc'[o]) = {} =>
             ord'[o] = "picked" /\ task'[o].st = "picked"
        /\ tPlanned'[o] = tPlanned[o] - n /\ tPlanned'[o] > 0
        /\ tPicked'[o] = tPicked[o] + 0
        /\ \A c \in Orders : c # o =>
             /\ alloc'[c] = alloc[c] /\ ord'[c] = ord[c] /\ task'[c] = task[c]
             /\ tPlanned'[c] = tPlanned[c] /\ tPicked'[c] = tPicked[c]
    BY <1>1, <1>3, <2>00, ProgressEffect
  <2>3. short'[o] # {} /\ \A c \in Orders : c # o => short'[c] = short[c]
    BY <1>5 DEF TypeOK
  <2>4. Only(alloc[o], {"none", "picking", "picked"})
    BY <1>3 DEF Stage, InHand
  <2>5. alloc'[o] = [alloc[o] EXCEPT ![b] = LostUnits(alloc[o][b], Open(row))]
    BY <2>2 DEF rows, row
  <2>6. /\ Planned(alloc'[o]) = Planned(alloc[o]) - Open(row)
        /\ Taken(alloc'[o]) = Taken(alloc[o])
        /\ Only(alloc'[o], {"none", "picking", "picked"})
        /\ Planned(alloc[o]) \in Nat /\ Taken(alloc[o]) \in Nat
    BY <1>1, <1>2, <1>5, <2>1, <2>4, <2>5, LostSums DEF row
  <2>7. tPlanned[o] = Planned(alloc[o]) /\ tPicked[o] = Taken(alloc[o])
    BY <1>1, <1>3 DEF Books
  <2>8. tPlanned'[o] = Planned(alloc'[o]) /\ tPicked'[o] = Taken(alloc'[o])
    BY <2>0, <2>2, <2>6, <2>7
  <2>9. Stage(o)' /\ Books(o)'
    BY <2>2, <2>3, <2>6, <2>8, ProgressedSound
  <2>10. \A c \in Orders : c # o => Untold(c)
    BY <2>2, <2>3 DEF Untold
  <2>. QED  BY <2>9, <2>10, FrameSound
<1>. QED  BY <1>4, <1>5 DEF ReportNotFound

\* A report of missing units, order by order.
LEMMA MissingEffect ==
  ASSUME TypeOK, NEW w, NEW b \in Balances, NEW group \in SUBSET Orders,
         NEW miss \in [group -> Nat],
         DropMissing(w, b, miss, LostWhole(group, miss), LostPart(group, miss)),
         NEW c \in Orders
  PROVE  /\ c \in LostWhole(group, miss) =>
              /\ task'[c] = NoTask /\ tPlanned'[c] = 0 /\ short'[c] = {}
              /\ ord'[c] = "awaiting_stock"
         /\ c \in LostPart(group, miss) =>
              /\ tPlanned'[c] = tPlanned[c] - miss[c] /\ tPlanned'[c] > 0
              /\ short'[c] = short[c] \cup {miss[c]}
              /\ ActiveAt(alloc'[c]) # {} =>
                   task'[c] = task[c] /\ ord'[c] = ord[c]
              /\ ActiveAt(alloc'[c]) = {} =>
                   ord'[c] = "picked" /\ task'[c] = [task[c] EXCEPT !.st = "picked"]
         /\ c \notin LostWhole(group, miss) /\ c \notin LostPart(group, miss) =>
              /\ task'[c] = task[c] /\ tPlanned'[c] = tPlanned[c]
              /\ short'[c] = short[c] /\ ord'[c] = ord[c]
<1>. DEFINE whole == LostWhole(group, miss)
            part == LostPart(group, miss)
            rows == RowsAfterLoss(b, miss, whole, part)
            finished == {x \in part : ActiveAt(rows[x]) = {}}
<1>0. whole \cap part = {}
  BY DEF LostPart
<1>. HIDE DEF whole, part, rows
<1>1. /\ alloc' = rows
      /\ task' = [x \in Orders |->
               IF x \in whole THEN NoTask
               ELSE IF x \in finished THEN [task[x] EXCEPT !.st = "picked"]
               ELSE task[x]]
      /\ tPlanned' = [x \in Orders |->
                 IF x \in whole THEN 0
                 ELSE IF x \in part THEN tPlanned[x] - miss[x]
                 ELSE tPlanned[x]]
      /\ short' = [x \in Orders |->
                    IF x \in whole THEN {}
                    ELSE IF x \in part THEN short[x] \cup {miss[x]}
                    ELSE short[x]]
      /\ ord' = [x \in Orders |->
                  IF x \in whole THEN "awaiting_stock"
                  ELSE IF x \in finished THEN "picked" ELSE ord[x]]
  BY DEF DropMissing, whole, part, rows
<1>2. c \in part => c \notin whole /\ tPlanned[c] - miss[c] > 0
  <2>1. ASSUME c \in part  PROVE c \notin whole
    BY <1>0, <2>1
  <2>2. \A x \in part : [y \in Orders |->
                 IF y \in whole THEN 0
                 ELSE IF y \in part THEN tPlanned[y] - miss[y]
                 ELSE tPlanned[y]][x] > 0
    BY DEF DropMissing, whole, part
  <2>. QED  BY <2>1, <2>2
<1>3. CASE c \in whole
  BY <1>0, <1>1, <1>3 DEF whole, part
<1>4. CASE c \in part
  <2>1. /\ tPlanned'[c] = tPlanned[c] - miss[c]
        /\ short'[c] = short[c] \cup {miss[c]}
    BY <1>1, <1>2, <1>4
  <2>2. c \in finished <=> ActiveAt(alloc'[c]) = {}
    BY <1>1, <1>4
  <2>. HIDE DEF finished
  <2>3. /\ c \in finished =>
              ord'[c] = "picked" /\ task'[c] = [task[c] EXCEPT !.st = "picked"]
        /\ c \notin finished => ord'[c] = ord[c] /\ task'[c] = task[c]
    BY <1>1, <1>2, <1>4
  <2>. QED  BY <1>2, <1>4, <2>1, <2>2, <2>3 DEF whole, part
<1>5. CASE c \notin whole /\ c \notin part
  <2>1. c \notin finished
    BY <1>5
  <2>. HIDE DEF finished
  <2>. QED  BY <1>1, <1>5, <2>1 DEF whole, part
<1>. QED  BY <1>3, <1>4, <1>5

LEMMA MissingOrders ==
  ASSUME TypeOK, TypeOK', RowsFit, RowsFit', OrdersSound, CountersTyped,
         HandedStays, NEW p \in Pickers, NEW o \in Orders, NEW b \in Balances,
         NEW m \in Nat, ReportMissing(p, o, b, m)
  PROVE  OrdersSound'
<1>. DEFINE group == MissingGroup(p, o, b)
<1>1. PICK miss \in [group -> Nat] :
        /\ \A c \in group : miss[c] <= Open(alloc[c][b])
        /\ DropMissing(task[o].wave, b, miss, LostWhole(group, miss),
                       LostPart(group, miss))
  BY MissingSplit
<1>2. /\ group \in SUBSET Orders
      /\ \A c \in group : IsActive(alloc[c][b]) /\ task[c].st = "in_progress"
  BY MissingMembers
<1>3. tPicked' = tPicked
  BY DEF ReportMissing
<1>. HIDE DEF group
<1>10. \A c \in Orders :
         /\ c \in LostWhole(group, miss) =>
              \A x \in Balances :
                alloc'[c][x] = IF IsActive(alloc[c][x]) THEN NoRow ELSE alloc[c][x]
         /\ c \in LostPart(group, miss) =>
              alloc'[c] = [alloc[c] EXCEPT ![b] = LostUnits(alloc[c][b], miss[c])]
         /\ c \notin LostWhole(group, miss) /\ c \notin LostPart(group, miss) =>
              alloc'[c] = alloc[c]
  <2>1. PICK w : w = task[o].wave
    OBVIOUS
  <2>2. /\ DropMissing(w, b, miss, LostWhole(group, miss), LostPart(group, miss))
        /\ group \in SUBSET Orders /\ miss \in [group -> Nat]
    BY <1>1, <1>2, <2>1
  <2>. QED  BY ONLY TypeOK, b \in Balances, <2>2, MissingRows
<1>4. SUFFICES ASSUME NEW c \in Orders
               PROVE  Untold(c) \/ (Stage(c)' /\ Books(c)')
  BY FrameSound
<1>5. /\ alloc[c] \in [Balances -> Rows] /\ RowFits(alloc[c][b])
      /\ Stage(c) /\ Books(c)
  BY DEF TypeOK, RowsFit, OrdersSound
<1>6. c \in group => ord[c] = "picking" /\ InHand(c)
  BY <1>2, <1>5, OrderOfTask DEF Stage
<1>7. CASE c \in LostWhole(group, miss)
  <2>1. /\ c \in group /\ tPicked[c] = 0
        /\ \A x \in Balances : alloc[c][x].st # "picked"
    BY <1>7 DEF LostWhole
  <2>2. \A x \in Balances :
          alloc'[c][x] = IF IsActive(alloc[c][x]) THEN NoRow ELSE alloc[c][x]
    BY ONLY <1>10, <1>7, c \in Orders
  <2>3. /\ task'[c] = NoTask /\ tPlanned'[c] = 0 /\ short'[c] = {}
        /\ ord'[c] = "awaiting_stock"
    BY <1>1, <1>2, <1>7, MissingEffect
  <2>4. \A x \in Balances : IsActive(alloc[c][x]) \/ alloc[c][x].st = "none"
    BY <1>6, <2>1 DEF InHand, Only, IsActive
  <2>5. Only(alloc'[c], {"none"})
    BY <2>2, <2>4 DEF Only, NoRow
  <2>6. Stage(c)'
    BY <2>3, <2>5 DEF Stage
  <2>7. Books(c)'
    BY <1>3, <2>1, <2>3 DEF Books, NoTask
  <2>. QED  BY <2>6, <2>7
<1>8. CASE c \in LostPart(group, miss)
  <2>1. c \in group /\ miss[c] > 0 /\ miss[c] \in Nat
    BY <1>8 DEF LostPart
  <2>2. alloc'[c] = [alloc[c] EXCEPT ![b] = LostUnits(alloc[c][b], miss[c])]
    BY <1>8, <1>10
  <2>3. /\ tPlanned'[c] = tPlanned[c] - miss[c] /\ tPlanned'[c] > 0
        /\ short'[c] = short[c] \cup {miss[c]}
        /\ ActiveAt(alloc'[c]) # {} =>
             task'[c] = task[c] /\ ord'[c] = ord[c]
        /\ ActiveAt(alloc'[c]) = {} =>
             ord'[c] = "picked" /\ task'[c] = [task[c] EXCEPT !.st = "picked"]
    BY <1>1, <1>2, <1>8, MissingEffect
  <2>4. Only(alloc[c], {"none", "picking", "picked"})
    BY <1>6, <2>1 DEF InHand
  <2>5. PICK n \in Nat : n = miss[c] /\ n > 0 /\ n <= Open(alloc[c][b])
    BY <1>1, <2>1
  <2>6. /\ Planned(alloc'[c]) = Planned(alloc[c]) - n
        /\ Taken(alloc'[c]) = Taken(alloc[c])
        /\ Only(alloc'[c], {"none", "picking", "picked"})
        /\ Planned(alloc[c]) \in Nat /\ Taken(alloc[c]) \in Nat
    BY <1>2, <1>5, <2>1, <2>2, <2>4, <2>5, LostSums
  <2>7. tPlanned[c] = Planned(alloc[c]) /\ tPicked[c] = Taken(alloc[c])
    BY <1>2, <1>5, <2>1 DEF Books
  <2>8. task[c] \in [st : TaskStatuses \ {"none"}, wave : Waves,
                     picker : Pickers \cup {None}]
    BY <1>2, <2>1 DEF TypeOK, Tasks, NoTask
  <2>9. /\ ActiveAt(alloc'[c]) # {} =>
             ord'[c] = "picking" /\ task'[c].st = "in_progress"
        /\ ActiveAt(alloc'[c]) = {} => ord'[c] = "picked" /\ task'[c].st = "picked"
    BY <1>2, <1>6, <2>1, <2>3, <2>8
  <2>10. tPlanned'[c] = Planned(alloc'[c]) /\ tPicked'[c] = Taken(alloc'[c])
    BY <1>3, <2>3, <2>5, <2>6, <2>7
  <2>11. short'[c] # {}
    BY <2>3
  <2>. QED  BY <2>3, <2>6, <2>9, <2>10, <2>11, ProgressedSound
<1>9. CASE c \notin LostWhole(group, miss) /\ c \notin LostPart(group, miss)
  <2>1. alloc'[c] = alloc[c]
    BY <1>9, <1>10
  <2>2. /\ task'[c] = task[c] /\ tPlanned'[c] = tPlanned[c]
        /\ short'[c] = short[c] /\ ord'[c] = ord[c]
    BY <1>1, <1>2, <1>9, MissingEffect
  <2>. QED  BY <1>3, <2>1, <2>2 DEF Untold
<1>. QED  BY <1>7, <1>8, <1>9

LEMMA PickOrders ==
  ASSUME TypeOK, TypeOK', RowsFit, RowsFit', OrdersSound, CountersTyped,
         HandedStays, PickSteps
  PROVE  OrdersSound'
<1>1. ASSUME NEW p \in Pickers, NEW o \in Orders, ReportOther(p, o)
      PROVE  OrdersSound'
  <2>1. task[o].st = "in_progress"
    BY <1>1 DEF ReportOther, IsTaskActor
  <2>2. ord[o] = "picking" /\ InHand(o)
    BY <2>1, OrderOfTask DEF OrdersSound, Stage
  <2>3. /\ task' = [task EXCEPT ![o].st = "exception"]
        /\ ord' = [ord EXCEPT ![o] = "exception"]
        /\ UNCHANGED <<alloc, tPlanned, tPicked, short>>
    BY <1>1 DEF ReportOther, issueVars
  <2>. QED  BY <2>2, <2>3, ExceptionOrders
<1>2. ASSUME NEW p \in Pickers, NEW w \in Waves, HandOver(p, w)
      PROVE  OrdersSound'
  <2>1. \A c \in Orders : Untold(c)
    BY <1>2 DEF HandOver, Untold, taskVars, issueVars
  <2>. QED  BY <2>1, FrameSound
<1>3. ASSUME NEW b \in Balances, NEW m \in 1 .. resv[b]  PROVE m \in Nat
  BY <1>3 DEF TypeOK
<1>. QED  BY <1>1, <1>2, <1>3, PickedOrders, NotFoundOrders, MissingOrders
     DEF PickSteps

\* The controller's steps.
LEMMA VerifyOrders ==
  ASSUME TypeOK, RowsFit, OrdersSound, HandedStays, VerifySteps
  PROVE  OrdersSound'
<1>1. ASSUME NEW k \in Controllers, NEW o \in Orders, NEW b \in Balances,
             VerifyUnit(k, o, b)
      PROVE  OrdersSound'
  <2>1. /\ \A c \in Orders : c # o => alloc'[c] = alloc[c]
        /\ alloc'[o] = [alloc[o] EXCEPT ![b] = [alloc[o][b] EXCEPT !.ver = @ + 1]]
    BY <1>1, VerifiedRow
  <2>2. \A c \in Orders : \A x \in Balances : alloc[c][x] \in Rows
    BY DEF TypeOK
  <2>3. \A c \in Orders : \A x \in Balances :
          /\ alloc'[c][x].st = alloc[c][x].st
          /\ alloc'[c][x].res = alloc[c][x].res
          /\ alloc'[c][x].picked = alloc[c][x].picked
    <3>1. SUFFICES ASSUME NEW c \in Orders, NEW x \in Balances
                   PROVE  /\ alloc'[c][x].st = alloc[c][x].st
                          /\ alloc'[c][x].res = alloc[c][x].res
                          /\ alloc'[c][x].picked = alloc[c][x].picked
      OBVIOUS
    <3>2. CASE c = o /\ x = b
      <4>1. alloc'[c][x] = [alloc[o][b] EXCEPT !.ver = @ + 1]
        BY <2>1, <3>2 DEF TypeOK
      <4>. QED  BY <2>2, <3>2, <4>1 DEF Rows
    <3>3. CASE ~(c = o /\ x = b)
      BY <2>1, <3>3 DEF TypeOK
    <3>. QED  BY <3>2, <3>3
  <2>4. UNCHANGED <<ord, task, tPlanned, tPicked, short>>
    BY <1>1 DEF VerifyUnit, taskVars, issueVars
  <2>5. \A c \in Orders : Untold(c)
    BY <2>3, <2>4 DEF Untold
  <2>. QED  BY <2>5, FrameSound
<1>2. ASSUME NEW k \in Controllers, NEW o \in Orders, ConfirmLabel(k, o)
      PROVE  OrdersSound'
  <2>1. /\ ord[o] = "picked" /\ ord'[o] = "ready_for_handover"
        /\ \A c \in Orders : c # o => ord'[c] = ord[c]
    BY <1>2 DEF ConfirmLabel, TypeOK
  <2>2. UNCHANGED <<alloc, task, tPlanned, tPicked, short>>
    BY <1>2 DEF ConfirmLabel, taskVars, issueVars
  <2>3. Stage(o) /\ Books(o)
    BY DEF OrdersSound
  <2>4. InTote(o) => InTote(o)'
    BY <2>2 DEF InTote
  <2>5. Stage(o)' /\ Books(o)'
    BY <2>1, <2>2, <2>3, <2>4 DEF Stage, Books
  <2>6. \A c \in Orders : c # o => Untold(c)
    BY <2>1, <2>2 DEF Untold
  <2>. QED  BY <2>5, <2>6, FrameSound
<1>3. ASSUME NEW k \in Controllers, NEW o \in Orders, ReportProblem(k, o)
      PROVE  OrdersSound'
  <2>1. /\ task[o].st = "picked" /\ wave[task[o].wave].handed
        /\ short[o] = {}
        /\ task' = [task EXCEPT ![o].st = "exception"]
        /\ ord' = [ord EXCEPT ![o] = "exception"]
        /\ UNCHANGED <<tPlanned, tPicked, short>>
    BY <1>3 DEF ReportProblem, issueVars
  <2>2. task[o] \in [st : TaskStatuses \ {"none"}, wave : Waves,
                     picker : Pickers \cup {None}]
    BY <2>1 DEF TypeOK, Tasks, NoTask
  <2>3. /\ task'[o].st = "exception" /\ task'[o].wave = task[o].wave
        /\ ord'[o] = "exception"
        /\ \A c \in Orders : c # o => task'[c] = task[c] /\ ord'[c] = ord[c]
    BY <2>1, <2>2 DEF TypeOK
  <2>4. wave'[task'[o].wave].handed
    BY <2>1, <2>2, <2>3 DEF HandedStays
  <2>5. Stage(o) /\ Books(o)
    BY DEF OrdersSound
  <2>6. InTote(o)
    BY <2>1, <2>5, OrderOfTask DEF Stage
  <2>7. \A x \in Balances : alloc[o][x] \in Rows
    BY DEF TypeOK
  <2>8. \A x \in Balances :
          /\ alloc[o][x].st = "picked" =>
               alloc'[o][x] = [alloc[o][x] EXCEPT !.st = "canceled"]
          /\ alloc[o][x].st # "picked" => alloc'[o][x] = alloc[o][x]
    BY <1>3, SetAsideRows
  <2>9. \A x \in Balances :
          /\ alloc[o][x].st = "picked" => alloc'[o][x].st = "canceled"
          /\ alloc'[o][x].res = alloc[o][x].res
          /\ alloc'[o][x].picked = alloc[o][x].picked
    BY <2>7, <2>8 DEF Rows
  <2>10. Planned(alloc'[o]) = Planned(alloc[o]) /\ Taken(alloc'[o]) = Taken(alloc[o])
    BY <2>9, SameRowSums
  <2>11. SetAside(o)'
    <3>1. Only(alloc'[o], {"none", "canceled"})
      <4>1. SUFFICES ASSUME NEW x \in Balances
                     PROVE  alloc'[o][x].st \in {"none", "canceled"}
        BY DEF Only
      <4>2. alloc[o][x].st \in {"none", "picked"}
        BY <2>6 DEF InTote, Only
      <4>3. CASE alloc[o][x].st = "picked"
        BY <2>9, <4>3
      <4>4. CASE alloc[o][x].st # "picked"
        BY <2>8, <4>2, <4>4
      <4>. QED  BY <4>3, <4>4
    <3>2. Has(alloc'[o], "canceled")
      BY <2>6, <2>9 DEF InTote, Has
    <3>. QED  BY <2>4, <3>1, <3>2 DEF SetAside
  <2>12. Stage(o)'
    BY <2>3, <2>11 DEF Stage
  <2>13. Books(o)'
    BY <2>1, <2>3, <2>5, <2>10 DEF Books
  <2>14. \A c \in Orders : c # o => Untold(c)
    BY <1>3, <2>1, <2>3, SetAsideRows DEF Untold
  <2>. QED  BY <2>12, <2>13, <2>14, FrameSound
<1>4. CASE UNCHANGED <<ord, alloc, task, tPlanned, tPicked, short>>
  <2>1. \A c \in Orders : Untold(c)
    BY <1>4 DEF Untold
  <2>. QED  BY <2>1, FrameSound
<1>5. ASSUME \/ \E k \in Controllers, w \in Waves : ClaimVerification(k, w)
             \/ \E o \in Orders : PrefetchLabel(o) \/ RegisterLabel(o)
      PROVE  OrdersSound'
  BY <1>4, <1>5 DEF ClaimVerification, PrefetchLabel, RegisterLabel, taskVars,
                    issueVars
<1>. QED  BY <1>1, <1>2, <1>3, <1>5 DEF VerifySteps

LEMMA OrdersStep ==
  TypeOK /\ TypeOK' /\ RowsFit /\ RowsFit' /\ OrdersSound /\ CountersTyped
    /\ [Next]_vars => OrdersSound'
<1>. SUFFICES ASSUME TypeOK, TypeOK', RowsFit, RowsFit', OrdersSound,
                     CountersTyped, [Next]_vars
              PROVE  OrdersSound'
  OBVIOUS
<1>1. HandedStays
  BY HandedStep
<1>2. CASE UNCHANGED vars
  <2>1. \A c \in Orders : Untold(c)
    BY <1>2 DEF Untold, vars, taskVars, issueVars
  <2>. QED  BY <1>1, <2>1, FrameSound
<1>. QED  BY <1>1, <1>2, StockOrders, WaveOrders, PickOrders, VerifyOrders
     DEF Next, PickingNext

-----------------------------------------------------------------------------
(***************************************************************************)
(* Waves: their counters are the sums of the counters of their tasks.      *)
(***************************************************************************)

LEMMA TasksFinite ==
  ASSUME NEW tk, NEW w
  PROVE  TasksOf(tk, w) \in SUBSET Orders /\ IsFiniteSet(TasksOf(tk, w))
<1>1. TasksOf(tk, w) \in SUBSET Orders
  BY DEF TasksOf
<1>. QED  BY <1>1, ConstantsAssumption, FS_Subset

LEMMA PlannedTyped ==
  ASSUME NEW tk, NEW w, NEW f, \A o \in Orders : f[o] \in Nat
  PROVE  /\ PlannedOf(tk, f, w) \in Nat
         /\ \A o \in TasksOf(tk, w) : f[o] <= PlannedOf(tk, f, w)
<1>1. IsFiniteSet(TasksOf(tk, w)) /\ \A o \in TasksOf(tk, w) : f[o] \in Nat
  BY TasksFinite
<1>. QED  BY <1>1, SumIsNat DEF PlannedOf

\* The same tasks with the same quantities.
LEMMA PlannedSame ==
  ASSUME NEW tk, NEW next, NEW w, NEW f, NEW g,
         \A o \in Orders : f[o] \in Nat,
         TasksOf(next, w) = TasksOf(tk, w),
         \A o \in TasksOf(tk, w) : g[o] = f[o]
  PROVE  PlannedOf(next, g, w) = PlannedOf(tk, f, w)
<1>1. /\ IsFiniteSet(TasksOf(tk, w))
      /\ \A o \in TasksOf(tk, w) : f[o] \in Int /\ f[o] = g[o]
  BY TasksFinite
<1>2. SumFunctionOnSet(f, TasksOf(tk, w)) = SumFunctionOnSet(g, TasksOf(tk, w))
  BY <1>1, SameSum
<1>. QED  BY <1>2 DEF PlannedOf

\* The tasks that are there in addition bring nothing.
LEMMA PlannedOfMore ==
  ASSUME NEW tk, NEW more, NEW w, NEW f, \A o \in Orders : f[o] \in Nat,
         TasksOf(tk, w) \subseteq TasksOf(more, w),
         \A o \in TasksOf(more, w) \ TasksOf(tk, w) : f[o] = 0
  PROVE  PlannedOf(more, f, w) = PlannedOf(tk, f, w)
<1>1. /\ IsFiniteSet(TasksOf(more, w)) /\ TasksOf(tk, w) \in SUBSET TasksOf(more, w)
      /\ \A o \in TasksOf(more, w) : f[o] \in Int
  BY TasksFinite
<1>. QED  BY <1>1, SumOverSome DEF PlannedOf

\* One task leaves.
LEMMA PlannedWithout ==
  ASSUME NEW tk, NEW next, NEW w, NEW f, \A o \in Orders : f[o] \in Nat,
         NEW o \in TasksOf(tk, w), TasksOf(next, w) = TasksOf(tk, w) \ {o}
  PROVE  PlannedOf(tk, f, w) = f[o] + PlannedOf(next, f, w)
<1>1. /\ IsFiniteSet(TasksOf(tk, w))
      /\ \A c \in TasksOf(tk, w) : f[c] \in Int
  BY TasksFinite
<1>2. SumFunctionOnSet(f, TasksOf(tk, w))
        = f[o] + SumFunctionOnSet(f, TasksOf(tk, w) \ {o})
  BY <1>1, SumWithout
<1>. QED  BY <1>2 DEF PlannedOf

\* One task changes its quantity.
LEMMA PlannedChanged ==
  ASSUME NEW tk, NEW next, NEW w, NEW f, NEW g, \A o \in Orders : f[o] \in Nat,
         NEW o \in TasksOf(tk, w), TasksOf(next, w) = TasksOf(tk, w),
         g[o] \in Int, \A c \in Orders : c # o => g[c] = f[c]
  PROVE  PlannedOf(next, g, w) = PlannedOf(tk, f, w) - f[o] + g[o]
<1>1. /\ IsFiniteSet(TasksOf(tk, w)) /\ \A c \in TasksOf(tk, w) : f[c] \in Int
      /\ \A c \in TasksOf(tk, w) : c # o => g[c] = f[c]
  BY TasksFinite
<1>2. SumFunctionOnSet(g, TasksOf(tk, w))
        = SumFunctionOnSet(f, TasksOf(tk, w)) - f[o] + g[o]
  BY <1>1, SumChanged
<1>. QED  BY <1>2 DEF PlannedOf

\* The counters stay numbers.
LEMMA ReleasedCounters ==
  ASSUME TypeOK, CountersTyped, NEW o \in Orders, NEW to, NEW gone, NEW have,
         ReleaseReservation(o, to, gone, have)
  PROVE  CountersTyped'
<1>1. CASE task[o].st = "none"
  BY <1>1 DEF ReleaseReservation, CountersTyped, taskVars, waveVars
<1>2. CASE task[o].st # "none"
  <2>. DEFINE w == task[o].wave
              planned == PlannedOf([task EXCEPT ![o] = NoTask], tPlanned, w)
              picked == Larger(0, wPicked[w] - tPicked[o])
  <2>1. /\ tPlanned' = [tPlanned EXCEPT ![o] = 0]
        /\ tPicked' = [tPicked EXCEPT ![o] = 0]
        /\ wPlanned' = [wPlanned EXCEPT ![w] = planned]
        /\ wPicked' = [wPicked EXCEPT ![w] = picked]
    BY <1>2 DEF ReleaseReservation
  <2>2. w \in Waves
    BY <1>2 DEF TypeOK, Tasks, NoTask
  <2>3. planned \in Nat
    BY PlannedTyped DEF CountersTyped
  <2>4. picked \in Nat
    BY <2>2 DEF CountersTyped, Larger
  <2>. HIDE DEF planned, picked, w
  <2>. QED  BY <2>1, <2>2, <2>3, <2>4 DEF CountersTyped
<1>. QED  BY <1>1, <1>2

LEMMA ProgressedCounters ==
  ASSUME TypeOK, CountersTyped, NEW o \in Orders, task[o].st # "none", NEW rows,
         NEW m \in Nat, NEW n \in Nat, Progress(o, rows, m, n)
  PROVE  CountersTyped'
<1>. DEFINE w == task[o].wave
<1>1. w \in Waves
  BY DEF TypeOK, Tasks, NoTask
<1>2. /\ tPlanned[o] - n > 0 /\ wPlanned[w] - n >= wPicked[w] + m
      /\ tPlanned' = [tPlanned EXCEPT ![o] = tPlanned[o] - n]
      /\ tPicked' = [tPicked EXCEPT ![o] = tPicked[o] + m]
      /\ wPlanned' = [wPlanned EXCEPT ![w] = wPlanned[w] - n]
      /\ wPicked' = [wPicked EXCEPT ![w] = wPicked[w] + m]
  BY DEF Progress, CountersTyped
<1>. HIDE DEF w
<1>3. /\ tPlanned[o] - n \in Nat /\ tPicked[o] + m \in Nat
      /\ wPlanned[w] - n \in Nat /\ wPicked[w] + m \in Nat
  BY <1>1, <1>2 DEF CountersTyped
<1>. QED  BY <1>1, <1>2, <1>3 DEF CountersTyped

LEMMA CountersStep ==
  TypeOK /\ RowsFit /\ CountersTyped /\ [Next]_vars => CountersTyped'
<1>. SUFFICES ASSUME TypeOK, RowsFit, CountersTyped, [Next]_vars
              PROVE  CountersTyped'
  OBVIOUS
<1>0. ASSUME UNCHANGED <<tPlanned, tPicked, wPlanned, wPicked>>
      PROVE  CountersTyped'
  BY <1>0 DEF CountersTyped
<1>00. \A tk, f, w : f \in [Orders -> Nat] => PlannedOf(tk, f, w) \in Nat
  BY PlannedTyped
<1>1. CASE UNCHANGED vars
  BY <1>0, <1>1 DEF vars, taskVars, waveVars
<1>2. CASE StockSteps
  BY <1>0, <1>2, ReleasedCounters
  DEF StockSteps, RetryReservation, ReturnUpperTier, ImportOrder,
      RetryException, CountSteps, CheckDrained, StartCounting, taskVars, waveVars
<1>3. CASE WaveSteps
  <2>1. ASSUME NEW w \in Waves, NEW os \in SUBSET Orders, AttachOrders(w, os)
        PROVE  CountersTyped'
    <3>1. /\ tPlanned' = [o \in Orders |-> IF o \in os THEN SumOf(Reserved, alloc[o])
                                           ELSE tPlanned[o]]
          /\ wPlanned' = [wPlanned EXCEPT ![w] = PlannedOf(task', tPlanned', w)]
          /\ UNCHANGED <<tPicked, wPicked>>
      BY <2>1 DEF AttachOrders
    <3>2. \A o \in Orders : SumOf(Reserved, alloc[o]) \in Nat
      <4>1. SUFFICES ASSUME NEW o \in Orders  PROVE SumOf(Reserved, alloc[o]) \in Nat
        OBVIOUS
      <4>2. SumOf(Reserved, alloc[o]) = Planned(alloc[o])
        BY SumsOfRows
      <4>3. Planned(alloc[o]) \in Nat
        BY RowSumsTyped DEF TypeOK
      <4>. QED  BY <4>2, <4>3
    <3>3. \A o \in Orders : tPlanned'[o] \in Nat
      <4>1. SUFFICES ASSUME NEW o \in Orders  PROVE tPlanned'[o] \in Nat
        OBVIOUS
      <4>2. PICK n \in Nat : n = SumOf(Reserved, alloc[o])
        BY <3>2
      <4>3. CASE o \in os
        BY <3>1, <4>2, <4>3
      <4>4. CASE o \notin os
        BY <3>1, <4>4 DEF CountersTyped
      <4>. QED  BY <4>3, <4>4
    <3>4. tPlanned' \in [Orders -> Nat]
      BY <3>1, <3>3
    <3>5. PlannedOf(task', tPlanned', w) \in Nat
      BY <1>00, <3>4
    <3>. QED  BY <3>1, <3>4, <3>5 DEF CountersTyped
  <2>2. ASSUME NEW ws \in SUBSET Waves, NEW to \in [Orders -> ws], Repack(ws, to)
        PROVE  CountersTyped'
    <3>1. /\ wPlanned' = [w \in Waves |->
               IF w \in ws THEN PlannedOf(task', tPlanned, w) ELSE wPlanned[w]]
          /\ UNCHANGED <<tPlanned, tPicked, wPicked>>
      BY <2>2 DEF Repack
    <3>2. \A w \in Waves : PlannedOf(task', tPlanned, w) \in Nat
      BY <1>00 DEF CountersTyped
    <3>. QED  BY <3>1, <3>2 DEF CountersTyped
  <2>3. ASSUME NEW p \in Pickers, NEW k \in Carts, NEW w \in Waves,
               ClaimWave(p, k, w)
        PROVE  CountersTyped'
    <3>1. /\ wPlanned' = [wPlanned EXCEPT ![w] = PlannedOf(task, tPlanned, w)]
          /\ UNCHANGED <<tPlanned, tPicked, wPicked>>
      BY <2>3 DEF ClaimWave
    <3>2. PlannedOf(task, tPlanned, w) \in Nat
      BY <1>00 DEF CountersTyped
    <3>. QED  BY <3>1, <3>2 DEF CountersTyped
  <2>4. ASSUME NEW p \in Pickers, NEW k \in Carts, NEW w \in Waves,
               TakeOverWave(p, k, w)
        PROVE  CountersTyped'
    BY <1>0, <2>4 DEF TakeOverWave
  <2>. QED  BY <1>3, <2>1, <2>2, <2>3, <2>4, WaveCases
<1>4. CASE PickSteps
  <2>0. \A o \in Orders : task[o].st = "in_progress" => task[o].st # "none"
    OBVIOUS
  <2>1. ASSUME NEW p \in Pickers, NEW o \in Orders, NEW b \in Balances,
               PickUnit(p, o, b)
        PROVE  CountersTyped'
    <3>1. PICK rows : Progress(o, rows, 1, 0)
      BY <2>1 DEF PickUnit
    <3>2. task[o].st # "none"
      BY <2>1 DEF PickUnit, IsTaskActor
    <3>. QED  BY <3>1, <3>2, ProgressedCounters
  <2>2. ASSUME NEW p \in Pickers, NEW o \in Orders, NEW b \in Balances,
               ReportNotFound(p, o, b)
        PROVE  CountersTyped'
    <3>1. task[o].st # "none"
      BY <2>2 DEF ReportNotFound, IsTaskActor
    <3>2. CASE \E gone, have : ReleaseReservation(o, "awaiting_stock", gone, have)
      BY <3>2, ReleasedCounters
    <3>3. CASE \E rows : Open(alloc[o][b]) > 0
                         /\ Progress(o, rows, 0, Open(alloc[o][b]))
      <4>1. Open(alloc[o][b]) \in Nat
        BY <3>3 DEF TypeOK, Open, Rows
      <4>2. PICK n \in Nat : \E rows : Progress(o, rows, 0, n)
        BY <3>3, <4>1
      <4>. QED  BY <3>1, <4>2, ProgressedCounters
    <3>. QED  BY <2>2, <3>2, <3>3 DEF ReportNotFound
  <2>3. ASSUME NEW p \in Pickers, NEW o \in Orders, NEW b \in Balances,
               NEW m \in 1 .. resv[b], ReportMissing(p, o, b, m)
        PROVE  CountersTyped'
    <3>. DEFINE group == MissingGroup(p, o, b)
                w == task[o].wave
    <3>0. m \in Nat /\ w \in Waves
      BY <2>3 DEF TypeOK, ReportMissing, IsTaskActor, Tasks, NoTask
    <3>1. PICK miss \in [group -> Nat] :
            /\ SumFunction(miss) = m
            /\ DropMissing(w, b, miss, LostWhole(group, miss), LostPart(group, miss))
      BY <2>3, <3>0, MissingSplit
    <3>. DEFINE whole == LostWhole(group, miss)
                part == LostPart(group, miss)
                planned == IF whole = {} THEN wPlanned[w] - SumFunction(miss)
                           ELSE PlannedOf(task', tPlanned', w)
    <3>2. /\ \A c \in part : c \in group /\ c \notin whole
          /\ UNCHANGED <<tPicked, wPicked>>
      BY <2>3 DEF LostPart, ReportMissing
    <3>3. /\ tPlanned' = [c \in Orders |->
               IF c \in whole THEN 0
               ELSE IF c \in part THEN tPlanned[c] - miss[c] ELSE tPlanned[c]]
          /\ wPlanned' = [wPlanned EXCEPT ![w] = planned]
          /\ planned >= wPicked[w]
      BY <3>1 DEF DropMissing
    <3>4. group \in SUBSET Orders
      BY MissingMembers
    <3>. HIDE DEF group, whole, part, planned, w
    <3>5. \A c \in Orders : tPlanned'[c] \in Nat
      <4>1. SUFFICES ASSUME NEW c \in Orders  PROVE tPlanned'[c] \in Nat
        OBVIOUS
      <4>2. c \in part => tPlanned'[c] > 0
        BY <3>1, <3>4, MissingEffect DEF part
      <4>3. c \in part => miss[c] \in Nat
        BY <3>1, <3>2
      <4>. QED  BY <3>2, <3>3, <4>2, <4>3 DEF CountersTyped
    <3>6. tPlanned' \in [Orders -> Nat]
      BY <3>3, <3>5
    <3>7. planned \in Nat
      <4>1. PlannedOf(task', tPlanned', w) \in Nat
        BY <1>00, <3>6
      <4>2. wPlanned[w] - SumFunction(miss) \in Int /\ wPicked[w] \in Nat
        BY <3>0, <3>1 DEF CountersTyped
      <4>. QED  BY <3>3, <4>1, <4>2 DEF planned
    <3>. QED  BY <3>0, <3>2, <3>3, <3>6, <3>7 DEF CountersTyped
  <2>. QED  BY <1>0, <1>4, <2>1, <2>2, <2>3
       DEF PickSteps, ReportOther, HandOver, taskVars, waveVars
<1>5. CASE VerifySteps
  <2>1. UNCHANGED <<tPlanned, tPicked, wPlanned, wPicked>>
    <3>1. ASSUME NEW k \in Controllers, NEW o \in Orders,
                 ConfirmLabel(k, o) \/ ReportProblem(k, o)
          PROVE  UNCHANGED <<tPlanned, tPicked, wPlanned, wPicked>>
      BY <3>1 DEF ConfirmLabel, ReportProblem, taskVars
    <3>2. ASSUME NEW k \in Controllers, NEW w \in Waves, ClaimVerification(k, w)
          PROVE  UNCHANGED <<tPlanned, tPicked, wPlanned, wPicked>>
      BY <3>2 DEF ClaimVerification, taskVars
    <3>3. ASSUME NEW k \in Controllers, NEW o \in Orders, NEW b \in Balances,
                 VerifyUnit(k, o, b)
          PROVE  UNCHANGED <<tPlanned, tPicked, wPlanned, wPicked>>
      BY <3>3 DEF VerifyUnit, taskVars, waveVars
    <3>4. ASSUME NEW o \in Orders, PrefetchLabel(o) \/ RegisterLabel(o)
          PROVE  UNCHANGED <<tPlanned, tPicked, wPlanned, wPicked>>
      BY <3>4 DEF PrefetchLabel, RegisterLabel, taskVars, waveVars
    <3>. QED  BY <1>5, <3>1, <3>2, <3>3, <3>4 DEF VerifySteps
  <2>. QED  BY <1>0, <2>1
<1>. QED  BY <1>1, <1>2, <1>3, <1>4, <1>5 DEF Next, PickingNext

WaveBooks(w) ==
  /\ wPlanned[w] = PlannedOf(task, tPlanned, w)
  /\ wPicked[w] = PlannedOf(task, tPicked, w)

WavesSound == \A w \in Waves : WaveBooks(w)

\* A wave whose tasks keep their quantities.
LEMMA WaveUntold ==
  ASSUME CountersTyped, NEW w \in Waves, WaveBooks(w),
         TasksOf(task', w) = TasksOf(task, w),
         \A o \in TasksOf(task, w) : tPlanned'[o] = tPlanned[o]
                                  /\ tPicked'[o] = tPicked[o],
         wPlanned'[w] = wPlanned[w], wPicked'[w] = wPicked[w]
  PROVE  WaveBooks(w)'
<1>1. \A o \in Orders : tPlanned[o] \in Nat /\ tPicked[o] \in Nat
  BY DEF CountersTyped
<1>2. PlannedOf(task', tPlanned', w) = PlannedOf(task, tPlanned, w)
  BY <1>1, PlannedSame
<1>3. PlannedOf(task', tPicked', w) = PlannedOf(task, tPicked, w)
  BY <1>1, PlannedSame
<1>. QED  BY <1>2, <1>3 DEF WaveBooks

\* Tasks that stay in their waves.
LEMMA TasksStay ==
  ASSUME \A o \in Orders :
           /\ task[o].st # "none" <=> task'[o].st # "none"
           /\ task[o].st # "none" => task'[o].wave = task[o].wave
  PROVE  \A w : TasksOf(task', w) = TasksOf(task, w)
BY DEF TasksOf

\* A step that moves no task and changes no counter.
LEMMA WavesUntold ==
  ASSUME CountersTyped, WavesSound,
         \A o \in Orders :
           /\ task[o].st # "none" <=> task'[o].st # "none"
           /\ task[o].st # "none" => task'[o].wave = task[o].wave,
         UNCHANGED <<tPlanned, tPicked, wPlanned, wPicked>>
  PROVE  WavesSound'
<1>1. \A w : TasksOf(task', w) = TasksOf(task, w)
  BY TasksStay
<1>. QED  BY <1>1, WaveUntold DEF WavesSound

\* Nothing was picked for an order whose task has not started.
LEMMA UnstartedIsUnpicked ==
  ASSUME TypeOK, RowsFit, OrdersSound, NEW o \in Orders,
         task[o].st \in {"none", "queued"}
  PROVE  tPicked[o] = 0
<1>1. Stage(o) /\ Books(o) /\ alloc[o] \in [Balances -> Rows]
  BY DEF OrdersSound, TypeOK
<1>2. CASE task[o].st = "none"
  BY <1>1, <1>2 DEF Books
<1>3. CASE task[o].st = "queued"
  <2>1. OnShelf(o)
    BY <1>1, <1>3, OrderOfTask DEF Stage
  <2>2. \A b \in Balances : alloc[o][b].picked = 0
    BY <2>1 DEF OnShelf, Only, RowsFit, RowFits, NoRow
  <2>. QED  BY <1>1, <1>3, <2>2, PlanNeedsRow DEF Books
<1>. QED  BY <1>2, <1>3

LEMMA ReleasedWaves ==
  ASSUME TypeOK, CountersTyped, CountersTyped', WavesSound, NEW o \in Orders,
         NEW to, NEW gone, NEW have, ReleaseReservation(o, to, gone, have)
  PROVE  WavesSound'
<1>1. CASE task[o].st = "none"
  BY <1>1, WavesUntold DEF ReleaseReservation, taskVars, waveVars
<1>2. CASE task[o].st # "none"
  <2>0. PICK w \in Waves : w = task[o].wave
    BY <1>2 DEF TypeOK, Tasks, NoTask
  <2>. DEFINE tk == [task EXCEPT ![o] = NoTask]
  <2>1. /\ task' = tk
        /\ tPlanned' = [tPlanned EXCEPT ![o] = 0]
        /\ tPicked' = [tPicked EXCEPT ![o] = 0]
        /\ wPlanned' = [wPlanned EXCEPT ![w] = PlannedOf(tk, tPlanned, w)]
        /\ wPicked' = [wPicked EXCEPT ![w] = Larger(0, wPicked[w] - tPicked[o])]
    BY <1>2, <2>0 DEF ReleaseReservation
  <2>2. /\ w \in Waves /\ o \in TasksOf(task, w)
        /\ TasksOf(task', w) = TasksOf(task, w) \ {o}
        /\ \A v : v # w => TasksOf(task', v) = TasksOf(task, v)
                        /\ o \notin TasksOf(task, v)
    <3>1. task' \in [Orders -> Tasks \cup {NoTask}] /\ task'[o] = NoTask
          /\ \A c \in Orders : c # o => task'[c] = task[c]
      BY <2>1 DEF TypeOK
    <3>. QED  BY <1>2, <2>0, <3>1 DEF TasksOf, NoTask
  <2>. HIDE DEF tk
  <2>3. /\ \A c \in Orders : c # o => tPlanned'[c] = tPlanned[c]
                                   /\ tPicked'[c] = tPicked[c]
        /\ \A c \in Orders : tPlanned[c] \in Nat /\ tPicked[c] \in Nat
    BY <2>1 DEF CountersTyped
  <2>4. WaveBooks(w)'
    <3>1. \A c \in TasksOf(task', w) : c # o /\ c \in Orders
      BY <2>2, TasksFinite
    <3>2. PlannedOf(task', tPlanned', w) = PlannedOf(task', tPlanned, w)
      BY <2>3, <3>1, PlannedSame
    <3>3. PlannedOf(task', tPicked', w) = PlannedOf(task', tPicked, w)
      BY <2>3, <3>1, PlannedSame
    <3>4. PlannedOf(task, tPicked, w) = tPicked[o] + PlannedOf(task', tPicked, w)
      BY <2>2, <2>3, PlannedWithout
    <3>5. PlannedOf(task', tPicked, w) \in Nat
      BY <2>3, PlannedTyped
    <3>6. wPicked[w] = PlannedOf(task, tPicked, w)
      BY <2>2 DEF WavesSound, WaveBooks
    <3>7. wPicked'[w] = Larger(0, wPicked[w] - tPicked[o])
          /\ wPlanned'[w] = PlannedOf(task', tPlanned, w)
      BY <2>1, <2>2 DEF CountersTyped
    <3>8. wPicked'[w] = PlannedOf(task', tPicked, w)
      BY <2>3, <3>4, <3>5, <3>6, <3>7 DEF Larger
    <3>. QED  BY <3>2, <3>3, <3>7, <3>8 DEF WaveBooks
  <2>5. ASSUME NEW v \in Waves, v # w  PROVE WaveBooks(v)'
    <3>1. wPlanned'[v] = wPlanned[v] /\ wPicked'[v] = wPicked[v]
      BY <2>1, <2>5 DEF CountersTyped
    <3>2. TasksOf(task', v) = TasksOf(task, v)
      BY <2>2, <2>5
    <3>3. \A c \in TasksOf(task, v) : tPlanned'[c] = tPlanned[c]
                                   /\ tPicked'[c] = tPicked[c]
      BY <2>2, <2>3, <2>5, TasksFinite
    <3>. QED  BY <3>1, <3>2, <3>3, WaveUntold DEF WavesSound
  <2>. QED  BY <2>4, <2>5 DEF WavesSound
<1>. QED  BY <1>1, <1>2

\* Orders join a wave.
LEMMA AttachedWaves ==
  ASSUME TypeOK, RowsFit, OrdersSound, CountersTyped, CountersTyped', WavesSound,
         NEW w \in Waves, NEW os \in SUBSET Orders, AttachOrders(w, os)
  PROVE  WavesSound'
<1>1. /\ \A o \in os : task[o].st = "none"
      /\ \A o \in Orders :
           /\ o \in os => task'[o] = [st |-> "queued", wave |-> w, picker |-> None]
           /\ o \notin os => task'[o] = task[o] /\ tPlanned'[o] = tPlanned[o]
      /\ wPlanned' = [wPlanned EXCEPT ![w] = PlannedOf(task', tPlanned', w)]
      /\ UNCHANGED <<tPicked, wPicked>>
  BY DEF AttachOrders
<1>2. /\ TasksOf(task', w) = TasksOf(task, w) \cup os
      /\ \A v : v # w => TasksOf(task', v) = TasksOf(task, v)
      /\ \A v : os \cap TasksOf(task, v) = {}
  BY <1>1 DEF TasksOf
<1>3. \A o \in Orders : tPicked[o] \in Nat
  BY DEF CountersTyped
<1>4. WaveBooks(w)'
  <2>1. \A o \in TasksOf(task', w) \ TasksOf(task, w) : tPicked[o] = 0
    BY <1>1, <1>2, UnstartedIsUnpicked
  <2>2. PlannedOf(task', tPicked, w) = PlannedOf(task, tPicked, w)
    BY <1>2, <1>3, <2>1, PlannedOfMore
  <2>3. wPlanned'[w] = PlannedOf(task', tPlanned', w)
    BY <1>1 DEF CountersTyped
  <2>4. wPicked[w] = PlannedOf(task, tPicked, w)
    BY DEF WavesSound, WaveBooks
  <2>. QED  BY <1>1, <2>2, <2>3, <2>4 DEF WaveBooks
<1>5. ASSUME NEW v \in Waves, v # w  PROVE WaveBooks(v)'
  <2>1. wPlanned'[v] = wPlanned[v]
    BY <1>1, <1>5 DEF CountersTyped
  <2>2. TasksOf(task', v) = TasksOf(task, v)
    BY <1>2, <1>5
  <2>3. \A c \in TasksOf(task, v) : tPlanned'[c] = tPlanned[c]
    BY <1>1, <1>2, TasksFinite
  <2>. QED  BY <1>1, <2>1, <2>2, <2>3, WaveUntold DEF WavesSound
<1>. QED  BY <1>4, <1>5 DEF WavesSound

\* Tasks of untouched waves are dealt out again.
LEMMA RepackedWaves ==
  ASSUME TypeOK, RowsFit, OrdersSound, CountersTyped, WavesSound,
         NEW ws \in SUBSET Waves, NEW to \in [Orders -> ws], Repack(ws, to),
         \A w \in ws : Untouched(w)
  PROVE  WavesSound'
<1>. DEFINE moved == UNION {TasksOf(task, w) : w \in ws}
<1>1. /\ \A o \in Orders :
           /\ o \in moved => task'[o] = [task[o] EXCEPT !.wave = to[o]]
           /\ o \notin moved => task'[o] = task[o]
      /\ wPlanned' = [w \in Waves |->
           IF w \in ws THEN PlannedOf(task', tPlanned, w) ELSE wPlanned[w]]
      /\ UNCHANGED <<tPlanned, tPicked, wPicked>>
  BY DEF Repack
<1>2. \A o \in Orders : o \in moved <=> task[o].st # "none" /\ task[o].wave \in ws
  BY DEF TasksOf
<1>3. \A o \in moved : task[o].st = "queued"
  BY DEF Untouched
<1>. HIDE DEF moved
<1>4. \A o \in Orders : o \in moved => /\ task'[o].st = "queued"
                                       /\ task'[o].wave = to[o] /\ to[o] \in ws
  <2>1. SUFFICES ASSUME NEW o \in Orders, o \in moved
                 PROVE  task'[o].st = "queued" /\ task'[o].wave = to[o]
    OBVIOUS
  <2>2. task[o] \in [st : TaskStatuses \ {"none"}, wave : Waves,
                     picker : Pickers \cup {None}]
    BY <1>3, <2>1 DEF TypeOK, Tasks, NoTask
  <2>3. task'[o] = [task[o] EXCEPT !.wave = to[o]]
    BY <1>1, <2>1
  <2>. QED  BY <1>3, <2>1, <2>2, <2>3
<1>5. \A o \in Orders : tPicked[o] \in Nat
  BY DEF CountersTyped
<1>6. ASSUME NEW w \in ws  PROVE WaveBooks(w)'
  <2>1. \A o \in TasksOf(task', w) : o \in moved
    BY <1>1, <1>2, <1>6 DEF TasksOf
  <2>2. \A o \in TasksOf(task', w) : tPicked[o] = 0 /\ o \in Orders
    BY <1>3, <2>1, TasksFinite, UnstartedIsUnpicked
  <2>3. PlannedOf(task', tPicked, w) = 0
    BY <2>2, TasksFinite, SumOfZeros DEF PlannedOf
  <2>4. wPicked[w] = 0
    BY DEF Untouched
  <2>5. wPlanned'[w] = PlannedOf(task', tPlanned, w)
    BY <1>1, <1>6
  <2>. QED  BY <1>1, <2>3, <2>4, <2>5 DEF WaveBooks
<1>7. ASSUME NEW w \in Waves \ ws  PROVE WaveBooks(w)'
  <2>1. TasksOf(task', w) = TasksOf(task, w)
    <3>1. ASSUME NEW o \in Orders
          PROVE  task'[o].st # "none" /\ task'[o].wave = w
                   <=> task[o].st # "none" /\ task[o].wave = w
      <4>1. CASE o \in moved
        BY <1>2, <1>4, <1>7, <4>1
      <4>2. CASE o \notin moved
        BY <1>1, <4>2
      <4>. QED  BY <4>1, <4>2
    <3>. QED  BY <3>1 DEF TasksOf
  <2>2. wPlanned'[w] = wPlanned[w]
    BY <1>1, <1>7
  <2>. QED  BY <1>1, <1>7, <2>1, <2>2, WaveUntold DEF WavesSound
<1>. QED  BY <1>6, <1>7 DEF WavesSound

\* Statuses and owners of tasks change, not their waves.
LEMMA ClaimedWaves ==
  ASSUME TypeOK, CountersTyped, WavesSound, NEW p \in Pickers, NEW k \in Carts,
         NEW w \in Waves, ClaimWave(p, k, w)
  PROVE  WavesSound'
<1>1. /\ \A o \in Orders :
           task'[o] = IF o \in TasksOf(task, w)
                      THEN [task[o] EXCEPT !.st = "in_progress", !.picker = p]
                      ELSE task[o]
      /\ wPlanned' = [wPlanned EXCEPT ![w] = PlannedOf(task, tPlanned, w)]
      /\ UNCHANGED <<tPlanned, tPicked, wPicked>>
  BY DEF ClaimWave
<1>2. ASSUME NEW o \in Orders
      PROVE  /\ task[o].st # "none" <=> task'[o].st # "none"
             /\ task[o].st # "none" => task'[o].wave = task[o].wave
  <2>1. CASE o \in TasksOf(task, w)
    <3>1. task[o] \in [st : TaskStatuses \ {"none"}, wave : Waves,
                       picker : Pickers \cup {None}]
      BY <2>1 DEF TypeOK, Tasks, NoTask, TasksOf
    <3>2. task'[o] = [task[o] EXCEPT !.st = "in_progress", !.picker = p]
      BY <1>1, <2>1
    <3>. QED  BY <3>1, <3>2
  <2>2. CASE o \notin TasksOf(task, w)
    BY <1>1, <2>2
  <2>. QED  BY <2>1, <2>2
<1>3. wPlanned[w] = PlannedOf(task, tPlanned, w)
  BY DEF WavesSound, WaveBooks
<1>4. wPlanned' = wPlanned
  BY <1>1, <1>3 DEF CountersTyped
<1>. QED  BY <1>1, <1>2, <1>4, WavesUntold

\* Units are picked, or leave the plan, one task at a time.
LEMMA ProgressedWaves ==
  ASSUME TypeOK, CountersTyped, WavesSound, NEW o \in Orders,
         task[o].st = "in_progress", NEW rows, NEW m \in Nat, NEW n \in Nat,
         Progress(o, rows, m, n)
  PROVE  WavesSound'
<1>1. PICK w \in Waves : w = task[o].wave
  BY DEF TypeOK, Tasks, NoTask
<1>2. /\ task' = task \/ task' = [task EXCEPT ![o].st = "picked"]
      /\ tPlanned' = [tPlanned EXCEPT ![o] = tPlanned[o] - n]
      /\ tPicked' = [tPicked EXCEPT ![o] = tPicked[o] + m]
      /\ wPlanned' = [wPlanned EXCEPT ![w] = wPlanned[w] - n]
      /\ wPicked' = [wPicked EXCEPT ![w] = wPicked[w] + m]
  BY <1>1 DEF Progress, CountersTyped
<1>3. task[o] \in [st : TaskStatuses \ {"none"}, wave : Waves,
                   picker : Pickers \cup {None}]
  BY DEF TypeOK, Tasks, NoTask
<1>4. \A c \in Orders : /\ task[c].st # "none" <=> task'[c].st # "none"
                        /\ task[c].st # "none" => task'[c].wave = task[c].wave
  <2>1. CASE task' = task
    BY <2>1
  <2>2. CASE task' = [task EXCEPT ![o].st = "picked"]
    <3>1. /\ task'[o].st = "picked" /\ task'[o].wave = task[o].wave
          /\ \A c \in Orders : c # o => task'[c] = task[c]
      BY <1>3, <2>2 DEF TypeOK
    <3>. QED  BY <3>1
  <2>. QED  BY <1>2, <2>1, <2>2
<1>5. \A v : TasksOf(task', v) = TasksOf(task, v)
  BY <1>4, TasksStay
<1>6. o \in TasksOf(task, w) /\ \A v : v # w => o \notin TasksOf(task, v)
  BY <1>1 DEF TasksOf
<1>7. /\ \A c \in Orders : tPlanned[c] \in Nat /\ tPicked[c] \in Nat
      /\ tPlanned'[o] = tPlanned[o] - n /\ tPicked'[o] = tPicked[o] + m
      /\ tPlanned'[o] \in Int /\ tPicked'[o] \in Int
      /\ \A c \in Orders : c # o => tPlanned'[c] = tPlanned[c]
                                 /\ tPicked'[c] = tPicked[c]
      /\ wPlanned'[w] = wPlanned[w] - n /\ wPicked'[w] = wPicked[w] + m
      /\ \A v \in Waves : v # w => wPlanned'[v] = wPlanned[v]
                                /\ wPicked'[v] = wPicked[v]
  BY <1>2 DEF CountersTyped
<1>8. WaveBooks(w)'
  <2>1. PlannedOf(task', tPlanned', w)
          = PlannedOf(task, tPlanned, w) - tPlanned[o] + tPlanned'[o]
    BY <1>5, <1>6, <1>7, PlannedChanged
  <2>2. PlannedOf(task', tPicked', w)
          = PlannedOf(task, tPicked, w) - tPicked[o] + tPicked'[o]
    BY <1>5, <1>6, <1>7, PlannedChanged
  <2>3. PlannedOf(task, tPlanned, w) \in Nat /\ PlannedOf(task, tPicked, w) \in Nat
    BY <1>7, PlannedTyped
  <2>4. /\ wPlanned[w] = PlannedOf(task, tPlanned, w)
        /\ wPicked[w] = PlannedOf(task, tPicked, w)
    BY DEF WavesSound, WaveBooks
  <2>5. /\ wPlanned'[w] = PlannedOf(task', tPlanned', w)
        /\ wPicked'[w] = PlannedOf(task', tPicked', w)
    BY <1>7, <2>1, <2>2, <2>3, <2>4
  <2>. QED  BY <2>5 DEF WaveBooks
<1>9. ASSUME NEW v \in Waves, v # w  PROVE WaveBooks(v)'
  <2>1. \A c \in TasksOf(task, v) : tPlanned'[c] = tPlanned[c]
                                 /\ tPicked'[c] = tPicked[c]
    BY <1>6, <1>7, <1>9, TasksFinite
  <2>. QED  BY <1>5, <1>7, <1>9, <2>1, WaveUntold DEF WavesSound
<1>. QED  BY <1>8, <1>9 DEF WavesSound

\* What a wave loses when units of its orders are missing.
LEMMA MissingWaves ==
  ASSUME TypeOK, CountersTyped, CountersTyped', WavesSound, NEW p \in Pickers,
         NEW o \in Orders, NEW b \in Balances, NEW m \in Nat,
         ReportMissing(p, o, b, m)
  PROVE  WavesSound'
<1>. DEFINE group == MissingGroup(p, o, b)
<1>0. PICK w \in Waves : w = task[o].wave
  BY DEF TypeOK, ReportMissing, IsTaskActor, Tasks, NoTask
<1>1. PICK miss \in [group -> Nat] :
        DropMissing(w, b, miss, LostWhole(group, miss), LostPart(group, miss))
  BY <1>0, MissingSplit
<1>2. /\ group \in SUBSET Orders /\ group \subseteq TasksOf(task, w)
      /\ \A c \in group : task[c].st = "in_progress" /\ task[c].wave = w
  BY <1>0, MissingMembers DEF TasksOf
<1>3. UNCHANGED <<tPicked, wPicked>>
  BY DEF ReportMissing
<1>. DEFINE whole == LostWhole(group, miss)
            part == LostPart(group, miss)
<1>4. PICK lot \in SUBSET Orders : lot = group
  BY <1>2
<1>5. PICK W \in SUBSET lot : W = whole
  BY <1>4 DEF LostWhole
<1>6. PICK P \in SUBSET lot : P = part
  BY <1>4 DEF LostPart
<1>7. /\ \A c \in lot : c \in W \/ c \in P \/ miss[c] = 0
      /\ \A c \in lot : miss[c] \in Nat
      /\ \A c \in W : tPicked[c] = 0
      /\ W \cap P = {}
  <2>1. \A c \in lot : c \in W \/ c \in P \/ ~(miss[c] > 0)
    BY <1>4, <1>5, <1>6 DEF LostPart
  <2>2. \A c \in lot : miss[c] \in Nat
    BY <1>4
  <2>. QED  BY <1>5, <1>6, <2>1, <2>2 DEF LostWhole, LostPart
<1>8. \A c \in Orders :
        /\ c \in W => task'[c] = NoTask /\ tPlanned'[c] = 0
        /\ c \in P => /\ tPlanned'[c] = tPlanned[c] - miss[c]
                      /\ task'[c] = task[c] \/ task'[c] = [task[c] EXCEPT !.st = "picked"]
        /\ c \notin W /\ c \notin P =>
             task'[c] = task[c] /\ tPlanned'[c] = tPlanned[c]
  <2>1. DropMissing(w, b, miss, LostWhole(lot, miss), LostPart(lot, miss))
        /\ miss \in [lot -> Nat]
    BY <1>1, <1>4
  <2>2. W = LostWhole(lot, miss) /\ P = LostPart(lot, miss)
    BY <1>4, <1>5, <1>6
  <2>. QED  BY ONLY TypeOK, <2>1, <2>2, MissingEffect
<1>9. /\ W = {} => wPlanned'[w] = wPlanned[w] - SumFunction(miss)
      /\ W # {} => wPlanned'[w] = PlannedOf(task', tPlanned', w)
      /\ \A v \in Waves : v # w => wPlanned'[v] = wPlanned[v]
  <2>1. wPlanned' = [wPlanned EXCEPT ![w] =
                       IF W = {} THEN wPlanned[w] - SumFunction(miss)
                       ELSE PlannedOf(task', tPlanned', w)]
    BY <1>1, <1>5 DEF DropMissing
  <2>. QED  BY <2>1 DEF CountersTyped
<1>10. DOMAIN miss = lot /\ \A c \in lot : task[c].st = "in_progress" /\ task[c].wave = w
  BY <1>2, <1>4
<1>. HIDE DEF group, whole, part
<1>11. \A c \in lot \ W : task'[c].st # "none" /\ task'[c].wave = w
  <2>1. SUFFICES ASSUME NEW c \in lot \ W
                 PROVE  task'[c].st # "none" /\ task'[c].wave = w
    OBVIOUS
  <2>2. task[c] \in [st : TaskStatuses \ {"none"}, wave : Waves,
                     picker : Pickers \cup {None}]
    BY <1>10 DEF TypeOK, Tasks, NoTask
  <2>3. task'[c] = task[c] \/ task'[c] = [task[c] EXCEPT !.st = "picked"]
    BY <1>8
  <2>. QED  BY <1>10, <2>2, <2>3
<1>12. /\ TasksOf(task', w) = TasksOf(task, w) \ W
       /\ \A v : v # w => TasksOf(task', v) = TasksOf(task, v)
       /\ lot \subseteq TasksOf(task, w)
       /\ \A v : v # w => lot \cap TasksOf(task, v) = {}
  <2>1. \A c \in Orders : c \notin lot => task'[c] = task[c]
    BY <1>8
  <2>2. \A c \in W : task'[c].st = "none"
    <3>1. \A c \in W : task'[c] = NoTask
      BY <1>8
    <3>2. NoTask.st = "none"
      BY DEF NoTask
    <3>. QED  BY <3>1, <3>2
  <2>3. \A v : \A c \in Orders :
          c \in TasksOf(task', v) <=> c \in TasksOf(task, v) /\ ~(v = w /\ c \in W)
    <3>1. SUFFICES ASSUME NEW c \in Orders, NEW v
                   PROVE  (task'[c].st # "none" /\ task'[c].wave = v)
                            <=> (task[c].st # "none" /\ task[c].wave = v
                                   /\ ~(v = w /\ c \in W))
      BY DEF TasksOf
    <3>2. CASE c \in W
      BY <1>10, <2>2, <3>2
    <3>3. CASE c \in lot \ W
      <4>1. /\ task[c].st # "none" /\ task'[c].st # "none"
            /\ task[c].wave = w /\ task'[c].wave = w
        BY <1>10, <1>11, <3>3
      <4>. QED  BY <3>3, <4>1
    <3>4. CASE c \notin lot
      <4>1. task'[c] = task[c] /\ c \notin W
        BY <2>1, <3>4
      <4>. QED  BY <4>1
    <3>. QED  BY <3>2, <3>3, <3>4
  <2>4. \A v : TasksOf(task', v) \subseteq Orders /\ TasksOf(task, v) \subseteq Orders
    BY TasksFinite
  <2>5. lot \subseteq TasksOf(task, w)
        /\ \A v : v # w => lot \cap TasksOf(task, v) = {}
    BY <1>10 DEF TasksOf
  <2>6. TasksOf(task', w) = TasksOf(task, w) \ W
    BY <2>3, <2>4
  <2>7. \A v : v # w => TasksOf(task', v) = TasksOf(task, v)
    BY <2>3, <2>4
  <2>. QED  BY <2>5, <2>6, <2>7
<1>13. \A c \in Orders : tPlanned[c] \in Nat /\ tPlanned'[c] \in Nat /\ tPicked[c] \in Nat
  BY DEF CountersTyped
<1>14. WaveBooks(w)'
  <2>1. PlannedOf(task, tPicked, w) = PlannedOf(task', tPicked, w)
    <3>1. \A c \in TasksOf(task, w) \ TasksOf(task', w) : tPicked[c] = 0
      BY <1>7, <1>12
    <3>2. TasksOf(task', w) \subseteq TasksOf(task, w)
      BY <1>12
    <3>. QED  BY <1>13, <3>1, <3>2, PlannedOfMore
  <2>2. wPlanned'[w] = PlannedOf(task', tPlanned', w)
    <3>1. CASE W # {}
      BY <1>9, <3>1
    <3>2. CASE W = {}
      <4>. DEFINE T == TasksOf(task, w)
                  gone == [c \in Orders |-> IF c \in lot THEN miss[c] ELSE 0]
      <4>1. T \in SUBSET Orders /\ IsFiniteSet(T) /\ lot \in SUBSET T
        BY <1>12, TasksFinite
      <4>2. \A c \in Orders : gone[c] \in Int
                           /\ (c \in lot => gone[c] = miss[c])
                           /\ (c \notin lot => gone[c] = 0)
        BY <1>7
      <4>. HIDE DEF gone, T
      <4>3. \A c \in T : /\ tPlanned[c] = tPlanned'[c] + gone[c]
                         /\ tPlanned[c] \in Int /\ tPlanned'[c] \in Int
                         /\ gone[c] \in Int
        <5>1. SUFFICES ASSUME NEW c \in T
                       PROVE  tPlanned[c] = tPlanned'[c] + gone[c]
          BY <1>13, <4>1, <4>2
        <5>2. c \in Orders /\ tPlanned[c] \in Nat /\ tPlanned'[c] \in Nat
          BY <1>13, <4>1
        <5>3. CASE c \in P
          <6>1. tPlanned'[c] = tPlanned[c] - miss[c] /\ gone[c] = miss[c]
                /\ miss[c] \in Nat
            BY <1>7, <1>8, <4>2, <5>2, <5>3
          <6>. QED  BY <5>2, <6>1
        <5>4. CASE c \notin P
          <6>1. tPlanned'[c] = tPlanned[c] /\ gone[c] = 0
            BY <1>7, <1>8, <3>2, <4>2, <5>2, <5>4
          <6>. QED  BY <5>2, <6>1
        <5>. QED  BY <5>3, <5>4
      <4>4. SumFunctionOnSet(tPlanned, T)
              = SumFunctionOnSet(tPlanned', T) + SumFunctionOnSet(gone, T)
        BY <4>1, <4>3, SumAdds
      <4>5. SumFunctionOnSet(gone, T) = SumFunctionOnSet(gone, lot)
        <5>1. \A c \in T \ lot : gone[c] = 0
          BY <4>1, <4>2
        <5>. QED  BY <4>1, <4>3, <5>1, SumOverSome
      <4>6. SumFunctionOnSet(gone, lot) = SumFunctionOnSet(miss, lot)
        <5>1. IsFiniteSet(lot)
          BY <4>1, FS_Subset
        <5>2. \A c \in lot : gone[c] \in Int /\ gone[c] = miss[c]
          BY <4>2
        <5>. QED  BY <5>1, <5>2, SameSum
      <4>7. SumFunctionOnSet(miss, lot) = SumFunction(miss)
        BY <1>10 DEF SumFunction
      <4>8. SumFunctionOnSet(tPlanned', T) \in Int /\ SumFunctionOnSet(gone, T) \in Int
        BY <4>1, <4>3, SumIsInt
      <4>9. /\ wPlanned[w] = SumFunctionOnSet(tPlanned, T)
            /\ PlannedOf(task', tPlanned', w) = SumFunctionOnSet(tPlanned', T)
        BY <1>12, <3>2 DEF WavesSound, WaveBooks, PlannedOf, T
      <4>. QED  BY <1>9, <3>2, <4>4, <4>5, <4>6, <4>7, <4>8, <4>9
    <3>. QED  BY <3>1, <3>2
  <2>. QED  BY <1>3, <2>1, <2>2 DEF WaveBooks, WavesSound
<1>15. ASSUME NEW v \in Waves, v # w  PROVE WaveBooks(v)'
  <2>1. \A c \in TasksOf(task, v) : tPlanned'[c] = tPlanned[c]
                                 /\ tPicked'[c] = tPicked[c]
    BY <1>3, <1>8, <1>12, <1>15, TasksFinite
  <2>2. TasksOf(task', v) = TasksOf(task, v) /\ wPlanned'[v] = wPlanned[v]
        /\ wPicked'[v] = wPicked[v]
    BY <1>3, <1>9, <1>12, <1>15
  <2>. QED  BY <2>1, <2>2, WaveUntold DEF WavesSound
<1>. QED  BY <1>14, <1>15 DEF WavesSound

\* The counters of waves stay the sums of those of their tasks.
LEMMA WavesStep ==
  TypeOK /\ RowsFit /\ OrdersSound /\ CountersTyped /\ CountersTyped'
    /\ WavesSound /\ [Next]_vars => WavesSound'
<1>. SUFFICES ASSUME TypeOK, RowsFit, OrdersSound, CountersTyped, CountersTyped',
                     WavesSound, [Next]_vars
              PROVE  WavesSound'
  OBVIOUS
<1>0. ASSUME UNCHANGED <<task, tPlanned, tPicked, wPlanned, wPicked>>
      PROVE  WavesSound'
  BY <1>0, WavesUntold
<1>00. ASSUME NEW o \in Orders, NEW s \in TaskStatuses \ {"none"},
              task[o].st # "none", task' = [task EXCEPT ![o].st = s],
              UNCHANGED <<tPlanned, tPicked, wPlanned, wPicked>>
       PROVE  WavesSound'
  <2>1. task[o] \in [st : TaskStatuses \ {"none"}, wave : Waves,
                     picker : Pickers \cup {None}]
    BY <1>00 DEF TypeOK, Tasks, NoTask
  <2>2. /\ task'[o].st = s /\ task'[o].wave = task[o].wave /\ s # "none"
        /\ \A c \in Orders : c # o => task'[c] = task[c]
    BY <1>00, <2>1 DEF TypeOK
  <2>3. \A c \in Orders : /\ task[c].st # "none" <=> task'[c].st # "none"
                          /\ task[c].st # "none" => task'[c].wave = task[c].wave
    BY <1>00, <2>2
  <2>. QED  BY <1>00, <2>3, WavesUntold
<1>1. CASE UNCHANGED vars
  BY <1>0, <1>1 DEF vars, taskVars, waveVars
<1>2. CASE StockSteps
  <2>1. ASSUME NEW o \in Orders, RetryException(o)  PROVE WavesSound'
    <3>1. /\ task[o].st # "none" /\ task' = [task EXCEPT ![o].st = "in_progress"]
          /\ UNCHANGED <<tPlanned, tPicked, wPlanned, wPicked>>
      BY <2>1 DEF RetryException, waveVars
    <3>. QED  BY <1>00, <3>1 DEF TaskStatuses
  <2>. QED  BY <1>0, <1>2, <2>1, ReleasedWaves
       DEF StockSteps, RetryReservation, ReturnUpperTier, ImportOrder,
           CountSteps, CheckDrained, StartCounting, taskVars, waveVars
<1>3. CASE WaveSteps
  <2>1. CASE \E w \in Waves, os \in (SUBSET Orders) \ {{}} : AttachOrders(w, os)
    BY <2>1, AttachedWaves
  <2>2. CASE \E ws \in SUBSET Waves : \E to \in [Orders -> ws] :
               Repack(ws, to) /\ \A w \in ws : Untouched(w)
    BY <2>2, RepackedWaves
  <2>3. CASE \E p \in Pickers, k \in Carts, w \in Waves : ClaimWave(p, k, w)
    BY <2>3, ClaimedWaves
  <2>4. ASSUME NEW p \in Pickers, NEW k \in Carts, NEW w \in Waves,
               TakeOverWave(p, k, w)
        PROVE  WavesSound'
    <3>1. /\ \A o \in Orders :
               task'[o] = IF o \in ActiveTasks(task, w)
                          THEN [task[o] EXCEPT !.picker = p] ELSE task[o]
          /\ UNCHANGED <<tPlanned, tPicked, wPlanned, wPicked>>
      BY <2>4 DEF TakeOverWave
    <3>2. ASSUME NEW o \in Orders
          PROVE  /\ task[o].st # "none" <=> task'[o].st # "none"
                 /\ task[o].st # "none" => task'[o].wave = task[o].wave
      <4>1. CASE o \in ActiveTasks(task, w)
        <5>1. task[o] \in [st : TaskStatuses \ {"none"}, wave : Waves,
                           picker : Pickers \cup {None}]
          BY <4>1 DEF TypeOK, Tasks, NoTask, ActiveTasks, TasksOf
        <5>2. task'[o] = [task[o] EXCEPT !.picker = p]
          BY <3>1, <4>1
        <5>. QED  BY <5>1, <5>2
      <4>2. CASE o \notin ActiveTasks(task, w)
        BY <3>1, <4>2
      <4>. QED  BY <4>1, <4>2
    <3>. QED  BY <3>1, <3>2, WavesUntold
  <2>. QED  BY <1>3, <2>1, <2>2, <2>3, <2>4, WaveCases
<1>4. CASE PickSteps
  <2>1. ASSUME NEW p \in Pickers, NEW o \in Orders, NEW b \in Balances,
               PickUnit(p, o, b)
        PROVE  WavesSound'
    <3>1. PICK rows : Progress(o, rows, 1, 0)
      BY <2>1 DEF PickUnit
    <3>2. task[o].st = "in_progress"
      BY <2>1 DEF PickUnit, IsTaskActor
    <3>. QED  BY <3>1, <3>2, ProgressedWaves
  <2>2. ASSUME NEW p \in Pickers, NEW o \in Orders, NEW b \in Balances,
               ReportNotFound(p, o, b)
        PROVE  WavesSound'
    <3>1. task[o].st = "in_progress"
      BY <2>2 DEF ReportNotFound, IsTaskActor
    <3>2. CASE \E gone, have : ReleaseReservation(o, "awaiting_stock", gone, have)
      BY <3>2, ReleasedWaves
    <3>3. CASE \E rows : Open(alloc[o][b]) > 0
                         /\ Progress(o, rows, 0, Open(alloc[o][b]))
      <4>1. Open(alloc[o][b]) \in Nat
        BY <3>3 DEF TypeOK, Open, Rows
      <4>2. PICK n \in Nat : \E rows : Progress(o, rows, 0, n)
        BY <3>3, <4>1
      <4>. QED  BY <3>1, <4>2, ProgressedWaves
    <3>. QED  BY <2>2, <3>2, <3>3 DEF ReportNotFound
  <2>3. ASSUME NEW p \in Pickers, NEW o \in Orders, NEW b \in Balances,
               NEW m \in 1 .. resv[b], ReportMissing(p, o, b, m)
        PROVE  WavesSound'
    <3>1. m \in Nat
      BY DEF TypeOK
    <3>. QED  BY <2>3, <3>1, MissingWaves
  <2>4. ASSUME NEW p \in Pickers, NEW o \in Orders, ReportOther(p, o)
        PROVE  WavesSound'
    <3>1. /\ task[o].st # "none" /\ task' = [task EXCEPT ![o].st = "exception"]
          /\ UNCHANGED <<tPlanned, tPicked, wPlanned, wPicked>>
      BY <2>4 DEF ReportOther, IsTaskActor, waveVars
    <3>. QED  BY <1>00, <3>1 DEF TaskStatuses
  <2>. QED  BY <1>0, <1>4, <2>1, <2>2, <2>3, <2>4 DEF PickSteps, HandOver, taskVars
<1>5. CASE VerifySteps
  <2>1. ASSUME NEW k \in Controllers, NEW o \in Orders, ReportProblem(k, o)
        PROVE  WavesSound'
    <3>1. /\ task[o].st # "none" /\ task' = [task EXCEPT ![o].st = "exception"]
          /\ UNCHANGED <<tPlanned, tPicked, wPlanned, wPicked>>
      BY <2>1 DEF ReportProblem
    <3>. QED  BY <1>00, <3>1 DEF TaskStatuses
  <2>2. ASSUME NEW k \in Controllers, NEW o \in Orders, ConfirmLabel(k, o)
        PROVE  WavesSound'
    BY <1>0, <2>2 DEF ConfirmLabel, taskVars
  <2>3. ASSUME NEW k \in Controllers, NEW w \in Waves, ClaimVerification(k, w)
        PROVE  WavesSound'
    BY <1>0, <2>3 DEF ClaimVerification, taskVars
  <2>4. ASSUME NEW k \in Controllers, NEW o \in Orders, NEW b \in Balances,
               VerifyUnit(k, o, b)
        PROVE  WavesSound'
    BY <1>0, <2>4 DEF VerifyUnit, taskVars, waveVars
  <2>5. ASSUME NEW o \in Orders, PrefetchLabel(o) \/ RegisterLabel(o)
        PROVE  WavesSound'
    BY <1>0, <2>5 DEF PrefetchLabel, RegisterLabel, taskVars, waveVars
  <2>. QED  BY <1>5, <2>1, <2>2, <2>3, <2>4, <2>5 DEF VerifySteps
<1>. QED  BY <1>1, <1>2, <1>3, <1>4, <1>5 DEF Next, PickingNext

-----------------------------------------------------------------------------
(***************************************************************************)
(* Waves: their status and the statuses of their tasks.                    *)
(***************************************************************************)

\* An order whose goods are in the tote, or set aside, is nobody's business
\* but the controller's and that of who decides the exception.
Rests(o) ==
  /\ alloc'[o] = alloc[o] /\ task'[o] = task[o]
  /\ ord'[o] = ord[o] /\ short'[o] = short[o]

LEMMA ReservedRests ==
  ASSUME TypeOK, OrdersSound, NEW o \in Orders, NEW c \in Orders,
         task[c].st \in {"picked", "exception"}, ReserveStock(o),
         UNCHANGED <<taskVars, issueVars>>
  PROVE  Rests(c)
<1>1. task' = task /\ short' = short
  BY DEF taskVars, issueVars
<1>2. CASE o = c
  <2>1. ord[o] \in {"picked", "ready_for_handover", "exception"}
    BY <1>2, OrderOfTask DEF OrdersSound
  <2>. QED  BY <1>1, <1>2, <2>1, ReserveIsHold DEF Rests
<1>3. CASE o # c
  <2>1. alloc'[c] = alloc[c] /\ ord'[c] = ord[c]
    BY <1>3, ReserveIsHold DEF Hold, TypeOK
  <2>. QED  BY <1>1, <2>1 DEF Rests
<1>. QED  BY <1>2, <1>3

LEMMA ReleasedRests ==
  ASSUME TypeOK, OrdersSound, NEW o \in Orders, NEW c \in Orders,
         task[c].st \in {"picked", "exception"}, NEW to, NEW gone, NEW have,
         ReleaseReservation(o, to, gone, have)
  PROVE  Rests(c)
<1>1. ord[c] \in {"picked", "ready_for_handover", "exception"}
  BY OrderOfTask DEF OrdersSound
<1>2. c # o
  BY <1>1 DEF ReleaseReservation
<1>3. alloc'[c] = alloc[c]
  BY <1>2, ReleasedRows
<1>4. ord'[c] = ord[c] /\ short'[c] = short[c]
  BY <1>2 DEF ReleaseReservation, TypeOK
<1>5. task'[c] = task[c]
  BY <1>2 DEF ReleaseReservation, TypeOK, taskVars
<1>. QED  BY <1>3, <1>4, <1>5 DEF Rests

LEMMA ProgressedRests ==
  ASSUME TypeOK, NEW o \in Orders, NEW c \in Orders, c # o, NEW rows, NEW m, NEW n,
         Progress(o, rows, m, n), short'[c] = short[c]
  PROVE  Rests(c)
<1>1. alloc' = [alloc EXCEPT ![o] = rows]
  BY DEF Progress
<1>2. /\ task' = task \/ task' = [task EXCEPT ![o].st = "picked"]
      /\ ord' = ord \/ ord' = [ord EXCEPT ![o] = "picked"]
  BY DEF Progress
<1>3. alloc'[c] = alloc[c]
  BY <1>1 DEF TypeOK
<1>4. task'[c] = task[c] /\ ord'[c] = ord[c]
  BY <1>2 DEF TypeOK
<1>. QED  BY <1>3, <1>4 DEF Rests

LEMMA MissingRests ==
  ASSUME TypeOK, NEW c \in Orders, task[c].st \in {"picked", "exception"},
         NEW p \in Pickers, NEW o \in Orders, NEW b \in Balances, NEW m \in Nat,
         ReportMissing(p, o, b, m)
  PROVE  Rests(c)
<1>. DEFINE group == MissingGroup(p, o, b)
<1>1. PICK miss \in [group -> Nat] :
        DropMissing(task[o].wave, b, miss, LostWhole(group, miss),
                    LostPart(group, miss))
  BY MissingSplit
<1>2. group \in SUBSET Orders /\ c \notin group
  BY MissingMembers
<1>3. c \notin LostWhole(group, miss) /\ c \notin LostPart(group, miss)
  BY <1>2 DEF LostWhole, LostPart
<1>. HIDE DEF group
<1>40. PICK w : w = task[o].wave
  OBVIOUS
<1>4. /\ group \in SUBSET Orders /\ miss \in [group -> Nat]
      /\ DropMissing(w, b, miss, LostWhole(group, miss),
                     LostPart(group, miss))
  BY <1>1, <1>2, <1>40
<1>5. alloc'[c] = alloc[c]
  <2>1. alloc' = RowsAfterLoss(b, miss, LostWhole(group, miss), LostPart(group, miss))
    BY <1>4 DEF DropMissing
  <2>. QED  BY <1>3, <2>1 DEF RowsAfterLoss
<1>6. /\ task'[c] = task[c] /\ short'[c] = short[c] /\ ord'[c] = ord[c]
  <2>1. \A d \in Orders : d \notin LostWhole(group, miss)
                           /\ d \notin LostPart(group, miss)
                           => /\ task'[d] = task[d] /\ short'[d] = short[d]
                              /\ ord'[d] = ord[d]
    BY ONLY TypeOK, b \in Balances, <1>4, MissingEffect
  <2>. QED  BY ONLY <1>3, <2>1, c \in Orders
<1>. QED  BY <1>5, <1>6 DEF Rests

LEMMA RepackedRests ==
  ASSUME TypeOK, NEW c \in Orders, task[c].st # "queued",
         NEW ws \in SUBSET Waves, NEW to \in [Orders -> ws], Repack(ws, to),
         \A w \in ws : Untouched(w)
  PROVE  Rests(c)
<1>1. c \notin UNION {TasksOf(task, w) : w \in ws}
  BY DEF Untouched
<1>2. task'[c] = task[c]
  BY <1>1 DEF Repack
<1>. QED  BY <1>2 DEF Repack, Rests, issueVars

LEMMA PickingRests ==
  ASSUME TypeOK, OrdersSound, NEW c \in Orders,
         task[c].st \in {"picked", "exception"}, PickingNext
  PROVE  Rests(c) \/ RetryException(c)
<1>0. ASSUME UNCHANGED <<alloc, task, ord, short>>  PROVE Rests(c)
  BY <1>0 DEF Rests
<1>00. ASSUME NEW o \in Orders, c # o, NEW s, NEW t,
              task' = [task EXCEPT ![o].st = s], ord' = [ord EXCEPT ![o] = t],
              UNCHANGED <<alloc, short>>
       PROVE  Rests(c)
  BY <1>00 DEF Rests, TypeOK
<1>1. CASE StockSteps
  <2>1. ASSUME NEW o \in Orders, NEW s \in Statuses, ImportOrder(o, s)
        PROVE  Rests(c)
    <3>1. CASE ReserveStock(o) /\ UNCHANGED <<taskVars, issueVars, waveVars>>
      BY <3>1, ReservedRests
    <3>2. CASE \E to, gone, have : ReleaseReservation(o, to, gone, have)
      BY <3>2, ReleasedRests
    <3>3. CASE /\ ord[o] \in {"absent", "received", "awaiting_stock"}
               /\ \E t : ord' = [ord EXCEPT ![o] = t]
               /\ UNCHANGED <<stockVars, lock, alloc, taskVars, issueVars, waveVars>>
      <4>1. ord[c] \in {"picked", "ready_for_handover", "exception"}
        BY OrderOfTask DEF OrdersSound
      <4>2. ord'[c] = ord[c]
        BY <3>3, <4>1 DEF TypeOK
      <4>. QED  BY <3>3, <4>2 DEF Rests, taskVars, issueVars
    <3>4. CASE UNCHANGED <<ord, stockVars, lock, alloc, taskVars, issueVars, waveVars>>
      BY <1>0, <3>4 DEF taskVars, issueVars
    <3>. QED  BY <2>1, <3>1, <3>2, <3>3, <3>4 DEF ImportOrder
  <2>2. ASSUME NEW o \in Orders, RetryException(o)
        PROVE  Rests(c) \/ RetryException(c)
    <3>1. /\ task' = [task EXCEPT ![o].st = "in_progress"]
          /\ ord' = [ord EXCEPT ![o] = "picking"]
          /\ UNCHANGED <<alloc, short>>
      BY <2>2 DEF RetryException, issueVars
    <3>. QED  BY <1>00, <2>2, <3>1
  <2>3. ASSUME NEW o \in Orders, RetryReservation(o)  PROVE Rests(c)
    BY <2>3, ReservedRests DEF RetryReservation
  <2>4. ASSUME NEW o \in Orders, ReturnUpperTier(o)  PROVE Rests(c)
    BY <2>4, ReleasedRests DEF ReturnUpperTier
  <2>5. ASSUME NEW b \in Balances, CountSteps(b)  PROVE Rests(c)
    BY <1>0, <2>5 DEF CountSteps, CheckDrained, StartCounting, taskVars, issueVars
  <2>. QED  BY <1>1, <2>1, <2>2, <2>3, <2>4, <2>5 DEF StockSteps
<1>2. CASE WaveSteps
  <2>1. ASSUME NEW w \in Waves, NEW os \in SUBSET Orders, AttachOrders(w, os)
        PROVE  Rests(c)
    <3>1. c \notin os
      BY <2>1 DEF AttachOrders
    <3>. QED  BY <2>1, <3>1 DEF AttachOrders, Rests, issueVars
  <2>2. ASSUME NEW p \in Pickers, NEW k \in Carts, NEW w \in Waves,
               ClaimWave(p, k, w)
        PROVE  Rests(c)
    <3>1. c \notin TasksOf(task, w)
      BY <2>2 DEF ClaimWave
    <3>2. alloc' = [o \in Orders |-> [b \in Balances |->
            IF o \in TasksOf(task, w) /\ alloc[o][b].st = "reserved"
            THEN [alloc[o][b] EXCEPT !.st = "picking"] ELSE alloc[o][b]]]
      BY <2>2 DEF ClaimWave
    <3>3. alloc'[c] = [b \in Balances |-> alloc[c][b]]
      BY <3>1, <3>2
    <3>4. alloc'[c] = alloc[c]
      BY <3>3 DEF TypeOK
    <3>. QED  BY <2>2, <3>1, <3>4 DEF ClaimWave, Rests, issueVars
  <2>3. ASSUME NEW p \in Pickers, NEW k \in Carts, NEW w \in Waves,
               TakeOverWave(p, k, w)
        PROVE  Rests(c)
    BY <2>3 DEF TakeOverWave, ActiveTasks, Rests, issueVars
  <2>. QED  BY <1>2, <2>1, <2>2, <2>3, WaveCases, RepackedRests
<1>3. CASE PickSteps
  <2>1. ASSUME NEW p \in Pickers, NEW o \in Orders, NEW b \in Balances,
               PickUnit(p, o, b)
        PROVE  Rests(c)
    <3>1. c # o /\ short' = short
      BY <2>1 DEF PickUnit, IsTaskActor, issueVars
    <3>2. PICK rows : Progress(o, rows, 1, 0)
      BY <2>1 DEF PickUnit
    <3>. QED  BY <3>1, <3>2, ProgressedRests
  <2>2. ASSUME NEW p \in Pickers, NEW o \in Orders, NEW b \in Balances,
               ReportNotFound(p, o, b)
        PROVE  Rests(c)
    <3>1. c # o
      BY <2>2 DEF ReportNotFound, IsTaskActor
    <3>2. CASE \E to, gone, have : ReleaseReservation(o, to, gone, have)
      BY <3>2, ReleasedRests
    <3>3. CASE \E rows, n : /\ Progress(o, rows, 0, n)
                            /\ \E s : short' = [short EXCEPT ![o] = s]
      <4>1. short'[c] = short[c]
        BY <3>1, <3>3 DEF TypeOK
      <4>. QED  BY <3>1, <3>3, <4>1, ProgressedRests
    <3>. QED  BY <2>2, <3>2, <3>3 DEF ReportNotFound
  <2>3. ASSUME NEW p \in Pickers, NEW o \in Orders, ReportOther(p, o)
        PROVE  Rests(c)
    <3>1. /\ c # o /\ task' = [task EXCEPT ![o].st = "exception"]
          /\ ord' = [ord EXCEPT ![o] = "exception"]
          /\ UNCHANGED <<alloc, short>>
      BY <2>3 DEF ReportOther, IsTaskActor, issueVars
    <3>. QED  BY <1>00, <3>1
  <2>4. ASSUME NEW p \in Pickers, NEW o \in Orders, NEW b \in Balances,
               NEW m \in 1 .. resv[b], ReportMissing(p, o, b, m)
        PROVE  Rests(c)
    <3>1. m \in Nat
      BY DEF TypeOK
    <3>. QED  BY <2>4, <3>1, MissingRests
  <2>5. ASSUME NEW p \in Pickers, NEW w \in Waves, HandOver(p, w)
        PROVE  Rests(c)
    BY <1>0, <2>5 DEF HandOver, taskVars, issueVars
  <2>. QED  BY <1>3, <2>1, <2>2, <2>3, <2>4, <2>5 DEF PickSteps
<1>. QED  BY <1>1, <1>2, <1>3 DEF PickingNext

-----------------------------------------------------------------------------
(***************************************************************************)
(* Labels.                                                                 *)
(***************************************************************************)

Labelled(o) ==
  /\ label[o] # "none" => ord[o] \in {"picked", "ready_for_handover"}
  /\ label[o] = "applied" =>
       ord[o] = "ready_for_handover" /\ VerifiedRows(alloc[o]) /\ short[o] = {}

LabelsSound == \A o \in Orders : Labelled(o)

\* Picking touches no label and no order that has one.
LEMMA PickingKeepsLabels == PickingNext => UNCHANGED label
<1>1. ASSUME NEW o \in Orders, NEW rows, NEW m, NEW n, Progress(o, rows, m, n)
      PROVE  UNCHANGED label
  BY <1>1 DEF Progress
<1>2. StockSteps => UNCHANGED label
  BY DEF StockSteps, RetryReservation, ReturnUpperTier, RetryException,
         ImportOrder, CountSteps, CheckDrained, StartCounting
<1>3. WaveSteps => UNCHANGED label
  BY WaveStepsLeaveRows
<1>4. ASSUME NEW p \in Pickers, NEW o \in Orders, NEW b \in Balances,
             PickUnit(p, o, b)
      PROVE  UNCHANGED label
  BY <1>1, <1>4 DEF PickUnit
<1>5. ASSUME NEW p \in Pickers, NEW o \in Orders, NEW b \in Balances,
             ReportNotFound(p, o, b)
      PROVE  UNCHANGED label
  BY <1>5 DEF ReportNotFound
<1>6. ASSUME NEW p \in Pickers, NEW o \in Orders, NEW b \in Balances, NEW m,
             ReportMissing(p, o, b, m)
      PROVE  UNCHANGED label
  BY <1>6 DEF ReportMissing
<1>7. ASSUME NEW p, NEW x, ReportOther(p, x) \/ HandOver(p, x)
      PROVE  UNCHANGED label
  BY <1>7 DEF ReportOther, HandOver
<1>8. PickSteps => UNCHANGED label
  BY <1>4, <1>5, <1>6, <1>7 DEF PickSteps
<1>. QED  BY <1>2, <1>3, <1>8 DEF PickingNext

LEMMA PickingLabels ==
  ASSUME TypeOK, OrdersSound, LabelsSound, PickingNext
  PROVE  LabelsSound'
<1>1. UNCHANGED label
  BY PickingKeepsLabels
<1>2. SUFFICES ASSUME NEW o \in Orders, label[o] # "none"  PROVE Labelled(o)'
  BY <1>1 DEF LabelsSound, Labelled
<1>3. task[o].st = "picked"
  BY <1>2 DEF LabelsSound, Labelled, OrdersSound, Stage
<1>4. Rests(o)
  <2>1. ~RetryException(o)
    BY <1>3 DEF RetryException
  <2>. QED  BY <1>3, <2>1, PickingRests
<1>. QED  BY <1>1, <1>4 DEF LabelsSound, Labelled, Rests

LEMMA VerifyLabels ==
  ASSUME TypeOK, OrdersSound, LabelsSound, VerifySteps
  PROVE  LabelsSound'
<1>0. ASSUME UNCHANGED <<label, ord, alloc, short>>  PROVE LabelsSound'
  BY <1>0 DEF LabelsSound, Labelled
<1>1. ASSUME NEW k \in Controllers, NEW w \in Waves, ClaimVerification(k, w)
      PROVE  LabelsSound'
  BY <1>0, <1>1 DEF ClaimVerification, issueVars
<1>2. ASSUME NEW k \in Controllers, NEW o \in Orders, NEW b \in Balances,
             VerifyUnit(k, o, b)
      PROVE  LabelsSound'
  <2>. DEFINE next == [alloc[o][b] EXCEPT !.ver = @ + 1]
  <2>1. /\ \A c \in Orders : c # o => alloc'[c] = alloc[c]
        /\ alloc'[o] = [alloc[o] EXCEPT ![b] = next]
        /\ alloc[o][b].st = "picked"
    BY <1>2, VerifiedRow
  <2>2. alloc[o][b] \in Rows /\ alloc[o] \in [Balances -> Rows]
    BY DEF TypeOK
  <2>3. /\ next.st = alloc[o][b].st /\ next.picked = alloc[o][b].picked
        /\ next.ver = alloc[o][b].ver + 1
    BY <2>2 DEF Rows
  <2>4. VerifiedRows(alloc[o]) => VerifiedRows(alloc'[o])
    <3>. HIDE DEF next
    <3>1. /\ alloc'[o][b] = next
          /\ \A x \in Balances : x # b => alloc'[o][x] = alloc[o][x]
      BY <2>1, <2>2
    <3>2. alloc[o][b].ver \in Nat /\ alloc[o][b].picked \in Nat
      BY <2>2 DEF Rows
    <3>3. Verified(alloc[o][b]) => Verified(next)
      BY <2>3, <3>2 DEF Verified
    <3>. QED  BY <2>3, <3>1, <3>3 DEF VerifiedRows
  <2>5. UNCHANGED <<ord, short>>
    BY <1>2 DEF VerifyUnit, issueVars
  <2>6. \/ UNCHANGED label
        \/ /\ label[o] = "none" /\ ord[o] = "picked"
           /\ label' = [label EXCEPT ![o] = "requested"]
    BY <1>2 DEF VerifyUnit
  <2>. HIDE DEF next
  <2>7. SUFFICES ASSUME NEW c \in Orders  PROVE Labelled(c)'
    BY DEF LabelsSound
  <2>8. VerifiedRows(alloc[c]) => VerifiedRows(alloc'[c])
    BY <2>1, <2>4
  <2>9. label'[c] = label[c] \/ (label'[c] = "requested" /\ ord[c] = "picked")
    BY <2>6 DEF TypeOK
  <2>. QED  BY <2>5, <2>8, <2>9 DEF LabelsSound, Labelled
<1>3. ASSUME NEW o \in Orders, PrefetchLabel(o) \/ RegisterLabel(o)
      PROVE  LabelsSound'
  <2>1. /\ ord[o] = "picked" /\ label[o] # "applied"
        /\ \E s \in {"requested", "ready"} : label' = [label EXCEPT ![o] = s]
        /\ UNCHANGED <<ord, alloc, short>>
    BY <1>3 DEF PrefetchLabel, RegisterLabel, issueVars
  <2>. QED  BY <2>1 DEF LabelsSound, Labelled, TypeOK
<1>4. ASSUME NEW k \in Controllers, NEW o \in Orders, ConfirmLabel(k, o)
      PROVE  LabelsSound'
  <2>1. /\ label' = [label EXCEPT ![o] = "applied"]
        /\ ord' = [ord EXCEPT ![o] = "ready_for_handover"]
        /\ VerifiedRows(alloc[o]) /\ short[o] = {}
        /\ UNCHANGED <<alloc, short>>
    BY <1>4 DEF ConfirmLabel, ShortageBlocks, issueVars
  <2>2. SUFFICES ASSUME NEW c \in Orders  PROVE Labelled(c)'
    BY DEF LabelsSound
  <2>3. CASE c = o
    BY <2>1, <2>3 DEF Labelled, TypeOK
  <2>4. CASE c # o
    BY <2>1, <2>4 DEF LabelsSound, Labelled, TypeOK
  <2>. QED  BY <2>3, <2>4
<1>5. ASSUME NEW k \in Controllers, NEW o \in Orders, ReportProblem(k, o)
      PROVE  LabelsSound'
  <2>1. /\ label' = [label EXCEPT ![o] = "none"]
        /\ ord' = [ord EXCEPT ![o] = "exception"]
        /\ \A c \in Orders : c # o => alloc'[c] = alloc[c]
        /\ UNCHANGED short
    BY <1>5 DEF ReportProblem, issueVars, TypeOK
  <2>2. SUFFICES ASSUME NEW c \in Orders  PROVE Labelled(c)'
    BY DEF LabelsSound
  <2>3. CASE c = o
    BY <2>1, <2>3 DEF Labelled, TypeOK
  <2>4. CASE c # o
    BY <2>1, <2>4 DEF LabelsSound, Labelled, TypeOK
  <2>. QED  BY <2>3, <2>4
<1>. QED  BY <1>1, <1>2, <1>3, <1>4, <1>5 DEF VerifySteps

LEMMA LabelsStep ==
  TypeOK /\ OrdersSound /\ LabelsSound /\ [Next]_vars => LabelsSound'
<1>1. UNCHANGED vars /\ LabelsSound => LabelsSound'
  BY DEF vars, issueVars, LabelsSound, Labelled
<1>. QED  BY <1>1, PickingLabels, VerifyLabels DEF Next

-----------------------------------------------------------------------------
(***************************************************************************)
(* Waves: how far a wave is, its tasks tell.                               *)
(***************************************************************************)

Closed == {"verification", "done"}

\* A task nobody has to work on any more.
Settled(o) == task[o].st = "picked" \/ (task[o].st = "exception" /\ SetAside(o))

WaveShape(w) ==
  /\ wave[w].st = "none" => TasksOf(task, w) = {}
  /\ wave[w].st = "queued" =>
       /\ TasksOf(task, w) # {}
       /\ \A o \in TasksOf(task, w) : task[o].st = "queued"
  /\ wave[w].st = "in_progress" =>
       /\ \A o \in TasksOf(task, w) : task[o].st # "queued"
       /\ \E o \in TasksOf(task, w) : task[o].st # "picked"
  /\ wave[w].st = "canceled" => \A o \in TasksOf(task, w) : task[o].st # "queued"
  /\ wave[w].st \in Closed => \A o \in TasksOf(task, w) : Settled(o)
  /\ wave[w].handed => wave[w].st \in Closed

WavesShape == \A w \in Waves : WaveShape(w)

\* A wave is full when its counters meet.
FullWave(w) ==
  wPicked[w] = wPlanned[w] <=> \A o \in TasksOf(task, w) : Settled(o)

FullWaves == \A w \in Waves : FullWave(w)

\* The counters of one task meet when it is settled.
LEMMA FullTask ==
  ASSUME TypeOK, RowsFit, OrdersSound, NEW o \in Orders, task[o].st # "none"
  PROVE  /\ tPicked[o] \in Nat /\ tPlanned[o] \in Nat
         /\ tPicked[o] <= tPlanned[o]
         /\ tPicked[o] = tPlanned[o] <=> Settled(o)
<1>1. /\ alloc[o] \in [Balances -> Rows] /\ \A b \in Balances : RowFits(alloc[o][b])
      /\ IsFiniteSet(Balances)
  BY ConstantsAssumption DEF TypeOK, RowsFit
<1>2. tPlanned[o] = Planned(alloc[o]) /\ tPicked[o] = Taken(alloc[o])
  BY DEF OrdersSound, Books
<1>3. Planned(alloc[o]) \in Nat /\ Taken(alloc[o]) \in Nat
  BY <1>1, RowSumsTyped
<1>4. \A b \in Balances : /\ ResOf(alloc[o])[b] \in Int
                          /\ PickedOf(alloc[o])[b] \in Int
                          /\ ResOf(alloc[o])[b] = alloc[o][b].res
                          /\ PickedOf(alloc[o])[b] = alloc[o][b].picked
  BY <1>1 DEF ResOf, PickedOf, Rows
<1>5. \A b \in Balances : /\ alloc[o][b].picked <= alloc[o][b].res
                          /\ alloc[o][b].st \in {"reserved", "picking"}
                               => alloc[o][b].picked # alloc[o][b].res
  BY <1>1 DEF RowFits, NoRow, Rows, RowStatuses
<1>6. /\ Taken(alloc[o]) <= Planned(alloc[o])
      /\ Taken(alloc[o]) = Planned(alloc[o])
           => \A b \in Balances : alloc[o][b].picked = alloc[o][b].res
  BY <1>1, <1>4, <1>5, SumOrdered DEF Taken, Planned
<1>7. Settled(o) => Taken(alloc[o]) = Planned(alloc[o])
  <2>. SUFFICES ASSUME Settled(o)  PROVE Taken(alloc[o]) = Planned(alloc[o])
    OBVIOUS
  <2>1. InTote(o) \/ SetAside(o)
    BY OrderOfTask DEF Settled, OrdersSound, Stage
  <2>2. \A b \in Balances : alloc[o][b].st \in {"none", "picked", "canceled"}
    BY <2>1 DEF InTote, SetAside, Only
  <2>3. \A b \in Balances : alloc[o][b].picked = alloc[o][b].res
    BY <1>1, <2>2 DEF RowFits, NoRow
  <2>. QED  BY <2>3, AllTaken
<1>8. ~Settled(o) => Taken(alloc[o]) # Planned(alloc[o])
  <2>. SUFFICES ASSUME ~Settled(o)  PROVE Taken(alloc[o]) # Planned(alloc[o])
    OBVIOUS
  <2>1. CASE \E b \in Balances : alloc[o][b].st \in {"reserved", "picking"}
    BY <1>5, <1>6, <2>1
  <2>2. CASE task[o].st = "queued"
    <3>1. OnShelf(o)
      BY <2>2, OrderOfTask DEF OrdersSound, Stage
    <3>2. Planned(alloc[o]) > 0
      BY <3>1, ConstantsAssumption DEF OnShelf
    <3>3. PICK b \in Balances : alloc[o][b].res # 0
      BY <1>1, <3>2, PlanNeedsRow
    <3>4. alloc[o][b].st = "reserved"
      BY <1>1, <3>1, <3>3 DEF OnShelf, Only, RowFits, NoRow
    <3>. QED  BY <2>1, <3>4
  <2>3. CASE task[o].st \in {"in_progress", "exception"}
    <3>1. InHand(o)
      BY <2>3, OrderOfTask DEF OrdersSound, Stage, Settled
    <3>. QED  BY <2>1, <3>1 DEF InHand, Has
  <2>4. task[o].st \in {"queued", "in_progress", "picked", "exception"}
    BY DEF TypeOK, Tasks, NoTask, TaskStatuses
  <2>. QED  BY <2>2, <2>3, <2>4 DEF Settled
<1>. QED  BY <1>2, <1>3, <1>6, <1>7, <1>8

LEMMA WavesFull ==
  TypeOK /\ RowsFit /\ OrdersSound /\ CountersTyped /\ WavesSound => FullWaves
<1>. SUFFICES ASSUME TypeOK, RowsFit, OrdersSound, CountersTyped, WavesSound,
                     NEW w \in Waves
              PROVE  FullWave(w)
  BY DEF FullWaves
<1>. DEFINE S == TasksOf(task, w)
<1>1. S \in SUBSET Orders /\ IsFiniteSet(S) /\ \A o \in S : task[o].st # "none"
  <2>1. \A o \in S : task[o].st # "none"
    BY DEF TasksOf
  <2>. QED  BY <2>1, TasksFinite
<1>2. /\ wPlanned[w] = SumFunctionOnSet(tPlanned, S)
      /\ wPicked[w] = SumFunctionOnSet(tPicked, S)
  BY DEF WavesSound, WaveBooks, PlannedOf
<1>3. \A o \in S : /\ tPicked[o] \in Int /\ tPlanned[o] \in Int
                   /\ tPicked[o] <= tPlanned[o]
                   /\ tPicked[o] = tPlanned[o] <=> Settled(o)
  BY <1>1, FullTask
<1>. HIDE DEF S
<1>4. IsFiniteSet(S) /\ \A o \in S : /\ tPicked[o] \in Int /\ tPlanned[o] \in Int
                                       /\ tPicked[o] <= tPlanned[o]
  BY <1>1, <1>3
<1>5. SumFunctionOnSet(tPicked, S) = SumFunctionOnSet(tPlanned, S)
         => \A o \in S : tPicked[o] = tPlanned[o]
  BY ONLY <1>4, SumOrdered
<1>6. wPicked[w] = wPlanned[w] => \A o \in S : tPicked[o] = tPlanned[o]
  BY <1>2, <1>5
<1>7. (\A o \in S : tPicked[o] = tPlanned[o]) => wPicked[w] = wPlanned[w]
  <2>1. (\A o \in S : tPicked[o] = tPlanned[o])
          => SumFunctionOnSet(tPicked, S) = SumFunctionOnSet(tPlanned, S)
    BY ONLY <1>4, SameSum
  <2>. QED  BY <1>2, <2>1
<1>8. wPicked[w] = wPlanned[w] <=> \A o \in S : Settled(o)
  BY <1>3, <1>6, <1>7
<1>. QED  BY <1>8 DEF FullWave, S

\* What the controller set aside stays aside: retry_pick_exception refuses it.
AsideStays ==
  \A c \in Orders : task[c].st = "exception" /\ SetAside(c)
                      => Rests(c) /\ SetAside(c)'

LEMMA AsideStep == TypeOK /\ OrdersSound /\ [Next]_vars => AsideStays
<1>. SUFFICES ASSUME TypeOK, OrdersSound, [Next]_vars, NEW c \in Orders,
                     task[c].st = "exception", SetAside(c)
              PROVE  Rests(c) /\ SetAside(c)'
  BY DEF AsideStays
<1>1. HandedStays
  BY HandedStep
<1>2. task[c].wave \in Waves
  BY OrderOfTask DEF OrdersSound
<1>3. Rests(c) => SetAside(c)'
  BY <1>1, <1>2 DEF Rests, SetAside, Only, Has, HandedStays
<1>4. \A b \in Balances : alloc[c][b].st # "picked"
  BY DEF SetAside, Only
<1>5. CASE PickingNext
  <2>1. ~RetryException(c)
    BY DEF RetryException, SetAside, Has
  <2>. QED  BY <1>3, <1>5, <2>1, PickingRests
<1>6. CASE VerifySteps
  <2>0. ASSUME UNCHANGED <<alloc, task, ord, short>>  PROVE Rests(c)
    BY <2>0 DEF Rests
  <2>1. ASSUME NEW k \in Controllers, NEW w \in Waves, ClaimVerification(k, w)
        PROVE  Rests(c)
    BY <2>0, <2>1 DEF ClaimVerification, taskVars, issueVars
  <2>2. ASSUME NEW k \in Controllers, NEW o \in Orders, NEW b \in Balances,
               VerifyUnit(k, o, b)
        PROVE  Rests(c)
    <3>1. alloc'[c] = alloc[c]
      BY <1>4, <2>2, VerifiedRow
    <3>. QED  BY <2>2, <3>1 DEF VerifyUnit, Rests, taskVars, issueVars
  <2>3. ASSUME NEW o \in Orders, PrefetchLabel(o) \/ RegisterLabel(o)
        PROVE  Rests(c)
    BY <2>0, <2>3 DEF PrefetchLabel, RegisterLabel, taskVars, issueVars
  <2>4. ASSUME NEW k \in Controllers, NEW o \in Orders, ConfirmLabel(k, o)
        PROVE  Rests(c)
    <3>1. ord[c] = "exception"
      BY OrderOfTask DEF OrdersSound
    <3>2. ord' = [ord EXCEPT ![o] = "ready_for_handover"] /\ ord[o] = "picked"
          /\ UNCHANGED <<alloc, task, short>>
      BY <2>4 DEF ConfirmLabel, taskVars, issueVars
    <3>. QED  BY <3>1, <3>2 DEF Rests, TypeOK
  <2>5. ASSUME NEW k \in Controllers, NEW o \in Orders, ReportProblem(k, o)
        PROVE  Rests(c)
    <3>1. /\ c # o /\ UNCHANGED short
          /\ task' = [task EXCEPT ![o].st = "exception"]
          /\ ord' = [ord EXCEPT ![o] = "exception"]
      BY <2>5 DEF ReportProblem, issueVars
    <3>2. alloc'[c] = alloc[c]
      BY <2>5, <3>1 DEF ReportProblem, TypeOK
    <3>. QED  BY <3>1, <3>2 DEF Rests, TypeOK
  <2>. QED  BY <1>3, <1>6, <2>1, <2>2, <2>3, <2>4, <2>5 DEF VerifySteps
<1>7. CASE UNCHANGED vars
  BY <1>3, <1>7 DEF vars, taskVars, issueVars, Rests
<1>. QED  BY <1>5, <1>6, <1>7 DEF Next

\* A wave that keeps its tasks, and is at most found done.
ShapeKept(v) ==
  /\ TasksOf(task', v) = TasksOf(task, v)
  /\ \A o \in TasksOf(task, v) : task'[o].st = task[o].st
  /\ wave'[v].st = wave[v].st \/ (wave[v].st = "verification" /\ wave'[v].st = "done")
  /\ wave'[v].handed => wave[v].handed \/ wave[v].st \in Closed

LEMMA KeptShape ==
  ASSUME NEW v \in Waves, WaveShape(v), ShapeKept(v), AsideStays
  PROVE  WaveShape(v)'
<1>1. TasksOf(task, v) \subseteq Orders
  BY DEF TasksOf
<1>2. ASSUME NEW o \in TasksOf(task, v), Settled(o)  PROVE Settled(o)'
  BY <1>1, <1>2 DEF ShapeKept, Settled, AsideStays, Rests
<1>3. /\ TasksOf(task', v) = TasksOf(task, v)
      /\ \A o \in TasksOf(task, v) : task'[o].st = task[o].st
      /\ wave'[v].st = wave[v].st \/ (wave[v].st = "verification" /\ wave'[v].st = "done")
      /\ wave'[v].handed => wave[v].handed \/ wave[v].st \in Closed
  BY DEF ShapeKept
<1>4. CASE wave'[v].st = wave[v].st
  BY <1>2, <1>3, <1>4 DEF WaveShape
<1>5. CASE wave[v].st = "verification" /\ wave'[v].st = "done"
  BY <1>2, <1>3, <1>5 DEF WaveShape, Closed
<1>. QED  BY <1>3, <1>4, <1>5

\* Steps that change neither the tasks nor how far a wave is.
LEMMA QuietShapes ==
  ASSUME WavesShape, AsideStays,
         \A o \in Orders : task'[o].st = task[o].st /\ task'[o].wave = task[o].wave,
         \A v \in Waves :
           /\ wave'[v].st = wave[v].st \/ (wave[v].st = "verification" /\ wave'[v].st = "done")
           /\ wave'[v].handed => wave[v].handed \/ wave[v].st \in Closed
  PROVE  WavesShape'
<1>. SUFFICES ASSUME NEW v \in Waves  PROVE WaveShape(v)'
  BY DEF WavesShape
<1>1. TasksOf(task', v) = TasksOf(task, v) /\ TasksOf(task, v) \subseteq Orders
  BY DEF TasksOf
<1>2. ShapeKept(v)
  BY <1>1 DEF ShapeKept
<1>. QED  BY <1>2, KeptShape DEF WavesShape

\* What becomes of a wave whose open task was canceled, picked or reported
\* missing: it goes to verification, is canceled or goes on.
Decided(w) ==
  \/ /\ wave'[w].st = "verification"
     /\ TasksOf(task', w) # {}
     /\ \A o \in TasksOf(task', w) : task'[o].st = "picked"
  \/ /\ wave'[w].st = "canceled"
     /\ \A o \in TasksOf(task', w) : task'[o].st = "exception"
  \/ /\ wave'[w].st = wave[w].st
     /\ \E o \in TasksOf(task', w) : task'[o].st # "picked"

Settles(w) ==
  /\ \E o \in TasksOf(task, w) : task[o].st \in {"queued", "in_progress"}
  /\ \A v \in Waves : /\ wave'[v].handed = wave[v].handed
                      /\ v # w => wave'[v].st = wave[v].st
  /\ \A o \in Orders : task[o].st = "none" \/ task[o].wave # w => task'[o] = task[o]
  /\ \A o \in TasksOf(task', w) :
       /\ o \in TasksOf(task, w)
       /\ \/ task'[o].st = task[o].st
          \/ task[o].st = "in_progress" /\ task'[o].st = "picked"
  /\ \A o \in TasksOf(task, w) : task'[o].st = "none" \/ task'[o].wave = w
  /\ Decided(w)

\* An open task is in a wave that is not closed.
LEMMA OpenWave ==
  ASSUME NEW w \in Waves, WaveShape(w), NEW o \in TasksOf(task, w),
         task[o].st \in {"queued", "in_progress"}
  PROVE  wave[w].st \notin Closed /\ ~wave[w].handed /\ wave[w].st # "none"
BY DEF WaveShape, Settled

LEMMA SettledShapes ==
  ASSUME WavesShape, AsideStays, NEW w \in Waves, Settles(w)
  PROVE  WavesShape'
<1>1. ASSUME NEW v \in Waves, v # w  PROVE WaveShape(v)'
  <2>1. TasksOf(task', v) = TasksOf(task, v)
    <3>1. ASSUME NEW o \in Orders
          PROVE  o \in TasksOf(task', v) <=> o \in TasksOf(task, v)
      <4>1. CASE o \in TasksOf(task, w)
        BY <1>1, <4>1 DEF TasksOf, Settles
      <4>2. CASE o \notin TasksOf(task, w)
        <5>1. task'[o] = task[o]
          BY <4>2 DEF TasksOf, Settles
        <5>. QED  BY <5>1 DEF TasksOf
      <4>. QED  BY <4>1, <4>2
    <3>. QED  BY <3>1 DEF TasksOf
  <2>2. \A o \in TasksOf(task, v) : task'[o] = task[o]
    BY <1>1 DEF TasksOf, Settles
  <2>3. ShapeKept(v)
    BY <1>1, <2>1, <2>2 DEF ShapeKept, Settles
  <2>. QED  BY <2>3, KeptShape DEF WavesShape
<1>2. wave[w].st \notin Closed /\ ~wave[w].handed /\ wave[w].st # "none"
  BY OpenWave DEF Settles, WavesShape
<1>3. WaveShape(w)'
  <2>1. ~wave'[w].handed
    BY <1>2 DEF Settles
  <2>2. CASE /\ wave'[w].st = "verification"
             /\ \A o \in TasksOf(task', w) : task'[o].st = "picked"
    BY <2>1, <2>2 DEF WaveShape, Settled
  <2>3. CASE /\ wave'[w].st = "canceled"
             /\ \A o \in TasksOf(task', w) : task'[o].st = "exception"
    BY <2>1, <2>3 DEF WaveShape, Closed
  <2>4. CASE /\ wave'[w].st = wave[w].st
             /\ \E o \in TasksOf(task', w) : task'[o].st # "picked"
    <3>1. \A o \in TasksOf(task', w) :
            /\ o \in TasksOf(task, w)
            /\ \/ task'[o].st = task[o].st
               \/ task[o].st = "in_progress" /\ task'[o].st = "picked"
      BY DEF Settles
    <3>2. WaveShape(w)
      BY DEF WavesShape
    <3>. QED  BY <1>2, <2>1, <2>4, <3>1, <3>2 DEF WaveShape
  <2>. QED  BY <2>2, <2>3, <2>4 DEF Settles, Decided
<1>. QED  BY <1>1, <1>3 DEF WavesShape

\* WaveAfterRelease and _finalize_pick_task_progress decide from the counters,
\* and the counters tell the tasks.
LEMMA ReleaseDecides ==
  ASSUME TypeOK', FullWaves', NEW w \in Waves,
         wave'[w].st = WaveAfterRelease(w, task', wPlanned'[w], wPicked'[w])
  PROVE  Decided(w)
<1>. DEFINE left == TasksOf(task', w)
            full == wPicked'[w] = wPlanned'[w]
            done == left # {} /\ \A c \in left : task'[c].st = "picked"
<1>1. \A c \in left : task'[c].st \in {"queued", "in_progress", "picked", "exception"}
  BY DEF TasksOf, TypeOK, Tasks, NoTask, TaskStatuses
<1>2. CASE done /\ full
  BY <1>2 DEF WaveAfterRelease, Decided
<1>3. CASE /\ ~(done /\ full)
           /\ \A c \in left : task'[c].st \notin {"queued", "in_progress", "picked"}
  <2>1. wave'[w].st = "canceled"
    BY <1>3 DEF WaveAfterRelease
  <2>. QED  BY <1>1, <1>3, <2>1 DEF Decided
<1>4. CASE /\ ~(done /\ full)
           /\ ~\A c \in left : task'[c].st \notin {"queued", "in_progress", "picked"}
  <2>1. wave'[w].st = wave[w].st
    BY <1>4 DEF WaveAfterRelease
  <2>2. (\A c \in left : task'[c].st = "picked") => full
    BY DEF FullWaves, FullWave, Settled
  <2>. QED  BY <1>4, <2>1, <2>2 DEF Decided
<1>. QED  BY <1>2, <1>3, <1>4

LEMMA ProgressDecides ==
  ASSUME FullWaves', NEW w \in Waves, ~wave'[w].handed, TasksOf(task', w) # {},
         wave'[w].st = IF ActiveTasks(task', w) = {} /\ wPicked'[w] = wPlanned'[w]
                       THEN "verification" ELSE wave[w].st
  PROVE  Decided(w)
<1>1. CASE \A c \in TasksOf(task', w) : task'[c].st = "picked"
  <2>1. wPicked'[w] = wPlanned'[w]
    BY <1>1 DEF FullWaves, FullWave, Settled
  <2>2. ActiveTasks(task', w) = {}
    BY <1>1 DEF ActiveTasks
  <2>. QED  BY <1>1, <2>1, <2>2 DEF Decided
<1>2. ASSUME NEW c \in TasksOf(task', w), task'[c].st # "picked"
      PROVE  Decided(w)
  <2>1. ~Settled(c)'
    <3>1. c \in Orders /\ task'[c].wave = w
      BY DEF TasksOf
    <3>. QED  BY <1>2, <3>1 DEF Settled, SetAside
  <2>2. wPicked'[w] # wPlanned'[w]
    BY <2>1 DEF FullWaves, FullWave
  <2>. QED  BY <1>2, <2>2 DEF Decided
<1>. QED  BY <1>1, <1>2

\* A release: the wave goes to verification, is canceled or goes on.
LEMMA ReleasedSettles ==
  ASSUME TypeOK, TypeOK', OrdersSound, CountersTyped, FullWaves',
         NEW o \in Orders, task[o].st # "none", NEW to, NEW gone, NEW have,
         ReleaseReservation(o, to, gone, have)
  PROVE  Settles(task[o].wave)
<1>0. PICK w \in Waves : w = task[o].wave
  BY DEF TypeOK, Tasks, NoTask
<1>. DEFINE tk == [task EXCEPT ![o] = NoTask]
            planned == PlannedOf(tk, tPlanned, w)
            picked == Larger(0, wPicked[w] - tPicked[o])
<1>1. /\ task' = tk
      /\ wPlanned' = [wPlanned EXCEPT ![w] = planned]
      /\ wPicked' = [wPicked EXCEPT ![w] = picked]
      /\ wave' = [wave EXCEPT ![w].st = WaveAfterRelease(w, tk, planned, picked)]
      /\ ord[o] \in {"reserved", "queued_for_pick", "picking"}
  BY <1>0 DEF ReleaseReservation
<1>2. /\ task'[o] = NoTask /\ \A c \in Orders : c # o => task'[c] = task[c]
      /\ NoTask.st = "none"
  BY <1>1 DEF TypeOK, NoTask
<1>3. wPlanned'[w] = planned /\ wPicked'[w] = picked
  BY <1>1 DEF CountersTyped
<1>4. /\ wave'[w].st = WaveAfterRelease(w, task', planned, picked)
      /\ wave'[w].handed = wave[w].handed
      /\ \A v \in Waves : v # w => wave'[v] = wave[v]
  <2>1. PICK s : s = WaveAfterRelease(w, tk, planned, picked)
    OBVIOUS
  <2>2. wave' = [wave EXCEPT ![w].st = s]
    BY <1>1, <2>1
  <2>3. wave'[w].st = s /\ wave'[w].handed = wave[w].handed
        /\ \A v \in Waves : v # w => wave'[v] = wave[v]
    BY <2>2 DEF TypeOK, Batches
  <2>. QED  BY <1>1, <2>1, <2>3
<1>. HIDE DEF tk, planned, picked
<1>5. /\ o \in TasksOf(task, w) /\ task[o].st \in {"queued", "in_progress"}
      /\ \A c \in TasksOf(task', w) : c \in TasksOf(task, w) /\ task'[c] = task[c]
      /\ \A c \in TasksOf(task, w) : task'[c].st = "none" \/ task'[c].wave = w
  <2>1. task[o].st \in {"queued", "in_progress"}
    BY <1>1, <1>2 DEF OrdersSound, Stage
  <2>. QED  BY <1>0, <1>2, <2>1 DEF TasksOf
<1>6. Decided(w)
  BY <1>3, <1>4, ReleaseDecides
<1>7. \A c \in Orders : task[c].st = "none" \/ task[c].wave # w => task'[c] = task[c]
  BY <1>0, <1>2
<1>. QED  BY <1>0, <1>4, <1>5, <1>6, <1>7 DEF Settles

\* A task that is picked, or plans less.
LEMMA ProgressedSettles ==
  ASSUME TypeOK, TypeOK', OrdersSound, CountersTyped, FullWaves', WavesShape,
         NEW o \in Orders, task[o].st = "in_progress", NEW rows,
         NEW m \in Nat, NEW n \in Nat, Progress(o, rows, m, n)
  PROVE  Settles(task[o].wave)
<1>0. PICK w \in Waves : w = task[o].wave
  BY OrderOfTask DEF OrdersSound
<1>. DEFINE planned == wPlanned[w] - n
            picked == wPicked[w] + m
<1>1. /\ task' = task \/ task' = [task EXCEPT ![o].st = "picked"]
      /\ wPlanned' = [wPlanned EXCEPT ![w] = planned]
      /\ wPicked' = [wPicked EXCEPT ![w] = picked]
      /\ wave' = [wave EXCEPT ![w].st =
           IF ActiveTasks(task', w) = {} /\ picked = planned
           THEN "verification" ELSE @]
  BY <1>0 DEF Progress
<1>2. wPlanned'[w] = planned /\ wPicked'[w] = picked
  BY <1>1 DEF CountersTyped
<1>. HIDE DEF planned, picked
<1>3. /\ task[o] \in [st : TaskStatuses \ {"none"}, wave : Waves,
                      picker : Pickers \cup {None}]
      /\ o \in TasksOf(task, w)
  BY <1>0 DEF TypeOK, Tasks, NoTask, TasksOf
<1>4. /\ \A c \in Orders : c # o => task'[c] = task[c]
      /\ task'[o].wave = task[o].wave
      /\ task'[o].st \in {"in_progress", "picked"}
  <2>1. CASE task' = task
    BY <2>1
  <2>2. CASE task' = [task EXCEPT ![o].st = "picked"]
    BY <1>3, <2>2 DEF TypeOK
  <2>. QED  BY <1>1, <2>1, <2>2
<1>5. /\ o \in TasksOf(task', w)
      /\ \A c \in TasksOf(task', w) :
           /\ c \in TasksOf(task, w)
           /\ \/ task'[c].st = task[c].st
              \/ task[c].st = "in_progress" /\ task'[c].st = "picked"
      /\ \A c \in TasksOf(task, w) : task'[c].st = "none" \/ task'[c].wave = w
  BY <1>0, <1>3, <1>4 DEF TasksOf
<1>6. /\ wave'[w].handed = wave[w].handed
      /\ \A v \in Waves : v # w => wave'[v] = wave[v]
      /\ wave'[w].st = IF ActiveTasks(task', w) = {} /\ picked = planned
                       THEN "verification" ELSE wave[w].st
  BY <1>1 DEF TypeOK, Batches
<1>7. ~wave'[w].handed
  BY <1>3, <1>6, OpenWave DEF WavesShape
<1>8. Decided(w)
  BY <1>2, <1>5, <1>6, <1>7, ProgressDecides
<1>. QED  BY <1>0, <1>3, <1>4, <1>5, <1>6, <1>8 DEF Settles

\* Units of the wave's orders are missing.
LEMMA MissingSettles ==
  ASSUME TypeOK, TypeOK', OrdersSound, CountersTyped, FullWaves', WavesShape,
         NEW p \in Pickers, NEW o \in Orders, NEW b \in Balances, NEW m \in Nat,
         ReportMissing(p, o, b, m)
  PROVE  Settles(task[o].wave)
<1>. DEFINE group == MissingGroup(p, o, b)
<1>0. PICK w \in Waves : w = task[o].wave
  BY OrderOfTask DEF OrdersSound, ReportMissing, IsTaskActor
<1>1. PICK miss \in [group -> Nat] :
        DropMissing(w, b, miss, LostWhole(group, miss), LostPart(group, miss))
  BY <1>0, MissingSplit
<1>2. /\ group \in SUBSET Orders /\ o \in group
      /\ \A c \in group : task[c].st = "in_progress" /\ task[c].wave = w
  BY <1>0, MissingMembers DEF ReportMissing
<1>3. UNCHANGED wPicked
  BY DEF ReportMissing
<1>4. PICK lot \in SUBSET Orders : lot = group
  BY <1>2
<1>5. PICK W \in SUBSET lot : W = LostWhole(group, miss)
  BY <1>4 DEF LostWhole
<1>6. PICK P \in SUBSET lot : P = LostPart(group, miss)
  BY <1>4 DEF LostPart
<1>7. \A c \in Orders :
        /\ c \in W => task'[c] = NoTask
        /\ c \in P => task'[c] = task[c] \/ task'[c] = [task[c] EXCEPT !.st = "picked"]
        /\ c \notin W /\ c \notin P => task'[c] = task[c]
  <2>1. DropMissing(w, b, miss, LostWhole(lot, miss), LostPart(lot, miss))
        /\ miss \in [lot -> Nat]
    BY <1>1, <1>4
  <2>2. W = LostWhole(lot, miss) /\ P = LostPart(lot, miss)
    BY <1>4, <1>5, <1>6
  <2>. QED  BY ONLY TypeOK, <2>1, <2>2, MissingEffect
<1>8. \E planned :
        /\ wPlanned' = [wPlanned EXCEPT ![w] = planned]
        /\ wave' = [wave EXCEPT ![w].st =
             IF W # {} THEN WaveAfterRelease(w, task', planned, wPicked[w])
             ELSE IF ActiveTasks(task', w) = {} /\ wPicked[w] = planned
                  THEN "verification" ELSE @]
  BY <1>1, <1>5 DEF DropMissing
<1>9. /\ o \in lot
      /\ \A c \in lot : task[c].st = "in_progress" /\ task[c].wave = w
  BY <1>2, <1>4
<1>. HIDE DEF group
<1>10. PICK planned, s :
         /\ s = IF W # {} THEN WaveAfterRelease(w, task', planned, wPicked[w])
                ELSE IF ActiveTasks(task', w) = {} /\ wPicked[w] = planned
                     THEN "verification" ELSE wave[w].st
         /\ wPlanned' = [wPlanned EXCEPT ![w] = planned]
         /\ wave' = [wave EXCEPT ![w].st = s]
  BY <1>8 DEF TypeOK
<1>11. wPlanned'[w] = planned /\ wPicked'[w] = wPicked[w]
  BY <1>3, <1>10 DEF CountersTyped
<1>12. /\ wave'[w].st = s /\ wave'[w].handed = wave[w].handed
       /\ \A v \in Waves : v # w => wave'[v] = wave[v]
  BY <1>10 DEF TypeOK, Batches
<1>13. \A c \in lot \ W : /\ task'[c].st \in {"in_progress", "picked"}
                          /\ task'[c].wave = w
  <2>1. SUFFICES ASSUME NEW c \in lot \ W
                 PROVE  task'[c].st \in {"in_progress", "picked"} /\ task'[c].wave = w
    OBVIOUS
  <2>2. task[c] \in [st : TaskStatuses \ {"none"}, wave : Waves,
                     picker : Pickers \cup {None}]
    BY <1>9 DEF TypeOK, Tasks, NoTask
  <2>3. task'[c] = task[c] \/ task'[c] = [task[c] EXCEPT !.st = "picked"]
    BY <1>7
  <2>. QED  BY <1>9, <2>2, <2>3
<1>14. \A c \in Orders : c \notin lot => task'[c] = task[c]
  BY <1>7
<1>15. \A c \in W : task'[c].st = "none"
  <2>1. \A c \in W : task'[c] = NoTask
    BY <1>7
  <2>2. NoTask.st = "none"
    BY DEF NoTask
  <2>. QED  BY <2>1, <2>2
<1>16. /\ \A c \in TasksOf(task', w) :
            /\ c \in TasksOf(task, w)
            /\ \/ task'[c].st = task[c].st
               \/ task[c].st = "in_progress" /\ task'[c].st = "picked"
       /\ \A c \in TasksOf(task, w) : task'[c].st = "none" \/ task'[c].wave = w
       /\ o \in TasksOf(task, w)
       /\ \A c \in Orders : task[c].st = "none" \/ task[c].wave # w
                               => task'[c] = task[c]
  BY <1>9, <1>13, <1>14, <1>15 DEF TasksOf
<1>17. ~wave'[w].handed
  BY <1>9, <1>12, <1>16, OpenWave DEF WavesShape
<1>18. Decided(w)
  <2>1. CASE W # {}
    BY <1>10, <1>11, <1>12, <2>1, ReleaseDecides
  <2>2. CASE W = {}
    <3>1. o \in TasksOf(task', w)
      BY <1>9, <1>13, <2>2 DEF TasksOf
    <3>. QED  BY <1>10, <1>11, <1>12, <1>17, <2>2, <3>1, ProgressDecides
  <2>. QED  BY <2>1, <2>2
<1>. QED  BY <1>0, <1>9, <1>12, <1>16, <1>18 DEF Settles

\* Orders join a wave nobody has started.
LEMMA AttachedShapes ==
  ASSUME TypeOK, WavesShape, AsideStays, NEW w \in Waves,
         NEW os \in (SUBSET Orders) \ {{}}, AttachOrders(w, os)
  PROVE  WavesShape'
<1>1. /\ \A o \in os : task[o].st = "none"
      /\ \A o \in Orders :
           /\ o \in os => task'[o] = [st |-> "queued", wave |-> w, picker |-> None]
           /\ o \notin os => task'[o] = task[o]
      /\ wave' = [wave EXCEPT ![w].st = "queued"]
      /\ wave[w].st = "none" \/ Untouched(w)
  BY DEF AttachOrders
<1>2. \A o \in os : task'[o].st = "queued" /\ task'[o].wave = w /\ o \in Orders
  BY <1>1
<1>3. /\ wave'[w].st = "queued" /\ wave'[w].handed = wave[w].handed
      /\ \A v \in Waves : v # w => wave'[v] = wave[v]
  BY <1>1 DEF TypeOK, Batches
<1>4. ~wave[w].handed /\ \A o \in TasksOf(task, w) : task[o].st = "queued"
  <2>1. CASE wave[w].st = "none"
    BY <2>1 DEF WavesShape, WaveShape, Closed
  <2>2. CASE Untouched(w)
    BY <2>2 DEF Untouched, NoBatch
  <2>. QED  BY <1>1, <2>1, <2>2
<1>5. WaveShape(w)'
  <2>1. TasksOf(task', w) # {} /\ \A o \in TasksOf(task', w) : task'[o].st = "queued"
    BY <1>1, <1>2, <1>4 DEF TasksOf
  <2>. QED  BY <1>3, <1>4, <2>1 DEF WaveShape, Closed
<1>6. ASSUME NEW v \in Waves, v # w  PROVE WaveShape(v)'
  <2>1. \A o \in Orders :
          o \in TasksOf(task', v) <=> o \in TasksOf(task, v)
    BY <1>1, <1>2, <1>6 DEF TasksOf
  <2>2. TasksOf(task', v) = TasksOf(task, v)
    BY <2>1 DEF TasksOf
  <2>3. \A o \in TasksOf(task, v) : task'[o] = task[o]
    BY <1>1 DEF TasksOf
  <2>4. ShapeKept(v)
    BY <1>3, <1>6, <2>2, <2>3 DEF ShapeKept
  <2>. QED  BY <2>4, KeptShape DEF WavesShape
<1>. QED  BY <1>5, <1>6 DEF WavesShape

\* Tasks move between untouched waves; the empty ones are canceled.
LEMMA RepackedShapes ==
  ASSUME TypeOK, WavesShape, AsideStays, NEW ws \in SUBSET Waves,
         NEW to \in [Orders -> ws], Repack(ws, to), \A w \in ws : Untouched(w)
  PROVE  WavesShape'
<1>. DEFINE moved == UNION {TasksOf(task, w) : w \in ws}
            kept == {to[o] : o \in moved}
<1>1. /\ task' = [o \in Orders |->
            IF o \in moved THEN [task[o] EXCEPT !.wave = to[o]] ELSE task[o]]
      /\ wave' = [w \in Waves |->
          IF w \in ws \ kept THEN [wave[w] EXCEPT !.st = "canceled"] ELSE wave[w]]
  BY DEF Repack
<1>2. \A o \in Orders : o \in moved <=> task[o].st # "none" /\ task[o].wave \in ws
  BY DEF TasksOf
<1>3. ASSUME NEW o \in moved
      PROVE  o \in Orders /\ task'[o].st = "queued" /\ task'[o].wave = to[o]
             /\ to[o] \in ws
  <2>1. o \in Orders /\ task[o].st = "queued"
    BY DEF Untouched, TasksOf
  <2>2. task[o] \in [st : TaskStatuses \ {"none"}, wave : Waves,
                     picker : Pickers \cup {None}]
    BY <2>1 DEF TypeOK, Tasks, NoTask
  <2>3. task'[o] = [task[o] EXCEPT !.wave = to[o]]
    BY <1>1, <2>1
  <2>. QED  BY <2>1, <2>2, <2>3
<1>4. \A o \in Orders : o \notin moved => task'[o] = task[o]
  BY <1>1
<1>5. \A w \in Waves :
        /\ w \in ws /\ w \notin kept =>
             wave'[w].st = "canceled" /\ wave'[w].handed = wave[w].handed
        /\ w \notin ws \/ w \in kept => wave'[w] = wave[w]
  BY <1>1 DEF TypeOK, Batches
<1>6. \A w \in kept : \E o \in moved : to[o] = w
  OBVIOUS
<1>7. \A o \in moved : to[o] \in kept
  OBVIOUS
<1>. HIDE DEF moved, kept
<1>8. ASSUME NEW w \in ws  PROVE WaveShape(w)'
  <2>1. wave[w].st = "queued" /\ ~wave[w].handed /\ w \in Waves
    BY DEF Untouched, NoBatch
  <2>2. \A o \in TasksOf(task', w) : task'[o].st = "queued" /\ o \in moved /\ to[o] = w
    BY <1>2, <1>3, <1>4 DEF TasksOf
  <2>3. CASE w \in kept
    <3>1. TasksOf(task', w) # {}
      BY <1>3, <1>6, <2>3 DEF TasksOf
    <3>. QED  BY <1>5, <2>1, <2>2, <2>3, <3>1 DEF WaveShape, Closed
  <2>4. CASE w \notin kept
    <3>1. TasksOf(task', w) = {}
      BY <1>7, <2>2, <2>4
    <3>. QED  BY <1>5, <2>1, <2>4, <3>1 DEF WaveShape, Closed
  <2>. QED  BY <2>3, <2>4
<1>9. ASSUME NEW v \in Waves \ ws  PROVE WaveShape(v)'
  <2>1. \A o \in Orders : o \in TasksOf(task', v) <=> o \in TasksOf(task, v)
    BY <1>2, <1>3, <1>4 DEF TasksOf
  <2>2. TasksOf(task', v) = TasksOf(task, v)
    BY <2>1 DEF TasksOf
  <2>3. \A o \in TasksOf(task, v) : task'[o] = task[o]
    BY <1>2, <1>4 DEF TasksOf
  <2>4. ShapeKept(v)
    BY <1>5, <2>2, <2>3 DEF ShapeKept
  <2>. QED  BY <2>4, KeptShape DEF WavesShape
<1>. QED  BY <1>8, <1>9 DEF WavesShape

\* A picker takes a whole wave.
LEMMA ClaimedShapes ==
  ASSUME TypeOK, WavesShape, AsideStays, NEW p \in Pickers, NEW k \in Carts,
         NEW w \in Waves, ClaimWave(p, k, w)
  PROVE  WavesShape'
<1>1. /\ wave[w].st = "queued" /\ TasksOf(task, w) # {}
      /\ \A o \in Orders :
           task'[o] = IF o \in TasksOf(task, w)
                      THEN [task[o] EXCEPT !.st = "in_progress", !.picker = p]
                      ELSE task[o]
      /\ wave' = [wave EXCEPT ![w].st = "in_progress", ![w].picker = p, ![w].cart = k]
  BY DEF ClaimWave
<1>2. /\ wave'[w].st = "in_progress" /\ wave'[w].handed = wave[w].handed
      /\ \A v \in Waves : v # w => wave'[v] = wave[v]
  <2>1. wave \in [Waves -> Batches]
    BY DEF TypeOK
  <2>2. wave[w] \in Batches
    BY ONLY <2>1, w \in Waves
  <2>3. wave'[w] = [wave[w] EXCEPT !.st = "in_progress", !.picker = p, !.cart = k]
        /\ \A v \in Waves : v # w => wave'[v] = wave[v]
    BY ONLY <1>1, <2>1, w \in Waves
  <2>. QED  BY ONLY <2>2, <2>3 DEF Batches
<1>3. ASSUME NEW o \in TasksOf(task, w)
      PROVE  o \in Orders /\ task'[o].st = "in_progress" /\ task'[o].wave = w
  <2>1. task[o] \in [st : TaskStatuses \ {"none"}, wave : Waves,
                     picker : Pickers \cup {None}]
        /\ o \in Orders /\ task[o].wave = w
    BY DEF TypeOK, Tasks, NoTask, TasksOf
  <2>2. task'[o] = [task[o] EXCEPT !.st = "in_progress", !.picker = p]
    BY <1>1, <2>1
  <2>. QED  BY <2>1, <2>2
<1>4. \A o \in Orders : o \notin TasksOf(task, w) => task'[o] = task[o]
  BY <1>1
<1>5. \A v : TasksOf(task', v) = TasksOf(task, v)
  <2>1. \A v : \A o \in Orders : o \in TasksOf(task', v) <=> o \in TasksOf(task, v)
    BY <1>3, <1>4 DEF TasksOf
  <2>. QED  BY <2>1 DEF TasksOf
<1>6. WaveShape(w)'
  <2>1. ~wave[w].handed
    BY <1>1 DEF WavesShape, WaveShape, Closed
  <2>. QED  BY <1>1, <1>2, <1>3, <1>5, <2>1 DEF WaveShape, Closed
<1>7. ASSUME NEW v \in Waves, v # w  PROVE WaveShape(v)'
  <2>1. \A o \in TasksOf(task, v) : task'[o] = task[o]
    BY <1>4, <1>7 DEF TasksOf
  <2>2. ShapeKept(v)
    BY <1>2, <1>5, <1>7, <2>1 DEF ShapeKept
  <2>. QED  BY <2>2, KeptShape DEF WavesShape
<1>. QED  BY <1>6, <1>7 DEF WavesShape

\* One task becomes a problem or is taken up again; no wave changes.
LEMMA ReopenedShapes ==
  ASSUME TypeOK, OrdersSound, WavesShape, AsideStays, NEW o \in Orders,
         task[o].st \in {"in_progress", "exception"}, ~Settled(o),
         NEW s \in {"in_progress", "exception"},
         task' = [task EXCEPT ![o].st = s], UNCHANGED wave
  PROVE  WavesShape'
<1>1. /\ task[o] \in [st : TaskStatuses \ {"none"}, wave : Waves,
                      picker : Pickers \cup {None}]
  BY DEF TypeOK, Tasks, NoTask
<1>2. /\ \A c \in Orders : c # o => task'[c] = task[c]
      /\ task'[o].st = s /\ task'[o].wave = task[o].wave
  BY <1>1 DEF TypeOK
<1>3. PICK w \in Waves : w = task[o].wave
  BY <1>1
<1>4. o \in TasksOf(task, w) /\ o \in TasksOf(task', w)
  BY <1>2, <1>3 DEF TasksOf
<1>5. \A v : TasksOf(task', v) = TasksOf(task, v)
  <2>1. \A v : \A c \in Orders : c \in TasksOf(task', v) <=> c \in TasksOf(task, v)
    BY <1>2 DEF TasksOf
  <2>. QED  BY <2>1 DEF TasksOf
<1>6. WaveShape(w)'
  <2>1. wave[w].st \notin Closed /\ wave[w].st \notin {"none", "queued"}
    BY <1>4 DEF WavesShape, WaveShape
  <2>2. \A c \in TasksOf(task', w) : c \in TasksOf(task, w)
          /\ (task'[c].st = task[c].st \/ task'[c].st = s)
    BY <1>2, <1>5 DEF TasksOf
  <2>. QED  BY <1>2, <1>4, <2>1, <2>2 DEF WavesShape, WaveShape
<1>7. ASSUME NEW v \in Waves, v # w  PROVE WaveShape(v)'
  <2>1. \A c \in TasksOf(task, v) : task'[c] = task[c]
    BY <1>2, <1>3, <1>7 DEF TasksOf
  <2>2. ShapeKept(v)
    BY <1>5, <2>1 DEF ShapeKept
  <2>. QED  BY <2>2, KeptShape DEF WavesShape
<1>. QED  BY <1>6, <1>7 DEF WavesShape

LEMMA PickingShapes ==
  ASSUME TypeOK, TypeOK', OrdersSound, CountersTyped, FullWaves', WavesShape,
         AsideStays, PickingNext
  PROVE  WavesShape'
<1>0. ASSUME UNCHANGED <<task, wave>>  PROVE WavesShape'
  BY <1>0, QuietShapes
<1>1. ASSUME NEW o \in Orders, NEW to, NEW gone, NEW have,
             ReleaseReservation(o, to, gone, have)
      PROVE  WavesShape'
  <2>1. CASE task[o].st = "none"
    BY <1>0, <1>1, <2>1 DEF ReleaseReservation, taskVars, waveVars
  <2>2. CASE task[o].st # "none"
    <3>1. Settles(task[o].wave)
      BY <1>1, <2>2, ReleasedSettles
    <3>2. task[o].wave \in Waves
      BY <2>2, OrderOfTask DEF OrdersSound
    <3>. QED  BY <3>1, <3>2, SettledShapes
  <2>. QED  BY <2>1, <2>2
<1>2. ASSUME NEW o \in Orders, task[o].st = "in_progress", NEW rows,
             NEW m \in Nat, NEW n \in Nat, Progress(o, rows, m, n)
      PROVE  WavesShape'
  <2>1. Settles(task[o].wave)
    BY <1>2, ProgressedSettles
  <2>2. task[o].wave \in Waves
    BY <1>2, OrderOfTask DEF OrdersSound
  <2>. QED  BY <2>1, <2>2, SettledShapes
<1>3. CASE StockSteps
  <2>1. ASSUME NEW o \in Orders, NEW s \in Statuses, ImportOrder(o, s)
        PROVE  WavesShape'
    <3>1. CASE \E to, gone, have : ReleaseReservation(o, to, gone, have)
      BY <1>1, <3>1
    <3>2. CASE UNCHANGED <<taskVars, waveVars>>
      BY <1>0, <3>2 DEF taskVars, waveVars
    <3>. QED  BY <2>1, <3>1, <3>2 DEF ImportOrder
  <2>2. ASSUME NEW o \in Orders, RetryException(o)  PROVE WavesShape'
    <3>1. /\ task[o].st = "exception" /\ UNCHANGED wave
          /\ task' = [task EXCEPT ![o].st = "in_progress"]
      BY <2>2 DEF RetryException, waveVars
    <3>2. ~Settled(o)
      BY <2>2, <3>1 DEF RetryException, Settled, SetAside, Has
    <3>. QED  BY <3>1, <3>2, ReopenedShapes
  <2>3. ASSUME NEW o \in Orders, RetryReservation(o)  PROVE WavesShape'
    BY <1>0, <2>3 DEF RetryReservation, taskVars, waveVars
  <2>4. ASSUME NEW o \in Orders, ReturnUpperTier(o)  PROVE WavesShape'
    BY <1>1, <2>4 DEF ReturnUpperTier
  <2>5. ASSUME NEW b \in Balances, CountSteps(b)  PROVE WavesShape'
    BY <1>0, <2>5 DEF CountSteps, CheckDrained, StartCounting, taskVars, waveVars
  <2>. QED  BY <1>3, <2>1, <2>2, <2>3, <2>4, <2>5 DEF StockSteps
<1>4. CASE WaveSteps
  <2>1. ASSUME NEW p \in Pickers, NEW k \in Carts, NEW w \in Waves,
               TakeOverWave(p, k, w)
        PROVE  WavesShape'
    <3>1. /\ \A o \in Orders :
               task'[o] = IF o \in ActiveTasks(task, w)
                          THEN [task[o] EXCEPT !.picker = p] ELSE task[o]
          /\ wave' = [wave EXCEPT ![w].picker = p]
      BY <2>1 DEF TakeOverWave
    <3>2. ASSUME NEW o \in Orders
          PROVE  task'[o].st = task[o].st /\ task'[o].wave = task[o].wave
      <4>1. CASE o \in ActiveTasks(task, w)
        <5>1. task[o] \in [st : TaskStatuses \ {"none"}, wave : Waves,
                           picker : Pickers \cup {None}]
          BY <4>1 DEF TypeOK, Tasks, NoTask, ActiveTasks
        <5>. QED  BY <3>1, <4>1, <5>1
      <4>2. CASE o \notin ActiveTasks(task, w)
        BY <3>1, <4>2
      <4>. QED  BY <4>1, <4>2
    <3>3. \A v \in Waves : wave'[v].st = wave[v].st /\ wave'[v].handed = wave[v].handed
      BY <3>1 DEF TypeOK, Batches
    <3>. QED  BY <3>2, <3>3, QuietShapes
  <2>2. ASSUME NEW p \in Pickers, NEW k \in Carts, NEW w \in Waves,
               ClaimWave(p, k, w)
        PROVE  WavesShape'
    BY <2>2, ClaimedShapes
  <2>3. ASSUME NEW w \in Waves, NEW os \in (SUBSET Orders) \ {{}}, AttachOrders(w, os)
        PROVE  WavesShape'
    BY <2>3, AttachedShapes
  <2>4. ASSUME NEW ws \in SUBSET Waves, NEW to \in [Orders -> ws], Repack(ws, to),
               \A w \in ws : Untouched(w)
        PROVE  WavesShape'
    BY <2>4, RepackedShapes
  <2>5. CASE \E w \in Waves, os \in (SUBSET Orders) \ {{}} : AttachOrders(w, os)
    BY ONLY <2>3, <2>5
  <2>6. CASE \E ws \in SUBSET Waves : \E to \in [Orders -> ws] :
               Repack(ws, to) /\ \A w \in ws : Untouched(w)
    BY ONLY <2>4, <2>6
  <2>7. CASE \E p \in Pickers, k \in Carts, w \in Waves : ClaimWave(p, k, w)
    BY ONLY <2>2, <2>7
  <2>8. CASE \E p \in Pickers, k \in Carts, w \in Waves : TakeOverWave(p, k, w)
    BY ONLY <2>1, <2>8
  <2>. QED  BY ONLY <1>4, <2>5, <2>6, <2>7, <2>8, WaveCases
<1>5. CASE PickSteps
  <2>1. ASSUME NEW p \in Pickers, NEW o \in Orders, NEW b \in Balances,
               PickUnit(p, o, b)
        PROVE  WavesShape'
    <3>1. task[o].st = "in_progress" /\ \E rows : Progress(o, rows, 1, 0)
      BY <2>1 DEF PickUnit, IsTaskActor
    <3>. QED  BY <1>2, <3>1
  <2>2. ASSUME NEW p \in Pickers, NEW o \in Orders, NEW b \in Balances,
               ReportNotFound(p, o, b)
        PROVE  WavesShape'
    <3>1. CASE \E to, gone, have : ReleaseReservation(o, to, gone, have)
      BY <1>1, <3>1
    <3>2. CASE Open(alloc[o][b]) > 0 /\ \E rows : Progress(o, rows, 0, Open(alloc[o][b]))
      <4>1. task[o].st = "in_progress"
        BY <2>2 DEF ReportNotFound, IsTaskActor
      <4>2. Open(alloc[o][b]) \in Int
        BY DEF TypeOK, Rows, Open
      <4>3. PICK n \in Nat : n = Open(alloc[o][b])
        BY <3>2, <4>2
      <4>4. PICK rows : Progress(o, rows, 0, n)
        BY <3>2, <4>3
      <4>. QED  BY <1>2, <4>1, <4>4
    <3>. QED  BY <2>2, <3>1, <3>2 DEF ReportNotFound
  <2>3. ASSUME NEW p \in Pickers, NEW o \in Orders, ReportOther(p, o)
        PROVE  WavesShape'
    <3>1. /\ task[o].st = "in_progress" /\ UNCHANGED wave
          /\ task' = [task EXCEPT ![o].st = "exception"]
      BY <2>3 DEF ReportOther, IsTaskActor, waveVars
    <3>2. ~Settled(o)
      BY <3>1 DEF Settled
    <3>. QED  BY <3>1, <3>2, ReopenedShapes
  <2>4. ASSUME NEW p \in Pickers, NEW o \in Orders, NEW b \in Balances,
               NEW m \in 1 .. resv[b], ReportMissing(p, o, b, m)
        PROVE  WavesShape'
    <3>1. m \in Nat
      BY DEF TypeOK
    <3>2. Settles(task[o].wave)
      BY <2>4, <3>1, MissingSettles
    <3>3. task[o].wave \in Waves
      BY <2>4, OrderOfTask DEF OrdersSound, ReportMissing, IsTaskActor
    <3>. QED  BY <3>2, <3>3, SettledShapes
  <2>5. ASSUME NEW p \in Pickers, NEW w \in Waves, HandOver(p, w)
        PROVE  WavesShape'
    <3>1. /\ wave[w].st = "verification" /\ UNCHANGED task
          /\ wave' = [wave EXCEPT ![w].handed = TRUE]
      BY <2>5 DEF HandOver, taskVars
    <3>2. \A v \in Waves : /\ wave'[v].st = wave[v].st
                           /\ wave'[v].handed => wave[v].handed \/ wave[v].st \in Closed
      BY <3>1 DEF TypeOK, Batches, Closed
    <3>. QED  BY <3>1, <3>2, QuietShapes
  <2>. QED  BY <1>5, <2>1, <2>2, <2>3, <2>4, <2>5 DEF PickSteps
<1>. QED  BY <1>3, <1>4, <1>5 DEF PickingNext

\* A wave seen by the controller keeps its status or is done.
LEMMA RefreshedCases ==
  ASSUME NEW w, NEW rows, NEW tk, NEW lb
  PROVE  \/ RefreshedStatus(w, rows, tk, lb) = wave[w].st
         \/ wave[w].st = "verification" /\ RefreshedStatus(w, rows, tk, lb) = "done"
BY DEF RefreshedStatus

LEMMA VerifyShapes ==
  ASSUME TypeOK, OrdersSound, WavesShape, AsideStays, VerifySteps
  PROVE  WavesShape'
<1>0. ASSUME UNCHANGED <<task, wave>>  PROVE WavesShape'
  BY <1>0, QuietShapes
<1>1. ASSUME NEW k \in Controllers, NEW w \in Waves, ClaimVerification(k, w)
      PROVE  WavesShape'
  <2>1. wave' = [wave EXCEPT ![w].ctrl = k] /\ UNCHANGED task
    BY <1>1 DEF ClaimVerification, taskVars
  <2>2. \A v \in Waves : wave'[v].st = wave[v].st /\ wave'[v].handed = wave[v].handed
    BY <2>1 DEF TypeOK, Batches
  <2>. QED  BY <2>1, <2>2, QuietShapes
<1>2. ASSUME NEW k \in Controllers, NEW o \in Orders, NEW b \in Balances,
             VerifyUnit(k, o, b)
      PROVE  WavesShape'
  BY <1>0, <1>2 DEF VerifyUnit, taskVars, waveVars
<1>3. ASSUME NEW o \in Orders, PrefetchLabel(o) \/ RegisterLabel(o)
      PROVE  WavesShape'
  BY <1>0, <1>3 DEF PrefetchLabel, RegisterLabel, taskVars, waveVars
<1>4. ASSUME NEW k \in Controllers, NEW o \in Orders, ConfirmLabel(k, o)
      PROVE  WavesShape'
  <2>1. PICK lb :
          /\ wave' = [w \in Waves |->
               IF w \in past[o] \cup {task[o].wave}
               THEN [wave[w] EXCEPT !.st = RefreshedStatus(w, alloc, task, lb)]
               ELSE wave[w]]
          /\ UNCHANGED task
    BY <1>4 DEF ConfirmLabel, taskVars
  <2>2. ASSUME NEW v \in Waves
        PROVE  /\ \/ wave'[v].st = wave[v].st
                  \/ wave[v].st = "verification" /\ wave'[v].st = "done"
               /\ wave'[v].handed = wave[v].handed
    <3>1. PICK s : s = RefreshedStatus(v, alloc, task, lb)
      OBVIOUS
    <3>2. s = wave[v].st \/ (wave[v].st = "verification" /\ s = "done")
      BY <3>1, RefreshedCases
    <3>3. wave'[v] = [wave[v] EXCEPT !.st = s] \/ wave'[v] = wave[v]
      BY <2>1, <3>1
    <3>. QED  BY <3>2, <3>3 DEF TypeOK, Batches
  <2>. QED  BY <2>1, <2>2, QuietShapes
<1>5. ASSUME NEW k \in Controllers, NEW o \in Orders, ReportProblem(k, o)
      PROVE  WavesShape'
  <2>1. PICK w \in Waves : w = task[o].wave
    BY <1>5, OrderOfTask DEF OrdersSound, ReportProblem
  <2>2. \E s : /\ s = "verification" \/ s = "done"
               /\ wave' = [wave EXCEPT ![w].st = s]
    <3>1. \E rows, tk, lb :
            wave' = [wave EXCEPT ![w].st = RefreshedStatus(w, rows, tk, lb)]
      BY <1>5, <2>1 DEF ReportProblem
    <3>2. PICK rows, tk, lb, s :
            /\ s = RefreshedStatus(w, rows, tk, lb)
            /\ wave' = [wave EXCEPT ![w].st = s]
      BY <3>1
    <3>3. wave[w].st = "verification"
      BY <1>5, <2>1 DEF ReportProblem
    <3>4. s = "verification" \/ s = "done"
      BY <3>2, <3>3, RefreshedCases
    <3>. QED  BY <3>2, <3>4
  <2>3. /\ task[o].st = "picked" /\ wave[w].st = "verification" /\ wave[w].handed
        /\ task' = [task EXCEPT ![o].st = "exception"]
        /\ AllPicked(alloc[o])
        /\ alloc' = [alloc EXCEPT ![o] = [b \in Balances |->
                 IF @[b].st = "picked" THEN [@[b] EXCEPT !.st = "canceled"]
                 ELSE @[b]]]
    BY <1>5, <2>1 DEF ReportProblem
  <2>4. PICK s : /\ s = "verification" \/ s = "done"
                 /\ wave' = [wave EXCEPT ![w].st = s]
    BY <2>2
  <2>5. /\ wave'[w].st = s /\ wave'[w].handed
        /\ \A v \in Waves : v # w => wave'[v] = wave[v]
    BY <2>3, <2>4 DEF TypeOK, Batches
  <2>6. task[o] \in [st : TaskStatuses \ {"none"}, wave : Waves,
                     picker : Pickers \cup {None}]
    BY <2>3 DEF TypeOK, Tasks, NoTask
  <2>7. /\ task'[o].st = "exception" /\ task'[o].wave = w
        /\ \A c \in Orders : c # o => task'[c] = task[c]
    BY <2>1, <2>3, <2>6 DEF TypeOK
  <2>8. \A v : TasksOf(task', v) = TasksOf(task, v)
    <3>1. \A v : \A c \in Orders : c \in TasksOf(task', v) <=> c \in TasksOf(task, v)
      BY <2>1, <2>3, <2>7 DEF TasksOf
    <3>. QED  BY <3>1 DEF TasksOf
  <2>9. SetAside(o)'
    <3>1. InTote(o)
      BY <2>3, OrderOfTask DEF OrdersSound, Stage
    <3>2. \A b \in Balances :
            /\ alloc[o][b].st = "picked" => alloc'[o][b].st = "canceled"
            /\ alloc[o][b].st # "picked" => alloc'[o][b] = alloc[o][b]
      BY <2>3 DEF TypeOK, Rows
    <3>3. Only(alloc'[o], {"none", "canceled"}) /\ Has(alloc'[o], "canceled")
      BY <3>1, <3>2 DEF InTote, Only, Has
    <3>. QED  BY <2>5, <2>7, <3>3 DEF SetAside
  <2>10. WaveShape(w)'
    <3>1. \A c \in TasksOf(task, w) : Settled(c)
      BY <2>3 DEF WavesShape, WaveShape, Closed
    <3>2. ASSUME NEW c \in TasksOf(task, w)  PROVE Settled(c)'
      <4>1. CASE c = o
        BY <2>7, <2>9, <4>1 DEF Settled
      <4>2. CASE c # o
        <5>1. c \in Orders /\ task'[c] = task[c] /\ Settled(c)
          BY <2>7, <3>1, <4>2 DEF TasksOf
        <5>. QED  BY <5>1 DEF Settled, AsideStays
      <4>. QED  BY <4>1, <4>2
    <3>. QED  BY <2>4, <2>5, <2>8, <3>2 DEF WaveShape, Closed
  <2>11. ASSUME NEW v \in Waves, v # w  PROVE WaveShape(v)'
    <3>1. \A c \in TasksOf(task, v) : task'[c] = task[c]
      BY <2>1, <2>7, <2>11 DEF TasksOf
    <3>2. ShapeKept(v)
      BY <2>5, <2>8, <2>11, <3>1 DEF ShapeKept
    <3>. QED  BY <3>2, KeptShape DEF WavesShape
  <2>. QED  BY <2>10, <2>11 DEF WavesShape
<1>. QED  BY <1>1, <1>2, <1>3, <1>4, <1>5 DEF VerifySteps

LEMMA ShapesStep ==
  TypeOK /\ TypeOK' /\ OrdersSound /\ CountersTyped /\ FullWaves' /\ WavesShape
    /\ AsideStays /\ [Next]_vars => WavesShape'
<1>1. UNCHANGED vars /\ WavesShape /\ AsideStays => WavesShape'
  BY QuietShapes DEF vars, taskVars, waveVars
<1>. QED  BY <1>1, PickingShapes, VerifyShapes DEF Next

-----------------------------------------------------------------------------
(***************************************************************************)
(* Desks: what a closed wave says of its tasks.                            *)
(***************************************************************************)

\* In a closed wave a task is set aside without a label or picked, and a label
\* that sticks is on complete and verified goods.
ClosedTask(o) ==
  \/ task[o].st = "exception" /\ label[o] = "none"
  \/ /\ task[o].st = "picked"
     /\ label[o] = "applied" =>
          /\ ord[o] = "ready_for_handover" /\ short[o] = {}
          /\ AllPicked(alloc[o]) /\ VerifiedRows(alloc[o])

ClosedTasks ==
  \A w \in Waves : wave[w].st \in Closed => \A o \in TasksOf(task, w) : ClosedTask(o)

LEMMA TasksClosed ==
  TypeOK /\ OrdersSound /\ LabelsSound /\ WavesShape => ClosedTasks
<1>. SUFFICES ASSUME TypeOK, OrdersSound, LabelsSound, WavesShape, NEW w \in Waves,
                     wave[w].st \in Closed, NEW o \in TasksOf(task, w)
              PROVE  ClosedTask(o)
  BY DEF ClosedTasks
<1>1. o \in Orders /\ Settled(o)
  BY DEF WavesShape, WaveShape, TasksOf
<1>2. CASE task[o].st = "exception"
  <2>1. ord[o] = "exception"
    BY <1>1, <1>2, OrderOfTask DEF OrdersSound
  <2>2. label[o] = "none"
    BY <1>1, <2>1 DEF LabelsSound, Labelled
  <2>. QED  BY <1>2, <2>2 DEF ClosedTask
<1>3. CASE task[o].st = "picked"
  <2>1. InTote(o)
    BY <1>1, <1>3, OrderOfTask DEF OrdersSound, Stage
  <2>2. AllPicked(alloc[o])
    BY <2>1 DEF InTote, Only, AllPicked
  <2>. QED  BY <1>1, <1>3, <2>2 DEF ClosedTask, LabelsSound, Labelled
<1>. QED  BY <1>1, <1>2, <1>3 DEF Settled

\* Scans of the controller, and so labels, are on goods of closed waves.
AtDesk(o) == task[o].st # "none" /\ wave[task[o].wave].st \in Closed

DeskScanned(o) ==
  /\ \A b \in Balances : alloc[o][b].ver > 0 => AtDesk(o)
  /\ label[o] = "applied" => AtDesk(o)

ScansSound == \A o \in Orders : DeskScanned(o)

DeskDone(w) ==
  wave[w].st = "done" => \A o \in TasksOf(task, w) :
    \/ task[o].st = "exception" /\ label[o] = "none"
    \/ /\ ord[o] = "ready_for_handover" /\ label[o] = "applied"
       /\ VerifiedRows(alloc[o])
DeskOpen(w) ==
  wave[w].st = "verification" =>
    \E o \in TasksOf(task, w) : task[o].st = "picked" /\ label[o] # "applied"

DesksSound == \A w \in Waves : DeskDone(w) /\ DeskOpen(w)

\* A closed wave stays as it is while others are picked; a wave that closes
\* goes to verification with a picked task it held before.
ClosesWell(v) ==
  /\ wave[v].st \in Closed =>
       wave'[v].st = wave[v].st /\ TasksOf(task', v) \subseteq TasksOf(task, v)
  /\ wave[v].st \notin Closed /\ wave'[v].st \in Closed =>
       /\ wave'[v].st = "verification"
       /\ \E o \in TasksOf(task', v) : task'[o].st = "picked" /\ o \in TasksOf(task, v)

LEMMA SettledCloses ==
  ASSUME WavesShape, NEW w \in Waves, Settles(w), NEW v \in Waves
  PROVE  ClosesWell(v)
<1>1. CASE v = w
  <2>1. wave[w].st \notin Closed
    BY OpenWave DEF Settles, WavesShape
  <2>2. wave'[w].st \in Closed =>
          /\ wave'[w].st = "verification"
          /\ \E o \in TasksOf(task', w) : task'[o].st = "picked" /\ o \in TasksOf(task, w)
    <3>1. \A o \in TasksOf(task', w) : o \in TasksOf(task, w)
      BY DEF Settles
    <3>2. Decided(w)
      BY DEF Settles
    <3>. QED  BY <2>1, <3>1, <3>2 DEF Decided, Closed
  <2>. QED  BY <1>1, <2>1, <2>2 DEF ClosesWell
<1>2. CASE v # w
  <2>1. wave'[v].st = wave[v].st
    BY <1>2 DEF Settles
  <2>2. ASSUME NEW o \in TasksOf(task', v)  PROVE o \in TasksOf(task, v)
    <3>1. CASE o \in TasksOf(task, w)
      BY <1>2, <2>2, <3>1 DEF TasksOf, Settles
    <3>2. CASE o \notin TasksOf(task, w)
      <4>1. task'[o] = task[o]
        BY <2>2, <3>2 DEF TasksOf, Settles
      <4>. QED  BY <2>2, <4>1 DEF TasksOf
    <3>. QED  BY <3>1, <3>2
  <2>. QED  BY <2>1, <2>2 DEF ClosesWell
<1>. QED  BY <1>1, <1>2

LEMMA QuietCloses ==
  ASSUME \A o \in Orders : task'[o].st # "none" =>
           \/ task[o].st # "none" /\ task'[o].wave = task[o].wave
           \/ wave[task'[o].wave].st \notin Closed,
         \A v \in Waves : \/ wave'[v].st = wave[v].st
                          \/ wave[v].st \notin Closed /\ wave'[v].st \notin Closed,
         NEW v \in Waves
  PROVE  ClosesWell(v)
<1>1. wave[v].st \in Closed => TasksOf(task', v) \subseteq TasksOf(task, v)
  BY DEF TasksOf
<1>. QED  BY <1>1 DEF ClosesWell

LEMMA PickingCloses ==
  ASSUME TypeOK, TypeOK', OrdersSound, CountersTyped, FullWaves', WavesShape,
         PickingNext, NEW v \in Waves
  PROVE  ClosesWell(v)
<1>0. ASSUME \A o \in Orders : task'[o].st # "none" =>
               task[o].st # "none" /\ task'[o].wave = task[o].wave,
             \A u \in Waves : wave'[u].st = wave[u].st
      PROVE  ClosesWell(v)
  BY <1>0, QuietCloses
<1>1. ASSUME NEW o \in Orders, NEW to, NEW gone, NEW have,
             ReleaseReservation(o, to, gone, have)
      PROVE  ClosesWell(v)
  <2>1. CASE task[o].st = "none"
    BY <1>0, <1>1, <2>1 DEF ReleaseReservation, taskVars, waveVars
  <2>2. CASE task[o].st # "none"
    <3>1. Settles(task[o].wave)
      BY <1>1, <2>2, ReleasedSettles
    <3>2. task[o].wave \in Waves
      BY <2>2, OrderOfTask DEF OrdersSound
    <3>. QED  BY <3>1, <3>2, SettledCloses
  <2>. QED  BY <2>1, <2>2
<1>2. ASSUME NEW o \in Orders, task[o].st = "in_progress", NEW rows,
             NEW m \in Nat, NEW n \in Nat, Progress(o, rows, m, n)
      PROVE  ClosesWell(v)
  <2>1. Settles(task[o].wave)
    BY <1>2, ProgressedSettles
  <2>2. task[o].wave \in Waves
    BY <1>2, OrderOfTask DEF OrdersSound
  <2>. QED  BY <2>1, <2>2, SettledCloses
<1>3. ASSUME NEW o \in Orders, task[o].st # "none", NEW s,
             task' = [task EXCEPT ![o].st = s], UNCHANGED wave
      PROVE  ClosesWell(v)
  <2>1. task[o] \in [st : TaskStatuses \ {"none"}, wave : Waves,
                     picker : Pickers \cup {None}]
    BY <1>3 DEF TypeOK, Tasks, NoTask
  <2>2. \A c \in Orders : c # o => task'[c] = task[c]
    BY <1>3 DEF TypeOK
  <2>3. task'[o].wave = task[o].wave
    BY <1>3, <2>1 DEF TypeOK
  <2>. QED  BY <1>0, <1>3, <2>2, <2>3
<1>4. CASE StockSteps
  <2>0. ASSUME UNCHANGED <<taskVars, waveVars>>  PROVE ClosesWell(v)
    BY <1>0, <2>0 DEF taskVars, waveVars
  <2>1. ASSUME NEW o \in Orders, NEW s \in Statuses, ImportOrder(o, s)
        PROVE  ClosesWell(v)
    BY <1>1, <2>0, <2>1 DEF ImportOrder
  <2>2. ASSUME NEW o \in Orders, RetryException(o)  PROVE ClosesWell(v)
    BY <1>3, <2>2 DEF RetryException, waveVars
  <2>3. ASSUME NEW o \in Orders, RetryReservation(o)  PROVE ClosesWell(v)
    BY <2>0, <2>3 DEF RetryReservation
  <2>4. ASSUME NEW o \in Orders, ReturnUpperTier(o)  PROVE ClosesWell(v)
    BY <1>1, <2>4 DEF ReturnUpperTier
  <2>5. ASSUME NEW b \in Balances, CountSteps(b)  PROVE ClosesWell(v)
    BY <2>0, <2>5 DEF CountSteps, CheckDrained, StartCounting
  <2>. QED  BY <1>4, <2>1, <2>2, <2>3, <2>4, <2>5 DEF StockSteps
<1>5. CASE WaveSteps
  <2>1. ASSUME NEW p \in Pickers, NEW k \in Carts, NEW w \in Waves,
               TakeOverWave(p, k, w)
        PROVE  ClosesWell(v)
    <3>1. /\ \A o \in Orders :
               task'[o] = IF o \in ActiveTasks(task, w)
                          THEN [task[o] EXCEPT !.picker = p] ELSE task[o]
          /\ wave' = [wave EXCEPT ![w].picker = p]
      BY <2>1 DEF TakeOverWave
    <3>2. ASSUME NEW o \in Orders, task'[o].st # "none"
          PROVE  task[o].st # "none" /\ task'[o].wave = task[o].wave
      <4>1. CASE o \in ActiveTasks(task, w)
        <5>1. task[o] \in [st : TaskStatuses \ {"none"}, wave : Waves,
                           picker : Pickers \cup {None}]
          BY <4>1 DEF TypeOK, Tasks, NoTask, ActiveTasks
        <5>. QED  BY <3>1, <4>1, <5>1
      <4>2. CASE o \notin ActiveTasks(task, w)
        BY <3>1, <3>2, <4>2
      <4>. QED  BY <4>1, <4>2
    <3>3. \A u \in Waves : wave'[u].st = wave[u].st
      BY <3>1 DEF TypeOK, Batches
    <3>. QED  BY <1>0, <3>2, <3>3
  <2>2. ASSUME NEW p \in Pickers, NEW k \in Carts, NEW w \in Waves,
               ClaimWave(p, k, w)
        PROVE  ClosesWell(v)
    <3>1. /\ wave[w].st = "queued"
          /\ \A o \in Orders :
               task'[o] = IF o \in TasksOf(task, w)
                          THEN [task[o] EXCEPT !.st = "in_progress", !.picker = p]
                          ELSE task[o]
          /\ wave' = [wave EXCEPT ![w].st = "in_progress", ![w].picker = p,
                                  ![w].cart = k]
      BY <2>2 DEF ClaimWave
    <3>2. ASSUME NEW o \in Orders, task'[o].st # "none"
          PROVE  task[o].st # "none" /\ task'[o].wave = task[o].wave
      <4>1. CASE o \in TasksOf(task, w)
        <5>1. task[o] \in [st : TaskStatuses \ {"none"}, wave : Waves,
                           picker : Pickers \cup {None}]
          BY <4>1 DEF TypeOK, Tasks, NoTask, TasksOf
        <5>. QED  BY <3>1, <4>1, <5>1
      <4>2. CASE o \notin TasksOf(task, w)
        BY <3>1, <3>2, <4>2
      <4>. QED  BY <4>1, <4>2
    <3>3. \A u \in Waves : wave'[u].st = wave[u].st
                        \/ (wave[u].st \notin Closed /\ wave'[u].st \notin Closed)
      BY <3>1 DEF TypeOK, Batches, Closed
    <3>. QED  BY <3>2, <3>3, QuietCloses
  <2>3. ASSUME NEW w \in Waves, NEW os \in (SUBSET Orders) \ {{}}, AttachOrders(w, os)
        PROVE  ClosesWell(v)
    <3>1. /\ wave[w].st \in {"none", "queued"}
          /\ wave' = [wave EXCEPT ![w].st = "queued"]
          /\ \A o \in Orders :
               /\ o \in os => task'[o] = [st |-> "queued", wave |-> w, picker |-> None]
               /\ o \notin os => task'[o] = task[o]
      BY <2>3 DEF AttachOrders, Untouched, NoBatch
    <3>2. \A u \in Waves : wave'[u].st = wave[u].st
                        \/ (wave[u].st \notin Closed /\ wave'[u].st \notin Closed)
      BY <3>1 DEF TypeOK, Batches, Closed
    <3>3. \A o \in Orders : task'[o].st # "none" =>
            \/ task[o].st # "none" /\ task'[o].wave = task[o].wave
            \/ wave[task'[o].wave].st \notin Closed
      BY <3>1 DEF Closed
    <3>. QED  BY <3>2, <3>3, QuietCloses
  <2>4. ASSUME NEW ws \in SUBSET Waves, NEW to \in [Orders -> ws], Repack(ws, to),
               \A w \in ws : Untouched(w)
        PROVE  ClosesWell(v)
    <3>. DEFINE moved == UNION {TasksOf(task, w) : w \in ws}
    <3>1. \A o \in Orders :
            task'[o] = IF o \in moved THEN [task[o] EXCEPT !.wave = to[o]] ELSE task[o]
      BY <2>4 DEF Repack
    <3>2. \A w \in ws : wave[w].st = "queued"
      BY <2>4 DEF Untouched, NoBatch
    <3>3. ASSUME NEW o \in Orders, task'[o].st # "none"
          PROVE  \/ task[o].st # "none" /\ task'[o].wave = task[o].wave
                 \/ wave[task'[o].wave].st \notin Closed
      <4>1. CASE o \in moved
        <5>1. task[o] \in [st : TaskStatuses \ {"none"}, wave : Waves,
                           picker : Pickers \cup {None}]
          BY <4>1 DEF TypeOK, Tasks, NoTask, TasksOf
        <5>2. PICK t, v1 : t = task[o] /\ v1 = to[o]
          OBVIOUS
        <5>20. t \in [st : TaskStatuses \ {"none"}, wave : Waves,
                      picker : Pickers \cup {None}]
               /\ task'[o] = [t EXCEPT !.wave = v1]
          BY <3>1, <4>1, <5>1, <5>2
        <5>21. task'[o].wave = v1
          BY ONLY <5>20
        <5>22. v1 \in ws /\ wave[v1].st = "queued" /\ v1 = task'[o].wave
          BY <3>2, <5>2, <5>21
        <5>. QED  BY <5>22 DEF Closed
      <4>2. CASE o \notin moved
        BY <3>1, <3>3, <4>2
      <4>. QED  BY <4>1, <4>2
    <3>4. \A u \in Waves : wave'[u] = wave[u]
            \/ (u \in ws /\ wave'[u] = [wave[u] EXCEPT !.st = "canceled"])
      BY <2>4 DEF Repack
    <3>5. \A u \in Waves : wave'[u].st = wave[u].st
                        \/ (wave[u].st \notin Closed /\ wave'[u].st \notin Closed)
      <4>. SUFFICES ASSUME NEW u \in Waves
                    PROVE  \/ wave'[u].st = wave[u].st
                           \/ wave[u].st \notin Closed /\ wave'[u].st \notin Closed
        OBVIOUS
      <4>1. CASE wave'[u] = wave[u]
        BY <4>1
      <4>2. CASE u \in ws /\ wave'[u] = [wave[u] EXCEPT !.st = "canceled"]
        <5>1. wave'[u].st = "canceled"
          BY <4>2 DEF TypeOK, Batches
        <5>. QED  BY <3>2, <4>2, <5>1 DEF Closed
      <4>. QED  BY <3>4, <4>1, <4>2
    <3>. HIDE DEF moved
    <3>. QED  BY <3>3, <3>5, QuietCloses
  <2>5. CASE \E w \in Waves, os \in (SUBSET Orders) \ {{}} : AttachOrders(w, os)
    BY ONLY <2>3, <2>5
  <2>6. CASE \E ws \in SUBSET Waves : \E to \in [Orders -> ws] :
               Repack(ws, to) /\ \A w \in ws : Untouched(w)
    BY ONLY <2>4, <2>6
  <2>7. CASE \E p \in Pickers, k \in Carts, w \in Waves : ClaimWave(p, k, w)
    BY ONLY <2>2, <2>7
  <2>8. CASE \E p \in Pickers, k \in Carts, w \in Waves : TakeOverWave(p, k, w)
    BY ONLY <2>1, <2>8
  <2>. QED  BY ONLY <1>5, <2>5, <2>6, <2>7, <2>8, WaveCases
<1>6. CASE PickSteps
  <2>1. ASSUME NEW p \in Pickers, NEW o \in Orders, NEW b \in Balances,
               PickUnit(p, o, b)
        PROVE  ClosesWell(v)
    <3>1. task[o].st = "in_progress" /\ \E rows : Progress(o, rows, 1, 0)
      BY <2>1 DEF PickUnit, IsTaskActor
    <3>. QED  BY <1>2, <3>1
  <2>2. ASSUME NEW p \in Pickers, NEW o \in Orders, NEW b \in Balances,
               ReportNotFound(p, o, b)
        PROVE  ClosesWell(v)
    <3>1. CASE \E to, gone, have : ReleaseReservation(o, to, gone, have)
      BY <1>1, <3>1
    <3>2. CASE Open(alloc[o][b]) > 0 /\ \E rows : Progress(o, rows, 0, Open(alloc[o][b]))
      <4>1. task[o].st = "in_progress"
        BY <2>2 DEF ReportNotFound, IsTaskActor
      <4>2. Open(alloc[o][b]) \in Int
        BY DEF TypeOK, Rows, Open
      <4>3. PICK n \in Nat : n = Open(alloc[o][b])
        BY <3>2, <4>2
      <4>4. PICK rows : Progress(o, rows, 0, n)
        BY <3>2, <4>3
      <4>. QED  BY <1>2, <4>1, <4>4
    <3>. QED  BY <2>2, <3>1, <3>2 DEF ReportNotFound
  <2>3. ASSUME NEW p \in Pickers, NEW o \in Orders, ReportOther(p, o)
        PROVE  ClosesWell(v)
    BY <1>3, <2>3 DEF ReportOther, IsTaskActor, waveVars
  <2>4. ASSUME NEW p \in Pickers, NEW o \in Orders, NEW b \in Balances,
               NEW m \in 1 .. resv[b], ReportMissing(p, o, b, m)
        PROVE  ClosesWell(v)
    <3>1. m \in Nat
      BY DEF TypeOK
    <3>2. Settles(task[o].wave)
      BY <2>4, <3>1, MissingSettles
    <3>3. task[o].wave \in Waves
      BY <2>4, OrderOfTask DEF OrdersSound, ReportMissing, IsTaskActor
    <3>. QED  BY <3>2, <3>3, SettledCloses
  <2>5. ASSUME NEW p \in Pickers, NEW w \in Waves, HandOver(p, w)
        PROVE  ClosesWell(v)
    <3>1. UNCHANGED task /\ wave' = [wave EXCEPT ![w].handed = TRUE]
      BY <2>5 DEF HandOver, taskVars
    <3>2. \A u \in Waves : wave'[u].st = wave[u].st
      BY <3>1 DEF TypeOK, Batches
    <3>. QED  BY <1>0, <3>1, <3>2
  <2>. QED  BY <1>6, <2>1, <2>2, <2>3, <2>4, <2>5 DEF PickSteps
<1>. QED  BY <1>4, <1>5, <1>6 DEF PickingNext


\* Picking scans nothing for the controller.
LEMMA MissingScans ==
  ASSUME TypeOK, RowsFit, NEW p \in Pickers, NEW o \in Orders, NEW b \in Balances,
         NEW m \in Nat, ReportMissing(p, o, b, m), NEW c \in Orders, NEW x \in Balances
  PROVE  alloc'[c][x].ver \in {0, alloc[c][x].ver}
<1>. DEFINE group == MissingGroup(p, o, b)
<1>1. PICK miss \in [group -> Nat] :
        /\ \A d \in group : miss[d] <= Open(alloc[d][b])
        /\ DropMissing(task[o].wave, b, miss, LostWhole(group, miss),
                       LostPart(group, miss))
  BY MissingSplit
<1>2. group \in SUBSET Orders /\ \A d \in group : IsActive(alloc[d][b])
  BY MissingMembers
<1>3. LostPart(group, miss) \subseteq group
  BY DEF LostPart
<1>. HIDE DEF group
<1>40. PICK w : w = task[o].wave
  OBVIOUS
<1>41. DropMissing(w, b, miss, LostWhole(group, miss), LostPart(group, miss))
  BY <1>1, <1>40
<1>4. /\ c \in LostWhole(group, miss) =>
           \A y \in Balances :
             alloc'[c][y] = IF IsActive(alloc[c][y]) THEN NoRow ELSE alloc[c][y]
      /\ c \in LostPart(group, miss) =>
           /\ alloc'[c] = [alloc[c] EXCEPT ![b] = LostUnits(alloc[c][b], miss[c])]
           /\ miss[c] > 0
      /\ c \notin LostWhole(group, miss) /\ c \notin LostPart(group, miss) =>
           alloc'[c] = alloc[c]
  <2>1. group \in SUBSET Orders /\ miss \in [group -> Nat]
    BY ONLY <1>1, <1>2
  <2>2. \A d \in Orders :
          /\ d \in LostWhole(group, miss) =>
               \A y \in Balances :
                 alloc'[d][y] = IF IsActive(alloc[d][y]) THEN NoRow ELSE alloc[d][y]
          /\ d \in LostPart(group, miss) =>
               /\ alloc'[d] = [alloc[d] EXCEPT ![b] = LostUnits(alloc[d][b], miss[d])]
               /\ miss[d] > 0
          /\ d \notin LostWhole(group, miss) /\ d \notin LostPart(group, miss) =>
               alloc'[d] = alloc[d]
    BY ONLY TypeOK, b \in Balances, <2>1, <1>41, MissingRows
  <2>. QED  BY ONLY <2>2, c \in Orders
<1>5. NoRow.ver = 0
  BY DEF NoRow
<1>6. CASE c \in LostPart(group, miss)
  <2>1. alloc[c] \in [Balances -> Rows] /\ alloc[c][b] \in Rows
    BY DEF TypeOK
  <2>2. LostUnits(alloc[c][b], miss[c]).ver \in {0, alloc[c][b].ver}
    BY <1>5, <2>1 DEF LostUnits, Rows
  <2>. QED  BY <1>4, <1>6, <2>1, <2>2
<1>. QED  BY <1>4, <1>5, <1>6

LEMMA PickingScans ==
  ASSUME TypeOK, RowsFit, PickingNext, NEW c \in Orders, NEW x \in Balances
  PROVE  alloc'[c][x].ver \in {0, alloc[c][x].ver}
<1>0. ASSUME UNCHANGED alloc  PROVE alloc'[c][x].ver \in {0, alloc[c][x].ver}
  BY <1>0
<1>1. NoRow.ver = 0
  BY DEF NoRow
<1>2. ASSUME NEW o \in Orders, NEW to, NEW gone, NEW have,
             ReleaseReservation(o, to, gone, have)
      PROVE  alloc'[c][x].ver \in {0, alloc[c][x].ver}
  <2>1. alloc'[c][x] = alloc[c][x] \/ alloc'[c][x] = NoRow
    BY <1>2, ReleasedRows
  <2>. QED  BY <1>1, <2>1
<1>3. ASSUME NEW o \in Orders, ReserveStock(o)
      PROVE  alloc'[c][x].ver \in {0, alloc[c][x].ver}
  <2>1. ASSUME NEW candidates \in SUBSET Balances,
               NEW take \in Plans(o, candidates), Hold(o, take)
        PROVE  alloc'[c][x].ver \in {0, alloc[c][x].ver}
    <3>1. c # o => alloc'[c] = alloc[c]
      BY <2>1, HeldRows
    <3>2. /\ take[x] = 0 => alloc'[o][x] = alloc[o][x]
          /\ take[x] # 0 => alloc'[o][x] = [st |-> "reserved", res |-> take[x],
                                            picked |-> 0, ver |-> 0]
      BY <2>1, HeldRows
    <3>. QED  BY <3>1, <3>2
  <2>. QED  BY <1>0, <1>3, <2>1, ReserveIsHold
<1>4. CASE StockSteps
  BY <1>0, <1>2, <1>3, <1>4
  DEF StockSteps, RetryReservation, ReturnUpperTier, ImportOrder,
      RetryException, CountSteps, CheckDrained, StartCounting
<1>5. CASE WaveSteps
  <2>1. ASSUME NEW p \in Pickers, NEW k \in Carts, NEW w \in Waves,
               ClaimWave(p, k, w)
        PROVE  alloc'[c][x].ver \in {0, alloc[c][x].ver}
    <3>1. alloc'[c][x] = alloc[c][x]
          \/ alloc'[c][x] = [alloc[c][x] EXCEPT !.st = "picking"]
      BY <2>1, ClaimedRows
    <3>2. alloc[c][x] \in Rows
      BY DEF TypeOK
    <3>. QED  BY <3>1, <3>2 DEF Rows
  <2>. QED  BY <1>0, <1>5, <2>1, WaveStepsLeaveStock, WaveStepsLeaveRows
<1>6. ASSUME NEW o \in Orders, NEW b \in Balances, NEW row,
             row.ver \in {0, alloc[o][b].ver},
             \A d \in Orders : d # o => alloc'[d] = alloc[d],
             alloc'[o] = [alloc[o] EXCEPT ![b] = row]
      PROVE  alloc'[c][x].ver \in {0, alloc[c][x].ver}
  <2>1. alloc[o] \in [Balances -> Rows]
    BY DEF TypeOK
  <2>2. CASE c = o /\ x = b
    BY <1>6, <2>1, <2>2
  <2>3. CASE c = o /\ x # b
    BY <1>6, <2>1, <2>3
  <2>4. CASE c # o
    BY <1>6, <2>4
  <2>. QED  BY <2>2, <2>3, <2>4
<1>7. CASE PickSteps
  <2>1. ASSUME NEW p \in Pickers, NEW o \in Orders, NEW b \in Balances,
               PickUnit(p, o, b)
        PROVE  alloc'[c][x].ver \in {0, alloc[c][x].ver}
    <3>1. /\ \A d \in Orders : d # o => alloc'[d] = alloc[d]
          /\ alloc'[o] = [alloc[o] EXCEPT ![b] = Scanned(alloc[o][b])]
      BY <2>1, PickedRows
    <3>2. alloc[o][b] \in Rows
      BY DEF TypeOK
    <3>3. Scanned(alloc[o][b]).ver = alloc[o][b].ver
      BY <3>2 DEF Scanned, Rows
    <3>. QED  BY <1>6, <3>1, <3>3
  <2>2. ASSUME NEW p \in Pickers, NEW o \in Orders, NEW b \in Balances,
               ReportNotFound(p, o, b)
        PROVE  alloc'[c][x].ver \in {0, alloc[c][x].ver}
    <3>. DEFINE row == alloc[o][b]
    <3>1. CASE ReleaseReservation(o, "awaiting_stock",
                 [NothingGone EXCEPT ![b] = Open(row)], Quarantined(b))
      BY <1>2, <3>1
    <3>2. CASE Progress(o, [alloc[o] EXCEPT ![b] = LostUnits(row, Open(row))],
                        0, Open(row))
      <4>1. row \in Rows
        BY DEF TypeOK
      <4>2. LostUnits(row, Open(row)).ver \in {0, row.ver}
        BY <1>1, <4>1 DEF LostUnits, Rows
      <4>3. alloc' = [alloc EXCEPT ![o] =
                        [alloc[o] EXCEPT ![b] = LostUnits(row, Open(row))]]
        BY <3>2 DEF Progress
      <4>4. /\ \A d \in Orders : d # o => alloc'[d] = alloc[d]
            /\ alloc'[o] = [alloc[o] EXCEPT ![b] = LostUnits(row, Open(row))]
        BY <4>3 DEF TypeOK
      <4>. QED  BY <1>6, <4>2, <4>4
    <3>. QED  BY <2>2, <3>1, <3>2 DEF ReportNotFound
  <2>3. ASSUME NEW p \in Pickers, NEW o \in Orders, NEW b \in Balances,
               NEW m \in 1 .. resv[b], ReportMissing(p, o, b, m)
        PROVE  alloc'[c][x].ver \in {0, alloc[c][x].ver}
    <3>1. m \in Nat
      BY DEF TypeOK
    <3>. QED  BY <2>3, <3>1, MissingScans
  <2>. QED  BY <1>0, <1>7, <2>1, <2>2, <2>3 DEF PickSteps, ReportOther, HandOver
<1>. QED  BY <1>4, <1>5, <1>7 DEF PickingNext

LEMMA PickingScanned ==
  ASSUME TypeOK, TypeOK', RowsFit, OrdersSound, CountersTyped, FullWaves', WavesShape,
         LabelsSound, AsideStays, ScansSound, PickingNext
  PROVE  ScansSound'
<1>1. UNCHANGED label
  BY PickingKeepsLabels
<1>2. ASSUME NEW c \in Orders, AtDesk(c)  PROVE AtDesk(c)'
  <2>1. task[c].wave \in Waves
    BY <1>2, OrderOfTask DEF OrdersSound, AtDesk
  <2>2. Settled(c)
    BY <1>2, <2>1 DEF WavesShape, WaveShape, TasksOf, AtDesk
  <2>3. Rests(c)
    <3>1. CASE task[c].st = "picked"
      <4>1. ~RetryException(c)
        BY <3>1 DEF RetryException
      <4>. QED  BY <3>1, <4>1, PickingRests
    <3>2. CASE task[c].st = "exception" /\ SetAside(c)
      BY <3>2 DEF AsideStays
    <3>. QED  BY <2>2, <3>1, <3>2 DEF Settled
  <2>4. wave'[task[c].wave].st = wave[task[c].wave].st
    BY <1>2, <2>1, PickingCloses DEF ClosesWell, AtDesk
  <2>. QED  BY <1>2, <2>3, <2>4 DEF AtDesk, Rests
<1>3. SUFFICES ASSUME NEW c \in Orders  PROVE DeskScanned(c)'
  BY DEF ScansSound
<1>4. \A b \in Balances : alloc'[c][b].ver > 0 => alloc[c][b].ver > 0
  <2>1. \A b \in Balances : alloc'[c][b].ver \in {0, alloc[c][b].ver}
    BY PickingScans
  <2>. QED  BY <2>1
<1>. QED  BY <1>1, <1>2, <1>4 DEF ScansSound, DeskScanned

\* The controller scans goods of waves that are at a desk, and leaves every
\* other order to itself.
LEMMA DeskStays ==
  ASSUME ScansSound, OrdersSound, TypeOK, NEW c \in Orders,
         task'[c].wave = task[c].wave,
         task[c].st # "none" => task'[c].st # "none",
         \A v \in Waves : wave[v].st \in Closed => wave'[v].st \in Closed,
         \A b \in Balances : alloc'[c][b].ver > 0 => alloc[c][b].ver > 0 \/ AtDesk(c),
         label'[c] = "applied" => label[c] = "applied" \/ AtDesk(c)
  PROVE  DeskScanned(c)'
<1>1. ASSUME AtDesk(c)  PROVE AtDesk(c)'
  <2>1. task[c].wave \in Waves
    BY <1>1, OrderOfTask DEF OrdersSound, AtDesk
  <2>. QED  BY <1>1, <2>1 DEF AtDesk
<1>. QED  BY <1>1 DEF ScansSound, DeskScanned

\* What a wave becomes when it is looked at again.
LEMMA ConfirmedWaves ==
  ASSUME TypeOK, NEW k, NEW o \in Orders, ConfirmLabel(k, o), NEW v \in Waves
  PROVE  /\ wave'[v].st \in {wave[v].st, "done"}
         /\ wave[v].st # "verification" => wave'[v].st = wave[v].st
         /\ v \in past[o] \cup {task[o].wave} =>
              wave'[v].st = RefreshedStatus(v, alloc', task', label')
         /\ v \notin past[o] \cup {task[o].wave} => wave'[v].st = wave[v].st
<1>1. PICK lb : /\ lb = label'
                /\ wave' = [w \in Waves |->
                     IF w \in past[o] \cup {task[o].wave}
                     THEN [wave[w] EXCEPT !.st = RefreshedStatus(w, alloc, task, lb)]
                     ELSE wave[w]]
                /\ UNCHANGED <<alloc, task>>
  BY DEF ConfirmLabel, taskVars
<1>2. PICK s : s = RefreshedStatus(v, alloc, task, lb)
  OBVIOUS
<1>3. s = wave[v].st \/ (wave[v].st = "verification" /\ s = "done")
  BY <1>2, RefreshedCases
<1>4. s = RefreshedStatus(v, alloc', task', label')
  BY <1>1, <1>2
<1>5. wave[v] \in Batches
  BY DEF TypeOK
<1>6. CASE v \in past[o] \cup {task[o].wave}
  <2>1. wave'[v] = [wave[v] EXCEPT !.st = s]
    BY <1>1, <1>2, <1>6
  <2>2. wave'[v].st = s
    BY <1>5, <2>1 DEF Batches
  <2>. QED  BY <1>3, <1>4, <1>6, <2>2
<1>7. CASE v \notin past[o] \cup {task[o].wave}
  BY <1>1, <1>7
<1>. QED  BY <1>6, <1>7

LEMMA ReportedWaves ==
  ASSUME TypeOK, OrdersSound, NEW k, NEW o \in Orders, ReportProblem(k, o)
  PROVE  /\ task[o].wave \in Waves /\ wave[task[o].wave].st = "verification"
         /\ wave'[task[o].wave].st = RefreshedStatus(task[o].wave, alloc', task', label')
         /\ wave'[task[o].wave].st \in Closed
         /\ \A v \in Waves : v # task[o].wave => wave'[v] = wave[v]
         /\ task'[o].st = "exception" /\ task'[o].wave = task[o].wave
         /\ label'[o] = "none"
         /\ \A c \in Orders : c # o => /\ task'[c] = task[c] /\ ord'[c] = ord[c]
                                       /\ label'[c] = label[c]
                                       /\ alloc'[c] = alloc[c]
<1>1. PICK w \in Waves : w = task[o].wave
  BY OrderOfTask DEF OrdersSound, ReportProblem
<1>2. /\ wave[w].st = "verification" /\ task[o].st = "picked"
      /\ task' = [task EXCEPT ![o].st = "exception"]
      /\ label' = [label EXCEPT ![o] = "none"]
      /\ ord' = [ord EXCEPT ![o] = "exception"]
      /\ wave' = [wave EXCEPT ![w].st = RefreshedStatus(w, alloc', task', label')]
  BY <1>1 DEF ReportProblem
<1>3. PICK s : s = RefreshedStatus(w, alloc', task', label')
  OBVIOUS
<1>4. s \in Closed
  BY <1>2, <1>3, RefreshedCases DEF Closed
<1>5. wave' = [wave EXCEPT ![w].st = s]
  BY <1>2, <1>3
<1>6. wave'[w].st = s /\ \A v \in Waves : v # w => wave'[v] = wave[v]
  BY <1>5 DEF TypeOK, Batches
<1>7. task[o] \in [st : TaskStatuses \ {"none"}, wave : Waves,
                   picker : Pickers \cup {None}]
  BY <1>2 DEF TypeOK, Tasks, NoTask
<1>8. /\ task'[o].st = "exception" /\ task'[o].wave = w
      /\ \A c \in Orders : c # o => task'[c] = task[c]
  BY <1>1, <1>2, <1>7 DEF TypeOK
<1>9. /\ label'[o] = "none"
      /\ \A c \in Orders : c # o => ord'[c] = ord[c] /\ label'[c] = label[c]
  BY <1>2 DEF TypeOK
<1>10. \A c \in Orders : c # o => alloc'[c] = alloc[c]
  BY SetAsideRows
<1>. QED  BY <1>1, <1>2, <1>3, <1>4, <1>6, <1>8, <1>9, <1>10

LEMMA VerifyScanned ==
  ASSUME TypeOK, RowsFit, OrdersSound, WavesShape, ScansSound, VerifySteps
  PROVE  ScansSound'
<1>1. ASSUME NEW k \in Controllers, NEW w \in Waves, ClaimVerification(k, w)
      PROVE  ScansSound'
  <2>1. /\ wave' = [wave EXCEPT ![w].ctrl = k]
        /\ UNCHANGED <<alloc, task, label>>
    BY <1>1 DEF ClaimVerification, taskVars
  <2>2. \A v \in Waves : wave'[v].st = wave[v].st
    BY <2>1 DEF TypeOK, Batches
  <2>. QED  BY <2>1, <2>2, DeskStays DEF ScansSound
<1>2. ASSUME NEW k \in Controllers, NEW o \in Orders, NEW b \in Balances,
             VerifyUnit(k, o, b)
      PROVE  ScansSound'
  <2>1. /\ \A c \in Orders : c # o => alloc'[c] = alloc[c]
        /\ task[o].st = "picked"
    BY <1>2, VerifiedRow
  <2>2. wave[task[o].wave].st = "verification" /\ UNCHANGED <<task, wave>>
    BY <1>2 DEF VerifyUnit, taskVars, waveVars
  <2>3. AtDesk(o)
    BY <2>1, <2>2 DEF AtDesk, Closed
  <2>4. label' = label \/ label' = [label EXCEPT ![o] = "requested"]
    BY <1>2 DEF VerifyUnit
  <2>5. \A c \in Orders : label'[c] = "applied" => label[c] = "applied"
    BY <2>4 DEF TypeOK
  <2>. SUFFICES ASSUME NEW c \in Orders  PROVE DeskScanned(c)'
    BY DEF ScansSound
  <2>. QED  BY <2>1, <2>2, <2>3, <2>5, DeskStays
<1>3. ASSUME NEW o \in Orders, PrefetchLabel(o) \/ RegisterLabel(o)
      PROVE  ScansSound'
  <2>1. /\ \E s \in {"requested", "ready"} : label' = [label EXCEPT ![o] = s]
        /\ UNCHANGED <<alloc, task, wave>>
    BY <1>3 DEF PrefetchLabel, RegisterLabel, taskVars, waveVars
  <2>2. \A c \in Orders : label'[c] = "applied" => label[c] = "applied"
    BY <2>1 DEF TypeOK
  <2>. QED  BY <2>1, <2>2, DeskStays DEF ScansSound
<1>4. ASSUME NEW k \in Controllers, NEW o \in Orders, ConfirmLabel(k, o)
      PROVE  ScansSound'
  <2>1. /\ ord[o] = "picked" /\ VerifiedRows(alloc[o])
        /\ label' = [label EXCEPT ![o] = "applied"]
        /\ UNCHANGED <<alloc, task>>
    BY <1>4 DEF ConfirmLabel, taskVars
  <2>2. \A v \in Waves : wave[v].st \in Closed => wave'[v].st \in Closed
    BY <1>4, ConfirmedWaves DEF Closed
  <2>3. AtDesk(o)
    <3>1. InTote(o)
      BY <2>1 DEF OrdersSound, Stage
    <3>2. PICK b \in Balances : alloc[o][b].st = "picked"
      BY <3>1 DEF InTote, Has
    <3>3. /\ alloc[o][b].picked = alloc[o][b].res /\ alloc[o][b].res > 0
          /\ alloc[o][b].ver >= alloc[o][b].picked
      BY <2>1, <3>2 DEF RowsFit, RowFits, VerifiedRows, Verified
    <3>4. alloc[o][b].ver > 0
      BY <3>3 DEF TypeOK, Rows
    <3>. QED  BY <3>4 DEF ScansSound, DeskScanned
  <2>4. \A c \in Orders : label'[c] = "applied" => label[c] = "applied" \/ AtDesk(c)
    BY <2>1, <2>3 DEF TypeOK
  <2>. QED  BY <2>1, <2>2, <2>4, DeskStays DEF ScansSound
<1>5. ASSUME NEW k \in Controllers, NEW o \in Orders, ReportProblem(k, o)
      PROVE  ScansSound'
  <2>1. PICK w \in Waves : w = task[o].wave
    BY <1>5, ReportedWaves
  <2>2. /\ wave'[w].st \in Closed
        /\ \A v \in Waves : v # w => wave'[v] = wave[v]
        /\ task'[o].st = "exception" /\ task'[o].wave = w
        /\ label'[o] = "none"
        /\ \A c \in Orders : c # o => /\ task'[c] = task[c]
                                      /\ label'[c] = label[c]
                                      /\ alloc'[c] = alloc[c]
    BY <1>5, <2>1, ReportedWaves
  <2>3. DeskScanned(o)'
    BY <2>2 DEF DeskScanned, AtDesk
  <2>4. \A v \in Waves : wave[v].st \in Closed => wave'[v].st \in Closed
    BY <2>2
  <2>5. ASSUME NEW c \in Orders, c # o  PROVE DeskScanned(c)'
    BY <2>2, <2>4, <2>5, DeskStays
  <2>. QED  BY <2>3, <2>5 DEF ScansSound
<1>. QED  BY <1>1, <1>2, <1>3, <1>4, <1>5 DEF VerifySteps

\* A done wave stays as it was labelled, one in verification keeps its task
\* that waits for a label.
LEMMA DoneKept ==
  ASSUME NEW v \in Waves, DeskDone(v),
         wave'[v].st = "done" =>
           /\ wave[v].st = "done"
           /\ TasksOf(task', v) \subseteq TasksOf(task, v)
           /\ \A o \in TasksOf(task, v) :
                /\ task'[o] = task[o] /\ ord'[o] = ord[o]
                /\ label'[o] = label[o] /\ alloc'[o] = alloc[o]
  PROVE  DeskDone(v)'
BY DEF DeskDone

LEMMA OpenKept ==
  ASSUME NEW v \in Waves, DeskOpen(v),
         wave'[v].st = "verification" => wave[v].st = "verification",
         \A o \in TasksOf(task, v) :
           task[o].st = "picked" =>
             task'[o] = task[o] /\ (label'[o] = "applied" => label[o] = "applied")
  PROVE  DeskOpen(v)'
<1>. SUFFICES ASSUME wave'[v].st = "verification"
              PROVE  \E o \in TasksOf(task', v) :
                       task'[o].st = "picked" /\ label'[o] # "applied"
  BY DEF DeskOpen
<1>1. PICK o \in TasksOf(task, v) : task[o].st = "picked" /\ label[o] # "applied"
  BY DEF DeskOpen
<1>2. task'[o] = task[o] /\ label'[o] # "applied"
  BY <1>1
<1>3. o \in TasksOf(task', v)
  BY <1>1, <1>2 DEF TasksOf
<1>. QED  BY <1>1, <1>2, <1>3

\* refresh_pick_batch_verification leaves the wave done or with a task that
\* waits for its label.
LEMMA RefreshedWave ==
  ASSUME ClosedTasks', NEW v \in Waves, wave[v].st = "verification",
         UNCHANGED short,
         wave'[v].st = RefreshedStatus(v, alloc', task', label')
  PROVE  DeskDone(v)' /\ DeskOpen(v)'
<1>1. wave'[v].st \in {"verification", "done"}
  BY RefreshedCases
<1>2. \A o \in TasksOf(task', v) : ClosedTask(o)'
  BY <1>1 DEF ClosedTasks, Closed
<1>3. ActiveTasks(task', v) = {}
  BY <1>2 DEF ActiveTasks, TasksOf, ClosedTask
<1>. DEFINE good(o) == /\ AllPicked(alloc'[o]) /\ short[o] = {}
                       /\ VerifiedRows(alloc'[o])
                       /\ label'[o] = "applied"
<1>4. wave'[v].st = "done" <=>
        \A o \in {c \in TasksOf(task', v) : task'[c].st = "picked"} : good(o)
  BY <1>1, <1>3 DEF RefreshedStatus
<1>5. \A o \in TasksOf(task', v) : task'[o].st = "picked" /\ label'[o] = "applied"
                                    => good(o)
  BY <1>2 DEF ClosedTask
<1>6. DeskDone(v)'
  <2>. SUFFICES ASSUME wave'[v].st = "done", NEW o \in TasksOf(task', v)
                PROVE  \/ task'[o].st = "exception" /\ label'[o] = "none"
                       \/ /\ ord'[o] = "ready_for_handover" /\ label'[o] = "applied"
                          /\ VerifiedRows(alloc'[o])
    BY DEF DeskDone
  <2>1. task'[o].st = "picked" => label'[o] = "applied"
    BY <1>4
  <2>. QED  BY <1>2, <2>1 DEF ClosedTask
<1>7. DeskOpen(v)'
  <2>. SUFFICES ASSUME wave'[v].st = "verification"
                PROVE  \E o \in TasksOf(task', v) :
                         task'[o].st = "picked" /\ label'[o] # "applied"
    BY DEF DeskOpen
  <2>1. \E o \in TasksOf(task', v) : task'[o].st = "picked" /\ ~good(o)
    BY <1>4
  <2>. HIDE DEF good
  <2>. QED  BY <1>5, <2>1
<1>. QED  BY <1>6, <1>7

LEMMA PickingDesks ==
  ASSUME TypeOK, TypeOK', OrdersSound, CountersTyped, FullWaves', WavesShape,
         LabelsSound, AsideStays, ScansSound, DesksSound, PickingNext
  PROVE  DesksSound'
<1>1. UNCHANGED label
  BY PickingKeepsLabels
<1>2. SUFFICES ASSUME NEW v \in Waves  PROVE DeskDone(v)' /\ DeskOpen(v)'
  BY DEF DesksSound
<1>3. ClosesWell(v) /\ DeskDone(v) /\ DeskOpen(v)
  BY PickingCloses DEF DesksSound
<1>4. CASE wave[v].st \in Closed
  <2>1. wave'[v].st = wave[v].st /\ TasksOf(task', v) \subseteq TasksOf(task, v)
    BY <1>3, <1>4 DEF ClosesWell
  <2>2. ASSUME NEW c \in TasksOf(task, v)  PROVE Rests(c)
    <3>1. c \in Orders /\ Settled(c)
      BY <1>4, <2>2 DEF WavesShape, WaveShape, TasksOf
    <3>2. CASE task[c].st = "picked"
      <4>1. ~RetryException(c)
        BY <3>2 DEF RetryException
      <4>. QED  BY <3>1, <3>2, <4>1, PickingRests
    <3>3. CASE task[c].st = "exception" /\ SetAside(c)
      BY <3>1, <3>3 DEF AsideStays
    <3>. QED  BY <3>1, <3>2, <3>3 DEF Settled
  <2>3. \A o \in TasksOf(task, v) :
          /\ task'[o] = task[o] /\ ord'[o] = ord[o]
          /\ label'[o] = label[o] /\ alloc'[o] = alloc[o]
    BY <1>1, <2>2 DEF Rests
  <2>. QED  BY <1>3, <2>1, <2>3, DoneKept, OpenKept
<1>5. CASE wave[v].st \notin Closed
  <2>1. wave'[v].st # "done"
    BY <1>3, <1>5 DEF ClosesWell, Closed
  <2>2. ASSUME wave'[v].st = "verification"
        PROVE  \E o \in TasksOf(task', v) :
                 task'[o].st = "picked" /\ label'[o] # "applied"
    <3>1. PICK o \in TasksOf(task', v) :
            task'[o].st = "picked" /\ o \in TasksOf(task, v)
      BY <1>3, <1>5, <2>2 DEF ClosesWell, Closed
    <3>2. ~AtDesk(o) /\ o \in Orders
      BY <1>5, <3>1 DEF AtDesk, TasksOf
    <3>3. label'[o] # "applied"
      BY <1>1, <3>2 DEF ScansSound, DeskScanned
    <3>. QED  BY <3>1, <3>3
  <2>. QED  BY <2>1, <2>2 DEF DeskDone, DeskOpen
<1>. QED  BY <1>4, <1>5

\* A task that has no label yet is in no done wave.
LEMMA UnlabelledIsNotDone ==
  ASSUME DesksSound, NEW o \in Orders, label[o] # "applied", task[o].st = "picked",
         NEW v \in Waves, wave[v].st = "done"
  PROVE  o \notin TasksOf(task, v)
BY DEF DesksSound, DeskDone

LEMMA VerifyDesks ==
  ASSUME TypeOK, OrdersSound, LabelsSound, ClosedTasks', DesksSound, VerifySteps
  PROVE  DesksSound'
<1>0. ASSUME NEW o \in Orders, task[o].st = "picked", label[o] # "applied",
             \A c \in Orders : c # o => alloc'[c] = alloc[c] /\ label'[c] = label[c],
             label'[o] # "applied", UNCHANGED <<ord, task, wave>>
      PROVE  DesksSound'
  <2>. SUFFICES ASSUME NEW v \in Waves  PROVE DeskDone(v)' /\ DeskOpen(v)'
    BY DEF DesksSound
  <2>1. DeskDone(v) /\ DeskOpen(v)
    BY DEF DesksSound
  <2>2. wave[v].st = "done" => o \notin TasksOf(task, v)
    BY <1>0, UnlabelledIsNotDone
  <2>3. DeskDone(v)'
    <3>1. \A c \in TasksOf(task, v) : c \in Orders
      BY DEF TasksOf
    <3>. QED  BY <1>0, <2>1, <2>2, <3>1, DoneKept
  <2>4. DeskOpen(v)'
    <3>1. \A c \in TasksOf(task, v) : label'[c] = "applied" => label[c] = "applied"
      BY <1>0 DEF TasksOf
    <3>. QED  BY <1>0, <2>1, <3>1, OpenKept
  <2>. QED  BY <2>3, <2>4
<1>1. ASSUME NEW k \in Controllers, NEW w \in Waves, ClaimVerification(k, w)
      PROVE  DesksSound'
  <2>1. /\ wave' = [wave EXCEPT ![w].ctrl = k]
        /\ UNCHANGED <<ord, alloc, task, label>>
    BY <1>1 DEF ClaimVerification, taskVars
  <2>2. \A v \in Waves : wave'[v].st = wave[v].st
    BY <2>1 DEF TypeOK, Batches
  <2>. QED  BY <2>1, <2>2 DEF DesksSound, DeskDone, DeskOpen
<1>2. ASSUME NEW k \in Controllers, NEW o \in Orders, NEW b \in Balances,
             VerifyUnit(k, o, b)
      PROVE  DesksSound'
  <2>1. /\ \A c \in Orders : c # o => alloc'[c] = alloc[c]
        /\ task[o].st = "picked"
    BY <1>2, VerifiedRow
  <2>2. wave[task[o].wave].st = "verification" /\ UNCHANGED <<ord, task, wave>>
    BY <1>2 DEF VerifyUnit, taskVars, waveVars
  <2>3. label' = label \/ (label[o] = "none" /\ label' = [label EXCEPT ![o] = "requested"])
    BY <1>2 DEF VerifyUnit
  <2>4. CASE label[o] # "applied"
    <3>1. /\ label'[o] # "applied"
          /\ \A c \in Orders : c # o => label'[c] = label[c]
      BY <2>3, <2>4 DEF TypeOK
    <3>. QED  BY <1>0, <2>1, <2>2, <2>4, <3>1
  <2>5. CASE label[o] = "applied"
    <3>1. UNCHANGED label
      BY <2>3, <2>5
    <3>. SUFFICES ASSUME NEW v \in Waves  PROVE DeskDone(v)' /\ DeskOpen(v)'
      BY DEF DesksSound
    <3>2. DeskDone(v) /\ DeskOpen(v)
      BY DEF DesksSound
    <3>3. wave[v].st = "done" => o \notin TasksOf(task, v)
      BY <2>2 DEF TasksOf
    <3>4. DeskDone(v)'
      <4>1. \A c \in TasksOf(task, v) : c \in Orders
        BY DEF TasksOf
      <4>. QED  BY <2>1, <2>2, <3>1, <3>2, <3>3, <4>1, DoneKept
    <3>5. DeskOpen(v)'
      BY <2>2, <3>1, <3>2, OpenKept
    <3>. QED  BY <3>4, <3>5
  <2>. QED  BY <2>4, <2>5
<1>3. ASSUME NEW o \in Orders, PrefetchLabel(o) \/ RegisterLabel(o)
      PROVE  DesksSound'
  <2>1. /\ ord[o] = "picked" /\ label[o] # "applied"
        /\ \E s \in {"requested", "ready"} : label' = [label EXCEPT ![o] = s]
        /\ UNCHANGED <<ord, alloc, task, wave>>
    BY <1>3 DEF PrefetchLabel, RegisterLabel, taskVars, waveVars
  <2>2. task[o].st = "picked"
    BY <2>1 DEF OrdersSound, Stage
  <2>3. /\ label'[o] # "applied"
        /\ \A c \in Orders : c # o => label'[c] = label[c]
    BY <2>1 DEF TypeOK
  <2>. QED  BY <1>0, <2>1, <2>2, <2>3
<1>4. ASSUME NEW k \in Controllers, NEW o \in Orders, ConfirmLabel(k, o)
      PROVE  DesksSound'
  <2>1. /\ ord[o] = "picked" /\ label[o] # "applied"
        /\ label' = [label EXCEPT ![o] = "applied"]
        /\ ord' = [ord EXCEPT ![o] = "ready_for_handover"]
        /\ UNCHANGED <<alloc, task, short>>
    BY <1>4 DEF ConfirmLabel, taskVars, issueVars
  <2>2. task[o].st = "picked"
    BY <2>1 DEF OrdersSound, Stage
  <2>3. \A c \in Orders : c # o => label'[c] = label[c] /\ ord'[c] = ord[c]
    BY <2>1 DEF TypeOK
  <2>. SUFFICES ASSUME NEW v \in Waves  PROVE DeskDone(v)' /\ DeskOpen(v)'
    BY DEF DesksSound
  <2>4. DeskDone(v) /\ DeskOpen(v)
    BY DEF DesksSound
  <2>5. CASE v \in past[o] \cup {task[o].wave} /\ wave[v].st = "verification"
    <3>1. wave'[v].st = RefreshedStatus(v, alloc', task', label')
      BY <1>4, <2>5, ConfirmedWaves
    <3>. QED  BY <2>1, <2>5, <3>1, RefreshedWave
  <2>6. CASE ~(v \in past[o] \cup {task[o].wave} /\ wave[v].st = "verification")
    <3>1. wave'[v].st = wave[v].st
      BY <1>4, <2>6, ConfirmedWaves
    <3>2. wave[v].st \in Closed => o \notin TasksOf(task, v)
      <4>1. wave[v].st = "done" => o \notin TasksOf(task, v)
        BY <2>1, <2>2, UnlabelledIsNotDone
      <4>2. wave[v].st = "verification" => o \notin TasksOf(task, v)
        BY <2>6 DEF TasksOf
      <4>. QED  BY <4>1, <4>2 DEF Closed
    <3>3. \A c \in TasksOf(task, v) : c \in Orders
      BY DEF TasksOf
    <3>4. DeskDone(v)'
      BY <2>1, <2>3, <2>4, <3>1, <3>2, <3>3, DoneKept DEF Closed
    <3>5. DeskOpen(v)'
      <4>1. CASE wave[v].st = "verification"
        BY <2>1, <2>3, <2>4, <3>1, <3>2, <3>3, <4>1, OpenKept DEF Closed
      <4>2. CASE wave[v].st # "verification"
        BY <3>1, <4>2 DEF DeskOpen
      <4>. QED  BY <4>1, <4>2
    <3>. QED  BY <3>4, <3>5
  <2>. QED  BY <2>5, <2>6
<1>5. ASSUME NEW k \in Controllers, NEW o \in Orders, ReportProblem(k, o)
      PROVE  DesksSound'
  <2>1. PICK w \in Waves : w = task[o].wave
    BY <1>5, ReportedWaves
  <2>2. /\ wave[w].st = "verification"
        /\ wave'[w].st = RefreshedStatus(w, alloc', task', label')
        /\ \A v \in Waves : v # w => wave'[v] = wave[v]
        /\ task'[o].st = "exception" /\ task'[o].wave = w
        /\ \A c \in Orders : c # o => /\ task'[c] = task[c] /\ ord'[c] = ord[c]
                                      /\ label'[c] = label[c]
                                      /\ alloc'[c] = alloc[c]
    BY <1>5, <2>1, ReportedWaves
  <2>3. UNCHANGED short
    BY <1>5 DEF ReportProblem, issueVars
  <2>4. DeskDone(w)' /\ DeskOpen(w)'
    BY <2>2, <2>3, RefreshedWave
  <2>5. ASSUME NEW v \in Waves, v # w  PROVE DeskDone(v)' /\ DeskOpen(v)'
    <3>1. DeskDone(v) /\ DeskOpen(v) /\ wave'[v].st = wave[v].st
      BY <2>2, <2>5 DEF DesksSound
    <3>2. \A c \in TasksOf(task, v) : c \in Orders /\ c # o
      BY <2>1, <2>5 DEF TasksOf
    <3>3. TasksOf(task', v) \subseteq TasksOf(task, v)
      BY <2>2, <2>5 DEF TasksOf
    <3>4. \A c \in TasksOf(task, v) :
            /\ task'[c] = task[c] /\ ord'[c] = ord[c]
            /\ label'[c] = label[c] /\ alloc'[c] = alloc[c]
      BY <2>2, <3>2
    <3>. QED  BY <3>1, <3>3, <3>4, DoneKept, OpenKept
  <2>. QED  BY <2>4, <2>5 DEF DesksSound
<1>. QED  BY <1>1, <1>2, <1>3, <1>4, <1>5 DEF VerifySteps

LEMMA DesksStep ==
  TypeOK /\ RowsFit /\ OrdersSound /\ CountersTyped /\ LabelsSound /\ WavesShape
    /\ TypeOK' /\ FullWaves' /\ ClosedTasks' /\ AsideStays /\ ScansSound
    /\ DesksSound /\ [Next]_vars => ScansSound' /\ DesksSound'
<1>. SUFFICES ASSUME TypeOK, RowsFit, OrdersSound, CountersTyped, LabelsSound,
                     WavesShape, TypeOK', FullWaves', ClosedTasks', AsideStays,
                     ScansSound, DesksSound, [Next]_vars
              PROVE  ScansSound' /\ DesksSound'
  OBVIOUS
<1>1. CASE UNCHANGED vars
  BY <1>1 DEF vars, taskVars, waveVars, ScansSound, DeskScanned, AtDesk,
              DesksSound, DeskDone, DeskOpen
<1>2. CASE PickingNext
  BY <1>2, PickingScanned, PickingDesks
<1>3. CASE VerifySteps
  BY <1>3, VerifyScanned, VerifyDesks
<1>. QED  BY <1>1, <1>2, <1>3 DEF Next

-----------------------------------------------------------------------------
(***************************************************************************)
(* Balances: what is reserved and gone at a balance is what the rows of    *)
(* all orders say.                                                         *)
(***************************************************************************)

LeftAt(b) == [o \in Orders |-> Left(alloc[o][b])]
GotAt(b) == [o \in Orders |-> alloc[o][b].picked]

BalanceBooks(b) ==
  /\ resv[b] = SumFunctionOnSet(LeftAt(b), Orders)
  /\ qty[b] + SumFunctionOnSet(GotAt(b), Orders) = Stock[b]

BalancesSound == \A b \in Balances : BalanceBooks(b)

LEMMA LeftTyped ==
  ASSUME NEW row \in Rows, RowFits(row)
  PROVE  Left(row) \in Nat /\ row.picked \in Nat
BY DEF Left, Open, Rows, RowFits, IsActive

LEMMA NothingLeft == Left(NoRow) = 0 /\ NoRow.picked = 0
BY DEF Left, NoRow, IsActive

\* A balance where no order gets anything else.
LEMMA SameBalance ==
  ASSUME TypeOK, RowsFit, NEW b \in Balances, BalanceBooks(b),
         \A c \in Orders : /\ Left(alloc'[c][b]) = Left(alloc[c][b])
                           /\ alloc'[c][b].picked = alloc[c][b].picked,
         resv'[b] = resv[b], qty'[b] = qty[b]
  PROVE  BalanceBooks(b)'
BY DEF BalanceBooks, LeftAt, GotAt

\* A balance where one order does.
LEMMA OneBalance ==
  ASSUME TypeOK, RowsFit, NEW b \in Balances, BalanceBooks(b), NEW o \in Orders,
         NEW k \in Int, NEW m \in Int,
         Left(alloc'[o][b]) = Left(alloc[o][b]) + k,
         alloc'[o][b].picked = alloc[o][b].picked + m,
         \A c \in Orders : c # o => alloc'[c] = alloc[c],
         resv'[b] = resv[b] + k, qty'[b] = qty[b] - m
  PROVE  BalanceBooks(b)'
<1>1. IsFiniteSet(Orders)
  BY ConstantsAssumption
<1>2. \A c \in Orders : alloc[c][b] \in Rows /\ RowFits(alloc[c][b])
  BY DEF TypeOK, RowsFit
<1>3. \A c \in Orders : LeftAt(b)[c] \in Int /\ GotAt(b)[c] \in Int
  BY <1>2, LeftTyped DEF LeftAt, GotAt
<1>4. PICK left, got : left = LeftAt(b)' /\ got = GotAt(b)'
  OBVIOUS
<1>5. PICK left0, got0 : left0 = LeftAt(b) /\ got0 = GotAt(b)
  OBVIOUS
<1>6. /\ left[o] = left0[o] + k /\ got[o] = got0[o] + m
      /\ \A c \in Orders : c # o => left[c] = left0[c] /\ got[c] = got0[c]
      /\ \A c \in Orders : left0[c] \in Int /\ got0[c] \in Int
  BY <1>3, <1>4, <1>5 DEF LeftAt, GotAt
<1>7. /\ left[o] \in Int /\ got[o] \in Int
  BY <1>6
<1>8. /\ SumFunctionOnSet(left, Orders)
           = SumFunctionOnSet(left0, Orders) - left0[o] + left[o]
      /\ SumFunctionOnSet(got, Orders)
           = SumFunctionOnSet(got0, Orders) - got0[o] + got[o]
  BY ONLY <1>1, <1>6, <1>7, SumChanged, o \in Orders
<1>9. SumFunctionOnSet(left0, Orders) \in Int /\ SumFunctionOnSet(got0, Orders) \in Int
  BY ONLY <1>1, <1>6, SumIsInt
<1>10. resv[b] \in Int /\ qty[b] \in Int /\ Stock[b] \in Int
  BY ConstantsAssumption DEF TypeOK
<1>11. /\ resv[b] = SumFunctionOnSet(left0, Orders)
       /\ qty[b] + SumFunctionOnSet(got0, Orders) = Stock[b]
  BY <1>5 DEF BalanceBooks
<1>12. /\ resv'[b] = SumFunctionOnSet(left, Orders)
       /\ qty'[b] + SumFunctionOnSet(got, Orders) = Stock[b]
  BY <1>6, <1>8, <1>9, <1>10, <1>11
<1>. QED  BY <1>4, <1>12 DEF BalanceBooks

\* A reservation adds what it takes, a release gives up what is left.
LEMMA HeldLeft ==
  ASSUME TypeOK, RowsFit, OrdersSound, NEW o \in Orders,
         ord[o] \in {"absent", "received", "awaiting_stock"},
         NEW candidates \in SUBSET Balances,
         NEW take \in Plans(o, candidates), Hold(o, take)
  PROVE  /\ \A c \in Orders : c # o => alloc'[c] = alloc[c]
         /\ \A b \in Balances :
              /\ Left(alloc[o][b]) = 0 /\ alloc[o][b].picked = 0
              /\ Left(alloc'[o][b]) = take[b] /\ alloc'[o][b].picked = 0
              /\ resv'[b] = resv[b] + take[b] /\ take[b] \in Nat
         /\ UNCHANGED qty
<1>1. \A b \in Balances : alloc[o][b] = NoRow
  BY DEF OrdersSound, Stage, Only, RowsFit, RowFits
<1>2. \A b \in Balances : take[b] \in Nat
  BY PlanIsNat
<1>3. /\ \A c \in Orders : c # o => alloc'[c] = alloc[c]
      /\ \A b \in Balances :
           /\ take[b] = 0 => alloc'[o][b] = alloc[o][b]
           /\ take[b] # 0 => alloc'[o][b] = [st |-> "reserved", res |-> take[b],
                                             picked |-> 0, ver |-> 0]
           /\ resv'[b] = resv[b] + take[b]
      /\ UNCHANGED qty
  BY HeldRows
<1>4. ASSUME NEW b \in Balances
      PROVE  Left(alloc'[o][b]) = take[b] /\ alloc'[o][b].picked = 0
  <2>1. CASE take[b] = 0
    BY <1>1, <1>3, <2>1, NothingLeft
  <2>2. CASE take[b] # 0
    <3>1. alloc'[o][b] = [st |-> "reserved", res |-> take[b], picked |-> 0, ver |-> 0]
      BY <1>3, <2>2
    <3>. QED  BY <1>2, <3>1 DEF Left, IsActive, Open
  <2>. QED  BY <2>1, <2>2
<1>. QED  BY <1>1, <1>2, <1>3, <1>4, NothingLeft

LEMMA ReleasedLeft ==
  ASSUME TypeOK, RowsFit, NEW o \in Orders, NEW to, NEW gone, NEW have,
         ReleaseReservation(o, to, gone, have)
  PROVE  /\ \A c \in Orders : c # o => alloc'[c] = alloc[c]
         /\ \A b \in Balances :
              /\ Left(alloc[o][b]) \in Nat
              /\ Left(alloc'[o][b]) = 0
              /\ alloc'[o][b].picked = alloc[o][b].picked
              /\ resv'[b] = resv[b] - Left(alloc[o][b])
         /\ UNCHANGED qty
<1>1. /\ \A c \in Orders : c # o => alloc'[c] = alloc[c]
      /\ \A b \in Balances :
           /\ IsActive(alloc[o][b]) =>
                /\ alloc'[o][b] = NoRow
                /\ alloc[o][b].picked = 0
                /\ resv'[b] = resv[b] - Open(alloc[o][b])
           /\ ~IsActive(alloc[o][b]) =>
                alloc'[o][b] = alloc[o][b] /\ resv'[b] = resv[b]
      /\ UNCHANGED qty
  BY ReleasedRows
<1>2. ASSUME NEW b \in Balances
      PROVE  /\ Left(alloc[o][b]) \in Nat
             /\ Left(alloc'[o][b]) = 0
             /\ alloc'[o][b].picked = alloc[o][b].picked
             /\ resv'[b] = resv[b] - Left(alloc[o][b])
  <2>1. alloc[o][b] \in Rows /\ RowFits(alloc[o][b]) /\ resv[b] \in Nat
    BY DEF TypeOK, RowsFit
  <2>2. Left(alloc[o][b]) \in Nat
    BY <2>1, LeftTyped
  <2>3. CASE IsActive(alloc[o][b])
    BY <1>1, <2>2, <2>3, NothingLeft DEF Left
  <2>4. CASE ~IsActive(alloc[o][b])
    BY <1>1, <2>1, <2>2, <2>4 DEF Left
  <2>. QED  BY <2>3, <2>4
<1>. QED  BY <1>1, <1>2

\* A picker's scan moves one unit of one row, a report takes what is left of it.
LEMMA PickedLeft ==
  ASSUME TypeOK, RowsFit, NEW p \in Pickers, NEW o \in Orders, NEW b \in Balances,
         PickUnit(p, o, b)
  PROVE  /\ \A c \in Orders : c # o => alloc'[c] = alloc[c]
         /\ \A x \in Balances : x # b => alloc'[o][x] = alloc[o][x]
         /\ Left(alloc[o][b]) \in Nat /\ Left(alloc[o][b]) > 0
         /\ Left(alloc'[o][b]) = Left(alloc[o][b]) - 1
         /\ alloc'[o][b].picked = alloc[o][b].picked + 1
         /\ resv' = [resv EXCEPT ![b] = resv[b] - 1]
         /\ qty' = [qty EXCEPT ![b] = qty[b] - 1]
         /\ UNCHANGED avail
<1>1. /\ \A c \in Orders : c # o => alloc'[c] = alloc[c]
      /\ alloc'[o] = [alloc[o] EXCEPT ![b] = Scanned(alloc[o][b])]
      /\ alloc[o][b].st = "picking" /\ Open(alloc[o][b]) > 0
  BY PickedRows
<1>2. /\ alloc[o] \in [Balances -> Rows] /\ alloc[o][b] \in Rows
      /\ RowFits(alloc[o][b])
  BY DEF TypeOK, RowsFit
<1>3. PICK row \in Rows : row = Scanned(alloc[o][b])
  BY <1>1, <1>2, ScannedFits
<1>4. /\ row.res = alloc[o][b].res /\ row.picked = alloc[o][b].picked + 1
      /\ row.st = "picked" <=> Open(alloc[o][b]) = 1
      /\ row.st = "picking" <=> Open(alloc[o][b]) # 1
  BY <1>1, <1>2, <1>3, ScannedFits
<1>5. alloc'[o][b] = row /\ \A x \in Balances : x # b => alloc'[o][x] = alloc[o][x]
  BY <1>1, <1>2, <1>3
<1>6. Open(alloc[o][b]) \in Int /\ Open(row) = Open(alloc[o][b]) - 1
  BY <1>2, <1>4 DEF Open, Rows
<1>7. Left(alloc[o][b]) = Open(alloc[o][b])
  BY <1>1 DEF Left, IsActive
<1>8. Left(row) = Open(alloc[o][b]) - 1
  BY <1>4, <1>6 DEF Left, IsActive
<1>9. /\ resv' = [resv EXCEPT ![b] = resv[b] - 1]
      /\ qty' = [qty EXCEPT ![b] = qty[b] - 1]
      /\ UNCHANGED avail
  BY DEF PickUnit, TakeUnit
<1>. QED  BY <1>1, <1>4, <1>5, <1>6, <1>7, <1>8, <1>9

\* A row that lost n units.
LEMMA LostLeft ==
  ASSUME NEW row \in Rows, RowFits(row), IsActive(row),
         NEW n \in Nat, n > 0, n <= Open(row)
  PROVE  /\ Left(row) = Open(row) /\ Open(row) \in Nat
         /\ Left(LostUnits(row, n)) = Open(row) - n
         /\ LostUnits(row, n).picked = row.picked
<1>1. /\ LostUnits(row, n).picked = row.picked
      /\ IsActive(LostUnits(row, n)) <=> n < Open(row)
      /\ IsActive(LostUnits(row, n)) => Open(LostUnits(row, n)) = Open(row) - n
  BY LostUnitsFits
<1>2. Left(row) = Open(row) /\ Open(row) \in Nat
  BY LeftTyped DEF Left
<1>. QED  BY <1>1, <1>2 DEF Left

LEMMA NotFoundLeft ==
  ASSUME TypeOK, RowsFit, NEW p \in Pickers, NEW o \in Orders, NEW b \in Balances,
         ReportNotFound(p, o, b),
         Progress(o, [alloc[o] EXCEPT ![b] = LostUnits(alloc[o][b], Open(alloc[o][b]))],
                  0, Open(alloc[o][b])),
         Open(alloc[o][b]) > 0
  PROVE  /\ \A c \in Orders : c # o => alloc'[c] = alloc[c]
         /\ \A x \in Balances : x # b => alloc'[o][x] = alloc[o][x]
         /\ Left(alloc[o][b]) = Open(alloc[o][b]) /\ Open(alloc[o][b]) \in Nat
         /\ Left(alloc'[o][b]) = 0
         /\ alloc'[o][b].picked = alloc[o][b].picked
<1>. DEFINE row == alloc[o][b]
<1>1. row \in Rows /\ RowFits(row) /\ IsActive(row)
      /\ Open(row) \in Nat /\ Open(row) <= Open(row)
  BY DEF Open, Rows, TypeOK, RowsFit, ReportNotFound
<1>2. PICK next : next = LostUnits(row, Open(row))
  OBVIOUS
<1>3. alloc' = [alloc EXCEPT ![o] = [alloc[o] EXCEPT ![b] = next]]
  BY <1>2 DEF Progress
<1>4. /\ \A c \in Orders : c # o => alloc'[c] = alloc[c]
      /\ alloc'[o][b] = next
      /\ \A x \in Balances : x # b => alloc'[o][x] = alloc[o][x]
  BY <1>3 DEF TypeOK
<1>5. Left(row) = Open(row) /\ Left(next) = Open(row) - Open(row)
      /\ next.picked = row.picked
  BY <1>1, <1>2, LostLeft
<1>. QED  BY <1>1, <1>4, <1>5

\* A report of missing units takes them from the rows of its group.
LEMMA MissingLeft ==
  ASSUME TypeOK, RowsFit, OrdersSound, NEW p \in Pickers, NEW o \in Orders,
         NEW b \in Balances, NEW m \in Nat, ReportMissing(p, o, b, m)
  PROVE  \E group \in SUBSET Orders : \E miss \in [group -> Nat] :
           /\ SumFunction(miss) = m
           /\ \A c \in group : /\ Left(alloc[c][b]) \in Nat
                               /\ miss[c] <= Left(alloc[c][b])
                               /\ Left(alloc'[c][b]) = Left(alloc[c][b]) - miss[c]
           /\ \A c \in Orders \ group : alloc'[c] = alloc[c]
           /\ \A c \in Orders, x \in Balances :
                /\ alloc'[c][x].picked = alloc[c][x].picked
                /\ x # b => Left(alloc'[c][x]) = Left(alloc[c][x])
<1>. DEFINE group == MissingGroup(p, o, b)
<1>1. PICK miss \in [group -> Nat] :
        /\ SumFunction(miss) = m
        /\ \A d \in group : miss[d] <= Open(alloc[d][b])
        /\ DropMissing(task[o].wave, b, miss, LostWhole(group, miss),
                       LostPart(group, miss))
  BY MissingSplit
<1>2. group \in SUBSET Orders
      /\ \A d \in group : IsActive(alloc[d][b]) /\ task[d].st = "in_progress"
  BY MissingMembers
<1>3. LostPart(group, miss) \subseteq group
  BY DEF LostPart
<1>4. \A d \in group : d \notin LostWhole(group, miss) /\ d \notin LostPart(group, miss)
                         => miss[d] = 0
  BY <1>1 DEF LostPart
<1>5. \A d \in LostWhole(group, miss) :
        /\ d \in group /\ miss[d] >= tPlanned[d] /\ miss[d] > 0
        /\ \A x \in Balances : alloc[d][x].st # "picked"
  BY DEF LostWhole
<1>. HIDE DEF group
<1>40. PICK w : w = task[o].wave
  OBVIOUS
<1>41. /\ group \in SUBSET Orders /\ miss \in [group -> Nat]
       /\ DropMissing(w, b, miss, LostWhole(group, miss), LostPart(group, miss))
  BY <1>1, <1>2, <1>40
<1>6. \A c \in Orders :
        /\ c \in LostWhole(group, miss) =>
             \A x \in Balances :
               alloc'[c][x] = IF IsActive(alloc[c][x]) THEN NoRow ELSE alloc[c][x]
        /\ c \in LostPart(group, miss) =>
             /\ alloc'[c] = [alloc[c] EXCEPT ![b] = LostUnits(alloc[c][b], miss[c])]
             /\ miss[c] > 0
        /\ c \notin LostWhole(group, miss) /\ c \notin LostPart(group, miss) =>
             alloc'[c] = alloc[c]
  BY ONLY TypeOK, b \in Balances, <1>41, MissingRows
<1>7. PICK W, P : W = LostWhole(group, miss) /\ P = LostPart(group, miss)
  OBVIOUS
<1>8. ASSUME NEW c \in Orders
      PROVE  /\ alloc[c] \in [Balances -> Rows]
             /\ \A x \in Balances : RowFits(alloc[c][x])
             /\ \A x \in Balances : Left(alloc[c][x]) \in Nat
  BY LeftTyped DEF TypeOK, RowsFit
<1>9. ASSUME NEW c \in W
      PROVE  /\ c \in group
             /\ \A x \in Balances : alloc'[c][x].picked = alloc[c][x].picked
             /\ \A x \in Balances : x # b => Left(alloc'[c][x]) = Left(alloc[c][x])
             /\ miss[c] <= Left(alloc[c][b])
             /\ Left(alloc'[c][b]) = Left(alloc[c][b]) - miss[c]
  <2>1. /\ c \in group /\ c \in Orders /\ miss[c] >= tPlanned[c] /\ miss[c] \in Nat
        /\ miss[c] > 0
        /\ miss[c] <= Open(alloc[c][b]) /\ task[c].st = "in_progress"
        /\ IsActive(alloc[c][b])
        /\ \A x \in Balances : alloc[c][x].st # "picked"
    BY <1>1, <1>2, <1>5, <1>7
  <2>2. \A x \in Balances :
          alloc'[c][x] = IF IsActive(alloc[c][x]) THEN NoRow ELSE alloc[c][x]
    BY <1>6, <1>7, <2>1
  <2>3. tPlanned[c] = Planned(alloc[c]) /\ tPicked[c] = Taken(alloc[c])
    BY <2>1 DEF OrdersSound, Books
  <2>4. ord[c] = "picking" /\ InHand(c)
    BY <2>1, OrderOfTask DEF OrdersSound, Stage
  <2>5. /\ \A x \in Balances : /\ alloc[c][x] \in Rows /\ RowFits(alloc[c][x])
                               /\ Left(alloc[c][x]) \in Nat
        /\ alloc[c] \in [Balances -> Rows]
    BY <1>8, <2>1
  <2>6. Planned(alloc[c]) \in Nat /\ \A x \in Balances : alloc[c][x].res <= Planned(alloc[c])
    BY <2>5, RowSumsTyped
  <2>7. /\ alloc[c][b].res \in Nat /\ alloc[c][b].picked \in Nat
        /\ Open(alloc[c][b]) = alloc[c][b].res - alloc[c][b].picked
    BY <2>5 DEF Rows, Open
  <2>8. alloc[c][b].picked = 0 /\ miss[c] = Open(alloc[c][b])
        /\ Planned(alloc[c]) = alloc[c][b].res
    BY <2>1, <2>3, <2>6, <2>7
  <2>9. \A x \in Balances : x # b => alloc[c][x].res = 0
    <3>. SUFFICES ASSUME NEW x \in Balances, x # b  PROVE alloc[c][x].res = 0
      OBVIOUS
    <3>. DEFINE f == ResOf(alloc[c])
    <3>1. /\ f[b] = alloc[c][b].res /\ f[x] = alloc[c][x].res
          /\ \A y \in Balances : f[y] \in Nat
      BY <2>5 DEF ResOf, Rows
    <3>2. Planned(alloc[c]) = SumFunctionOnSet(f, Balances)
      BY DEF Planned
    <3>. HIDE DEF f
    <3>3. IsFiniteSet(Balances) /\ IsFiniteSet(Balances \ {b})
      BY ConstantsAssumption, FS_Subset
    <3>4. SumFunctionOnSet(f, Balances) = f[b] + SumFunctionOnSet(f, Balances \ {b})
      <4>1. \A y \in Balances : f[y] \in Int
        BY <3>1
      <4>. QED  BY ONLY <3>3, <4>1, b \in Balances, SumWithout
    <3>5. /\ SumFunctionOnSet(f, Balances \ {b}) \in Nat
          /\ f[x] <= SumFunctionOnSet(f, Balances \ {b})
      BY <3>1, <3>3, SumIsNat
    <3>. QED  BY <2>7, <2>8, <3>1, <3>2, <3>4, <3>5
  <2>10. \A x \in Balances : IsActive(alloc[c][x]) => x = b
    BY <2>5, <2>9 DEF RowFits, IsActive, Rows
  <2>11. \A x \in Balances : x # b => alloc'[c][x] = alloc[c][x]
    BY <2>2, <2>10
  <2>12. alloc'[c][b] = NoRow /\ Left(alloc[c][b]) = Open(alloc[c][b])
    BY <2>1, <2>2 DEF Left
  <2>13. Left(NoRow) = Open(alloc[c][b]) - miss[c]
    BY <2>7, <2>8, NothingLeft
  <2>. QED  BY <2>1, <2>8, <2>11, <2>12, <2>13, NothingLeft
<1>10. ASSUME NEW c \in P
       PROVE  /\ c \in group
              /\ \A x \in Balances : alloc'[c][x].picked = alloc[c][x].picked
              /\ \A x \in Balances : x # b => Left(alloc'[c][x]) = Left(alloc[c][x])
              /\ miss[c] <= Left(alloc[c][b])
              /\ Left(alloc'[c][b]) = Left(alloc[c][b]) - miss[c]
  <2>1. c \in group /\ c \in Orders
    BY <1>2, <1>3, <1>7
  <2>2. PICK n \in Nat : n = miss[c] /\ n > 0 /\ n <= Open(alloc[c][b])
    BY <1>1, <1>6, <1>7, <2>1
  <2>3. alloc'[c] = [alloc[c] EXCEPT ![b] = LostUnits(alloc[c][b], n)]
    BY <1>6, <1>7, <2>1, <2>2
  <2>4. /\ alloc[c] \in [Balances -> Rows] /\ alloc[c][b] \in Rows
        /\ RowFits(alloc[c][b]) /\ IsActive(alloc[c][b])
    BY <1>2, <1>8, <2>1
  <2>5. PICK next : next = LostUnits(alloc[c][b], n)
    OBVIOUS
  <2>6. alloc'[c][b] = next /\ \A x \in Balances : x # b => alloc'[c][x] = alloc[c][x]
    BY <2>3, <2>4, <2>5
  <2>7. /\ Left(alloc[c][b]) = Open(alloc[c][b]) /\ Left(next) = Open(alloc[c][b]) - n
        /\ next.picked = alloc[c][b].picked
    BY <2>2, <2>4, <2>5, LostLeft
  <2>. QED  BY <2>1, <2>2, <2>6, <2>7
<1>11. ASSUME NEW c \in Orders, c \notin W, c \notin P
       PROVE  alloc'[c] = alloc[c]
  BY <1>6, <1>7, <1>11
<1>12. ASSUME NEW c \in group
       PROVE  /\ Left(alloc[c][b]) \in Nat
              /\ miss[c] <= Left(alloc[c][b])
              /\ Left(alloc'[c][b]) = Left(alloc[c][b]) - miss[c]
  <2>1. c \in Orders /\ Left(alloc[c][b]) \in Nat /\ miss[c] \in Nat
    BY <1>2, <1>8
  <2>2. CASE c \notin W /\ c \notin P
    BY <1>4, <1>7, <1>11, <2>1, <2>2
  <2>. QED  BY <1>9, <1>10, <2>1, <2>2
<1>13. \A c \in Orders \ group : alloc'[c] = alloc[c]
  BY <1>9, <1>10, <1>11
<1>14. ASSUME NEW c \in Orders, NEW x \in Balances
       PROVE  /\ alloc'[c][x].picked = alloc[c][x].picked
              /\ x # b => Left(alloc'[c][x]) = Left(alloc[c][x])
  BY <1>9, <1>10, <1>11
<1>. QED  BY <1>1, <1>2, <1>12, <1>13, <1>14

LEMMA MissingBalance ==
  ASSUME TypeOK, RowsFit, OrdersSound, BalancesSound, NEW p \in Pickers,
         NEW o \in Orders, NEW b \in Balances, NEW m \in Nat, ReportMissing(p, o, b, m)
  PROVE  BalancesSound'
<1>1. PICK group \in SUBSET Orders : \E miss \in [group -> Nat] :
           /\ SumFunction(miss) = m
           /\ \A c \in group : /\ Left(alloc[c][b]) \in Nat
                               /\ miss[c] <= Left(alloc[c][b])
                               /\ Left(alloc'[c][b]) = Left(alloc[c][b]) - miss[c]
           /\ \A c \in Orders \ group : alloc'[c] = alloc[c]
           /\ \A c \in Orders, x \in Balances :
                /\ alloc'[c][x].picked = alloc[c][x].picked
                /\ x # b => Left(alloc'[c][x]) = Left(alloc[c][x])
  BY MissingLeft
<1>2. PICK miss \in [group -> Nat] :
           /\ SumFunction(miss) = m
           /\ \A c \in group : /\ Left(alloc[c][b]) \in Nat
                               /\ miss[c] <= Left(alloc[c][b])
                               /\ Left(alloc'[c][b]) = Left(alloc[c][b]) - miss[c]
           /\ \A c \in Orders \ group : alloc'[c] = alloc[c]
           /\ \A c \in Orders, x \in Balances :
                /\ alloc'[c][x].picked = alloc[c][x].picked
                /\ x # b => Left(alloc'[c][x]) = Left(alloc[c][x])
  BY <1>1
<1>3. /\ resv' = [resv EXCEPT ![b] = resv[b] - m] /\ UNCHANGED qty
      /\ resv[b] \in Nat
  BY DEF ReportMissing, TypeOK
<1>4. SUFFICES ASSUME NEW x \in Balances  PROVE BalanceBooks(x)'
  BY DEF BalancesSound
<1>5. BalanceBooks(x)
  BY DEF BalancesSound
<1>6. CASE x # b
  <2>1. resv'[x] = resv[x]
    BY <1>3, <1>6 DEF TypeOK
  <2>. QED  BY <1>2, <1>3, <1>5, <1>6, <2>1, SameBalance
<1>7. CASE x = b
  <2>1. IsFiniteSet(Orders)
    BY ConstantsAssumption
  <2>2. PICK left, left0, loss, got, got0 :
          /\ left = LeftAt(b)' /\ left0 = LeftAt(b)
          /\ got = GotAt(b)' /\ got0 = GotAt(b)
          /\ loss = [c \in Orders |-> IF c \in group THEN miss[c] ELSE 0]
    OBVIOUS
  <2>3. \A c \in Orders : left0[c] \in Int /\ got0[c] \in Int
    BY <2>2, LeftTyped DEF LeftAt, GotAt, TypeOK, RowsFit
  <2>4. \A c \in Orders : /\ loss[c] \in Int
                          /\ (c \in group => loss[c] = miss[c])
                          /\ (c \notin group => loss[c] = 0)
    BY <1>2, <2>2
  <2>5. \A c \in Orders : left[c] \in Int /\ left0[c] = left[c] + loss[c]
    <3>. SUFFICES ASSUME NEW c \in Orders
                  PROVE  left[c] \in Int /\ left0[c] = left[c] + loss[c]
      OBVIOUS
    <3>1. left[c] = Left(alloc'[c][b]) /\ left0[c] = Left(alloc[c][b])
      BY <2>2 DEF LeftAt
    <3>2. CASE c \in group
      <4>1. left[c] = left0[c] - loss[c]
        BY <1>2, <2>4, <3>1, <3>2
      <4>. QED  BY <2>3, <2>4, <4>1
    <3>3. CASE c \notin group
      <4>1. left[c] = left0[c]
        BY <1>2, <3>1, <3>3
      <4>. QED  BY <2>3, <2>4, <3>3, <4>1
    <3>. QED  BY <3>2, <3>3
  <2>6. SumFunctionOnSet(left0, Orders)
          = SumFunctionOnSet(left, Orders) + SumFunctionOnSet(loss, Orders)
    BY ONLY <2>1, <2>4, <2>5, SumAdds
  <2>7. SumFunctionOnSet(loss, Orders) = m
    <3>1. SumFunctionOnSet(loss, Orders) = SumFunctionOnSet(loss, group)
      BY ONLY <2>1, <2>4, group \in SUBSET Orders, SumOverSome
    <3>2. IsFiniteSet(group) /\ \A c \in group : loss[c] \in Int /\ loss[c] = miss[c]
      BY <2>1, <2>4, FS_Subset
    <3>3. SumFunctionOnSet(loss, group) = SumFunctionOnSet(miss, group)
      BY ONLY <3>2, SameSum
    <3>4. DOMAIN miss = group
      OBVIOUS
    <3>5. SumFunctionOnSet(miss, group) = SumFunction(miss)
      BY ONLY <3>4 DEF SumFunction
    <3>. QED  BY <1>2, <3>1, <3>3, <3>5
  <2>8. SumFunctionOnSet(left, Orders) \in Int /\ SumFunctionOnSet(left0, Orders) \in Int
    BY ONLY <2>1, <2>3, <2>5, SumIsInt
  <2>9. resv'[b] = SumFunctionOnSet(left, Orders)
    <3>1. resv[b] = SumFunctionOnSet(left0, Orders)
      BY <1>5, <1>7, <2>2 DEF BalanceBooks
    <3>2. resv'[b] = resv[b] - m
      BY <1>3 DEF TypeOK
    <3>. QED  BY <2>6, <2>7, <2>8, <3>1, <3>2
  <2>10. got = got0
    BY <1>2, <2>2 DEF GotAt
  <2>11. qty'[b] + SumFunctionOnSet(got, Orders) = Stock[b]
    BY <1>3, <1>5, <1>7, <2>2, <2>10 DEF BalanceBooks
  <2>. QED  BY <1>7, <2>2, <2>9, <2>11 DEF BalanceBooks
<1>. QED  BY <1>6, <1>7

\* Picking, reporting and verifying keep the balances in step with the rows.
LEMMA BalancesStep ==
  TypeOK /\ RowsFit /\ OrdersSound /\ BalancesSound /\ [Next]_vars => BalancesSound'
<1>. SUFFICES ASSUME TypeOK, RowsFit, OrdersSound, BalancesSound, [Next]_vars
              PROVE  BalancesSound'
  OBVIOUS
<1>0. ASSUME UNCHANGED <<qty, resv, alloc>>  PROVE BalancesSound'
  BY <1>0 DEF BalancesSound, BalanceBooks, LeftAt, GotAt
<1>1. CASE UNCHANGED vars
  BY <1>0, <1>1 DEF vars, stockVars
<1>2. ASSUME NEW o \in Orders, NEW to, NEW gone, NEW have,
             ReleaseReservation(o, to, gone, have)
      PROVE  BalancesSound'
  <2>. SUFFICES ASSUME NEW b \in Balances  PROVE BalanceBooks(b)'
    BY DEF BalancesSound
  <2>1. /\ \A c \in Orders : c # o => alloc'[c] = alloc[c]
        /\ Left(alloc[o][b]) \in Nat /\ Left(alloc'[o][b]) = 0
        /\ alloc'[o][b].picked = alloc[o][b].picked
        /\ resv'[b] = resv[b] - Left(alloc[o][b]) /\ UNCHANGED qty
    BY <1>2, ReleasedLeft
  <2>2. PICK k \in Int, n \in Int : k = -Left(alloc[o][b]) /\ n = 0
    BY <2>1
  <2>3. /\ BalanceBooks(b) /\ alloc[o][b].picked \in Int /\ resv[b] \in Int
        /\ qty[b] \in Int
    BY DEF BalancesSound, TypeOK, Rows
  <2>4. /\ Left(alloc'[o][b]) = Left(alloc[o][b]) + k
        /\ alloc'[o][b].picked = alloc[o][b].picked + n
        /\ resv'[b] = resv[b] + k /\ qty'[b] = qty[b] - n
    BY <2>1, <2>2, <2>3
  <2>. QED  BY <2>1, <2>3, <2>4, OneBalance
<1>3. ASSUME NEW o \in Orders, ReserveStock(o)
      PROVE  BalancesSound'
  <2>1. ASSUME ord[o] \in {"absent", "received", "awaiting_stock"},
               NEW candidates \in SUBSET Balances,
               NEW take \in Plans(o, candidates), Hold(o, take)
        PROVE  BalancesSound'
    <3>. SUFFICES ASSUME NEW b \in Balances  PROVE BalanceBooks(b)'
      BY DEF BalancesSound
    <3>1. /\ \A c \in Orders : c # o => alloc'[c] = alloc[c]
          /\ Left(alloc[o][b]) = 0 /\ alloc[o][b].picked = 0
          /\ Left(alloc'[o][b]) = take[b] /\ alloc'[o][b].picked = 0
          /\ resv'[b] = resv[b] + take[b] /\ take[b] \in Nat
          /\ UNCHANGED qty
      BY <2>1, HeldLeft
    <3>2. PICK k \in Int, n \in Int : k = take[b] /\ n = 0
      BY <3>1
    <3>3. /\ BalanceBooks(b) /\ qty[b] \in Int
      BY DEF BalancesSound, TypeOK
    <3>4. /\ Left(alloc'[o][b]) = Left(alloc[o][b]) + k
          /\ alloc'[o][b].picked = alloc[o][b].picked + n
          /\ resv'[b] = resv[b] + k /\ qty'[b] = qty[b] - n
      BY <3>1, <3>2, <3>3
    <3>. QED  BY <3>1, <3>3, <3>4, OneBalance
  <2>. QED  BY <1>0, <1>3, <2>1, ReserveIsHold DEF stockVars
<1>4. CASE StockSteps
  BY <1>0, <1>2, <1>3, <1>4
  DEF StockSteps, RetryReservation, ReturnUpperTier, ImportOrder,
      RetryException, CountSteps, CheckDrained, StartCounting, stockVars
<1>5. CASE WaveSteps
  <2>1. ASSUME NEW p \in Pickers, NEW k \in Carts, NEW w \in Waves,
               ClaimWave(p, k, w)
        PROVE  BalancesSound'
    <3>1. UNCHANGED <<qty, resv>>
      BY <2>1 DEF ClaimWave, stockVars
    <3>2. ASSUME NEW c \in Orders, NEW x \in Balances
          PROVE  /\ Left(alloc'[c][x]) = Left(alloc[c][x])
                 /\ alloc'[c][x].picked = alloc[c][x].picked
      <4>1. alloc'[c][x] = alloc[c][x]
            \/ (alloc[c][x].st = "reserved"
                  /\ alloc'[c][x] = [alloc[c][x] EXCEPT !.st = "picking"])
        BY <2>1, ClaimedRows
      <4>2. alloc[c][x] \in Rows
        BY DEF TypeOK
      <4>. QED  BY <4>1, <4>2 DEF Rows, Left, Open, IsActive
    <3>. QED  BY <3>1, <3>2, SameBalance DEF BalancesSound
  <2>. QED  BY <1>0, <1>5, <2>1, WaveStepsLeaveStock, WaveStepsLeaveRows
       DEF stockVars
<1>6. CASE PickSteps
  <2>1. ASSUME NEW p \in Pickers, NEW o \in Orders, NEW b \in Balances,
               PickUnit(p, o, b)
        PROVE  BalancesSound'
    <3>1. /\ \A c \in Orders : c # o => alloc'[c] = alloc[c]
          /\ \A x \in Balances : x # b => alloc'[o][x] = alloc[o][x]
          /\ Left(alloc[o][b]) \in Nat
          /\ Left(alloc'[o][b]) = Left(alloc[o][b]) - 1
          /\ alloc'[o][b].picked = alloc[o][b].picked + 1
          /\ resv' = [resv EXCEPT ![b] = resv[b] - 1]
          /\ qty' = [qty EXCEPT ![b] = qty[b] - 1]
      BY <2>1, PickedLeft
    <3>. SUFFICES ASSUME NEW x \in Balances  PROVE BalanceBooks(x)'
      BY DEF BalancesSound
    <3>2. BalanceBooks(x)
      BY DEF BalancesSound
    <3>3. CASE x = b
      <4>1. /\ Left(alloc'[o][b]) = Left(alloc[o][b]) + (0 - 1)
            /\ resv'[b] = resv[b] + (0 - 1) /\ qty'[b] = qty[b] - 1
        BY <3>1 DEF TypeOK
      <4>2. PICK k \in Int, n \in Int : k = 0 - 1 /\ n = 1
        OBVIOUS
      <4>3. /\ Left(alloc'[o][b]) = Left(alloc[o][b]) + k
            /\ alloc'[o][b].picked = alloc[o][b].picked + n
            /\ resv'[b] = resv[b] + k /\ qty'[b] = qty[b] - n
            /\ \A c \in Orders : c # o => alloc'[c] = alloc[c]
        BY <3>1, <4>1, <4>2
      <4>. QED  BY <3>2, <3>3, <4>3, OneBalance
    <3>4. CASE x # b
      <4>1. \A c \in Orders : alloc'[c][x] = alloc[c][x]
        BY <3>1, <3>4
      <4>2. resv'[x] = resv[x] /\ qty'[x] = qty[x]
        BY <3>1, <3>4 DEF TypeOK
      <4>. QED  BY <3>2, <4>1, <4>2, SameBalance
    <3>. QED  BY <3>3, <3>4
  <2>2. ASSUME NEW p \in Pickers, NEW o \in Orders, NEW b \in Balances,
               ReportNotFound(p, o, b)
        PROVE  BalancesSound'
    <3>1. CASE \E to, gone, have : ReleaseReservation(o, to, gone, have)
      BY <1>2, <3>1
    <3>2. CASE /\ Progress(o, [alloc[o] EXCEPT ![b] = LostUnits(alloc[o][b],
                                                          Open(alloc[o][b]))],
                           0, Open(alloc[o][b]))
               /\ Open(alloc[o][b]) > 0
               /\ resv' = [resv EXCEPT ![b] = @ - Open(alloc[o][b])]
               /\ UNCHANGED qty
      <4>1. /\ \A c \in Orders : c # o => alloc'[c] = alloc[c]
            /\ \A x \in Balances : x # b => alloc'[o][x] = alloc[o][x]
            /\ Left(alloc[o][b]) = Open(alloc[o][b]) /\ Open(alloc[o][b]) \in Nat
            /\ Left(alloc'[o][b]) = 0
            /\ alloc'[o][b].picked = alloc[o][b].picked
        BY <2>2, <3>2, NotFoundLeft
      <4>. SUFFICES ASSUME NEW x \in Balances  PROVE BalanceBooks(x)'
        BY DEF BalancesSound
      <4>2. BalanceBooks(x)
        BY DEF BalancesSound
      <4>3. CASE x = b
        <5>1. PICK k \in Int, n \in Int : k = 0 - Open(alloc[o][b]) /\ n = 0
          BY <4>1
        <5>3. /\ alloc[o][b].picked \in Nat /\ resv[b] \in Nat /\ qty[b] \in Nat
              /\ resv'[b] = resv[b] - Open(alloc[o][b])
          BY <3>2 DEF TypeOK, Rows
        <5>2. /\ Left(alloc'[o][b]) = Left(alloc[o][b]) + k
              /\ resv'[b] = resv[b] + k /\ qty'[b] = qty[b] - n
              /\ alloc'[o][b].picked = alloc[o][b].picked + n
          BY <3>2, <4>1, <5>1, <5>3
        <5>. QED  BY <4>1, <4>2, <4>3, <5>2, OneBalance
      <4>4. CASE x # b
        <5>1. \A c \in Orders : alloc'[c][x] = alloc[c][x]
          BY <4>1, <4>4
        <5>2. resv'[x] = resv[x] /\ qty'[x] = qty[x]
          BY <3>2, <4>4 DEF TypeOK
        <5>. QED  BY <4>2, <5>1, <5>2, SameBalance
      <4>. QED  BY <4>3, <4>4
    <3>. QED  BY <2>2, <3>1, <3>2 DEF ReportNotFound
  <2>3. ASSUME NEW p \in Pickers, NEW o \in Orders, NEW b \in Balances,
               NEW m \in 1 .. resv[b], ReportMissing(p, o, b, m)
        PROVE  BalancesSound'
    <3>1. m \in Nat
      BY DEF TypeOK
    <3>. QED  BY <2>3, <3>1, MissingBalance
  <2>. QED  BY <1>0, <1>6, <2>1, <2>2, <2>3
       DEF PickSteps, ReportOther, HandOver, stockVars
<1>7. CASE VerifySteps
  <2>1. ASSUME NEW k \in Controllers, NEW o \in Orders, NEW b \in Balances,
               VerifyUnit(k, o, b)
        PROVE  BalancesSound'
    <3>1. UNCHANGED <<qty, resv>>
      BY <2>1 DEF VerifyUnit, stockVars
    <3>2. PICK next : next = [alloc[o][b] EXCEPT !.ver = @ + 1]
      OBVIOUS
    <3>3. /\ \A c \in Orders : c # o => alloc'[c] = alloc[c]
          /\ alloc'[o] = [alloc[o] EXCEPT ![b] = next]
      BY <2>1, <3>2, VerifiedRow
    <3>4. alloc[o] \in [Balances -> Rows] /\ alloc[o][b] \in Rows
      BY DEF TypeOK
    <3>5. /\ next.st = alloc[o][b].st /\ next.res = alloc[o][b].res
          /\ next.picked = alloc[o][b].picked
      BY <3>2, <3>4 DEF Rows
    <3>6. Left(next) = Left(alloc[o][b])
      BY <3>5 DEF Left, Open, IsActive
    <3>7. \A c \in Orders, x \in Balances :
            alloc'[c][x] = alloc[c][x] \/ (c = o /\ x = b /\ alloc'[c][x] = next)
      BY <3>3, <3>4
    <3>8. \A c \in Orders, x \in Balances :
            /\ Left(alloc'[c][x]) = Left(alloc[c][x])
            /\ alloc'[c][x].picked = alloc[c][x].picked
      BY <3>5, <3>6, <3>7
    <3>. QED  BY <3>1, <3>8, SameBalance DEF BalancesSound
  <2>2. ASSUME NEW k \in Controllers, NEW o \in Orders, ReportProblem(k, o)
        PROVE  BalancesSound'
    <3>1. UNCHANGED <<qty, resv>>
      BY <2>2 DEF ReportProblem, stockVars
    <3>2. ASSUME NEW c \in Orders, NEW x \in Balances
          PROVE  /\ Left(alloc'[c][x]) = Left(alloc[c][x])
                 /\ alloc'[c][x].picked = alloc[c][x].picked
      <4>1. alloc'[c][x] = alloc[c][x]
            \/ (alloc[c][x].st = "picked"
                  /\ alloc'[c][x] = [alloc[c][x] EXCEPT !.st = "canceled"])
        BY <2>2 DEF ReportProblem, TypeOK
      <4>2. alloc[c][x] \in Rows
        BY DEF TypeOK
      <4>. QED  BY <4>1, <4>2 DEF Rows, Left, Open, IsActive
    <3>. QED  BY <3>1, <3>2, SameBalance DEF BalancesSound
  <2>. QED  BY <1>0, <1>7, <2>1, <2>2
       DEF VerifySteps, ClaimVerification, PrefetchLabel, RegisterLabel,
           ConfirmLabel, stockVars
<1>. QED  BY <1>1, <1>4, <1>5, <1>6, <1>7 DEF Next, PickingNext

-----------------------------------------------------------------------------
(***************************************************************************)
(* Orders the marketplace blocked.                                         *)
(***************************************************************************)

Blocked == {"hold", "cancelled"}

\* No order the marketplace blocks gets more of any balance: only
\* reserve_order_stock gives to an order, and it is asked for open ones.
GivesNoMore ==
  \A o \in Orders : mkt'[o] \in Blocked =>
    \A b \in Balances : Left(alloc'[o][b]) <= Left(alloc[o][b])

LEMMA BlockedGetNoMore ==
  TypeOK /\ RowsFit /\ OrdersSound /\ [Next]_vars => GivesNoMore
<1>. SUFFICES ASSUME TypeOK, RowsFit, OrdersSound, [Next]_vars  PROVE GivesNoMore
  OBVIOUS
<1>0. \A o \in Orders, b \in Balances : Left(alloc[o][b]) \in Nat
  BY LeftTyped DEF TypeOK, RowsFit
<1>00. ASSUME UNCHANGED alloc  PROVE GivesNoMore
  BY <1>0, <1>00 DEF GivesNoMore
<1>01. ASSUME NEW o \in Orders, \A c \in Orders : c # o => alloc'[c] = alloc[c],
              \A b \in Balances : Left(alloc'[o][b]) <= Left(alloc[o][b])
       PROVE  GivesNoMore
  <2>1. SUFFICES ASSUME NEW c \in Orders, NEW b \in Balances
                 PROVE  Left(alloc'[c][b]) <= Left(alloc[c][b])
    BY DEF GivesNoMore
  <2>2. CASE c = o
    BY <1>01, <2>2
  <2>3. CASE c # o
    BY <1>0, <1>01, <2>3
  <2>. QED  BY <2>2, <2>3
<1>1. CASE UNCHANGED vars
  BY <1>00, <1>1 DEF vars
<1>2. ASSUME NEW o \in Orders, NEW to, NEW gone, NEW have,
             ReleaseReservation(o, to, gone, have)
      PROVE  GivesNoMore
  <2>1. /\ \A c \in Orders : c # o => alloc'[c] = alloc[c]
        /\ \A b \in Balances : /\ Left(alloc[o][b]) \in Nat
                               /\ Left(alloc'[o][b]) = 0
    BY <1>2, ReleasedLeft
  <2>. QED  BY <1>01, <2>1
<1>3. ASSUME NEW o \in Orders, ReserveStock(o), mkt'[o] = "open"
      PROVE  GivesNoMore
  <2>1. \A c \in Orders : c # o => alloc'[c] = alloc[c]
    BY <1>3, HeldRows, ReserveIsHold
  <2>. QED  BY <1>0, <1>3, <2>1 DEF GivesNoMore, Blocked
<1>4. CASE StockSteps
  <2>1. ASSUME NEW o \in Orders, RetryReservation(o)  PROVE GivesNoMore
    BY <1>3, <2>1 DEF RetryReservation
  <2>2. ASSUME NEW o \in Orders, NEW s \in Statuses, ImportOrder(o, s)
        PROVE  GivesNoMore
    <3>1. mkt'[o] = s
      BY <2>2 DEF ImportOrder, TypeOK
    <3>. QED  BY <1>00, <1>2, <1>3, <2>2, <3>1 DEF ImportOrder
  <2>. QED  BY <1>00, <1>2, <1>4, <2>1, <2>2
       DEF StockSteps, ReturnUpperTier, RetryException, CountSteps,
           CheckDrained, StartCounting
<1>5. CASE WaveSteps
  <2>1. ASSUME NEW p \in Pickers, NEW k \in Carts, NEW w \in Waves,
               ClaimWave(p, k, w)
        PROVE  GivesNoMore
    <3>1. SUFFICES ASSUME NEW c \in Orders, NEW x \in Balances
                   PROVE  Left(alloc'[c][x]) = Left(alloc[c][x])
      BY <1>0 DEF GivesNoMore
    <3>2. alloc'[c][x] = alloc[c][x]
          \/ (alloc[c][x].st = "reserved"
                /\ alloc'[c][x] = [alloc[c][x] EXCEPT !.st = "picking"])
      BY <2>1, ClaimedRows
    <3>3. alloc[c][x] \in Rows
      BY DEF TypeOK
    <3>. QED  BY <3>2, <3>3 DEF Rows, Left, Open, IsActive
  <2>. QED  BY <1>00, <1>5, <2>1, WaveStepsLeaveRows
<1>6. CASE PickSteps
  <2>1. ASSUME NEW p \in Pickers, NEW o \in Orders, NEW b \in Balances,
               PickUnit(p, o, b)
        PROVE  GivesNoMore
    <3>1. /\ \A c \in Orders : c # o => alloc'[c] = alloc[c]
          /\ \A x \in Balances : x # b => alloc'[o][x] = alloc[o][x]
          /\ Left(alloc'[o][b]) = Left(alloc[o][b]) - 1
      BY <2>1, PickedLeft
    <3>2. \A x \in Balances : Left(alloc'[o][x]) <= Left(alloc[o][x])
      BY <1>0, <3>1
    <3>. QED  BY <1>01, <3>1, <3>2
  <2>2. ASSUME NEW p \in Pickers, NEW o \in Orders, NEW b \in Balances,
               ReportNotFound(p, o, b)
        PROVE  GivesNoMore
    <3>1. CASE \E to, gone, have : ReleaseReservation(o, to, gone, have)
      BY <1>2, <3>1
    <3>2. CASE /\ Progress(o, [alloc[o] EXCEPT ![b] = LostUnits(alloc[o][b],
                                                          Open(alloc[o][b]))],
                           0, Open(alloc[o][b]))
               /\ Open(alloc[o][b]) > 0
      <4>1. /\ \A c \in Orders : c # o => alloc'[c] = alloc[c]
            /\ \A x \in Balances : x # b => alloc'[o][x] = alloc[o][x]
            /\ Left(alloc'[o][b]) = 0
        BY <2>2, <3>2, NotFoundLeft
      <4>2. \A x \in Balances : Left(alloc'[o][x]) <= Left(alloc[o][x])
        BY <1>0, <4>1
      <4>. QED  BY <1>01, <4>1, <4>2
    <3>. QED  BY <2>2, <3>1, <3>2 DEF ReportNotFound
  <2>3. ASSUME NEW p \in Pickers, NEW o \in Orders, NEW b \in Balances,
               NEW m \in 1 .. resv[b], ReportMissing(p, o, b, m)
        PROVE  GivesNoMore
    <3>0. m \in Nat
      BY DEF TypeOK
    <3>1. \E group \in SUBSET Orders : \E miss \in [group -> Nat] :
           /\ SumFunction(miss) = m
           /\ \A c \in group : /\ Left(alloc[c][b]) \in Nat
                               /\ miss[c] <= Left(alloc[c][b])
                               /\ Left(alloc'[c][b]) = Left(alloc[c][b]) - miss[c]
           /\ \A c \in Orders \ group : alloc'[c] = alloc[c]
           /\ \A c \in Orders, x \in Balances :
                /\ alloc'[c][x].picked = alloc[c][x].picked
                /\ x # b => Left(alloc'[c][x]) = Left(alloc[c][x])
      BY <2>3, <3>0, MissingLeft
    <3>9. PICK group \in SUBSET Orders : \E miss \in [group -> Nat] :
           /\ \A c \in group :
                Left(alloc'[c][b]) = Left(alloc[c][b]) - miss[c]
           /\ \A c \in Orders \ group : alloc'[c] = alloc[c]
           /\ \A c \in Orders, x \in Balances :
                x # b => Left(alloc'[c][x]) = Left(alloc[c][x])
      BY ONLY <3>1
    <3>10. PICK miss \in [group -> Nat] :
            /\ \A c \in group :
                 Left(alloc'[c][b]) = Left(alloc[c][b]) - miss[c]
            /\ \A c \in Orders \ group : alloc'[c] = alloc[c]
            /\ \A c \in Orders, x \in Balances :
                 x # b => Left(alloc'[c][x]) = Left(alloc[c][x])
      BY ONLY <3>9
    <3>2. SUFFICES ASSUME NEW c \in Orders, NEW x \in Balances
                   PROVE  Left(alloc'[c][x]) <= Left(alloc[c][x])
      BY DEF GivesNoMore
    <3>3. CASE c \in group /\ x = b
      BY <1>0, <3>10, <3>3
    <3>4. CASE ~(c \in group /\ x = b)
      BY <1>0, <3>10, <3>4
    <3>. QED  BY <3>3, <3>4
  <2>. QED  BY <1>00, <1>6, <2>1, <2>2, <2>3 DEF PickSteps, ReportOther, HandOver
<1>7. CASE VerifySteps
  <2>1. ASSUME NEW k \in Controllers, NEW o \in Orders, NEW b \in Balances,
               VerifyUnit(k, o, b)
        PROVE  GivesNoMore
    <3>1. PICK next : next = [alloc[o][b] EXCEPT !.ver = @ + 1]
      OBVIOUS
    <3>2. /\ \A c \in Orders : c # o => alloc'[c] = alloc[c]
          /\ alloc'[o] = [alloc[o] EXCEPT ![b] = next]
      BY <2>1, <3>1, VerifiedRow
    <3>3. alloc[o] \in [Balances -> Rows] /\ alloc[o][b] \in Rows
      BY DEF TypeOK
    <3>4. Left(next) = Left(alloc[o][b])
      BY <3>1, <3>3 DEF Left, Open, IsActive, Rows
    <3>5. \A x \in Balances : Left(alloc'[o][x]) <= Left(alloc[o][x])
      BY <1>0, <3>2, <3>3, <3>4
    <3>. QED  BY <1>01, <3>2, <3>5
  <2>2. ASSUME NEW k \in Controllers, NEW o \in Orders, ReportProblem(k, o)
        PROVE  GivesNoMore
    <3>1. SUFFICES ASSUME NEW c \in Orders, NEW x \in Balances
                   PROVE  Left(alloc'[c][x]) = Left(alloc[c][x])
      BY <1>0 DEF GivesNoMore
    <3>2. alloc'[c][x] = alloc[c][x]
          \/ (alloc[c][x].st = "picked"
                /\ alloc'[c][x] = [alloc[c][x] EXCEPT !.st = "canceled"])
      BY <2>2, SetAsideRows
    <3>3. alloc[c][x] \in Rows
      BY DEF TypeOK
    <3>. QED  BY <3>2, <3>3 DEF Rows, Left, Open, IsActive
  <2>. QED  BY <1>00, <1>7, <2>1, <2>2
       DEF VerifySteps, ClaimVerification, PrefetchLabel, RegisterLabel,
           ConfirmLabel
<1>. QED  BY <1>1, <1>4, <1>5, <1>6, <1>7 DEF Next, PickingNext

\* Only an import tells what the marketplace says.
LEMMA OnlyImportsTell ==
  [Next]_vars => \/ UNCHANGED mkt
                 \/ \E o \in Orders, s \in Statuses : ImportOrder(o, s)
<1>1. WaveSteps \/ VerifySteps => UNCHANGED mkt
  BY WaveStepsLeaveStock, VerifyStepsLeaveStock
<1>2. StockSteps => \/ UNCHANGED mkt
                    \/ \E o \in Orders, s \in Statuses : ImportOrder(o, s)
  BY DEF StockSteps, RetryReservation, ReturnUpperTier, RetryException,
         CountSteps, CheckDrained, StartCounting
<1>3. PickSteps => UNCHANGED mkt
  <2>. SUFFICES ASSUME PickSteps  PROVE UNCHANGED mkt
    OBVIOUS
  <2>1. ASSUME NEW p \in Pickers, NEW o \in Orders, NEW b \in Balances,
               PickUnit(p, o, b) \/ ReportNotFound(p, o, b)
        PROVE  UNCHANGED mkt
    <3>1. CASE PickUnit(p, o, b)
      BY <3>1 DEF PickUnit, Progress
    <3>2. CASE ReportNotFound(p, o, b)
      BY <3>2 DEF ReportNotFound
    <3>. QED  BY <2>1, <3>1, <3>2
  <2>2. ASSUME NEW p \in Pickers, NEW o \in Orders, NEW b \in Balances,
               NEW m \in 1 .. resv[b], ReportMissing(p, o, b, m)
        PROVE  UNCHANGED mkt
    BY <2>2 DEF ReportMissing
  <2>3. ASSUME NEW p \in Pickers, NEW o \in Orders, ReportOther(p, o)
        PROVE  UNCHANGED mkt
    BY <2>3 DEF ReportOther
  <2>4. ASSUME NEW p \in Pickers, NEW w \in Waves, HandOver(p, w)
        PROVE  UNCHANGED mkt
    BY <2>4 DEF HandOver
  <2>. QED  BY <2>1, <2>2, <2>3, <2>4 DEF PickSteps
<1>4. UNCHANGED vars => UNCHANGED mkt
  BY DEF vars
<1>. QED  BY <1>1, <1>2, <1>3, <1>4 DEF Next, PickingNext

\* The report that blocks an order finds it with nothing on the shelf, with
\* goods in a tote, as an exception, or takes away what it holds.
LEMMA BlockedLetsGo ==
  ASSUME TypeOK, RowsFit, OrdersSound, NEW o \in Orders, NEW s \in Blocked,
         ImportOrder(o, s)
  PROVE  \/ ActiveAt(alloc'[o]) = {}
         \/ ord[o] = "exception"
         \/ \E b \in Balances : alloc[o][b].picked > 0
<1>1. Stage(o) /\ \A b \in Balances : alloc[o][b] \in Rows
  BY DEF OrdersSound, TypeOK
<1>2. CASE \E to, gone, have : ReleaseReservation(o, to, gone, have)
  <2>1. \A b \in Balances :
          /\ IsActive(alloc[o][b]) => alloc'[o][b] = NoRow
          /\ ~IsActive(alloc[o][b]) => alloc'[o][b] = alloc[o][b]
    BY <1>2, ReleasedRows
  <2>2. \A b \in Balances : ~IsActive(alloc'[o][b])
    BY <2>1 DEF IsActive, NoRow
  <2>. QED  BY <2>2 DEF ActiveAt
<1>3. CASE /\ ord[o] \in {"absent", "received", "awaiting_stock"}
           /\ UNCHANGED alloc
  BY <1>1, <1>3 DEF Stage, Only, ActiveAt, IsActive
<1>4. CASE ~CanRelease(o) /\ UNCHANGED alloc
  <2>1. CASE ord[o] = "picking"
    <3>1. PICK b \in Balances : alloc[o][b].picked # 0
      BY <1>4, <2>1 DEF CanRelease
    <3>2. alloc[o][b].picked > 0
      BY <1>1, <3>1 DEF Rows
    <3>. QED  BY <3>2
  <2>2. CASE ord[o] \in {"absent", "received", "awaiting_stock", "cancelled",
                         "picked", "ready_for_handover"}
    BY <1>1, <1>4, <2>2 DEF Stage, Only, InTote, ActiveAt, IsActive
  <2>3. ord[o] \notin {"reserved", "queued_for_pick"}
    BY <1>4 DEF CanRelease
  <2>. QED  BY <2>1, <2>2, <2>3 DEF TypeOK, OrderStatuses
<1>5. s # "open" /\ s # "confirm"
  BY DEF Blocked
<1>. QED  BY <1>2, <1>3, <1>4, <1>5 DEF ImportOrder

-----------------------------------------------------------------------------
(***************************************************************************)
(* Stock: every step is one of FbsStockLedger, or none.                    *)
(***************************************************************************)

\* The state of the ledger.
Kept == [o \in Orders |-> [b \in Balances |->
           IF IsActive(alloc[o][b]) THEN Open(alloc[o][b]) ELSE 0]]
Got == [o \in Orders |-> [b \in Balances |-> alloc[o][b].picked]]
Shut == [b \in Balances |-> qty[b] - avail[b] - resv[b]]

LEMMA KeptIs ==
  /\ DOMAIN Kept = Orders /\ DOMAIN Got = Orders /\ DOMAIN Shut = Balances
  /\ \A o \in Orders : /\ DOMAIN Kept[o] = Balances /\ DOMAIN Got[o] = Balances
                       /\ Kept[o] = [b \in Balances |-> Left(alloc[o][b])]
                       /\ Got[o] = [b \in Balances |-> alloc[o][b].picked]
                       /\ \A b \in Balances : /\ Kept[o][b] = Left(alloc[o][b])
                                              /\ Got[o][b] = alloc[o][b].picked
  /\ \A b \in Balances : Shut[b] = qty[b] - avail[b] - resv[b]
BY DEF Kept, Got, Shut, Left

LEMMA KeptIsNext ==
  /\ DOMAIN Kept' = Orders /\ DOMAIN Got' = Orders /\ DOMAIN Shut' = Balances
  /\ \A o \in Orders : /\ DOMAIN Kept'[o] = Balances /\ DOMAIN Got'[o] = Balances
                       /\ Kept'[o] = [b \in Balances |-> Left(alloc'[o][b])]
                       /\ Got'[o] = [b \in Balances |-> alloc'[o][b].picked]
                       /\ \A b \in Balances : /\ Kept'[o][b] = Left(alloc'[o][b])
                                              /\ Got'[o][b] = alloc'[o][b].picked
  /\ \A b \in Balances : Shut'[b] = qty'[b] - avail'[b] - resv'[b]
BY DEF Kept, Got, Shut, Left

\* The sums of the ledger are those of the model.
LEMMA LedgerSums ==
  /\ \A f, S : Ledger!SumFunctionOnSet(f, S) = SumFunctionOnSet(f, S)
  /\ \A f : Ledger!SumFunction(f) = SumFunction(f)
<1>1. \A f, S : Ledger!SumFunctionOnSet(f, S) = SumFunctionOnSet(f, S)
  BY DEF Ledger!SumFunctionOnSet, Ledger!FoldFunctionOnSet, Ledger!MapThenFoldSet,
         SumFunctionOnSet, FoldFunctionOnSet, MapThenFoldSet
<1>. QED  BY <1>1 DEF Ledger!SumFunction, SumFunction

\* Quantities that stay as they are.
LEMMA LedgerStays ==
  ASSUME TypeOK, TypeOK',
         \A o \in Orders, b \in Balances :
           /\ Left(alloc'[o][b]) = Left(alloc[o][b])
           /\ alloc'[o][b].picked = alloc[o][b].picked,
         UNCHANGED <<qty, avail, resv>>
  PROVE  UNCHANGED Ledger!ledger
<1>1. UNCHANGED <<Kept, Got, Shut>>
  BY DEF Kept, Got, Shut, Left
<1>. QED  BY <1>1 DEF Ledger!ledger, Kept, Got, Shut

LEMMA LedgerKeeps ==
  ASSUME TypeOK, TypeOK', NEW o \in Orders, NEW candidates,
         NEW take \in Plans(o, candidates),
         \A c \in Orders : c # o => alloc'[c] = alloc[c],
         \A b \in Balances :
           /\ Left(alloc[o][b]) = 0 /\ alloc[o][b].picked = 0
           /\ Left(alloc'[o][b]) = take[b] /\ alloc'[o][b].picked = 0
           /\ take[b] \in Nat
           /\ resv'[b] = resv[b] + take[b] /\ avail'[b] = avail[b] - take[b],
         UNCHANGED qty
  PROVE  Ledger!Next
<1>1. take = [b \in Balances |-> take[b]] /\ SumFunction(take) = Need[o]
  BY DEF Plans
<1>2. PICK k0, k1 : k0 = Kept /\ k1 = Kept'
  OBVIOUS
<1>3. /\ k0[o] = [b \in Balances |-> 0]
      /\ Got[o] = [b \in Balances |-> 0]
  <2>1. Kept[o] = [b \in Balances |-> Left(alloc[o][b])]
        /\ Got[o] = [b \in Balances |-> alloc[o][b].picked]
    BY KeptIs
  <2>. QED  BY <1>2, <2>1
<1>4. k1[o] = take
  <2>1. Kept'[o] = [b \in Balances |-> Left(alloc'[o][b])]
    BY KeptIsNext
  <2>2. Kept'[o] = [b \in Balances |-> take[b]]
    BY <2>1
  <2>. QED  BY <1>1, <1>2, <2>2
<1>5. k1 = [k0 EXCEPT ![o] = k1[o]]
  <2>1. \A c \in Orders : c # o => k1[c] = k0[c]
    <3>. SUFFICES ASSUME NEW c \in Orders, c # o  PROVE k1[c] = k0[c]
      OBVIOUS
    <3>1. Kept'[c] = [b \in Balances |-> Left(alloc'[c][b])]
          /\ Kept[c] = [b \in Balances |-> Left(alloc[c][b])]
      BY KeptIs, KeptIsNext
    <3>2. alloc'[c] = alloc[c]
      OBVIOUS
    <3>. QED  BY <1>2, <3>1, <3>2
  <2>2. /\ k0 = [c \in Orders |-> k0[c]] /\ k1 = [c \in Orders |-> k1[c]]
        /\ DOMAIN k0 = Orders
    BY <1>2 DEF Kept
  <2>. QED  BY <2>1, <2>2
<1>6. Got' = Got
  BY DEF Got
<1>7. \A b \in Balances : /\ avail[b] \in Int /\ resv[b] \in Int /\ qty[b] \in Int
                          /\ avail'[b] = avail[b] - take[b] /\ take[b] \in Int
  BY DEF TypeOK
<1>8. Shut' = Shut
  BY <1>7 DEF Shut
<1>9. avail' = [b \in Balances |-> avail[b] - k1[o][b]]
  <2>1. avail' = [b \in Balances |-> avail'[b]]
    BY DEF TypeOK
  <2>. QED  BY <1>4, <2>1
<1>10. Ledger!SumFunction(k1[o]) = Need[o]
  BY <1>1, <1>4, LedgerSums
<1>11. Ledger!Keep(o)
  BY <1>2, <1>3, <1>5, <1>6, <1>8, <1>9, <1>10
  DEF Ledger!Keep, Ledger!Nothing, Kept, Got, Shut
<1>. QED  BY <1>11 DEF Ledger!Next

LEMMA LedgerGivesBack ==
  ASSUME TypeOK, TypeOK', NEW o \in Orders,
         \A c \in Orders : c # o => alloc'[c] = alloc[c],
         \A b \in Balances :
           /\ alloc[o][b].picked = 0 /\ alloc'[o][b].picked = 0
           /\ Left(alloc[o][b]) \in Nat /\ Left(alloc'[o][b]) = 0
           /\ resv'[b] = resv[b] - Left(alloc[o][b])
           /\ avail'[b] = avail[b] + Left(alloc[o][b]),
         UNCHANGED qty
  PROVE  Ledger!Next
<1>1. PICK k0, k1 : k0 = Kept /\ k1 = Kept'
  OBVIOUS
<1>2. /\ k1[o] = [b \in Balances |-> 0]
      /\ Got[o] = [b \in Balances |-> 0]
      /\ \A b \in Balances : k0[o][b] = Left(alloc[o][b])
  <2>1. Kept'[o] = [b \in Balances |-> Left(alloc'[o][b])]
        /\ Got[o] = [b \in Balances |-> alloc[o][b].picked]
        /\ \A b \in Balances : Kept[o][b] = Left(alloc[o][b])
    BY KeptIs, KeptIsNext
  <2>. QED  BY <1>1, <2>1
<1>3. k1 = [k0 EXCEPT ![o] = [b \in Balances |-> 0]]
  <2>1. \A c \in Orders : c # o => k1[c] = k0[c]
    <3>. SUFFICES ASSUME NEW c \in Orders, c # o  PROVE k1[c] = k0[c]
      OBVIOUS
    <3>1. Kept'[c] = [b \in Balances |-> Left(alloc'[c][b])]
          /\ Kept[c] = [b \in Balances |-> Left(alloc[c][b])]
      BY KeptIs, KeptIsNext
    <3>2. alloc'[c] = alloc[c]
      OBVIOUS
    <3>. QED  BY <1>1, <3>1, <3>2
  <2>2. /\ k0 = [c \in Orders |-> k0[c]] /\ k1 = [c \in Orders |-> k1[c]]
        /\ DOMAIN k0 = Orders
    BY <1>1 DEF Kept
  <2>. QED  BY <1>2, <2>1, <2>2
<1>4. Got' = Got
  <2>1. \A c \in Orders, b \in Balances : alloc'[c][b].picked = alloc[c][b].picked
    OBVIOUS
  <2>. QED  BY <2>1 DEF Got
<1>5. \A b \in Balances : /\ avail[b] \in Int /\ resv[b] \in Int /\ qty[b] \in Int
  BY DEF TypeOK
<1>6. Shut' = Shut
  <2>1. \A b \in Balances : qty'[b] - avail'[b] - resv'[b] = qty[b] - avail[b] - resv[b]
    BY <1>5
  <2>. QED  BY <2>1 DEF Shut
<1>7. avail' = [b \in Balances |-> avail[b] + k0[o][b]]
  <2>1. avail' = [b \in Balances |-> avail'[b]]
    BY DEF TypeOK
  <2>. QED  BY <1>2, <2>1
<1>8. Ledger!GiveBack(o)
  BY <1>1, <1>2, <1>3, <1>4, <1>6, <1>7
  DEF Ledger!GiveBack, Ledger!Nothing, Kept, Got, Shut
<1>. QED  BY <1>8 DEF Ledger!Next

LEMMA LedgerTakes ==
  ASSUME TypeOK, TypeOK', RowsFit, NEW p \in Pickers, NEW o \in Orders,
         NEW b \in Balances, PickUnit(p, o, b)
  PROVE  Ledger!Next
<1>1. /\ \A c \in Orders : c # o => alloc'[c] = alloc[c]
      /\ \A x \in Balances : x # b => alloc'[o][x] = alloc[o][x]
      /\ Left(alloc[o][b]) \in Nat /\ Left(alloc[o][b]) > 0
      /\ Left(alloc'[o][b]) = Left(alloc[o][b]) - 1
      /\ alloc'[o][b].picked = alloc[o][b].picked + 1
      /\ resv' = [resv EXCEPT ![b] = resv[b] - 1]
      /\ qty' = [qty EXCEPT ![b] = qty[b] - 1]
      /\ UNCHANGED avail
  BY PickedLeft
<1>2. PICK k0, k1, g0, g1 : k0 = Kept /\ k1 = Kept' /\ g0 = Got /\ g1 = Got'
  OBVIOUS
<1>3. /\ k0 = [c \in Orders |-> k0[c]] /\ k1 = [c \in Orders |-> k1[c]]
      /\ g0 = [c \in Orders |-> g0[c]] /\ g1 = [c \in Orders |-> g1[c]]
      /\ \A c \in Orders : /\ k0[c] = [x \in Balances |-> k0[c][x]]
                           /\ k1[c] = [x \in Balances |-> k1[c][x]]
                           /\ g0[c] = [x \in Balances |-> g0[c][x]]
                           /\ g1[c] = [x \in Balances |-> g1[c][x]]
  BY <1>2 DEF Kept, Got
<1>4. \A c \in Orders, x \in Balances :
        /\ k0[c][x] = Left(alloc[c][x]) /\ k1[c][x] = Left(alloc'[c][x])
        /\ g0[c][x] = alloc[c][x].picked /\ g1[c][x] = alloc'[c][x].picked
  BY <1>2, KeptIs, KeptIsNext
<1>5. /\ k0[o][b] > 0
      /\ k1[o][b] = k0[o][b] - 1 /\ g1[o][b] = g0[o][b] + 1
      /\ \A c \in Orders, x \in Balances :
           c # o \/ x # b => k1[c][x] = k0[c][x] /\ g1[c][x] = g0[c][x]
  BY <1>1, <1>4
<1>6. k1 = [k0 EXCEPT ![o][b] = k0[o][b] - 1]
  <2>1. k1[o] = [k0[o] EXCEPT ![b] = k0[o][b] - 1]
    BY <1>3, <1>5
  <2>2. \A c \in Orders : c # o => k1[c] = k0[c]
    BY <1>3, <1>5
  <2>3. k1 = [k0 EXCEPT ![o] = k1[o]]
    BY <1>3, <2>2
  <2>. QED  BY <2>1, <2>3
<1>7. g1 = [g0 EXCEPT ![o][b] = g0[o][b] + 1]
  <2>1. g1[o] = [g0[o] EXCEPT ![b] = g0[o][b] + 1]
    BY <1>3, <1>5
  <2>2. \A c \in Orders : c # o => g1[c] = g0[c]
    BY <1>3, <1>5
  <2>3. g1 = [g0 EXCEPT ![o] = g1[o]]
    BY <1>3, <2>2
  <2>. QED  BY <2>1, <2>3
<1>8. Shut' = Shut
  <2>1. \A x \in Balances : qty'[x] - avail'[x] - resv'[x] = qty[x] - avail[x] - resv[x]
    BY <1>1 DEF TypeOK
  <2>. QED  BY <2>1 DEF Shut
<1>9. Ledger!Take(o, b)
  BY <1>1, <1>2, <1>5, <1>6, <1>7, <1>8 DEF Ledger!Take, Kept, Got, Shut
<1>. QED  BY <1>9 DEF Ledger!Next

\* Units of b are reported missing; `quitters` give up what they kept elsewhere.
LEMMA LedgerMisses ==
  ASSUME TypeOK, TypeOK', BalancesSound, BalancesSound', NEW b \in Balances,
         NEW quitters \in SUBSET Orders,
         \A o \in Orders, x \in Balances :
           /\ alloc'[o][x].picked = alloc[o][x].picked
           /\ Left(alloc[o][x]) \in Nat
           /\ x # b => Left(alloc'[o][x]) =
                         IF o \in quitters THEN 0 ELSE Left(alloc[o][x]),
         \A o \in Orders : Left(alloc'[o][b]) \in 0 .. Left(alloc[o][b]),
         \A o \in quitters : /\ Left(alloc'[o][b]) = 0
                             /\ \A x \in Balances : alloc[o][x].picked = 0,
         \A x \in Balances : x # b =>
           /\ avail'[x] = avail[x] + SumFunctionOnSet(LeftAt(x), quitters)
           /\ resv'[x] = resv[x] - SumFunctionOnSet(LeftAt(x), quitters),
         avail'[b] \in {0, avail[b]},
         UNCHANGED qty
  PROVE  Ledger!Next
<1>0. PICK kept, kept1, got : kept = Kept /\ kept1 = Kept' /\ got = Got
  OBVIOUS
<1>1. \A o \in Orders, x \in Balances :
        kept[o][x] = Left(alloc[o][x]) /\ kept1[o][x] = Left(alloc'[o][x])
  BY <1>0, KeptIs, KeptIsNext
<1>2. \A x \in Balances : /\ LeftAt(x) = [o \in Orders |-> kept[o][x]]
                          /\ LeftAt(x)' = [o \in Orders |-> kept1[o][x]]
  BY <1>1 DEF LeftAt
<1>3. \A o \in quitters : got[o] = [x \in Balances |-> 0] /\ kept1[o][b] = 0
  <2>. SUFFICES ASSUME NEW o \in quitters
                PROVE  got[o] = [x \in Balances |-> 0] /\ kept1[o][b] = 0
    OBVIOUS
  <2>1. o \in Orders /\ got[o] = [x \in Balances |-> alloc[o][x].picked]
    BY <1>0, KeptIs
  <2>2. \A x \in Balances : alloc[o][x].picked = 0
    OBVIOUS
  <2>3. got[o] = [x \in Balances |-> 0]
    BY <2>1, <2>2
  <2>4. kept1[o][b] = 0
    BY <1>1, <2>1
  <2>. QED  BY <2>3, <2>4
<1>4. \A o \in Orders : kept1[o][b] \in 0 .. kept[o][b]
  BY <1>1
<1>5. kept1 = [o \in Orders |-> [x \in Balances |->
                 IF x = b THEN kept1[o][b]
                 ELSE IF o \in quitters THEN 0 ELSE kept[o][x]]]
  <2>1. kept1 = [o \in Orders |-> [x \in Balances |-> kept1[o][x]]]
    BY <1>0 DEF Kept
  <2>2. \A o \in Orders, x \in Balances :
          kept1[o][x] = IF x = b THEN kept1[o][b]
                        ELSE IF o \in quitters THEN 0 ELSE kept[o][x]
    BY <1>1
  <2>. QED  BY <2>1, <2>2
<1>6. PICK spare : spare = [x \in Balances |-> SumFunctionOnSet(LeftAt(x), quitters)]
  OBVIOUS
<1>7. \A x \in Balances : x # b => avail'[x] = avail[x] + spare[x]
                                   /\ resv'[x] = resv[x] - spare[x]
                                   /\ spare[x] \in Int
  <2>1. ASSUME NEW x \in Balances  PROVE SumFunctionOnSet(LeftAt(x), quitters) \in Int
    <3>1. IsFiniteSet(quitters)
      BY ConstantsAssumption, FS_Subset
    <3>2. \A o \in quitters : LeftAt(x)[o] \in Int
      BY <1>1, <1>2
    <3>. QED  BY <3>1, <3>2, SumIsInt
  <2>. QED  BY <1>6, <2>1
<1>8. avail' = [x \in Balances |-> IF x = b THEN avail'[b]
                 ELSE avail[x] + Ledger!SumFunctionOnSet([o \in Orders |-> kept[o][x]],
                                                         quitters)]
  <2>1. avail' = [x \in Balances |-> avail'[x]]
    BY DEF TypeOK
  <2>2. \A x \in Balances :
          spare[x] = Ledger!SumFunctionOnSet([o \in Orders |-> kept[o][x]], quitters)
    BY <1>2, <1>6, LedgerSums
  <2>. QED  BY <1>7, <2>1, <2>2
<1>9. PICK sum0, sum1 : /\ sum0 = Ledger!SumFunction([o \in Orders |-> kept[o][b]])
                        /\ sum1 = Ledger!SumFunction([o \in Orders |-> kept1[o][b]])
  OBVIOUS
<1>10. resv[b] = sum0 /\ resv'[b] = sum1
  <2>1. PICK f, g : f = [o \in Orders |-> kept[o][b]] /\ g = [o \in Orders |-> kept1[o][b]]
    OBVIOUS
  <2>2. DOMAIN f = Orders /\ DOMAIN g = Orders
    BY <2>1
  <2>3. /\ SumFunction(f) = SumFunctionOnSet(f, Orders)
        /\ SumFunction(g) = SumFunctionOnSet(g, Orders)
    BY <2>2 DEF SumFunction
  <2>4. sum0 = SumFunctionOnSet(f, Orders) /\ sum1 = SumFunctionOnSet(g, Orders)
    BY <1>9, <2>1, <2>3, LedgerSums
  <2>5. /\ resv[b] = SumFunctionOnSet(LeftAt(b), Orders)
        /\ resv'[b] = SumFunctionOnSet(LeftAt(b)', Orders)
    BY DEF BalancesSound, BalanceBooks
  <2>6. f = LeftAt(b) /\ g = LeftAt(b)'
    BY <1>2, <2>1
  <2>. QED  BY <2>4, <2>5, <2>6
<1>11. \A x \in Balances : /\ qty[x] \in Int /\ avail[x] \in Int /\ resv[x] \in Int
                           /\ avail'[x] \in Int /\ resv'[x] \in Int
  BY DEF TypeOK
<1>12. Shut' = [Shut EXCEPT ![b] = Shut[b] + (avail[b] - avail'[b]) + (sum0 - sum1)]
  <2>1. PICK d : d = Shut[b] + (avail[b] - avail'[b]) + (sum0 - sum1)
    OBVIOUS
  <2>2. d = qty'[b] - avail'[b] - resv'[b]
    BY <1>10, <1>11, <2>1 DEF Shut
  <2>3. \A x \in Balances : x # b => qty'[x] - avail'[x] - resv'[x]
                                       = qty[x] - avail[x] - resv[x]
    BY <1>7, <1>11
  <2>4. Shut' = [Shut EXCEPT ![b] = d]
    BY <2>2, <2>3 DEF Shut
  <2>. QED  BY <2>1, <2>4
<1>13. Got' = Got
  BY DEF Got
<1>14. Ledger!Miss(b, quitters)
  <2>1. /\ \A o \in Orders : Kept'[o][b] \in 0 .. Kept[o][b]
        /\ \A o \in quitters : Got[o] = Ledger!Nothing[o] /\ Kept'[o][b] = 0
    BY <1>0, <1>3, <1>4 DEF Ledger!Nothing
  <2>2. Kept' = [o \in Orders |-> [x \in Balances |->
                  IF x = b THEN Kept'[o][b]
                  ELSE IF o \in quitters THEN 0 ELSE Kept[o][x]]]
    BY <1>0, <1>5
  <2>3. avail' = [x \in Balances |-> IF x = b THEN avail'[b]
                   ELSE avail[x] + Ledger!SumFunctionOnSet(
                          [o \in Orders |-> Kept[o][x]], quitters)]
    BY <1>0, <1>8
  <2>4. Shut' = [Shut EXCEPT ![b] = Shut[b] + (avail[b] - avail'[b])
                   + (Ledger!SumFunction([o \in Orders |-> Kept[o][b]])
                        - Ledger!SumFunction([o \in Orders |-> Kept'[o][b]]))]
    BY <1>0, <1>9, <1>12
  <2>. QED  BY <2>1, <2>2, <2>3, <2>4, <1>13
       DEF Ledger!Miss, Ledger!Nothing, Ledger!KeptAt, Kept, Got, Shut
<1>. QED  BY <1>14 DEF Ledger!Next

\* An order whose goods are all on the shelf gives them back.
LEMMA LedgerReleases ==
  ASSUME TypeOK, TypeOK', RowsFit, NEW o \in Orders, NEW to,
         \A b \in Balances : alloc[o][b].picked = 0,
         ReleaseReservation(o, to, NothingGone, avail)
  PROVE  Ledger!Next
<1>1. PICK gone, have : gone = NothingGone /\ have = avail
  OBVIOUS
<1>2. ReleaseReservation(o, to, gone, have)
  BY <1>1
<1>3. /\ \A c \in Orders : c # o => alloc'[c] = alloc[c]
      /\ \A b \in Balances :
           /\ Left(alloc[o][b]) \in Nat /\ Left(alloc'[o][b]) = 0
           /\ alloc'[o][b].picked = alloc[o][b].picked
           /\ resv'[b] = resv[b] - Left(alloc[o][b])
      /\ UNCHANGED qty
  BY ONLY TypeOK, RowsFit, <1>2, o \in Orders, ReleasedLeft
<1>4. ASSUME NEW b \in Balances
      PROVE  avail'[b] = avail[b] + Left(alloc[o][b])
  <2>1. avail'[b] = IF b \in ActiveAt(alloc[o])
                    THEN have[b] + Open(alloc[o][b]) - gone[b] ELSE have[b]
    BY <1>2 DEF ReleaseReservation
  <2>2. have[b] = avail[b] /\ gone[b] = 0 /\ avail[b] \in Nat
    BY <1>1 DEF NothingGone, TypeOK
  <2>3. b \in ActiveAt(alloc[o]) <=> IsActive(alloc[o][b])
    BY DEF ActiveAt
  <2>4. Left(alloc[o][b]) \in Nat
    BY <1>3
  <2>. QED  BY <2>1, <2>2, <2>3, <2>4 DEF Left
<1>. QED  BY <1>3, <1>4, LedgerGivesBack

\* Rows that wait on the shelf have picked nothing.
LEMMA NothingPickedYet ==
  ASSUME TypeOK, RowsFit, OrdersSound, NEW o \in Orders, CanRelease(o)
  PROVE  \A b \in Balances : alloc[o][b].picked = 0
<1>1. CASE ord[o] \in {"reserved", "queued_for_pick"}
  <2>1. Only(alloc[o], {"none", "reserved"})
    BY <1>1 DEF OrdersSound, Stage, OnShelf
  <2>2. \A b \in Balances : RowFits(alloc[o][b])
    BY DEF RowsFit
  <2>. QED  BY <2>1, <2>2, NothingLeft DEF Only, RowFits
<1>2. CASE ord[o] = "picking" /\ \A b \in Balances : alloc[o][b].picked = 0
  BY <1>2
<1>. QED  BY <1>1, <1>2 DEF CanRelease

LEMMA LedgerReserves ==
  ASSUME TypeOK, TypeOK', RowsFit, OrdersSound, NEW o \in Orders, ReserveStock(o)
  PROVE  [Ledger!Next]_(Ledger!ledger)
<1>1. ASSUME ord[o] \in {"absent", "received", "awaiting_stock"},
             NEW candidates \in SUBSET Balances,
             NEW take \in Plans(o, candidates), Hold(o, take)
      PROVE  Ledger!Next
  <2>1. /\ \A c \in Orders : c # o => alloc'[c] = alloc[c]
        /\ \A b \in Balances :
             /\ Left(alloc[o][b]) = 0 /\ alloc[o][b].picked = 0
             /\ Left(alloc'[o][b]) = take[b] /\ alloc'[o][b].picked = 0
             /\ resv'[b] = resv[b] + take[b] /\ take[b] \in Nat
        /\ UNCHANGED qty
    BY <1>1, HeldLeft
  <2>2. \A b \in Balances : avail'[b] = avail[b] - take[b]
    BY <1>1 DEF Hold
  <2>. QED  BY <1>1, <2>1, <2>2, LedgerKeeps
<1>2. ASSUME UNCHANGED <<stockVars, alloc>>  PROVE UNCHANGED Ledger!ledger
  BY <1>2, LedgerStays DEF stockVars
<1>. QED  BY <1>1, <1>2, ReserveIsHold

\* A picker does not find what an untouched order was to get from b.
LEMMA LedgerUntouched ==
  ASSUME TypeOK, TypeOK', RowsFit, OrdersSound, BalancesSound, BalancesSound',
         NEW o \in Orders, NEW b \in Balances, NEW to,
         task[o].st = "in_progress", IsActive(alloc[o][b]),
         \A x \in Balances : alloc[o][x].st # "picked",
         ReleaseReservation(o, to, [NothingGone EXCEPT ![b] = Open(alloc[o][b])],
                            Quarantined(b))
  PROVE  Ledger!Next
<1>1. PICK gone, have : /\ gone = [NothingGone EXCEPT ![b] = Open(alloc[o][b])]
                        /\ have = Quarantined(b)
  OBVIOUS
<1>2. ReleaseReservation(o, to, gone, have)
  BY <1>1
<1>3. /\ \A c \in Orders : c # o => alloc'[c] = alloc[c]
      /\ \A x \in Balances :
           /\ Left(alloc[o][x]) \in Nat /\ Left(alloc'[o][x]) = 0
           /\ alloc'[o][x].picked = alloc[o][x].picked
           /\ resv'[x] = resv[x] - Left(alloc[o][x])
      /\ UNCHANGED qty
  BY ONLY TypeOK, RowsFit, <1>2, o \in Orders, ReleasedLeft
<1>4. \A x \in Balances : alloc[o][x].picked = 0
  <2>1. InHand(o)
    BY OrderOfTask DEF OrdersSound, Stage
  <2>2. \A x \in Balances : RowFits(alloc[o][x])
                            /\ (IsActive(alloc[o][x]) => alloc[o][x].picked = 0)
    BY <1>2, ReleasedRows DEF RowsFit
  <2>. QED  BY <2>1, <2>2, NothingLeft DEF InHand, Only, RowFits, IsActive
<1>5. /\ have[b] = 0 /\ gone[b] = Open(alloc[o][b])
      /\ \A x \in Balances : x # b => have[x] = avail[x] /\ gone[x] = 0
  BY <1>1 DEF NothingGone, Quarantined, TypeOK
<1>6. \A x \in Balances :
        avail'[x] = IF IsActive(alloc[o][x])
                    THEN have[x] + Open(alloc[o][x]) - gone[x] ELSE have[x]
  <2>1. avail' = [x \in Balances |->
                   IF x \in ActiveAt(alloc[o])
                   THEN have[x] + Open(alloc[o][x]) - gone[x] ELSE have[x]]
    BY <1>2 DEF ReleaseReservation
  <2>2. \A x \in Balances : x \in ActiveAt(alloc[o]) <=> IsActive(alloc[o][x])
    BY DEF ActiveAt
  <2>. QED  BY ONLY <2>1, <2>2
<1>7. avail'[b] = 0
  <2>1. Open(alloc[o][b]) \in Int
    BY DEF TypeOK, Rows, Open
  <2>. QED  BY <1>5, <1>6, <2>1
<1>8. ASSUME NEW x \in Balances, x # b
      PROVE  avail'[x] = avail[x] + Left(alloc[o][x])
  <2>1. avail[x] \in Nat /\ Left(alloc[o][x]) \in Nat
    BY <1>3 DEF TypeOK
  <2>. QED  BY <1>5, <1>6, <1>8, <2>1 DEF Left
<1>9. PICK quitters \in SUBSET Orders : quitters = {o}
  OBVIOUS
<1>10. ASSUME NEW x \in Balances
       PROVE  SumFunctionOnSet(LeftAt(x), quitters) = Left(alloc[o][x])
  <2>1. PICK f : f = LeftAt(x)
    OBVIOUS
  <2>2. f[o] = Left(alloc[o][x]) /\ f[o] \in Int
    BY <1>3, <2>1 DEF LeftAt
  <2>3. IsFiniteSet(quitters) /\ o \in quitters
    BY <1>9, FS_Singleton
  <2>4. \A c \in quitters \ {o} : f[c] = 0
    BY <1>9
  <2>5. SumFunctionOnSet(f, quitters) = f[o]
    BY ONLY <2>2, <2>3, <2>4, SumOfOne
  <2>. QED  BY <2>1, <2>2, <2>5
<1>11. \A c \in Orders, x \in Balances : Left(alloc[c][x]) \in Nat
  BY LeftTyped DEF TypeOK, RowsFit
<1>12. \A c \in Orders, x \in Balances :
         /\ alloc'[c][x].picked = alloc[c][x].picked
         /\ Left(alloc[c][x]) \in Nat
         /\ x # b => Left(alloc'[c][x]) =
                       IF c \in quitters THEN 0 ELSE Left(alloc[c][x])
  BY <1>3, <1>9, <1>11
<1>13. \A c \in Orders : Left(alloc'[c][b]) \in 0 .. Left(alloc[c][b])
  BY <1>3, <1>11
<1>14. \A c \in quitters : /\ Left(alloc'[c][b]) = 0
                           /\ \A x \in Balances : alloc[c][x].picked = 0
  BY <1>3, <1>4, <1>9
<1>15. \A x \in Balances : x # b =>
         /\ avail'[x] = avail[x] + SumFunctionOnSet(LeftAt(x), quitters)
         /\ resv'[x] = resv[x] - SumFunctionOnSet(LeftAt(x), quitters)
  BY <1>3, <1>8, <1>10
<1>16. avail'[b] \in {0, avail[b]}
  BY <1>7
<1>17. UNCHANGED qty
  BY <1>3
<1>. QED  BY <1>12, <1>13, <1>14, <1>15, <1>16, <1>17, LedgerMisses

\* Units of b are missing and no order gives anything else up.
LEMMA LedgerLoses ==
  ASSUME TypeOK, TypeOK', RowsFit, BalancesSound, BalancesSound', NEW b \in Balances,
         \A o \in Orders, x \in Balances :
           /\ alloc'[o][x].picked = alloc[o][x].picked
           /\ x # b => Left(alloc'[o][x]) = Left(alloc[o][x]),
         \A o \in Orders : Left(alloc'[o][b]) \in 0 .. Left(alloc[o][b]),
         \A x \in Balances : x # b => avail'[x] = avail[x] /\ resv'[x] = resv[x],
         avail'[b] \in {0, avail[b]},
         UNCHANGED qty
  PROVE  Ledger!Next
<1>1. PICK quitters \in SUBSET Orders : quitters = {}
  OBVIOUS
<1>2. \A x \in Balances : SumFunctionOnSet(LeftAt(x), quitters) = 0
  BY <1>1, SumOfNothing
<1>3. \A o \in Orders, x \in Balances : Left(alloc[o][x]) \in Nat
  BY LeftTyped DEF TypeOK, RowsFit
<1>4. \A o \in Orders, x \in Balances :
        /\ alloc'[o][x].picked = alloc[o][x].picked
        /\ Left(alloc[o][x]) \in Nat
        /\ x # b => Left(alloc'[o][x]) =
                      IF o \in quitters THEN 0 ELSE Left(alloc[o][x])
  BY <1>1, <1>3
<1>5. \A x \in Balances : x # b =>
        /\ avail'[x] = avail[x] + SumFunctionOnSet(LeftAt(x), quitters)
        /\ resv'[x] = resv[x] - SumFunctionOnSet(LeftAt(x), quitters)
  BY <1>2 DEF TypeOK
<1>6. \A o \in quitters : /\ Left(alloc'[o][b]) = 0
                          /\ \A x \in Balances : alloc[o][x].picked = 0
  BY <1>1
<1>. QED  BY <1>4, <1>5, <1>6, LedgerMisses

\* A picker's reports.
LEMMA LedgerNotFound ==
  ASSUME TypeOK, TypeOK', RowsFit, OrdersSound, BalancesSound, BalancesSound',
         NEW p \in Pickers, NEW o \in Orders, NEW b \in Balances,
         ReportNotFound(p, o, b)
  PROVE  Ledger!Next
<1>1. task[o].st = "in_progress" /\ IsActive(alloc[o][b])
  BY DEF ReportNotFound, IsTaskActor
<1>2. CASE /\ tPicked[o] = 0
           /\ \A c \in Balances : alloc[o][c].st # "picked"
  <2>1. ReleaseReservation(o, "awaiting_stock",
          [NothingGone EXCEPT ![b] = Open(alloc[o][b])], Quarantined(b))
    BY <1>2 DEF ReportNotFound
  <2>2. PICK to : to = "awaiting_stock"
    OBVIOUS
  <2>. QED  BY <1>1, <1>2, <2>1, <2>2, LedgerUntouched
<1>3. CASE ~ /\ tPicked[o] = 0
             /\ \A c \in Balances : alloc[o][c].st # "picked"
  <2>1. /\ Open(alloc[o][b]) > 0
        /\ avail' = Quarantined(b)
        /\ resv' = [resv EXCEPT ![b] = @ - Open(alloc[o][b])]
        /\ Progress(o, [alloc[o] EXCEPT ![b] = LostUnits(alloc[o][b],
                                                         Open(alloc[o][b]))],
                    0, Open(alloc[o][b]))
        /\ UNCHANGED qty
    BY <1>3 DEF ReportNotFound
  <2>2. /\ \A c \in Orders : c # o => alloc'[c] = alloc[c]
        /\ \A x \in Balances : x # b => alloc'[o][x] = alloc[o][x]
        /\ Left(alloc[o][b]) = Open(alloc[o][b]) /\ Open(alloc[o][b]) \in Nat
        /\ Left(alloc'[o][b]) = 0
        /\ alloc'[o][b].picked = alloc[o][b].picked
    BY <2>1, NotFoundLeft
  <2>3. \A c \in Orders, x \in Balances : Left(alloc[c][x]) \in Nat
    BY LeftTyped DEF TypeOK, RowsFit
  <2>4. /\ avail'[b] = 0
        /\ \A x \in Balances : x # b => avail'[x] = avail[x] /\ resv'[x] = resv[x]
    BY <2>1 DEF Quarantined, TypeOK
  <2>5. \A c \in Orders, x \in Balances :
          /\ alloc'[c][x].picked = alloc[c][x].picked
          /\ x # b => Left(alloc'[c][x]) = Left(alloc[c][x])
    BY <2>2
  <2>6. \A c \in Orders : Left(alloc'[c][b]) \in 0 .. Left(alloc[c][b])
    BY <2>2, <2>3
  <2>7. avail'[b] \in {0, avail[b]} /\ UNCHANGED qty
    BY <2>1, <2>4
  <2>. QED  BY <2>4, <2>5, <2>6, <2>7, LedgerLoses
<1>. QED  BY <1>2, <1>3

LEMMA LedgerMissing ==
  ASSUME TypeOK, TypeOK', RowsFit, OrdersSound, BalancesSound, BalancesSound',
         NEW p \in Pickers, NEW o \in Orders, NEW b \in Balances, NEW m \in Nat,
         ReportMissing(p, o, b, m)
  PROVE  Ledger!Next
<1>0. PICK group \in SUBSET Orders : \E miss \in [group -> Nat] :
           /\ SumFunction(miss) = m
           /\ \A c \in group : /\ Left(alloc[c][b]) \in Nat
                               /\ miss[c] <= Left(alloc[c][b])
                               /\ Left(alloc'[c][b]) = Left(alloc[c][b]) - miss[c]
           /\ \A c \in Orders \ group : alloc'[c] = alloc[c]
           /\ \A c \in Orders, x \in Balances :
                /\ alloc'[c][x].picked = alloc[c][x].picked
                /\ x # b => Left(alloc'[c][x]) = Left(alloc[c][x])
  BY MissingLeft
<1>1. PICK miss \in [group -> Nat] :
           /\ SumFunction(miss) = m
           /\ \A c \in group : /\ Left(alloc[c][b]) \in Nat
                               /\ miss[c] <= Left(alloc[c][b])
                               /\ Left(alloc'[c][b]) = Left(alloc[c][b]) - miss[c]
           /\ \A c \in Orders \ group : alloc'[c] = alloc[c]
           /\ \A c \in Orders, x \in Balances :
                /\ alloc'[c][x].picked = alloc[c][x].picked
                /\ x # b => Left(alloc'[c][x]) = Left(alloc[c][x])
  BY <1>0
<1>2. ASSUME NEW c \in Orders
      PROVE  Left(alloc'[c][b]) \in 0 .. Left(alloc[c][b])
  <2>1. Left(alloc[c][b]) \in Nat
    BY LeftTyped DEF TypeOK, RowsFit
  <2>2. CASE c \in group
    <3>1. PICK k \in Nat : /\ k <= Left(alloc[c][b])
                           /\ Left(alloc'[c][b]) = Left(alloc[c][b]) - k
      BY <1>1, <2>2
    <3>. QED  BY <2>1, <3>1
  <2>3. CASE c \notin group
    BY <1>1, <2>1, <2>3
  <2>. QED  BY <2>2, <2>3
<1>3. /\ avail' = Quarantined(b) \/ avail' = avail
      /\ resv' = [resv EXCEPT ![b] = @ - m] /\ UNCHANGED qty
  BY DEF ReportMissing
<1>4. /\ avail'[b] \in {0, avail[b]}
      /\ \A x \in Balances : x # b => avail'[x] = avail[x] /\ resv'[x] = resv[x]
  BY <1>3 DEF Quarantined, TypeOK
<1>. QED  BY <1>1, <1>2, <1>3, <1>4, LedgerLoses

LEMMA LedgerStep ==
  /\ TypeOK /\ TypeOK' /\ RowsFit /\ OrdersSound
  /\ BalancesSound /\ BalancesSound' /\ [Next]_vars
  => [Ledger!Next]_(Ledger!ledger)
<1>. SUFFICES ASSUME TypeOK, TypeOK', RowsFit, OrdersSound,
                     BalancesSound, BalancesSound', [Next]_vars
              PROVE  [Ledger!Next]_(Ledger!ledger)
  OBVIOUS
<1>0. ASSUME UNCHANGED <<stockVars, alloc>>  PROVE UNCHANGED Ledger!ledger
  BY <1>0, LedgerStays DEF stockVars
<1>1. CASE UNCHANGED vars
  BY <1>0, <1>1 DEF vars
<1>2. CASE StockSteps
  <2>1. ASSUME NEW o \in Orders, ReturnUpperTier(o)
        PROVE  Ledger!Next
    <3>1. CanRelease(o) /\ ReleaseReservation(o, "awaiting_stock", NothingGone, avail)
      BY <2>1 DEF ReturnUpperTier, CanRelease
    <3>2. PICK to : to = "awaiting_stock"
      OBVIOUS
    <3>. QED  BY <3>1, <3>2, NothingPickedYet, LedgerReleases
  <2>2. ASSUME NEW o \in Orders, NEW s \in Statuses, ImportOrder(o, s)
        PROVE  [Ledger!Next]_(Ledger!ledger)
    <3>1. CASE \E to : CanRelease(o) /\ ReleaseReservation(o, to, NothingGone, avail)
      BY <3>1, NothingPickedYet, LedgerReleases
    <3>2. CASE ReserveStock(o)
      BY <3>2, LedgerReserves
    <3>. QED  BY <1>0, <2>2, <3>1, <3>2 DEF ImportOrder
  <2>3. ASSUME NEW o \in Orders, RetryReservation(o)
        PROVE  [Ledger!Next]_(Ledger!ledger)
    BY <2>3, LedgerReserves DEF RetryReservation
  <2>. QED  BY <1>0, <1>2, <2>1, <2>2, <2>3
       DEF StockSteps, RetryException, CountSteps, CheckDrained, StartCounting
<1>3. CASE WaveSteps
  <2>1. ASSUME NEW p \in Pickers, NEW k \in Carts, NEW w \in Waves,
               ClaimWave(p, k, w)
        PROVE  UNCHANGED Ledger!ledger
    <3>1. UNCHANGED <<qty, avail, resv>>
      BY <2>1 DEF ClaimWave, stockVars
    <3>2. ASSUME NEW c \in Orders, NEW x \in Balances
          PROVE  /\ Left(alloc'[c][x]) = Left(alloc[c][x])
                 /\ alloc'[c][x].picked = alloc[c][x].picked
      <4>1. alloc'[c][x] = alloc[c][x]
            \/ (alloc[c][x].st = "reserved"
                  /\ alloc'[c][x] = [alloc[c][x] EXCEPT !.st = "picking"])
        BY <2>1, ClaimedRows
      <4>2. alloc[c][x] \in Rows
        BY DEF TypeOK
      <4>. QED  BY <4>1, <4>2 DEF Rows, Left, Open, IsActive
    <3>. QED  BY <3>1, <3>2, LedgerStays
  <2>. QED  BY <1>0, <1>3, <2>1, WaveStepsLeaveStock, WaveStepsLeaveRows
<1>4. CASE PickSteps
  <2>1. ASSUME NEW p \in Pickers, NEW o \in Orders, NEW b \in Balances,
               NEW m \in 1 .. resv[b], ReportMissing(p, o, b, m)
        PROVE  Ledger!Next
    <3>1. m \in Nat
      BY DEF TypeOK
    <3>. QED  BY <2>1, <3>1, LedgerMissing
  <2>. QED  BY <1>0, <1>4, <2>1, LedgerTakes, LedgerNotFound
       DEF PickSteps, ReportOther, HandOver
<1>5. CASE VerifySteps
  <2>1. ASSUME NEW k \in Controllers, NEW o \in Orders, NEW b \in Balances,
               VerifyUnit(k, o, b)
        PROVE  UNCHANGED Ledger!ledger
    <3>1. UNCHANGED <<qty, avail, resv>>
      BY <2>1 DEF VerifyUnit, stockVars
    <3>2. PICK next : next = [alloc[o][b] EXCEPT !.ver = @ + 1]
      OBVIOUS
    <3>3. /\ \A c \in Orders : c # o => alloc'[c] = alloc[c]
          /\ alloc'[o] = [alloc[o] EXCEPT ![b] = next]
      BY <2>1, <3>2, VerifiedRow
    <3>4. alloc[o] \in [Balances -> Rows] /\ alloc[o][b] \in Rows
      BY DEF TypeOK
    <3>5. /\ next.st = alloc[o][b].st /\ next.res = alloc[o][b].res
          /\ next.picked = alloc[o][b].picked
      BY <3>2, <3>4 DEF Rows
    <3>6. Left(next) = Left(alloc[o][b])
      BY <3>5 DEF Left, Open, IsActive
    <3>7. \A c \in Orders, x \in Balances :
            alloc'[c][x] = alloc[c][x] \/ (c = o /\ x = b /\ alloc'[c][x] = next)
      BY <3>3, <3>4
    <3>8. \A c \in Orders, x \in Balances :
            /\ Left(alloc'[c][x]) = Left(alloc[c][x])
            /\ alloc'[c][x].picked = alloc[c][x].picked
      BY <3>5, <3>6, <3>7
    <3>. QED  BY <3>1, <3>8, LedgerStays
  <2>2. ASSUME NEW k \in Controllers, NEW o \in Orders, ReportProblem(k, o)
        PROVE  UNCHANGED Ledger!ledger
    <3>1. UNCHANGED <<qty, avail, resv>>
      BY <2>2 DEF ReportProblem, stockVars
    <3>2. ASSUME NEW c \in Orders, NEW x \in Balances
          PROVE  /\ Left(alloc'[c][x]) = Left(alloc[c][x])
                 /\ alloc'[c][x].picked = alloc[c][x].picked
      <4>1. alloc'[c][x] = alloc[c][x]
            \/ (alloc[c][x].st = "picked"
                  /\ alloc'[c][x] = [alloc[c][x] EXCEPT !.st = "canceled"])
        BY <2>2 DEF ReportProblem, TypeOK
      <4>2. alloc[c][x] \in Rows
        BY DEF TypeOK
      <4>. QED  BY <4>1, <4>2 DEF Rows, Left, Open, IsActive
    <3>. QED  BY <3>1, <3>2, LedgerStays
  <2>. QED  BY <1>0, <1>5, <2>1, <2>2
       DEF VerifySteps, ClaimVerification, PrefetchLabel, RegisterLabel,
           ConfirmLabel
<1>. QED  BY <1>1, <1>2, <1>3, <1>4, <1>5 DEF Next, PickingNext
\* Init has empty books.
LEMMA EmptyBooks == Init => RowsFit /\ OrdersSound /\ CountersTyped
<1>. SUFFICES ASSUME Init  PROVE RowsFit /\ OrdersSound /\ CountersTyped
  OBVIOUS
<1>1. /\ \A o \in Orders : /\ ord[o] = "absent" /\ task[o] = NoTask
                           /\ tPlanned[o] = 0 /\ tPicked[o] = 0 /\ short[o] = {}
                           /\ \A b \in Balances : alloc[o][b] = NoRow
      /\ CountersTyped
  BY DEF Init, CountersTyped
<1>2. RowsFit
  BY <1>1, NoRowFits DEF RowsFit
<1>3. OrdersSound
  BY <1>1 DEF OrdersSound, Stage, Books, Only, NoRow, NoTask
<1>. QED  BY <1>1, <1>2, <1>3

\* The books hold together through every step.
LEMMA BooksKept == Spec => [](TypeOK /\ RowsFit /\ OrdersSound /\ CountersTyped)
<1>. DEFINE Inv == TypeOK /\ RowsFit /\ OrdersSound /\ CountersTyped
<1>1. Init => RowsFit /\ OrdersSound /\ CountersTyped
  BY EmptyBooks
<1>2. TypeOK /\ TypeOK' /\ RowsFit /\ OrdersSound /\ CountersTyped /\ [Next]_vars
        => (RowsFit /\ OrdersSound /\ CountersTyped)'
  BY RowsFitStep, OrdersStep, CountersStep
<1>. QED  BY <1>1, <1>2, Typing, PTL DEF Spec

(***************************************************************************)
(* StatusesAgree: whatever waves, reports, releases, imports and labels do *)
(* to an order, the status the operators see, its task and its rows in the *)
(* warehouse never tell different stories.                                 *)
(***************************************************************************)
THEOREM StoriesAgree == Spec => []StatusesAgree
<1>1. TypeOK /\ RowsFit /\ OrdersSound => StatusesAgree
  <2>. SUFFICES ASSUME TypeOK, RowsFit, OrdersSound, NEW o \in Orders
       PROVE  /\ task[o].st = CASE ord[o] = "queued_for_pick" -> "queued"
                                [] ord[o] = "picking" -> "in_progress"
                                [] ord[o] \in {"picked", "ready_for_handover"} -> "picked"
                                [] ord[o] = "exception" -> "exception"
                                [] OTHER -> "none"
              /\ ord[o] \in {"reserved", "queued_for_pick"} =>
                   /\ \A b \in Balances : alloc[o][b].st \in {"none", "reserved"}
                   /\ SumOf(Reserved, alloc[o]) = Need[o]
              /\ task[o].st = "in_progress" <=> \E b \in Balances :
                   alloc[o][b].st = "picking" /\ task[o].st # "exception"
              /\ ord[o] \in {"absent", "received", "awaiting_stock", "cancelled"} =>
                   alloc[o] = [b \in Balances |-> NoRow]
    BY DEF StatusesAgree
  <2>1. /\ Stage(o) /\ ord[o] \in OrderStatuses
        /\ alloc[o] \in [Balances -> Rows]
        /\ \A b \in Balances : RowFits(alloc[o][b])
    BY DEF OrdersSound, TypeOK, RowsFit
  <2>2. CASE ord[o] \in {"absent", "received", "awaiting_stock", "cancelled"}
    <3>1. task[o] = NoTask /\ \A b \in Balances : alloc[o][b].st = "none"
      BY <2>1, <2>2 DEF Stage, Only
    <3>2. \A b \in Balances : alloc[o][b] = NoRow
      BY <2>1, <3>1 DEF RowFits
    <3>3. alloc[o] = [b \in Balances |-> NoRow]
      BY <2>1, <3>2
    <3>4. task[o].st = "none"
      BY <3>1 DEF NoTask
    <3>. QED  BY <2>2, <3>1, <3>3, <3>4
  <2>3. CASE ord[o] \in {"reserved", "queued_for_pick"}
    <3>1. OnShelf(o) /\ (ord[o] = "reserved" => task[o].st = "none")
          /\ (ord[o] = "queued_for_pick" => task[o].st = "queued")
      BY <2>1, <2>3 DEF Stage, NoTask
    <3>2. SumOf(Reserved, alloc[o]) = Need[o]
      BY <3>1, SumsOfRows DEF OnShelf
    <3>3. \A b \in Balances : alloc[o][b].st \in {"none", "reserved"}
      BY <3>1 DEF OnShelf, Only
    <3>. QED  BY <2>3, <3>1, <3>2, <3>3
  <2>4. CASE ord[o] = "picking"
    BY <2>1, <2>4 DEF Stage, InHand, Has
  <2>5. CASE ord[o] \in {"picked", "ready_for_handover"}
    BY <2>1, <2>5 DEF Stage, InTote, Only
  <2>6. CASE ord[o] = "exception"
    BY <2>1, <2>6 DEF Stage
  <2>. QED  BY <2>1, <2>2, <2>3, <2>4, <2>5, <2>6 DEF OrderStatuses
<1>. QED  BY <1>1, BooksKept, PTL

LEMMA WaveBooksKept == Spec => []WavesSound
<1>1. Init => WavesSound
  <2>. SUFFICES ASSUME Init, NEW w \in Waves  PROVE WaveBooks(w)
    BY DEF WavesSound
  <2>1. \A o \in Orders : tPlanned[o] = 0 /\ tPicked[o] = 0
    BY DEF Init
  <2>2. wPlanned[w] = 0 /\ wPicked[w] = 0
    BY DEF Init
  <2>3. /\ IsFiniteSet(TasksOf(task, w))
        /\ \A o \in TasksOf(task, w) : tPlanned[o] = 0 /\ tPicked[o] = 0
    BY <2>1, TasksFinite
  <2>4. PlannedOf(task, tPlanned, w) = 0
    BY <2>3, SumOfZeros DEF PlannedOf
  <2>5. PlannedOf(task, tPicked, w) = 0
    BY <2>3, SumOfZeros DEF PlannedOf
  <2>. QED  BY <2>2, <2>4, <2>5 DEF WaveBooks
<1>2. TypeOK /\ RowsFit /\ OrdersSound /\ CountersTyped /\ CountersTyped'
        /\ WavesSound /\ [Next]_vars => WavesSound'
  BY WavesStep
<1>. QED  BY <1>1, <1>2, BooksKept, PTL DEF Spec

(***************************************************************************)
(* CountersAgree: the counters a hand over is decided by are the sums of   *)
(* the rows below them, for any number of orders per wave and rows per     *)
(* order, though tasks move, shrink and leave.                             *)
(***************************************************************************)
THEOREM CountersAreSums == Spec => []CountersAgree
<1>1. OrdersSound /\ WavesSound => CountersAgree
  <2>. SUFFICES ASSUME OrdersSound, WavesSound  PROVE CountersAgree
    OBVIOUS
  <2>1. \A w \in Waves :
          /\ wPlanned[w] = SumFunctionOnSet(tPlanned, TasksOf(task, w))
          /\ wPicked[w] = SumFunctionOnSet(tPicked, TasksOf(task, w))
    BY DEF WavesSound, WaveBooks, PlannedOf
  <2>2. \A o \in Orders : task[o].st # "none" =>
          tPlanned[o] = Planned(alloc[o]) /\ tPicked[o] = Taken(alloc[o])
    BY DEF OrdersSound, Books
  <2>3. \A o \in Orders : SumOf(Reserved, alloc[o]) = Planned(alloc[o])
                       /\ SumOf(Picked, alloc[o]) = Taken(alloc[o])
    BY SumsOfRows
  <2>. HIDE DEF SumOf
  <2>. QED  BY <2>1, <2>2, <2>3 DEF CountersAgree
<1>. QED  BY <1>1, BooksKept, WaveBooksKept, PTL

LEMMA LabelsKept == Spec => []LabelsSound
<1>1. Init => LabelsSound
  BY DEF Init, LabelsSound, Labelled
<1>. QED  BY <1>1, LabelsStep, BooksKept, PTL DEF Spec

\* A label that sticks on an order says that the order is complete (labels.py
\* with _assert_order_has_no_open_shortage).
THEOREM LabelsMeanComplete == Spec => []LabelMeansComplete
<1>1. TypeOK /\ RowsFit /\ OrdersSound /\ LabelsSound => LabelMeansComplete
  <2>. SUFFICES ASSUME TypeOK, RowsFit, OrdersSound, LabelsSound,
                       NEW o \in Orders, label[o] = "applied"
                PROVE  /\ SumOf(Picked, alloc[o]) = Need[o]
                       /\ AllPicked(alloc[o]) /\ VerifiedRows(alloc[o])
                       /\ short[o] = {}
    BY DEF LabelMeansComplete
  <2>1. /\ ord[o] = "ready_for_handover" /\ VerifiedRows(alloc[o])
        /\ short[o] = {}
    BY DEF LabelsSound, Labelled
  <2>2. task[o].st = "picked" /\ InTote(o) /\ tPlanned[o] = Planned(alloc[o])
        /\ tPlanned[o] = Need[o]
    BY <2>1 DEF OrdersSound, Stage, Books
  <2>3. \A b \in Balances : alloc[o][b].st \in {"none", "picked"}
    BY <2>2 DEF InTote, Only
  <2>4. \A b \in Balances : alloc[o][b].picked = alloc[o][b].res
    BY <2>3 DEF RowsFit, RowFits, NoRow
  <2>5. Taken(alloc[o]) = Need[o]
    BY <2>2, <2>4, AllTaken
  <2>. QED  BY <2>1, <2>3, <2>5, SumsOfRows DEF AllPicked
<1>. QED  BY <1>1, BooksKept, LabelsKept, PTL

LEMMA WavesShaped == Spec => []WavesShape
<1>1. Init => WavesShape
  <2>1. Init => \A w : TasksOf(task, w) = {}
    BY DEF Init, TasksOf, NoTask
  <2>2. Init => \A w \in Waves : wave[w].st = "none" /\ ~wave[w].handed
    BY DEF Init, NoBatch
  <2>. QED  BY <2>1, <2>2 DEF WavesShape, WaveShape, Closed
<1>2. Spec => []FullWaves
  BY WavesFull, BooksKept, WaveBooksKept, PTL
<1>. QED  BY <1>1, <1>2, AsideStep, ShapesStep, BooksKept, PTL DEF Spec

\* Whatever releases, problem reports and retries do to its tasks, a wave with
\* a picker has one that somebody can finish or must decide about
\* (_refresh_pick_batch_after_release, _finalize_pick_task_progress).
THEOREM WavesNeverStall == Spec => []WaveNeverStalls
<1>1. TypeOK /\ WavesShape => WaveNeverStalls
  <2>. SUFFICES ASSUME TypeOK, WavesShape, NEW w \in Waves
                PROVE  /\ wave[w].st = "in_progress" =>
                            \E o \in TasksOf(task, w) :
                              task[o].st \in {"in_progress", "exception"}
                       /\ wave[w].st = "queued" =>
                            \E o \in TasksOf(task, w) : task[o].st = "queued"
    BY DEF WaveNeverStalls
  <2>1. \A o \in TasksOf(task, w) :
          task[o].st \in {"queued", "in_progress", "picked", "exception"}
    BY DEF TasksOf, TypeOK, Tasks, NoTask, TaskStatuses
  <2>. QED  BY <2>1 DEF WavesShape, WaveShape
<1>. QED  BY <1>1, Typing, WavesShaped, PTL


LEMMA DesksKept == Spec => [](ScansSound /\ DesksSound)
<1>1. Init => ScansSound /\ DesksSound
  <2>. SUFFICES ASSUME Init  PROVE ScansSound /\ DesksSound
    OBVIOUS
  <2>1. \A o \in Orders : /\ label[o] = "none"
                          /\ \A b \in Balances : alloc[o][b].ver = 0
    BY DEF Init, NoRow
  <2>2. \A w \in Waves : wave[w].st = "none"
    BY DEF Init, NoBatch
  <2>. QED  BY <2>1, <2>2 DEF ScansSound, DesksSound, DeskScanned, DeskDone, DeskOpen
<1>2. Spec => []FullWaves
  BY WavesFull, BooksKept, WaveBooksKept, PTL
<1>3. Spec => []ClosedTasks
  BY TasksClosed, BooksKept, LabelsKept, WavesShaped, PTL
<1>. QED  BY <1>1, <1>2, <1>3, AsideStep, DesksStep, BooksKept, LabelsKept,
             WavesShaped, PTL DEF Spec

\* Whichever way a wave is closed (the last label, the last problem report), it
\* is done only when every order left in it has its label on verified goods
\* (refresh_pick_batch_verification).
THEOREM DoneWavesAreLabelled == Spec => []DoneWaveIsLabelled
<1>1. DesksSound => DoneWaveIsLabelled
  BY DEF DesksSound, DeskDone, DoneWaveIsLabelled
<1>. QED  BY <1>1, DesksKept, PTL

\* A wave in verification waits for the label of one of its picked tasks:
\* whatever settles the last one also closes the wave.
THEOREM NoWavesAreLeftOpen == Spec => []NoWaveLeftOpen
<1>1. DesksSound => NoWaveLeftOpen
  BY DEF DesksSound, DeskOpen, NoWaveLeftOpen
<1>. QED  BY <1>1, DesksKept, PTL

LEMMA BalancesKept == Spec => []BalancesSound
<1>1. Init => BalancesSound
  <2>. SUFFICES ASSUME Init, NEW b \in Balances  PROVE BalanceBooks(b)
    BY DEF BalancesSound
  <2>1. \A o \in Orders : LeftAt(b)[o] = 0 /\ GotAt(b)[o] = 0
    BY NothingLeft DEF Init, LeftAt, GotAt
  <2>2. SumFunctionOnSet(LeftAt(b), Orders) = 0 /\ SumFunctionOnSet(GotAt(b), Orders) = 0
    BY <2>1, SumOfZeros, ConstantsAssumption
  <2>3. resv[b] = 0 /\ qty[b] = Stock[b] /\ Stock[b] \in Nat
    BY ConstantsAssumption DEF Init
  <2>. QED  BY <2>2, <2>3 DEF BalanceBooks
<1>. QED  BY <1>1, BalancesStep, BooksKept, PTL DEF Spec

\* An order the marketplace put on hold or cancelled gets no more stock from
\* any step, and the report gives up what it has on the shelf unless its picking
\* has begun or stopped at an exception (_apply_imported_order_stock_state).
THEOREM BlockedOrdersLetGo == Spec => BlockedOrderLetsGo
<1>. DEFINE Lets == \A o \in Orders : mkt'[o] \in {"hold", "cancelled"} =>
       /\ \A b \in Balances : Left(alloc'[o][b]) <= Left(alloc[o][b])
       /\ mkt'[o] # mkt[o] =>
            \/ ActiveAt(alloc'[o]) = {}
            \/ ord[o] = "exception"
            \/ \E b \in Balances : alloc[o][b].picked > 0
<1>1. ASSUME TypeOK, RowsFit, OrdersSound, [Next]_vars  PROVE Lets
  <2>. SUFFICES ASSUME NEW o \in Orders, mkt'[o] \in {"hold", "cancelled"}
                PROVE  /\ \A b \in Balances :
                            Left(alloc'[o][b]) <= Left(alloc[o][b])
                       /\ mkt'[o] # mkt[o] =>
                            \/ ActiveAt(alloc'[o]) = {}
                            \/ ord[o] = "exception"
                            \/ \E b \in Balances : alloc[o][b].picked > 0
    OBVIOUS
  <2>1. \A b \in Balances : Left(alloc'[o][b]) <= Left(alloc[o][b])
    BY <1>1, BlockedGetNoMore DEF GivesNoMore, Blocked
  <2>2. ASSUME mkt'[o] # mkt[o]
        PROVE  \/ ActiveAt(alloc'[o]) = {}
               \/ ord[o] = "exception"
               \/ \E b \in Balances : alloc[o][b].picked > 0
    <3>1. PICK c \in Orders, s \in Statuses : ImportOrder(c, s)
      BY <1>1, <2>2, OnlyImportsTell
    <3>2. mkt' = [mkt EXCEPT ![c] = s]
      BY <3>1 DEF ImportOrder
    <3>3. c = o /\ s \in Blocked
      BY <1>1, <2>2, <3>2 DEF TypeOK, Blocked
    <3>. QED  BY <1>1, <3>1, <3>3, BlockedLetsGo
  <2>. QED  BY <2>1, <2>2
<1>. QED  BY <1>1, BooksKept, PTL DEF Spec, BlockedOrderLetsGo

\* No goods appear or vanish between the books: the reservation of a balance is
\* what the live rows of all orders still have to get from it, and what it has
\* lost since the start is what they picked (reserve_order_stock,
\* release_order_reservation, _complete_pick_allocation_once, problems.py).
THEOREM LedgersAgreed == Spec => []LedgersAgree
<1>1. BalancesSound => LedgersAgree
  <2>. SUFFICES ASSUME BalancesSound, NEW b \in Balances
                PROVE  /\ resv[b] = SumFunction([o \in Orders |->
                            IF IsActive(alloc[o][b]) THEN Open(alloc[o][b]) ELSE 0])
                       /\ qty[b] + SumFunction([o \in Orders |-> alloc[o][b].picked])
                            = Stock[b]
    BY DEF LedgersAgree
  <2>1. PICK left, got :
          /\ left = [o \in Orders |->
                       IF IsActive(alloc[o][b]) THEN Open(alloc[o][b]) ELSE 0]
          /\ got = [o \in Orders |-> alloc[o][b].picked]
    OBVIOUS
  <2>2. left = LeftAt(b) /\ got = GotAt(b)
    BY <2>1 DEF LeftAt, GotAt, Left
  <2>3. DOMAIN left = Orders /\ DOMAIN got = Orders
    BY <2>1
  <2>4. /\ SumFunction(left) = SumFunctionOnSet(left, Orders)
        /\ SumFunction(got) = SumFunctionOnSet(got, Orders)
    BY <2>3 DEF SumFunction
  <2>. QED  BY <2>1, <2>2, <2>4 DEF BalancesSound, BalanceBooks
<1>. QED  BY <1>1, BalancesKept, PTL

\* Stock moves as FbsStockLedger allows, whatever orders, waves, pickers,
\* controllers and imports do: an order is reserved in full or not at all
\* (reserve_order_stock), gives back only what nobody picked
\* (release_order_reservation), and goods reported missing leave the sale
\* (report_pick_exception, report_pick_missing_quantity).
THEOREM StockIsALedger == Spec => StockLedger
<1>1. Init => Ledger!Init
  <2>. SUFFICES ASSUME Init  PROVE Ledger!Init
    OBVIOUS
  <2>1. /\ Left(NoRow) = 0 /\ NoRow.picked = 0
        /\ avail = Stock
    BY NothingLeft DEF Init
  <2>2. \A o \in Orders, b \in Balances : alloc[o][b] = NoRow
    BY DEF Init
  <2>3. Kept = Ledger!Nothing
    BY <2>1, <2>2 DEF Kept, Left, Ledger!Nothing
  <2>4. Got = Ledger!Nothing
    BY <2>1, <2>2 DEF Got, Ledger!Nothing
  <2>5. Shut = [b \in Balances |-> 0]
    <3>1. \A b \in Balances : qty[b] - avail[b] - resv[b] = 0
      BY ConstantsAssumption DEF Init
    <3>. QED  BY <3>1 DEF Shut
  <2>. QED  BY <2>1, <2>3, <2>4, <2>5 DEF Ledger!Init, Kept, Got, Shut
<1>2. Spec => [](TypeOK /\ RowsFit /\ OrdersSound /\ BalancesSound)
  BY BooksKept, BalancesKept, PTL
<1>. QED  BY <1>1, <1>2, LedgerStep, PTL DEF Spec, StockLedger, Ledger!Spec
=============================================================================
