------------------------- MODULE FbsStockExportProofs -------------------------
(***************************************************************************)
(* Theorems about the stock exporter, for any number of rows and runs, any *)
(* batch limit, both marketplaces and any number of changes and faults.    *)
(*                                                                         *)
(* A row is synced only with the quantity wanted now (SyncedMeansSent).    *)
(* That is not inductive: it needs to know that a run which holds the      *)
(* row's present generation also holds its present quantity (ClaimsSound), *)
(* and that rows and memories are well formed (TypeOK).                    *)
(***************************************************************************)
EXTENDS FbsStockExport, FiniteSetTheorems, TLAPS

Sound == ClaimsSound /\ SyncedMeansSent

-----------------------------------------------------------------------------
\* A claim is of a generation and of a quantity.
LEMMA ClaimOfHeld ==
  ASSUME TypeOK, NEW r \in Runs, NEW i \in Held(r)
  PROVE  held[r][i] \in [gen : Nat, qty : Nat]
  BY DEF TypeOK, Held, Claims

\* Rows are due or not, whatever was touched.
LEMMA DueTyping ==
  ASSUME TypeOK, NEW touched, NEW looked
  PROVE  DueAfter(touched, looked) \in [Items -> BOOLEAN]
  BY Zenon DEF TypeOK, DueAfter

\* What the refresh leaves behind is well formed.
LEMMA RefreshTyping ==
  ASSUME TypeOK, NEW view \in [Items -> Nat], NEW looked, Refresh(view, looked)
  PROVE  /\ desired' \in [Items -> Nat] /\ gen' \in [Items -> Nat]
         /\ lastSent' \in [Items -> Nat \cup {None}]
         /\ status' \in [Items -> RowStatuses]
         /\ due' \in [Items -> BOOLEAN]
  <1>1. gen' \in [Items -> Nat]
    BY DEF Refresh, TypeOK, Generations
  <1>2. status' \in [Items -> RowStatuses]
    BY DEF Refresh, TypeOK, RowStatuses
  <1>3. due' \in [Items -> BOOLEAN]
    BY DueTyping DEF Refresh
  <1> QED
    BY <1>1, <1>2, <1>3 DEF Refresh, TypeOK

\* The refresh gives a new generation to every row whose quantity it changes.
LEMMA RefreshSound ==
  ASSUME TypeOK, Sound, NEW view \in [Items -> Nat], NEW looked,
         Refresh(view, looked), UNCHANGED held
  PROVE  Sound'
  <1>1. ClaimsSound'
    <2> SUFFICES ASSUME NEW r \in Runs, NEW i \in Held(r)
                 PROVE  /\ held[r][i].gen <= gen'[i]
                        /\ held[r][i].gen = gen'[i] => held[r][i].qty = desired'[i]
      BY DEF ClaimsSound, Held
    <2>1. /\ i \in Items /\ held[r][i].gen \in Nat
          /\ held[r][i].gen <= gen[i]
          /\ held[r][i].gen = gen[i] => held[r][i].qty = desired[i]
      BY ClaimOfHeld DEF Sound, ClaimsSound, Held
    <2>2. /\ desired' = view /\ gen[i] \in Nat
          /\ gen'[i] = IF desired[i] # view[i] THEN gen[i] + 1 ELSE gen[i]
      BY <2>1 DEF Refresh, Generations, TypeOK
    <2> QED
      BY <2>1, <2>2
  <1>2. SyncedMeansSent'
    <2> SUFFICES ASSUME NEW i \in Items, status'[i] = "synced"
                 PROVE  lastSent'[i] = desired'[i]
      BY DEF SyncedMeansSent
    <2>1. /\ desired[i] = view[i] /\ status[i] = "synced"
          /\ desired' = view /\ lastSent' = lastSent
      BY DEF Refresh
    <2> QED
      BY <2>1 DEF Sound, SyncedMeansSent
  <1> QED
    BY <1>1, <1>2 DEF Sound

-----------------------------------------------------------------------------
\* Going to a place keeps the places well formed.
LEMMA GoToTyping ==
  ASSUME TypeOK, NEW r \in Runs, NEW p \in Places, GoTo(r, p)
  PROVE  /\ pc' \in [Runs -> Places]
         /\ pc' = [pc EXCEPT ![r] = p]
  BY DEF TypeOK, GoTo

\* A run that drops its claims has well-formed, empty memories.
LEMMA DropTyping ==
  ASSUME TypeOK, NEW r \in Runs, Drop(r)
  PROVE  /\ held' \in [Runs -> [Items -> Claims]]
         /\ live' \in [Runs -> [Items -> Nat]]
         /\ answer' \in [Runs -> [Items -> Answers]]
  <1>1. /\ Nothing \in [Items -> Claims] /\ Zeroes \in [Items -> Nat]
        /\ NoAnswer \in [Items -> Answers]
    BY DEF Nothing, Zeroes, NoAnswer, Claims, Answers
  <1> QED
    BY <1>1 DEF TypeOK, Drop

\* The request of a run is well formed.
LEMMA RequestTyping ==
  ASSUME TypeOK, NEW r \in Runs
  PROVE  /\ RequestOf(r) \in Requests
         /\ \A i \in Held(r) : RequestOf(r).qty[i] \in Nat
  <1>1. \A i \in Items : held[r][i].qty \in Nat \cup {None}
    BY DEF TypeOK, Claims, NoClaim
  <1>2. \A i \in Held(r) : i \in Items /\ held[r][i].qty \in Nat
    BY ClaimOfHeld DEF Held
  <1> QED
    BY <1>1, <1>2 DEF RequestOf, Requests

\* Carrying out a request leaves quantities at the marketplace.
LEMMA CarryOutTyping ==
  ASSUME TypeOK, NEW req, NEW rows,
         \A i \in rows : req.qty[i] \in Nat, CarryOut(req, rows)
  PROVE  remote' \in [Items -> Nat]
  BY DEF TypeOK, CarryOut

\* Abandoned requests are requests.
LEMMA AbandonedTyping ==
  ASSUME TypeOK, NEW r \in Runs
  PROVE  Abandoned(r) \subseteq Requests
  <1>1. \A q \in Requests : [q EXCEPT !.by = None] \in Requests
    BY DEF Requests
  <1>2. net \subseteq Requests
    BY DEF TypeOK
  <1> QED
    BY <1>1, <1>2 DEF Abandoned

\* Going to a place that is not the refresh asks for no quantities.
LEMMA GoToKeepsSeen ==
  ASSUME TypeOK, NEW r \in Runs, NEW p \in Places \ {"refresh"}, GoTo(r, p),
         UNCHANGED seen
  PROVE  \A s \in Runs : pc'[s] = "refresh" => seen'[s] \in [Items -> Nat]
  BY DEF TypeOK, GoTo

\* Run r keeps well-formed memories when it has done with some rows.
LEMMA RemainingTyping ==
  ASSUME TypeOK, NEW r \in Runs, NEW rows, Remaining(r, rows), UNCHANGED seen
  PROVE  /\ pc' \in [Runs -> Places]
         /\ \A s \in Runs : pc'[s] = "refresh" => seen'[s] \in [Items -> Nat]
         /\ held' \in [Runs -> [Items -> Claims]]
         /\ live' \in [Runs -> [Items -> Nat]]
         /\ answer' \in [Runs -> [Items -> Answers]]
  <1>1. CASE Held(r) = rows
    <2>1. GoTo(r, "idle") /\ Drop(r)
      BY <1>1 DEF Remaining
    <2> QED
      BY <2>1, GoToTyping, GoToKeepsSeen, DropTyping DEF Places
  <1>2. CASE Held(r) # rows
    <2>1. /\ held' = [held EXCEPT ![r] = [i \in Items |->
                        IF i \in rows THEN NoClaim ELSE held[r][i]]]
          /\ UNCHANGED <<pc, live, answer>>
      BY <1>2 DEF Remaining
    <2>2. held' \in [Runs -> [Items -> Claims]]
      BY <2>1 DEF TypeOK, Claims
    <2> QED
      BY <2>1, <2>2 DEF TypeOK
  <1> QED
    BY <1>1, <1>2

-----------------------------------------------------------------------------
\* Every step keeps rows and memories well formed.
LEMMA TypingStep ==
  ASSUME TypeOK, [Next]_vars
  PROVE  TypeOK'
  <1> USE DEF vars, rowVars, runVars, cardVars
  <1>1. ASSUME NEW i \in Items, NEW q \in Quantities, StockChange(i, q)
        PROVE  TypeOK'
    <2>1. have' \in [Items -> Nat]
      BY <1>1, ExportAssumption DEF StockChange, TypeOK
    <2>2. views' \in [1..MaxChanges -> [Items -> Nat] \cup {NoView}]
      BY <1>1, <2>1 DEF StockChange, TypeOK
    <2> QED
      BY <1>1, <2>1, <2>2 DEF StockChange, TypeOK
  <1>2. ASSUME NEW c \in 1..MaxChanges, RefreshOnCommit(c)
        PROVE  TypeOK'
    <2>1. views[c] \in [Items -> Nat]
      BY <1>2 DEF RefreshOnCommit, TypeOK
    <2>2. views' \in [1..MaxChanges -> [Items -> Nat] \cup {NoView}]
      BY <1>2 DEF RefreshOnCommit, TypeOK
    <2> QED
      BY <1>2, <2>1, <2>2, RefreshTyping DEF RefreshOnCommit, TypeOK
  <1>3. ASSUME NEW r \in Runs, Start(r)
        PROVE  TypeOK'
    <2>1. pc' = [pc EXCEPT ![r] = "refresh"] /\ pc' \in [Runs -> Places]
      BY <1>3, GoToTyping DEF Start, Places
    <2>2. /\ seen' \in [Runs -> [Items -> Nat] \cup {NoView}]
          /\ seen'[r] \in [Items -> Nat]
          /\ \A s \in Runs \ {r} : seen'[s] = seen[s]
      BY <1>3 DEF Start, TypeOK
    <2>3. \A s \in Runs : pc'[s] = "refresh" => seen'[s] \in [Items -> Nat]
      BY <2>1, <2>2 DEF TypeOK
    <2>4. status' \in [Items -> RowStatuses]
      BY <1>3 DEF Start, TypeOK, RowStatuses
    <2>5. due' \in [Items -> BOOLEAN]
      BY <1>3, DueTyping DEF Start
    <2> QED
      BY <1>3, <2>1, <2>2, <2>3, <2>4, <2>5 DEF Start, TypeOK
  <1>4. ASSUME NEW r \in Runs, StartRefresh(r)
        PROVE  TypeOK'
    <2>1. seen[r] \in [Items -> Nat]
      BY <1>4 DEF StartRefresh, TypeOK
    <2>2. /\ pc' = [pc EXCEPT ![r] = IF Wb THEN "reconcile" ELSE "claim"]
          /\ pc' \in [Runs -> Places]
      BY <1>4, GoToTyping DEF StartRefresh, Places
    <2>3. seen' \in [Runs -> [Items -> Nat] \cup {NoView}]
      BY <1>4 DEF StartRefresh, TypeOK
    <2>4. \A s \in Runs : pc'[s] = "refresh" => seen'[s] \in [Items -> Nat]
      BY <1>4, <2>2 DEF StartRefresh, TypeOK
    <2> QED
      BY <1>4, <2>1, <2>2, <2>3, <2>4, RefreshTyping DEF StartRefresh, TypeOK
  <1>5. ASSUME NEW r \in Runs, ChooseCandidates(r)
        PROVE  TypeOK'
    <2>1. /\ pc' \in [Runs -> Places]
          /\ \A s \in Runs : pc'[s] = "refresh" => seen'[s] \in [Items -> Nat]
      BY <1>5, GoToTyping, GoToKeepsSeen DEF ChooseCandidates, Places
    <2>2. held' \in [Runs -> [Items -> Claims]]
      BY <1>5 DEF ChooseCandidates, TypeOK, Claims
    <2> QED
      BY <1>5, <2>1, <2>2 DEF ChooseCandidates, TypeOK
  <1>6. ASSUME NEW r \in Runs, ReadRemote(r)
        PROVE  TypeOK'
    <2>1. /\ pc' \in [Runs -> Places]
          /\ \A s \in Runs : pc'[s] = "refresh" => seen'[s] \in [Items -> Nat]
      BY <1>6, GoToTyping, GoToKeepsSeen DEF ReadRemote, Places
    <2>2. live' \in [Runs -> [Items -> Nat]]
      BY <1>6 DEF ReadRemote, TypeOK
    <2> QED
      BY <1>6, <2>1, <2>2 DEF ReadRemote, TypeOK
  <1>7. ASSUME NEW r \in Runs, Compare(r)
        PROVE  TypeOK'
    <2>1. /\ pc' \in [Runs -> Places]
          /\ \A s \in Runs : pc'[s] = "refresh" => seen'[s] \in [Items -> Nat]
      BY <1>7, GoToTyping, GoToKeepsSeen DEF Compare, Places
    <2>2. /\ held' \in [Runs -> [Items -> Claims]]
          /\ live' \in [Runs -> [Items -> Nat]]
          /\ answer' \in [Runs -> [Items -> Answers]]
      BY <1>7, DropTyping DEF Compare
    <2>3. status' \in [Items -> RowStatuses]
      BY <1>7 DEF Compare, Reconciled, TypeOK, RowStatuses
    <2>4. due' \in [Items -> BOOLEAN]
      BY <1>7, Zenon DEF Compare, TypeOK
    <2> QED
      BY <1>7, <2>1, <2>2, <2>3, <2>4 DEF Compare, TypeOK
  <1>8. ASSUME NEW r \in Runs, Claim(r)
        PROVE  TypeOK'
    <2>1. PICK batch \in SUBSET Items :
             /\ status' = [i \in Items |->
                             IF i \in batch THEN "sending" ELSE Recovered(i)]
             /\ due' = [i \in Items |-> due[i] /\ i \notin batch]
             /\ held' = [held EXCEPT ![r] = [i \in Items |->
                  IF i \in batch THEN [gen |-> gen[i], qty |-> desired[i]]
                  ELSE NoClaim]]
             /\ GoTo(r, IF batch = {} THEN "idle" ELSE "send")
      BY <1>8 DEF Claim
    <2>2. /\ pc' \in [Runs -> Places]
          /\ \A s \in Runs : pc'[s] = "refresh" => seen'[s] \in [Items -> Nat]
      BY <1>8, <2>1, GoToTyping, GoToKeepsSeen DEF Claim, Places
    <2>3. held' \in [Runs -> [Items -> Claims]]
      BY <1>8, <2>1 DEF TypeOK, Claims
    <2>4. status' \in [Items -> RowStatuses]
      BY <1>8, <2>1 DEF Recovered, TypeOK, RowStatuses
    <2>5. due' \in [Items -> BOOLEAN]
      BY <1>8, <2>1, Zenon DEF TypeOK
    <2> QED
      BY <1>8, <2>1, <2>2, <2>3, <2>4, <2>5 DEF Claim, TypeOK
  <1>9. ASSUME NEW r \in Runs, Send(r)
        PROVE  TypeOK'
    <2>1. /\ pc' \in [Runs -> Places]
          /\ \A s \in Runs : pc'[s] = "refresh" => seen'[s] \in [Items -> Nat]
      BY <1>9, GoToTyping, GoToKeepsSeen DEF Send, Places
    <2>2. net' \subseteq Requests
      BY <1>9, RequestTyping DEF Send, TypeOK
    <2> QED
      BY <1>9, <2>1, <2>2 DEF Send, TypeOK
  <1>10. ASSUME NEW r \in Runs, Accept(r)
        PROVE  TypeOK'
    <2>1. /\ pc' \in [Runs -> Places]
          /\ \A s \in Runs : pc'[s] = "refresh" => seen'[s] \in [Items -> Nat]
      BY <1>10, GoToTyping, GoToKeepsSeen DEF Accept, Places
    <2>2. remote' \in [Items -> Nat]
      BY <1>10, RequestTyping, CarryOutTyping DEF Accept
    <2>3. answer' \in [Runs -> [Items -> Answers]]
      BY <1>10 DEF Accept, TypeOK, Answers
    <2> QED
      BY <1>10, <2>1, <2>2, <2>3 DEF Accept, TypeOK
  <1>11. ASSUME NEW r \in Runs, ReportUpdated(r)
        PROVE  TypeOK'
    <2>1. /\ pc' \in [Runs -> Places]
          /\ \A s \in Runs : pc'[s] = "refresh" => seen'[s] \in [Items -> Nat]
      BY <1>11, GoToTyping, GoToKeepsSeen DEF ReportUpdated, Places
    <2>2. /\ held' \in [Runs -> [Items -> Claims]]
          /\ live' \in [Runs -> [Items -> Nat]]
          /\ answer' \in [Runs -> [Items -> Answers]]
      <3>1. CASE Held(r) \ Answered(r, "updated") = {}
        BY <1>11, <3>1, DropTyping DEF ReportUpdated
      <3>2. CASE Held(r) \ Answered(r, "updated") # {}
        <4>1. /\ held' = [held EXCEPT ![r] = [i \in Items |->
                            IF i \in Held(r) \ Answered(r, "updated")
                            THEN held[r][i] ELSE NoClaim]]
              /\ UNCHANGED <<live, answer>>
          BY <1>11, <3>2 DEF ReportUpdated
        <4>2. held' \in [Runs -> [Items -> Claims]]
          BY <4>1 DEF TypeOK, Claims
        <4> QED
          BY <4>1, <4>2 DEF TypeOK
      <3> QED
        BY <3>1, <3>2
    <2>3. lastSent' \in [Items -> Nat \cup {None}]
      BY <1>11, ClaimOfHeld DEF ReportUpdated, Sent, Answered, TypeOK
    <2>4. status' \in [Items -> RowStatuses]
      BY <1>11 DEF ReportUpdated, TypeOK, RowStatuses
    <2>5. due' \in [Items -> BOOLEAN]
      BY <1>11, Zenon DEF ReportUpdated, TypeOK, Sent
    <2> QED
      BY <1>11, <2>1, <2>2, <2>3, <2>4, <2>5 DEF ReportUpdated, TypeOK
  <1>12. ASSUME NEW r \in Runs, ReportFailure(r)
        PROVE  TypeOK'
    <2>1. /\ pc' \in [Runs -> Places]
          /\ \A s \in Runs : pc'[s] = "refresh" => seen'[s] \in [Items -> Nat]
      BY <1>12, GoToTyping, GoToKeepsSeen DEF ReportFailure, Places
    <2>2. /\ held' \in [Runs -> [Items -> Claims]]
          /\ live' \in [Runs -> [Items -> Nat]]
          /\ answer' \in [Runs -> [Items -> Answers]]
      BY <1>12, DropTyping DEF ReportFailure
    <2>3. status' \in [Items -> RowStatuses]
      BY <1>12 DEF ReportFailure, TypeOK, RowStatuses
    <2>4. due' \in [Items -> BOOLEAN]
      BY <1>12, Zenon DEF ReportFailure, TypeOK
    <2> QED
      BY <1>12, <2>1, <2>2, <2>3, <2>4 DEF ReportFailure, TypeOK
  <1>13. ASSUME NEW r \in Runs, ReportRetry(r)
        PROVE  TypeOK'
    <2>1. /\ pc' \in [Runs -> Places]
          /\ \A s \in Runs : pc'[s] = "refresh" => seen'[s] \in [Items -> Nat]
          /\ held' \in [Runs -> [Items -> Claims]]
          /\ live' \in [Runs -> [Items -> Nat]]
          /\ answer' \in [Runs -> [Items -> Answers]]
      BY <1>13, RemainingTyping DEF ReportRetry
    <2>2. status' \in [Items -> RowStatuses]
      BY <1>13 DEF ReportRetry, TypeOK, RowStatuses
    <2> QED
      BY <1>13, <2>1, <2>2 DEF ReportRetry, TypeOK
  <1>14. ASSUME NEW r \in Runs, NEW i \in Items, ReportRefused(r, i)
        PROVE  TypeOK'
    <2>1. /\ pc' \in [Runs -> Places]
          /\ \A s \in Runs : pc'[s] = "refresh" => seen'[s] \in [Items -> Nat]
          /\ held' \in [Runs -> [Items -> Claims]]
          /\ live' \in [Runs -> [Items -> Nat]]
          /\ answer' \in [Runs -> [Items -> Answers]]
      BY <1>14, RemainingTyping DEF ReportRefused
    <2>2. status' \in [Items -> RowStatuses]
      BY <1>14 DEF ReportRefused, TypeOK, RowStatuses
    <2> QED
      BY <1>14, <2>1, <2>2 DEF ReportRefused, TypeOK
  <1>15. ASSUME NEW r \in Runs, ReadFails(r)
        PROVE  TypeOK'
    <2>1. /\ pc' \in [Runs -> Places]
          /\ \A s \in Runs : pc'[s] = "refresh" => seen'[s] \in [Items -> Nat]
      BY <1>15, GoToTyping, GoToKeepsSeen DEF ReadFails, Places
    <2>2. /\ held' \in [Runs -> [Items -> Claims]]
          /\ live' \in [Runs -> [Items -> Nat]]
          /\ answer' \in [Runs -> [Items -> Answers]]
      BY <1>15, DropTyping DEF ReadFails
    <2>3. faults' \in Nat
      BY <1>15 DEF ReadFails, Fault, TypeOK
    <2> QED
      BY <1>15, <2>1, <2>2, <2>3 DEF ReadFails, TypeOK
  <1>16. ASSUME NEW r \in Runs, AcceptSome(r)
        PROVE  TypeOK'
    <2>1. /\ pc' \in [Runs -> Places]
          /\ \A s \in Runs : pc'[s] = "refresh" => seen'[s] \in [Items -> Nat]
      BY <1>16, GoToTyping, GoToKeepsSeen DEF AcceptSome, Places
    <2>2. faults' \in Nat
      BY <1>16 DEF AcceptSome, Fault, TypeOK
    <2>3. PICK words \in [Held(r) -> Answers \ {"none"}] :
             /\ answer' = [answer EXCEPT ![r] = [i \in Items |->
                             IF i \in Held(r) THEN words[i] ELSE "none"]]
             /\ CarryOut(RequestOf(r), {i \in Held(r) : words[i] = "updated"})
      BY <1>16 DEF AcceptSome
    <2>4. remote' \in [Items -> Nat]
      BY <1>16, <2>3, RequestTyping, CarryOutTyping
    <2>5. answer' \in [Runs -> [Items -> Answers]]
      BY <1>16, <2>3 DEF TypeOK, Answers
    <2> QED
      BY <1>16, <2>1, <2>2, <2>3, <2>4, <2>5 DEF AcceptSome, TypeOK
  <1>17. ASSUME NEW r \in Runs, Refuse(r)
        PROVE  TypeOK'
    <2>1. /\ pc' \in [Runs -> Places]
          /\ \A s \in Runs : pc'[s] = "refresh" => seen'[s] \in [Items -> Nat]
      BY <1>17, GoToTyping, GoToKeepsSeen DEF Refuse, Places
    <2>2. faults' \in Nat
      BY <1>17 DEF Refuse, Fault, TypeOK
    <2> QED
      BY <1>17, <2>1, <2>2 DEF Refuse, TypeOK
  <1>18. ASSUME NEW r \in Runs, TimeOut(r)
        PROVE  TypeOK'
    <2>1. /\ pc' \in [Runs -> Places]
          /\ \A s \in Runs : pc'[s] = "refresh" => seen'[s] \in [Items -> Nat]
      BY <1>18, GoToTyping, GoToKeepsSeen DEF TimeOut, Places
    <2>2. faults' \in Nat
      BY <1>18 DEF TimeOut, Fault, TypeOK
    <2>3. net' \subseteq Requests
      BY <1>18, AbandonedTyping DEF TimeOut
    <2> QED
      BY <1>18, <2>1, <2>2, <2>3 DEF TimeOut, TypeOK
  <1>19. ASSUME NEW r \in Runs, Crash(r)
        PROVE  TypeOK'
    <2>1. pc' = [pc EXCEPT ![r] = "idle"] /\ pc' \in [Runs -> Places]
      BY <1>19, GoToTyping DEF Crash, Places
    <2>2. seen' \in [Runs -> [Items -> Nat] \cup {NoView}]
      BY <1>19 DEF Crash, TypeOK
    <2>3. \A s \in Runs : pc'[s] = "refresh" => seen'[s] \in [Items -> Nat]
      BY <1>19, <2>1 DEF Crash, TypeOK
    <2>4. /\ held' \in [Runs -> [Items -> Claims]]
          /\ live' \in [Runs -> [Items -> Nat]]
          /\ answer' \in [Runs -> [Items -> Answers]]
      BY <1>19, DropTyping DEF Crash
    <2>5. faults' \in Nat
      BY <1>19 DEF Crash, Fault, TypeOK
    <2>6. net' \subseteq Requests
      BY <1>19, AbandonedTyping DEF Crash
    <2> QED
      BY <1>19, <2>1, <2>2, <2>3, <2>4, <2>5, <2>6 DEF Crash, TypeOK
  <1>20. ASSUME NEW i \in Items, Elapse(i)
        PROVE  TypeOK'
    <2>1. due' \in [Items -> BOOLEAN]
      BY <1>20, Zenon DEF Elapse, TypeOK
    <2> QED
      BY <1>20, <2>1 DEF Elapse, TypeOK
  <1>21. ASSUME NEW i \in Items, NEW q \in Quantities, Drift(i, q)
        PROVE  TypeOK'
    <2>1. remote' \in [Items -> Nat]
      BY <1>21, ExportAssumption DEF Drift, TypeOK
    <2>2. faults' \in Nat
      BY <1>21 DEF Drift, Fault, TypeOK
    <2> QED
      BY <1>21, <2>1, <2>2 DEF Drift, TypeOK
  <1>22. ASSUME NEW req \in net, SettleLate(req)
        PROVE  TypeOK'
    <2>1. \A i \in {j \in Items : Asks(req, j)} : req.qty[i] \in Nat
      BY <1>22 DEF TypeOK, Requests, Asks
    <2>2. remote' \in [Items -> Nat]
      BY <1>22, <2>1, CarryOutTyping DEF SettleLate, TypeOK
    <2>3. net' \subseteq Requests
      BY <1>22 DEF SettleLate, TypeOK
    <2> QED
      BY <1>22, <2>1, <2>2, <2>3 DEF SettleLate, TypeOK
  <1>23. ASSUME NEW i \in Items, CardChange(i)
        PROVE  TypeOK'
    BY <1>23 DEF CardChange, TypeOK
  <1>24. CASE UNCHANGED vars
    BY <1>24 DEF TypeOK
  <1> QED
    BY <1>1, <1>2, <1>3, <1>4, <1>5, <1>6, <1>7, <1>8, <1>9, <1>10, <1>11,
       <1>12, <1>13, <1>14, <1>15, <1>16, <1>17, <1>18, <1>19, <1>20, <1>21,
       <1>22, <1>24, <1>23
    DEF Next, RunStep, FaultStep, Late

-----------------------------------------------------------------------------
\* Reservation, sending, answers and faults touch neither the wanted quantity
\* nor the generation of a row, and claim rows only as they are.
LEMMA ClaimsStep ==
  ASSUME TypeOK, Sound, TypeOK', UNCHANGED <<desired, gen>>,
         \A r \in Runs : \A i \in Items :
            \/ held'[r][i] \in {held[r][i], NoClaim}
            \/ held'[r][i] = [gen |-> gen[i], qty |-> desired[i]]
  PROVE  ClaimsSound'
  <1> SUFFICES ASSUME NEW r \in Runs, NEW i \in Items, held'[r][i] # NoClaim
               PROVE  /\ held'[r][i].gen <= gen[i]
                      /\ held'[r][i].gen = gen[i] => held'[r][i].qty = desired[i]
    BY DEF ClaimsSound, Held
  <1>1. CASE held'[r][i] = held[r][i]
    BY <1>1 DEF Sound, ClaimsSound, Held
  <1>2. CASE held'[r][i] = [gen |-> gen[i], qty |-> desired[i]]
    BY <1>2 DEF TypeOK
  <1> QED
    BY <1>1, <1>2

\* A step that synchronises no row and changes no quantity keeps every synced
\* row as it was sent.
LEMMA SyncedStep ==
  ASSUME Sound, UNCHANGED <<desired, lastSent>>,
         \A i \in Items : status'[i] = "synced" => status[i] = "synced"
  PROVE  SyncedMeansSent'
  BY DEF Sound, SyncedMeansSent

\* Dropping claims leaves sound claims.
LEMMA DropClaims ==
  ASSUME TypeOK, NEW r \in Runs, Drop(r)
  PROVE  \A s \in Runs : \A i \in Items : held'[s][i] \in {held[s][i], NoClaim}
  BY DEF TypeOK, Drop, Nothing

\* Nor does having done with some rows make a claim.
LEMMA RemainingClaims ==
  ASSUME TypeOK, NEW r \in Runs, NEW rows, Remaining(r, rows)
  PROVE  \A s \in Runs : \A i \in Items : held'[s][i] \in {held[s][i], NoClaim}
  <1>1. CASE Held(r) = rows
    BY <1>1, DropClaims DEF Remaining
  <1>2. CASE Held(r) # rows
    <2>1. held' = [held EXCEPT ![r] = [i \in Items |->
                     IF i \in rows THEN NoClaim ELSE held[r][i]]]
      BY <1>2 DEF Remaining
    <2> QED
      BY <2>1 DEF TypeOK
  <1> QED
    BY <1>1, <1>2

-----------------------------------------------------------------------------
\* Every step keeps claims sound and synced rows sent.
LEMMA SoundStep ==
  ASSUME TypeOK, Sound, [Next]_vars
  PROVE  Sound'
  <1> USE DEF vars, rowVars, runVars, cardVars
  <1>0. TypeOK'
    BY TypingStep
  <1>1. ASSUME NEW i \in Items, NEW q \in Quantities, StockChange(i, q)
        PROVE  Sound'
    <2>1. ClaimsSound'
      BY <1>0, <1>1, ClaimsStep DEF StockChange
    <2>2. SyncedMeansSent'
      BY <1>1, SyncedStep DEF StockChange
    <2> QED
      BY <2>1, <2>2 DEF Sound
  <1>2. ASSUME NEW c \in 1..MaxChanges, RefreshOnCommit(c)
        PROVE  Sound'
    <2>1. views[c] \in [Items -> Nat]
      BY <1>2 DEF RefreshOnCommit, TypeOK
    <2> QED
      BY <1>2, <2>1, RefreshSound DEF RefreshOnCommit
  <1>3. ASSUME NEW r \in Runs, Start(r)
        PROVE  Sound'
    <2>1. ClaimsSound'
      BY <1>0, <1>3, ClaimsStep DEF Start
    <2>2. SyncedMeansSent'
      BY <1>3, SyncedStep DEF Start
    <2> QED
      BY <2>1, <2>2 DEF Sound
  <1>4. ASSUME NEW r \in Runs, StartRefresh(r)
        PROVE  Sound'
    <2>1. seen[r] \in [Items -> Nat]
      BY <1>4 DEF StartRefresh, TypeOK
    <2> QED
      BY <1>4, <2>1, RefreshSound DEF StartRefresh
  <1>5. ASSUME NEW r \in Runs, ChooseCandidates(r)
        PROVE  Sound'
    <2>1. ClaimsSound'
      BY <1>0, <1>5, ClaimsStep DEF ChooseCandidates, TypeOK
    <2>2. SyncedMeansSent'
      BY <1>5, SyncedStep DEF ChooseCandidates
    <2> QED
      BY <2>1, <2>2 DEF Sound
  <1>6. ASSUME NEW r \in Runs, ReadRemote(r)
        PROVE  Sound'
    <2>1. ClaimsSound'
      BY <1>0, <1>6, ClaimsStep DEF ReadRemote
    <2>2. SyncedMeansSent'
      BY <1>6, SyncedStep DEF ReadRemote
    <2> QED
      BY <2>1, <2>2 DEF Sound
  <1>7. ASSUME NEW r \in Runs, Compare(r)
        PROVE  Sound'
    <2>1. ClaimsSound'
      BY <1>0, <1>7, ClaimsStep, DropClaims DEF Compare
    <2>2. SyncedMeansSent'
      BY <1>7, SyncedStep DEF Compare, Reconciled, TypeOK
    <2> QED
      BY <2>1, <2>2 DEF Sound
  <1>8. ASSUME NEW r \in Runs, Claim(r)
        PROVE  Sound'
    <2>1. ClaimsSound'
      BY <1>0, <1>8, ClaimsStep DEF Claim, TypeOK
    <2>2. SyncedMeansSent'
      BY <1>8, SyncedStep DEF Claim, Recovered, TypeOK
    <2> QED
      BY <2>1, <2>2 DEF Sound
  <1>9. ASSUME NEW r \in Runs, Send(r)
        PROVE  Sound'
    <2>1. ClaimsSound'
      BY <1>0, <1>9, ClaimsStep DEF Send
    <2>2. SyncedMeansSent'
      BY <1>9, SyncedStep DEF Send
    <2> QED
      BY <2>1, <2>2 DEF Sound
  <1>10. ASSUME NEW r \in Runs, Accept(r)
        PROVE  Sound'
    <2>1. ClaimsSound'
      BY <1>0, <1>10, ClaimsStep DEF Accept
    <2>2. SyncedMeansSent'
      BY <1>10, SyncedStep DEF Accept
    <2> QED
      BY <2>1, <2>2 DEF Sound
  <1>11. ASSUME NEW r \in Runs, ReportUpdated(r)
        PROVE  Sound'
    <2>1. \A s \in Runs : \A i \in Items :
             held'[s][i] \in {held[s][i], NoClaim}
      <3>1. CASE Held(r) \ Answered(r, "updated") = {}
        BY <1>11, <3>1, DropClaims DEF ReportUpdated
      <3>2. CASE Held(r) \ Answered(r, "updated") # {}
        <4>1. held' = [held EXCEPT ![r] = [i \in Items |->
                         IF i \in Held(r) \ Answered(r, "updated")
                         THEN held[r][i] ELSE NoClaim]]
          BY <1>11, <3>2 DEF ReportUpdated
        <4> QED
          BY <4>1 DEF TypeOK
      <3> QED
        BY <3>1, <3>2
    <2>2. ClaimsSound'
      BY <1>0, <1>11, <2>1, ClaimsStep DEF ReportUpdated
    <2>3. ASSUME NEW i \in Items, Sent(r, i)
          PROVE  held[r][i].qty = desired[i]
      <3>1. i \in Held(r) /\ held[r][i].gen = gen[i]
        BY <2>3 DEF Sent, Answered
      <3> QED
        BY <3>1 DEF Sound, ClaimsSound
    <2>4. ASSUME NEW i \in Items, status'[i] = "synced"
          PROVE  lastSent'[i] = desired'[i]
      <3>1. CASE Sent(r, i)
        BY <1>11, <2>3, <3>1 DEF ReportUpdated, TypeOK
      <3>2. CASE ~Sent(r, i)
        <4>1. status[i] = "synced" /\ lastSent'[i] = lastSent[i]
          BY <1>11, <2>4, <3>2 DEF ReportUpdated, TypeOK
        <4> QED
          BY <1>11, <4>1 DEF ReportUpdated, Sound, SyncedMeansSent
      <3> QED
        BY <3>1, <3>2
    <2> QED
      BY <2>2, <2>4 DEF Sound, SyncedMeansSent
  <1>12. ASSUME NEW r \in Runs, ReportFailure(r)
        PROVE  Sound'
    <2>1. ClaimsSound'
      BY <1>0, <1>12, ClaimsStep, DropClaims DEF ReportFailure
    <2>2. SyncedMeansSent'
      BY <1>12, SyncedStep DEF ReportFailure, TypeOK
    <2> QED
      BY <2>1, <2>2 DEF Sound
  <1>13. ASSUME NEW r \in Runs, ReportRetry(r)
        PROVE  Sound'
    <2>1. ClaimsSound'
      BY <1>0, <1>13, ClaimsStep, RemainingClaims DEF ReportRetry
    <2>2. SyncedMeansSent'
      BY <1>13, SyncedStep DEF ReportRetry, TypeOK
    <2> QED
      BY <2>1, <2>2 DEF Sound
  <1>14. ASSUME NEW r \in Runs, NEW i \in Items, ReportRefused(r, i)
        PROVE  Sound'
    <2>1. ClaimsSound'
      BY <1>0, <1>14, ClaimsStep, RemainingClaims DEF ReportRefused
    <2>2. SyncedMeansSent'
      BY <1>14, SyncedStep DEF ReportRefused, TypeOK
    <2> QED
      BY <2>1, <2>2 DEF Sound
  <1>15. ASSUME NEW r \in Runs, ReadFails(r)
        PROVE  Sound'
    <2>1. ClaimsSound'
      BY <1>0, <1>15, ClaimsStep, DropClaims DEF ReadFails
    <2>2. SyncedMeansSent'
      BY <1>15, SyncedStep DEF ReadFails
    <2> QED
      BY <2>1, <2>2 DEF Sound
  <1>16. ASSUME NEW r \in Runs, AcceptSome(r)
        PROVE  Sound'
    <2>1. ClaimsSound'
      BY <1>0, <1>16, ClaimsStep DEF AcceptSome
    <2>2. SyncedMeansSent'
      BY <1>16, SyncedStep DEF AcceptSome
    <2> QED
      BY <2>1, <2>2 DEF Sound
  <1>17. ASSUME NEW r \in Runs, Refuse(r)
        PROVE  Sound'
    <2>1. ClaimsSound'
      BY <1>0, <1>17, ClaimsStep DEF Refuse
    <2>2. SyncedMeansSent'
      BY <1>17, SyncedStep DEF Refuse
    <2> QED
      BY <2>1, <2>2 DEF Sound
  <1>18. ASSUME NEW r \in Runs, TimeOut(r)
        PROVE  Sound'
    <2>1. ClaimsSound'
      BY <1>0, <1>18, ClaimsStep DEF TimeOut
    <2>2. SyncedMeansSent'
      BY <1>18, SyncedStep DEF TimeOut
    <2> QED
      BY <2>1, <2>2 DEF Sound
  <1>19. ASSUME NEW r \in Runs, Crash(r)
        PROVE  Sound'
    <2>1. ClaimsSound'
      BY <1>0, <1>19, ClaimsStep, DropClaims DEF Crash
    <2>2. SyncedMeansSent'
      BY <1>19, SyncedStep DEF Crash
    <2> QED
      BY <2>1, <2>2 DEF Sound
  <1>20. ASSUME NEW i \in Items, Elapse(i)
        PROVE  Sound'
    <2>1. ClaimsSound'
      BY <1>0, <1>20, ClaimsStep DEF Elapse
    <2>2. SyncedMeansSent'
      BY <1>20, SyncedStep DEF Elapse
    <2> QED
      BY <2>1, <2>2 DEF Sound
  <1>21. ASSUME NEW i \in Items, NEW q \in Quantities, Drift(i, q)
        PROVE  Sound'
    <2>1. ClaimsSound'
      BY <1>0, <1>21, ClaimsStep DEF Drift
    <2>2. SyncedMeansSent'
      BY <1>21, SyncedStep DEF Drift
    <2> QED
      BY <2>1, <2>2 DEF Sound
  <1>22. ASSUME NEW req \in net, SettleLate(req)
        PROVE  Sound'
    <2>1. ClaimsSound'
      BY <1>0, <1>22, ClaimsStep DEF SettleLate
    <2>2. SyncedMeansSent'
      BY <1>22, SyncedStep DEF SettleLate
    <2> QED
      BY <2>1, <2>2 DEF Sound
  <1>23. ASSUME NEW i \in Items, CardChange(i)
        PROVE  Sound'
    <2>1. ClaimsSound'
      BY <1>0, <1>23, ClaimsStep DEF CardChange
    <2>2. SyncedMeansSent'
      BY <1>23, SyncedStep DEF CardChange
    <2> QED
      BY <2>1, <2>2 DEF Sound
  <1>24. CASE UNCHANGED vars
    BY <1>24 DEF Sound, ClaimsSound, SyncedMeansSent, Held
  <1> QED
    BY <1>1, <1>2, <1>3, <1>4, <1>5, <1>6, <1>7, <1>8, <1>9, <1>10, <1>11,
       <1>12, <1>13, <1>14, <1>15, <1>16, <1>17, <1>18, <1>19, <1>20, <1>21,
       <1>22, <1>24, <1>23
    DEF Next, RunStep, FaultStep, Late

-----------------------------------------------------------------------------
\* The first rows and memories are well formed; nothing is claimed or synced.
LEMMA InitSound ==
  ASSUME Init
  PROVE  TypeOK /\ Sound
  <1>1. have \in [Items -> Nat] /\ remote \in [Items -> Nat]
    BY ExportAssumption DEF Init
  <1>2. TypeOK
    BY <1>1, ExportAssumption
    DEF Init, TypeOK, Zeroes, NoView, Nothing, NoAnswer, Claims, Answers,
        RowStatuses, Places
  <1>3. Sound
    BY DEF Init, Sound, ClaimsSound, SyncedMeansSent, Held, Nothing
  <1> QED
    BY <1>2, <1>3

\* Always, rows and memories hold what their fields allow.
THEOREM ExportTyping == Spec => []TypeOK
  <1>1. Init => TypeOK
    BY InitSound
  <1>2. TypeOK /\ [Next]_vars => TypeOK'
    BY TypingStep
  <1> QED
    BY <1>1, <1>2, PTL DEF Spec

\* Always, the claims of runs are sound and synced rows are sent as wanted.
THEOREM ExportSound == Spec => []Sound
  <1>1. Init => Sound
    BY InitSound
  <1>2. TypeOK /\ Sound /\ [Next]_vars => Sound'
    BY SoundStep
  <1> QED
    BY <1>1, <1>2, ExportTyping, PTL DEF Spec

\* Whatever quantities change, runs overlap, crash or get no answer: a run that
\* holds a row at its present generation read its present quantity.
THEOREM ClaimsAreSound == Spec => []ClaimsSound
  <1>1. Sound => ClaimsSound
    BY DEF Sound
  <1> QED
    BY <1>1, ExportSound, PTL

\* Whatever quantities change, runs overlap, crash or get no answer: a row is
\* marked synced only with the quantity the warehouse wants now.
THEOREM SyncedRowsAreSent == Spec => []SyncedMeansSent
  <1>1. Sound => SyncedMeansSent
    BY DEF Sound
  <1> QED
    BY <1>1, ExportSound, PTL

-----------------------------------------------------------------------------
(***************************************************************************)
(* Theorems about the exporter of an Ozon profile.  A synced row shows the *)
(* wanted quantity at Ozon (SyncedIsExported), because Ozon never has two  *)
(* updates of a row at a time (OneUpdateAtATime).                          *)
(*                                                                         *)
(* They hold as long as no product id changes (MaxRebinds = 0): a change   *)
(* makes a row due at once, although a run may be sending it.              *)
(*                                                                         *)
(* The invariants: a run of an Ozon profile does not reconcile (OzonPlaces)*)
(* and its request is the only one with its rows, which do not come due    *)
(* before it is settled (Exclusive); a row that is synced, or about to be  *)
(* marked so, is shown as wanted, and what is still under way for it       *)
(* carries the wanted quantity too (Exported).                             *)
(***************************************************************************)

OzonPlaces == \A r \in Runs : pc[r] \notin {"reconcile", "asking", "compare"}
SameCards == rebound = {}

OneRun ==
  \A r, s \in Runs : \A i \in Items : Carries(r, i) /\ Carries(s, i) => r = s
OneRequest ==
  \A p, q \in net : \A i \in Items : Asks(p, i) /\ Asks(q, i) => p = q
OwnRequest ==
  \A p \in net : \A r \in Runs : \A i \in Items :
    Asks(p, i) /\ Carries(r, i) => p = RequestOf(r)
AwaitedRequest ==
  \A p \in net : p.by # None =>
    p.by \in Runs /\ pc[p.by] = "waiting" /\ p = RequestOf(p.by)
SettledWhenDue ==
  \A i \in Items : due[i] =>
    /\ \A r \in Runs : ~Carries(r, i)
    /\ \A p \in net : ~Asks(p, i)

Exclusive ==
  OneRun /\ OneRequest /\ OwnRequest /\ AwaitedRequest /\ SettledWhenDue

\* Row i is synced, or run r is about to mark it so.
ToBeSynced(r, i) ==
  pc[r] = "report" /\ i \in Answered(r, "updated") /\ held[r][i].gen = gen[i]
Good(i) ==
  /\ remote[i] = desired[i]
  /\ \A r \in Runs : Carries(r, i) => held[r][i].qty = desired[i]
  /\ \A p \in net : Asks(p, i) => p.qty[i] = desired[i]
Exported ==
  \A i \in Items :
    (status[i] = "synced" \/ \E r \in Runs : ToBeSynced(r, i)) => Good(i)

-----------------------------------------------------------------------------
\* A run of an Ozon profile goes from its refresh straight to its claim.
LEMMA OzonPlacesStep ==
  ASSUME ~Wb, MaxRebinds = 0, TypeOK, OzonPlaces, [Next]_vars
  PROVE  OzonPlaces'
  <1> USE DEF OzonPlaces, TypeOK, GoTo
  <1>1. ASSUME NEW r \in Runs, RunStep(r)
        PROVE  OzonPlaces'
    <2>1. CASE Start(r) \/ StartRefresh(r)
      BY <2>1 DEF Start, StartRefresh
    <2>2. CASE ChooseCandidates(r) \/ ReadRemote(r) \/ Compare(r)
      BY <2>2 DEF ChooseCandidates, ReadRemote, Compare
    <2>3. CASE Claim(r)
      BY <2>3 DEF Claim
    <2>4. CASE Send(r) \/ Accept(r)
      BY <2>4 DEF Send, Accept
    <2>5. CASE ReportUpdated(r) \/ ReportFailure(r)
      BY <2>5 DEF ReportUpdated, ReportFailure
    <2>6. CASE ReportRetry(r) \/ \E i \in Items : ReportRefused(r, i)
      BY <2>6 DEF ReportRetry, ReportRefused, Remaining
    <2> QED
      BY <1>1, <2>1, <2>2, <2>3, <2>4, <2>5, <2>6 DEF RunStep
  <1>2. ASSUME NEW r \in Runs, FaultStep(r)
        PROVE  OzonPlaces'
    BY <1>2 DEF FaultStep, ReadFails, AcceptSome, Refuse, TimeOut, Crash
  <1>3. CASE UNCHANGED pc
    BY <1>3
  <1> QED
    BY <1>1, <1>2, <1>3
    DEF Next, vars, runVars, Elapse, CardChange, StockChange, Drift,
        RefreshOnCommit, Late, SettleLate

\* Without a bound on changes of product ids above zero there are none.
LEMMA SameCardsStep ==
  ASSUME MaxRebinds = 0, TypeOK, SameCards, [Next]_vars
  PROVE  SameCards'
  <1>1. ASSUME NEW i \in Items, CardChange(i)
        PROVE  SameCards'
    BY <1>1 DEF CardChange, TypeOK
  <1>2. CASE rebound' \in {rebound, {}}
    BY <1>2 DEF SameCards
  <1>3. ASSUME NEW r \in Runs, RunStep(r) \/ FaultStep(r)
        PROVE  rebound' \in {rebound, {}}
    BY <1>3
    DEF RunStep, FaultStep, cardVars, Start, StartRefresh, ChooseCandidates,
        ReadRemote, Compare, Claim, Send, Accept, ReportUpdated, ReportFailure,
        ReportRetry, ReportRefused, ReadFails, AcceptSome, Refuse, TimeOut, Crash
  <1> QED
    BY <1>1, <1>2, <1>3
    DEF Next, vars, cardVars, Elapse, StockChange, Drift, RefreshOnCommit, Late,
        SettleLate

-----------------------------------------------------------------------------
\* A step that takes up no update, sends none and makes no row due leaves every
\* update alone with its rows.
LEMMA ExclusiveKept ==
  ASSUME Exclusive,
         \A r \in Runs : pc'[r] \in {"send", "waiting"} =>
                            pc'[r] = pc[r] /\ held'[r] = held[r],
         net' \subseteq net,
         \A p \in net' : p.by # None => pc'[p.by] = "waiting",
         \A i \in Items : due'[i] => due[i]
  PROVE  Exclusive'
  <1>1. \A r \in Runs : \A i \in Items : Carries(r, i)' => Carries(r, i)
    BY DEF Carries, Held
  <1>2. \A r \in Runs : pc'[r] \in {"send", "waiting"} =>
                            RequestOf(r)' = RequestOf(r)
    BY DEF RequestOf
  <1>3. OneRun' /\ OneRequest' /\ SettledWhenDue'
    BY <1>1 DEF Exclusive, OneRun, OneRequest, SettledWhenDue, Asks
  <1>4. OwnRequest'
    BY <1>1, <1>2 DEF Exclusive, OwnRequest, Asks, Carries
  <1>5. AwaitedRequest'
    BY <1>2 DEF Exclusive, AwaitedRequest
  <1> QED
    BY <1>3, <1>4, <1>5 DEF Exclusive

\* The request a run waits for is the only one in its name.
LEMMA OnlyRequest ==
  ASSUME Exclusive, NEW r, NEW p \in net, p.by = r, r # None
  PROVE  p = RequestOf(r) /\ pc[r] = "waiting"
  BY DEF Exclusive, AwaitedRequest

\* Claimed rows were due, so nobody else has an update of them under way.
LEMMA ExclusiveClaim ==
  ASSUME TypeOK, Exclusive, NEW r \in Runs, Claim(r)
  PROVE  Exclusive'
  <1>1. PICK batch \in SUBSET Items :
           /\ \A i \in batch : due[i]
           /\ due' = [i \in Items |-> due[i] /\ i \notin batch]
           /\ held' = [held EXCEPT ![r] = [i \in Items |->
                IF i \in batch THEN [gen |-> gen[i], qty |-> desired[i]]
                ELSE NoClaim]]
           /\ GoTo(r, IF batch = {} THEN "idle" ELSE "send")
    BY DEF Claim
  <1>2. /\ pc[r] = "claim" /\ UNCHANGED net
        /\ \A s \in Runs \ {r} : pc'[s] = pc[s] /\ held'[s] = held[s]
        /\ pc'[r] \in {"idle", "send"}
    BY <1>1 DEF Claim, TypeOK, GoTo
  <1>3. \A i \in Items : Carries(r, i)' => i \in batch
    BY <1>1 DEF Carries, Held, TypeOK
  <1>4. \A s \in Runs \ {r} : \A i \in Items : Carries(s, i)' => Carries(s, i)
    BY <1>2 DEF Carries, Held
  <1>5. \A i \in batch : /\ \A s \in Runs : ~Carries(s, i)
                        /\ \A p \in net : ~Asks(p, i)
    BY <1>1 DEF Exclusive, SettledWhenDue
  <1>6. OneRun'
    BY <1>3, <1>4, <1>5 DEF Exclusive, OneRun
  <1>7. OneRequest'
    BY <1>2 DEF Exclusive, OneRequest, Asks
  <1>8. OwnRequest'
    <2>1. \A s \in Runs \ {r} : RequestOf(s)' = RequestOf(s)
      BY <1>2 DEF RequestOf
    <2> QED
      BY <1>2, <1>3, <1>4, <1>5, <2>1 DEF Exclusive, OwnRequest, Asks
  <1>9. AwaitedRequest'
    <2> SUFFICES ASSUME NEW p \in net, p.by # None
                 PROVE  p.by \in Runs /\ pc'[p.by] = "waiting" /\ p = RequestOf(p.by)'
      BY <1>2 DEF AwaitedRequest
    <2>1. p.by \in Runs /\ pc[p.by] = "waiting" /\ p = RequestOf(p.by)
      BY DEF Exclusive, AwaitedRequest
    <2> QED
      BY <1>2, <2>1 DEF RequestOf
  <1>10. SettledWhenDue'
    <2>1. \A i \in Items : due'[i] => due[i] /\ i \notin batch
      BY <1>1
    <2> QED
      BY <1>2, <1>3, <1>4, <2>1 DEF Exclusive, SettledWhenDue, Asks
  <1> QED
    BY <1>6, <1>7, <1>8, <1>9, <1>10 DEF Exclusive

\* A run sends the one request for the rows it holds.
LEMMA ExclusiveSend ==
  ASSUME TypeOK, Exclusive, NEW r \in Runs, Send(r)
  PROVE  Exclusive'
  <1>1. /\ pc[r] = "send" /\ pc' = [pc EXCEPT ![r] = "waiting"]
        /\ net' = net \cup {RequestOf(r)} /\ UNCHANGED <<held, due>>
    BY DEF Send, GoTo, rowVars
  <1>2. /\ \A s \in Runs : RequestOf(s)' = RequestOf(s)
        /\ \A s \in Runs : \A i \in Items : Carries(s, i)' <=> Carries(s, i)
    BY <1>1 DEF RequestOf, Carries, Held, TypeOK
  <1>3. \A i \in Items : Asks(RequestOf(r), i) => Carries(r, i)
    BY <1>1 DEF Asks, RequestOf, Carries, Held, NoClaim, TypeOK
  <1>4. RequestOf(r).by = r
    BY DEF RequestOf
  <1>5. OneRun'
    BY <1>2 DEF Exclusive, OneRun
  <1>6. OneRequest'
    BY <1>1, <1>3 DEF Exclusive, OneRequest, OwnRequest, Asks
  <1>7. OwnRequest'
    BY <1>1, <1>2, <1>3 DEF Exclusive, OwnRequest, OneRun, Asks
  <1>8. AwaitedRequest'
    BY <1>1, <1>2, <1>4 DEF Exclusive, AwaitedRequest, TypeOK
  <1>9. SettledWhenDue'
    BY <1>1, <1>2, <1>3 DEF Exclusive, SettledWhenDue, Asks
  <1> QED
    BY <1>5, <1>6, <1>7, <1>8, <1>9 DEF Exclusive

\* The request of a run that gave up or crashed stays the only one with its
\* rows, in nobody's name.
LEMMA ExclusiveAbandon ==
  ASSUME TypeOK, Exclusive, NEW r \in Runs, net' = Abandoned(r),
         pc'[r] \notin {"send", "waiting"}, UNCHANGED due,
         \A s \in Runs \ {r} : pc'[s] = pc[s] /\ held'[s] = held[s]
  PROVE  Exclusive'
  <1> DEFINE Left(req) == IF req.by = r THEN [req EXCEPT !.by = None] ELSE req
  <1>1. \A p \in net' : \E req \in net : p = Left(req)
    BY DEF Abandoned
  <1>2. \A req \in net : \A i \in Items :
          /\ Asks(Left(req), i) => Asks(req, i)
          /\ Left(req).by # None => req.by # r /\ Left(req) = req
    BY DEF Asks, TypeOK, Requests
  <1>3. /\ \A s \in Runs : \A i \in Items :
             Carries(s, i)' => s # r /\ Carries(s, i)
        /\ \A s \in Runs \ {r} : RequestOf(s)' = RequestOf(s)
        /\ \A s \in Runs : RequestOf(s).by = s
    BY DEF Carries, Held, RequestOf
  <1>4. OneRun'
    BY <1>3 DEF Exclusive, OneRun
  <1>5. OneRequest'
    <2> SUFFICES ASSUME NEW p \in net', NEW q \in net', NEW i \in Items,
                        Asks(p, i), Asks(q, i)
                 PROVE  p = q
      BY DEF OneRequest, Asks
    <2>1. PICK a \in net : p = Left(a)
      BY <1>1
    <2>2. PICK b \in net : q = Left(b)
      BY <1>1
    <2>3. Asks(a, i) /\ Asks(b, i)
      BY <1>2, <2>1, <2>2
    <2> QED
      BY <2>1, <2>2, <2>3 DEF Exclusive, OneRequest
  <1>6. OwnRequest'
    <2> SUFFICES ASSUME NEW p \in net', NEW s \in Runs, NEW i \in Items,
                        Asks(p, i), Carries(s, i)'
                 PROVE  p = RequestOf(s)'
      BY DEF OwnRequest, Asks
    <2>1. PICK a \in net : p = Left(a)
      BY <1>1
    <2>2. s # r /\ Carries(s, i) /\ Asks(a, i)
      BY <1>2, <1>3, <2>1
    <2>3. a = RequestOf(s)
      BY <2>2 DEF Exclusive, OwnRequest
    <2> QED
      BY <1>3, <2>1, <2>2, <2>3
  <1>7. AwaitedRequest'
    <2> SUFFICES ASSUME NEW p \in net', p.by # None
                 PROVE  p.by \in Runs /\ pc'[p.by] = "waiting" /\ p = RequestOf(p.by)'
      BY DEF AwaitedRequest
    <2>1. PICK a \in net : p = Left(a)
      BY <1>1
    <2>2. p = a /\ a.by # r
      <3>1. CASE a.by = r
        BY <2>1, <3>1 DEF TypeOK, Requests
      <3> QED
        BY <2>1, <3>1
    <2>3. p.by \in Runs /\ pc[p.by] = "waiting" /\ p = RequestOf(p.by)
      BY <2>2 DEF Exclusive, AwaitedRequest
    <2> QED
      BY <1>3, <2>2, <2>3
  <1>8. SettledWhenDue'
    <2> SUFFICES ASSUME NEW i \in Items, due[i]
                 PROVE  /\ \A s \in Runs : ~Carries(s, i)'
                        /\ \A p \in net' : ~Asks(p, i)
      BY DEF SettledWhenDue, Asks
    <2> QED
      BY <1>1, <1>2, <1>3 DEF Exclusive, SettledWhenDue
  <1> QED
    BY <1>4, <1>5, <1>6, <1>7, <1>8 DEF Exclusive

-----------------------------------------------------------------------------
\* Every step leaves every update alone with its rows.
LEMMA ExclusiveStep ==
  ASSUME ~Wb, MaxRebinds = 0, TypeOK, OzonPlaces, SameCards, Exclusive, [Next]_vars
  PROVE  Exclusive'
  <1> USE DEF vars, rowVars, runVars, cardVars
  <1>1. ASSUME NEW i \in Items, NEW q \in Quantities, StockChange(i, q)
        PROVE  Exclusive'
    BY <1>1, ExclusiveKept, OnlyRequest DEF StockChange, Exclusive, AwaitedRequest
  <1>2. ASSUME NEW c \in 1..MaxChanges, RefreshOnCommit(c)
        PROVE  Exclusive'
    <2>1. \A i \in Items : due'[i] => due[i]
      BY <1>2 DEF RefreshOnCommit, Refresh, DueAfter, SameCards
    <2> QED
      BY <1>2, <2>1, ExclusiveKept DEF RefreshOnCommit, Exclusive, AwaitedRequest
  <1>3. ASSUME NEW r \in Runs, Start(r)
        PROVE  Exclusive'
    <2>1. \A i \in Items : due'[i] => due[i]
      BY <1>3 DEF Start, DueAfter, SameCards
    <2> QED
      BY <1>3, <2>1, ExclusiveKept
      DEF Start, GoTo, TypeOK, Exclusive, AwaitedRequest
  <1>4. ASSUME NEW r \in Runs, StartRefresh(r)
        PROVE  Exclusive'
    <2>1. \A i \in Items : due'[i] => due[i]
      BY <1>4 DEF StartRefresh, Refresh, DueAfter
    <2> QED
      BY <1>4, <2>1, ExclusiveKept
      DEF StartRefresh, GoTo, TypeOK, Exclusive, AwaitedRequest
  <1>5. ASSUME NEW r \in Runs, ChooseCandidates(r) \/ ReadRemote(r) \/ Compare(r)
        PROVE  Exclusive'
    BY <1>5 DEF ChooseCandidates, ReadRemote, Compare, OzonPlaces
  <1>6. ASSUME NEW r \in Runs, Claim(r)
        PROVE  Exclusive'
    BY <1>6, ExclusiveClaim
  <1>7. ASSUME NEW r \in Runs, Send(r)
        PROVE  Exclusive'
    BY <1>7, ExclusiveSend
  <1>8. ASSUME NEW r \in Runs, Accept(r)
        PROVE  Exclusive'
    <2>1. \A p \in net' : p.by # None => p.by \in Runs \ {r} /\ pc[p.by] = "waiting"
      BY <1>8, ExportAssumption DEF Accept, Exclusive, AwaitedRequest
    <2> QED
      BY <1>8, <2>1, ExclusiveKept DEF Accept, GoTo, TypeOK
  <1>9. ASSUME NEW r \in Runs, AcceptSome(r)
        PROVE  Exclusive'
    <2>1. \A p \in net' : p.by # None => p.by \in Runs \ {r} /\ pc[p.by] = "waiting"
      BY <1>9, ExportAssumption DEF AcceptSome, Exclusive, AwaitedRequest
    <2> QED
      BY <1>9, <2>1, ExclusiveKept DEF AcceptSome, GoTo, TypeOK
  <1>10. ASSUME NEW r \in Runs, Refuse(r)
        PROVE  Exclusive'
    <2>1. \A p \in net' : p.by # None => p.by \in Runs \ {r} /\ pc[p.by] = "waiting"
      BY <1>10, ExportAssumption DEF Refuse, Exclusive, AwaitedRequest
    <2> QED
      BY <1>10, <2>1, ExclusiveKept DEF Refuse, GoTo, TypeOK
  <1>11. ASSUME NEW r \in Runs, ReportUpdated(r)
        PROVE  Exclusive'
    <2>1. /\ pc[r] = "report" /\ pc'[r] \in {"idle", "rest"} /\ UNCHANGED net
          /\ \A s \in Runs \ {r} : pc'[s] = pc[s] /\ held'[s] = held[s]
          /\ \A i \in Items : due'[i] => due[i]
      BY <1>11 DEF ReportUpdated, GoTo, Drop, TypeOK
    <2> QED
      BY <2>1, ExclusiveKept DEF Exclusive, AwaitedRequest
  <1>12. ASSUME NEW r \in Runs, ReportFailure(r)
        PROVE  Exclusive'
    BY <1>12, ExclusiveKept
    DEF ReportFailure, GoTo, Drop, TypeOK, Exclusive, AwaitedRequest
  <1>13. ASSUME NEW r \in Runs, ReportRetry(r)
        PROVE  Exclusive'
    <2>1. /\ pc[r] = "rest" /\ pc'[r] \in {"idle", "rest"} /\ UNCHANGED <<net, due>>
          /\ \A s \in Runs \ {r} : pc'[s] = pc[s] /\ held'[s] = held[s]
      BY <1>13 DEF ReportRetry, Remaining, GoTo, Drop, TypeOK
    <2> QED
      BY <2>1, ExclusiveKept DEF Exclusive, AwaitedRequest
  <1>14. ASSUME NEW r \in Runs, NEW i \in Items, ReportRefused(r, i)
        PROVE  Exclusive'
    <2>1. /\ pc[r] = "rest" /\ pc'[r] \in {"idle", "rest"} /\ UNCHANGED <<net, due>>
          /\ \A s \in Runs \ {r} : pc'[s] = pc[s] /\ held'[s] = held[s]
      BY <1>14 DEF ReportRefused, Remaining, GoTo, Drop, TypeOK
    <2> QED
      BY <2>1, ExclusiveKept DEF Exclusive, AwaitedRequest
  <1>15. ASSUME NEW r \in Runs, ReadFails(r)
        PROVE  Exclusive'
    BY <1>15 DEF ReadFails, OzonPlaces
  <1>16. ASSUME NEW r \in Runs, TimeOut(r)
        PROVE  Exclusive'
    BY <1>16, ExclusiveAbandon DEF TimeOut, GoTo, TypeOK
  <1>17. ASSUME NEW r \in Runs, Crash(r)
        PROVE  Exclusive'
    BY <1>17, ExclusiveAbandon DEF Crash, GoTo, Drop, TypeOK
  <1>18. ASSUME NEW i \in Items, Elapse(i)
        PROVE  Exclusive'
    <2>1. /\ UNCHANGED <<pc, held, net>>
          /\ \A j \in Items \ {i} : due'[j] = due[j]
          /\ \A r \in Runs : ~Carries(r, i)
          /\ \A p \in net : ~Asks(p, i)
      BY <1>18 DEF Elapse, TypeOK
    <2>2. OneRun' /\ OneRequest' /\ OwnRequest' /\ AwaitedRequest'
      BY <2>1 DEF Exclusive, OneRun, OneRequest, OwnRequest, AwaitedRequest,
                  Carries, Held, Asks, RequestOf
    <2>3. SettledWhenDue'
      BY <2>1 DEF Exclusive, SettledWhenDue, Carries, Held, Asks
    <2> QED
      BY <2>2, <2>3 DEF Exclusive
  <1>19. ASSUME NEW i \in Items, NEW q \in Quantities, Drift(i, q)
        PROVE  Exclusive'
    BY <1>19 DEF Drift
  <1>20. ASSUME NEW req \in net, SettleLate(req)
        PROVE  Exclusive'
    BY <1>20, ExclusiveKept DEF SettleLate, Exclusive, AwaitedRequest
  <1>22. ASSUME NEW i \in Items, CardChange(i)
        PROVE  Exclusive'
    BY <1>22, ExclusiveKept DEF CardChange, Exclusive, AwaitedRequest
  <1>21. CASE UNCHANGED vars
    BY <1>21, ExclusiveKept DEF Exclusive, AwaitedRequest
  <1> QED
    BY <1>1, <1>2, <1>3, <1>4, <1>5, <1>6, <1>7, <1>8, <1>9, <1>10, <1>11,
       <1>12, <1>13, <1>14, <1>15, <1>16, <1>17, <1>18, <1>19, <1>20, <1>21, <1>22
    DEF Next, RunStep, FaultStep, Late

-----------------------------------------------------------------------------
\* A step that changes no wanted quantity, shows no row differently, takes up
\* no update and makes no row synced keeps what is exported.
LEMMA ExportedKept ==
  ASSUME Exported, UNCHANGED <<desired, gen, remote>>, net' \subseteq net,
         \A r \in Runs : pc'[r] \in {"send", "waiting"} =>
                            pc'[r] = pc[r] /\ held'[r] = held[r],
         \A r \in Runs : pc'[r] = "report" =>
                            /\ pc'[r] = pc[r]
                            /\ held'[r] = held[r] /\ answer'[r] = answer[r],
         \A i \in Items : status'[i] = "synced" =>
                            \/ status[i] = "synced"
                            \/ \E r \in Runs : ToBeSynced(r, i)
  PROVE  Exported'
  <1> SUFFICES ASSUME NEW i \in Items,
                      status'[i] = "synced" \/ \E r \in Runs : ToBeSynced(r, i)'
               PROVE  Good(i)'
    BY DEF Exported
  <1>1. \A r \in Runs : ToBeSynced(r, i)' => ToBeSynced(r, i)
    BY DEF ToBeSynced, Answered, Held
  <1>2. Good(i)
    BY <1>1 DEF Exported
  <1>3. \A r \in Runs : Carries(r, i)' => Carries(r, i) /\ held'[r] = held[r]
    BY DEF Carries, Held
  <1> QED
    BY <1>2, <1>3 DEF Good, Asks

\* A refresh that changes the wanted quantity of a row takes it back from
\* being synced and gives it a generation of its own.
LEMMA ExportedRefresh ==
  ASSUME TypeOK, Sound, Exported, NEW view \in [Items -> Nat],
         Refresh(view, {}),
         UNCHANGED <<remote, held, answer, net>>,
         \A r \in Runs : pc'[r] \in {"send", "waiting", "report"} => pc'[r] = pc[r]
  PROVE  Exported'
  <1> SUFFICES ASSUME NEW i \in Items,
                      status'[i] = "synced" \/ \E r \in Runs : ToBeSynced(r, i)'
               PROVE  Good(i)'
    BY DEF Exported
  <1>1. /\ gen[i] \in Nat /\ desired' = view
        /\ gen'[i] = IF desired[i] # view[i] THEN gen[i] + 1 ELSE gen[i]
    BY DEF Refresh, Generations, TypeOK
  <1>2. ASSUME NEW r \in Runs, ToBeSynced(r, i)'
        PROVE  ToBeSynced(r, i) /\ desired'[i] = desired[i]
    <2>1. /\ i \in Held(r) /\ held[r][i].gen = gen'[i]
          /\ pc[r] = "report" /\ i \in Answered(r, "updated")
      BY <1>2 DEF ToBeSynced, Answered, Held
    <2>2. held[r][i].gen <= gen[i] /\ held[r][i].gen \in Nat
      BY <2>1, ClaimOfHeld DEF Sound, ClaimsSound
    <2> QED
      BY <1>1, <2>1, <2>2 DEF ToBeSynced
  <1>3. CASE status'[i] = "synced"
    <2>1. status[i] = "synced" /\ desired[i] = view[i]
      BY <1>3 DEF Refresh
    <2> QED
      BY <1>1, <2>1 DEF Exported, Good, Carries, Held, Asks
  <1>4. CASE \E r \in Runs : ToBeSynced(r, i)'
    <2>1. Good(i) /\ desired'[i] = desired[i]
      BY <1>2, <1>4 DEF Exported
    <2> QED
      BY <2>1 DEF Good, Carries, Held, Asks
  <1> QED
    BY <1>3, <1>4

\* Claimed rows are claimed with the quantity wanted now.
LEMMA ExportedClaim ==
  ASSUME TypeOK, Exported, NEW r \in Runs, Claim(r)
  PROVE  Exported'
  <1>1. PICK batch \in SUBSET Items :
           /\ held' = [held EXCEPT ![r] = [i \in Items |->
                IF i \in batch THEN [gen |-> gen[i], qty |-> desired[i]]
                ELSE NoClaim]]
           /\ GoTo(r, IF batch = {} THEN "idle" ELSE "send")
           /\ status' = [i \in Items |->
                           IF i \in batch THEN "sending" ELSE Recovered(i)]
    BY DEF Claim
  <1>2. /\ UNCHANGED <<desired, gen, remote, net, answer>>
        /\ \A s \in Runs \ {r} : pc'[s] = pc[s] /\ held'[s] = held[s]
        /\ pc'[r] \in {"idle", "send"}
    BY <1>1 DEF Claim, TypeOK, GoTo
  <1> SUFFICES ASSUME NEW i \in Items,
                      status'[i] = "synced" \/ \E s \in Runs : ToBeSynced(s, i)'
               PROVE  Good(i)'
    BY DEF Exported
  <1>3. status'[i] = "synced" => status[i] = "synced"
    BY <1>1 DEF Recovered, TypeOK
  <1>4. \A s \in Runs : ToBeSynced(s, i)' => ToBeSynced(s, i)
    BY <1>2 DEF ToBeSynced, Answered, Held
  <1>5. Good(i)
    BY <1>3, <1>4 DEF Exported
  <1>6. Carries(r, i)' => held'[r][i].qty = desired[i]
    BY <1>1 DEF Carries, Held, TypeOK
  <1>7. \A s \in Runs \ {r} : Carries(s, i)' => Carries(s, i)
    BY <1>2 DEF Carries, Held
  <1> QED
    BY <1>2, <1>5, <1>6, <1>7 DEF Good, Asks

\* A request carries what its run claimed.
LEMMA ExportedSend ==
  ASSUME TypeOK, Exported, NEW r \in Runs, Send(r)
  PROVE  Exported'
  <1>1. /\ pc[r] = "send" /\ pc' = [pc EXCEPT ![r] = "waiting"]
        /\ net' = net \cup {RequestOf(r)}
        /\ UNCHANGED <<held, answer, desired, gen, remote, status>>
    BY DEF Send, GoTo, rowVars
  <1> SUFFICES ASSUME NEW i \in Items,
                      status'[i] = "synced" \/ \E s \in Runs : ToBeSynced(s, i)'
               PROVE  Good(i)'
    BY DEF Exported
  <1>2. \A s \in Runs : ToBeSynced(s, i)' => ToBeSynced(s, i)
    BY <1>1 DEF ToBeSynced, Answered, Held, TypeOK
  <1>3. Good(i)
    BY <1>1, <1>2 DEF Exported
  <1>4. \A s \in Runs : Carries(s, i)' <=> Carries(s, i)
    BY <1>1 DEF Carries, Held, TypeOK
  <1>5. Asks(RequestOf(r), i) =>
          Carries(r, i) /\ RequestOf(r).qty[i] = held[r][i].qty
    BY <1>1 DEF Asks, RequestOf, Carries, Held, NoClaim, TypeOK
  <1> QED
    BY <1>1, <1>3, <1>4, <1>5 DEF Good, Asks

\* What Ozon carries out of a request is the only update of its rows, and is
\* marked as synced only if it is still wanted.
LEMMA ExportedAnswer ==
  ASSUME TypeOK, Sound, Exclusive, Exported, NEW r \in Runs, NEW rows \in SUBSET Held(r),
         pc[r] = "waiting", RequestOf(r) \in net, GoTo(r, "report"),
         CarryOut(RequestOf(r), rows), net' = net \ {RequestOf(r)},
         \A i \in Held(r) : answer'[r][i] = "updated" => i \in rows,
         \A s \in Runs \ {r} : answer'[s] = answer[s],
         UNCHANGED <<held, desired, gen, status>>
  PROVE  Exported'
  <1> SUFFICES ASSUME NEW i \in Items,
                      status'[i] = "synced" \/ \E s \in Runs : ToBeSynced(s, i)'
               PROVE  Good(i)'
    BY DEF Exported
  <1>1. /\ pc'[r] = "report"
        /\ \A s \in Runs \ {r} : pc'[s] = pc[s]
        /\ \A j \in rows : remote'[j] = held[r][j].qty
        /\ i \notin rows => remote'[i] = remote[i]
    BY DEF GoTo, TypeOK, CarryOut, RequestOf, Held
  <1>2. \A s \in Runs : Carries(s, i)' => s # r /\ Carries(s, i)
    BY <1>1 DEF Carries, Held
  <1>3. CASE i \in rows /\ held[r][i].gen = gen[i]
    <2>1. Carries(r, i) /\ held[r][i].qty = desired[i]
      BY <1>3 DEF Carries, Sound, ClaimsSound
    <2>2. \A s \in Runs : ~Carries(s, i)'
      BY <1>2, <2>1 DEF Exclusive, OneRun
    <2>3. \A p \in net' : ~Asks(p, i)
      BY <2>1 DEF Exclusive, OwnRequest
    <2> QED
      BY <1>1, <1>3, <2>1, <2>2, <2>3 DEF Good, Asks
  <1>4. CASE ~(i \in rows /\ held[r][i].gen = gen[i])
    <2>1. \A s \in Runs : ToBeSynced(s, i)' => ToBeSynced(s, i)
      BY <1>1, <1>4 DEF ToBeSynced, Answered, Held
    <2>2. Good(i)
      BY <2>1 DEF Exported
    <2>3. remote'[i] = desired[i]
      <3>1. CASE i \in rows
        <4>1. Carries(r, i)
          BY <3>1 DEF Carries
        <4> QED
          BY <1>1, <2>2, <3>1, <4>1 DEF Good
      <3> QED
        BY <1>1, <2>2, <3>1 DEF Good
    <2> QED
      BY <1>2, <2>2, <2>3 DEF Good, Asks
  <1> QED
    BY <1>3, <1>4

-----------------------------------------------------------------------------
\* Every step keeps what is exported.
LEMMA ExportedStep ==
  ASSUME ~Wb, MaxRebinds = 0, TypeOK, Sound, OzonPlaces, SameCards, Exclusive, Exported, [Next]_vars
  PROVE  Exported'
  <1> USE DEF vars, rowVars, runVars, cardVars
  <1>1. ASSUME NEW i \in Items, NEW q \in Quantities, StockChange(i, q)
        PROVE  Exported'
    BY <1>1, ExportedKept DEF StockChange
  <1>2. ASSUME NEW c \in 1..MaxChanges, RefreshOnCommit(c)
        PROVE  Exported'
    <2>1. views[c] \in [Items -> Nat]
      BY <1>2 DEF RefreshOnCommit, TypeOK
    <2> QED
      BY <1>2, <2>1, ExportedRefresh DEF RefreshOnCommit, SameCards
  <1>3. ASSUME NEW r \in Runs, Start(r)
        PROVE  Exported'
    BY <1>3, ExportedKept DEF Start, GoTo, TypeOK
  <1>4. ASSUME NEW r \in Runs, StartRefresh(r)
        PROVE  Exported'
    <2>1. seen[r] \in [Items -> Nat]
      BY <1>4 DEF StartRefresh, TypeOK
    <2> QED
      BY <1>4, <2>1, ExportedRefresh DEF StartRefresh, GoTo, TypeOK
  <1>5. ASSUME NEW r \in Runs, ChooseCandidates(r) \/ ReadRemote(r) \/ Compare(r)
        PROVE  Exported'
    BY <1>5 DEF ChooseCandidates, ReadRemote, Compare, OzonPlaces
  <1>6. ASSUME NEW r \in Runs, Claim(r)
        PROVE  Exported'
    BY <1>6, ExportedClaim
  <1>7. ASSUME NEW r \in Runs, Send(r)
        PROVE  Exported'
    BY <1>7, ExportedSend
  <1>8. ASSUME NEW r \in Runs, Accept(r)
        PROVE  Exported'
    BY <1>8, ExportedAnswer DEF Accept, TypeOK
  <1>9. ASSUME NEW r \in Runs, AcceptSome(r)
        PROVE  Exported'
    <2>1. PICK words \in [Held(r) -> Answers \ {"none"}] :
             /\ answer' = [answer EXCEPT ![r] = [i \in Items |->
                             IF i \in Held(r) THEN words[i] ELSE "none"]]
             /\ CarryOut(RequestOf(r), {i \in Held(r) : words[i] = "updated"})
      BY <1>9 DEF AcceptSome
    <2> DEFINE rows == {i \in Held(r) : words[i] = "updated"}
    <2>2. /\ rows \in SUBSET Held(r)
          /\ \A i \in Held(r) : answer'[r][i] = "updated" => i \in rows
          /\ \A s \in Runs \ {r} : answer'[s] = answer[s]
      BY <2>1 DEF TypeOK, Held
    <2>3. CarryOut(RequestOf(r), rows)
      BY <2>1
    <2> HIDE DEF rows
    <2> QED
      BY <1>9, <2>2, <2>3, ExportedAnswer DEF AcceptSome
  <1>10. ASSUME NEW r \in Runs, Refuse(r)
        PROVE  Exported'
    BY <1>10, ExportedKept DEF Refuse, GoTo, TypeOK
  <1>11. ASSUME NEW r \in Runs, ReportUpdated(r)
        PROVE  Exported'
    <2>1. /\ pc[r] = "report" /\ pc'[r] \in {"idle", "rest"}
          /\ UNCHANGED <<desired, gen, remote, net>>
          /\ \A s \in Runs \ {r} : /\ pc'[s] = pc[s] /\ held'[s] = held[s]
                                 /\ answer'[s] = answer[s]
      BY <1>11 DEF ReportUpdated, GoTo, Drop, TypeOK
    <2>2. ASSUME NEW i \in Items, status'[i] = "synced"
          PROVE  status[i] = "synced" \/ ToBeSynced(r, i)
      BY <1>11, <2>2 DEF ReportUpdated, Sent, ToBeSynced
    <2> QED
      BY <2>1, <2>2, ExportedKept
  <1>12. ASSUME NEW r \in Runs, ReportFailure(r)
        PROVE  Exported'
    BY <1>12, ExportedKept DEF ReportFailure, GoTo, Drop, TypeOK
  <1>13. ASSUME NEW r \in Runs, ReportRetry(r)
        PROVE  Exported'
    <2>1. /\ pc[r] = "rest" /\ pc'[r] \in {"idle", "rest"}
          /\ UNCHANGED <<desired, gen, remote, net>>
          /\ \A s \in Runs \ {r} : /\ pc'[s] = pc[s] /\ held'[s] = held[s]
                                 /\ answer'[s] = answer[s]
          /\ \A i \in Items : status'[i] = "synced" => status[i] = "synced"
      BY <1>13 DEF ReportRetry, Remaining, GoTo, Drop, TypeOK
    <2> QED
      BY <2>1, ExportedKept
  <1>14. ASSUME NEW r \in Runs, NEW i \in Items, ReportRefused(r, i)
        PROVE  Exported'
    <2>1. /\ pc[r] = "rest" /\ pc'[r] \in {"idle", "rest"}
          /\ UNCHANGED <<desired, gen, remote, net>>
          /\ \A s \in Runs \ {r} : /\ pc'[s] = pc[s] /\ held'[s] = held[s]
                                 /\ answer'[s] = answer[s]
          /\ \A j \in Items : status'[j] = "synced" => status[j] = "synced"
      BY <1>14 DEF ReportRefused, Remaining, GoTo, Drop, TypeOK
    <2> QED
      BY <2>1, ExportedKept
  <1>15. ASSUME NEW r \in Runs, ReadFails(r)
        PROVE  Exported'
    BY <1>15 DEF ReadFails, OzonPlaces
  <1>16. ASSUME NEW r \in Runs, TimeOut(r) \/ Crash(r)
        PROVE  Exported'
    <2>1. /\ pc'[r] \in {"failed", "idle"}
          /\ net' = Abandoned(r) /\ UNCHANGED <<desired, gen, remote, status>>
          /\ \A s \in Runs \ {r} : /\ pc'[s] = pc[s] /\ held'[s] = held[s]
                                 /\ answer'[s] = answer[s]
      BY <1>16 DEF TimeOut, Crash, GoTo, Drop, TypeOK
    <2>2. \A p \in net' : \E req \in net : p.qty = req.qty
      BY <2>1 DEF Abandoned, TypeOK, Requests
    <2> SUFFICES ASSUME NEW i \in Items,
                        status'[i] = "synced" \/ \E s \in Runs : ToBeSynced(s, i)'
                 PROVE  Good(i)'
      BY DEF Exported
    <2>3. \A s \in Runs : ToBeSynced(s, i)' => ToBeSynced(s, i)
      BY <2>1 DEF ToBeSynced, Answered, Held
    <2>4. Good(i)
      BY <2>1, <2>3 DEF Exported
    <2>5. \A s \in Runs : Carries(s, i)' => s # r /\ Carries(s, i)
      BY <2>1 DEF Carries, Held
    <2> QED
      BY <2>1, <2>2, <2>4, <2>5 DEF Good, Asks
  <1>17. ASSUME NEW i \in Items, Elapse(i)
        PROVE  Exported'
    BY <1>17, ExportedKept DEF Elapse
  <1>18. ASSUME NEW i \in Items, NEW q \in Quantities, Drift(i, q)
        PROVE  Exported'
    BY <1>18 DEF Drift
  <1>19. ASSUME NEW req \in net, SettleLate(req)
        PROVE  Exported'
    <2> SUFFICES ASSUME NEW i \in Items,
                        status'[i] = "synced" \/ \E s \in Runs : ToBeSynced(s, i)'
                 PROVE  Good(i)'
      BY DEF Exported
    <2>1. Good(i)
      BY <1>19 DEF SettleLate, Exported, ToBeSynced, Answered, Held
    <2>2. remote'[i] = desired[i]
      BY <1>19, <2>1 DEF SettleLate, CarryOut, Good
    <2> QED
      BY <1>19, <2>1, <2>2 DEF SettleLate, Good, Carries, Held, Asks
  <1>21. ASSUME NEW i \in Items, CardChange(i)
        PROVE  Exported'
    BY <1>21, ExportedKept DEF CardChange
  <1>20. CASE UNCHANGED vars
    BY <1>20, ExportedKept
  <1> QED
    BY <1>1, <1>2, <1>3, <1>4, <1>5, <1>6, <1>7, <1>8, <1>9, <1>10, <1>11,
       <1>12, <1>13, <1>14, <1>15, <1>16, <1>17, <1>18, <1>19, <1>20, <1>21
    DEF Next, RunStep, FaultStep, Late

-----------------------------------------------------------------------------
\* A set without two elements has at most one.
LEMMA AtMostOne ==
  ASSUME NEW S, \A x, y \in S : x = y
  PROVE  Cardinality(S) <= 1
  <1>1. CASE S = {}
    BY <1>1, FS_EmptySet
  <1>2. CASE S # {}
    <2>1. PICK x \in S : S = {x}
      BY <1>2
    <2> QED
      BY <2>1, FS_Singleton
  <1> QED
    BY <1>1, <1>2

\* Nothing is under way or synced at first.
LEMMA InitExclusive ==
  ASSUME ~Wb, MaxRebinds = 0, Init
  PROVE  OzonPlaces /\ SameCards /\ Exclusive /\ Exported
  <1>1. /\ net = {} /\ rebound = {} /\ \A r \in Runs : pc[r] = "idle"
        /\ \A i \in Items : status[i] = "pending"
    BY DEF Init
  <1> QED
    BY <1>1 DEF OzonPlaces, SameCards, Exclusive, OneRun, OneRequest, OwnRequest,
                AwaitedRequest, SettledWhenDue, Exported, ToBeSynced, Carries

\* Always, for an Ozon profile, the request of a run is the only one with its
\* rows and what is synced is shown as wanted.
THEOREM OzonInvariant ==
  ASSUME ~Wb, MaxRebinds = 0
  PROVE  Spec => [](OzonPlaces /\ SameCards /\ Exclusive /\ Exported)
  <1>1. Init => OzonPlaces /\ SameCards /\ Exclusive /\ Exported
    BY InitExclusive
  <1>2. TypeOK /\ Sound /\ (OzonPlaces /\ SameCards /\ Exclusive /\ Exported) /\ [Next]_vars
          => (OzonPlaces /\ SameCards /\ Exclusive /\ Exported)'
    BY OzonPlacesStep, SameCardsStep, ExclusiveStep, ExportedStep
  <1> QED
    BY <1>1, <1>2, ExportTyping, ExportSound, PTL DEF Spec

\* Ozon never has two updates of one row at a time, however many runs overlap,
\* crash or give up: a row comes due again only after its update is settled.
THEOREM OzonUpdatesAlone ==
  ASSUME ~Wb, MaxRebinds = 0
  PROVE  Spec => []OneUpdateAtATime
  <1>1. Exclusive => OneUpdateAtATime
    <2> SUFFICES ASSUME Exclusive, NEW i \in Items
                 PROVE  /\ Cardinality({r \in Runs : Carries(r, i)}) <= 1
                        /\ Cardinality({req \in net : Asks(req, i)}) <= 1
      BY DEF OneUpdateAtATime
    <2>1. \A r, s \in {t \in Runs : Carries(t, i)} : r = s
      BY DEF Exclusive, OneRun
    <2>2. \A p, q \in {req \in net : Asks(req, i)} : p = q
      BY DEF Exclusive, OneRequest
    <2> QED
      BY <2>1, <2>2, AtMostOne
  <1> QED
    BY <1>1, OzonInvariant, PTL

\* A synced row of an Ozon profile shows the wanted quantity at Ozon: no late
\* answer, lost request, crash or overlapping run leaves an older one there.
THEOREM SyncedRowsAreExported ==
  ASSUME ~Wb, MaxRebinds = 0
  PROVE  Spec => []SyncedIsExported
  <1>1. Exported => SyncedIsExported
    BY DEF Exported, Good, SyncedIsExported
  <1> QED
    BY <1>1, OzonInvariant, PTL

-----------------------------------------------------------------------------
(***************************************************************************)
(* The exporter of an Ozon profile implements FbsStockPromise: every step  *)
(* of FbsStockExport is a step of the promise or leaves it alone.  The     *)
(* argument rests on Exclusive and Exported: only the run or the request   *)
(* that is settled could still change its rows.                            *)
(***************************************************************************)

\* Which quantities are under way depends on the runs that carry rows and on
\* the requests.
LEMMA UnderWayKept ==
  ASSUME net' = net,
         \A r \in Runs : \A i \in Items :
           /\ Carries(r, i)' <=> Carries(r, i)
           /\ Carries(r, i) => held'[r][i] = held[r][i]
  PROVE  \A i \in Items : UnderWay(i)' = UnderWay(i)
  BY DEF UnderWay, Asks

\* Rows are acknowledged or lose their acknowledgement.
LEMMA AcknowledgeStep ==
  ASSUME UNCHANGED <<desired, remote>>,
         \A i \in Items : UnderWay(i)' = UnderWay(i),
         \A i \in Items : status'[i] = "synced" =>
            \/ status[i] = "synced"
            \/ remote[i] = desired[i] /\ UnderWay(i) \subseteq {desired[i]}
  PROVE  Promise!Next
  <1>1. Promise!Acknowledge
    BY DEF Promise!Acknowledge
  <1> QED
    BY <1>1 DEF Promise!Next

\* Another quantity is wanted.
LEMMA WantStep ==
  ASSUME desired' \in [Items -> Nat], UNCHANGED remote,
         \A i \in Items : UnderWay(i)' = UnderWay(i),
         \A i \in Items : status'[i] = "synced" =>
            status[i] = "synced" /\ desired'[i] = desired[i]
  PROVE  Promise!Next
  <1>1. Promise!Want
    BY DEF Promise!Want
  <1> QED
    BY <1>1 DEF Promise!Next

\* Updates of `rows` are begun.
LEMMA BeginStep ==
  ASSUME NEW rows \in SUBSET Items, UNCHANGED <<desired, remote>>,
         \A i \in rows : UnderWay(i) = {} /\ status[i] # "synced",
         \A i \in Items :
           UnderWay(i)' = IF i \in rows THEN {desired[i]} ELSE UnderWay(i),
         \A i \in Items : status'[i] = "synced" <=> status[i] = "synced"
  PROVE  Promise!Next
  <1>1. Promise!Begin(rows)
    BY DEF Promise!Begin
  <1> QED
    BY <1>1 DEF Promise!Next

\* The updates of `rows` are settled, those of `landed` carried out.
LEMMA SettleStep ==
  ASSUME NEW rows \in SUBSET Items, NEW landed \in SUBSET rows,
         UNCHANGED <<desired, status>>, remote' \in [Items -> Nat],
         \A i \in Items :
           IF i \in landed THEN remote'[i] \in UnderWay(i) ELSE remote'[i] = remote[i],
         \A i \in Items :
           UnderWay(i)' = IF i \in rows THEN {} ELSE UnderWay(i)
  PROVE  Promise!Next
  <1>1. Promise!Settle(rows, landed)
    BY DEF Promise!Settle
  <1> QED
    BY <1>1 DEF Promise!Next

-----------------------------------------------------------------------------
\* The claimed rows had no update under way, and get theirs.
LEMMA ClaimBegins ==
  ASSUME TypeOK, Exclusive, NEW r \in Runs, Claim(r)
  PROVE  Promise!Next
  <1>1. PICK batch \in SUBSET Items :
           /\ \A i \in batch : due[i] /\ Recovered(i) \in {"pending", "retry"}
           /\ status' = [i \in Items |->
                           IF i \in batch THEN "sending" ELSE Recovered(i)]
           /\ held' = [held EXCEPT ![r] = [i \in Items |->
                IF i \in batch THEN [gen |-> gen[i], qty |-> desired[i]]
                ELSE NoClaim]]
           /\ GoTo(r, IF batch = {} THEN "idle" ELSE "send")
    BY DEF Claim
  <1>2. /\ pc[r] = "claim" /\ UNCHANGED <<net, desired, remote>>
        /\ \A s \in Runs \ {r} : pc'[s] = pc[s] /\ held'[s] = held[s]
        /\ pc'[r] = IF batch = {} THEN "idle" ELSE "send"
    BY <1>1 DEF Claim, TypeOK, GoTo
  <1>3. \A i \in Items : status'[i] = "synced" <=> status[i] = "synced"
    BY <1>1 DEF Recovered, TypeOK
  <1>4. \A i \in batch : /\ \A s \in Runs : ~Carries(s, i)
                        /\ \A p \in net : ~Asks(p, i)
    BY <1>1 DEF Exclusive, SettledWhenDue
  <1>5. \A i \in Items : /\ Carries(r, i)' <=> i \in batch
                         /\ ~Carries(r, i)
                         /\ i \in batch => held'[r][i].qty = desired[i]
    <2>1. \A i \in Items : [gen |-> gen[i], qty |-> desired[i]] # NoClaim
      BY ExportAssumption DEF NoClaim, TypeOK
    <2> QED
      BY <1>1, <1>2, <2>1 DEF Carries, Held, TypeOK
  <1>6. \A s \in Runs \ {r} : \A i \in Items :
          /\ Carries(s, i)' <=> Carries(s, i)
          /\ held'[s][i] = held[s][i]
    BY <1>2 DEF Carries, Held
  <1>7. \A i \in Items :
          UnderWay(i)' = IF i \in batch THEN {desired[i]} ELSE UnderWay(i)
    <2> SUFFICES ASSUME NEW i \in Items
                 PROVE  UnderWay(i)' = IF i \in batch THEN {desired[i]} ELSE UnderWay(i)
      OBVIOUS
    <2>1. CASE i \in batch
      <3>1. \A s \in Runs : Carries(s, i)' <=> s = r
        BY <2>1, <1>4, <1>5, <1>6
      <3>2. \A p \in net : ~Asks(p, i)
        BY <2>1, <1>4
      <3> QED
        BY <1>2, <1>5, <2>1, <3>1, <3>2 DEF UnderWay, Asks
    <2>2. CASE i \notin batch
      <3>1. \A s \in Runs : /\ Carries(s, i)' <=> Carries(s, i)
                            /\ Carries(s, i) => held'[s][i] = held[s][i]
        BY <2>2, <1>5, <1>6
      <3> QED
        BY <1>2, <2>2, <3>1 DEF UnderWay, Asks
    <2> QED
      BY <2>1, <2>2
  <1> QED
    <2>1. UNCHANGED <<desired, remote>>
      BY <1>2
    <2>2. \A i \in batch : UnderWay(i) = {} /\ status[i] # "synced"
      BY <1>1, <1>4 DEF UnderWay, Recovered
    <2> QED
      BY <1>3, <1>7, <2>1, <2>2, BeginStep

\* The sent request carries what the run held for its rows.
LEMMA SendKeeps ==
  ASSUME TypeOK, NEW r \in Runs, Send(r)
  PROVE  Promise!Next
  <1>1. /\ pc[r] = "send" /\ pc' = [pc EXCEPT ![r] = "waiting"]
        /\ net' = net \cup {RequestOf(r)}
        /\ UNCHANGED <<held, desired, status, remote>>
    BY DEF Send, GoTo, rowVars
  <1>2. \A s \in Runs : \A i \in Items : Carries(s, i)' <=> Carries(s, i)
    BY <1>1 DEF Carries, Held, TypeOK
  <1>3. \A i \in Items : Asks(RequestOf(r), i) =>
           Carries(r, i) /\ RequestOf(r).qty[i] = held[r][i].qty
    BY <1>1 DEF Asks, RequestOf, Carries, Held, NoClaim, TypeOK
  <1>4. \A i \in Items : UnderWay(i)' = UnderWay(i)
    BY <1>1, <1>2, <1>3 DEF UnderWay, Asks
  <1> QED
    BY <1>1, <1>4, AcknowledgeStep

\* Nobody but run r, or its request, has an update of a row that r carries.
LEMMA CarriedAlone ==
  ASSUME Exclusive, NEW r \in Runs, NEW i \in Items, Carries(r, i)
  PROVE  /\ \A s \in Runs : Carries(s, i) => s = r
         /\ \A p \in net : Asks(p, i) => p = RequestOf(r)
  BY DEF Exclusive, OneRun, OwnRequest

\* The request of run r asks for the rows it holds.
LEMMA RequestAsks ==
  ASSUME TypeOK, NEW r \in Runs
  PROVE  \A i \in Items :
           /\ Asks(RequestOf(r), i) <=> i \in Held(r)
           /\ RequestOf(r).qty[i] = held[r][i].qty
  <1>1. \A i \in Items : held[r][i].qty = None <=> held[r][i] = NoClaim
    BY ExportAssumption DEF TypeOK, Claims, NoClaim
  <1> QED
    BY <1>1 DEF Asks, RequestOf, Held

\* The request of a waiting run is gone, carried out for `landed` or not at all.
LEMMA AnswerSettles ==
  ASSUME TypeOK, TypeOK', Exclusive, NEW r \in Runs, NEW landed \in SUBSET Held(r),
         pc[r] = "waiting", pc'[r] \notin {"send", "waiting"},
         UNCHANGED <<held, desired, status>>,
         \A s \in Runs \ {r} : pc'[s] = pc[s],
         net' = net \ {RequestOf(r)}, CarryOut(RequestOf(r), landed)
  PROVE  Promise!Next
  <1> DEFINE rows == Held(r)
  <1>1. \A i \in Items : Carries(r, i) <=> i \in rows
    BY DEF Carries, Held
  <1>2. \A s \in Runs : \A i \in Items : Carries(s, i)' <=> s # r /\ Carries(s, i)
    BY DEF Carries, Held
  <1>3. \A i \in rows : /\ \A s \in Runs : ~Carries(s, i)'
                       /\ \A p \in net' : ~Asks(p, i)
    BY <1>1, <1>2, CarriedAlone DEF Held
  <1>4. \A i \in Items \ rows :
          /\ \A s \in Runs : Carries(s, i)' <=> Carries(s, i)
          /\ ~Asks(RequestOf(r), i)
    BY <1>1, <1>2, RequestAsks
  <1>5. \A i \in Items : UnderWay(i)' = IF i \in rows THEN {} ELSE UnderWay(i)
    BY <1>3, <1>4 DEF UnderWay, Asks
  <1>6. \A i \in landed : remote'[i] \in UnderWay(i)
    BY <1>1, RequestAsks DEF CarryOut, UnderWay, Held
  <1>7. \A i \in Items \ landed : remote'[i] = remote[i]
    BY DEF CarryOut
  <1>8. remote' \in [Items -> Nat] /\ rows \in SUBSET Items
    BY DEF TypeOK, Held
  <1> QED
    BY <1>5, <1>6, <1>7, <1>8, SettleStep

\* A request in nobody's name is carried out after all, or lost.
LEMMA LateSettles ==
  ASSUME TypeOK, TypeOK', Exclusive, NEW req \in net, SettleLate(req)
  PROVE  Promise!Next
  <1> DEFINE rows == {i \in Items : Asks(req, i)}
  <1>1. \A i \in rows : /\ \A s \in Runs : ~Carries(s, i)
                       /\ \A p \in net : Asks(p, i) => p = req
    BY ExportAssumption
    DEF SettleLate, Exclusive, OneRequest, OwnRequest, RequestOf
  <1>2. net' = net \ {req} /\ UNCHANGED <<pc, held, desired, status>>
    BY DEF SettleLate, rowVars, runVars
  <1>3. \A s \in Runs : \A i \in Items : Carries(s, i)' <=> Carries(s, i)
    BY <1>2 DEF Carries, Held
  <1>4. \A i \in Items : UnderWay(i)' = IF i \in rows THEN {} ELSE UnderWay(i)
    BY <1>1, <1>2, <1>3 DEF UnderWay, Asks
  <1>5. \A i \in rows : req.qty[i] \in UnderWay(i)
    BY DEF UnderWay
  <1>6. remote' \in [Items -> Nat]
    BY DEF TypeOK
  <1>7. CASE CarryOut(req, rows)
    <2>1. \A i \in Items : IF i \in rows THEN remote'[i] \in UnderWay(i)
                                       ELSE remote'[i] = remote[i]
      BY <1>5, <1>7 DEF CarryOut
    <2> QED
      BY <1>2, <1>4, <1>6, <2>1, SettleStep
  <1>8. CASE UNCHANGED remote
    BY <1>2, <1>4, <1>6, <1>8, SettleStep
  <1> QED
    BY <1>7, <1>8 DEF SettleLate

\* A run that gives up leaves its request behind.
LEMMA AbandonKeeps ==
  ASSUME TypeOK, Exclusive, NEW r \in Runs, UNCHANGED <<desired, status, remote>>,
         pc'[r] \notin {"send", "waiting"}, net' = Abandoned(r),
         \A s \in Runs \ {r} : pc'[s] = pc[s] /\ held'[s] = held[s],
         pc[r] = "waiting" => RequestOf(r) \in net, pc[r] # "send"
  PROVE  Promise!Next
  <1>1. \A i \in Items : {p.qty[i] : p \in {q \in net' : Asks(q, i)}}
                        = {p.qty[i] : p \in {q \in net : Asks(q, i)}}
    <2>1. \A p \in net' : \E q \in net : p.qty = q.qty
      BY DEF Abandoned, TypeOK, Requests
    <2>2. \A q \in net : \E p \in net' : p.qty = q.qty
      <3> SUFFICES ASSUME NEW q \in net
                   PROVE  \E p \in net' : p.qty = q.qty
        OBVIOUS
      <3>1. CASE q.by = r
        <4>1. [q EXCEPT !.by = None] \in net'
          BY <3>1 DEF Abandoned
        <4>2. [q EXCEPT !.by = None].qty = q.qty
          BY DEF TypeOK, Requests
        <4> QED
          BY <4>1, <4>2
      <3>2. CASE q.by # r
        BY <3>2 DEF Abandoned
      <3> QED
        BY <3>1, <3>2
    <2> QED
      BY <2>1, <2>2 DEF Asks
  <1>2. \A s \in Runs : \A i \in Items : Carries(s, i)' <=> s # r /\ Carries(s, i)
    BY DEF Carries, Held
  <1>3. \A i \in Items : Carries(r, i) =>
          held[r][i].qty \in {p.qty[i] : p \in {q \in net : Asks(q, i)}}
    BY RequestAsks DEF Carries
  <1>4. \A i \in Items : UnderWay(i)' = UnderWay(i)
    <2> SUFFICES ASSUME NEW i \in Items
                 PROVE  UnderWay(i)' = UnderWay(i)
      OBVIOUS
    <2>1. PICK F : F = {p.qty[i] : p \in {q \in net : Asks(q, i)}}
      OBVIOUS
    <2>2. {p.qty[i] : p \in {q \in net : Asks(q, i)}}' = F
      BY <1>1, <2>1 DEF Asks
    <2>3. {held[s][i].qty : s \in {q \in Runs : Carries(q, i)}} \cup F
            = {held[s][i].qty : s \in {q \in Runs \ {r} : Carries(q, i)}} \cup F
      BY <1>3, <2>1
    <2>4. {held[s][i].qty : s \in {q \in Runs : Carries(q, i)}}'
            = {held[s][i].qty : s \in {q \in Runs \ {r} : Carries(q, i)}}
      BY <1>2
    <2> QED
      BY <2>1, <2>2, <2>3, <2>4 DEF UnderWay
  <1> QED
    BY <1>4, AcknowledgeStep

\* A run that crashes before it has sent its request drops its updates.
LEMMA CrashDrops ==
  ASSUME TypeOK, TypeOK', Exclusive, NEW r \in Runs, Crash(r),
         pc[r] \in {"send", "waiting"}, pc[r] = "waiting" => RequestOf(r) \notin net
  PROVE  Promise!Next
  <1> DEFINE rows == Held(r)
  <1>1. /\ pc'[r] = "idle" /\ net' = Abandoned(r) /\ UNCHANGED <<desired, status, remote>>
        /\ \A s \in Runs \ {r} : pc'[s] = pc[s] /\ held'[s] = held[s]
    BY DEF Crash, GoTo, Drop, TypeOK, rowVars
  <1>2. \A p \in net : p.by # r
    BY ExportAssumption DEF Exclusive, AwaitedRequest
  <1>3. net' = net
    BY <1>1, <1>2 DEF Abandoned
  <1>4. \A p \in net : \A i \in rows : ~Asks(p, i)
    <2>1. RequestOf(r).by = r
      BY DEF RequestOf
    <2>2. \A i \in rows : i \in Items /\ Carries(r, i)
      BY DEF Carries, Held
    <2> QED
      BY <1>2, <2>1, <2>2 DEF Exclusive, OwnRequest
  <1>5. \A s \in Runs : \A i \in Items : Carries(s, i)' <=> s # r /\ Carries(s, i)
    BY <1>1 DEF Carries, Held
  <1>6. \A i \in rows : \A s \in Runs : ~Carries(s, i)'
    BY <1>5 DEF Exclusive, OneRun, Carries, Held
  <1>7. \A i \in Items \ rows : ~Carries(r, i)
    BY DEF Carries
  <1>8. \A i \in Items : UnderWay(i)' = IF i \in rows THEN {} ELSE UnderWay(i)
    BY <1>1, <1>3, <1>4, <1>5, <1>6, <1>7 DEF UnderWay, Asks
  <1>9. remote' \in [Items -> Nat] /\ rows \in SUBSET Items
    BY DEF TypeOK, Held
  <1> QED
    BY <1>1, <1>8, <1>9, SettleStep

-----------------------------------------------------------------------------
\* A row that a run reports as sent shows what is wanted, and so would every
\* update of it still under way.
LEMMA ReportedIsShown ==
  ASSUME Exported, NEW r \in Runs, NEW i \in Items, ToBeSynced(r, i)
  PROVE  remote[i] = desired[i] /\ UnderWay(i) \subseteq {desired[i]}
  BY DEF Exported, Good, UnderWay

\* Every step of the exporter is a step of the promise, or changes nothing that
\* the promise speaks of.
LEMMA PromiseStep ==
  ASSUME ~Wb, MaxRebinds = 0, TypeOK, TypeOK', OzonPlaces, SameCards, Exclusive,
         Exported, [Next]_vars
  PROVE  Promise!Next
  <1> USE DEF rowVars, runVars, cardVars
  <1>1. ASSUME UNCHANGED <<desired, remote, net>>,
               NEW r \in Runs, pc[r] \notin {"send", "waiting"},
               pc'[r] \notin {"send", "waiting"},
               \A s \in Runs \ {r} : pc'[s] = pc[s] /\ held'[s] = held[s],
               \A i \in Items : status'[i] = "synced" =>
                  status[i] = "synced" \/ ToBeSynced(r, i)
        PROVE  Promise!Next
    <2>1. \A s \in Runs : \A i \in Items :
            /\ Carries(s, i)' <=> Carries(s, i)
            /\ Carries(s, i) => held'[s][i] = held[s][i]
      BY <1>1 DEF Carries, Held
    <2>2. \A i \in Items : UnderWay(i)' = UnderWay(i)
      BY <1>1, <2>1, UnderWayKept
    <2> QED
      BY <1>1, <2>2, ReportedIsShown, AcknowledgeStep
  <1>2. ASSUME UNCHANGED <<desired, remote, net, pc, held, status>>
        PROVE  Promise!Next
    <2>1. \A i \in Items : UnderWay(i)' = UnderWay(i)
      BY <1>2, UnderWayKept DEF Carries, Held
    <2> QED
      BY <1>2, <2>1, AcknowledgeStep
  <1>3. ASSUME NEW view, NEW looked, Refresh(view, looked),
               UNCHANGED <<remote, net, held>>,
               \A s \in Runs : pc'[s] # pc[s] => pc[s] = "refresh" /\ pc'[s] = "claim"
        PROVE  Promise!Next
    <2>1. \A i \in Items : UnderWay(i)' = UnderWay(i)
      BY <1>3, UnderWayKept DEF Carries, Held
    <2>2. \A i \in Items : status'[i] = "synced" =>
            status[i] = "synced" /\ desired'[i] = desired[i]
      BY <1>3 DEF Refresh
    <2>3. desired' \in [Items -> Nat] /\ UNCHANGED remote
      BY <1>3 DEF TypeOK
    <2> QED
      BY <2>1, <2>2, <2>3, WantStep
  <1>4. ASSUME NEW r \in Runs, Start(r)
        PROVE  Promise!Next
    BY <1>1, <1>4 DEF Start, GoTo, TypeOK
  <1>5. ASSUME NEW r \in Runs, StartRefresh(r)
        PROVE  Promise!Next
    BY <1>3, <1>5 DEF StartRefresh, GoTo, TypeOK
  <1>6. ASSUME NEW c \in 1..MaxChanges, RefreshOnCommit(c)
        PROVE  Promise!Next
    BY <1>3, <1>6 DEF RefreshOnCommit
  <1>7. ASSUME NEW r \in Runs,
               ChooseCandidates(r) \/ ReadRemote(r) \/ ReadFails(r) \/ Compare(r)
        PROVE  Promise!Next
    BY <1>7 DEF ChooseCandidates, ReadRemote, ReadFails, Compare, OzonPlaces
  <1>8. ASSUME NEW r \in Runs, Accept(r)
        PROVE  Promise!Next
    <2>1. Held(r) \in SUBSET Held(r)
      OBVIOUS
    <2> QED
      BY <1>8, <2>1, AnswerSettles DEF Accept, GoTo, TypeOK
  <1>9. ASSUME NEW r \in Runs, AcceptSome(r)
        PROVE  Promise!Next
    <2>1. PICK landed \in SUBSET Held(r) : CarryOut(RequestOf(r), landed)
      BY <1>9 DEF AcceptSome
    <2> QED
      BY <1>9, <2>1, AnswerSettles DEF AcceptSome, GoTo, TypeOK
  <1>10. ASSUME NEW r \in Runs, Refuse(r)
         PROVE  Promise!Next
    <2>1. CarryOut(RequestOf(r), {})
      BY <1>10 DEF Refuse, CarryOut, TypeOK
    <2>2. {} \in SUBSET Held(r)
      OBVIOUS
    <2> QED
      BY <1>10, <2>1, <2>2, AnswerSettles DEF Refuse, GoTo, TypeOK
  <1>11. ASSUME NEW r \in Runs, TimeOut(r)
         PROVE  Promise!Next
    BY <1>11, AbandonKeeps DEF TimeOut, GoTo, TypeOK
  <1>12. ASSUME NEW r \in Runs, Crash(r)
         PROVE  Promise!Next
    <2>1. CASE pc[r] = "send" \/ (pc[r] = "waiting" /\ RequestOf(r) \notin net)
      BY <1>12, <2>1, CrashDrops
    <2>2. CASE pc[r] # "send" /\ (pc[r] = "waiting" => RequestOf(r) \in net)
      BY <1>12, <2>2, AbandonKeeps DEF Crash, GoTo, Drop, TypeOK
    <2> QED
      BY <2>1, <2>2
  <1>13. ASSUME NEW r \in Runs, ReportUpdated(r)
         PROVE  Promise!Next
    <2>1. /\ pc[r] = "report" /\ pc'[r] \in {"idle", "rest"}
          /\ UNCHANGED <<desired, remote, net>>
          /\ \A s \in Runs \ {r} : pc'[s] = pc[s] /\ held'[s] = held[s]
      <3>1. \E to, claims : /\ to \in {"idle", "rest"} /\ pc' = [pc EXCEPT ![r] = to]
                            /\ held' = [held EXCEPT ![r] = claims]
        BY <1>13 DEF ReportUpdated, GoTo, Drop
      <3>2. pc[r] = "report" /\ UNCHANGED <<desired, remote, net>>
        BY <1>13 DEF ReportUpdated
      <3>3. pc \in [Runs -> Places] /\ DOMAIN held = Runs
        BY DEF TypeOK
      <3> QED
        BY <3>1, <3>2, <3>3
    <2>2. \A i \in Items : status'[i] = "synced" =>
             status[i] = "synced" \/ ToBeSynced(r, i)
      BY <1>13, <2>1 DEF ReportUpdated, Sent, ToBeSynced
    <2> QED
      BY <1>1, <2>1, <2>2
  <1>14. ASSUME NEW r \in Runs, ReportFailure(r)
         PROVE  Promise!Next
    BY <1>1, <1>14 DEF ReportFailure, GoTo, Drop, TypeOK
  <1>15. ASSUME NEW r \in Runs, ReportRetry(r) \/ \E i \in Items : ReportRefused(r, i)
         PROVE  Promise!Next
    <2>1. /\ pc[r] = "rest" /\ pc'[r] \in {"idle", "rest"}
          /\ UNCHANGED <<desired, remote, net>>
          /\ \A s \in Runs \ {r} : pc'[s] = pc[s] /\ held'[s] = held[s]
          /\ \A j \in Items : status'[j] = "synced" => status[j] = "synced"
      BY <1>15 DEF ReportRetry, ReportRefused, Remaining, GoTo, Drop, TypeOK
    <2> QED
      BY <1>1, <2>1
  <1>16. ASSUME NEW i \in Items,
                Elapse(i) \/ CardChange(i)
                  \/ \E q \in Quantities : StockChange(i, q) \/ Drift(i, q)
         PROVE  Promise!Next
    BY <1>2, <1>16 DEF Elapse, CardChange, StockChange, Drift
  <1>17. CASE UNCHANGED vars
    BY <1>2, <1>17 DEF vars
  <1> QED
    BY <1>4, <1>5, <1>6, <1>7, <1>8, <1>9, <1>10, <1>11, <1>12, <1>13, <1>14,
       <1>15, <1>16, <1>17, ClaimBegins, SendKeeps, LateSettles
    DEF Next, RunStep, FaultStep, Late

\* At Ozon the exporter implements FbsStockPromise: one update of a row at a
\* time, begun with the quantity wanted then, and a row that counts as synced
\* shows what is wanted and has no update under way that could change it.
THEOREM OzonKeepsPromise ==
  ASSUME ~Wb, MaxRebinds = 0
  PROVE  Spec => ExportPromise
  <1>1. Init => Promise!Init
    <2> SUFFICES ASSUME Init
                 PROVE  Promise!Init
      OBVIOUS
    <2>1. \A i \in Items : UnderWay(i) = {}
      BY DEF Init, UnderWay, Carries
    <2>2. desired \in [Items -> Nat] /\ remote \in [Items -> Nat]
      BY ExportAssumption DEF Init, Zeroes
    <2>3. \A i \in Items : status[i] # "synced"
      BY DEF Init
    <2> QED
      BY <2>1, <2>2, <2>3 DEF Promise!Init
  <1>2. TypeOK /\ TypeOK' /\ OzonPlaces /\ SameCards /\ Exclusive /\ Exported
          /\ [Next]_vars => [Promise!Next]_(Promise!vars)
    BY PromiseStep
  <1> QED
    BY <1>1, <1>2, ExportTyping, OzonInvariant, PTL DEF Spec, ExportPromise, Promise!Spec
=============================================================================
