-------------------------- MODULE FbsStatusSyncProofs --------------------------
(***************************************************************************)
(* Proofs about FbsStatusSync: its types, that the journal keeps its word  *)
(* (JournalKeepsItsWord), and that each lane is read in turn (LaneTurns).  *)
(*                                                                         *)
(* A status may be stored long after it was read, so the invariant speaks  *)
(* of every reading that is under way: it is a status the marketplace has  *)
(* had, and as long as no status came back, the one that says what the     *)
(* marketplace says now is the latest.  Each order is chosen once, so what *)
(* a run has stored it does not store again from the same answer.          *)
(*                                                                         *)
(* The turns are booked on a circle of the keys: what an order has waited  *)
(* for and what the cursor has still to pass before it reaches the order   *)
(* make at most one round.  It rests on the order in which a run chooses:  *)
(* of each lane the next orders after the cursor, its share at least.      *)
(***************************************************************************)
EXTENDS FbsStatusSync, SequenceTheorems, FiniteSetTheorems, TLAPS

-----------------------------------------------------------------------------
\* The least-number principle, and its mirror.
LEMMA Smallest ==
  ASSUME NEW S \in SUBSET Nat, S # {}
  PROVE  \E n \in S : \A m \in S : n <= m
<1> DEFINE R == {ss \in Nat \X Nat : ss[1] < ss[2]}
<1>1. IsWellFoundedOn(R, Nat)
  BY NatLessThanWellFounded DEF OpToRel
<1>2. \A m, n \in Nat : m < n => <<m, n>> \in R
  OBVIOUS
<1> HIDE DEF R
<1>3. PICK n \in S : \A m \in S : ~(<<m, n>> \in R)
  BY <1>1, WFMin
<1>4. \A m \in S : ~(m < n) /\ m \in Nat /\ n \in Nat
  BY <1>2, <1>3
<1> QED
  BY <1>4

LEMMA Largest ==
  ASSUME NEW S \in SUBSET Nat, IsFiniteSet(S), S # {}
  PROVE  \E n \in S : \A m \in S : n >= m
<1> DEFINE Topped(T) == \E n \in T : \A m \in T : n >= m
           Bad == {k \in Nat : \E T \in SUBSET S : T # {} /\ Cardinality(T) = k /\ ~Topped(T)}
<1>1. \A T \in SUBSET S : IsFiniteSet(T) /\ Cardinality(T) \in Nat
  BY FS_Subset, FS_CardinalityType
<1>2. Bad = {}
  <2> SUFFICES ASSUME Bad # {} PROVE FALSE
    OBVIOUS
  <2>0. Bad \in SUBSET Nat
    OBVIOUS
  <2>1. PICK k \in Bad : \A m \in Bad : k <= m
    BY ONLY Smallest, <2>0, Bad # {}
  <2>2. PICK T \in SUBSET S : T # {} /\ Cardinality(T) = k /\ ~Topped(T)
    BY <2>1
  <2>3. PICK x \in T : TRUE
    BY <2>2
  <2> DEFINE U == T \ {x}
  <2>4. U \in SUBSET S /\ IsFiniteSet(T) /\ k \in Nat /\ x \in Nat
    BY <1>1, <2>1, <2>2, <2>3
  <2>5. Cardinality(U) = k - 1
    BY ONLY <2>2, <2>3, <2>4, FS_RemoveElement
  <2>6. Cardinality(U) \in Nat /\ ~(Cardinality(U) \in Bad)
    <3>1. Cardinality(U) \in Nat
      BY <1>1, <2>4
    <3> HIDE DEF Bad, U
    <3> QED
      BY <2>1, <2>4, <2>5, <3>1
  <2>7. U = {} \/ Topped(U)
    BY <2>4, <2>6
  <2>8. CASE U = {}
    <3>1. \A m \in T : m = x
      BY <2>8
    <3>2. Topped(T)
      BY <2>3, <2>4, <3>1
    <3> QED
      BY <2>2, <3>2
  <2>9. CASE Topped(U)
    <3>1. PICK n \in U : \A m \in U : n >= m
      BY <2>9
    <3>2. n \in Nat /\ n \in T /\ \A m \in T : m \in Nat /\ (m = x \/ n >= m)
      BY <2>2, <2>4, <3>1
    <3>3. (n >= x /\ \A m \in T : n >= m) \/ (x >= n /\ \A m \in T : x >= m)
      BY <2>4, <3>2
    <3>4. Topped(T)
      BY <2>3, <3>2, <3>3
    <3> QED
      BY <2>2, <3>4
  <2> QED
    BY <2>7, <2>8, <2>9
<1> QED
  BY <1>1, <1>2

\* The i-th of a set of keys.
LEMMA Ranked ==
  ASSUME NEW S \in SUBSET Nat, IsFiniteSet(S), NEW i \in 1..Cardinality(S)
  PROVE  \E o \in S : Cardinality({p \in S : p <= o}) = i
<1> DEFINE Below(o) == {p \in S : p <= o}
           A == {o \in S : Cardinality(Below(o)) >= i}
<1>1. \A o \in S : IsFiniteSet(Below(o)) /\ Cardinality(Below(o)) \in Nat
  BY FS_Subset, FS_CardinalityType
<1>2. Cardinality(S) \in Nat /\ i \in Nat /\ i <= Cardinality(S) /\ 1 <= i
  BY FS_CardinalityType
<1>3. A # {}
  <2>1. S # {}
    BY <1>2, FS_EmptySet
  <2>2. PICK m \in S : \A p \in S : m >= p
    BY <2>1, Largest
  <2>3. Below(m) = S
    BY <2>2
  <2> QED
    BY <1>2, <2>2, <2>3
<1>4. PICK o \in A : \A p \in A : o <= p
  BY <1>3, Smallest
<1>5. Cardinality(Below(o)) = i
  <2> SUFFICES ASSUME Cardinality(Below(o)) > i PROVE FALSE
    BY <1>1, <1>2, <1>4
  <2> DEFINE T == Below(o) \ {o}
  <2>1. IsFiniteSet(T) /\ Cardinality(T) = Cardinality(Below(o)) - 1
    BY <1>1, <1>4, FS_RemoveElement
  <2>2. Cardinality(T) >= i /\ T # {}
    BY <1>1, <1>2, <1>4, <2>1, FS_EmptySet
  <2>3. T \in SUBSET Nat
    OBVIOUS
  <2>4. PICK q \in T : \A p \in T : q >= p
    BY <2>1, <2>2, <2>3, Largest
  <2>5. Below(q) = T
    <3>1. q \in S /\ q \in Nat /\ o \in Nat /\ q <= o /\ q # o
      BY <2>4
    <3>2. ASSUME NEW p \in Below(q) PROVE p \in T
      BY <3>1, <3>2
    <3>3. ASSUME NEW p \in T PROVE p \in Below(q)
      BY <2>4
    <3> HIDE DEF Below, T
    <3> QED
      BY <3>2, <3>3
  <2>6. q \in A
    BY <2>2, <2>4, <2>5
  <2>7. q <= o /\ q # o /\ q \in Nat /\ o \in Nat
    BY <2>4
  <2> QED
    BY <1>4, <2>6, <2>7
<1> QED
  BY <1>4, <1>5

-----------------------------------------------------------------------------
\* Sequences in which no order comes twice.
Distinct(s) == \A i, j \in 1..Len(s) : s[i] = s[j] => i = j
Apart(s, t) == \A i \in 1..Len(s), j \in 1..Len(t) : s[i] # t[j]
Once(S, s) == s \in Seq(S) /\ Distinct(s)

LEMMA SortedIs ==
  ASSUME NEW S \in SUBSET Nat, IsFiniteSet(S)
  PROVE  Sorted(S) \in Seq(S) /\ Distinct(Sorted(S))
<1> DEFINE n == Cardinality(S)
           rank(x) == Cardinality({p \in S : p <= x})
           f == [i \in 1..n |-> CHOOSE o \in S : Cardinality({p \in S : p <= o}) = i]
<1>1. n \in Nat
  BY FS_CardinalityType
<1>2. \A i \in 1..n : f[i] \in S /\ rank(f[i]) = i
  BY Ranked
<1>3. f \in [1..n -> S]
  BY <1>2
<1>4. f = Sorted(S)
  BY DEF Sorted
<1> HIDE DEF f, n, rank
<1>5. f \in Seq(S) /\ Len(f) = n
  BY <1>1, <1>3
<1>6. Distinct(f)
  BY <1>2, <1>5 DEF Distinct
<1> QED
  BY <1>4, <1>5, <1>6

LEMMA SliceIs ==
  ASSUME NEW S, NEW s \in Seq(S), Distinct(s), NEW m \in Nat \ {0}, NEW n \in Int, n <= Len(s)
  PROVE  /\ SubSeq(s, m, n) \in Seq(S) /\ Distinct(SubSeq(s, m, n))
         /\ Len(SubSeq(s, m, n)) = IF m <= n THEN n - m + 1 ELSE 0
         /\ \A i \in 1..Len(SubSeq(s, m, n)) :
              m + i - 1 \in m..n /\ SubSeq(s, m, n)[i] = s[m + i - 1]
<1>1. Len(s) \in Nat /\ \A i \in m..n : s[i] \in S
  BY LenProperties, ElementOfSeq
<1> DEFINE t == SubSeq(s, m, n)
<1>2. /\ t \in Seq(S) /\ Len(t) = IF m <= n THEN n - m + 1 ELSE 0
      /\ \A i \in 1..(n - m + 1) : t[i] = s[m + i - 1]
  BY <1>1, SubSeqProperties
<1>3. \A i \in 1..Len(t) : m + i - 1 \in m..n /\ t[i] = s[m + i - 1]
  BY <1>2
<1>4. Distinct(t)
  BY <1>1, <1>3 DEF Distinct
<1> QED
  BY <1>2, <1>3, <1>4

LEMMA JoinIs ==
  ASSUME NEW S, NEW s \in Seq(S), NEW t \in Seq(S), Distinct(s), Distinct(t), Apart(s, t)
  PROVE  /\ s \o t \in Seq(S) /\ Distinct(s \o t)
         /\ \A i \in 1..Len(s \o t) : \/ \E j \in 1..Len(s) : (s \o t)[i] = s[j]
                                      \/ \E j \in 1..Len(t) : (s \o t)[i] = t[j]
<1>1. /\ s \o t \in Seq(S) /\ Len(s \o t) = Len(s) + Len(t)
      /\ \A i \in 1..(Len(s) + Len(t)) :
           (s \o t)[i] = IF i <= Len(s) THEN s[i] ELSE t[i - Len(s)]
      /\ Len(s) \in Nat /\ Len(t) \in Nat
  BY ConcatProperties, LenProperties
<1>2. ASSUME NEW i \in 1..Len(s \o t)
      PROVE  \/ i \in 1..Len(s) /\ (s \o t)[i] = s[i]
             \/ i - Len(s) \in 1..Len(t) /\ (s \o t)[i] = t[i - Len(s)]
  BY <1>1
<1>3. Distinct(s \o t)
  <2> SUFFICES ASSUME NEW i \in 1..Len(s \o t), NEW j \in 1..Len(s \o t), (s \o t)[i] = (s \o t)[j]
               PROVE  i = j
    BY DEF Distinct
  <2>1. CASE i \in 1..Len(s) /\ (s \o t)[i] = s[i] /\ j \in 1..Len(s) /\ (s \o t)[j] = s[j]
    BY ONLY <2>1, (s \o t)[i] = (s \o t)[j], Distinct(s) DEF Distinct
  <2>2. CASE /\ i - Len(s) \in 1..Len(t) /\ (s \o t)[i] = t[i - Len(s)]
             /\ j - Len(s) \in 1..Len(t) /\ (s \o t)[j] = t[j - Len(s)]
    <3>1. i - Len(s) = j - Len(s)
      BY ONLY <2>2, (s \o t)[i] = (s \o t)[j], Distinct(t) DEF Distinct
    <3> QED
      BY ONLY <1>1, <3>1, i \in 1..Len(s \o t), j \in 1..Len(s \o t)
  <2> QED
    BY <1>2, <2>1, <2>2 DEF Apart
<1> QED
  BY <1>1, <1>2, <1>3

LEMMA Widened ==
  ASSUME NEW S, NEW T, S \subseteq T, NEW s, Once(S, s)
  PROVE  Once(T, s)
<1>1. s \in Seq(T)
  BY SeqDef DEF Once
<1> QED
  BY <1>1 DEF Once

LEMMA Narrowed ==
  ASSUME NEW S, NEW T, NEW s \in Seq(S), \A i \in 1..Len(s) : s[i] \in T
  PROVE  s \in Seq(T)
<1>1. Len(s) \in Nat /\ s \in [1..Len(s) -> S]
  BY LenProperties
<1>2. s \in [1..Len(s) -> T]
  BY <1>1
<1> QED
  BY <1>1, <1>2, SeqDef

LEMMA Joined ==
  ASSUME NEW S, NEW T, NEW s, NEW t, Once(S, s), Once(T, t), S \cap T = {}
  PROVE  Once(S \cup T, s \o t)
<1>1. Once(S \cup T, s) /\ Once(S \cup T, t)
  BY Widened
<1>2. Apart(s, t)
  BY ElementOfSeq DEF Once, Apart
<1> QED
  BY <1>1, <1>2, JoinIs DEF Once

LEMMA SliceOnce ==
  ASSUME NEW S, NEW s, Once(S, s), NEW m \in Nat \ {0}, NEW n \in Int, n <= Len(s)
  PROVE  Once(S, SubSeq(s, m, n))
<1>1. s \in Seq(S) /\ Distinct(s)
  BY DEF Once
<1>2. SubSeq(s, m, n) \in Seq(S) /\ Distinct(SubSeq(s, m, n))
  BY <1>1, SliceIs
<1> QED
  BY <1>2 DEF Once

LEMMA FirstOnce ==
  ASSUME NEW S, NEW s, Once(S, s), NEW n \in Int
  PROVE  Once(S, UpTo(s, n))
<1> DEFINE k == IF Len(s) < n THEN Len(s) ELSE n
<1>1. Len(s) \in Nat
  BY LenProperties DEF Once
<1>2. k \in Int /\ k <= Len(s)
  BY <1>1
<1>3. UpTo(s, n) = SubSeq(s, 1, k)
  BY DEF UpTo
<1> HIDE DEF k
<1> QED
  BY <1>2, <1>3, SliceOnce

LEMMA Parted ==
  ASSUME NEW S, NEW s, Once(S, s), NEW n \in Nat
  PROVE  \E T \in SUBSET S : Once(T, UpTo(s, n)) /\ Once(S \ T, Beyond(s, n))
<1>1. s \in Seq(S) /\ Distinct(s) /\ Len(s) \in Nat /\ \A i \in 1..Len(s) : s[i] \in S
  BY LenProperties, ElementOfSeq DEF Once
<1> DEFINE k == IF Len(s) < n THEN Len(s) ELSE n
           u == SubSeq(s, 1, k)
           b == SubSeq(s, n + 1, Len(s))
           T == {s[i] : i \in 1..k}
<1>2. k \in Nat /\ k <= n /\ k <= Len(s) /\ n + 1 \in Nat \ {0} /\ (k < n => k = Len(s))
  BY <1>1
<1> HIDE DEF k
<1>3. /\ u \in Seq(S) /\ Distinct(u) /\ Len(u) \in Nat
      /\ \A i \in 1..Len(u) : 1 + i - 1 \in 1..k /\ u[i] = s[1 + i - 1]
  BY <1>1, <1>2, SliceIs, LenProperties
<1>4. /\ b \in Seq(S) /\ Distinct(b) /\ Len(b) \in Nat
      /\ \A i \in 1..Len(b) : n + 1 + i - 1 \in (n + 1)..Len(s) /\ b[i] = s[n + 1 + i - 1]
  BY <1>1, <1>2, SliceIs, LenProperties
<1>5. T \in SUBSET S
  BY <1>1, <1>2
<1>6. \A i \in 1..Len(u) : u[i] \in T
  BY <1>3
<1>7. ASSUME NEW i \in 1..Len(b) PROVE b[i] \in S \ T
  <2>1. n + 1 + i - 1 \in (n + 1)..Len(s) /\ b[i] = s[n + 1 + i - 1]
    BY <1>4
  <2>2. ASSUME NEW j \in 1..k PROVE s[j] # s[n + 1 + i - 1]
    <3>1. j \in 1..Len(s) /\ n + 1 + i - 1 \in 1..Len(s) /\ j # n + 1 + i - 1
      BY <1>1, <1>2, <2>1
    <3> QED
      BY <1>1, <3>1 DEF Distinct
  <2>3. s[n + 1 + i - 1] \in S
    BY <1>1, <1>2, <2>1
  <2> QED
    BY <2>1, <2>2, <2>3
<1> HIDE DEF T, u, b
<1>8. u \in Seq(T) /\ b \in Seq(S \ T)
  BY <1>3, <1>4, <1>6, <1>7, Narrowed
<1>9. u = UpTo(s, n) /\ b = Beyond(s, n)
  BY DEF UpTo, Beyond, u, b, k
<1> QED
  BY <1>3, <1>4, <1>5, <1>8, <1>9 DEF Once

-----------------------------------------------------------------------------
\* The choice of orders.
LEMMA ShareIs ==
  ASSUME NEW l \in Lanes, NEW pass
  PROVE  Share(l, pass) \in Nat
<1>1. Limit \in Nat \ {0}
  BY SyncAssumption
<1> DEFINE history == Larger(1, Limit \div 10)
           transit == Larger(1, Limit \div 5)
<1>2. history \in Nat /\ transit \in Nat
  BY <1>1 DEF Larger
<1>3. Limit >= 3 => Limit - history - transit \in Nat
  BY <1>1 DEF Larger
<1>4. l = "history" \/ l = "transit" \/ l = "active"
  BY DEF Lanes
<1> DEFINE turn == CASE pass = 9 -> "history" [] pass \in {3, 7} -> "transit" [] OTHER -> "active"
<1>5. Share(l, pass) =
        IF Limit >= 3
        THEN CASE l = "history" -> history
               [] l = "transit" -> transit
               [] l = "active" -> Limit - history - transit
        ELSE IF l = turn THEN Limit ELSE 0
  BY DEF Share
<1> HIDE DEF history, transit, turn
<1>6. CASE Limit >= 3
  BY <1>2, <1>3, <1>4, <1>5, <1>6
<1>7. CASE ~(Limit >= 3)
  BY <1>1, <1>5, <1>7
<1> QED
  BY <1>6, <1>7

LEMMA KnownIs == Known \in SUBSET Nat /\ IsFiniteSet(Known) /\ Known \subseteq Orders
<1>1. Orders \subseteq Nat \ {0} /\ IsFiniteSet(Orders)
  BY SyncAssumption
<1>2. Known \subseteq Orders
  BY DEF Known
<1> QED
  BY <1>1, <1>2, FS_Subset

LEMMA AroundIs ==
  ASSUME NEW l, cursor.at.pos[l] \in Nat
  PROVE  Once(Lane(l), Around(l))
<1> DEFINE c == cursor.at.pos[l]
           S == {o \in Lane(l) : o > c}
           T == {o \in Lane(l) : o <= c}
<1>1. Lane(l) \subseteq Known /\ Lane(l) \subseteq Nat
  BY KnownIs DEF Lane
<1>2. S \subseteq Known /\ T \subseteq Known /\ S \cap T = {} /\ S \cup T = Lane(l)
  BY <1>1
<1>3. S \in SUBSET Nat /\ T \in SUBSET Nat /\ IsFiniteSet(S) /\ IsFiniteSet(T)
  BY <1>2, KnownIs, FS_Subset
<1>4. Around(l) = Sorted(S) \o Sorted(T)
  BY DEF Around
<1> HIDE DEF S, T
<1>5. Once(S, Sorted(S)) /\ Once(T, Sorted(T))
  BY <1>3, SortedIs DEF Once
<1> QED
  BY <1>2, <1>4, <1>5, Joined

\* A run chooses each of its orders once, among those the database knows.
LEMMA ChosenIs ==
  ASSUME \A l \in Lanes : cursor.at.pos[l] \in Nat
  PROVE  Once(Known, Chosen)
<1> DEFINE share(l) == Share(l, cursor.at.pass)
           u(l) == UpTo(Around(l), share(l))
           b(l) == Beyond(Around(l), share(l))
           sure == u("active") \o u("transit") \o u("history")
           spare == b("active") \o b("transit") \o b("history")
<1>1. \A l \in Lanes : share(l) \in Nat /\ Once(Lane(l), Around(l))
  BY ShareIs, AroundIs
<1>2. /\ Lane("active") \cap Lane("transit") = {} /\ Lane("active") \cap Lane("history") = {}
      /\ Lane("transit") \cap Lane("history") = {}
      /\ Lane("active") \subseteq Known /\ Lane("transit") \subseteq Known /\ Lane("history") \subseteq Known
  BY DEF Lane
<1>3. Chosen = sure \o UpTo(spare, Limit - Len(sure))
  BY DEF Chosen
<1> DEFINE La == Lane("active")
           Lt == Lane("transit")
           Lh == Lane("history")
<1> HIDE DEF share
<1>4. PICK A \in SUBSET La : Once(A, u("active")) /\ Once(La \ A, b("active"))
  BY <1>1, Parted DEF Lanes
<1>5. PICK T \in SUBSET Lt : Once(T, u("transit")) /\ Once(Lt \ T, b("transit"))
  BY <1>1, Parted DEF Lanes
<1>6. PICK H \in SUBSET Lh : Once(H, u("history")) /\ Once(Lh \ H, b("history"))
  BY <1>1, Parted DEF Lanes
<1> HIDE DEF u, b, La, Lt, Lh
<1>7. Once((A \cup T) \cup H, sure)
  <2>1. A \cap T = {} /\ (A \cup T) \cap H = {}
    BY <1>2 DEF La, Lt, Lh
  <2>2. Once(A \cup T, u("active") \o u("transit"))
    BY <1>4, <1>5, <2>1, Joined
  <2> QED
    BY <1>6, <2>1, <2>2, Joined
<1> DEFINE R == ((La \ A) \cup (Lt \ T)) \cup (Lh \ H)
<1>8. Once(R, spare)
  <2>1. (La \ A) \cap (Lt \ T) = {} /\ ((La \ A) \cup (Lt \ T)) \cap (Lh \ H) = {}
    BY <1>2 DEF La, Lt, Lh
  <2>2. Once((La \ A) \cup (Lt \ T), b("active") \o b("transit"))
    BY <1>4, <1>5, <2>1, Joined
  <2> QED
    BY <1>6, <2>1, <2>2, Joined
<1>9. R \cap ((A \cup T) \cup H) = {} /\ R \subseteq Known /\ (A \cup T) \cup H \subseteq Known
  BY <1>2 DEF La, Lt, Lh
<1> HIDE DEF sure, spare, R
<1>10. Once(R, UpTo(spare, Limit - Len(sure)))
  <2>1. Limit - Len(sure) \in Int
    BY <1>7, LenProperties, SyncAssumption DEF Once
  <2> QED
    BY <1>8, <2>1, FirstOnce
<1> DEFINE more == UpTo(spare, Limit - Len(sure))
           all == (A \cup T) \cup H
<1> HIDE DEF more, all
<1>11. Once(all \cup R, sure \o more)
  BY <1>7, <1>9, <1>10, Joined DEF all, more
<1>12. all \cup R \subseteq Known
  BY <1>9 DEF all
<1> QED
  BY <1>3, <1>11, <1>12, Widened DEF more

-----------------------------------------------------------------------------
\* The invariant.

Reading == [val : Values \cup {"none"}, ver : 0..MaxVer]
Place == [pos : [Lanes -> Orders \cup {0}], pass : 0..9]
RunRow == [st : {"idle", "reading", "storing"}, chosen : Seq(Orders), done : Nat,
           got : [Orders -> Reading], from : Place, at : [Orders -> Lanes], waiting : SUBSET Orders]

Types ==
  /\ remote \in [Orders -> [val : Values, ver : 1..MaxVer, past : SUBSET Values]]
  /\ order \in [Orders -> [known : BOOLEAN, val : Values \cup {"none"}, ver : 0..MaxVer, lane : Lanes]]
  /\ journal \subseteq [kind : {"status", "order"}, of : Orders, val : Values]
  /\ cursor \in [at : Place, token : SUBSET Runs, live : BOOLEAN]
  /\ cursor.token = {} \/ \E r \in Runs : cursor.token = {r}
  /\ run \in [Runs -> RunRow]
  /\ pull \in [Orders -> Reading] /\ wave \in [Orders -> Reading]
  /\ overtaken \subseteq Orders

\* x, a status of the order o, was reported by the marketplace, which now says
\* m; unless a status came back, only the latest reading says what m says.
Sound(o, m, over, x) ==
  /\ x.val \in m.past /\ x.ver \in 1..m.ver
  /\ x.ver = m.ver => x.val = m.val
  /\ o \notin over /\ x.val = m.val => x.ver = m.ver

\* What is stored.
Had == \A o \in Orders : remote[o].val \in remote[o].past
StoredSound == \A o \in Known : Sound(o, remote[o], overtaken, order[o])
EventsSound == \A e \in journal : e.val \in remote[e.of].past /\ (e.kind = "status" => e.of \in Known)
Stored == Had /\ StoredSound /\ EventsSound /\ JournalKeepsItsWord

\* What was read and is not stored yet.
ReadsSound(got) == \A o \in Orders : got[o] # None => Sound(o, remote[o], overtaken, got[o])
Until(r) == IF Ozon THEN run[r].done + 1 ELSE Len(run[r].chosen)
RunSound(r) ==
  /\ Once(Known, run[r].chosen) /\ run[r].done <= Len(run[r].chosen)
  /\ ReadsSound(run[r].got)
  /\ run[r].st = "storing" =>
       /\ run[r].done < Len(run[r].chosen)
       /\ \A i \in (run[r].done + 1)..Until(r) : run[r].got[run[r].chosen[i]] # None
Held == ReadsSound(pull) /\ ReadsSound(wave) /\ \A o \in Orders : wave[o] # None => o \in Known
Readings == Held /\ \A r \in Runs : RunSound(r)

SyncInv == Types /\ Stored /\ Readings

LEMMA NoneIs == None \in Reading /\ None.ver = 0
  BY SyncAssumption DEF None, Reading

LEMMA SyncInit == Init => SyncInv
<1> SUFFICES ASSUME Init PROVE SyncInv
  OBVIOUS
<1> USE SyncAssumption, NoneIs
<1>1. ASSUME NEW o \in Orders
      PROVE  \E v \in Values : remote[o] = [val |-> v, ver |-> 1, past |-> {v}]
  BY DEF Init
<1>2. ASSUME NEW o \in Orders
      PROVE  /\ remote[o] \in [val : Values, ver : 1..MaxVer, past : SUBSET Values]
             /\ remote[o].val \in Values /\ remote[o].ver = 1 /\ remote[o].past = {remote[o].val}
  <2>1. PICK v \in Values : remote[o] = [val |-> v, ver |-> 1, past |-> {v}]
    BY <1>1
  <2>2. MaxVer \in Nat \ {0} /\ 1 \in 1..MaxVer /\ {v} \in SUBSET Values
    OBVIOUS
  <2> QED
    BY ONLY <2>1, <2>2
<1>3. ASSUME NEW o \in Orders
      PROVE  /\ order[o] \in [known : BOOLEAN, val : Values \cup {"none"}, ver : 0..MaxVer, lane : Lanes]
             /\ order[o].known => o \in Imported /\ order[o].val = remote[o].val /\ order[o].ver = 1
             /\ o \in Imported => order[o].known
  <2>1. order[o] = IF o \in Imported
         THEN [known |-> TRUE, val |-> remote[o].val, ver |-> 1,
               lane |-> IF o \in HandedOver THEN "transit" ELSE "active"]
         ELSE [known |-> FALSE, val |-> "none", ver |-> 0, lane |-> "active"]
    BY DEF Init
  <2>2. remote[o].val \in Values
    BY <1>2
  <2> QED
    BY <2>1, <2>2 DEF Lanes
<1>4. Fresh \in Place
  BY DEF Fresh, Place, Lanes
<1>5. Nothing \in [Orders -> Reading] /\ \A o \in Orders : Nothing[o] = None
  BY DEF Nothing
<1>6. Idle \in RunRow
  BY <1>4, <1>5 DEF Idle, RunRow, Lanes
<1>7. Types
  <2>1. remote \in [Orders -> [val : Values, ver : 1..MaxVer, past : SUBSET Values]]
    BY <1>2 DEF Init
  <2>2. order \in [Orders -> [known : BOOLEAN, val : Values \cup {"none"}, ver : 0..MaxVer, lane : Lanes]]
    BY <1>3 DEF Init
  <2>3. journal \subseteq [kind : {"status", "order"}, of : Orders, val : Values]
    BY <1>2 DEF Init
  <2> QED
    BY <1>4, <1>5, <1>6, <2>1, <2>2, <2>3 DEF Types, Init
<1>8. Stored
  <2>1. Had
    BY <1>2 DEF Had
  <2>2. StoredSound
    <3> SUFFICES ASSUME NEW o \in Orders, order[o].known
                 PROVE  Sound(o, remote[o], overtaken, order[o])
      BY DEF StoredSound, Known
    <3>1. order[o].val = remote[o].val /\ order[o].ver = 1
      BY <1>3
    <3>2. remote[o].ver = 1 /\ remote[o].val \in remote[o].past
      BY <1>2
    <3> QED
      BY <3>1, <3>2 DEF Sound
  <2>3. ASSUME NEW e \in journal
        PROVE  /\ e.kind = "order" /\ e.of \in Orders /\ e.val = remote[e.of].val
    BY DEF Init
  <2>4. EventsSound
    <3> SUFFICES ASSUME NEW e \in journal
                 PROVE  e.val \in remote[e.of].past /\ e.kind # "status"
      BY DEF EventsSound
    <3>1. PICK o \in Orders : o = e.of /\ e.kind = "order" /\ e.val = remote[o].val
      BY <2>3
    <3>2. remote[o].past = {remote[o].val}
      BY <1>2
    <3> QED
      BY <3>1, <3>2
  <2>5. JournalKeepsItsWord
    BY <2>3 DEF JournalKeepsItsWord
  <2> QED
    BY <2>1, <2>2, <2>4, <2>5 DEF Stored
<1>9. Readings
  <2>1. Held
    BY <1>5 DEF Held, ReadsSound, Init
  <2>2. ASSUME NEW r \in Runs PROVE RunSound(r)
    <3>1. run[r] = Idle
      BY DEF Init
    <3>2. run[r].chosen = <<>> /\ run[r].done = 0 /\ run[r].got = Nothing /\ run[r].st = "idle"
      BY <3>1 DEF Idle
    <3>3. Once(Known, run[r].chosen) /\ Len(run[r].chosen) = 0
      BY <3>2, EmptySeq DEF Once, Distinct
    <3> QED
      BY <1>5, <3>2, <3>3 DEF RunSound, ReadsSound
  <2> QED
    BY <2>1, <2>2 DEF Readings
<1> QED
  BY <1>7, <1>8, <1>9 DEF SyncInv

-----------------------------------------------------------------------------
\* What every step leaves true of a reading.
Later ==
  /\ \A o \in Orders : \A x : Sound(o, remote[o], overtaken, x) => Sound(o, remote'[o], overtaken', x)
  /\ Known \subseteq Known'

LEMMA SameStored ==
  ASSUME Stored, remote' = remote, order' = order, journal' = journal, overtaken' = overtaken
  PROVE  Stored' /\ Later
<1>1. Known' = Known
  BY DEF Known
<1>2. Later
  BY <1>1 DEF Later
<1>3. Had' /\ StoredSound' /\ EventsSound' /\ JournalKeepsItsWord'
  BY <1>1 DEF Stored, Had, StoredSound, EventsSound, JournalKeepsItsWord
<1> QED
  BY <1>2, <1>3 DEF Stored

LEMMA RunKept ==
  ASSUME NEW q \in Runs, RunSound(q), Later,
         run'[q].chosen = run[q].chosen, run'[q].done = run[q].done,
         run'[q].got = run[q].got, run'[q].st = run[q].st
  PROVE  RunSound(q)'
<1>1. Once(Known', run'[q].chosen)
  BY Widened DEF RunSound, Later
<1>2. ReadsSound(run[q].got)'
  BY DEF RunSound, ReadsSound, Later
<1>3. Until(q)' = Until(q)
  BY DEF Until
<1> QED
  BY <1>1, <1>2, <1>3 DEF RunSound

LEMMA RunIdle ==
  ASSUME NEW q \in Runs, run'[q] = Idle
  PROVE  RunSound(q)'
<1>1. /\ run'[q].chosen = <<>> /\ run'[q].done = 0 /\ run'[q].got = Nothing /\ run'[q].st = "idle"
  BY DEF Idle
<1>2. Once(Known', run'[q].chosen) /\ Len(run'[q].chosen) = 0
  BY <1>1, EmptySeq DEF Once, Distinct
<1>3. \A o \in Orders : Nothing[o] = None
  BY DEF Nothing
<1>4. ReadsSound(run[q].got)'
  BY <1>1, <1>3 DEF ReadsSound
<1> QED
  BY <1>1, <1>2, <1>4 DEF RunSound

LEMMA HeldKept ==
  ASSUME Held, Later, pull' \in {pull, Nothing}, wave' \in {wave, Nothing}
  PROVE  Held'
<1>1. \A o \in Orders : Nothing[o] = None
  BY DEF Nothing
<1>2. \A o \in Orders : pull'[o] # None => pull'[o] = pull[o] /\ pull[o] # None
  BY <1>1
<1>3. \A o \in Orders : wave'[o] # None => wave'[o] = wave[o] /\ wave[o] # None
  BY <1>1
<1>4. ReadsSound(pull)'
  BY <1>2 DEF Held, ReadsSound, Later
<1>5. ReadsSound(wave)'
  BY <1>3 DEF Held, ReadsSound, Later
<1>6. \A o \in Orders : wave'[o] # None => o \in Known'
  BY <1>3 DEF Held, Later
<1> QED
  BY <1>4, <1>5, <1>6 DEF Held

\* A reading made now.
LEMMA ReadNow ==
  ASSUME Types, Had, NEW o \in Orders
  PROVE  /\ ReadOf(o) \in Reading /\ ReadOf(o) # None
         /\ Sound(o, remote[o], overtaken, ReadOf(o))
<1>1. remote[o] \in [val : Values, ver : 1..MaxVer, past : SUBSET Values]
  BY DEF Types
<1>2. ReadOf(o).val = remote[o].val /\ ReadOf(o).ver = remote[o].ver
  BY DEF ReadOf
<1>3. ReadOf(o) \in Reading
  BY <1>1, SyncAssumption DEF ReadOf, Reading
<1>4. ReadOf(o) # None
  BY <1>1, <1>2, NoneIs
<1>5. remote[o].val \in remote[o].past
  BY DEF Had
<1> QED
  BY <1>1, <1>2, <1>3, <1>4, <1>5 DEF Sound

-----------------------------------------------------------------------------
\* Steps that store nothing.

LEMMA AdvancedIs ==
  ASSUME Types, NEW r \in Runs, NEW s \in Seq(Orders)
  PROVE  Advanced(r, s) \in [Lanes -> Orders \cup {0}]
<1> SUFFICES ASSUME NEW l \in Lanes
             PROVE  Advanced(r, s)[l] \in Orders \cup {0}
  BY DEF Advanced
<1> DEFINE mine == {i \in DOMAIN s : run[r].at[s[i]] = l}
<1>1. Advanced(r, s)[l] = IF mine = {} THEN run[r].from.pos[l] ELSE s[Max(mine)]
  BY DEF Advanced
<1>2. run[r].from.pos[l] \in Orders \cup {0}
  BY DEF Types, RunRow, Place
<1>3. Len(s) \in Nat /\ DOMAIN s = 1..Len(s)
  BY LenProperties
<1>4. mine \subseteq 1..Len(s)
  BY <1>3
<1> HIDE DEF mine
<1>5. CASE mine # {}
  <2>1. IsFiniteSet(mine) /\ mine \in SUBSET Nat
    <3>1. IsFiniteSet(1..Len(s)) /\ 1..Len(s) \subseteq Nat
      BY <1>3, FS_Interval
    <3> QED
      BY <1>4, <3>1, FS_Subset
  <2>2. \E n \in mine : \A m \in mine : n >= m
    BY <1>5, <2>1, Largest
  <2>3. Max(mine) \in mine
    BY <2>2 DEF Max
  <2> QED
    BY <1>1, <1>3, <1>4, <1>5, <2>3, ElementOfSeq
<1> QED
  BY <1>1, <1>2, <1>5

\* A step of one run that may move the cursor and leaves the rest.
LEMMA RunStepKeeps ==
  ASSUME SyncInv, NEW r \in Runs,
         UNCHANGED <<remote, order, journal, pull, wave, overtaken>>,
         NEW row, row \in RunRow, run' = [run EXCEPT ![r] = row], RunSound(r)',
         cursor' \in [at : Place, token : SUBSET Runs, live : BOOLEAN],
         cursor'.token = {} \/ \E q \in Runs : cursor'.token = {q}
  PROVE  SyncInv'
<1>1. run \in [Runs -> RunRow]
  BY DEF SyncInv, Types
<1>2. run' \in [Runs -> RunRow]
  BY <1>1
<1>3. Types'
  BY <1>2 DEF SyncInv, Types
<1>4. Stored' /\ Later
  BY SameStored DEF SyncInv
<1>5. Held'
  BY <1>4, HeldKept DEF SyncInv, Readings
<1>6. ASSUME NEW q \in Runs PROVE RunSound(q)'
  <2>1. CASE q = r
    BY <2>1
  <2>2. CASE q # r
    <3>1. run'[q] = run[q]
      BY <1>1, <2>2
    <3> QED
      BY <1>4, <3>1, RunKept DEF SyncInv, Readings
  <2> QED
    BY <2>1, <2>2
<1> QED
  BY <1>3, <1>4, <1>5, <1>6 DEF SyncInv, Readings

\* A run ends.
LEMMA RunEnds ==
  ASSUME SyncInv, NEW r \in Runs,
         UNCHANGED <<remote, order, journal, pull, wave, overtaken>>,
         run' = [run EXCEPT ![r] = Idle],
         NEW at, at \in Place, Release(r, at) \/ UNCHANGED cursor
  PROVE  SyncInv'
<1>1. Idle \in RunRow
  <2>1. Fresh \in Place
    BY DEF Fresh, Place, Lanes
  <2>2. Nothing \in [Orders -> Reading]
    BY NoneIs DEF Nothing
  <2> QED
    BY <2>1, <2>2 DEF Idle, RunRow, Lanes
<1>2. run'[r] = Idle
  <2>1. run \in [Runs -> RunRow]
    BY DEF SyncInv, Types
  <2> QED
    BY <2>1
<1>3. RunSound(r)'
  BY <1>2, RunIdle
<1>4. /\ cursor' \in [at : Place, token : SUBSET Runs, live : BOOLEAN]
      /\ cursor'.token = {} \/ \E q \in Runs : cursor'.token = {q}
  <2>1. /\ cursor \in [at : Place, token : SUBSET Runs, live : BOOLEAN]
        /\ cursor.token = {} \/ \E q \in Runs : cursor.token = {q}
    BY DEF SyncInv, Types
  <2>2. cursor' = cursor \/ cursor' = [at |-> at, token |-> {}, live |-> FALSE]
    BY DEF Release
  <2>3. CASE cursor' = cursor
    BY <2>1, <2>3
  <2>4. CASE cursor' = [at |-> at, token |-> {}, live |-> FALSE]
    <3>1. cursor' \in [at : Place, token : SUBSET Runs, live : BOOLEAN]
      BY <2>4
    <3>2. cursor'.token = {}
      BY <2>4
    <3> QED
      BY <3>1, <3>2
  <2> QED
    BY <2>2, <2>3, <2>4
<1> QED
  BY <1>1, <1>3, <1>4, RunStepKeeps

LEMMA FinishStep ==
  ASSUME SyncInv, NEW r \in Runs, Finish(r)
  PROVE  SyncInv'
<1> DEFINE at == [pos |-> Advanced(r, run[r].chosen), pass |-> NextPass(run[r].from.pass)]
<1>1. run[r] \in RunRow
  BY DEF SyncInv, Types
<1>2. NextPass(run[r].from.pass) \in 0..9
  <2>1. run[r].from.pass \in 0..9
    BY <1>1 DEF RunRow, Place
  <2>2. (run[r].from.pass + 1) % 10 \in 0..9
    BY <2>1
  <2> QED
    BY <2>2 DEF NextPass
<1>3. Advanced(r, run[r].chosen) \in [Lanes -> Orders \cup {0}]
  BY <1>1, AdvancedIs DEF SyncInv, RunRow
<1>4. at \in Place
  BY <1>2, <1>3 DEF Place
<1>5. PICK a : a = at
  OBVIOUS
<1>6. a \in Place /\ Release(r, a)
  BY <1>4, <1>5 DEF Finish, Release
<1>7. UNCHANGED <<remote, order, journal, pull, wave, overtaken>> /\ run' = [run EXCEPT ![r] = Idle]
  BY DEF Finish
<1> QED
  BY <1>6, <1>7, RunEnds

LEMMA FailStep ==
  ASSUME SyncInv, NEW r \in Runs, Fail(r)
  PROVE  SyncInv'
<1> DEFINE at == IF Ozon THEN [run[r].from EXCEPT !.pos =
                                 Advanced(r, SubSeq(run[r].chosen, 1, run[r].done))]
                 ELSE run[r].from
<1>1. run[r] \in RunRow /\ RunSound(r)
  BY DEF SyncInv, Types, Readings
<1>2. SubSeq(run[r].chosen, 1, run[r].done) \in Seq(Orders)
  <2>1. Once(Known, run[r].chosen) /\ run[r].done <= Len(run[r].chosen) /\ run[r].done \in Nat
    BY <1>1 DEF RunSound, RunRow
  <2>2. Once(Known, SubSeq(run[r].chosen, 1, run[r].done))
    BY <2>1, SliceOnce
  <2> QED
    BY <2>2, KnownIs, SeqMonotonic DEF Once
<1>3. Advanced(r, SubSeq(run[r].chosen, 1, run[r].done)) \in [Lanes -> Orders \cup {0}]
  BY <1>2, AdvancedIs DEF SyncInv
<1>4. at \in Place
  BY <1>1, <1>3 DEF Place, RunRow
<1>5. PICK a : a = at
  OBVIOUS
<1>6. a \in Place /\ Release(r, a)
  BY <1>4, <1>5 DEF Fail, Release
<1>7. UNCHANGED <<remote, order, journal, pull, wave, overtaken>> /\ run' = [run EXCEPT ![r] = Idle]
  BY DEF Fail
<1> QED
  BY <1>6, <1>7, RunEnds

LEMMA CrashStep ==
  ASSUME SyncInv, NEW r \in Runs, Crash(r)
  PROVE  SyncInv'
<1>1. UNCHANGED <<remote, order, journal, pull, wave, overtaken, cursor>> /\ run' = [run EXCEPT ![r] = Idle]
  BY DEF Crash
<1>2. PICK a : a = cursor.at
  OBVIOUS
<1>3. a \in Place
  BY <1>2 DEF SyncInv, Types
<1> QED
  BY <1>1, <1>3, RunEnds

LEMMA StartStep ==
  ASSUME SyncInv, NEW r \in Runs, Start(r)
  PROVE  SyncInv'
<1>1. cursor.at \in Place /\ cursor \in [at : Place, token : SUBSET Runs, live : BOOLEAN]
  BY DEF SyncInv, Types
<1>2. Once(Known, Chosen) /\ Chosen \in Seq(Orders)
  <2>1. \A l \in Lanes : cursor.at.pos[l] \in Nat
    <3>1. cursor.at.pos \in [Lanes -> Orders \cup {0}]
      BY <1>1 DEF Place
    <3>2. Orders \subseteq Nat /\ Orders \cup {0} \subseteq Nat
      BY SyncAssumption
    <3>3. ASSUME NEW l \in Lanes PROVE cursor.at.pos[l] \in Orders \cup {0}
      BY <3>1
    <3> QED
      BY <3>2, <3>3
  <2>2. Once(Known, Chosen)
    BY <2>1, ChosenIs
  <2> QED
    BY <2>2, KnownIs, SeqMonotonic DEF Once
<1> DEFINE at == [o \in Orders |-> order[o].lane]
           due == {o \in Known : Share(order[o].lane, cursor.at.pass) > 0}
<1>3. at \in [Orders -> Lanes] /\ due \in SUBSET Orders
  BY KnownIs DEF SyncInv, Types
<1>4. PICK row : row = [Idle EXCEPT !.st = "reading", !.chosen = Chosen, !.from = cursor.at,
                                    !.at = at, !.waiting = due]
  OBVIOUS
<1> HIDE DEF at, due
<1>5. /\ row = [st |-> "reading", chosen |-> Chosen, done |-> 0, got |-> Nothing,
                from |-> cursor.at, at |-> at, waiting |-> due]
      /\ run' = [run EXCEPT ![r] = row]
  BY <1>4 DEF Start, Idle, at, due
<1>6. Nothing \in [Orders -> Reading] /\ \A o \in Orders : Nothing[o] = None
  BY NoneIs DEF Nothing
<1>7. row \in RunRow
  BY <1>1, <1>2, <1>3, <1>5, <1>6 DEF RunRow
<1>8. UNCHANGED <<remote, order, journal, pull, wave, overtaken>>
  BY DEF Start
<1>9. RunSound(r)'
  <2>1. run'[r] = row
    <3>1. run \in [Runs -> RunRow]
      BY DEF SyncInv, Types
    <3> QED
      BY <1>5, <3>1
  <2>2. run'[r].chosen = Chosen /\ run'[r].done = 0 /\ run'[r].got = Nothing /\ run'[r].st = "reading"
    BY <1>5, <2>1
  <2>3. Known' = Known
    BY <1>8 DEF Known
  <2>4. 0 <= Len(Chosen)
    BY <1>2, LenProperties
  <2>5. ReadsSound(run[r].got)'
    BY <1>6, <2>2 DEF ReadsSound
  <2> QED
    BY <1>2, <2>2, <2>3, <2>4, <2>5 DEF RunSound
<1>10. /\ cursor' \in [at : Place, token : SUBSET Runs, live : BOOLEAN]
       /\ cursor'.token = {r}
  BY <1>1 DEF Start
<1> QED
  BY <1>5, <1>7, <1>8, <1>9, <1>10, RunStepKeeps

\* What a run has still to read.
LEMMA LeftIs ==
  ASSUME SyncInv, NEW r \in Runs
  PROVE  /\ Once(Known, Left(r)) /\ Len(Left(r)) = Len(run[r].chosen) - run[r].done
         /\ Len(Left(r)) \in Nat /\ run[r].done \in Nat /\ Len(run[r].chosen) \in Nat
         /\ \A i \in 1..Len(Left(r)) : Left(r)[i] = run[r].chosen[run[r].done + i]
<1>1. Once(Known, run[r].chosen) /\ run[r].done <= Len(run[r].chosen) /\ run[r].done \in Nat
  BY DEF SyncInv, Types, RunRow, Readings, RunSound
<1>2. PICK s, d : s = run[r].chosen /\ d = run[r].done
  OBVIOUS
<1>3. s \in Seq(Known) /\ Distinct(s) /\ Len(s) \in Nat /\ d \in Nat /\ d <= Len(s)
  BY <1>1, <1>2, LenProperties DEF Once
<1>4. Left(r) = SubSeq(s, d + 1, Len(s))
  BY <1>2 DEF Left, Beyond
<1> DEFINE t == SubSeq(s, d + 1, Len(s))
<1>5. /\ t \in Seq(Known) /\ Distinct(t) /\ Len(t) = (IF d + 1 <= Len(s) THEN Len(s) - (d + 1) + 1 ELSE 0)
      /\ \A i \in 1..Len(t) : t[i] = s[d + 1 + i - 1]
  <2>1. PICK m, n : m = d + 1 /\ n = Len(s)
    OBVIOUS
  <2>2. m \in Nat \ {0} /\ n \in Int /\ n <= Len(s)
    BY <1>3, <2>1
  <2>3. /\ SubSeq(s, m, n) \in Seq(Known) /\ Distinct(SubSeq(s, m, n))
        /\ Len(SubSeq(s, m, n)) = IF m <= n THEN n - m + 1 ELSE 0
        /\ \A i \in 1..Len(SubSeq(s, m, n)) : SubSeq(s, m, n)[i] = s[m + i - 1]
    BY <1>3, <2>2, SliceIs
  <2> QED
    BY ONLY <2>1, <2>3
<1> HIDE DEF t
<1>6. Len(t) = Len(s) - d /\ Len(t) \in Nat /\ \A i \in 1..Len(t) : t[i] = s[d + i]
  BY <1>3, <1>5
<1> QED
  BY <1>2, <1>3, <1>4, <1>5, <1>6 DEF Once, t

LEMMA ReadStep ==
  ASSUME SyncInv, NEW r \in Runs, Read(r)
  PROVE  SyncInv'
<1>1. run \in [Runs -> RunRow] /\ run[r] \in RunRow /\ RunSound(r)
  BY DEF SyncInv, Types, Readings
<1> DEFINE got == [o \in Orders |-> IF o \in Asked(r) THEN ReadOf(o) ELSE None]
<1>2. \A o \in Orders : /\ got[o] \in Reading
                        /\ o \in Asked(r) => got[o] # None
                        /\ got[o] # None => Sound(o, remote[o], overtaken, got[o])
  BY ReadNow, NoneIs DEF SyncInv, Stored
<1>3. got \in [Orders -> Reading]
  BY <1>2
<1>4. PICK row : row = [run[r] EXCEPT !.st = "storing", !.got = got]
  OBVIOUS
<1>5. run' = [run EXCEPT ![r] = row]
  BY <1>4 DEF Read
<1> HIDE DEF got
<1>6. /\ row \in RunRow /\ row.st = "storing" /\ row.got = got
      /\ row.chosen = run[r].chosen /\ row.done = run[r].done
  BY <1>1, <1>3, <1>4 DEF RunRow
<1>7. UNCHANGED <<remote, order, journal, pull, wave, overtaken, cursor>> /\ Left(r) # <<>>
  BY DEF Read
<1>8. RunSound(r)'
  <2>1. run'[r] = row
    BY <1>1, <1>5
  <2>2. Known' = Known
    BY <1>7 DEF Known
  <2>3. ReadsSound(run[r].got)'
    BY <1>2, <1>6, <1>7, <2>1 DEF ReadsSound
  <2>4. Until(r)' = Until(r)
    BY <1>6, <2>1 DEF Until
  <2>5. Len(Left(r)) > 0
    BY <1>7, LeftIs, EmptySeq DEF Once
  <2>6. run[r].done < Len(run[r].chosen)
    BY <2>5, LeftIs
  <2>7. ASSUME NEW i \in (run[r].done + 1)..Until(r)
        PROVE  got[run[r].chosen[i]] # None
    <3> DEFINE j == i - run[r].done
    <3>1. j \in 1..Len(Left(r)) /\ (Ozon => j = 1)
      <4>1. /\ run[r].done \in Nat /\ Len(run[r].chosen) \in Nat
            /\ Len(Left(r)) = Len(run[r].chosen) - run[r].done
        BY LeftIs
      <4>2. CASE Ozon
        BY <2>6, <4>1, <4>2 DEF Until
      <4>3. CASE ~Ozon
        BY <2>6, <4>1, <4>3 DEF Until
      <4> QED
        BY <4>2, <4>3
    <3> HIDE DEF j
    <3>2. Left(r)[j] = run[r].chosen[i] /\ Left(r)[j] \in Known
      <4>1. run[r].done + j = i
        BY LeftIs, <2>6 DEF j
      <4> QED
        BY <3>1, <4>1, LeftIs, ElementOfSeq DEF Once
    <3>3. Left(r)[j] \in Asked(r)
      <4>1. CASE Ozon
        BY <3>1, <4>1 DEF Asked
      <4>2. CASE ~Ozon
        BY <3>1, <4>2, LeftIs, LenProperties DEF Asked, ToSet, Once
      <4> QED
        BY <4>1, <4>2
    <3> QED
      BY <1>2, <3>2, <3>3, KnownIs
  <2> QED
    BY <1>1, <1>6, <2>1, <2>2, <2>3, <2>4, <2>6, <2>7 DEF RunSound
<1>9. /\ cursor' \in [at : Place, token : SUBSET Runs, live : BOOLEAN]
      /\ cursor'.token = {} \/ \E q \in Runs : cursor'.token = {q}
  BY <1>7 DEF SyncInv, Types
<1> QED
  BY <1>5, <1>6, <1>7, <1>8, <1>9, RunStepKeeps

\* Steps outside the runs that read, or give up what was read.
LEMMA OutsideKeeps ==
  ASSUME SyncInv, UNCHANGED <<remote, order, journal, run, overtaken>>, Held',
         pull' \in [Orders -> Reading], wave' \in [Orders -> Reading],
         cursor' \in [at : Place, token : SUBSET Runs, live : BOOLEAN], cursor'.token = cursor.token
  PROVE  SyncInv'
<1>1. Stored' /\ Later
  BY SameStored DEF SyncInv
<1>2. \A q \in Runs : RunSound(q)'
  BY <1>1, RunKept DEF SyncInv, Readings
<1>3. Types'
  BY DEF SyncInv, Types
<1> QED
  BY <1>1, <1>2, <1>3 DEF SyncInv, Readings

LEMMA ExpireStep ==
  ASSUME SyncInv, Expire
  PROVE  SyncInv'
<1>1. UNCHANGED <<remote, order, journal, run, pull, wave, overtaken>>
      /\ cursor' = [cursor EXCEPT !.live = FALSE]
  BY DEF Expire
<1>2. Held'
  BY <1>1, SameStored, HeldKept DEF SyncInv, Readings
<1>3. cursor \in [at : Place, token : SUBSET Runs, live : BOOLEAN]
      /\ pull \in [Orders -> Reading] /\ wave \in [Orders -> Reading]
  BY DEF SyncInv, Types
<1> QED
  BY <1>1, <1>2, <1>3, OutsideKeeps

LEMMA GiveUpStep ==
  ASSUME SyncInv, PullFails \/ WaveFails
  PROVE  SyncInv'
<1>1. /\ UNCHANGED <<remote, order, journal, run, overtaken, cursor>>
      /\ pull' \in {pull, Nothing} /\ wave' \in {wave, Nothing}
  BY DEF PullFails, WaveFails
<1>2. Held'
  BY <1>1, SameStored, HeldKept DEF SyncInv, Readings
<1>3. Nothing \in [Orders -> Reading]
  BY NoneIs DEF Nothing
<1>4. cursor \in [at : Place, token : SUBSET Runs, live : BOOLEAN]
      /\ pull \in [Orders -> Reading] /\ wave \in [Orders -> Reading]
  BY DEF SyncInv, Types
<1>5. pull' \in [Orders -> Reading] /\ wave' \in [Orders -> Reading]
  BY <1>1, <1>3, <1>4
<1> QED
  BY <1>1, <1>2, <1>4, <1>5, OutsideKeeps

LEMMA PullReadStep ==
  ASSUME SyncInv, PullRead
  PROVE  SyncInv'
<1>1. /\ UNCHANGED <<remote, order, journal, run, overtaken, cursor, wave>>
      /\ pull' = [o \in Orders |-> IF remote[o].val \in Listed THEN ReadOf(o) ELSE None]
  BY DEF PullRead
<1>2. ASSUME NEW o \in Orders
      PROVE  pull'[o] \in Reading /\ (pull'[o] # None => Sound(o, remote'[o], overtaken', pull'[o]))
  <2>1. pull'[o] = None \/ pull'[o] = ReadOf(o)
    BY <1>1
  <2> QED
    BY <1>1, <2>1, ReadNow, NoneIs DEF SyncInv, Stored
<1>3. pull' \in [Orders -> Reading]
  BY <1>1, <1>2
<1>4. Held'
  BY <1>1, <1>2 DEF SyncInv, Readings, Held, ReadsSound, Known
<1>5. cursor \in [at : Place, token : SUBSET Runs, live : BOOLEAN] /\ wave \in [Orders -> Reading]
  BY DEF SyncInv, Types
<1> QED
  BY <1>1, <1>3, <1>4, <1>5, OutsideKeeps

LEMMA WaveReadStep ==
  ASSUME SyncInv, NEW S \in SUBSET Known, WaveRead(S)
  PROVE  SyncInv'
<1>1. /\ UNCHANGED <<remote, order, journal, run, overtaken, cursor, pull>>
      /\ wave' = [o \in Orders |-> IF o \in S THEN ReadOf(o) ELSE None]
  BY DEF WaveRead
<1>2. ASSUME NEW o \in Orders
      PROVE  /\ wave'[o] \in Reading
             /\ wave'[o] # None => Sound(o, remote'[o], overtaken', wave'[o]) /\ o \in Known'
  <2>1. (wave'[o] = None \/ wave'[o] = ReadOf(o)) /\ (wave'[o] # None => o \in S)
    BY <1>1
  <2>2. Known' = Known
    BY <1>1 DEF Known
  <2> QED
    BY <1>1, <2>1, <2>2, ReadNow, NoneIs DEF SyncInv, Stored
<1>3. wave' \in [Orders -> Reading]
  BY <1>1, <1>2
<1>4. Held'
  BY <1>1, <1>2 DEF SyncInv, Readings, Held, ReadsSound
<1>5. cursor \in [at : Place, token : SUBSET Runs, live : BOOLEAN] /\ pull \in [Orders -> Reading]
  BY DEF SyncInv, Types
<1> QED
  BY <1>1, <1>3, <1>4, <1>5, OutsideKeeps

-----------------------------------------------------------------------------
\* Steps that store.
OrderRow == [known : BOOLEAN, val : Values \cup {"none"}, ver : 0..MaxVer, lane : Lanes]
Event == [kind : {"status", "order"}, of : Orders, val : Values]
StatusEvent(o, v) == [kind |-> "status", of |-> o, val |-> v]

\* Sound readings become no less sound while the marketplace stands still.
LEMMA Standing ==
  ASSUME NEW m, NEW o, NEW over, NEW more, over \subseteq more, NEW x, Sound(o, m, over, x)
  PROVE  Sound(o, m, more, x)
  BY DEF Sound

\* A known order before a step: what the two properties say of it.
LEMMA OrderIs ==
  ASSUME SyncInv, NEW o \in Orders
  PROVE  /\ order[o] \in OrderRow
         /\ remote[o] \in [val : Values, ver : 1..MaxVer, past : SUBSET Values]
         /\ remote[o].val \in remote[o].past
         /\ order[o].known => Sound(o, remote[o], overtaken, order[o])
         /\ order[o].known /\ o \notin overtaken /\ StatusEvent(o, remote[o].val) \in journal
              => order[o].val = remote[o].val
         /\ \A v : StatusEvent(o, v) \in journal => order[o].known
<1>1. order[o] \in OrderRow /\ remote[o] \in [val : Values, ver : 1..MaxVer, past : SUBSET Values]
  BY DEF SyncInv, Types, OrderRow
<1>2. remote[o].val \in remote[o].past
  BY DEF SyncInv, Stored, Had
<1>3. order[o].known => Sound(o, remote[o], overtaken, order[o])
  BY DEF SyncInv, Stored, StoredSound, Known
<1>4. order[o].known /\ o \notin overtaken /\ StatusEvent(o, remote[o].val) \in journal
        => order[o].val = remote[o].val
  BY DEF SyncInv, Stored, JournalKeepsItsWord, Known, StatusEvent
<1>5. ASSUME NEW v, StatusEvent(o, v) \in journal PROVE order[o].known
  <2>1. \A e \in journal : e.kind = "status" => e.of \in Known
    BY DEF SyncInv, Stored, EventsSound
  <2>2. StatusEvent(o, v).kind = "status" /\ StatusEvent(o, v).of = o
    BY DEF StatusEvent
  <2> QED
    BY <1>5, <2>1, <2>2 DEF Known
<1> QED
  BY <1>1, <1>2, <1>3, <1>4, <1>5

LEMMA SoundIs ==
  ASSUME NEW o \in Orders, NEW x \in Reading, SyncInv, Sound(o, remote[o], overtaken, x)
  PROVE  x.val \in Values /\ x.ver \in 1..MaxVer
<1>1. remote[o] \in [val : Values, ver : 1..MaxVer, past : SUBSET Values]
  BY DEF SyncInv, Types
<1> QED
  BY <1>1 DEF Sound, Reading

\* An order takes a value read before.
LEMMA WrittenIs ==
  ASSUME SyncInv, NEW o \in Orders, NEW x \in Reading, Sound(o, remote[o], overtaken, x), NEW l \in Lanes,
         NEW row, row = Written(o, x, l) \/ row = [Written(o, x, l) EXCEPT !.known = TRUE]
  PROVE  /\ row \in OrderRow /\ row.val = x.val /\ row.ver = x.ver
         /\ row.known = order[o].known \/ row.known
         /\ Sound(o, remote[o], overtaken, row)
<1>1. order[o] \in OrderRow
  BY OrderIs
<1>2. x.val \in Values \cup {"none"} /\ x.ver \in 0..MaxVer
  BY DEF Reading
<1>3. CASE row = Written(o, x, l)
  <2>1. /\ row \in OrderRow /\ row.val = x.val /\ row.ver = x.ver /\ row.known = order[o].known
    BY <1>1, <1>2, <1>3 DEF Written, OrderRow
  <2> QED
    BY <2>1 DEF Sound
<1>4. CASE row = [Written(o, x, l) EXCEPT !.known = TRUE]
  <2>1. /\ row \in OrderRow /\ row.val = x.val /\ row.ver = x.ver /\ row.known
    BY <1>1, <1>2, <1>4 DEF Written, OrderRow
  <2> QED
    BY <2>1 DEF Sound
<1> QED
  BY <1>3, <1>4

\* The payload is known; the reading may still be later than the order's.
LEMMA KeptIs ==
  ASSUME SyncInv, NEW o \in Orders, NEW x \in Reading, Sound(o, remote[o], overtaken, x), NEW l \in Lanes,
         NEW row, row = Kept(o, x, l)
  PROVE  /\ row \in OrderRow /\ row.val = order[o].val /\ row.known = order[o].known
         /\ order[o].known => Sound(o, remote[o], overtaken, row)
<1>1. order[o] \in OrderRow /\ (order[o].known => Sound(o, remote[o], overtaken, order[o]))
  BY OrderIs
<1>2. x.val \in Values \cup {"none"} /\ x.ver \in 0..MaxVer
  BY DEF Reading
<1> DEFINE later == order[o].ver < x.ver /\ order[o].val = x.val
<1>3. CASE later
  <2>1. row = [order[o] EXCEPT !.ver = x.ver, !.lane = l]
    BY <1>1, <1>3 DEF Kept, OrderRow
  <2>2. row \in OrderRow /\ row.val = order[o].val /\ row.known = order[o].known /\ row.ver = x.ver
    BY <1>1, <1>2, <2>1 DEF OrderRow
  <2>3. Sound(o, remote[o], overtaken, row)
    BY <1>3, <2>2 DEF Sound
  <2> QED
    BY <2>2, <2>3
<1>4. CASE ~later
  <2>1. row = [order[o] EXCEPT !.ver = order[o].ver, !.lane = l]
    BY <1>1, <1>4 DEF Kept, OrderRow
  <2>2. row \in OrderRow /\ row.val = order[o].val /\ row.known = order[o].known /\ row.ver = order[o].ver
    BY <1>1, <2>1 DEF OrderRow
  <2>3. order[o].known => Sound(o, remote[o], overtaken, row)
    BY <1>1, <2>2 DEF Sound
  <2> QED
    BY <2>2, <2>3
<1> QED
  BY <1>3, <1>4

\* Enough for a step that stores: what it says of each order.
LEMMA StoresWell ==
  ASSUME SyncInv, UNCHANGED remote, overtaken \subseteq overtaken', overtaken' \subseteq Orders,
         order' \in [Orders -> OrderRow],
         \A o \in Orders : order[o].known => order'[o].known,
         \A o \in Orders : order'[o].known => Sound(o, remote[o], overtaken', order'[o]),
         \A o \in Orders : order'[o].known /\ o \notin overtaken' /\ StatusEvent(o, remote[o].val) \in journal'
                             => order'[o].val = remote[o].val,
         \A e \in journal' \ journal : /\ e \in Event /\ e.val \in remote[e.of].past
                                       /\ e.kind = "status" => order[e.of].known
  PROVE  /\ Stored' /\ Later
         /\ order' \in [Orders -> OrderRow] /\ journal' \subseteq Event
<1>1. Known \subseteq Known'
  BY DEF Known
<1>2. Later
  BY <1>1, Standing DEF Later
<1>3. Had'
  BY DEF SyncInv, Stored, Had
<1>4. StoredSound'
  BY DEF StoredSound, Known
<1>5. ASSUME NEW e \in journal'
      PROVE  /\ e \in Event /\ e.val \in remote'[e.of].past
             /\ e.kind = "status" => e.of \in Known'
  <2>1. CASE e \in journal
    <3>1. e \in Event
      BY <2>1 DEF SyncInv, Types, Event
    <3>2. e.val \in remote[e.of].past /\ (e.kind = "status" => e.of \in Known)
      BY <2>1 DEF SyncInv, Stored, EventsSound
    <3> QED
      BY <1>1, <3>1, <3>2
  <2>2. CASE e \notin journal
    <3>1. /\ e \in Event /\ e.val \in remote[e.of].past
          /\ e.kind = "status" => order[e.of].known
      BY <2>2
    <3>2. e.of \in Orders
      BY <3>1 DEF Event
    <3> QED
      BY <1>1, <3>1, <3>2 DEF Known
  <2> QED
    BY <2>1, <2>2
<1>6. EventsSound'
  BY <1>5 DEF EventsSound
<1>7. JournalKeepsItsWord'
  BY DEF JournalKeepsItsWord, Known, StatusEvent
<1> QED
  BY <1>2, <1>3, <1>4, <1>5, <1>6, <1>7 DEF Stored

\* What is stored, named so that the lemma can be cited.
OrdersAfter(S, got, fresh, lane) ==
  [o \in Orders |-> IF o \in fresh THEN Written(o, got[o], lane[o])
                    ELSE IF o \in S THEN Kept(o, got[o], lane[o]) ELSE order[o]]
EventsOf(S, got) == {StatusEvent(o, got[o].val) : o \in S}
Older(fresh, got) == {o \in fresh : got[o].ver < order[o].ver}

LEMMA StatusesStored ==
  ASSUME SyncInv, UNCHANGED remote,
         NEW S \in SUBSET Known, NEW got,
         \A o \in S : got[o] \in Reading /\ Sound(o, remote[o], overtaken, got[o]),
         NEW fresh \in SUBSET S, \A o \in S \ fresh : StatusEvent(o, got[o].val) \in journal,
         NEW lane \in [S -> Lanes],
         order' = OrdersAfter(S, got, fresh, lane),
         journal' = journal \cup EventsOf(S, got), overtaken' = overtaken \cup Older(fresh, got)
  PROVE  /\ Stored' /\ Later
         /\ order' \in [Orders -> OrderRow] /\ journal' \subseteq Event /\ overtaken' \subseteq Orders
<1>0. /\ order' = [o \in Orders |->
                     IF o \in fresh THEN Written(o, got[o], lane[o])
                     ELSE IF o \in S THEN Kept(o, got[o], lane[o]) ELSE order[o]]
      /\ journal' = journal \cup {StatusEvent(o, got[o].val) : o \in S}
      /\ overtaken' = overtaken \cup {o \in fresh : got[o].ver < order[o].ver}
  BY DEF OrdersAfter, EventsOf, Older
<1> USE <1>0
<1>1. overtaken' \subseteq Orders /\ overtaken \subseteq overtaken'
  BY KnownIs DEF SyncInv, Types
<1>2. ASSUME NEW e \in journal' \ journal
      PROVE  /\ e \in Event /\ e.val \in remote[e.of].past
             /\ e.kind = "status" => order[e.of].known
  <2>1. PICK o \in S : e = StatusEvent(o, got[o].val)
    BY <1>2
  <2>2. o \in Orders /\ order[o].known /\ got[o] \in Reading /\ Sound(o, remote[o], overtaken, got[o])
    BY <2>1 DEF Known
  <2>3. got[o].val \in Values /\ got[o].val \in remote[o].past
    BY <2>2, SoundIs DEF Sound
  <2>4. e.of = o /\ e.val = got[o].val /\ e \in Event
    BY <2>1, <2>2, <2>3 DEF StatusEvent, Event
  <2> QED
    BY <2>2, <2>3, <2>4
<1>3. ASSUME NEW o \in Orders
      PROVE  /\ order'[o] \in OrderRow /\ order'[o].known = order[o].known
             /\ order[o].known => Sound(o, remote[o], overtaken', order'[o])
             /\ order[o].known /\ o \notin overtaken' /\ StatusEvent(o, remote[o].val) \in journal'
                  => order'[o].val = remote[o].val
  <2>1. CASE o \in fresh
    <3>1. order'[o] = Written(o, got[o], lane[o]) /\ o \in S /\ lane[o] \in Lanes
      BY <2>1
    <3>2. o \in Known /\ got[o] \in Reading /\ Sound(o, remote[o], overtaken, got[o])
      BY <3>1
    <3>3. PICK x, l, row : x = got[o] /\ l = lane[o] /\ row = Written(o, x, l)
      OBVIOUS
    <3>4. order'[o] = row
      BY <3>1, <3>3 DEF Written
    <3>5. /\ row \in OrderRow /\ row.val = x.val /\ row.ver = x.ver
          /\ Sound(o, remote[o], overtaken, row)
      BY <3>1, <3>2, <3>3, WrittenIs
    <3>6. row.known = order[o].known
      <4>1. order[o] \in OrderRow
        BY OrderIs
      <4> QED
        BY <3>3, <4>1 DEF Written, OrderRow
    <3>7. ASSUME order[o].known, o \notin overtaken', StatusEvent(o, remote[o].val) \in journal'
          PROVE  x.val = remote[o].val
      <4>1. o \notin overtaken /\ ~(x.ver < order[o].ver)
        BY <1>1, <2>1, <3>3, <3>7
      <4>2. CASE StatusEvent(o, remote[o].val) \in journal
        <5>1. order[o].val = remote[o].val /\ Sound(o, remote[o], overtaken, order[o])
          BY <3>7, <4>1, <4>2, OrderIs
        <5>2. order[o].ver = remote[o].ver
          BY <4>1, <5>1 DEF Sound
        <5>3. x.ver \in 1..remote[o].ver /\ (x.ver = remote[o].ver => x.val = remote[o].val)
          BY <3>2, <3>3 DEF Sound
        <5>4. remote[o].ver \in Nat
          BY OrderIs
        <5> QED
          BY <4>1, <5>2, <5>3, <5>4
      <4>3. CASE StatusEvent(o, remote[o].val) \notin journal
        <5>1. PICK p \in S : StatusEvent(o, remote[o].val) = StatusEvent(p, got[p].val)
          BY <3>7, <4>3
        <5>2. o = p /\ remote[o].val = got[p].val
          BY <5>1 DEF StatusEvent
        <5> QED
          BY <3>3, <5>2
      <4> QED
        BY <4>2, <4>3
    <3>8. Sound(o, remote[o], overtaken', row)
      BY <1>1, <3>5, Standing
    <3> QED
      BY <3>4, <3>5, <3>6, <3>7, <3>8
  <2>2. CASE o \in S /\ o \notin fresh
    <3>1. order'[o] = Kept(o, got[o], lane[o]) /\ lane[o] \in Lanes
      BY <2>2
    <3>2. o \in Known /\ got[o] \in Reading /\ Sound(o, remote[o], overtaken, got[o])
      BY <2>2
    <3>3. PICK x, l, row : x = got[o] /\ l = lane[o] /\ row = Kept(o, x, l)
      OBVIOUS
    <3>4. order'[o] = row
      BY <3>1, <3>3 DEF Kept
    <3>5. /\ row \in OrderRow /\ row.val = order[o].val /\ row.known = order[o].known
          /\ order[o].known => Sound(o, remote[o], overtaken, row)
      BY <3>1, <3>2, <3>3, KeptIs
    <3>6. StatusEvent(o, remote[o].val) \in journal' => StatusEvent(o, remote[o].val) \in journal
      <4> SUFFICES ASSUME StatusEvent(o, remote[o].val) \in journal', StatusEvent(o, remote[o].val) \notin journal
                   PROVE  FALSE
        OBVIOUS
      <4>1. PICK p \in S : StatusEvent(o, remote[o].val) = StatusEvent(p, got[p].val)
        OBVIOUS
      <4>2. o = p /\ remote[o].val = got[o].val
        BY <4>1 DEF StatusEvent
      <4> QED
        BY <2>2, <4>2
    <3>7. order[o].known => Sound(o, remote[o], overtaken', row)
      BY <1>1, <3>5, Standing
    <3>8. order[o].known /\ o \notin overtaken' /\ StatusEvent(o, remote[o].val) \in journal'
            => order[o].val = remote[o].val
      BY <1>1, <3>6, OrderIs
    <3> QED
      BY <3>4, <3>5, <3>7, <3>8
  <2>3. CASE o \notin S
    <3>1. order'[o] = order[o]
      BY <2>3
    <3>2. StatusEvent(o, remote[o].val) \in journal' => StatusEvent(o, remote[o].val) \in journal
      <4> SUFFICES ASSUME StatusEvent(o, remote[o].val) \in journal', StatusEvent(o, remote[o].val) \notin journal
                   PROVE  FALSE
        OBVIOUS
      <4>1. PICK p \in S : StatusEvent(o, remote[o].val) = StatusEvent(p, got[p].val)
        OBVIOUS
      <4>2. o = p
        BY <4>1 DEF StatusEvent
      <4> QED
        BY <2>3, <4>2
    <3>3. order[o].known => Sound(o, remote[o], overtaken', order[o])
      BY <1>1, OrderIs, Standing
    <3> QED
      BY <1>1, <3>1, <3>2, <3>3, OrderIs
  <2> QED
    BY <2>1, <2>2, <2>3
<1>4. order' \in [Orders -> OrderRow]
  BY <1>3
<1> QED
  BY <1>1, <1>2, <1>3, <1>4, StoresWell

\* What a run stores in one transaction, from the answer it holds.
LEMMA PortionIs ==
  ASSUME SyncInv, NEW r \in Runs, run[r].st = "storing",
         NEW n, n = (IF Ozon THEN 1 ELSE Len(UpTo(Left(r), ChunkSize))),
         NEW S, S = ToSet(SubSeq(Left(r), 1, n))
  PROVE  /\ n \in 1..Len(Left(r))
         /\ S = {run[r].chosen[i] : i \in (run[r].done + 1)..(run[r].done + n)}
         /\ S \subseteq Known /\ \A o \in S : run[r].got[o] # None
<1>1. run[r].done < Len(run[r].chosen)
      /\ \A i \in (run[r].done + 1)..Until(r) : run[r].got[run[r].chosen[i]] # None
  BY DEF SyncInv, Readings, RunSound
<1>2. PICK s, d, t : s = run[r].chosen /\ d = run[r].done /\ t = Left(r)
  OBVIOUS
<1>3. /\ Once(Known, t) /\ t \in Seq(Known) /\ Distinct(t) /\ Len(t) = Len(s) - d /\ Len(t) \in Nat /\ d \in Nat /\ Len(s) \in Nat
      /\ \A i \in 1..Len(t) : t[i] = s[d + i]
  BY <1>2, LeftIs DEF Once
<1>4. n \in 1..Len(t)
  <2>1. Len(t) >= 1
    BY <1>1, <1>2, <1>3
  <2>2. CASE Ozon
    BY <2>1, <2>2, <1>3
  <2>3. CASE ~Ozon
    <3> DEFINE k == IF Len(t) < ChunkSize THEN Len(t) ELSE ChunkSize
    <3>1. k \in 1..Len(t)
      BY <1>3, <2>1, SyncAssumption
    <3>2. UpTo(t, ChunkSize) = SubSeq(t, 1, k)
      BY DEF UpTo
    <3> HIDE DEF k
    <3>3. Len(SubSeq(t, 1, k)) = k
      <4>1. k \in Int /\ k <= Len(t) /\ 1 <= k /\ 1 \in Nat \ {0}
        BY <1>3, <3>1
      <4>2. Len(SubSeq(t, 1, k)) = IF 1 <= k THEN k - 1 + 1 ELSE 0
        BY <1>3, <4>1, SliceIs
      <4> QED
        BY <4>1, <4>2
    <3>4. n = Len(UpTo(t, ChunkSize))
      BY <1>2, <2>3
    <3> QED
      BY <3>1, <3>2, <3>3, <3>4
  <2> QED
    BY <2>2, <2>3
<1>5. /\ Len(SubSeq(t, 1, n)) = n /\ SubSeq(t, 1, n) \in Seq(Known)
      /\ \A i \in 1..n : SubSeq(t, 1, n)[i] = t[i]
  <2>1. n \in Int /\ n <= Len(t) /\ 1 <= n /\ 1 \in Nat \ {0}
    BY <1>3, <1>4
  <2> DEFINE u == SubSeq(t, 1, n)
  <2>2. /\ u \in Seq(Known) /\ Len(u) = (IF 1 <= n THEN n - 1 + 1 ELSE 0)
        /\ \A i \in 1..Len(u) : u[i] = t[1 + i - 1]
    BY <1>3, <2>1, SliceIs
  <2> HIDE DEF u
  <2>3. Len(u) = n /\ \A i \in 1..n : u[i] = t[i]
    BY <2>1, <2>2
  <2> QED
    BY <2>2, <2>3 DEF u
<1>6. PICK u : u = SubSeq(t, 1, n)
  OBVIOUS
<1>7. DOMAIN u = 1..n /\ \A i \in 1..n : u[i] = s[d + i] /\ u[i] \in Known
  <2>1. DOMAIN u = 1..n
    BY <1>5, <1>6, LenProperties
  <2>2. ASSUME NEW i \in 1..n PROVE u[i] = s[d + i] /\ u[i] \in Known
    <3>1. i \in 1..Len(t) /\ i \in 1..Len(u)
      BY <1>3, <1>4, <1>5, <1>6
    <3> QED
      BY <1>3, <1>5, <1>6, <3>1, ElementOfSeq
  <2> QED
    BY <2>1, <2>2
<1>8. S = {u[i] : i \in 1..n}
  BY <1>2, <1>6, <1>7 DEF ToSet
<1>9. S = {s[i] : i \in (d + 1)..(d + n)}
  <2>1. ASSUME NEW i \in 1..n PROVE u[i] = s[d + i] /\ d + i \in (d + 1)..(d + n)
    BY <1>3, <1>4, <1>7
  <2>2. ASSUME NEW i \in (d + 1)..(d + n) PROVE i - d \in 1..n /\ s[i] = u[i - d]
    <3>1. i - d \in 1..n /\ d + (i - d) = i
      BY <1>3, <1>4
    <3> QED
      BY <1>7, <3>1
  <2> DEFINE T == {s[i] : i \in (d + 1)..(d + n)}
  <2>3. ASSUME NEW o \in S PROVE o \in T
    <3>1. PICK i \in 1..n : o = u[i]
      BY <1>8
    <3>2. o = s[d + i] /\ d + i \in (d + 1)..(d + n)
      BY <2>1, <3>1
    <3> QED
      BY <3>2
  <2>4. ASSUME NEW o \in T PROVE o \in S
    <3>1. PICK i \in (d + 1)..(d + n) : o = s[i]
      OBVIOUS
    <3>2. o = u[i - d] /\ i - d \in 1..n
      BY <2>2, <3>1
    <3> QED
      BY <1>8, <3>2
  <2> HIDE DEF T
  <2>5. S = T
    BY <2>3, <2>4
  <2> QED
    BY <2>5 DEF T
<1>10. ASSUME NEW o \in S PROVE o \in Known /\ run[r].got[o] # None
  <2>1. PICK i \in 1..n : o = u[i]
    BY <1>8
  <2>2. d + i \in (run[r].done + 1)..Until(r)
    <3>1. CASE Ozon
      BY <1>2, <1>3, <3>1 DEF Until
    <3>2. CASE ~Ozon
      <4>1. n <= Len(s) - d /\ n \in Nat
        BY <1>3, <1>4
      <4>2. d + i \in (d + 1)..Len(s)
        BY ONLY <4>1, <1>3, i \in 1..n
      <4>3. Until(r) = Len(s)
        BY <1>2, <3>2 DEF Until
      <4> QED
        BY <1>2, <4>2, <4>3
    <3> QED
      BY <3>1, <3>2
  <2>3. o = run[r].chosen[d + i] /\ o \in Known
    BY <1>2, <1>7, <2>1
  <2> QED
    BY <1>1, <2>2, <2>3
<1> QED
  BY <1>2, <1>4, <1>9, <1>10

\* The runs go on; orders may leave what they wait for.
LEMMA RunsGoOn ==
  ASSUME SyncInv, Later, NEW q \in Runs, NEW W \in SUBSET run[q].waiting,
         run'[q] = [run[q] EXCEPT !.waiting = W]
  PROVE  run'[q] \in RunRow /\ RunSound(q)'
<1>1. run[q] \in RunRow /\ RunSound(q)
  BY DEF SyncInv, Types, Readings
<1>2. W \subseteq Orders
  BY <1>1 DEF RunRow
<1>3. /\ run'[q] \in RunRow
      /\ run'[q].chosen = run[q].chosen /\ run'[q].done = run[q].done
      /\ run'[q].got = run[q].got /\ run'[q].st = run[q].st
  BY <1>1, <1>2 DEF RunRow
<1> QED
  BY <1>1, <1>3, RunKept

LEMMA StoreStep ==
  ASSUME SyncInv, NEW r \in Runs, Store(r)
  PROVE  SyncInv'
<1> DEFINE n0 == IF Ozon THEN 1 ELSE Len(UpTo(Left(r), ChunkSize))
           S0 == ToSet(SubSeq(Left(r), 1, n0))
<1>1. PICK n, S : n = n0 /\ S = S0
  OBVIOUS
<1>2. PICK g, d, c : g = run[r].got /\ d = run[r].done /\ c = run[r].chosen
  OBVIOUS
<1>3. /\ run[r].st = "storing"
      /\ UNCHANGED <<remote, cursor, pull, wave>>
  BY DEF Store
<1>4. /\ n \in 1..Len(Left(r)) /\ S = {c[i] : i \in (d + 1)..(d + n)}
      /\ S \subseteq Known /\ \A o \in S : g[o] # None
  BY <1>1, <1>2, <1>3, PortionIs
<1>5. run[r] \in RunRow /\ RunSound(r) /\ run \in [Runs -> RunRow]
  BY DEF SyncInv, Types, Readings
<1>6. \A o \in S : g[o] \in Reading /\ Sound(o, remote[o], overtaken, g[o])
  BY <1>2, <1>4, <1>5, KnownIs DEF RunSound, ReadsSound, RunRow
<1> DEFINE fresh0 == {o \in S : ~Journalled("status", o, g[o].val) \/ o \in {}}
<1>7. PICK fresh : fresh = fresh0
  OBVIOUS
<1>8. PICK lane \in [S -> Lanes] :
        /\ order' = OrdersAfter(S, g, fresh, lane)
        /\ journal' = journal \cup EventsOf(S, g) /\ overtaken' = overtaken \cup Older(fresh, g)
  <2>1. StoreStatuses(S0, run[r].got, {})
    BY DEF Store
  <2> HIDE DEF S0
  <2> DEFINE new == {o \in S0 : ~Journalled("status", o, run[r].got[o].val) \/ o \in {}}
  <2>2. PICK lane \in [S0 -> Lanes] :
          order' = [o \in Orders |->
             IF o \in new THEN Written(o, run[r].got[o], lane[o])
             ELSE IF o \in S0 THEN Kept(o, run[r].got[o], lane[o]) ELSE order[o]]
    BY <2>1 DEF StoreStatuses
  <2>3. /\ journal' = journal \cup {StatusEvent(o, run[r].got[o].val) : o \in S0}
        /\ overtaken' = overtaken \cup {o \in new : run[r].got[o].ver < order[o].ver}
    BY <2>1 DEF StoreStatuses, StatusEvent
  <2>4. S0 = S /\ run[r].got = g
    BY <1>1, <1>2
  <2>5. new = fresh
    BY <1>7, <2>4
  <2> HIDE DEF new
  <2>6. order' = [o \in Orders |->
             IF o \in fresh THEN Written(o, g[o], lane[o])
             ELSE IF o \in S THEN Kept(o, g[o], lane[o]) ELSE order[o]]
    BY <2>2, <2>4, <2>5 DEF Written, Kept
  <2> QED
    BY <2>2, <2>3, <2>4, <2>5, <2>6 DEF OrdersAfter, EventsOf, Older
<1>9. fresh \in SUBSET S /\ \A o \in S \ fresh : StatusEvent(o, g[o].val) \in journal
  BY <1>7 DEF Journalled, StatusEvent
<1>10. /\ Stored' /\ Later
       /\ order' \in [Orders -> OrderRow] /\ journal' \subseteq Event /\ overtaken' \subseteq Orders
  BY <1>3, <1>4, <1>6, <1>8, <1>9, StatusesStored
<1>11. Held'
  BY <1>3, <1>10, HeldKept DEF SyncInv, Readings
<1>12. ASSUME NEW q \in Runs, q # r PROVE run'[q] \in RunRow /\ RunSound(q)'
  <2>1. run'[q] = [run[q] EXCEPT !.waiting = Unmoved(@) \ S]
    BY <1>1, <1>12 DEF Store
  <2>2. PICK W : W = Unmoved(run[q].waiting) \ S
    OBVIOUS
  <2>3. W \in SUBSET run[q].waiting
    BY <2>2 DEF Unmoved
  <2>4. run'[q] = [run[q] EXCEPT !.waiting = W]
    BY <2>1, <2>2
  <2> QED
    BY <1>10, <2>3, <2>4, RunsGoOn
<1>13. run'[r] \in RunRow /\ RunSound(r)'
  <2>1. run'[r] = [[run[r] EXCEPT !.waiting = Unmoved(@) \ S] EXCEPT
                      !.done = @ + n,
                      !.got = [o \in Orders |-> IF o \in S THEN None ELSE @[o]],
                      !.st = IF Ozon \/ n = Len(Left(r)) THEN "reading" ELSE @]
    <3>1. run'[r] = [[run[r] EXCEPT !.waiting = Unmoved(@) \ S0] EXCEPT
                      !.done = @ + n0,
                      !.got = [o \in Orders |-> IF o \in S0 THEN None ELSE @[o]],
                      !.st = IF Ozon \/ n0 = Len(Left(r)) THEN "reading" ELSE @]
      BY DEF Store
    <3> QED
      BY <1>1, <3>1
  <2> DEFINE W == Unmoved(run[r].waiting) \ S
             G == [o \in Orders |-> IF o \in S THEN None ELSE g[o]]
             st == IF Ozon \/ n = Len(Left(r)) THEN "reading" ELSE "storing"
  <2>2. W \subseteq Orders
    BY <1>5 DEF Unmoved, RunRow
  <2>3. /\ G \in [Orders -> Reading]
        /\ \A o \in Orders : G[o] = IF o \in S THEN None ELSE g[o]
    BY <1>2, <1>5, NoneIs DEF RunRow
  <2>4. st \in {"reading", "storing"} /\ (st = "storing" => ~Ozon /\ n # Len(Left(r)))
    OBVIOUS
  <2>5. run'[r] = [run[r] EXCEPT !.waiting = W, !.done = d + n, !.got = G, !.st = st]
    BY <1>2, <1>3, <1>5, <2>1, ZenonT(30) DEF RunRow
  <2> HIDE DEF W, G, st
  <2>6. /\ d \in Nat /\ Len(c) \in Nat /\ n \in 1..(Len(c) - d) /\ Len(Left(r)) = Len(c) - d
        /\ Once(Known, c)
    BY <1>2, <1>4, <1>5, LeftIs DEF RunSound
  <2>7. /\ run'[r] \in RunRow /\ run'[r].st = st /\ run'[r].chosen = c
        /\ run'[r].done = d + n /\ run'[r].got = G
    <3>1. d + n \in Nat
      BY <2>6
    <3>2. st \in {"idle", "reading", "storing"}
      BY <2>4
    <3>3. PICK row \in RunRow : row = run[r] /\ row.chosen = c
      BY <1>2, <1>5
    <3>4. PICK m \in Nat : m = d + n
      BY <3>1
    <3>5. run'[r] = [row EXCEPT !.waiting = W, !.done = m, !.got = G, !.st = st]
      BY ONLY <2>5, <3>3, <3>4
    <3>6. G \in [Orders -> Reading]
      BY <2>3
    <3>7. [row EXCEPT !.waiting = W, !.done = m, !.got = G, !.st = st] \in RunRow
      BY <2>2, <3>2, <3>6 DEF RunRow
    <3>8. /\ run'[r].st = st /\ run'[r].chosen = c
          /\ run'[r].done = m /\ run'[r].got = G
      BY <3>3, <3>5 DEF RunRow
    <3> QED
      BY <3>4, <3>5, <3>7, <3>8
  <2>8. Once(Known', c)
    BY <1>10, <2>6, Widened DEF Later
  <2>9. ReadsSound(run[r].got)'
    <3> SUFFICES ASSUME NEW o \in Orders, G[o] # None PROVE Sound(o, remote'[o], overtaken', G[o])
      BY <2>7 DEF ReadsSound
    <3>1. G[o] = g[o]
      BY <2>3
    <3>2. Sound(o, remote[o], overtaken, g[o])
      BY <1>2, <1>5, <3>1 DEF RunSound, ReadsSound
    <3> QED
      BY <1>10, <3>1, <3>2 DEF Later
  <2>10. ASSUME st = "storing"
         PROVE  /\ d + n < Len(c)
                /\ \A i \in (d + n + 1)..Len(c) : G[c[i]] # None
    <3>1. d + n < Len(c) /\ ~Ozon
      BY <2>4, <2>6, <2>10
    <3>2. ASSUME NEW i \in (d + n + 1)..Len(c) PROVE G[c[i]] # None
      <4>1. i \in 1..Len(c) /\ i \in (d + 1)..Len(c)
        BY <2>6
      <4>2. c[i] \notin S
        <5> SUFFICES ASSUME NEW j \in (d + 1)..(d + n), c[i] = c[j] PROVE FALSE
          BY <1>4
        <5>1. j \in 1..Len(c) /\ j # i
          BY <2>6
        <5> QED
          BY <2>6, <4>1, <5>1 DEF Once, Distinct
      <4>3. c[i] \in Orders
        BY <2>6, <4>1, KnownIs, ElementOfSeq DEF Once
      <4>4. g[c[i]] # None
        BY <1>2, <1>3, <1>5, <3>1, <4>1 DEF RunSound, Until
      <4> QED
        BY <2>3, <4>2, <4>3, <4>4
    <3> QED
      BY <3>1, <3>2
  <2>11. d + n <= Len(c)
    BY <2>6
  <2>12. st = "storing" => ~Ozon
    BY <2>4
  <2> QED
    BY <2>7, <2>8, <2>9, <2>10, <2>11, <2>12 DEF RunSound, Until
<1>14. \A q \in Runs : run'[q] \in RunRow /\ RunSound(q)'
  BY <1>12, <1>13
<1>15. run' \in [Runs -> RunRow]
  BY <1>14 DEF Store
<1>16. Types'
  BY <1>3, <1>10, <1>15 DEF SyncInv, Types, OrderRow, Event
<1> QED
  BY <1>10, <1>11, <1>14, <1>16 DEF SyncInv, Readings

\* What a storing step outside the runs does to the runs.
LEMMA RunsGoOnAll ==
  ASSUME SyncInv, Later, \A q \in Runs : \E W \in SUBSET run[q].waiting : run'[q] = [run[q] EXCEPT !.waiting = W]
  PROVE  \A q \in Runs : run'[q] \in RunRow /\ RunSound(q)'
<1> SUFFICES ASSUME NEW q \in Runs PROVE run'[q] \in RunRow /\ RunSound(q)'
  OBVIOUS
<1>1. PICK W \in SUBSET run[q].waiting : run'[q] = [run[q] EXCEPT !.waiting = W]
  OBVIOUS
<1> QED
  BY <1>1, RunsGoOn

LEMMA WaveStoreStep ==
  ASSUME SyncInv, WaveStore
  PROVE  SyncInv'
<1> DEFINE S0 == {o \in Orders : wave[o] # None}
<1>1. PICK S, g : S = S0 /\ g = wave
  OBVIOUS
<1>2. UNCHANGED <<remote, cursor, pull>> /\ wave' = Nothing
  BY DEF WaveStore
<1>3. wave \in [Orders -> Reading] /\ run \in [Runs -> RunRow]
  BY DEF SyncInv, Types
<1>4. S \in SUBSET Known /\ \A o \in S : g[o] \in Reading /\ Sound(o, remote[o], overtaken, g[o])
  BY <1>1, <1>3 DEF SyncInv, Readings, Held, ReadsSound
<1>5. PICK lane \in [S -> Lanes] :
        /\ order' = OrdersAfter(S, g, S, lane)
        /\ journal' = journal \cup EventsOf(S, g) /\ overtaken' = overtaken \cup Older(S, g)
  <2>1. StoreStatuses(S0, wave, S0)
    BY DEF WaveStore
  <2> HIDE DEF S0
  <2> DEFINE new == {o \in S0 : ~Journalled("status", o, wave[o].val) \/ o \in S0}
  <2>2. PICK lane \in [S0 -> Lanes] :
          order' = [o \in Orders |->
             IF o \in new THEN Written(o, wave[o], lane[o])
             ELSE IF o \in S0 THEN Kept(o, wave[o], lane[o]) ELSE order[o]]
    BY <2>1 DEF StoreStatuses
  <2>3. /\ journal' = journal \cup {StatusEvent(o, wave[o].val) : o \in S0}
        /\ overtaken' = overtaken \cup {o \in new : wave[o].ver < order[o].ver}
    BY <2>1 DEF StoreStatuses, StatusEvent
  <2>4. new = S0 /\ S0 = S /\ wave = g
    BY <1>1
  <2> HIDE DEF new
  <2>5. order' = [o \in Orders |->
             IF o \in S THEN Written(o, g[o], lane[o])
             ELSE IF o \in S THEN Kept(o, g[o], lane[o]) ELSE order[o]]
    BY <2>2, <2>4 DEF Written, Kept
  <2> QED
    BY <2>2, <2>3, <2>4, <2>5 DEF OrdersAfter, EventsOf, Older
<1>6. /\ Stored' /\ Later
      /\ order' \in [Orders -> OrderRow] /\ journal' \subseteq Event /\ overtaken' \subseteq Orders
  <2>1. S \in SUBSET S /\ \A o \in S \ S : StatusEvent(o, g[o].val) \in journal
    OBVIOUS
  <2> QED
    BY <1>2, <1>4, <1>5, <2>1, StatusesStored
<1>7. Held'
  BY <1>2, <1>6, HeldKept DEF SyncInv, Readings
<1>8. \A q \in Runs : run'[q] \in RunRow /\ RunSound(q)'
  <2>1. ASSUME NEW q \in Runs
        PROVE  \E W \in SUBSET run[q].waiting : run'[q] = [run[q] EXCEPT !.waiting = W]
    <3>1. run'[q] = [run[q] EXCEPT !.waiting = Unmoved(@) \ S0]
      BY DEF WaveStore
    <3>2. PICK W : W = Unmoved(run[q].waiting) \ S0
      OBVIOUS
    <3>3. W \in SUBSET run[q].waiting
      BY <3>2 DEF Unmoved
    <3>4. run'[q] = [run[q] EXCEPT !.waiting = W]
      BY <3>1, <3>2
    <3> QED
      BY <3>3, <3>4
  <2> QED
    BY <1>6, <2>1, RunsGoOnAll
<1>9. run' \in [Runs -> RunRow]
  BY <1>8 DEF WaveStore
<1>10. Nothing \in [Orders -> Reading]
  BY NoneIs DEF Nothing
<1>11. Types'
  BY <1>2, <1>6, <1>9, <1>10 DEF SyncInv, Types, OrderRow, Event
<1> QED
  BY <1>6, <1>7, <1>8, <1>11 DEF SyncInv, Readings

LEMMA PullStoreStep ==
  ASSUME SyncInv, PullStore
  PROVE  SyncInv'
<1> DEFINE S0 == {o \in Orders : pull[o] # None}
           fresh0 == {o \in S0 : ~order[o].known \/ ~Journalled("order", o, pull[o].val)}
<1>1. PICK S, fresh : S = S0 /\ fresh = fresh0
  OBVIOUS
<1>2. UNCHANGED <<remote, cursor, wave>> /\ pull' = Nothing
  BY DEF PullStore
<1>3. pull \in [Orders -> Reading] /\ run \in [Runs -> RunRow]
  BY DEF SyncInv, Types
<1>4. S \subseteq Orders /\ \A o \in S : pull[o] \in Reading /\ Sound(o, remote[o], overtaken, pull[o])
  BY <1>1, <1>3 DEF SyncInv, Readings, Held, ReadsSound
<1>5. fresh \subseteq S
  BY <1>1
<1>6. PICK lane \in [fresh -> Lanes] :
        order' = [o \in Orders |-> IF o \in fresh THEN [Written(o, pull[o], lane[o]) EXCEPT !.known = TRUE]
                                   ELSE order[o]]
  <2> HIDE DEF S0
  <2>1. PICK lane \in [fresh0 -> Lanes] :
        order' = [o \in Orders |-> IF o \in fresh0 THEN [Written(o, pull[o], lane[o]) EXCEPT !.known = TRUE]
                                   ELSE order[o]]
    BY DEF PullStore, S0
  <2> HIDE DEF fresh0
  <2> QED
    BY <1>1, <2>1
<1>7. /\ journal' = journal \cup {[kind |-> "order", of |-> o, val |-> pull[o].val] : o \in S}
      /\ overtaken' = overtaken \cup {o \in fresh : pull[o].ver < order[o].ver}
  BY <1>1 DEF PullStore
<1>8. overtaken' \subseteq Orders /\ overtaken \subseteq overtaken'
  BY <1>4, <1>5, <1>7 DEF SyncInv, Types
<1>9. ASSUME NEW e \in journal' \ journal
      PROVE  e \in Event /\ e.val \in remote[e.of].past /\ e.kind = "order"
  <2>1. PICK o \in S : e = [kind |-> "order", of |-> o, val |-> pull[o].val]
    BY <1>7, <1>9
  <2>2. o \in Orders /\ pull[o] \in Reading /\ Sound(o, remote[o], overtaken, pull[o])
    BY <1>4, <2>1
  <2>3. pull[o].val \in remote[o].past /\ pull[o].val \in Values
    BY <2>2, OrderIs DEF Sound
  <2> QED
    BY <2>1, <2>2, <2>3 DEF Event
<1>10. \A o, v : StatusEvent(o, v) \in journal' => StatusEvent(o, v) \in journal
  BY <1>9 DEF StatusEvent
<1>11. ASSUME NEW o \in Orders
       PROVE  /\ order'[o] \in OrderRow /\ (order[o].known => order'[o].known)
              /\ order'[o].known => Sound(o, remote[o], overtaken', order'[o])
              /\ order'[o].known /\ o \notin overtaken' /\ StatusEvent(o, remote[o].val) \in journal'
                   => order'[o].val = remote[o].val
  <2>1. CASE o \in fresh
    <3>1. order'[o] = [Written(o, pull[o], lane[o]) EXCEPT !.known = TRUE] /\ lane[o] \in Lanes
      BY <1>6, <2>1
    <3>2. pull[o] \in Reading /\ Sound(o, remote[o], overtaken, pull[o])
      BY <1>4, <1>5, <2>1
    <3>3. PICK x, l, row : x = pull[o] /\ l = lane[o] /\ row = [Written(o, x, l) EXCEPT !.known = TRUE]
      OBVIOUS
    <3>4. order'[o] = row
      BY <3>1, <3>3 DEF Written
    <3>5. /\ row \in OrderRow /\ row.val = x.val /\ row.ver = x.ver
          /\ Sound(o, remote[o], overtaken, row)
      BY <3>1, <3>2, <3>3, WrittenIs
    <3>6. row.known
      BY <3>3, OrderIs DEF Written, OrderRow
    <3>7. ASSUME o \notin overtaken', StatusEvent(o, remote[o].val) \in journal'
          PROVE  x.val = remote[o].val
      <4>1. o \notin overtaken /\ ~(x.ver < order[o].ver)
        BY <1>7, <2>1, <3>3, <3>7
      <4>2. order[o].val = remote[o].val /\ Sound(o, remote[o], overtaken, order[o])
        BY <1>10, <3>7, <4>1, OrderIs
      <4>3. order[o].ver = remote[o].ver
        BY <4>1, <4>2 DEF Sound
      <4>4. x.ver \in 1..remote[o].ver /\ (x.ver = remote[o].ver => x.val = remote[o].val)
        BY <3>2, <3>3 DEF Sound
      <4>5. remote[o].ver \in Nat
        BY OrderIs
      <4> QED
        BY <4>1, <4>3, <4>4, <4>5
    <3>8. Sound(o, remote[o], overtaken', row)
      BY <1>8, <3>5, Standing
    <3> QED
      BY <3>4, <3>5, <3>6, <3>7, <3>8
  <2>2. CASE o \notin fresh
    <3>1. order'[o] = order[o]
      BY <1>6, <2>2
    <3>2. order[o].known => Sound(o, remote[o], overtaken', order[o])
      BY <1>8, OrderIs, Standing
    <3> QED
      BY <1>8, <1>10, <3>1, <3>2, OrderIs
  <2> QED
    BY <2>1, <2>2
<1>12. order' \in [Orders -> OrderRow]
  BY <1>6, <1>11
<1>13. /\ Stored' /\ Later
       /\ order' \in [Orders -> OrderRow] /\ journal' \subseteq Event
  BY <1>2, <1>8, <1>9, <1>11, <1>12, StoresWell
<1>14. Held'
  BY <1>2, <1>13, HeldKept DEF SyncInv, Readings
<1>15. \A q \in Runs : run'[q] \in RunRow /\ RunSound(q)'
  <2>1. ASSUME NEW q \in Runs
        PROVE  \E W \in SUBSET run[q].waiting : run'[q] = [run[q] EXCEPT !.waiting = W]
    <3>1. run'[q] = [run[q] EXCEPT !.waiting = Unmoved(@)]
      BY DEF PullStore
    <3>2. PICK W : W = Unmoved(run[q].waiting)
      OBVIOUS
    <3>3. W \in SUBSET run[q].waiting
      BY <3>2 DEF Unmoved
    <3>4. run'[q] = [run[q] EXCEPT !.waiting = W]
      BY <3>1, <3>2
    <3> QED
      BY <3>3, <3>4
  <2> QED
    BY <1>13, <2>1, RunsGoOnAll
<1>16. run' \in [Runs -> RunRow]
  BY <1>15 DEF PullStore
<1>17. Nothing \in [Orders -> Reading]
  BY NoneIs DEF Nothing
<1>18. Types'
  BY <1>2, <1>8, <1>13, <1>16, <1>17 DEF SyncInv, Types, OrderRow, Event
<1> QED
  BY <1>13, <1>14, <1>15, <1>18 DEF SyncInv, Readings

-----------------------------------------------------------------------------
\* Steps of the marketplace and the warehouse.
LEMMA ChangeStep ==
  ASSUME SyncInv, NEW o \in Orders, NEW v \in Values, Change(o, v)
  PROVE  SyncInv'
<1>1. /\ UNCHANGED <<order, journal, cursor, run, pull, wave>>
      /\ remote[o].ver < MaxVer
      /\ overtaken' = IF v \in remote[o].past THEN overtaken \cup {o} ELSE overtaken \ {o}
  BY DEF Change
<1>2. remote \in [Orders -> [val : Values, ver : 1..MaxVer, past : SUBSET Values]]
  BY DEF SyncInv, Types
<1>3. PICK m : m = remote[o]
  OBVIOUS
<1>4. m \in [val : Values, ver : 1..MaxVer, past : SUBSET Values] /\ m.ver < MaxVer
  BY <1>1, <1>2, <1>3
<1>5. PICK w : w = [val |-> v, ver |-> m.ver + 1, past |-> m.past \cup {v}]
  OBVIOUS
<1>6. remote' = [remote EXCEPT ![o] = w]
  BY <1>3, <1>5 DEF Change
<1>7. w \in [val : Values, ver : 1..MaxVer, past : SUBSET Values]
      /\ w.val = v /\ w.ver = m.ver + 1 /\ w.past = m.past \cup {v}
  <2>1. m.ver + 1 \in 1..MaxVer /\ m.past \cup {v} \in SUBSET Values
    BY <1>4, SyncAssumption
  <2> QED
    BY <1>5, <2>1
<1>8. \A p \in Orders : remote'[p] = IF p = o THEN w ELSE remote[p]
  BY <1>2, <1>6
<1>9. remote' \in [Orders -> [val : Values, ver : 1..MaxVer, past : SUBSET Values]]
  BY <1>2, <1>6, <1>7
<1>10. overtaken' \subseteq Orders
  BY <1>1 DEF SyncInv, Types
<1>11. Types'
  BY <1>1, <1>9, <1>10 DEF SyncInv, Types
<1>12. Known' = Known
  BY <1>1 DEF Known
<1>13. ASSUME NEW p \in Orders, NEW x, Sound(p, remote[p], overtaken, x)
       PROVE  Sound(p, remote'[p], overtaken', x)
  <2>1. CASE p = o
    <3>1. x.val \in m.past /\ x.ver \in 1..m.ver
      BY <1>3, <1>13, <2>1 DEF Sound
    <3>2. x.val \in w.past /\ x.ver \in 1..w.ver /\ x.ver # w.ver
      BY <1>4, <1>7, <3>1
    <3>3. o \notin overtaken' => v \notin m.past
      BY <1>1, <1>3
    <3>4. o \notin overtaken' => x.val # w.val
      BY <1>7, <3>1, <3>3
    <3> QED
      BY <1>8, <2>1, <3>2, <3>4 DEF Sound
  <2>2. CASE p # o
    <3>1. remote'[p] = remote[p] /\ (p \in overtaken' <=> p \in overtaken)
      BY <1>1, <1>8, <2>2
    <3> QED
      BY <1>13, <3>1 DEF Sound
  <2> QED
    BY <2>1, <2>2
<1>14. Later
  BY <1>12, <1>13 DEF Later
<1>15. Had'
  BY <1>7, <1>8 DEF SyncInv, Stored, Had
<1>16. StoredSound'
  BY <1>1, <1>12, <1>13, KnownIs DEF SyncInv, Stored, StoredSound
<1>17. ASSUME NEW e \in journal PROVE e.val \in remote[e.of].past /\ e.of \in Orders /\ e.val \in remote'[e.of].past
  <2>1. e.val \in remote[e.of].past /\ e.of \in Orders
    BY DEF SyncInv, Types, Stored, EventsSound
  <2> QED
    BY <1>3, <1>7, <1>8, <2>1
<1>18. EventsSound'
  BY <1>1, <1>12, <1>17 DEF SyncInv, Stored, EventsSound
<1>19. JournalKeepsItsWord'
  <2> SUFFICES ASSUME NEW p \in Orders, order[p].known, p \notin overtaken', StatusEvent(p, remote'[p].val) \in journal
               PROVE  order[p].val = remote'[p].val
    BY <1>1, <1>12 DEF JournalKeepsItsWord, StatusEvent, Known
  <2>1. CASE p = o
    <3>1. v \notin m.past /\ remote'[p].val = v
      BY <1>1, <1>3, <1>7, <1>8, <2>1
    <3>2. StatusEvent(p, v).of = o /\ StatusEvent(p, v).val = v
      BY <2>1 DEF StatusEvent
    <3> QED
      BY <1>3, <1>17, <3>1, <3>2
  <2>2. CASE p # o
    <3>1. remote'[p] = remote[p] /\ p \notin overtaken
      BY <1>1, <1>8, <2>2
    <3> QED
      BY <3>1, OrderIs
  <2> QED
    BY <2>1, <2>2
<1>20. Held'
  BY <1>1, <1>14, HeldKept DEF SyncInv, Readings
<1>21. \A q \in Runs : RunSound(q)'
  BY <1>1, <1>14, RunKept DEF SyncInv, Readings
<1> QED
  BY <1>11, <1>15, <1>16, <1>18, <1>19, <1>20, <1>21 DEF SyncInv, Stored, Readings

LEMMA MoveStep ==
  ASSUME SyncInv, NEW o \in Orders, NEW l \in Lanes, Move(o, l)
  PROVE  SyncInv'
<1>1. /\ UNCHANGED <<remote, journal, cursor, pull, wave, overtaken>>
      /\ order' = [order EXCEPT ![o].lane = l]
  BY DEF Move
<1>2. order \in [Orders -> OrderRow] /\ run \in [Runs -> RunRow]
  BY DEF SyncInv, Types, OrderRow
<1>3. ASSUME NEW p \in Orders
      PROVE  /\ order'[p] \in OrderRow /\ order'[p].known = order[p].known
             /\ order'[p].val = order[p].val /\ order'[p].ver = order[p].ver
  BY <1>1, <1>2 DEF OrderRow
<1>4. order' \in [Orders -> OrderRow]
  BY <1>1, <1>2, <1>3
<1>5. ASSUME NEW p \in Orders, order'[p].known
      PROVE  Sound(p, remote[p], overtaken', order'[p])
  <2>1. Sound(p, remote[p], overtaken, order[p])
    BY <1>3, <1>5, OrderIs
  <2> QED
    BY <1>1, <1>3, <2>1 DEF Sound
<1>6. ASSUME NEW p \in Orders, order'[p].known, p \notin overtaken', StatusEvent(p, remote[p].val) \in journal'
      PROVE  order'[p].val = remote[p].val
  BY <1>1, <1>3, <1>6, OrderIs
<1>7. overtaken' \subseteq Orders
  BY <1>1 DEF SyncInv, Types
<1>8. Stored' /\ Later /\ journal' \subseteq Event
  BY <1>1, <1>3, <1>4, <1>5, <1>6, <1>7, StoresWell
<1>9. Held'
  BY <1>1, <1>8, HeldKept DEF SyncInv, Readings
<1>10. \A q \in Runs : run'[q] \in RunRow /\ RunSound(q)'
  <2>1. ASSUME NEW q \in Runs
        PROVE  \E W \in SUBSET run[q].waiting : run'[q] = [run[q] EXCEPT !.waiting = W]
    <3>1. run'[q] = [run[q] EXCEPT !.waiting = run[q].waiting \ {o}]
      BY DEF Move
    <3> QED
      BY <3>1
  <2> QED
    BY <1>8, <2>1, RunsGoOnAll
<1>11. run' \in [Runs -> RunRow]
  BY <1>10 DEF Move
<1>12. Types'
  BY <1>1, <1>4, <1>7, <1>8, <1>11 DEF SyncInv, Types, OrderRow, Event
<1> QED
  BY <1>8, <1>9, <1>10, <1>12 DEF SyncInv, Readings

-----------------------------------------------------------------------------
LEMMA SyncStep == SyncInv /\ [Next]_vars => SyncInv'
<1> SUFFICES ASSUME SyncInv, [Next]_vars PROVE SyncInv'
  OBVIOUS
<1>1. ASSUME NEW r \in Runs, RunStep(r) PROVE SyncInv'
  BY <1>1, StartStep, ReadStep, StoreStep, FinishStep, FailStep, CrashStep DEF RunStep
<1>2. CASE Expire
  BY <1>2, ExpireStep
<1>3. CASE PullRead
  BY <1>3, PullReadStep
<1>4. CASE PullStore
  BY <1>4, PullStoreStep
<1>5. CASE WaveStore
  BY <1>5, WaveStoreStep
<1>6. CASE PullFails \/ WaveFails
  BY <1>6, GiveUpStep
<1>7. ASSUME NEW S \in (SUBSET Known) \ {{}}, WaveRead(S) PROVE SyncInv'
  BY <1>7, WaveReadStep
<1>8. ASSUME NEW o \in Orders, \/ \E v \in Values : Change(o, v)
                               \/ \E l \in Lanes : Move(o, l)
      PROVE  SyncInv'
  BY <1>8, ChangeStep, MoveStep
<1>9. CASE UNCHANGED vars
  <2>1. UNCHANGED <<remote, order, journal, cursor, run, pull, wave, overtaken>>
    BY <1>9 DEF vars
  <2>2. Held'
    BY <2>1, SameStored, HeldKept DEF SyncInv, Readings
  <2>3. /\ cursor \in [at : Place, token : SUBSET Runs, live : BOOLEAN]
        /\ pull \in [Orders -> Reading] /\ wave \in [Orders -> Reading]
    BY DEF SyncInv, Types
  <2> QED
    BY <2>1, <2>2, <2>3, OutsideKeeps
<1> QED
  BY <1>1, <1>2, <1>3, <1>4, <1>5, <1>6, <1>7, <1>8, <1>9 DEF Next

LEMMA SyncInvariance == Spec => []SyncInv
<1>1. Init => SyncInv
  BY SyncInit
<1>2. SyncInv /\ [Next]_vars => SyncInv'
  BY SyncStep
<1> QED
  BY <1>1, <1>2, PTL DEF Spec

\* The fields of the models, the one owner of the lease among them, and that a
\* stored status was reported, by a version no later than the marketplace's.
THEOREM SyncTyping == Spec => []SyncTypeOK
<1>1. SyncInv => SyncTypeOK
  <2> SUFFICES ASSUME SyncInv PROVE SyncTypeOK
    OBVIOUS
  <2>1. cursor.at.pos \in [Lanes -> Orders \cup {0}] /\ cursor.at.pass \in 0..9
    BY DEF SyncInv, Types, Place
  <2>2. cursor.token \subseteq Runs /\ Cardinality(cursor.token) <= 1
    <3>1. cursor.token = {} \/ \E r \in Runs : cursor.token = {r}
      BY DEF SyncInv, Types
    <3>2. Cardinality({}) = 0 /\ \A r : Cardinality({r}) = 1
      BY FS_EmptySet, FS_Singleton
    <3>3. ASSUME NEW r \in Runs, cursor.token = {r}
          PROVE  cursor.token \subseteq Runs /\ Cardinality(cursor.token) = 1
      BY <3>2, <3>3
    <3>4. CASE cursor.token = {}
      BY <3>2, <3>4
    <3> QED
      BY <3>1, <3>3, <3>4
  <2>3. ASSUME NEW o \in Known PROVE order[o].val \in remote[o].past /\ order[o].ver <= remote[o].ver
    <3>1. o \in Orders /\ order[o].known
      BY DEF Known
    <3>2. Sound(o, remote[o], overtaken, order[o])
      BY <3>1, OrderIs
    <3>3. order[o].val \in remote[o].past /\ order[o].ver \in 1..remote[o].ver
      BY <3>2 DEF Sound
    <3>4. remote[o].ver \in Nat
      BY <3>1, OrderIs
    <3> QED
      BY <3>3, <3>4
  <2> QED
    BY <2>1, <2>2, <2>3 DEF SyncInv, Types, SyncTypeOK
<1> QED
  BY <1>1, SyncInvariance, PTL

\* An event counts as processed only with its effect: an order whose present
\* status the journal has recorded has that status, unless the status came back
\* or an older reading was stored over it; for any number of runs, of orders
\* and of statuses, however late a reading is stored.
THEOREM SyncJournalKeepsItsWord == Spec => []JournalKeepsItsWord
<1>1. SyncInv => JournalKeepsItsWord
  BY DEF SyncInv, Stored
<1> QED
  BY <1>1, SyncInvariance, PTL

-----------------------------------------------------------------------------
\* The keys as a circle: the orders read between p and o, o among them.

Ahead(p, o) == IF p < o THEN {x \in Orders : p < x /\ x <= o} ELSE {x \in Orders : p < x \/ x <= o}

LEMMA AheadIs ==
  ASSUME NEW p \in Nat, NEW o \in Orders
  PROVE  /\ o \in Ahead(p, o) /\ Ahead(p, o) \subseteq Orders /\ IsFiniteSet(Ahead(p, o))
         /\ Cardinality(Ahead(p, o)) \in 1..Cardinality(Orders) /\ Cardinality(Orders) \in Nat
<1>1. Orders \subseteq Nat \ {0} /\ IsFiniteSet(Orders)
  BY SyncAssumption
<1>2. o \in Ahead(p, o) /\ Ahead(p, o) \subseteq Orders
  BY <1>1 DEF Ahead
<1>3. PICK A : A = Ahead(p, o)
  OBVIOUS
<1>4. IsFiniteSet(A) /\ Cardinality(A) <= Cardinality(Orders)
  BY <1>1, <1>2, <1>3, FS_Subset
<1>5. Cardinality(A) \in Nat /\ Cardinality(Orders) \in Nat /\ Cardinality(A) # 0
  BY <1>1, <1>2, <1>3, <1>4, FS_CardinalityType, FS_EmptySet
<1> QED
  BY <1>2, <1>3, <1>4, <1>5

\* The way from p to o past q is the way to q and the way on from there.
LEMMA AheadSplits ==
  ASSUME NEW p \in Nat, NEW q \in Orders, NEW o \in Orders, o \notin Ahead(p, q)
  PROVE  /\ Ahead(q, o) \cup Ahead(p, q) \subseteq Ahead(p, o) /\ Ahead(q, o) \cap Ahead(p, q) = {}
         /\ Cardinality(Ahead(q, o)) + Cardinality(Ahead(p, q)) <= Cardinality(Ahead(p, o))
<1>1. Orders \subseteq Nat \ {0} /\ q \in Nat
  BY SyncAssumption
<1>2. ASSUME NEW x \in Orders
      PROVE  /\ x \in Ahead(q, o) => x \in Ahead(p, o) /\ x \notin Ahead(p, q)
             /\ x \in Ahead(p, q) => x \in Ahead(p, o)
  BY <1>1 DEF Ahead
<1>3. PICK A, B, C : A = Ahead(q, o) /\ B = Ahead(p, q) /\ C = Ahead(p, o)
  OBVIOUS
<1>4. /\ IsFiniteSet(A) /\ IsFiniteSet(B) /\ IsFiniteSet(C)
      /\ A \subseteq Orders /\ B \subseteq Orders
  BY <1>1, <1>3, AheadIs
<1>5. A \cup B \subseteq C /\ A \cap B = {}
  BY <1>2, <1>3, <1>4
<1>6. IsFiniteSet(A \cup B) /\ Cardinality(A \cup B) <= Cardinality(C)
  BY <1>4, <1>5, FS_Subset
<1>7. Cardinality(A \cup B) = Cardinality(A) + Cardinality(B)
  <2>1. Cardinality(A \cup B) = Cardinality(A) + Cardinality(B) - Cardinality(A \cap B)
    BY <1>4, FS_Union
  <2>2. Cardinality(A \cap B) = 0
    BY <1>5, FS_EmptySet
  <2>3. Cardinality(A) \in Nat /\ Cardinality(B) \in Nat
    BY <1>4, FS_CardinalityType
  <2> QED
    BY <2>1, <2>2, <2>3
<1> QED
  BY <1>3, <1>5, <1>6, <1>7

\* The orders of a set in the order of their keys.
LEMMA SortedRanks ==
  ASSUME NEW S \in SUBSET Nat, IsFiniteSet(S)
  PROVE  /\ \A i, j \in 1..Len(Sorted(S)) : Sorted(S)[i] <= Sorted(S)[j] <=> i <= j
         /\ \A x \in S : \E i \in 1..Len(Sorted(S)) : Sorted(S)[i] = x
<1> DEFINE n == Cardinality(S)
           Below(x) == {p \in S : p <= x}
           f == [i \in 1..n |-> CHOOSE o \in S : Cardinality({p \in S : p <= o}) = i]
<1>1. n \in Nat
  BY FS_CardinalityType
<1>2. \A i \in 1..n : f[i] \in S /\ Cardinality(Below(f[i])) = i
  BY Ranked
<1>3. f = Sorted(S) /\ f \in [1..n -> S]
  BY <1>2 DEF Sorted
<1> HIDE DEF f
<1>4. Len(f) = n
  <2>1. f \in Seq(S)
    BY <1>1, <1>3
  <2> QED
    BY <1>1, <1>3, <2>1, LenProperties
<1>5. ASSUME NEW x \in S, NEW y \in S, x < y
      PROVE  /\ Cardinality(Below(x)) < Cardinality(Below(y))
             /\ Cardinality(Below(x)) \in Nat /\ Cardinality(Below(y)) \in Nat
  <2>1. PICK A, B : A = Below(x) /\ B = Below(y)
    OBVIOUS
  <2>2. A \subseteq B /\ y \in B /\ y \notin A /\ B \subseteq S
    <3>1. x \in Nat /\ y \in Nat /\ \A p \in S : p \in Nat
      OBVIOUS
    <3>2. \A p \in S : p <= x => p <= y
      BY <1>5, <3>1
    <3>3. ~(y <= x) /\ y <= y
      BY <1>5, <3>1
    <3> QED
      BY <2>1, <3>2, <3>3
  <2>3. IsFiniteSet(B)
    BY <2>2, FS_Subset
  <2>4. IsFiniteSet(A) /\ Cardinality(A) <= Cardinality(B) /\ (Cardinality(A) = Cardinality(B) => A = B)
    BY ONLY <2>2, <2>3, FS_Subset
  <2>5. Cardinality(A) \in Nat /\ Cardinality(B) \in Nat
    BY <2>3, <2>4, FS_CardinalityType
  <2>6. Cardinality(A) < Cardinality(B)
    BY <2>2, <2>4, <2>5
  <2> QED
    BY <2>1, <2>5, <2>6
<1>6. \A x \in S : Cardinality(Below(x)) \in 1..n
  <2> SUFFICES ASSUME NEW x \in S PROVE Cardinality(Below(x)) \in 1..n
    OBVIOUS
  <2>1. PICK A : A = Below(x)
    OBVIOUS
  <2>2. A \subseteq S /\ x \in A
    BY <2>1
  <2>3. IsFiniteSet(A) /\ Cardinality(A) <= n
    BY <2>2, FS_Subset
  <2>4. Cardinality(A) \in Nat /\ Cardinality(A) # 0
    BY <2>2, <2>3, FS_CardinalityType, FS_EmptySet
  <2> QED
    BY <1>1, <2>1, <2>3, <2>4
<1> HIDE DEF Below, n
<1>7. ASSUME NEW i \in 1..n, NEW j \in 1..n
      PROVE  f[i] <= f[j] <=> i <= j
  <2>1. /\ f[i] \in S /\ f[j] \in S /\ f[i] \in Nat /\ f[j] \in Nat
        /\ Cardinality(Below(f[i])) = i /\ Cardinality(Below(f[j])) = j
    BY <1>2
  <2>2. f[i] < f[j] => i < j
    BY <1>5, <2>1
  <2>3. f[j] < f[i] => j < i
    BY <1>5, <2>1
  <2>4. f[i] = f[j] => i = j
    BY <2>1
  <2>5. i \in Nat /\ j \in Nat
    OBVIOUS
  <2> QED
    BY <2>1, <2>2, <2>3, <2>4, <2>5
<1>8. ASSUME NEW x \in S PROVE \E i \in 1..n : f[i] = x
  <2>1. PICK i \in 1..n : i = Cardinality(Below(x))
    BY <1>6
  <2>2. f[i] \in S /\ Cardinality(Below(f[i])) = i /\ f[i] \in Nat /\ x \in Nat
    BY <1>2
  <2>3. ~(f[i] < x) /\ ~(x < f[i])
    BY <1>5, <2>1, <2>2
  <2> QED
    BY <2>2, <2>3
<1> QED
  BY <1>3, <1>4, <1>7, <1>8

\* A lane goes round from the cursor: what is read up to one of its orders is
\* what lies between the cursor and it.
LEMMA AroundGoes ==
  ASSUME NEW l, cursor.at.pos[l] \in Nat
  PROVE  /\ \A m, n \in 1..Len(Around(l)) :
              Around(l)[m] \in Ahead(cursor.at.pos[l], Around(l)[n]) <=> m <= n
         /\ \A o \in Lane(l) : \E n \in 1..Len(Around(l)) : Around(l)[n] = o
<1>1. PICK c : c = cursor.at.pos[l]
  OBVIOUS
<1>2. PICK S, T : S = {o \in Lane(l) : o > c} /\ T = {o \in Lane(l) : o <= c}
  OBVIOUS
<1>3. Lane(l) \subseteq Orders /\ Lane(l) \subseteq Nat /\ c \in Nat
  BY <1>1, KnownIs DEF Lane
<1>4. S \subseteq Known /\ T \subseteq Known /\ S \cup T = Lane(l)
  BY <1>2, <1>3 DEF Lane
<1>5. S \in SUBSET Nat /\ T \in SUBSET Nat /\ IsFiniteSet(S) /\ IsFiniteSet(T)
  BY <1>4, KnownIs, FS_Subset
<1>6. PICK s, t : s = Sorted(S) /\ t = Sorted(T)
  OBVIOUS
<1>7. Around(l) = s \o t
  BY <1>1, <1>2, <1>6 DEF Around
<1>8. s \in Seq(S) /\ t \in Seq(T) /\ Len(s) \in Nat /\ Len(t) \in Nat
  BY <1>5, <1>6, SortedIs, LenProperties
<1>9. /\ \A i \in 1..Len(s) : s[i] \in S
      /\ \A i \in 1..Len(t) : t[i] \in T
  BY <1>8, ElementOfSeq
<1>10. /\ \A i, j \in 1..Len(s) : s[i] <= s[j] <=> i <= j
       /\ \A x \in S : \E i \in 1..Len(s) : s[i] = x
  BY <1>5, <1>6, SortedRanks
<1>11. /\ \A i, j \in 1..Len(t) : t[i] <= t[j] <=> i <= j
       /\ \A x \in T : \E i \in 1..Len(t) : t[i] = x
  BY <1>5, <1>6, SortedRanks
<1>12. PICK a : a = Around(l)
  OBVIOUS
<1>13. /\ Len(a) = Len(s) + Len(t)
       /\ \A i \in 1..Len(a) : a[i] = IF i <= Len(s) THEN s[i] ELSE t[i - Len(s)]
  <2>1. s \in Seq(Nat) /\ t \in Seq(Nat)
    BY <1>5, <1>8, SeqMonotonic
  <2>2. /\ Len(s \o t) = Len(s) + Len(t)
        /\ \A i \in 1..(Len(s) + Len(t)) : (s \o t)[i] = IF i <= Len(s) THEN s[i] ELSE t[i - Len(s)]
    BY ONLY <2>1, ConcatProperties
  <2> QED
    BY <1>7, <1>12, <2>2
<1>14. ASSUME NEW m \in 1..Len(a), NEW n \in 1..Len(a)
       PROVE  a[m] \in Ahead(c, a[n]) <=> m <= n
  <2>1. ASSUME NEW i \in 1..Len(a)
        PROVE  \/ i <= Len(s) /\ a[i] = s[i] /\ i \in 1..Len(s) /\ a[i] \in S
               \/ ~(i <= Len(s)) /\ i - Len(s) \in 1..Len(t) /\ a[i] = t[i - Len(s)] /\ a[i] \in T
    BY <1>8, <1>9, <1>13
  <2>2. a[m] \in Orders /\ a[n] \in Orders /\ a[m] \in Nat /\ a[n] \in Nat
    BY <1>3, <1>4, <2>1
  <2>3. CASE n <= Len(s) /\ m <= Len(s)
    <3>1. a[n] > c /\ a[m] > c /\ a[n] = s[n] /\ a[m] = s[m] /\ n \in 1..Len(s) /\ m \in 1..Len(s)
      BY <1>2, <2>1, <2>3
    <3>2. a[m] <= a[n] <=> m <= n
      BY <1>10, <3>1
    <3> QED
      BY <1>3, <2>2, <3>1, <3>2 DEF Ahead
  <2>4. CASE n <= Len(s) /\ ~(m <= Len(s))
    <3>1. a[n] > c /\ a[m] <= c /\ ~(m <= n)
      BY <1>2, <1>8, <2>1, <2>4
    <3> QED
      BY <1>3, <2>2, <3>1 DEF Ahead
  <2>5. CASE ~(n <= Len(s)) /\ m <= Len(s)
    <3>1. a[n] <= c /\ a[m] > c /\ m <= n
      BY <1>2, <1>8, <2>1, <2>5
    <3> QED
      BY <1>3, <2>2, <3>1 DEF Ahead
  <2>6. CASE ~(n <= Len(s)) /\ ~(m <= Len(s))
    <3>1. /\ a[n] <= c /\ a[m] <= c /\ a[n] = t[n - Len(s)] /\ a[m] = t[m - Len(s)]
          /\ n - Len(s) \in 1..Len(t) /\ m - Len(s) \in 1..Len(t)
      BY <1>2, <2>1, <2>6
    <3>2. PICK i, j : i = m - Len(s) /\ j = n - Len(s)
      OBVIOUS
    <3>3. a[m] <= a[n] <=> i <= j
      BY <1>11, <3>1, <3>2
    <3>4. i <= j <=> m <= n
      BY ONLY <3>2, <1>8, m \in 1..Len(a), n \in 1..Len(a)
    <3> QED
      BY <1>3, <2>2, <3>1, <3>3, <3>4 DEF Ahead
  <2> QED
    BY <2>3, <2>4, <2>5, <2>6
<1>15. ASSUME NEW o \in Lane(l) PROVE \E n \in 1..Len(a) : a[n] = o
  <2>1. CASE o \in S
    <3>1. PICK i \in 1..Len(s) : s[i] = o
      BY <1>10, <2>1
    <3>2. i \in 1..Len(a) /\ a[i] = o
      BY <1>8, <1>13, <3>1
    <3> QED
      BY <3>2
  <2>2. CASE o \in T
    <3>1. PICK i \in 1..Len(t) : t[i] = o
      BY <1>11, <2>2
    <3>2. PICK n : n = Len(s) + i
      OBVIOUS
    <3>3. n \in 1..Len(a) /\ ~(n <= Len(s)) /\ n - Len(s) = i
      BY <1>8, <1>13, <3>2
    <3>4. a[n] = o
      BY <1>13, <3>1, <3>3
    <3> QED
      BY <3>3, <3>4
  <2> QED
    BY <1>4, <2>1, <2>2
<1> QED
  BY <1>1, <1>12, <1>14, <1>15

-----------------------------------------------------------------------------
\* The order in which a lane is read.  In Follows(s, k, d) the sequence d takes
\* the elements of s in their order, without those up to k that it leaves out.

In(x, d) == \E j \in 1..Len(d) : d[j] = x
Follows(s, k, d) ==
  \A i \in 1..Len(d), n \in 1..Len(s) :
    d[i] = s[n] => \A m \in 1..n : m <= k \/ \E j \in 1..i : d[j] = s[m]

LEMMA UpToIs ==
  ASSUME NEW S, NEW s \in Seq(S), NEW n \in Int
  PROVE  /\ UpTo(s, n) \in Seq(S) /\ Len(UpTo(s, n)) \in Nat /\ Len(UpTo(s, n)) <= Len(s)
         /\ Len(UpTo(s, n)) = Len(s) \/ Len(UpTo(s, n)) = n \/ n < 0
         /\ \A i \in 1..Len(s) : i <= n => i <= Len(UpTo(s, n))
         /\ \A i \in 1..Len(UpTo(s, n)) : UpTo(s, n)[i] = s[i] /\ i <= n
<1>1. Len(s) \in Nat /\ \A i \in 1..Len(s) : s[i] \in S
  BY LenProperties, ElementOfSeq
<1> DEFINE k == IF Len(s) < n THEN Len(s) ELSE n
<1>2. k \in Int /\ k <= Len(s) /\ k <= n /\ (k = Len(s) \/ k = n)
  BY <1>1
<1>3. UpTo(s, n) = SubSeq(s, 1, k)
  BY DEF UpTo
<1> HIDE DEF k
<1>4. PICK t : t = SubSeq(s, 1, k)
  OBVIOUS
<1>5. /\ t \in Seq(S) /\ Len(t) = (IF 1 <= k THEN k - 1 + 1 ELSE 0)
      /\ \A i \in 1..(k - 1 + 1) : t[i] = s[1 + i - 1]
  <2>1. \A i \in 1..k : s[i] \in S
    BY <1>1, <1>2
  <2> QED
    BY <1>2, <1>4, <2>1, SubSeqProperties
<1>6. /\ Len(t) \in Nat /\ (1 <= k => Len(t) = k) /\ (~(1 <= k) => Len(t) = 0)
      /\ \A i \in 1..k : t[i] = s[i]
  BY <1>2, <1>5
<1>7. /\ Len(t) <= Len(s) /\ (Len(t) = Len(s) \/ Len(t) = n \/ n < 0)
      /\ \A i \in 1..Len(s) : i <= n => i <= Len(t)
      /\ \A i \in 1..Len(t) : i <= n /\ i \in 1..k
  BY <1>1, <1>2, <1>6
<1> QED
  BY <1>3, <1>4, <1>5, <1>6, <1>7

LEMMA BeyondIs ==
  ASSUME NEW S, NEW s \in Seq(S), Distinct(s), NEW n \in Nat
  PROVE  /\ Beyond(s, n) \in Seq(S) /\ Len(Beyond(s, n)) \in Nat
         /\ \A i \in 1..Len(Beyond(s, n)) : n + i \in 1..Len(s) /\ Beyond(s, n)[i] = s[n + i]
<1>1. Len(s) \in Nat
  BY LenProperties
<1>2. PICK t : t = SubSeq(s, n + 1, Len(s))
  OBVIOUS
<1>3. PICK m : m = n + 1
  OBVIOUS
<1>4. /\ t \in Seq(S) /\ \A i \in 1..Len(t) : m + i - 1 \in m..Len(s) /\ t[i] = s[m + i - 1]
  <2>1. m \in Nat \ {0} /\ Len(s) \in Int /\ Len(s) <= Len(s)
    BY <1>1, <1>3
  <2>2. /\ SubSeq(s, m, Len(s)) \in Seq(S)
        /\ \A i \in 1..Len(SubSeq(s, m, Len(s))) :
             m + i - 1 \in m..Len(s) /\ SubSeq(s, m, Len(s))[i] = s[m + i - 1]
    BY ONLY <2>1, SliceIs, s \in Seq(S), Distinct(s)
  <2> QED
    BY <1>2, <1>3, <2>2
<1>5. Len(t) \in Nat
  BY <1>4, LenProperties
<1>6. ASSUME NEW i \in 1..Len(t) PROVE n + i \in 1..Len(s) /\ t[i] = s[n + i]
  <2>1. m + i - 1 \in m..Len(s) /\ t[i] = s[m + i - 1]
    BY <1>4
  <2>2. m + i - 1 = n + i
    BY <1>3, <1>5
  <2> QED
    BY <1>1, <1>3, <1>5, <2>1, <2>2
<1> QED
  BY <1>2, <1>4, <1>5, <1>6 DEF Beyond

LEMMA FirstFollows ==
  ASSUME NEW S, NEW s \in Seq(S), Distinct(s), NEW n \in Nat
  PROVE  /\ Follows(s, 0, UpTo(s, n))
         /\ \A m \in 1..Len(s) : m <= n => In(s[m], UpTo(s, n))
<1>1. PICK d : d = UpTo(s, n)
  OBVIOUS
<1>2. /\ Len(d) \in Nat /\ Len(d) <= Len(s)
      /\ \A i \in 1..Len(s) : i <= n => i <= Len(d)
      /\ \A i \in 1..Len(d) : d[i] = s[i]
  BY <1>1, UpToIs
<1>3. Len(s) \in Nat
  BY LenProperties
<1>4. ASSUME NEW i \in 1..Len(d), NEW j \in 1..Len(s), d[i] = s[j], NEW m \in 1..j
      PROVE  m \in 1..i /\ d[m] = s[m]
  <2>1. i \in 1..Len(s) /\ s[i] = s[j]
    BY <1>2, <1>3, <1>4
  <2>2. i = j
    BY <2>1 DEF Distinct
  <2>3. m \in 1..i /\ m \in 1..Len(d)
    BY <1>2, <2>2
  <2> QED
    BY <1>2, <2>3
<1>5. Follows(s, 0, d)
  BY <1>4 DEF Follows
<1>6. ASSUME NEW m \in 1..Len(s), m <= n PROVE In(s[m], d)
  <2>1. m \in 1..Len(d)
    BY <1>2, <1>3, <1>6
  <2> QED
    BY <1>2, <2>1 DEF In
<1> QED
  BY <1>1, <1>5, <1>6

LEMMA RestFollows ==
  ASSUME NEW S, NEW s \in Seq(S), Distinct(s), NEW n \in Nat
  PROVE  Follows(s, n, Beyond(s, n))
<1>1. PICK d : d = Beyond(s, n)
  OBVIOUS
<1>2. Len(d) \in Nat /\ \A i \in 1..Len(d) : n + i \in 1..Len(s) /\ d[i] = s[n + i]
  BY <1>1, BeyondIs
<1>3. ASSUME NEW i \in 1..Len(d), NEW h \in 1..Len(s), d[i] = s[h], NEW m \in 1..h
      PROVE  m <= n \/ \E j \in 1..i : d[j] = s[m]
  <2>1. n + i = h
    BY <1>2, <1>3 DEF Distinct
  <2>2. CASE m <= n
    BY <2>2
  <2>3. CASE ~(m <= n)
    <3>1. PICK j : j = m - n
      OBVIOUS
    <3>2. j \in 1..i /\ j \in 1..Len(d) /\ n + j = m
      BY <1>2, <2>1, <2>3, <3>1
    <3> QED
      BY <1>2, <3>2
  <2> QED
    BY <2>2, <2>3
<1> QED
  BY <1>1, <1>3 DEF Follows

LEMMA ApartFollows ==
  ASSUME NEW s, NEW k, NEW d, \A i \in 1..Len(d), n \in 1..Len(s) : d[i] # s[n]
  PROVE  Follows(s, k, d)
  BY DEF Follows

LEMMA UpToFollows ==
  ASSUME NEW S, NEW s, NEW k, NEW d \in Seq(S), Follows(s, k, d), NEW n \in Int
  PROVE  Follows(s, k, UpTo(d, n))
<1>1. PICK e : e = UpTo(d, n)
  OBVIOUS
<1>2. /\ Len(e) \in Nat /\ Len(e) <= Len(d) /\ Len(d) \in Nat
      /\ \A i \in 1..Len(e) : e[i] = d[i]
  BY <1>1, UpToIs, LenProperties
<1>3. ASSUME NEW i \in 1..Len(e), NEW h \in 1..Len(s), e[i] = s[h], NEW m \in 1..h
      PROVE  m <= k \/ \E j \in 1..i : e[j] = s[m]
  <2>1. i \in 1..Len(d) /\ d[i] = s[h]
    BY <1>2, <1>3
  <2>2. CASE m <= k
    BY <2>2
  <2>3. CASE ~(m <= k)
    <3>1. PICK j \in 1..i : d[j] = s[m]
      BY <2>1, <2>3 DEF Follows
    <3>2. j \in 1..Len(e)
      BY <1>2
    <3> QED
      BY <1>2, <3>1, <3>2
  <2> QED
    BY <2>2, <2>3
<1> QED
  BY <1>1, <1>3 DEF Follows

LEMMA ConcatIs ==
  ASSUME NEW S, NEW d \in Seq(S), NEW e \in Seq(S)
  PROVE  /\ d \o e \in Seq(S) /\ Len(d) \in Nat /\ Len(e) \in Nat /\ Len(d \o e) = Len(d) + Len(e)
         /\ \A i \in 1..Len(d) : i \in 1..Len(d \o e) /\ (d \o e)[i] = d[i]
         /\ \A i \in 1..Len(e) : Len(d) + i \in 1..Len(d \o e) /\ (d \o e)[Len(d) + i] = e[i]
         /\ \A i \in 1..Len(d \o e) : i \in 1..Len(d) \/ \E j \in 1..Len(e) : i = Len(d) + j
         /\ \A x : In(x, d) \/ In(x, e) => In(x, d \o e)
<1>1. PICK f : f = d \o e
  OBVIOUS
<1>2. /\ f \in Seq(S) /\ Len(f) = Len(d) + Len(e)
      /\ \A i \in 1..(Len(d) + Len(e)) : f[i] = IF i <= Len(d) THEN d[i] ELSE e[i - Len(d)]
      /\ Len(d) \in Nat /\ Len(e) \in Nat
  BY <1>1, ConcatProperties, LenProperties
<1>3. ASSUME NEW i \in 1..Len(d) PROVE i \in 1..Len(f) /\ f[i] = d[i]
  BY <1>2
<1>4. ASSUME NEW i \in 1..Len(e) PROVE Len(d) + i \in 1..Len(f) /\ f[Len(d) + i] = e[i]
  <2>1. Len(d) + i \in 1..(Len(d) + Len(e)) /\ ~(Len(d) + i <= Len(d)) /\ Len(d) + i - Len(d) = i
    BY <1>2
  <2> QED
    BY <1>2, <2>1
<1>5. ASSUME NEW i \in 1..Len(f), ~(i \in 1..Len(d)) PROVE \E j \in 1..Len(e) : i = Len(d) + j
  <2>1. i - Len(d) \in 1..Len(e) /\ i = Len(d) + (i - Len(d))
    BY <1>2, <1>5
  <2> QED
    BY <2>1
<1>6. ASSUME NEW x, In(x, d) \/ In(x, e) PROVE In(x, f)
  BY <1>3, <1>4, <1>6 DEF In
<1> QED
  BY <1>1, <1>2, <1>3, <1>4, <1>5, <1>6

\* What comes later may leave out what came before.
LEMMA JoinFollows ==
  ASSUME NEW S, NEW s, NEW d \in Seq(S), NEW e \in Seq(S), NEW k, NEW h,
         Follows(s, k, d), Follows(s, h, e),
         \A m \in 1..Len(s) : m <= h => m <= k \/ In(s[m], d),
         Len(s) \in Nat
  PROVE  Follows(s, k, d \o e)
<1>1. PICK f : f = d \o e
  OBVIOUS
<1>2. /\ Len(d) \in Nat /\ Len(e) \in Nat /\ Len(f) = Len(d) + Len(e)
      /\ \A i \in 1..Len(d) : i \in 1..Len(f) /\ f[i] = d[i]
      /\ \A i \in 1..Len(e) : Len(d) + i \in 1..Len(f) /\ f[Len(d) + i] = e[i]
      /\ \A i \in 1..Len(f) : i \in 1..Len(d) \/ \E j \in 1..Len(e) : i = Len(d) + j
  BY <1>1, ConcatIs
<1>3. ASSUME NEW i \in 1..Len(f), NEW n \in 1..Len(s), f[i] = s[n], NEW m \in 1..n, ~(m <= k)
      PROVE  \E j \in 1..i : f[j] = s[m]
  <2>1. CASE i \in 1..Len(d)
    <3>1. d[i] = s[n]
      BY <1>2, <1>3, <2>1
    <3>2. PICK j \in 1..i : d[j] = s[m]
      BY <1>3, <2>1, <3>1 DEF Follows
    <3>3. j \in 1..Len(d)
      BY <1>2, <2>1
    <3> QED
      BY <1>2, <3>2, <3>3
  <2>2. ASSUME NEW g \in 1..Len(e), i = Len(d) + g
        PROVE  \E j \in 1..i : f[j] = s[m]
    <3>1. e[g] = s[n] /\ m \in 1..Len(s)
      BY <1>2, <1>3, <2>2
    <3>2. CASE m <= h
      <4>1. PICK j \in 1..Len(d) : d[j] = s[m]
        BY <1>3, <3>1, <3>2 DEF In
      <4>2. j \in 1..i /\ f[j] = s[m]
        BY <1>2, <2>2, <4>1
      <4> QED
        BY <4>2
    <3>3. CASE ~(m <= h)
      <4>1. PICK j \in 1..g : e[j] = s[m]
        BY <3>1, <3>3 DEF Follows
      <4>2. j \in 1..Len(e) /\ Len(d) + j \in 1..i
        BY <1>2, <2>2
      <4>3. f[Len(d) + j] = s[m]
        BY <1>2, <4>1, <4>2
      <4> QED
        BY <4>2, <4>3
    <3> QED
      BY <3>2, <3>3
  <2> QED
    BY <1>2, <2>1, <2>2
<1>4. ASSUME NEW i \in 1..Len(f), NEW n \in 1..Len(s), f[i] = s[n], NEW m \in 1..n
      PROVE  m <= k \/ \E j \in 1..i : f[j] = s[m]
  BY <1>3, <1>4
<1>5. Follows(s, k, f)
  BY ONLY <1>4 DEF Follows
<1> QED
  BY ONLY <1>1, <1>5

\* A run takes each lane in its order, and of each lane all of its share.
LEMMA ChosenFollows ==
  ASSUME \A l \in Lanes : cursor.at.pos[l] \in Nat, NEW l \in Lanes
  PROVE  /\ Follows(Around(l), 0, Chosen)
         /\ \A m \in 1..Len(Around(l)) : m <= Share(l, cursor.at.pass) => In(Around(l)[m], Chosen)
<1>1. ASSUME NEW x \in Lanes
      PROVE  /\ Share(x, cursor.at.pass) \in Nat /\ Distinct(Around(x))
             /\ Around(x) \in Seq(Lane(x)) /\ Around(x) \in Seq(Known)
  <2>1. Once(Lane(x), Around(x))
    BY AroundIs
  <2>2. Lane(x) \subseteq Known
    BY DEF Lane
  <2> QED
    BY <2>1, <2>2, ShareIs, Widened DEF Once
<1>2. PICK s, k : s = Around(l) /\ k = Share(l, cursor.at.pass)
  OBVIOUS
<1>3. s \in Seq(Known) /\ Distinct(s) /\ k \in Nat /\ Len(s) \in Nat /\ \A i \in 1..Len(s) : s[i] \in Lane(l)
  BY <1>1, <1>2, LenProperties, ElementOfSeq
<1>4. ASSUME NEW x \in Lanes
      PROVE  \E u, b \in Seq(Known) :
               /\ u = UpTo(Around(x), Share(x, cursor.at.pass)) /\ b = Beyond(Around(x), Share(x, cursor.at.pass))
               /\ Follows(s, 0, u) /\ Follows(s, k, b)
               /\ x = l => \A m \in 1..Len(s) : m <= k => In(s[m], u)
  <2>1. PICK a, n : a = Around(x) /\ n = Share(x, cursor.at.pass)
    OBVIOUS
  <2>2. PICK u, b : u = UpTo(a, n) /\ b = Beyond(a, n)
    OBVIOUS
  <2>3. n \in Nat /\ Distinct(a) /\ a \in Seq(Lane(x)) /\ a \in Seq(Known)
    BY <1>1, <2>1
  <2>4. u \in Seq(Known) /\ b \in Seq(Known) /\ u \in Seq(Lane(x)) /\ b \in Seq(Lane(x))
    BY <2>2, <2>3, UpToIs, BeyondIs
  <2>5. CASE x = l
    <3>1. a = s /\ n = k
      BY <1>2, <2>1, <2>5
    <3>2. Follows(s, 0, u) /\ \A m \in 1..Len(s) : m <= k => In(s[m], u)
      BY <2>2, <2>3, <3>1, FirstFollows
    <3>3. Follows(s, k, b)
      BY <2>2, <2>3, <3>1, RestFollows
    <3> QED
      BY <2>1, <2>2, <2>4, <3>2, <3>3
  <2>6. CASE x # l
    <3>1. Lane(x) \cap Lane(l) = {}
      BY <2>6 DEF Lane
    <3>2. /\ \A i \in 1..Len(u) : u[i] \in Lane(x)
          /\ \A i \in 1..Len(b) : b[i] \in Lane(x)
      BY <2>4, ElementOfSeq
    <3>3. /\ \A i \in 1..Len(u), n1 \in 1..Len(s) : u[i] # s[n1]
          /\ \A i \in 1..Len(b), n1 \in 1..Len(s) : b[i] # s[n1]
      BY <1>3, <3>1, <3>2
    <3>4. Follows(s, 0, u) /\ Follows(s, k, b)
      BY <3>3, ApartFollows
    <3> QED
      BY <2>1, <2>2, <2>4, <2>6, <3>4
  <2> QED
    BY <2>5, <2>6
<1>5. PICK ua, ba \in Seq(Known) :
        /\ ua = UpTo(Around("active"), Share("active", cursor.at.pass))
        /\ ba = Beyond(Around("active"), Share("active", cursor.at.pass))
        /\ Follows(s, 0, ua) /\ Follows(s, k, ba)
        /\ "active" = l => \A m \in 1..Len(s) : m <= k => In(s[m], ua)
  BY <1>4 DEF Lanes
<1>6. PICK ut, bt \in Seq(Known) :
        /\ ut = UpTo(Around("transit"), Share("transit", cursor.at.pass))
        /\ bt = Beyond(Around("transit"), Share("transit", cursor.at.pass))
        /\ Follows(s, 0, ut) /\ Follows(s, k, bt)
        /\ "transit" = l => \A m \in 1..Len(s) : m <= k => In(s[m], ut)
  BY <1>4 DEF Lanes
<1>7. PICK uh, bh \in Seq(Known) :
        /\ uh = UpTo(Around("history"), Share("history", cursor.at.pass))
        /\ bh = Beyond(Around("history"), Share("history", cursor.at.pass))
        /\ Follows(s, 0, uh) /\ Follows(s, k, bh)
        /\ "history" = l => \A m \in 1..Len(s) : m <= k => In(s[m], uh)
  BY <1>4 DEF Lanes
<1>8. PICK v, c, sure, spare, more :
        /\ v = ua \o ut /\ sure = v \o uh
        /\ c = ba \o bt /\ spare = c \o bh
        /\ more = UpTo(spare, Limit - Len(sure))
  OBVIOUS
<1>9. Chosen = sure \o more
  BY <1>5, <1>6, <1>7, <1>8 DEF Chosen
<1>10. /\ v \in Seq(Known) /\ c \in Seq(Known) /\ sure \in Seq(Known) /\ spare \in Seq(Known)
       /\ Len(sure) \in Nat
       /\ \A x : In(x, ua) \/ In(x, ut) => In(x, v)
       /\ \A x : In(x, v) \/ In(x, uh) => In(x, sure)
  BY <1>8, ConcatIs, LenProperties
<1>11. Follows(s, 0, v) /\ Follows(s, k, c)
  BY <1>3, <1>5, <1>6, <1>8, JoinFollows
<1>12. Follows(s, 0, sure) /\ Follows(s, k, spare)
  BY <1>3, <1>7, <1>8, <1>10, <1>11, JoinFollows
<1>13. \A m \in 1..Len(s) : m <= k => In(s[m], sure)
  <2>1. l = "active" \/ l = "transit" \/ l = "history"
    BY DEF Lanes
  <2> QED
    BY <1>5, <1>6, <1>7, <1>10, <2>1
<1>14. more \in Seq(Known) /\ Follows(s, k, more)
  <2>1. PICK n : n = Limit - Len(sure)
    OBVIOUS
  <2>2. n \in Int
    BY <1>10, <2>1, SyncAssumption
  <2>3. more = UpTo(spare, n)
    BY <1>8, <2>1
  <2> QED
    BY <1>10, <1>12, <2>2, <2>3, UpToIs, UpToFollows
<1>15. Follows(s, 0, sure \o more)
  BY <1>3, <1>10, <1>12, <1>13, <1>14, JoinFollows
<1>16. \A x : In(x, sure) => In(x, sure \o more)
  BY <1>10, <1>14, ConcatIs
<1> QED
  BY <1>2, <1>9, <1>13, <1>15, <1>16

-----------------------------------------------------------------------------
\* What a run owes a lane: of the orders it reads that many are the lane's, or
\* all that the lane has.
Turn(l) == IF Limit >= 3 THEN Share(l, 0) ELSE Limit

LEMMA TurnIs ==
  ASSUME NEW l \in Lanes
  PROVE  Turn(l) \in Nat \ {0} /\ \A pass : Share(l, pass) = 0 \/ Share(l, pass) = Turn(l)
<1>1. Limit \in Nat \ {0}
  BY SyncAssumption
<1>2. PICK h, t : h = Larger(1, Limit \div 10) /\ t = Larger(1, Limit \div 5)
  OBVIOUS
<1>3. h \in Nat /\ t \in Nat /\ h >= 1 /\ t >= 1 /\ (Limit >= 3 => Limit - h - t >= 1)
  BY <1>1, <1>2 DEF Larger
<1>4. l = "history" \/ l = "transit" \/ l = "active"
  BY DEF Lanes
<1>5. ASSUME Limit >= 3, NEW pass
      PROVE  Share(l, pass) = Share(l, 0) /\ Share(l, pass) \in Nat \ {0}
  <2>1. Share(l, pass) = CASE l = "history" -> h
                           [] l = "transit" -> t
                           [] l = "active" -> Limit - h - t
    BY <1>2, <1>5 DEF Share
  <2>2. Share(l, 0) = CASE l = "history" -> h
                        [] l = "transit" -> t
                        [] l = "active" -> Limit - h - t
    BY <1>2, <1>5 DEF Share
  <2> QED
    BY <1>1, <1>3, <1>4, <1>5, <2>1, <2>2
<1>6. ASSUME ~(Limit >= 3), NEW pass
      PROVE  Share(l, pass) = Limit \/ Share(l, pass) = 0
  BY <1>6 DEF Share
<1> QED
  BY <1>1, <1>5, <1>6 DEF Turn

\* The first orders of a sequence are as many as they are.
LEMMA FirstOnes ==
  ASSUME NEW S, NEW s \in Seq(S), Distinct(s), NEW n \in 0..Len(s)
  PROVE  Cardinality({s[i] : i \in 1..n}) = n
<1>1. Len(s) \in Nat /\ n \in Nat /\ n <= Len(s)
  BY LenProperties
<1> DEFINE f == [i \in 1..n |-> s[i]]
           T == {s[i] : i \in 1..n}
<1>2. f \in Bijection(1..n, T)
  <2>1. f \in [1..n -> T]
    OBVIOUS
  <2>2. \A i, j \in 1..n : f[i] = f[j] => i = j
    BY <1>1 DEF Distinct
  <2>3. \A x \in T : \E i \in 1..n : f[i] = x
    OBVIOUS
  <2> HIDE DEF f, T
  <2> QED
    BY <2>1, <2>2, <2>3 DEF Bijection, Injection, Surjection, IsInjective
<1> HIDE DEF f, T
<1>3. IsFiniteSet(1..n) /\ Cardinality(1..n) = n
  BY <1>1, FS_Interval
<1>4. ExistsBijection(1..n, T)
  BY <1>2 DEF ExistsBijection
<1>5. Cardinality(T) = Cardinality(1..n)
  BY <1>3, <1>4, FS_Bijection
<1> QED
  BY <1>3, <1>5 DEF T

\* A run that has just chosen its orders.
LEMMA ChosenInTurn ==
  ASSUME SyncInv
  PROVE  /\ \A i \in 1..Len(Chosen), o \in Known :
              order[Chosen[i]].lane = order[o].lane /\ o \in Ahead(cursor.at.pos[order[o].lane], Chosen[i])
                => \E j \in 1..i : Chosen[j] = o
         /\ \A i, j \in 1..Len(Chosen) :
              order[Chosen[j]].lane = order[Chosen[i]].lane /\ j < i
                => Chosen[j] \in Ahead(cursor.at.pos[order[Chosen[i]].lane], Chosen[i])
         /\ \A o \in Known :
              Share(order[o].lane, cursor.at.pass) > 0 /\ ~In(o, Chosen)
                => \E T \in SUBSET Orders :
                     /\ Cardinality(T) = Turn(order[o].lane)
                     /\ \A x \in T : In(x, Chosen) /\ order[x].lane = order[o].lane
<1>1. \A l \in Lanes : cursor.at.pos[l] \in Nat
  <2>1. cursor.at.pos \in [Lanes -> Orders \cup {0}]
    BY DEF SyncInv, Types, Place
  <2>2. Orders \cup {0} \subseteq Nat
    BY SyncAssumption
  <2>3. ASSUME NEW l \in Lanes PROVE cursor.at.pos[l] \in Orders \cup {0}
    BY <2>1
  <2> QED
    BY <2>2, <2>3
<1>2. PICK c, p : c = Chosen /\ p = cursor.at.pos
  OBVIOUS
<1>3. Once(Known, c) /\ Len(c) \in Nat /\ \A i \in 1..Len(c) : c[i] \in Known
  BY <1>1, <1>2, ChosenIs, LenProperties, ElementOfSeq DEF Once
<1>4. ASSUME NEW o \in Known
      PROVE  order[o].lane \in Lanes /\ o \in Lane(order[o].lane) /\ o \in Orders
  <2>1. o \in Orders
    BY DEF Known
  <2> QED
    BY <2>1 DEF SyncInv, Types, Lane
<1>5. ASSUME NEW l \in Lanes
      PROVE  \E s \in Seq(Orders) :
               /\ Distinct(s) /\ Len(s) \in Nat /\ \A n \in 1..Len(s) : s[n] \in Lane(l)
               /\ \A m, n \in 1..Len(s) : s[m] \in Ahead(p[l], s[n]) <=> m <= n
               /\ \A o \in Lane(l) : \E n \in 1..Len(s) : s[n] = o
               /\ \A i \in 1..Len(c), n \in 1..Len(s) :
                    c[i] = s[n] => \A m \in 1..n : \E j \in 1..i : c[j] = s[m]
               /\ \A m \in 1..Len(s) : m <= Share(l, cursor.at.pass) => In(s[m], c)
  <2>1. PICK s : s = Around(l)
    OBVIOUS
  <2>2. Once(Lane(l), s)
    BY <1>1, <2>1, AroundIs
  <2>3. Lane(l) \subseteq Orders
    BY DEF Lane, Known
  <2>4. /\ s \in Seq(Orders) /\ Distinct(s) /\ Len(s) \in Nat
        /\ \A n \in 1..Len(s) : s[n] \in Lane(l)
    BY <2>2, <2>3, Widened, LenProperties, ElementOfSeq DEF Once
  <2>5. /\ \A m, n \in 1..Len(s) : s[m] \in Ahead(p[l], s[n]) <=> m <= n
        /\ \A o \in Lane(l) : \E n \in 1..Len(s) : s[n] = o
    BY <1>1, <1>2, <2>1, AroundGoes
  <2>6. /\ Follows(s, 0, c)
        /\ \A m \in 1..Len(s) : m <= Share(l, cursor.at.pass) => In(s[m], c)
    BY <1>1, <1>2, <2>1, ChosenFollows
  <2>7. ASSUME NEW i \in 1..Len(c), NEW n \in 1..Len(s), c[i] = s[n], NEW m \in 1..n
        PROVE  \E j \in 1..i : c[j] = s[m]
    <3>1. ~(m <= 0)
      OBVIOUS
    <3> QED
      BY <2>6, <2>7, <3>1 DEF Follows
  <2> QED
    BY <2>4, <2>5, <2>6, <2>7
<1>6. ASSUME NEW i \in 1..Len(c), NEW o \in Known, order[c[i]].lane = order[o].lane,
             o \in Ahead(p[order[o].lane], c[i])
      PROVE  \E j \in 1..i : c[j] = o
  <2>1. PICK l \in Lanes : l = order[o].lane
    BY <1>4
  <2>2. PICK s \in Seq(Orders) :
               /\ \A m, n \in 1..Len(s) : s[m] \in Ahead(p[l], s[n]) <=> m <= n
               /\ \A x \in Lane(l) : \E n \in 1..Len(s) : s[n] = x
               /\ \A k \in 1..Len(c), n \in 1..Len(s) :
                    c[k] = s[n] => \A m \in 1..n : \E j \in 1..k : c[j] = s[m]
    BY <1>5
  <2>3. o \in Lane(l) /\ c[i] \in Lane(l)
    BY <1>3, <1>4, <1>6, <2>1
  <2>4. PICK m \in 1..Len(s) : s[m] = o
    BY <2>2, <2>3
  <2>5. PICK n \in 1..Len(s) : s[n] = c[i]
    BY <2>2, <2>3
  <2>6. m <= n
    BY <1>6, <2>1, <2>2, <2>4, <2>5
  <2>7. m \in 1..n
    BY <2>6
  <2> QED
    BY <2>2, <2>4, <2>5, <2>7
<1>7. ASSUME NEW i \in 1..Len(c), NEW j \in 1..Len(c), order[c[j]].lane = order[c[i]].lane, j < i
      PROVE  c[j] \in Ahead(p[order[c[i]].lane], c[i])
  <2>1. PICK l \in Lanes : l = order[c[i]].lane
    BY <1>3, <1>4
  <2>2. PICK s \in Seq(Orders) :
               /\ \A m, n \in 1..Len(s) : s[m] \in Ahead(p[l], s[n]) <=> m <= n
               /\ \A x \in Lane(l) : \E n \in 1..Len(s) : s[n] = x
               /\ \A k \in 1..Len(c), n \in 1..Len(s) :
                    c[k] = s[n] => \A m \in 1..n : \E g \in 1..k : c[g] = s[m]
    BY <1>5
  <2>3. c[j] \in Lane(l) /\ c[i] \in Lane(l)
    BY <1>3, <1>4, <1>7, <2>1
  <2>4. PICK m \in 1..Len(s) : s[m] = c[j]
    BY <2>2, <2>3
  <2>5. PICK n \in 1..Len(s) : s[n] = c[i]
    BY <2>2, <2>3
  <2>6. CASE m <= n
    BY <2>1, <2>2, <2>4, <2>5, <2>6
  <2>7. CASE ~(m <= n)
    <3>1. n \in 1..m
      BY <2>7
    <3>2. PICK g \in 1..j : c[g] = s[n]
      BY <2>2, <2>4, <3>1
    <3>3. g \in 1..Len(c) /\ g # i /\ c[g] = c[i]
      BY <1>3, <1>7, <2>5, <3>2
    <3> QED
      BY <1>3, <3>3 DEF Once, Distinct
  <2> QED
    BY <2>6, <2>7
<1>8. ASSUME NEW o \in Known, Share(order[o].lane, cursor.at.pass) > 0, ~In(o, c)
      PROVE  \E T \in SUBSET Orders :
               /\ Cardinality(T) = Turn(order[o].lane)
               /\ \A x \in T : In(x, c) /\ order[x].lane = order[o].lane
  <2>1. PICK l \in Lanes : l = order[o].lane
    BY <1>4
  <2>2. PICK k : k = Share(l, cursor.at.pass)
    OBVIOUS
  <2>3. k = Turn(l) /\ k \in Nat
    BY <1>8, <2>1, <2>2, TurnIs
  <2>4. PICK s \in Seq(Orders) :
               /\ Distinct(s) /\ Len(s) \in Nat /\ \A n \in 1..Len(s) : s[n] \in Lane(l)
               /\ \A x \in Lane(l) : \E n \in 1..Len(s) : s[n] = x
               /\ \A m \in 1..Len(s) : m <= Share(l, cursor.at.pass) => In(s[m], c)
    BY <1>5
  <2>5. PICK n \in 1..Len(s) : s[n] = o
    BY <1>4, <2>1, <2>4
  <2>6. ~(n <= k)
    BY <1>8, <2>2, <2>4, <2>5
  <2>7. k \in 0..Len(s)
    BY <2>3, <2>4, <2>6
  <2>8. PICK T : T = {s[i] : i \in 1..k}
    OBVIOUS
  <2>9. Cardinality(T) = k
    BY <2>4, <2>7, <2>8, FirstOnes
  <2>10. ASSUME NEW x \in T PROVE In(x, c) /\ x \in Lane(l)
    <3>1. PICK i \in 1..k : x = s[i]
      BY <2>8
    <3>2. i \in 1..Len(s) /\ i <= k
      BY <2>4, <2>7
    <3> QED
      BY <2>2, <2>4, <3>1, <3>2
  <2>11. \A x \in T : In(x, c) /\ order[x].lane = order[o].lane /\ x \in Orders
    BY <2>1, <2>10 DEF Lane, Known
  <2> QED
    BY <2>1, <2>3, <2>9, <2>11
<1> QED
  BY <1>2, <1>6, <1>7, <1>8

-----------------------------------------------------------------------------
\* The invariant of LaneTurns: what an order has waited for and what the cursor
\* has still to pass before it comes to the order make one round of the keys.
\* A run with the lease moves the cursor when it ends; while it goes on, the
\* orders it will have passed are read, or are new in their lane.

TurnsTyped == turns \in [Orders -> Nat] /\ \A o \in Orders : ~order[o].known => turns[o] = 0
Booked ==
  \A o \in Orders :
    turns[o] * Turn(order[o].lane) + Cardinality(Ahead(cursor.at.pos[order[o].lane], o))
      <= Cardinality(Orders)

\* The orders c, chosen from the lanes a, are read in the order of their keys.
ReadInOrder(c, a, p) ==
  \A i, j \in 1..Len(c) : a[c[j]] = a[c[i]] /\ j < i => c[j] \in Ahead(p[a[c[i]]], c[i])
\* An order that c passes by in its lane has not waited.
PassedRead(c, a, p) ==
  \A i \in 1..Len(c), o \in Orders :
    a[c[i]] = order[o].lane /\ o \in Ahead(p[order[o].lane], c[i])
      => turns[o] = 0 \/ \E j \in 1..i : c[j] = o
\* An order that waits and is not chosen: c passes by others of its lane only,
\* as many as the lane's turn.
WaitsOn(o, c, a, p) ==
  /\ \A i \in 1..Len(c) : a[c[i]] = order[o].lane => o \notin Ahead(p[order[o].lane], c[i])
  /\ \E T \in SUBSET Orders : /\ Cardinality(T) = Turn(order[o].lane)
                              /\ \A x \in T : In(x, c) /\ a[x] = order[o].lane

HoldsLease(r) == cursor.token = {r} /\ run[r].st # "idle"
InTurn(r) ==
  /\ run[r].from = cursor.at
  /\ ReadInOrder(run[r].chosen, run[r].at, run[r].from.pos)
  /\ PassedRead(run[r].chosen, run[r].at, run[r].from.pos)
  /\ \A i \in 1..run[r].done : turns[run[r].chosen[i]] = 0
  /\ \A o \in run[r].waiting :
       /\ order[o].known /\ \A i \in 1..run[r].done : run[r].chosen[i] # o
       /\ ~In(o, run[r].chosen) => WaitsOn(o, run[r].chosen, run[r].at, run[r].from.pos)

TurnInv == TurnsTyped /\ Booked /\ \A r \in Runs : HoldsLease(r) => InTurn(r)

LEMMA PosIs ==
  ASSUME Types, NEW o \in Orders
  PROVE  /\ order[o].lane \in Lanes /\ cursor.at.pos[order[o].lane] \in Nat
         /\ o \in Nat
<1>1. order[o].lane \in Lanes /\ cursor.at.pos \in [Lanes -> Orders \cup {0}]
  BY DEF Types, Place
<1>2. Orders \cup {0} \subseteq Nat
  BY SyncAssumption
<1>3. cursor.at.pos[order[o].lane] \in Orders \cup {0}
  BY <1>1
<1> QED
  BY <1>1, <1>2, <1>3

LEMMA TurnInit == Init /\ SyncInv => TurnInv
<1> SUFFICES ASSUME Init, SyncInv PROVE TurnInv
  OBVIOUS
<1>1. turns = [o \in Orders |-> 0] /\ cursor.token = {}
  BY DEF Init
<1>2. TurnsTyped
  BY <1>1 DEF TurnsTyped
<1>3. ASSUME NEW o \in Orders
      PROVE  turns[o] * Turn(order[o].lane) + Cardinality(Ahead(cursor.at.pos[order[o].lane], o))
               <= Cardinality(Orders)
  <2>1. order[o].lane \in Lanes /\ cursor.at.pos[order[o].lane] \in Nat
    BY PosIs DEF SyncInv
  <2>2. PICK p, t : p = cursor.at.pos[order[o].lane] /\ t = Turn(order[o].lane)
    OBVIOUS
  <2>3. Cardinality(Ahead(p, o)) \in 1..Cardinality(Orders) /\ Cardinality(Orders) \in Nat
    BY <2>1, <2>2, AheadIs
  <2>4. t \in Nat /\ turns[o] = 0
    BY <1>1, <2>1, <2>2, TurnIs
  <2> QED
    BY <2>2, <2>3, <2>4
<1>4. \A r \in Runs : ~HoldsLease(r)
  BY <1>1 DEF HoldsLease
<1> QED
  BY <1>2, <1>3, <1>4 DEF TurnInv, Booked

\* A step that leaves the cursor where it is.
RunStays(r) ==
  /\ HoldsLease(r)
  /\ run'[r].chosen = run[r].chosen /\ run'[r].at = run[r].at /\ run'[r].from = run[r].from
  /\ \A i \in 1..run'[r].done : i \in 1..run[r].done \/ turns'[run[r].chosen[i]] = 0
  /\ \A o \in run'[r].waiting :
       /\ o \in run[r].waiting /\ order'[o].lane = order[o].lane
       /\ \A i \in 1..run'[r].done : i \in 1..run[r].done \/ run[r].chosen[i] # o

TurnStays(o) ==
  /\ turns'[o] = turns[o] \/ turns'[o] = 0
  /\ order'[o].lane # order[o].lane => turns'[o] = 0
  /\ order[o].known => order'[o].known

LEMMA RunStaysInTurn ==
  ASSUME SyncInv, TurnInv, cursor'.at = cursor.at, NEW r \in Runs, RunStays(r),
         \A o \in Orders : TurnStays(o)
  PROVE  InTurn(r)'
<1>1. PICK c, a, p, d, W :
        c = run[r].chosen /\ a = run[r].at /\ p = run[r].from.pos /\ d = run[r].done /\ W = run[r].waiting
  OBVIOUS
<1>2. PICK e, V : e = run'[r].done /\ V = run'[r].waiting
  OBVIOUS
<1>3. /\ run[r].from = cursor.at /\ ReadInOrder(c, a, p) /\ PassedRead(c, a, p)
      /\ \A i \in 1..d : turns[c[i]] = 0
      /\ \A o \in W : /\ order[o].known /\ \A i \in 1..d : c[i] # o
                      /\ ~In(o, c) => WaitsOn(o, c, a, p)
  BY <1>1 DEF TurnInv, InTurn, RunStays
<1>4. /\ run'[r].chosen = c /\ run'[r].at = a /\ run'[r].from = cursor'.at /\ run'[r].from.pos = p
      /\ \A i \in 1..e : i \in 1..d \/ turns'[c[i]] = 0
      /\ \A o \in V : /\ o \in W /\ order'[o].lane = order[o].lane
                      /\ \A i \in 1..e : i \in 1..d \/ c[i] # o
  BY <1>1, <1>2, <1>3 DEF RunStays
<1>5. W \subseteq Orders /\ d \in Nat /\ d <= Len(c) /\ Len(c) \in Nat /\ \A i \in 1..d : c[i] \in Orders
  <2>1. W \subseteq Orders /\ Once(Known, c) /\ d \in Nat /\ d <= Len(c)
    BY <1>1 DEF SyncInv, Types, RunRow, Readings, RunSound
  <2>2. Len(c) \in Nat /\ \A i \in 1..Len(c) : c[i] \in Orders
    BY <2>1, KnownIs, LenProperties, ElementOfSeq DEF Once
  <2> QED
    BY <2>1, <2>2
<1>6. PassedRead(c, a, p)'
  <2> SUFFICES ASSUME NEW i \in 1..Len(c), NEW o \in Orders, a[c[i]] = order'[o].lane,
                      o \in Ahead(p[order'[o].lane], c[i]), turns'[o] # 0
               PROVE  \E j \in 1..i : c[j] = o
    BY DEF PassedRead, Ahead
  <2>1. order'[o].lane = order[o].lane /\ turns[o] # 0
    BY DEF TurnStays
  <2> QED
    BY <1>3, <2>1 DEF PassedRead
<1>7. ASSUME NEW i \in 1..e PROVE turns'[c[i]] = 0
  <2>1. CASE i \in 1..d
    BY <1>3, <1>5, <2>1 DEF TurnStays
  <2> QED
    BY <1>4, <2>1
<1>8. ASSUME NEW o \in V
      PROVE  /\ order'[o].known /\ \A i \in 1..e : c[i] # o
             /\ ~In(o, c) => WaitsOn(o, c, a, p)'
  <2>1. o \in W /\ o \in Orders /\ order'[o].lane = order[o].lane
    BY <1>4, <1>5
  <2>2. order'[o].known
    BY <1>3, <2>1 DEF TurnStays
  <2>3. \A i \in 1..e : c[i] # o
    BY <1>3, <1>4, <2>1
  <2>4. ASSUME ~In(o, c) PROVE WaitsOn(o, c, a, p)'
    <3>1. WaitsOn(o, c, a, p)
      BY <1>3, <2>1, <2>4
    <3> QED
      BY <2>1, <3>1 DEF WaitsOn
  <2> QED
    BY <2>2, <2>3, <2>4
<1>9. ReadInOrder(c, a, p)'
  BY <1>3 DEF ReadInOrder, Ahead
<1> QED
  BY <1>2, <1>4, <1>6, <1>7, <1>8, <1>9 DEF InTurn, ReadInOrder, PassedRead, WaitsOn

LEMMA TurnsStay ==
  ASSUME SyncInv, TurnInv, cursor'.at = cursor.at, turns' \in [Orders -> Nat],
         \A o \in Orders : order'[o].lane \in Lanes,
         \A o \in Orders : TurnStays(o),
         \A r \in Runs : HoldsLease(r)' => RunStays(r) \/ InTurn(r)'
  PROVE  TurnInv'
<1>1. TurnsTyped'
  BY DEF TurnInv, TurnsTyped, TurnStays
<1>2. ASSUME NEW o \in Orders
      PROVE  turns'[o] * Turn(order'[o].lane) + Cardinality(Ahead(cursor'.at.pos[order'[o].lane], o))
               <= Cardinality(Orders)
  <2>1. CASE order'[o].lane = order[o].lane /\ turns'[o] = turns[o]
    BY <2>1 DEF TurnInv, Booked
  <2>2. CASE turns'[o] = 0
    <3>1. PICK l \in Lanes : l = order'[o].lane
      OBVIOUS
    <3>2. PICK p, t : p = cursor.at.pos[l] /\ t = Turn(l)
      OBVIOUS
    <3>3. p \in Nat
      <4>1. cursor.at.pos \in [Lanes -> Orders \cup {0}]
        BY DEF SyncInv, Types, Place
      <4>2. p \in Orders \cup {0}
        BY <3>2, <4>1
      <4> QED
        BY <4>2, SyncAssumption
    <3>4. Cardinality(Ahead(p, o)) \in 1..Cardinality(Orders) /\ Cardinality(Orders) \in Nat
      BY <3>3, AheadIs
    <3>5. t \in Nat
      BY <3>2, TurnIs
    <3> QED
      BY <2>2, <3>1, <3>2, <3>4, <3>5
  <2> QED
    BY <2>1, <2>2 DEF TurnStays
<1>3. Booked'
  BY <1>2 DEF Booked, Turn, Share, Ahead
<1>4. \A r \in Runs : (HoldsLease(r) => InTurn(r))'
  BY RunStaysInTurn
<1> QED
  BY <1>1, <1>3, <1>4 DEF TurnInv

-----------------------------------------------------------------------------
\* The cursor moves on: in each lane to the last order of the lane that was read.
LEMMA AdvancedTo ==
  ASSUME NEW r \in Runs, NEW s \in Seq(Orders), NEW l \in Lanes
  PROVE  \/ /\ \A i \in 1..Len(s) : run[r].at[s[i]] # l
            /\ Advanced(r, s)[l] = run[r].from.pos[l]
         \/ \E m \in 1..Len(s) : /\ run[r].at[s[m]] = l /\ Advanced(r, s)[l] = s[m]
                                 /\ \A i \in 1..Len(s) : run[r].at[s[i]] = l => i <= m
<1> DEFINE mine == {i \in DOMAIN s : run[r].at[s[i]] = l}
<1>1. Advanced(r, s)[l] = IF mine = {} THEN run[r].from.pos[l] ELSE s[Max(mine)]
  BY DEF Advanced
<1>2. Len(s) \in Nat /\ DOMAIN s = 1..Len(s)
  BY LenProperties
<1>3. \A i : i \in mine <=> i \in 1..Len(s) /\ run[r].at[s[i]] = l
  BY <1>2
<1> HIDE DEF mine
<1>4. CASE mine # {}
  <2>1. IsFiniteSet(mine) /\ mine \in SUBSET Nat
    <3>1. IsFiniteSet(1..Len(s)) /\ 1..Len(s) \subseteq Nat /\ mine \subseteq 1..Len(s)
      <4>1. PICK m \in Nat : m = Len(s)
        BY <1>2
      <4>2. IsFiniteSet(1..m) /\ 1..m \subseteq Nat
        BY FS_Interval
      <4> QED
        BY <1>3, <4>1, <4>2
    <3> QED
      BY <3>1, FS_Subset
  <2>2. \E n \in mine : \A m \in mine : n >= m
    BY <1>4, <2>1, Largest
  <2>3. PICK m : m = Max(mine)
    OBVIOUS
  <2>4. m \in mine /\ \A i \in mine : m >= i
    BY <2>2, <2>3 DEF Max
  <2>5. m \in 1..Len(s) /\ run[r].at[s[m]] = l /\ Advanced(r, s)[l] = s[m]
    BY <1>1, <1>3, <1>4, <2>3, <2>4
  <2>6. \A i \in 1..Len(s) : run[r].at[s[i]] = l => i <= m
    BY <1>2, <1>3, <2>4, <2>5
  <2> QED
    BY <2>5, <2>6
<1>5. CASE mine = {}
  BY <1>1, <1>3, <1>5
<1> QED
  BY <1>4, <1>5

\* The run with the lease ends and the cursor passes the first n orders it
\* chose.  Only a run that has read them all counts for those that wait.
LEMMA CursorMovesOn ==
  ASSUME SyncInv, TurnInv, NEW r \in Runs, HoldsLease(r), order' = order, cursor'.token = {},
         NEW n \in Nat, n <= run[r].done,
         NEW s \in Seq(Orders), Len(s) = n, \A i \in 1..n : s[i] = run[r].chosen[i],
         cursor'.at.pos = Advanced(r, s),
         turns' \in [Orders -> Nat],
         \A o \in Orders : \/ turns'[o] = turns[o]
                           \/ /\ turns'[o] = turns[o] + 1 /\ o \in run[r].waiting
                              /\ n = Len(run[r].chosen)
  PROVE  TurnInv'
<1>1. PICK c, a, p, d, W :
        c = run[r].chosen /\ a = run[r].at /\ p = run[r].from.pos /\ d = run[r].done /\ W = run[r].waiting
  OBVIOUS
<1>2. /\ p = cursor.at.pos /\ ReadInOrder(c, a, p) /\ PassedRead(c, a, p)
      /\ \A i \in 1..d : turns[c[i]] = 0
      /\ \A o \in W : /\ order[o].known /\ \A i \in 1..d : c[i] # o
                      /\ ~In(o, c) => WaitsOn(o, c, a, p)
  BY <1>1 DEF TurnInv, InTurn
<1>3. /\ d \in Nat /\ Len(c) \in Nat /\ d <= Len(c)
      /\ \A i \in 1..Len(c) : c[i] \in Orders
  <2>1. Once(Known, c) /\ d \in Nat /\ d <= Len(c)
    BY <1>1 DEF SyncInv, Types, RunRow, Readings, RunSound
  <2> QED
    BY <2>1, KnownIs, LenProperties, ElementOfSeq DEF Once
<1>4. ASSUME NEW o \in W, n = Len(c)
      PROVE  WaitsOn(o, c, a, p)
  <2>1. d = Len(c)
    BY <1>1, <1>3, <1>4
  <2>2. ~In(o, c)
    BY <1>2, <2>1 DEF In
  <2> QED
    BY <1>2, <2>2
<1>5. ASSUME NEW o \in Orders
      PROVE  turns'[o] * Turn(order[o].lane) + Cardinality(Ahead(cursor'.at.pos[order[o].lane], o))
               <= Cardinality(Orders)
  <2>1. PICK l \in Lanes : l = order[o].lane
    BY PosIs DEF SyncInv
  <2>2. PICK t, f, u, N : t = Turn(l) /\ f = p[l] /\ u = turns[o] /\ N = Cardinality(Orders)
    OBVIOUS
  <2>3. t \in Nat /\ t >= 1 /\ f \in Nat /\ u \in Nat
    BY <1>2, <2>1, <2>2, TurnIs, PosIs DEF SyncInv, TurnInv, TurnsTyped
  <2>4. PICK A : A = Cardinality(Ahead(f, o))
    OBVIOUS
  <2>5. A \in 1..N /\ N \in Nat
    BY <2>2, <2>3, <2>4, AheadIs
  <2>6. u * t + A <= N
    BY <1>2, <2>1, <2>2, <2>4 DEF TurnInv, Booked
  <2>7. PICK ut : ut = u * t
    OBVIOUS
  <2>8. ut \in Nat
    BY <2>3, <2>7
  <2>9. (u + 1) * t = ut + t
    BY <2>3, <2>7
  <2>10. turns'[o] = u \/ (turns'[o] = u + 1 /\ WaitsOn(o, c, a, p))
    BY <1>1, <1>4, <2>2
  <2>11. WaitsOn(o, c, a, p) =>
           /\ \A i \in 1..Len(c) : a[c[i]] = l => o \notin Ahead(f, c[i])
           /\ \E T \in SUBSET Orders : Cardinality(T) = t /\ \A x \in T : In(x, c) /\ a[x] = l
    BY <2>1, <2>2 DEF WaitsOn
  <2>12. \/ /\ \A i \in 1..n : a[c[i]] # l
            /\ cursor'.at.pos[l] = f
         \/ \E m \in 1..n : /\ a[c[m]] = l /\ cursor'.at.pos[l] = c[m]
                            /\ \A i \in 1..n : a[c[i]] = l => i <= m
    <3>1. \/ /\ \A i \in 1..Len(s) : run[r].at[s[i]] # l
             /\ Advanced(r, s)[l] = run[r].from.pos[l]
          \/ \E m \in 1..Len(s) : /\ run[r].at[s[m]] = l /\ Advanced(r, s)[l] = s[m]
                                  /\ \A i \in 1..Len(s) : run[r].at[s[i]] = l => i <= m
      BY ONLY AdvancedTo, r \in Runs, s \in Seq(Orders), l \in Lanes
    <3>2. /\ run[r].from.pos[l] = f /\ cursor'.at.pos[l] = Advanced(r, s)[l]
          /\ \A i \in 1..n : run[r].at[s[i]] = a[c[i]] /\ s[i] = c[i]
      BY <1>1, <2>2
    <3>3. CASE /\ \A i \in 1..Len(s) : run[r].at[s[i]] # l
               /\ Advanced(r, s)[l] = run[r].from.pos[l]
      BY <3>2, <3>3
    <3>4. ASSUME NEW m \in 1..n, run[r].at[s[m]] = l, Advanced(r, s)[l] = s[m],
                 \A i \in 1..n : run[r].at[s[i]] = l => i <= m
          PROVE  /\ a[c[m]] = l /\ cursor'.at.pos[l] = c[m]
                 /\ \A i \in 1..n : a[c[i]] = l => i <= m
      BY <3>2, <3>4
    <3> QED
      BY <3>1, <3>3, <3>4
  <2>13. CASE (\A i \in 1..n : a[c[i]] # l) /\ cursor'.at.pos[l] = f
    <3>1. CASE turns'[o] = u
      BY <2>1, <2>2, <2>4, <2>6, <2>13, <3>1
    <3>2. CASE turns'[o] = u + 1 /\ WaitsOn(o, c, a, p) /\ ~(turns'[o] = u)
      <4>1. n = Len(c)
        BY <1>1, <2>2, <3>2
      <4>2. PICK T \in SUBSET Orders : Cardinality(T) = t /\ \A x \in T : In(x, c) /\ a[x] = l
        BY <2>11, <3>2
      <4>3. T # {}
        <5>1. Cardinality(T) # 0
          BY <2>3, <4>2
        <5>2. T = {} => Cardinality(T) = 0
          BY FS_EmptySet
        <5> QED
          BY <5>1, <5>2
      <4>4. PICK x \in T : In(x, c) /\ a[x] = l
        BY <4>2, <4>3
      <4> QED
        BY <2>13, <4>1, <4>4 DEF In
    <3> QED
      BY <2>10, <3>1, <3>2
  <2>14. ASSUME NEW m \in 1..n, a[c[m]] = l, cursor'.at.pos[l] = c[m],
                \A i \in 1..n : a[c[i]] = l => i <= m
         PROVE  turns'[o] * Turn(order[o].lane) + Cardinality(Ahead(cursor'.at.pos[order[o].lane], o))
                  <= Cardinality(Orders)
    <3>1. m \in 1..Len(c) /\ c[m] \in Orders
      BY <1>1, <1>3
    <3>2. PICK q : q = c[m]
      OBVIOUS
    <3>3. q \in Orders /\ q \in Nat
      BY <3>1, <3>2, SyncAssumption
    <3>4. PICK B : B = Cardinality(Ahead(q, o))
      OBVIOUS
    <3>5. B \in 1..N
      BY <2>2, <3>3, <3>4, AheadIs
    <3> SUFFICES turns'[o] * t + B <= N
      BY <2>1, <2>2, <2>14, <3>2, <3>4
    <3>6. CASE o \in Ahead(f, q)
      <4>1. turns[o] = 0
        <5>1. turns[o] = 0 \/ \E j \in 1..m : c[j] = o
          BY <1>2, <2>1, <2>2, <2>14, <3>1, <3>2, <3>6 DEF PassedRead
        <5>2. \A j \in 1..m : j \in 1..d
          BY <1>1, <1>3
        <5> QED
          BY <1>2, <5>1, <5>2
      <4>2. ~WaitsOn(o, c, a, p)
        BY <2>11, <2>14, <3>1, <3>2, <3>6
      <4>3. turns'[o] = 0
        BY <2>2, <2>10, <4>1, <4>2
      <4> QED
        BY <2>3, <2>5, <3>5, <4>3
    <3>7. CASE o \notin Ahead(f, q)
      <4>1. PICK C : C = Cardinality(Ahead(f, q))
        OBVIOUS
      <4>2. B + C <= A /\ C \in Nat
        BY <2>3, <2>4, <3>3, <3>4, <3>7, <4>1, AheadSplits, AheadIs, FS_CardinalityType
      <4>3. CASE turns'[o] = u
        BY <2>5, <2>6, <2>7, <2>8, <3>5, <4>2, <4>3
      <4>4. CASE turns'[o] = u + 1 /\ WaitsOn(o, c, a, p) /\ ~(turns'[o] = u)
        <5>1. n = Len(c)
          BY <1>1, <2>2, <4>4
        <5>2. PICK T \in SUBSET Orders : Cardinality(T) = t /\ \A x \in T : In(x, c) /\ a[x] = l
          BY <2>11, <4>4
        <5>3. ASSUME NEW x \in T PROVE x \in Ahead(f, q)
          <6>1. PICK i \in 1..Len(c) : c[i] = x
            BY <5>2 DEF In
          <6>2. a[c[i]] = l /\ i <= m
            BY <2>14, <5>1, <5>2, <6>1
          <6>3. CASE i = m
            BY <2>3, <3>2, <3>3, <6>1, <6>3, AheadIs
          <6>4. CASE i # m
            <7>1. i < m
              BY <6>2, <6>4
            <7>2. c[i] \in Ahead(p[a[c[m]]], c[m])
              BY <1>2, <2>14, <3>1, <6>2, <7>1 DEF ReadInOrder
            <7> QED
              BY <2>2, <2>14, <3>2, <6>1, <7>2
          <6> QED
            BY <6>3, <6>4
        <5>4. t <= C
          <6>1. PICK D : D = Ahead(f, q)
            OBVIOUS
          <6>2. IsFiniteSet(D) /\ T \subseteq D
            BY <2>3, <3>3, <5>3, <6>1, AheadIs
          <6>3. Cardinality(T) <= Cardinality(D)
            BY <6>2, FS_Subset
          <6> QED
            BY <4>1, <5>2, <6>1, <6>3
        <5>5. ut + t + B <= N
          BY <2>3, <2>5, <2>6, <2>7, <2>8, <3>5, <4>2, <5>4
        <5> QED
          BY <2>9, <4>4, <5>5
      <4> QED
        BY <2>10, <4>3, <4>4
    <3> QED
      BY <3>6, <3>7
  <2> QED
    BY <2>12, <2>13, <2>14
<1>6. Booked'
  BY <1>5 DEF Booked, Turn, Share, Ahead
<1>7. TurnsTyped'
  <2> SUFFICES ASSUME NEW o \in Orders, ~order[o].known PROVE turns'[o] = 0
    BY DEF TurnsTyped
  <2>1. turns[o] = 0 /\ o \notin W
    BY <1>2 DEF TurnInv, TurnsTyped
  <2> QED
    BY <1>1, <2>1
<1>8. \A q \in Runs : ~HoldsLease(q)'
  BY DEF HoldsLease
<1> QED
  BY <1>6, <1>7, <1>8 DEF TurnInv

-----------------------------------------------------------------------------
\* The steps.
LEMMA TurnsSame ==
  ASSUME SyncInv, TurnInv, order' = order, turns' = turns, cursor'.at = cursor.at,
         \A r \in Runs : HoldsLease(r)' => RunStays(r) \/ InTurn(r)'
  PROVE  TurnInv'
<1>1. \A o \in Orders : TurnStays(o)
  BY DEF TurnStays
<1>2. turns' \in [Orders -> Nat]
  BY DEF TurnInv, TurnsTyped
<1>3. \A o \in Orders : order'[o].lane \in Lanes
  BY PosIs DEF SyncInv
<1> QED
  BY <1>1, <1>2, <1>3, TurnsStay

LEMMA RowStays ==
  ASSUME NEW q \in Runs, HoldsLease(q)', cursor'.token = cursor.token, run'[q].st = run[q].st,
         run'[q].chosen = run[q].chosen, run'[q].at = run[q].at, run'[q].from = run[q].from,
         run'[q].done = run[q].done,
         \A o \in run'[q].waiting : o \in run[q].waiting /\ order'[o].lane = order[o].lane
  PROVE  RunStays(q)
<1>1. HoldsLease(q)
  BY DEF HoldsLease
<1> QED
  BY <1>1 DEF RunStays

\* The other runs, while one of them goes on.
LEMMA OthersStay ==
  ASSUME SyncInv, order' = order, cursor'.token = cursor.token,
         NEW r \in Runs, NEW q \in Runs, q # r, HoldsLease(q)', NEW row, run' = [run EXCEPT ![r] = row]
  PROVE  RunStays(q)
<1>1. run'[q] = run[q]
  BY DEF SyncInv, Types
<1> QED
  BY <1>1, RowStays

LEMMA TurnStart ==
  ASSUME SyncInv, TurnInv, NEW r \in Runs, Start(r)
  PROVE  TurnInv'
<1>1. /\ order' = order /\ turns' = turns
      /\ cursor' = [cursor EXCEPT !.token = {r}, !.live = TRUE]
  BY DEF Start
<1>2. cursor'.at = cursor.at /\ cursor'.token = {r}
  BY <1>1 DEF SyncInv, Types
<1> DEFINE due == {o \in Known : Share(order[o].lane, cursor.at.pass) > 0}
           at == [o \in Orders |-> order[o].lane]
<1>3. PICK row : row = [Idle EXCEPT !.st = "reading", !.chosen = Chosen, !.from = cursor.at,
                                    !.at = at, !.waiting = due]
  OBVIOUS
<1> HIDE DEF at, due
<1>4. /\ row.chosen = Chosen /\ row.done = 0 /\ row.from = cursor.at
      /\ row.at = at /\ row.waiting = due
      /\ run' = [run EXCEPT ![r] = row]
  BY <1>3 DEF Start, Idle, at, due
<1>5. run'[r] = row
  BY <1>4 DEF SyncInv, Types
<1>6. PICK c, p : c = Chosen /\ p = cursor.at.pos
  OBVIOUS
<1>7. \A i \in 1..Len(c) : c[i] \in Known /\ c[i] \in Orders
  <2>1. \A l \in Lanes : cursor.at.pos[l] \in Nat
    <3>1. cursor.at.pos \in [Lanes -> Orders \cup {0}]
      BY DEF SyncInv, Types, Place
    <3>2. Orders \cup {0} \subseteq Nat
      BY SyncAssumption
    <3>3. ASSUME NEW l \in Lanes PROVE cursor.at.pos[l] \in Orders \cup {0}
      BY <3>1
    <3> QED
      BY <3>2, <3>3
  <2>2. Once(Known, c)
    BY <1>6, <2>1, ChosenIs
  <2> QED
    BY <2>2, KnownIs, ElementOfSeq DEF Once
<1>8. \A o \in Orders : at[o] = order[o].lane
  BY DEF at
<1>9. ReadInOrder(c, at, p)
  <2> SUFFICES ASSUME NEW i \in 1..Len(c), NEW j \in 1..Len(c), at[c[j]] = at[c[i]], j < i
               PROVE  c[j] \in Ahead(p[at[c[i]]], c[i])
    BY DEF ReadInOrder
  <2>1. order[c[j]].lane = order[c[i]].lane /\ at[c[i]] = order[c[i]].lane
    BY <1>7, <1>8
  <2> QED
    BY <1>6, <2>1, ChosenInTurn
<1>10. ASSUME NEW i \in 1..Len(c), NEW o \in Orders, at[c[i]] = order[o].lane,
              o \in Ahead(p[order[o].lane], c[i])
       PROVE  turns[o] = 0 \/ (o \in Known /\ \E j \in 1..i : c[j] = o)
  <2>1. CASE o \in Known
    <3>1. order[c[i]].lane = order[o].lane
      BY <1>7, <1>8, <1>10
    <3> QED
      BY <1>6, <1>10, <2>1, <3>1, ChosenInTurn
  <2>2. CASE o \notin Known
    BY <2>2 DEF TurnInv, TurnsTyped, Known
  <2> QED
    BY <2>1, <2>2
<1>11. PassedRead(c, at, p)
  BY <1>10 DEF PassedRead
<1>12. ASSUME NEW o \in due
       PROVE  order[o].known /\ (~In(o, c) => WaitsOn(o, c, at, p))
  <2>1. o \in Known /\ o \in Orders /\ order[o].known /\ Share(order[o].lane, cursor.at.pass) > 0
    BY DEF due, Known
  <2>2. ASSUME ~In(o, c) PROVE WaitsOn(o, c, at, p)
    <3>1. ASSUME NEW i \in 1..Len(c), at[c[i]] = order[o].lane
          PROVE  o \notin Ahead(p[order[o].lane], c[i])
      <4>1. order[c[i]].lane = order[o].lane
        BY <1>7, <1>8, <3>1
      <4>2. ~\E j \in 1..i : c[j] = o
        <5>1. \A j \in 1..i : j \in 1..Len(c)
          OBVIOUS
        <5> QED
          BY <2>2, <5>1 DEF In
      <4> QED
        BY <1>6, <2>1, <4>1, <4>2, ChosenInTurn
    <3>2. PICK T \in SUBSET Orders :
             /\ Cardinality(T) = Turn(order[o].lane)
             /\ \A x \in T : In(x, c) /\ order[x].lane = order[o].lane
      BY <1>6, <2>1, <2>2, ChosenInTurn
    <3>3. \A x \in T : In(x, c) /\ at[x] = order[o].lane
      BY <1>8, <3>2
    <3> QED
      BY <3>1, <3>2, <3>3 DEF WaitsOn
  <2> QED
    BY <2>1, <2>2
<1>13. InTurn(r)'
  <2>1. /\ run'[r].chosen = c /\ run'[r].at = at /\ run'[r].from = cursor'.at /\ run'[r].from.pos = p
        /\ run'[r].done = 0 /\ run'[r].waiting = due
    BY <1>2, <1>4, <1>5, <1>6
  <2>2. PICK a, W : a = at /\ W = due
    OBVIOUS
  <2>3. ReadInOrder(c, a, p)' /\ PassedRead(c, a, p)'
    BY <1>1, <1>9, <1>11, <2>2 DEF ReadInOrder, PassedRead, Ahead
  <2>4. \A o \in W : order'[o].known /\ (~In(o, c) => WaitsOn(o, c, a, p)')
    <3>1. order' = order
      BY <1>1
    <3>2. ASSUME NEW o \in W  PROVE WaitsOn(o, c, a, p)' = WaitsOn(o, c, a, p)
      BY ONLY <3>1 DEF WaitsOn, Turn, Share, Ahead
    <3> QED
      BY <1>12, <2>2, <3>1, <3>2
  <2>5. \A i \in 1..0 : FALSE
    OBVIOUS
  <2> QED
    BY <2>1, <2>2, <2>3, <2>4, <2>5 DEF InTurn, ReadInOrder, PassedRead, WaitsOn
<1>14. \A q \in Runs : HoldsLease(q)' => q = r
  BY <1>2 DEF HoldsLease
<1> QED
  BY <1>1, <1>2, <1>13, <1>14, TurnsSame

LEMMA TurnRead ==
  ASSUME SyncInv, TurnInv, NEW r \in Runs, Read(r)
  PROVE  TurnInv'
<1>1. order' = order /\ turns' = turns /\ cursor' = cursor /\ run[r].st = "reading"
  BY DEF Read
<1>2. PICK got : run' = [run EXCEPT ![r].st = "storing", ![r].got = got]
  BY DEF Read
<1>3. run \in [Runs -> RunRow] /\ run[r] \in RunRow
  BY DEF SyncInv, Types
<1>4. PICK row : row = [run[r] EXCEPT !.st = "storing", !.got = got]
  OBVIOUS
<1>5. run' = [run EXCEPT ![r] = row]
  BY <1>2, <1>4
<1>6. /\ row.chosen = run[r].chosen /\ row.at = run[r].at /\ row.from = run[r].from
      /\ row.done = run[r].done /\ row.waiting = run[r].waiting
  BY <1>3, <1>4 DEF RunRow
<1>7. run'[r] = row
  BY <1>3, <1>5
<1>8. HoldsLease(r)' => RunStays(r)
  BY <1>1, <1>6, <1>7 DEF HoldsLease, RunStays
<1>9. \A q \in Runs : q # r /\ HoldsLease(q)' => RunStays(q)
  BY <1>1, <1>5, OthersStay
<1> QED
  BY <1>1, <1>8, <1>9, TurnsSame

LEMMA TurnEnds ==
  ASSUME SyncInv, TurnInv, NEW r \in Runs, run' = [run EXCEPT ![r] = Idle],
         order' = order, turns' = turns, cursor' = cursor
  PROVE  TurnInv'
<1>1. ~HoldsLease(r)'
  <2>1. run'[r].st = "idle"
    BY DEF SyncInv, Types, Idle
  <2> QED
    BY <2>1 DEF HoldsLease
<1>2. \A q \in Runs : q # r /\ HoldsLease(q)' => RunStays(q)
  BY OthersStay
<1> QED
  BY <1>1, <1>2, TurnsSame

LEMMA TurnFinish ==
  ASSUME SyncInv, TurnInv, NEW r \in Runs, Finish(r)
  PROVE  TurnInv'
<1>1. /\ order' = order /\ run' = [run EXCEPT ![r] = Idle]
      /\ run[r].st = "reading" /\ Left(r) = <<>>
      /\ turns' = [o \in Orders |-> IF Mine(r) /\ o \in run[r].waiting THEN turns[o] + 1 ELSE turns[o]]
  BY DEF Finish
<1>2. turns \in [Orders -> Nat]
  BY DEF TurnInv, TurnsTyped
<1>3. CASE ~Mine(r)
  <2>1. cursor' = cursor
    BY <1>3 DEF Finish, Release
  <2>2. turns' = turns
    BY <1>1, <1>2, <1>3
  <2> QED
    BY <1>1, <2>1, <2>2, TurnEnds
<1>4. CASE Mine(r)
  <2>1. HoldsLease(r)
    BY <1>1, <1>4 DEF HoldsLease, Mine
  <2>2. cursor'.at.pos = Advanced(r, run[r].chosen) /\ cursor'.token = {}
    BY <1>4 DEF Finish, Release
  <2>3. PICK s, n : s = run[r].chosen /\ n = Len(s)
    OBVIOUS
  <2>4. s \in Seq(Orders) /\ n \in Nat /\ n <= run[r].done
    <3>1. s \in Seq(Orders)
      BY <2>3 DEF SyncInv, Types, RunRow
    <3>2. Len(Left(r)) = 0
      BY <1>1, EmptySeq
    <3>3. Len(Left(r)) = n - run[r].done /\ run[r].done \in Nat /\ n \in Nat
      BY <2>3, LeftIs
    <3> QED
      BY <3>1, <3>2, <3>3
  <2>5. turns' \in [Orders -> Nat]
    BY <1>1, <1>2
  <2>6. \A o \in Orders : \/ turns'[o] = turns[o]
                          \/ /\ turns'[o] = turns[o] + 1 /\ o \in run[r].waiting
                             /\ n = Len(run[r].chosen)
    BY <1>1, <2>3
  <2>7. \A i \in 1..n : s[i] = run[r].chosen[i]
    BY <2>3
  <2>8. cursor'.at.pos = Advanced(r, s)
    BY <2>2, <2>3
  <2> HIDE <1>4
  <2> QED
    BY <1>1, <2>1, <2>2, <2>3, <2>4, <2>5, <2>6, <2>7, <2>8, CursorMovesOn
<1> QED
  BY <1>3, <1>4

LEMMA TurnFail ==
  ASSUME SyncInv, TurnInv, NEW r \in Runs, Fail(r)
  PROVE  TurnInv'
<1>1. /\ order' = order /\ run' = [run EXCEPT ![r] = Idle] /\ turns' = turns
      /\ run[r].st = "reading" \/ run[r].st = "storing"
  BY DEF Fail
<1>2. CASE ~Mine(r)
  <2>1. cursor' = cursor
    BY <1>2 DEF Fail, Release
  <2> QED
    BY <1>1, <2>1, TurnEnds
<1>3. CASE Mine(r) /\ ~Ozon
  <2>1. HoldsLease(r)
    BY <1>1, <1>3 DEF HoldsLease, Mine
  <2>2. cursor'.at = run[r].from /\ cursor'.token = {}
    BY <1>3 DEF Fail, Release
  <2>3. cursor'.at = cursor.at
    BY <2>1, <2>2 DEF TurnInv, InTurn
  <2>4. \A q \in Runs : ~HoldsLease(q)'
    BY <2>2 DEF HoldsLease
  <2> QED
    BY <1>1, <2>3, <2>4, TurnsSame
<1>4. CASE Mine(r) /\ Ozon
  <2>1. HoldsLease(r)
    BY <1>1, <1>4 DEF HoldsLease, Mine
  <2>2. PICK c, n, s : c = run[r].chosen /\ n = run[r].done /\ s = SubSeq(c, 1, n)
    OBVIOUS
  <2>3. cursor'.at.pos = Advanced(r, s) /\ cursor'.token = {}
    <3>1. run[r].from \in Place
      BY DEF SyncInv, Types, RunRow
    <3>2. cursor'.at = [run[r].from EXCEPT !.pos = Advanced(r, s)] /\ cursor'.token = {}
      <4>1. PICK to : to = [run[r].from EXCEPT !.pos = Advanced(r, s)]
        OBVIOUS
      <4>2. Release(r, to)
        BY <1>4, <2>2, <4>1 DEF Fail
      <4> QED
        BY <1>4, <4>1, <4>2 DEF Release
    <3> QED
      BY <3>1, <3>2 DEF Place
  <2>4. Once(Known, c) /\ n \in Nat /\ n <= Len(c) /\ Len(c) \in Nat
    BY <2>2, LenProperties DEF SyncInv, Types, RunRow, Readings, RunSound, Once
  <2>5. s \in Seq(Orders) /\ Len(s) = n /\ \A i \in 1..n : s[i] = c[i]
    <3>1. \A i \in 1..n : c[i] \in Orders
      <4>1. \A i \in 1..Len(c) : c[i] \in Known
        BY <2>4, ElementOfSeq DEF Once
      <4>2. \A i \in 1..n : i \in 1..Len(c)
        BY <2>4
      <4> QED
        BY <4>1, <4>2, KnownIs
    <3>2. /\ s \in Seq(Orders) /\ Len(s) = (IF 1 <= n THEN n - 1 + 1 ELSE 0)
          /\ \A i \in 1..(n - 1 + 1) : s[i] = c[1 + i - 1]
      BY <2>2, <2>4, <3>1, SubSeqProperties
    <3> QED
      BY <2>4, <3>2
  <2>6. turns' \in [Orders -> Nat] /\ \A o \in Orders : turns'[o] = turns[o]
    BY <1>1 DEF TurnInv, TurnsTyped
  <2>7. n <= run[r].done /\ \A i \in 1..n : s[i] = run[r].chosen[i]
    BY <2>2, <2>4, <2>5
  <2> QED
    BY <1>1, <2>1, <2>3, <2>4, <2>5, <2>6, <2>7, CursorMovesOn
<1> QED
  BY <1>2, <1>3, <1>4

\* A stored status leaves all other orders alone, and no order unknown.
LEMMA StoredTurns ==
  ASSUME SyncInv, TurnInv, NEW S \in SUBSET Orders, NEW got, NEW force, StoreStatuses(S, got, force),
         turns' = [o \in Orders |-> IF o \in S THEN 0 ELSE turns[o]]
  PROVE  turns' \in [Orders -> Nat] /\ \A o \in Orders : TurnStays(o)
<1> DEFINE new == {o \in S : ~Journalled("status", o, got[o].val) \/ o \in force}
<1>1. PICK lane \in [S -> Lanes] :
        order' = [o \in Orders |->
             IF o \in new THEN Written(o, got[o], lane[o])
             ELSE IF o \in S THEN Kept(o, got[o], lane[o]) ELSE order[o]]
  BY DEF StoreStatuses
<1> HIDE DEF new
<1>2. ASSUME NEW o \in Orders
      PROVE  (o \notin S => order'[o] = order[o]) /\ order'[o].known = order[o].known
  <2>1. order[o] \in OrderRow
    BY OrderIs
  <2>2. PICK g, l : g = got[o] /\ l = lane[o]
    OBVIOUS
  <2>3. Written(o, g, l).known = order[o].known /\ Kept(o, g, l).known = order[o].known
    BY <2>1 DEF Written, Kept, OrderRow
  <2>4. order'[o] = Written(o, g, l) \/ order'[o] = Kept(o, g, l) \/ order'[o] = order[o]
    BY <1>1, <2>2 DEF Written, Kept
  <2>5. o \notin S => order'[o] = order[o]
    BY <1>1 DEF new
  <2> QED
    BY <2>3, <2>4, <2>5
<1>3. turns \in [Orders -> Nat]
  BY DEF TurnInv, TurnsTyped
<1>4. ASSUME NEW o \in Orders PROVE TurnStays(o)
  BY <1>2 DEF TurnStays
<1> QED
  BY <1>3, <1>4

LEMMA TurnStore ==
  ASSUME SyncInv, SyncInv', TurnInv, NEW r \in Runs, Store(r)
  PROVE  TurnInv'
<1> DEFINE n0 == IF Ozon THEN 1 ELSE Len(UpTo(Left(r), ChunkSize))
           S0 == ToSet(SubSeq(Left(r), 1, n0))
<1>1. PICK n, S : n = n0 /\ S = S0
  OBVIOUS
<1>2. PICK d, c : d = run[r].done /\ c = run[r].chosen
  OBVIOUS
<1>3. /\ run[r].st = "storing" /\ cursor' = cursor
      /\ StoreStatuses(S, run[r].got, {})
      /\ turns' = [o \in Orders |-> IF o \in S THEN 0 ELSE turns[o]]
  BY <1>1 DEF Store
<1>4. /\ n \in 1..Len(Left(r)) /\ S = {c[i] : i \in (d + 1)..(d + n)}
      /\ S \subseteq Known
  BY <1>1, <1>2, <1>3, PortionIs
<1>5. S \in SUBSET Orders
  BY <1>4, KnownIs
<1>6. turns' \in [Orders -> Nat] /\ \A o \in Orders : TurnStays(o)
  BY <1>3, <1>5, StoredTurns
<1>7. run[r] \in RunRow /\ run \in [Runs -> RunRow] /\ d \in Nat /\ n \in Nat /\ Len(c) \in Nat /\ d + n <= Len(c)
  BY <1>2, <1>4, LeftIs DEF SyncInv, Types
<1>8. ASSUME NEW q \in Runs, q # r, HoldsLease(q)' PROVE RunStays(q)
  <2>1. run'[q] = [run[q] EXCEPT !.waiting = Unmoved(@) \ S]
    BY <1>1, <1>8 DEF Store
  <2>2. PICK W : W = Unmoved(run[q].waiting) \ S
    OBVIOUS
  <2>3. run'[q] = [run[q] EXCEPT !.waiting = W] /\ run[q] \in RunRow
    BY <1>7, <2>1, <2>2
  <2>4. /\ run'[q].st = run[q].st /\ run'[q].chosen = run[q].chosen /\ run'[q].at = run[q].at
        /\ run'[q].from = run[q].from /\ run'[q].done = run[q].done /\ run'[q].waiting = W
    BY <2>3 DEF RunRow
  <2>5. \A o \in W : o \in run[q].waiting /\ order'[o].lane = order[o].lane
    BY <2>2 DEF Unmoved
  <2> QED
    BY <1>3, <1>8, <2>4, <2>5, RowStays
<1>9. ASSUME HoldsLease(r)' PROVE RunStays(r)
  <2>1. run'[r] = [[run[r] EXCEPT !.waiting = Unmoved(@) \ S] EXCEPT
                      !.done = @ + n,
                      !.got = [o \in Orders |-> IF o \in S THEN None ELSE @[o]],
                      !.st = IF Ozon \/ n = Len(Left(r)) THEN "reading" ELSE @]
    <3>1. run'[r] = [[run[r] EXCEPT !.waiting = Unmoved(@) \ S0] EXCEPT
                      !.done = @ + n0,
                      !.got = [o \in Orders |-> IF o \in S0 THEN None ELSE @[o]],
                      !.st = IF Ozon \/ n0 = Len(Left(r)) THEN "reading" ELSE @]
      BY DEF Store
    <3> QED
      BY <1>1, <3>1
  <2>2. PICK W : W = Unmoved(run[r].waiting) \ S
    OBVIOUS
  <2>3. PICK G : G = [o \in Orders |-> IF o \in S THEN None ELSE run[r].got[o]]
    OBVIOUS
  <2>4. PICK st : st = IF Ozon \/ n = Len(Left(r)) THEN "reading" ELSE run[r].st
    OBVIOUS
  <2>5. run'[r] = [run[r] EXCEPT !.waiting = W, !.done = d + n, !.got = G, !.st = st]
    BY <1>2, <1>7, <2>1, <2>2, <2>3, <2>4 DEF RunRow
  <2>6. /\ run'[r].chosen = c /\ run'[r].at = run[r].at
        /\ run'[r].from = run[r].from /\ run'[r].done = d + n /\ run'[r].waiting = W
    BY <1>2, <1>7, <2>5 DEF RunRow
  <2>7. HoldsLease(r)
    BY <1>3, <1>9 DEF HoldsLease
  <2>8. ASSUME NEW i \in 1..(d + n) PROVE i \in 1..d \/ c[i] \in S
    <3>1. i \in 1..d \/ i \in (d + 1)..(d + n)
      BY <1>7
    <3> QED
      BY <1>4, <3>1
  <2>9. \A i \in 1..(d + n) : i \in 1..d \/ turns'[c[i]] = 0
    BY <1>3, <1>5, <2>8
  <2>10. ASSUME NEW o \in W
         PROVE  /\ o \in run[r].waiting /\ order'[o].lane = order[o].lane
                /\ \A i \in 1..(d + n) : i \in 1..d \/ c[i] # o
    <3>1. o \in run[r].waiting /\ order'[o].lane = order[o].lane /\ o \notin S
      BY <2>2 DEF Unmoved
    <3> QED
      BY <2>8, <3>1
  <2> QED
    BY <1>2, <2>6, <2>7, <2>9, <2>10 DEF RunStays
<1>10. \A o \in Orders : order'[o].lane \in Lanes
  BY DEF SyncInv, Types
<1> QED
  BY <1>3, <1>6, <1>8, <1>9, <1>10, TurnsStay

\* A step outside the runs that stores.
LEMMA TurnOutside ==
  ASSUME SyncInv, SyncInv', TurnInv, cursor' = cursor, turns' \in [Orders -> Nat],
         \A o \in Orders : TurnStays(o),
         \A q \in Runs : \E W \in SUBSET run[q].waiting :
           /\ run'[q] = [run[q] EXCEPT !.waiting = W]
           /\ \A o \in W : order'[o].lane = order[o].lane
  PROVE  TurnInv'
<1>1. ASSUME NEW q \in Runs, HoldsLease(q)' PROVE RunStays(q)
  <2>1. PICK W \in SUBSET run[q].waiting :
           /\ run'[q] = [run[q] EXCEPT !.waiting = W]
           /\ \A o \in W : order'[o].lane = order[o].lane
    OBVIOUS
  <2>2. run[q] \in RunRow
    BY DEF SyncInv, Types
  <2>3. /\ run'[q].st = run[q].st /\ run'[q].chosen = run[q].chosen /\ run'[q].at = run[q].at
        /\ run'[q].from = run[q].from /\ run'[q].done = run[q].done /\ run'[q].waiting = W
    BY <2>1, <2>2 DEF RunRow
  <2> QED
    BY <1>1, <2>1, <2>3, RowStays
<1>2. \A o \in Orders : order'[o].lane \in Lanes
  BY DEF SyncInv, Types
<1> QED
  BY <1>1, <1>2, TurnsStay

LEMMA TurnWaveStore ==
  ASSUME SyncInv, SyncInv', TurnInv, WaveStore
  PROVE  TurnInv'
<1>1. PICK S : S = {o \in Orders : wave[o] # None}
  OBVIOUS
<1>2. /\ StoreStatuses(S, wave, S) /\ cursor' = cursor
      /\ turns' = [o \in Orders |-> IF o \in S THEN 0 ELSE turns[o]]
  BY <1>1 DEF WaveStore
<1>3. turns' \in [Orders -> Nat] /\ \A o \in Orders : TurnStays(o)
  BY <1>1, <1>2, StoredTurns
<1>4. ASSUME NEW q \in Runs
      PROVE  \E W \in SUBSET run[q].waiting :
               /\ run'[q] = [run[q] EXCEPT !.waiting = W]
               /\ \A o \in W : order'[o].lane = order[o].lane
  <2>1. run'[q] = [run[q] EXCEPT !.waiting = Unmoved(@) \ S]
    BY <1>1 DEF WaveStore
  <2>2. PICK W : W = Unmoved(run[q].waiting) \ S
    OBVIOUS
  <2>3. W \in SUBSET run[q].waiting /\ \A o \in W : order'[o].lane = order[o].lane
    BY <2>2 DEF Unmoved
  <2> QED
    BY <2>1, <2>2, <2>3
<1> QED
  BY <1>2, <1>3, <1>4, TurnOutside

LEMMA TurnPullStore ==
  ASSUME SyncInv, SyncInv', TurnInv, PullStore
  PROVE  TurnInv'
<1>1. /\ cursor' = cursor
      /\ turns' = [o \in Orders |-> IF o \in Unmoved(Orders) THEN turns[o] ELSE 0]
  BY DEF PullStore
<1>2. turns \in [Orders -> Nat]
  BY DEF TurnInv, TurnsTyped
<1>3. turns' \in [Orders -> Nat]
  BY <1>1, <1>2
<1>4. ASSUME NEW o \in Orders PROVE TurnStays(o)
  <2>1. turns'[o] = turns[o] \/ turns'[o] = 0
    BY <1>1
  <2>2. order'[o].lane # order[o].lane => turns'[o] = 0
    BY <1>1 DEF Unmoved
  <2>3. order[o].known => order'[o].known
    <3> DEFINE S == {p \in Orders : pull[p] # None}
               fresh == {p \in S : ~order[p].known \/ ~Journalled("order", p, pull[p].val)}
    <3>1. PICK lane \in [fresh -> Lanes] :
            order' = [p \in Orders |-> IF p \in fresh THEN [Written(p, pull[p], lane[p]) EXCEPT !.known = TRUE]
                                       ELSE order[p]]
      BY DEF PullStore
    <3> HIDE DEF fresh
    <3>2. order[o] \in OrderRow
      BY OrderIs
    <3>3. PICK g, l : g = pull[o] /\ l = lane[o]
      OBVIOUS
    <3>4. [Written(o, g, l) EXCEPT !.known = TRUE].known
      BY <3>2 DEF Written, OrderRow
    <3>5. order'[o] = [Written(o, g, l) EXCEPT !.known = TRUE] \/ order'[o] = order[o]
      BY <3>1, <3>3 DEF Written
    <3> QED
      BY <3>4, <3>5
  <2> QED
    BY <2>1, <2>2, <2>3 DEF TurnStays
<1>5. ASSUME NEW q \in Runs
      PROVE  \E W \in SUBSET run[q].waiting :
               /\ run'[q] = [run[q] EXCEPT !.waiting = W]
               /\ \A o \in W : order'[o].lane = order[o].lane
  <2>1. run'[q] = [run[q] EXCEPT !.waiting = Unmoved(@)]
    BY DEF PullStore
  <2>2. PICK W : W = Unmoved(run[q].waiting)
    OBVIOUS
  <2>3. W \in SUBSET run[q].waiting /\ \A o \in W : order'[o].lane = order[o].lane
    BY <2>2 DEF Unmoved
  <2> QED
    BY <2>1, <2>2, <2>3
<1> QED
  BY <1>1, <1>3, <1>4, <1>5, TurnOutside

LEMMA TurnMove ==
  ASSUME SyncInv, SyncInv', TurnInv, NEW o \in Orders, NEW l \in Lanes, Move(o, l)
  PROVE  TurnInv'
<1>1. /\ cursor' = cursor /\ turns' = [turns EXCEPT ![o] = 0]
      /\ order' = [order EXCEPT ![o].lane = l]
  BY DEF Move
<1>2. turns \in [Orders -> Nat] /\ order \in [Orders -> OrderRow]
  BY DEF TurnInv, TurnsTyped, SyncInv, Types, OrderRow
<1>3. turns' \in [Orders -> Nat]
  BY <1>1, <1>2
<1>4. ASSUME NEW p \in Orders
      PROVE  TurnStays(p) /\ (p # o => order'[p] = order[p])
  <2>1. order'[p].known = order[p].known /\ (p # o => order'[p] = order[p])
    BY <1>1, <1>2 DEF OrderRow
  <2>2. (p = o => turns'[p] = 0) /\ (p # o => turns'[p] = turns[p])
    BY <1>1, <1>2
  <2> QED
    BY <2>1, <2>2 DEF TurnStays
<1>5. ASSUME NEW q \in Runs
      PROVE  \E W \in SUBSET run[q].waiting :
               /\ run'[q] = [run[q] EXCEPT !.waiting = W]
               /\ \A p \in W : order'[p].lane = order[p].lane
  <2>1. run'[q] = [run[q] EXCEPT !.waiting = run[q].waiting \ {o}]
    BY DEF Move
  <2>2. PICK W : W = run[q].waiting \ {o}
    OBVIOUS
  <2>3. \A p \in W : p \in Orders /\ p # o
    BY <2>2 DEF SyncInv, Types, RunRow
  <2>4. \A p \in W : order'[p].lane = order[p].lane
    BY <1>4, <2>3
  <2> QED
    BY <2>1, <2>2, <2>4
<1> QED
  BY <1>1, <1>3, <1>4, <1>5, TurnOutside

LEMMA TurnElse ==
  ASSUME SyncInv, TurnInv, order' = order, turns' = turns, run' = run,
         cursor'.at = cursor.at, cursor'.token = cursor.token
  PROVE  TurnInv'
<1>1. \A q \in Runs : HoldsLease(q)' => RunStays(q)
  BY DEF HoldsLease, RunStays
<1> QED
  BY <1>1, TurnsSame

LEMMA TurnStep == SyncInv /\ SyncInv' /\ TurnInv /\ [Next]_vars => TurnInv'
<1> SUFFICES ASSUME SyncInv, SyncInv', TurnInv, [Next]_vars PROVE TurnInv'
  OBVIOUS
<1>1. ASSUME NEW r \in Runs, Crash(r) PROVE TurnInv'
  <2>1. /\ run' = [run EXCEPT ![r] = Idle] /\ order' = order /\ turns' = turns /\ cursor' = cursor
    BY <1>1 DEF Crash
  <2> QED
    BY <2>1, TurnEnds
<1>2. ASSUME NEW r \in Runs, RunStep(r) PROVE TurnInv'
  BY <1>1, <1>2, TurnStart, TurnRead, TurnStore, TurnFinish, TurnFail DEF RunStep
<1>3. CASE Expire
  <2>1. order' = order /\ turns' = turns /\ run' = run /\ cursor' = [cursor EXCEPT !.live = FALSE]
    BY <1>3 DEF Expire
  <2>2. cursor'.at = cursor.at /\ cursor'.token = cursor.token
    BY <2>1 DEF SyncInv, Types
  <2> QED
    BY <2>1, <2>2, TurnElse
<1>4. CASE PullStore
  BY <1>4, TurnPullStore
<1>5. CASE WaveStore
  BY <1>5, TurnWaveStore
<1>6. CASE PullRead \/ PullFails \/ WaveFails
  <2>1. order' = order /\ turns' = turns /\ run' = run /\ cursor' = cursor
    BY <1>6 DEF PullRead, PullFails, WaveFails
  <2> QED
    BY <2>1, TurnElse
<1>7. ASSUME NEW S \in (SUBSET Known) \ {{}}, WaveRead(S) PROVE TurnInv'
  <2>1. order' = order /\ turns' = turns /\ run' = run /\ cursor' = cursor
    BY <1>7 DEF WaveRead
  <2> QED
    BY <2>1, TurnElse
<1>8. ASSUME NEW o \in Orders, NEW v \in Values, Change(o, v) PROVE TurnInv'
  <2>1. order' = order /\ turns' = turns /\ run' = run /\ cursor' = cursor
    BY <1>8 DEF Change
  <2> QED
    BY <2>1, TurnElse
<1>9. ASSUME NEW o \in Orders, NEW l \in Lanes, Move(o, l) PROVE TurnInv'
  BY <1>9, TurnMove
<1>10. CASE UNCHANGED vars
  <2>1. order' = order /\ turns' = turns /\ run' = run /\ cursor' = cursor
    BY <1>10 DEF vars
  <2> QED
    BY <2>1, TurnElse
<1> QED
  BY <1>2, <1>3, <1>4, <1>5, <1>6, <1>7, <1>8, <1>9, <1>10 DEF Next

\* Each lane is read in turn: the runs that gave an order's lane a share since
\* the order was read last fit into one round of all the orders, whatever the
\* other lanes hold; for any number of orders and of runs, however many of the
\* runs fail, die or lose their lease, and however large a run is.
THEOREM SyncLaneTurns == Spec => []LaneTurns
<1>1. Init => SyncInv /\ TurnInv
  BY SyncInit, TurnInit
<1>2. (SyncInv /\ TurnInv) /\ [Next]_vars => (SyncInv /\ TurnInv)'
  BY SyncStep, TurnStep
<1>3. SyncInv /\ TurnInv => LaneTurns
  <2> SUFFICES ASSUME SyncInv, TurnInv, NEW o \in Known, NEW pass \in 0..9
               PROVE  turns[o] * Share(order[o].lane, pass) < Cardinality(Orders)
    BY DEF LaneTurns
  <2>1. o \in Orders
    BY DEF Known
  <2>2. PICK l \in Lanes : l = order[o].lane
    BY <2>1, PosIs DEF SyncInv
  <2>3. PICK t, u, N, A, k :
          /\ t = Turn(l) /\ u = turns[o] /\ N = Cardinality(Orders) /\ k = Share(l, pass)
          /\ A = Cardinality(Ahead(cursor.at.pos[l], o))
    OBVIOUS
  <2>4. A \in 1..N /\ N \in Nat
    BY <2>1, <2>2, <2>3, PosIs, AheadIs DEF SyncInv
  <2>5. u \in Nat /\ t \in Nat /\ (k = 0 \/ k = t)
    BY <2>1, <2>3, TurnIs DEF TurnInv, TurnsTyped
  <2>6. u * t + A <= N
    BY <2>1, <2>2, <2>3 DEF TurnInv, Booked
  <2>7. u * k < N
    <3>1. CASE k = 0
      BY <2>4, <2>5, <3>1
    <3>2. CASE k = t
      <4>1. PICK ut : ut = u * t
        OBVIOUS
      <4>2. ut \in Nat /\ ut + A <= N
        BY <2>5, <2>6, <4>1
      <4> QED
        BY <2>4, <3>2, <4>1, <4>2
    <3> QED
      BY <2>5, <3>1, <3>2
  <2> QED
    BY <2>2, <2>3, <2>7
<1> QED
  BY <1>1, <1>2, <1>3, PTL DEF Spec

==============================================================================
