------------------------------- MODULE FbsSums -------------------------------
(***************************************************************************)
(* Sums of functions over finite sets (SumFunction and SumFunctionOnSet):  *)
(* what they are on a set with one more element, and how they change with  *)
(* one value.                                                              *)
(***************************************************************************)
EXTENDS Integers, FiniteSets, Functions, FiniteSetTheorems,
        WellFoundedInduction, TLAPS

-----------------------------------------------------------------------------
(***************************************************************************)
(* Induction.  A property is given as the set of what has it, which the    *)
(* provers can instantiate.                                                *)
(***************************************************************************)

\* The least-number principle.
LEMMA LeastNumber ==
  ASSUME NEW S \in SUBSET Nat, S # {}
  PROVE  \E n \in S : \A m \in S : n <= m
<1> DEFINE R == {ss \in Nat \X Nat : ss[1] < ss[2]}
<1>1. IsWellFoundedOn(R, Nat)
  BY NatLessThanWellFounded DEF OpToRel
<1>2. \A m, n \in Nat : m < n => <<m, n>> \in R
  OBVIOUS
<1> HIDE DEF R
<1>3. PICK n \in S : \A m \in S : ~(<<m, n>> \in R)
  BY <1>1, WFMin
<1>4. \A m \in S : ~(m < n) /\ m \in Nat /\ n \in Nat
  BY <1>2, <1>3
<1> QED  BY <1>4

\* Induction on a natural number.
LEMMA Stepwise ==
  ASSUME NEW A \in SUBSET Nat, 0 \in A, \A n \in A : n + 1 \in A
  PROVE  \A n \in Nat : n \in A
<1>1. SUFFICES ASSUME Nat \ A # {}  PROVE FALSE
  OBVIOUS
<1>2. PICK n \in Nat \ A : \A m \in Nat \ A : n <= m
  BY <1>1, LeastNumber
<1>3. n - 1 \in Nat /\ n - 1 \notin Nat \ A
  BY <1>2
<1>4. (n - 1) + 1 \in A /\ (n - 1) + 1 = n
  BY <1>2, <1>3
<1> QED  BY <1>2, <1>4

\* Induction on the subsets of a finite set: whatever holds of a set when it
\* holds of the set less any one element holds of all.
LEMMA BySmallerSets ==
  ASSUME NEW S, IsFiniteSet(S), NEW A,
         \A T \in SUBSET S : (\A x \in T : T \ {x} \in A) => T \in A
  PROVE  \A T \in SUBSET S : T \in A
<1> DEFINE Bad == {k \in Nat : \E T \in SUBSET S :
                                 Cardinality(T) = k /\ T \notin A}
<1>1. \A T \in SUBSET S : IsFiniteSet(T) /\ Cardinality(T) \in Nat
  BY FS_Subset, FS_CardinalityType
<1>2. SUFFICES ASSUME Bad # {}  PROVE FALSE
  BY <1>1
<1>3. Bad \in SUBSET Nat
  OBVIOUS
<1>4. PICK k \in Bad : \A m \in Bad : k <= m
  BY ONLY <1>2, <1>3, LeastNumber
<1>5. PICK T \in SUBSET S : Cardinality(T) = k /\ T \notin A
  BY <1>4
<1>6. PICK x \in T : T \ {x} \notin A
  BY <1>5
<1> DEFINE U == T \ {x}
<1>7. U \in SUBSET S /\ U \notin A /\ IsFiniteSet(T) /\ k \in Nat
  BY <1>1, <1>5, <1>6
<1>8. Cardinality(U) = k - 1
  BY ONLY <1>5, <1>6, <1>7, FS_RemoveElement
<1>9. Cardinality(U) \in Bad
  BY <1>1, <1>7
<1> HIDE DEF Bad, U
<1> QED  BY <1>4, <1>7, <1>8, <1>9

\* Induction on a finite set, one element after the other.
LEMMA OneByOne ==
  ASSUME NEW S, IsFiniteSet(S), NEW A, {} \in A,
         \A T \in SUBSET S : \A x \in S \ T : T \in A => T \cup {x} \in A
  PROVE  S \in A
<1>1. \A T \in SUBSET S : (\A x \in T : T \ {x} \in A) => T \in A
  <2> SUFFICES ASSUME NEW T \in SUBSET S, \A x \in T : T \ {x} \in A
               PROVE  T \in A
    OBVIOUS
  <2>1. CASE T = {}
    BY <2>1
  <2>2. CASE T # {}
    <3>1. PICK x \in T : TRUE
      BY <2>2
    <3>2. T \ {x} \in SUBSET S /\ x \in S \ (T \ {x})
      BY <3>1
    <3>3. (T \ {x}) \cup {x} = T
      BY <3>1
    <3>4. T \ {x} \in A
      BY <3>1
    <3> QED  BY <3>2, <3>3, <3>4
  <2> QED  BY <2>1, <2>2
<1>2. \A T \in SUBSET S : T \in A
  BY ONLY <1>1, IsFiniteSet(S), BySmallerSets
<1>3. S \in SUBSET S
  OBVIOUS
<1> QED  BY ONLY <1>2, <1>3

-----------------------------------------------------------------------------
(***************************************************************************)
(* The recursion behind SumFunctionOnSet.                                  *)
(***************************************************************************)

First(s) == CHOOSE x \in s : TRUE

\* One step of the recursion, with the sums of smaller sets in g.
Step(f, g, s) == IF s = {} THEN 0 ELSE f[First(s)] + g[s \ {First(s)}]

\* g holds the sums of f over the subsets of S.
Sums(f, S, g) == g = [s \in SUBSET S |-> Step(f, g, s)]

LEMMA SumIsRecursive ==
  ASSUME NEW f, NEW S
  PROVE  SumFunctionOnSet(f, S) = (CHOOSE g : Sums(f, S, g))[S]
BY DEF SumFunctionOnSet, FoldFunctionOnSet, MapThenFoldSet, Sums, Step, First

LEMMA FirstIn == \A s : s # {} => First(s) \in s
BY DEF First

\* The recursion has a solution on a finite set.
LEMMA SumsExist ==
  ASSUME NEW f, NEW S, IsFiniteSet(S)
  PROVE  \E g : Sums(f, S, g)
<1> DEFINE D(n) == {s \in SUBSET S : Cardinality(s) <= n}
           UpTo(n, g) == g = [s \in D(n) |-> Step(f, g, s)]
           A == {n \in Nat : \E g : UpTo(n, g)}
<1>1. \A T \in SUBSET S : IsFiniteSet(T) /\ Cardinality(T) \in Nat
  BY FS_Subset, FS_CardinalityType
<1>2. \A n \in Nat : \A s \in D(n + 1) : s # {} => s \ {First(s)} \in D(n)
  <2> SUFFICES ASSUME NEW n \in Nat, NEW s \in D(n + 1), s # {}
               PROVE  s \ {First(s)} \in D(n)
    OBVIOUS
  <2>1. First(s) \in s /\ s \in SUBSET S /\ Cardinality(s) <= n + 1
    BY FirstIn
  <2>2. Cardinality(s \ {First(s)}) = Cardinality(s) - 1
    BY <1>1, <2>1, FS_RemoveElement
  <2>3. s \ {First(s)} \in SUBSET S /\ Cardinality(s) \in Nat
    BY <1>1, <2>1
  <2> QED  BY <2>1, <2>2, <2>3
<1>3. 0 \in A
  <2>1. \A s \in D(0) : s = {}
    BY <1>1, FS_EmptySet
  <2>2. UpTo(0, [s \in D(0) |-> 0])
    BY <2>1 DEF Step
  <2> QED  BY <2>2
<1>4. \A n \in A : n + 1 \in A
  <2> SUFFICES ASSUME NEW n \in A  PROVE n + 1 \in A
    OBVIOUS
  <2>1. PICK g : UpTo(n, g)
    OBVIOUS
  <2> DEFINE h == [s \in D(n + 1) |-> Step(f, g, s)]
  <2>2. n \in Nat /\ D(n) \subseteq D(n + 1)
    BY <1>1
  <2>3. \A s \in D(n) : g[s] = Step(f, g, s)
    BY <2>1
  <2>4. \A s \in D(n) : h[s] = g[s]
    BY <2>2, <2>3
  <2>5. \A s \in D(n + 1) : Step(f, h, s) = Step(f, g, s)
    <3> SUFFICES ASSUME NEW s \in D(n + 1)  PROVE Step(f, h, s) = Step(f, g, s)
      OBVIOUS
    <3>1. CASE s = {}
      BY <3>1 DEF Step
    <3>2. CASE s # {}
      <4>1. s \ {First(s)} \in D(n)
        BY <1>2, <2>2, <3>2
      <4>2. h[s \ {First(s)}] = g[s \ {First(s)}]
        BY <2>4, <4>1
      <4> HIDE DEF h
      <4> QED  BY <3>2, <4>2 DEF Step
    <3> QED  BY <3>1, <3>2
  <2>6. h = [s \in D(n + 1) |-> Step(f, h, s)]
    <3>1. h = [s \in D(n + 1) |-> Step(f, g, s)]
      OBVIOUS
    <3> HIDE DEF h, D
    <3> QED  BY <2>5, <3>1
  <2>7. UpTo(n + 1, h)
    BY <2>6
  <2> HIDE DEF h, UpTo
  <2> QED  BY <2>2, <2>7
<1>5. \A n \in Nat : n \in A
  <2>1. A \in SUBSET Nat
    OBVIOUS
  <2> HIDE DEF A
  <2> QED  BY <1>3, <1>4, <2>1, Stepwise
<1>6. PICK g : UpTo(Cardinality(S), g)
  BY <1>1, <1>5
<1>7. D(Cardinality(S)) = SUBSET S
  BY FS_Subset
<1> QED  BY <1>6, <1>7 DEF Sums

\* A solution holds the sum of every subset.
LEMMA SumsAreSums ==
  ASSUME NEW f, NEW S, IsFiniteSet(S), NEW g, Sums(f, S, g),
         NEW T \in SUBSET S
  PROVE  SumFunctionOnSet(f, T) = g[T]
<1>1. IsFiniteSet(T)
  BY FS_Subset
<1>2. PICK h : Sums(f, T, h) /\ SumFunctionOnSet(f, T) = h[T]
  BY <1>1, SumsExist, SumIsRecursive
<1> DEFINE A == {U \in SUBSET T : h[U] = g[U]}
<1>3. \A U \in SUBSET T : (\A x \in U : U \ {x} \in A) => U \in A
  <2> SUFFICES ASSUME NEW U \in SUBSET T, \A x \in U : U \ {x} \in A
               PROVE  h[U] = g[U]
    OBVIOUS
  <2>1. h[U] = Step(f, h, U) /\ g[U] = Step(f, g, U)
    BY <1>2 DEF Sums
  <2>2. CASE U = {}
    BY <2>1, <2>2 DEF Step
  <2>3. CASE U # {}
    <3>1. h[U \ {First(U)}] = g[U \ {First(U)}]
      BY <2>3, FirstIn
    <3> QED  BY <2>1, <2>3, <3>1 DEF Step
  <2> QED  BY <2>2, <2>3
<1>4. T \in A
  <2> HIDE DEF A
  <2> QED  BY <1>1, <1>3, BySmallerSets
<1> QED  BY <1>2, <1>4

-----------------------------------------------------------------------------
(***************************************************************************)
(* Sums of integers.                                                       *)
(***************************************************************************)

LEMMA SumOfNothing ==
  ASSUME NEW f
  PROVE  SumFunctionOnSet(f, {}) = 0
<1>1. IsFiniteSet({})
  BY FS_EmptySet
<1>2. PICK g : Sums(f, {}, g)
  BY <1>1, SumsExist
<1>3. SumFunctionOnSet(f, {}) = g[{}]
  BY <1>1, <1>2, SumsAreSums
<1> QED  BY <1>2, <1>3 DEF Sums, Step

LEMMA SumIsInt ==
  ASSUME NEW f, NEW S, IsFiniteSet(S), \A x \in S : f[x] \in Int
  PROVE  SumFunctionOnSet(f, S) \in Int
<1>1. PICK g : Sums(f, S, g)
  BY SumsExist
<1> DEFINE A == {T \in SUBSET S : g[T] \in Int}
<1>2. \A T \in SUBSET S : (\A x \in T : T \ {x} \in A) => T \in A
  <2> SUFFICES ASSUME NEW T \in SUBSET S, \A x \in T : T \ {x} \in A
               PROVE  g[T] \in Int
    OBVIOUS
  <2>1. g[T] = Step(f, g, T)
    BY <1>1 DEF Sums
  <2>2. CASE T = {}
    BY <2>1, <2>2 DEF Step
  <2>3. CASE T # {}
    <3>1. First(T) \in T
      BY <2>3, FirstIn
    <3>2. g[T \ {First(T)}] \in Int /\ f[First(T)] \in Int
      BY <3>1
    <3> QED  BY <2>1, <2>3, <3>2 DEF Step
  <2> QED  BY <2>2, <2>3
<1>3. S \in A
  <2> HIDE DEF A
  <2>1. \A T \in SUBSET S : T \in A
    BY <1>2, BySmallerSets
  <2> QED  BY <2>1
<1> QED  BY <1>1, <1>3, SumsAreSums

\* Any element may be counted first.
LEMMA SumWithout ==
  ASSUME NEW f, NEW S, IsFiniteSet(S), \A x \in S : f[x] \in Int,
         NEW x \in S
  PROVE  SumFunctionOnSet(f, S) = f[x] + SumFunctionOnSet(f, S \ {x})
<1> DEFINE Total(T) == SumFunctionOnSet(f, T)
           A == {T \in SUBSET S :
                   \A y \in T : Total(T) = f[y] + Total(T \ {y})}
<1>1. PICK g : Sums(f, S, g)
  BY SumsExist
<1>2. \A T \in SUBSET S : Total(T) = g[T] /\ Total(T) \in Int
  <2> SUFFICES ASSUME NEW T \in SUBSET S
               PROVE  Total(T) = g[T] /\ Total(T) \in Int
    OBVIOUS
  <2>1. IsFiniteSet(T) /\ \A y \in T : f[y] \in Int
    BY FS_Subset
  <2> QED  BY <1>1, <2>1, SumsAreSums, SumIsInt
<1>3. \A T \in SUBSET S :
        T # {} => Total(T) = f[First(T)] + Total(T \ {First(T)})
  <2> SUFFICES ASSUME NEW T \in SUBSET S, T # {}
               PROVE  Total(T) = f[First(T)] + Total(T \ {First(T)})
    OBVIOUS
  <2>1. g[T] = Step(f, g, T)
    BY <1>1 DEF Sums
  <2>2. T \ {First(T)} \in SUBSET S
    OBVIOUS
  <2> HIDE DEF Total
  <2> QED  BY <1>2, <2>1, <2>2 DEF Step
<1> HIDE DEF Total
<1>4. \A T \in SUBSET S : (\A y \in T : T \ {y} \in A) => T \in A
  <2> SUFFICES ASSUME NEW T \in SUBSET S, \A y \in T : T \ {y} \in A,
                      NEW y \in T
               PROVE  Total(T) = f[y] + Total(T \ {y})
    OBVIOUS
  <2> DEFINE z == First(T)
  <2>1. z \in T /\ Total(T) = f[z] + Total(T \ {z})
    BY <1>3, FirstIn
  <2> HIDE DEF z
  <2>2. CASE y = z
    BY <2>1, <2>2
  <2>3. CASE y # z
    <3>1. Total(T \ {z}) = f[y] + Total((T \ {z}) \ {y})
      BY <2>1, <2>3
    <3>2. Total(T \ {y}) = f[z] + Total((T \ {y}) \ {z})
      BY <2>1, <2>3
    <3>3. (T \ {z}) \ {y} = (T \ {y}) \ {z}
      OBVIOUS
    <3>4. PICK r \in Int : r = Total((T \ {y}) \ {z})
      BY <1>2
    <3>5. f[y] \in Int /\ f[z] \in Int
      BY <2>1
    <3>6. Total(T \ {z}) = f[y] + r /\ Total(T \ {y}) = f[z] + r
      BY <3>1, <3>2, <3>3, <3>4
    <3> QED  BY ONLY <2>1, <3>4, <3>5, <3>6
  <2> QED  BY <2>2, <2>3
<1>5. S \in A
  <2> HIDE DEF A
  <2>1. \A T \in SUBSET S : T \in A
    BY <1>4, BySmallerSets
  <2> QED  BY <2>1
<1> QED  BY <1>5 DEF Total

\* A set with one more element.
LEMMA SumWith ==
  ASSUME NEW f, NEW S, IsFiniteSet(S), NEW x, x \notin S,
         \A y \in S \cup {x} : f[y] \in Int
  PROVE  SumFunctionOnSet(f, S \cup {x}) = f[x] + SumFunctionOnSet(f, S)
<1>1. IsFiniteSet(S \cup {x})
  BY FS_AddElement
<1>2. (S \cup {x}) \ {x} = S
  OBVIOUS
<1>3. x \in S \cup {x}
  OBVIOUS
<1>4. SumFunctionOnSet(f, S \cup {x})
        = f[x] + SumFunctionOnSet(f, (S \cup {x}) \ {x})
  BY <1>1, <1>3, SumWithout
<1> QED  BY <1>2, <1>4

\* Functions that agree on a set have the same sum over it.
LEMMA SameSum ==
  ASSUME NEW f, NEW g, NEW S, IsFiniteSet(S),
         \A x \in S : f[x] \in Int /\ f[x] = g[x]
  PROVE  SumFunctionOnSet(f, S) = SumFunctionOnSet(g, S)
<1> DEFINE A == {T \in SUBSET S : SumFunctionOnSet(f, T) = SumFunctionOnSet(g, T)}
<1>1. {} \in A
  BY SumOfNothing
<1>2. \A T \in SUBSET S : \A x \in S \ T : T \in A => T \cup {x} \in A
  <2> SUFFICES ASSUME NEW T \in SUBSET S, NEW x \in S \ T, T \in A
               PROVE  T \cup {x} \in A
    OBVIOUS
  <2>1. IsFiniteSet(T) /\ \A y \in T \cup {x} : f[y] \in Int /\ g[y] \in Int
    BY FS_Subset
  <2>2. /\ SumFunctionOnSet(f, T \cup {x}) = f[x] + SumFunctionOnSet(f, T)
        /\ SumFunctionOnSet(g, T \cup {x}) = g[x] + SumFunctionOnSet(g, T)
    BY <2>1, SumWith
  <2> QED  BY <2>2
<1>3. S \in A
  <2> HIDE DEF A
  <2> QED  BY <1>1, <1>2, OneByOne
<1> QED  BY <1>3

\* The sum of sums.
LEMMA SumAdds ==
  ASSUME NEW f, NEW g, NEW h, NEW S, IsFiniteSet(S),
         \A x \in S : f[x] \in Int /\ g[x] \in Int /\ h[x] = f[x] + g[x]
  PROVE  SumFunctionOnSet(h, S) = SumFunctionOnSet(f, S) + SumFunctionOnSet(g, S)
<1> DEFINE A == {T \in SUBSET S : SumFunctionOnSet(h, T)
                       = SumFunctionOnSet(f, T) + SumFunctionOnSet(g, T)}
<1>1. {} \in A
  BY SumOfNothing
<1>2. \A T \in SUBSET S : \A x \in S \ T : T \in A => T \cup {x} \in A
  <2> SUFFICES ASSUME NEW T \in SUBSET S, NEW x \in S \ T, T \in A
               PROVE  T \cup {x} \in A
    OBVIOUS
  <2>1. IsFiniteSet(T) /\ \A y \in T \cup {x} :
          f[y] \in Int /\ g[y] \in Int /\ h[y] \in Int
    BY FS_Subset
  <2>2. /\ SumFunctionOnSet(f, T \cup {x}) = f[x] + SumFunctionOnSet(f, T)
        /\ SumFunctionOnSet(g, T \cup {x}) = g[x] + SumFunctionOnSet(g, T)
        /\ SumFunctionOnSet(h, T \cup {x}) = h[x] + SumFunctionOnSet(h, T)
    BY <2>1, SumWith
  <2>3. PICK a \in Int : a = SumFunctionOnSet(f, T)
    BY <2>1, SumIsInt
  <2>4. PICK b \in Int : b = SumFunctionOnSet(g, T)
    BY <2>1, SumIsInt
  <2>5. SumFunctionOnSet(h, T) = a + b /\ h[x] = f[x] + g[x]
        /\ f[x] \in Int /\ g[x] \in Int
    BY <2>3, <2>4
  <2>6. SumFunctionOnSet(h, T \cup {x})
          = SumFunctionOnSet(f, T \cup {x}) + SumFunctionOnSet(g, T \cup {x})
    BY ONLY <2>2, <2>3, <2>4, <2>5
  <2> QED  BY <2>6
<1>3. S \in A
  <2> HIDE DEF A
  <2> QED  BY <1>1, <1>2, OneByOne
<1> QED  BY <1>3

\* Where nothing is negative, neither is the sum, and it is no less than any
\* of the values.
LEMMA SumIsNat ==
  ASSUME NEW f, NEW S, IsFiniteSet(S), \A x \in S : f[x] \in Nat
  PROVE  /\ SumFunctionOnSet(f, S) \in Nat
         /\ \A x \in S : f[x] <= SumFunctionOnSet(f, S)
<1> DEFINE A == {T \in SUBSET S : SumFunctionOnSet(f, T) \in Nat}
<1>1. {} \in A
  BY SumOfNothing
<1>2. \A T \in SUBSET S : \A x \in S \ T : T \in A => T \cup {x} \in A
  <2> SUFFICES ASSUME NEW T \in SUBSET S, NEW x \in S \ T, T \in A
               PROVE  T \cup {x} \in A
    OBVIOUS
  <2>1. IsFiniteSet(T) /\ \A y \in T \cup {x} : f[y] \in Int
    BY FS_Subset
  <2>2. SumFunctionOnSet(f, T \cup {x}) = f[x] + SumFunctionOnSet(f, T)
    BY <2>1, SumWith
  <2> QED  BY <2>2
<1>3. \A T \in SUBSET S : SumFunctionOnSet(f, T) \in Nat
  <2> SUFFICES ASSUME NEW T \in SUBSET S  PROVE T \in A
    OBVIOUS
  <2>1. IsFiniteSet(T)
    BY FS_Subset
  <2>2. \A U \in SUBSET T : \A x \in T \ U : U \in A => U \cup {x} \in A
    <3> HIDE DEF A
    <3> QED  BY <1>2
  <2> HIDE DEF A
  <2> QED  BY <1>1, <2>1, <2>2, OneByOne
<1>4. ASSUME NEW x \in S  PROVE f[x] <= SumFunctionOnSet(f, S)
  <2>1. \A y \in S : f[y] \in Int
    OBVIOUS
  <2>2. SumFunctionOnSet(f, S) = f[x] + SumFunctionOnSet(f, S \ {x})
    BY <2>1, SumWithout
  <2>3. SumFunctionOnSet(f, S \ {x}) \in Nat
    BY <1>3
  <2> QED  BY <2>2, <2>3
<1> QED  BY <1>3, <1>4

LEMMA SumOfZeros ==
  ASSUME NEW f, NEW S, IsFiniteSet(S), \A x \in S : f[x] = 0
  PROVE  SumFunctionOnSet(f, S) = 0
<1>1. ASSUME NEW n \in Int, n = n + n  PROVE n = 0
  BY ONLY <1>1
<1>2. PICK v \in Int : v = SumFunctionOnSet(f, S)
  BY SumIsInt
<1>3. \A x \in S : f[x] = f[x] + f[x]
  OBVIOUS
<1>4. SumFunctionOnSet(f, S) = SumFunctionOnSet(f, S) + SumFunctionOnSet(f, S)
  BY SumAdds, <1>3
<1>5. v = v + v
  BY ONLY <1>2, <1>4
<1>6. v = 0
  BY ONLY <1>1, <1>5, v \in Int
<1> QED  BY ONLY <1>2, <1>6

\* One value changed.
LEMMA SumChanged ==
  ASSUME NEW f, NEW g, NEW S, IsFiniteSet(S), NEW x \in S,
         \A y \in S : f[y] \in Int, g[x] \in Int,
         \A y \in S : y # x => g[y] = f[y]
  PROVE  SumFunctionOnSet(g, S) = SumFunctionOnSet(f, S) - f[x] + g[x]
<1>1. \A y \in S : g[y] \in Int
  OBVIOUS
<1>2. /\ SumFunctionOnSet(f, S) = f[x] + SumFunctionOnSet(f, S \ {x})
      /\ SumFunctionOnSet(g, S) = g[x] + SumFunctionOnSet(g, S \ {x})
  BY <1>1, SumWithout
<1>3. IsFiniteSet(S \ {x})
  BY FS_Subset
<1>4. SumFunctionOnSet(f, S \ {x}) = SumFunctionOnSet(g, S \ {x})
  <2>1. \A y \in S \ {x} : f[y] \in Int /\ f[y] = g[y]
    OBVIOUS
  <2> QED  BY <1>3, <2>1, SameSum
<1>5. SumFunctionOnSet(f, S \ {x}) \in Int
  BY <1>3, SumIsInt
<1>6. f[x] \in Int
  OBVIOUS
<1> QED  BY ONLY <1>2, <1>4, <1>5, <1>6, g[x] \in Int

\* Elements without a value may be left out.
LEMMA SumOverSome ==
  ASSUME NEW f, NEW S, IsFiniteSet(S), NEW T \in SUBSET S,
         \A x \in S : f[x] \in Int, \A x \in S \ T : f[x] = 0
  PROVE  SumFunctionOnSet(f, S) = SumFunctionOnSet(f, T)
<1> DEFINE R == S \ T
           A == {U \in SUBSET R : SumFunctionOnSet(f, T \cup U) = SumFunctionOnSet(f, T)}
<1>1. {} \in A
  OBVIOUS
<1>2. \A U \in SUBSET R : \A x \in R \ U : U \in A => U \cup {x} \in A
  <2> SUFFICES ASSUME NEW U \in SUBSET R, NEW x \in R \ U, U \in A
               PROVE  U \cup {x} \in A
    OBVIOUS
  <2>1. /\ IsFiniteSet(T \cup U) /\ x \notin T \cup U
        /\ \A y \in (T \cup U) \cup {x} : f[y] \in Int
    BY FS_Subset
  <2>2. SumFunctionOnSet(f, (T \cup U) \cup {x}) = f[x] + SumFunctionOnSet(f, T \cup U)
    BY <2>1, SumWith
  <2>3. (T \cup U) \cup {x} = T \cup (U \cup {x}) /\ f[x] = 0
    OBVIOUS
  <2>4. SumFunctionOnSet(f, T) \in Int
    BY FS_Subset, SumIsInt
  <2>5. SumFunctionOnSet(f, T \cup (U \cup {x})) = SumFunctionOnSet(f, T)
    <3>1. SumFunctionOnSet(f, T \cup U) = SumFunctionOnSet(f, T)
      OBVIOUS
    <3> QED  BY ONLY <2>2, <2>3, <2>4, <3>1
  <2> QED  BY <2>5
<1>3. R \in A
  <2>1. IsFiniteSet(R)
    BY FS_Subset
  <2> HIDE DEF A, R
  <2> QED  BY <1>1, <1>2, <2>1, OneByOne
<1>4. T \cup R = S
  OBVIOUS
<1> QED  BY <1>3, <1>4

\* Only one element has a value.
LEMMA SumOfOne ==
  ASSUME NEW f, NEW S, IsFiniteSet(S), NEW x \in S, f[x] \in Int,
         \A y \in S \ {x} : f[y] = 0
  PROVE  SumFunctionOnSet(f, S) = f[x]
<1>1. \A y \in S : f[y] \in Int
  OBVIOUS
<1>2. SumFunctionOnSet(f, S) = f[x] + SumFunctionOnSet(f, S \ {x})
  BY <1>1, SumWithout
<1>3. SumFunctionOnSet(f, S \ {x}) = 0
  BY FS_Subset, SumOfZeros
<1> QED  BY <1>2, <1>3

\* What is smaller everywhere has a smaller sum, and an equal one only when it
\* is equal everywhere.
LEMMA SumOrdered ==
  ASSUME NEW f, NEW g, NEW S, IsFiniteSet(S),
         \A x \in S : f[x] \in Int /\ g[x] \in Int /\ f[x] <= g[x]
  PROVE  /\ SumFunctionOnSet(f, S) <= SumFunctionOnSet(g, S)
         /\ SumFunctionOnSet(f, S) = SumFunctionOnSet(g, S)
              => \A x \in S : f[x] = g[x]
<1> DEFINE d == [x \in S |-> g[x] - f[x]]
<1>1. \A x \in S : d[x] \in Nat /\ d[x] \in Int /\ g[x] = f[x] + d[x]
  OBVIOUS
<1> HIDE DEF d
<1>2. SumFunctionOnSet(g, S) = SumFunctionOnSet(f, S) + SumFunctionOnSet(d, S)
  BY <1>1, SumAdds
<1>3. PICK n \in Nat : n = SumFunctionOnSet(d, S) /\ \A x \in S : d[x] <= n
  BY <1>1, SumIsNat
<1>4. PICK m \in Int : m = SumFunctionOnSet(f, S)
  BY SumIsInt
<1>5. SumFunctionOnSet(f, S) <= SumFunctionOnSet(g, S)
  BY <1>2, <1>3, <1>4
<1>6. ASSUME SumFunctionOnSet(f, S) = SumFunctionOnSet(g, S)
      PROVE  \A x \in S : f[x] = g[x]
  <2>1. n = 0
    BY <1>2, <1>3, <1>4, <1>6
  <2>2. \A x \in S : d[x] = 0
    BY <1>1, <1>3, <2>1
  <2> QED  BY <1>1, <2>2
<1> QED  BY <1>5, <1>6
=============================================================================
