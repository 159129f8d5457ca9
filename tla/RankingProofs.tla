--------------------------- MODULE RankingProofs ---------------------------
(***************************************************************************)
(* Lemmas about the prefix of a sorted slice, for every finite set and     *)
(* every strict order, about sums over a finite set, and about loops.      *)
(* They are what the bounds of ToolGraph, TermWindow and Session rest on,  *)
(* the totals the graph carries, and the pass of Pass.                     *)
(***************************************************************************)
EXTENDS Ranking, Sequences, TLAPS, FiniteSetTheorems, FunctionTheorems

(* Two different elements have a different number of elements before them: *)
(* an index into the sorted slice names one element.                       *)
LEMMA RankInjective ==
  ASSUME NEW S, IsFiniteSet(S), NEW order, StrictOrderOn(S, order),
         NEW x \in S, NEW y \in S, <<x, y>> \in order
  PROVE  Cardinality(Ahead(S, order, x)) < Cardinality(Ahead(S, order, y))
<1>1. Ahead(S, order, x) \subseteq Ahead(S, order, y)
  BY DEF Ahead, StrictOrderOn
<1>2. x \in Ahead(S, order, y) /\ x \notin Ahead(S, order, x)
  BY DEF Ahead, StrictOrderOn
<1>3. IsFiniteSet(Ahead(S, order, y))
  BY FS_Subset DEF Ahead
<1> QED
  BY <1>1, <1>2, <1>3, FS_Subset, FS_CardinalityType

(* The index of an element is a position of the slice.                     *)
LEMMA RankRange ==
  ASSUME NEW S, IsFiniteSet(S), NEW order, StrictOrderOn(S, order), NEW x \in S
  PROVE  /\ Cardinality(S) \in Nat
         /\ Cardinality(Ahead(S, order, x)) \in 0 .. Cardinality(S) - 1
<1>1. Ahead(S, order, x) \subseteq S \ {x}
  BY DEF Ahead, StrictOrderOn
<1>2. IsFiniteSet(S \ {x}) /\ Cardinality(S \ {x}) = Cardinality(S) - 1
  BY FS_RemoveElement
<1>3. IsFiniteSet(Ahead(S, order, x))
      /\ Cardinality(Ahead(S, order, x)) <= Cardinality(S) - 1
  BY <1>1, <1>2, FS_Subset
<1> QED
  BY <1>3, FS_CardinalityType

(* A set of elements whose indexes all lie in an interval is no larger     *)
(* than the interval.                                                      *)
LEMMA RanksInInterval ==
  ASSUME NEW S, IsFiniteSet(S), NEW order, StrictOrderOn(S, order),
         NEW T \in SUBSET S, NEW a \in Int, NEW b \in Int,
         \A x \in T : Cardinality(Ahead(S, order, x)) \in a .. b
  PROVE  Cardinality(T) <= IF a > b THEN 0 ELSE b - a + 1
<1> DEFINE rank == [x \in T |-> Cardinality(Ahead(S, order, x))]
<1>1. rank \in [T -> a .. b]
  OBVIOUS
<1>2. ASSUME NEW x \in T, NEW y \in T, x # y
      PROVE  rank[x] # rank[y]
  <2>1. <<x, y>> \in order \/ <<y, x>> \in order
    BY <1>2 DEF StrictOrderOn
  <2>2. CASE <<x, y>> \in order
    BY <2>2, <1>1, RankInjective
  <2>3. CASE <<y, x>> \in order
    BY <2>3, <1>1, RankInjective
  <2> QED
    BY <2>1, <2>2, <2>3
<1>3. rank \in Injection(T, a .. b)
  BY <1>1, <1>2 DEF Injection, IsInjective
<1>4. /\ IsFiniteSet(a .. b)
      /\ Cardinality(a .. b) = IF a > b THEN 0 ELSE b - a + 1
  BY FS_Interval
<1>5. Cardinality(T) <= Cardinality(a .. b)
  BY <1>3, <1>4, FS_Injection
<1> QED
  BY <1>4, <1>5

(* Sorting and cutting at n leaves at most n elements in the prefix and at *)
(* most the others in the rest.                                            *)
LEMMA FirstNCardinality ==
  ASSUME NEW S, IsFiniteSet(S), NEW order, StrictOrderOn(S, order),
         NEW n \in Nat, n <= Cardinality(S)
  PROVE  /\ Cardinality(FirstN(S, order, n)) <= n
         /\ Cardinality(S \ FirstN(S, order, n)) <= Cardinality(S) - n
<1>1. Cardinality(S) \in Nat
  BY FS_CardinalityType
<1>2. \A x \in S : Cardinality(Ahead(S, order, x)) \in 0 .. Cardinality(S) - 1
  BY RankRange
<1>3. \A x \in FirstN(S, order, n) : Cardinality(Ahead(S, order, x)) \in 0 .. n - 1
  BY <1>2 DEF FirstN
<1>4. Cardinality(FirstN(S, order, n)) <= IF 0 > n - 1 THEN 0 ELSE n - 1 - 0 + 1
  <2>1. FirstN(S, order, n) \in SUBSET S /\ 0 \in Int /\ n - 1 \in Int
    BY DEF FirstN
  <2> QED
    BY <2>1, <1>3, RanksInInterval
<1>5. \A x \in S \ FirstN(S, order, n) :
         Cardinality(Ahead(S, order, x)) \in n .. Cardinality(S) - 1
  BY <1>1, <1>2 DEF FirstN
<1>6. Cardinality(S \ FirstN(S, order, n)) <=
        IF n > Cardinality(S) - 1 THEN 0 ELSE Cardinality(S) - 1 - n + 1
  <2>1. S \ FirstN(S, order, n) \in SUBSET S /\ Cardinality(S) - 1 \in Int
    BY <1>1
  <2> QED
    BY <2>1, <1>5, RanksInInterval
<1> QED
  BY <1>1, <1>4, <1>6

(* The prefix is closed downwards: what is cut sorts after what is kept.   *)
LEMMA CutSortsAfter ==
  ASSUME NEW S, IsFiniteSet(S), NEW order, StrictOrderOn(S, order), NEW n \in Int,
         NEW x \in FirstN(S, order, n), NEW y \in S \ FirstN(S, order, n)
  PROVE  <<x, y>> \in order
<1> SUFFICES ASSUME <<y, x>> \in order PROVE FALSE
  BY DEF StrictOrderOn, FirstN
<1>1. Cardinality(Ahead(S, order, y)) < Cardinality(Ahead(S, order, x))
  BY RankInjective DEF FirstN
<1>2. /\ Cardinality(Ahead(S, order, y)) \in Int
      /\ Cardinality(Ahead(S, order, x)) \in Int
  BY RankRange DEF FirstN
<1> QED
  BY <1>1, <1>2 DEF FirstN

(* An element every other one sorts before has the last index.             *)
LEMMA LastRank ==
  ASSUME NEW S, IsFiniteSet(S), NEW order, NEW x \in S,
         <<x, x>> \notin order, \A y \in S \ {x} : <<y, x>> \in order
  PROVE  Cardinality(Ahead(S, order, x)) = Cardinality(S) - 1
<1>1. Ahead(S, order, x) = S \ {x}
  BY DEF Ahead
<1> QED
  BY <1>1, FS_RemoveElement

(* The positions 1 .. L in the order before.                               *)
Sorted(p, L, before) ==
  /\ p \in Bijection(1 .. L, 1 .. L)
  /\ \A m, n \in 1 .. L : m < n => <<p[m], p[n]>> \in before

(* They can be sorted.                                                     *)
LEMMA SortedExists ==
  ASSUME NEW L \in Nat, NEW before, StrictOrderOn(1 .. L, before)
  PROVE  \E p : Sorted(p, L, before)
<1> DEFINE S == 1 .. L
           rank == [x \in S |-> Cardinality(Ahead(S, before, x)) + 1]
<1>1. IsFiniteSet(S) /\ Cardinality(S) = L
  <2>1. 1 \in Int /\ L \in Int
    OBVIOUS
  <2> QED BY <2>1, FS_Interval
<1>2. \A x \in S : Cardinality(Ahead(S, before, x)) \in 0 .. L - 1
  BY <1>1, RankRange
<1>3. rank \in [S -> S]
  BY <1>2
<1>4. \A x, y \in S : <<x, y>> \in before => rank[x] < rank[y]
  <2> SUFFICES ASSUME NEW x \in S, NEW y \in S, <<x, y>> \in before
               PROVE  rank[x] < rank[y]
    OBVIOUS
  <2>1. Cardinality(Ahead(S, before, x)) < Cardinality(Ahead(S, before, y))
    BY <1>1, RankInjective
  <2> QED BY <1>2, <2>1
<1> HIDE DEF rank, S
<1>5. ASSUME NEW x \in S, NEW y \in S, rank[x] = rank[y] PROVE x = y
  <2>1. rank[x] \in Int /\ rank[y] \in Int
    BY <1>3 DEF S
  <2>2. x # y => <<x, y>> \in before \/ <<y, x>> \in before
    BY DEF StrictOrderOn, S
  <2> QED BY <1>4, <1>5, <2>1, <2>2
<1>6. rank \in Injection(S, S)
  BY <1>3, <1>5, Fun_IsInj
<1>7. rank \in Surjection(S, S)
  BY <1>1, <1>6, FS_Injection
<1>8. rank \in Bijection(S, S)
  BY <1>6, <1>7 DEF Bijection
<1> DEFINE p == Inverse(rank, S, S)
<1>9. p \in Bijection(S, S) /\ \A n \in S : p[n] \in S /\ rank[p[n]] = n
  <2>1. p \in Bijection(S, S)
    BY <1>8, Fun_BijInverse
  <2>2. Range(rank) = S
    BY <1>7, Fun_SurjectionProperties
  <2>3. \A n \in S : rank[p[n]] = n
    BY <1>3, <2>2, Fun_InverseProperties
  <2> QED BY <2>1, <2>3, Fun_BijectionProperties
<1> HIDE DEF p
<1>10. ASSUME NEW m \in S, NEW n \in S, m < n PROVE <<p[m], p[n]>> \in before
  <2>1. p[m] # p[n]
    BY <1>9, <1>10 DEF S
  <2>2. ~ <<p[n], p[m]>> \in before
    BY <1>4, <1>9, <1>10 DEF S
  <2> QED BY <1>9, <2>1, <2>2 DEF StrictOrderOn, S
<1>11. Sorted(p, L, before)
  BY <1>9, <1>10 DEF Sorted, S
<1> QED BY <1>11

(* In the sorted sequence, position m has m - 1 elements before it.        *)
LEMMA SortedRank ==
  ASSUME NEW L \in Nat, NEW before, StrictOrderOn(1 .. L, before), NEW p,
         Sorted(p, L, before), NEW m \in 1 .. L
  PROVE  Cardinality(Ahead(1 .. L, before, p[m])) = m - 1
<1> DEFINE A == Ahead(1 .. L, before, p[m])
           q == [k \in 1 .. m - 1 |-> p[k]]
<1>1. /\ p \in [1 .. L -> 1 .. L]
      /\ \A a, b \in 1 .. L : p[a] = p[b] => a = b
      /\ \A x \in 1 .. L : \E k \in 1 .. L : p[k] = x
  <2> DEFINE S == 1 .. L
  <2>1. p \in Bijection(S, S)
    BY DEF Sorted
  <2> HIDE DEF S, A, q
  <2>2. /\ p \in [S -> S] /\ \A a, b \in S : p[a] = p[b] => a = b
        /\ \A x \in S : \E k \in S : p[k] = x
    BY <2>1, Fun_BijectionProperties
  <2> QED BY <2>2 DEF S
<1>2. \A k \in 1 .. m - 1 : q[k] = p[k] /\ p[k] \in A
  BY <1>1 DEF Sorted, Ahead
<1>3. ASSUME NEW x \in A PROVE \E k \in 1 .. m - 1 : q[k] = x
  <2>1. x \in 1 .. L /\ <<x, p[m]>> \in before
    BY DEF Ahead
  <2>2. PICK k \in 1 .. L : p[k] = x
    BY <1>1, <2>1
  <2>3. k < m
    <3> SUFFICES ASSUME k >= m PROVE FALSE
      OBVIOUS
    <3>1. CASE k = m
      BY <1>1, <2>1, <2>2, <3>1 DEF StrictOrderOn
    <3>2. CASE k > m
      <4>1. <<p[m], p[k]>> \in before
        BY <3>2 DEF Sorted
      <4>2. p[m] \in 1 .. L
        BY <1>1
      <4> QED BY <2>1, <2>2, <4>1, <4>2 DEF StrictOrderOn
    <3> QED BY <3>1, <3>2
  <2>4. k \in 1 .. m - 1
    BY <2>3
  <2> QED BY <2>2, <2>4, <1>2
<1> HIDE DEF A
<1>4. q \in [1 .. m - 1 -> A]
  BY <1>2
<1>5. \A a, b \in 1 .. m - 1 : q[a] = q[b] => a = b
  <2>1. \A k \in 1 .. m - 1 : k \in 1 .. L
    OBVIOUS
  <2> HIDE DEF q
  <2> QED BY <1>1, <1>2, <2>1
<1> HIDE DEF q
<1>6. q \in Bijection(1 .. m - 1, A)
  BY <1>3, <1>4, <1>5, Fun_IsBij
<1>7. ExistsBijection(1 .. m - 1, A)
  BY <1>6 DEF ExistsBijection
<1>8. IsFiniteSet(1 .. m - 1) /\ Cardinality(1 .. m - 1) = m - 1
  <2>1. 1 \in Int /\ m - 1 \in Int
    OBVIOUS
  <2>2. Cardinality(1 .. m - 1) = IF 1 > m - 1 THEN 0 ELSE m - 1 - 1 + 1
    BY <2>1, FS_Interval
  <2> QED BY <2>1, <2>2, FS_Interval
<1> QED BY <1>7, <1>8, FS_Bijection DEF A

-----------------------------------------------------------------------------
(* Sums over a finite set.  The community modules define SumFunctionOnSet  *)
(* by recursion over an arbitrary order of the elements; a sum of natural  *)
(* numbers is also the number of its units, and that needs no order.       *)
(* One element for every unit of the sum of f over S.                      *)
Units(f, S) == {p \in S \X Nat : p[2] \in 1 .. f[p[1]]}

LEMMA UnitsOfOne ==
  ASSUME NEW f, NEW x, f[x] \in Nat
  PROVE  IsFiniteSet(Units(f, {x})) /\ Cardinality(Units(f, {x})) = f[x]
<1> DEFINE m == [i \in 1 .. f[x] |-> <<x, i>>]
<1>1. m \in [1 .. f[x] -> Units(f, {x})]
  BY DEF Units
<1>2. m \in Injection(1 .. f[x], Units(f, {x}))
  BY <1>1 DEF Injection, IsInjective
<1>3. m \in Surjection(1 .. f[x], Units(f, {x}))
  <2>1. ASSUME NEW p \in Units(f, {x})
        PROVE  \E i \in 1 .. f[x] : m[i] = p
    <3>1. p[2] \in 1 .. f[x] /\ p = <<x, p[2]>>
      BY DEF Units
    <3> QED
      BY <3>1
  <2> QED
    BY <1>1, <2>1 DEF Surjection
<1>4. ExistsBijection(1 .. f[x], Units(f, {x}))
  BY <1>2, <1>3 DEF ExistsBijection, Bijection
<1>5. IsFiniteSet(1 .. f[x]) /\ Cardinality(1 .. f[x]) = f[x]
  <2>1. 1 \in Int /\ f[x] \in Int
    OBVIOUS
  <2>2. IsFiniteSet(1 .. f[x])
        /\ Cardinality(1 .. f[x]) = IF 1 > f[x] THEN 0 ELSE f[x] - 1 + 1
    BY <2>1, FS_Interval
  <2> QED
    BY <2>2
<1> HIDE DEF m
<1> QED
  BY <1>4, <1>5, FS_Bijection

LEMMA UnitsFinite ==
  ASSUME NEW S, IsFiniteSet(S), NEW f, \A x \in S : f[x] \in Nat
  PROVE  IsFiniteSet(Units(f, S)) /\ Cardinality(Units(f, S)) \in Nat
<1> DEFINE Columns == {Units(f, {x}) : x \in S}
           column == [x \in S |-> Units(f, {x})]
<1>1. column \in Surjection(S, Columns)
  BY DEF Surjection
<1>2. IsFiniteSet(Columns)
  BY <1>1, FS_Surjection
<1>3. \A C \in Columns : IsFiniteSet(C)
  BY UnitsOfOne
<1>4. Units(f, S) = UNION Columns
  BY DEF Units
<1> QED
  BY <1>2, <1>3, <1>4, FS_UNION, FS_CardinalityType

(* The units over a set are those over a part of it and over the rest.     *)
LEMMA UnitsSplit ==
  ASSUME NEW S, IsFiniteSet(S), NEW f, \A x \in S : f[x] \in Nat, NEW T \in SUBSET S
  PROVE  Cardinality(Units(f, S)) = Cardinality(Units(f, T)) + Cardinality(Units(f, S \ T))
<1>1. IsFiniteSet(T) /\ IsFiniteSet(S \ T)
  BY FS_Subset
<1>2. /\ IsFiniteSet(Units(f, T)) /\ IsFiniteSet(Units(f, S \ T))
      /\ Cardinality(Units(f, T)) \in Nat /\ Cardinality(Units(f, S \ T)) \in Nat
  BY <1>1, UnitsFinite
<1>3. Units(f, S) = Units(f, T) \cup Units(f, S \ T)
  BY DEF Units
<1>4. Units(f, T) \cap Units(f, S \ T) = {}
  BY DEF Units
<1>5. Cardinality(Units(f, T) \cap Units(f, S \ T)) = 0
  BY <1>4, FS_EmptySet
<1>6. Cardinality(Units(f, T) \cup Units(f, S \ T)) =
        Cardinality(Units(f, T)) + Cardinality(Units(f, S \ T))
          - Cardinality(Units(f, T) \cap Units(f, S \ T))
  BY <1>2, FS_Union
<1> QED
  BY <1>2, <1>3, <1>5, <1>6

(* The recursion has one solution, because its steps go to ever smaller    *)
(* sets, and the number of the units is a solution.                        *)
LEMMA SumIsCount ==
  ASSUME NEW S, IsFiniteSet(S), NEW f, \A x \in S : f[x] \in Nat
  PROVE  SumFunctionOnSet(f, S) = Cardinality(Units(f, S))
<1> DEFINE Pick(s) == CHOOSE x \in s : TRUE
           Step(g) == [s \in SUBSET S |->
                         IF s = {} THEN 0 ELSE f[Pick(s)] + g[s \ {Pick(s)}]]
           count == [s \in SUBSET S |-> Cardinality(Units(f, s))]
           iter == CHOOSE g : g = Step(g)
<1>1. SumFunctionOnSet(f, S) = iter[S]
  BY DEF SumFunctionOnSet, FoldFunctionOnSet, MapThenFoldSet
<1>2. count = Step(count)
  <2>1. SUFFICES ASSUME NEW s \in SUBSET S
                 PROVE  Cardinality(Units(f, s)) =
                          IF s = {} THEN 0
                          ELSE f[Pick(s)] + Cardinality(Units(f, s \ {Pick(s)}))
    OBVIOUS
  <2>2. CASE s = {}
    <3>1. Units(f, s) = {}
      BY <2>2 DEF Units
    <3> QED
      BY <2>2, <3>1, FS_EmptySet
  <2>3. CASE s # {}
    <3>1. Pick(s) \in s
      BY <2>3
    <3> HIDE DEF Pick
    <3>2. IsFiniteSet(s) /\ \A x \in s : f[x] \in Nat
      BY FS_Subset
    <3>3. /\ Cardinality(Units(f, s)) =
               Cardinality(Units(f, {Pick(s)})) + Cardinality(Units(f, s \ {Pick(s)}))
          /\ Cardinality(Units(f, {Pick(s)})) = f[Pick(s)]
      <4>1. {Pick(s)} \in SUBSET s /\ f[Pick(s)] \in Nat
        BY <3>1
      <4> QED
        BY <3>2, <4>1, UnitsSplit, UnitsOfOne
    <3> QED
      BY <2>3, <3>3
  <2> QED
    BY <2>2, <2>3
<1> HIDE DEF count
<1>3. iter = Step(iter)
  <2> HIDE DEF Step
  <2> QED
    BY <1>2
<1> HIDE DEF iter
<1>4. ASSUME NEW s0 \in SUBSET S, iter[s0] # count[s0]
      PROVE  FALSE
  <2> DEFINE Bad == {s \in SUBSET S : iter[s] # count[s]}
             R == StrictSubsetOrdering(S)
  <2>1. IsWellFoundedOn(R, SUBSET S)
    <3>1. FiniteSubsetsOf(S) = SUBSET S
      BY FS_FiniteSubsetsOfFinite
    <3>2. IsWellFoundedOn(R, FiniteSubsetsOf(S))
      BY FS_StrictSubsetOrderingWellFounded
    <3> QED
      BY <3>1, <3>2
  <2>2. Bad \subseteq SUBSET S /\ Bad # {}
    BY <1>4
  <2>3. PICK s \in Bad : \A y \in Bad : ~ (<<y, s>> \in R)
    <3> HIDE DEF Bad, R
    <3> QED
      BY <2>1, <2>2, WFMin
  <2>4. s \in SUBSET S /\ iter[s] # count[s]
    BY <2>3
  <2>5. /\ iter[s] = IF s = {} THEN 0 ELSE f[Pick(s)] + iter[s \ {Pick(s)}]
        /\ count[s] = IF s = {} THEN 0 ELSE f[Pick(s)] + count[s \ {Pick(s)}]
    <3> HIDE DEF Pick
    <3>1. iter[s] = Step(iter)[s]
      BY <1>3
    <3>2. count[s] = Step(count)[s]
      BY <1>2
    <3> QED
      BY <2>4, <3>1, <3>2
  <2>6. s # {}
    BY <2>4, <2>5
  <2>7. Pick(s) \in s
    BY <2>6
  <2> HIDE DEF Pick
  <2>8. s \ {Pick(s)} \in SUBSET S /\ <<s \ {Pick(s)}, s>> \in R
    BY <2>4, <2>7 DEF StrictSubsetOrdering
  <2>9. iter[s \ {Pick(s)}] = count[s \ {Pick(s)}]
    BY <2>3, <2>8
  <2> QED
    BY <2>4, <2>5, <2>9
<1>5. iter[S] = count[S]
  BY <1>4
<1> QED
  BY <1>1, <1>5 DEF count

LEMMA SumType ==
  ASSUME NEW S, IsFiniteSet(S), NEW f, \A x \in S : f[x] \in Nat
  PROVE  SumFunctionOnSet(f, S) \in Nat
BY SumIsCount, UnitsFinite

LEMMA SumSplit ==
  ASSUME NEW S, IsFiniteSet(S), NEW f, \A x \in S : f[x] \in Nat, NEW T \in SUBSET S
  PROVE  SumFunctionOnSet(f, S) = SumFunctionOnSet(f, T) + SumFunctionOnSet(f, S \ T)
<1>1. IsFiniteSet(T) /\ IsFiniteSet(S \ T)
  BY FS_Subset
<1>2. /\ SumFunctionOnSet(f, S) = Cardinality(Units(f, S))
      /\ SumFunctionOnSet(f, T) = Cardinality(Units(f, T))
      /\ SumFunctionOnSet(f, S \ T) = Cardinality(Units(f, S \ T))
  BY <1>1, SumIsCount
<1> QED
  BY <1>2, UnitsSplit

(* A sum depends on the values over its set only.                          *)
LEMMA SumSame ==
  ASSUME NEW S, IsFiniteSet(S), NEW f, NEW g,
         \A x \in S : f[x] \in Nat /\ f[x] = g[x]
  PROVE  SumFunctionOnSet(f, S) = SumFunctionOnSet(g, S)
<1>1. Units(f, S) = Units(g, S)
  BY DEF Units
<1>2. /\ SumFunctionOnSet(f, S) = Cardinality(Units(f, S))
      /\ SumFunctionOnSet(g, S) = Cardinality(Units(g, S))
  BY SumIsCount
<1> QED
  BY <1>1, <1>2

LEMMA SumZero ==
  ASSUME NEW S, IsFiniteSet(S), NEW f, \A x \in S : f[x] = 0
  PROVE  SumFunctionOnSet(f, S) = 0
<1>1. Units(f, S) = {}
  BY DEF Units
<1>2. SumFunctionOnSet(f, S) = Cardinality(Units(f, S))
  BY SumIsCount
<1> QED
  BY <1>1, <1>2, FS_EmptySet

LEMMA SumOne ==
  ASSUME NEW f, NEW x, f[x] \in Nat
  PROVE  SumFunctionOnSet(f, {x}) = f[x]
<1>1. SumFunctionOnSet(f, {x}) = Cardinality(Units(f, {x}))
  BY SumIsCount, FS_Singleton
<1> QED
  BY <1>1, UnitsOfOne

(* One more for one element is one more in the sum.                        *)
LEMMA SumBump ==
  ASSUME NEW S, IsFiniteSet(S), NEW f \in [S -> Nat], NEW x \in S
  PROVE  SumFunctionOnSet([f EXCEPT ![x] = @ + 1], S) = SumFunctionOnSet(f, S) + 1
<1> DEFINE g == [f EXCEPT ![x] = @ + 1]
<1>1. /\ g \in [S -> Nat] /\ g[x] = f[x] + 1 /\ f[x] \in Nat
      /\ \A y \in S \ {x} : g[y] = f[y] /\ g[y] \in Nat
  OBVIOUS
<1> HIDE DEF g
<1>2. IsFiniteSet(S \ {x}) /\ {x} \in SUBSET S
  BY FS_Subset
<1>3. /\ SumFunctionOnSet(g, S) = SumFunctionOnSet(g, {x}) + SumFunctionOnSet(g, S \ {x})
      /\ SumFunctionOnSet(f, S) = SumFunctionOnSet(f, {x}) + SumFunctionOnSet(f, S \ {x})
  BY <1>1, <1>2, SumSplit
<1>4. SumFunctionOnSet(g, {x}) = f[x] + 1 /\ SumFunctionOnSet(f, {x}) = f[x]
  BY <1>1, SumOne
<1>5. SumFunctionOnSet(g, S \ {x}) = SumFunctionOnSet(f, S \ {x})
  BY <1>1, <1>2, SumSame
<1>6. SumFunctionOnSet(f, S \ {x}) \in Nat
  BY <1>1, <1>2, SumType
<1> QED
  BY <1>1, <1>3, <1>4, <1>5, <1>6 DEF g

(* A sum does not depend on the order of its terms.                        *)
LEMMA SumPermuted ==
  ASSUME NEW S, IsFiniteSet(S), NEW T, IsFiniteSet(T), NEW f,
         \A x \in S : f[x] \in Nat, NEW p \in Bijection(T, S)
  PROVE  SumFunctionOnSet([k \in T |-> f[p[k]]], T) = SumFunctionOnSet(f, S)
<1> DEFINE g == [k \in T |-> f[p[k]]]
           move == [u \in Units(g, T) |-> <<p[u[1]], u[2]>>]
<1>1. /\ p \in [T -> S] /\ \A a, b \in T : p[a] = p[b] => a = b
      /\ \A x \in S : \E k \in T : p[k] = x
  BY Fun_BijectionProperties
<1>2. \A k \in T : g[k] = f[p[k]] /\ g[k] \in Nat
  BY <1>1
<1> HIDE DEF g
<1>3. ASSUME NEW u \in Units(g, T)
      PROVE  /\ u = <<u[1], u[2]>> /\ u[1] \in T /\ u[2] \in Nat
             /\ move[u] = <<p[u[1]], u[2]>> /\ move[u] \in Units(f, S)
  <2>1. u = <<u[1], u[2]>> /\ u[1] \in T /\ u[2] \in Nat /\ u[2] \in 1 .. g[u[1]]
    BY DEF Units
  <2>2. p[u[1]] \in S /\ u[2] \in 1 .. f[p[u[1]]]
    BY <1>1, <1>2, <2>1
  <2> QED BY <2>1, <2>2 DEF Units
<1>4. move \in [Units(g, T) -> Units(f, S)]
  BY <1>3
<1>5. ASSUME NEW u \in Units(g, T), NEW v \in Units(g, T), move[u] = move[v]
      PROVE  u = v
  <2>1. p[u[1]] = p[v[1]] /\ u[2] = v[2]
    BY <1>3, <1>5
  <2>2. u[1] \in T /\ v[1] \in T /\ u = <<u[1], u[2]>> /\ v = <<v[1], v[2]>>
    BY <1>3
  <2>3. u[1] = v[1]
    BY <1>1, <2>1, <2>2
  <2> QED BY <2>1, <2>2, <2>3, Zenon
<1>6. ASSUME NEW w \in Units(f, S) PROVE \E u \in Units(g, T) : move[u] = w
  <2>1. w = <<w[1], w[2]>> /\ w[1] \in S /\ w[2] \in Nat /\ w[2] \in 1 .. f[w[1]]
    BY DEF Units
  <2>2. PICK k \in T : p[k] = w[1]
    BY <1>1, <2>1
  <2>3. <<k, w[2]>> \in Units(g, T)
    BY <1>2, <2>1, <2>2 DEF Units
  <2>4. move[<<k, w[2]>>] = w
    BY <2>1, <2>2, <2>3
  <2> QED BY <2>3, <2>4
<1> HIDE DEF move
<1>7. move \in Bijection(Units(g, T), Units(f, S))
  BY <1>4, <1>5, <1>6, Fun_IsBij
<1>8. IsFiniteSet(Units(g, T))
  BY <1>2, UnitsFinite
<1>9. Cardinality(Units(f, S)) = Cardinality(Units(g, T))
  BY <1>7, <1>8, FS_Bijection DEF ExistsBijection
<1>10. SumFunctionOnSet(g, T) = Cardinality(Units(g, T))
  BY <1>2, SumIsCount
<1>11. SumFunctionOnSet(f, S) = Cardinality(Units(f, S))
  BY SumIsCount
<1> QED BY <1>9, <1>10, <1>11 DEF g

(* One more term.                                                          *)
LEMMA SumNext ==
  ASSUME NEW n \in Nat, n > 0, NEW f, \A k \in 1 .. n : f[k] \in Nat
  PROVE  /\ SumFunctionOnSet(f, 1 .. n - 1) \in Nat
         /\ SumFunctionOnSet(f, 1 .. n) = SumFunctionOnSet(f, 1 .. n - 1) + f[n]
<1>1. n \in 1 .. n /\ (1 .. n) \ {n} = 1 .. n - 1 /\ {n} \in SUBSET (1 .. n)
  OBVIOUS
<1>2. IsFiniteSet(1 .. n) /\ IsFiniteSet(1 .. n - 1)
  <2>1. 1 \in Int /\ n \in Int /\ n - 1 \in Int
    OBVIOUS
  <2> QED BY <2>1, FS_Interval
<1>3. \A k \in 1 .. n - 1 : f[k] \in Nat
  OBVIOUS
<1>4. SumFunctionOnSet(f, 1 .. n - 1) \in Nat
  BY <1>2, <1>3, SumType
<1>5. SumFunctionOnSet(f, 1 .. n) =
        SumFunctionOnSet(f, {n}) + SumFunctionOnSet(f, (1 .. n) \ {n})
  BY <1>1, <1>2, SumSplit
<1>6. f[n] \in Nat
  BY <1>1
<1>7. SumFunctionOnSet(f, {n}) = f[n]
  BY <1>6, SumOne
<1>8. SumFunctionOnSet(f, 1 .. n) = f[n] + SumFunctionOnSet(f, 1 .. n - 1)
  BY <1>1, <1>5, <1>7, Zenon
<1> QED BY <1>4, <1>6, <1>8

LEMMA SumAppend ==
  ASSUME NEW s \in Seq(Nat), NEW x \in Nat
  PROVE  /\ SumFunction(s) \in Nat
         /\ SumFunction(Append(s, x)) = SumFunction(s) + x
<1> DEFINE t == Append(s, x)
           n == Len(s) + 1
<1>1. /\ t \in Seq(Nat) /\ DOMAIN t = 1 .. n /\ t[n] = x /\ n - 1 = Len(s)
      /\ DOMAIN s = 1 .. n - 1 /\ n \in Nat /\ n > 0
      /\ \A k \in 1 .. n - 1 : s[k] \in Nat /\ t[k] = s[k]
      /\ \A k \in 1 .. n : t[k] \in Nat
  OBVIOUS
<1> HIDE DEF t, n
<1>2. /\ SumFunctionOnSet(t, 1 .. n - 1) \in Nat
      /\ SumFunctionOnSet(t, 1 .. n) = SumFunctionOnSet(t, 1 .. n - 1) + t[n]
  BY <1>1, SumNext
<1>3. IsFiniteSet(1 .. n - 1)
  <2>1. 1 \in Int /\ n - 1 \in Int
    BY <1>1
  <2> QED BY <2>1, FS_Interval
<1>4. SumFunctionOnSet(s, 1 .. n - 1) = SumFunctionOnSet(t, 1 .. n - 1)
  BY <1>1, <1>3, SumSame
<1> QED BY <1>1, <1>2, <1>4 DEF SumFunction, t

-----------------------------------------------------------------------------
(* Loops.                                                                  *)

(* Counting up: a set that has 0 and, with each number below L, the next   *)
(* one has all of them.                                                    *)
LEMMA IntervalInduction ==
  ASSUME NEW L \in Nat, NEW T, 0 \in T, \A n \in 1 .. L : n - 1 \in T => n \in T
  PROVE  0 .. L \subseteq T
<1> DEFINE missing == {n \in 0 .. L : n \notin T}
<1> SUFFICES ASSUME missing # {} PROVE FALSE
  OBVIOUS
<1>1. missing \subseteq Nat
  OBVIOUS
<1>2. PICK n \in missing : \A d \in missing : <<d, n>> \notin OpToRel(<, Nat)
  <2> HIDE DEF missing
  <2> QED BY <1>1, NatLessThanWellFounded, WFMin
<1>3. n # 0 /\ n \in 1 .. L
  OBVIOUS
<1>4. n - 1 \in missing
  BY <1>3
<1>5. n - 1 \in Nat /\ n \in Nat /\ n - 1 < n
  BY <1>3
<1> HIDE DEF missing
<1> QED BY <1>2, <1>4, <1>5 DEF OpToRel

(* g is what a loop over 1 .. L has after each iteration: it starts with a *)
(* and step is its body.                                                   *)
LoopRun(g, L, S, a, step) ==
  /\ g \in [0 .. L -> S] /\ g[0] = a
  /\ \A n \in 1 .. L : g[n] = step[<<g[n - 1], n>>]

(* A body that maps states to states can be run.                           *)
LEMMA LoopDefined ==
  ASSUME NEW L \in Nat, NEW S, NEW a \in S, NEW step,
         \A s \in S, n \in 1 .. L : step[<<s, n>>] \in S
  PROVE  \E g : LoopRun(g, L, S, a, step)
<1> DEFINE runs(g, n) == /\ g \in [0 .. n -> S] /\ g[0] = a
                         /\ \A k \in 1 .. n : g[k] = step[<<g[k - 1], k>>]
           T == {n \in 0 .. L : \E g : runs(g, n)}
<1>1. 0 \in T
  <2> DEFINE g == [k \in 0 .. 0 |-> a]
  <2>1. runs(g, 0)
    OBVIOUS
  <2>2. 0 \in 0 .. L
    OBVIOUS
  <2> HIDE DEF g
  <2> QED BY <2>1, <2>2
<1>2. ASSUME NEW n \in 1 .. L, n - 1 \in T
      PROVE  n \in T
  <2>1. PICK g : runs(g, n - 1)
    BY <1>2
  <2> DEFINE h == [k \in 0 .. n |-> IF k = n THEN step[<<g[n - 1], n>>] ELSE g[k]]
  <2>2. g[n - 1] \in S
    BY <2>1
  <2>3. step[<<g[n - 1], n>>] \in S
    BY <2>2
  <2>4. \A k \in 0 .. n : h[k] \in S
    BY <2>1, <2>3
  <2>5. h[0] = a
    BY <2>1
  <2>6. ASSUME NEW k \in 1 .. n PROVE h[k] = step[<<h[k - 1], k>>]
    <3>1. CASE k = n
      <4>1. n - 1 \in 0 .. n /\ n - 1 # n /\ n \in 0 .. n
        OBVIOUS
      <4>2. h[n] = step[<<g[n - 1], n>>] /\ h[n - 1] = g[n - 1]
        BY <4>1
      <4> HIDE DEF h
      <4> QED BY <3>1, <4>2
    <3>2. CASE k # n
      <4>1. k \in 1 .. n - 1 /\ k - 1 \in 0 .. n /\ k - 1 # n /\ k \in 0 .. n
        BY <3>2
      <4>2. h[k] = g[k] /\ h[k - 1] = g[k - 1]
        BY <3>2, <4>1
      <4> HIDE DEF h
      <4> QED BY <2>1, <4>1, <4>2
    <3> QED BY <3>1, <3>2
  <2>7. runs(h, n)
    <3>1. h \in [0 .. n -> S]
      BY <2>4
    <3> HIDE DEF h
    <3> QED BY <2>5, <2>6, <3>1
  <2> HIDE DEF h
  <2> QED BY <2>7
<1>3. L \in T
  <2> HIDE DEF T
  <2> QED BY <1>1, <1>2, IntervalInduction
<1>4. PICK g : runs(g, L)
  BY <1>3
<1>5. LoopRun(g, L, S, a, step)
  BY <1>4 DEF LoopRun
<1> QED BY <1>5
=============================================================================
