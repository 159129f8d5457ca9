------------------------- MODULE TermWindowProofs -------------------------
(***************************************************************************)
(* The bound of the term window, what leaves it, what it remembers and the *)
(* sum it carries, for every vocabulary, every size and every batch.       *)
(***************************************************************************)
EXTENDS MCTermWindow, RankingProofs

LEMMA LimitPositive == Limit \in Nat \ {0}
BY WindowAssumption DEF Limit, DefaultMax

(* The comparator of trim is a strict total order.                         *)
LEMMA HeavierTermStrict ==
  ASSUME NEW a \in [Terms -> Nat], NEW S \in SUBSET Terms
  PROVE  StrictOrderOn(S, HeavierTerm(a))
BY TermsAssumption DEF StrictOrderOn, HeavierTerm

(* Ages after a batch: a term of the batch is new, another one is older by *)
(* one, or gone.                                                           *)
LEMMA InsertedFacts ==
  ASSUME TypeOK, NEW batch \in SUBSET Terms
  PROVE  /\ Inserted(batch) \in [Terms -> 0 .. Gone]
         /\ Gone \in Nat
         /\ \A t \in Terms : Inserted(batch)[t] <= age[t] + 1
         /\ \A t \in Terms : age[t] # Gone /\ Inserted(batch)[t] = Gone
              => age[t] = MaxAge
BY WindowAssumption DEF TypeOK, Inserted, Decayed, Gone

(* trim keeps no more than the window has room for, unchanged, and drops   *)
(* nothing that is lighter than what it keeps.                             *)
LEMMA TrimmedFacts ==
  ASSUME NEW a \in [Terms -> 0 .. Gone]
  PROVE  /\ Trimmed(a) \in [Terms -> 0 .. Gone]
         /\ Held(Trimmed(a)) = Kept(a)
         /\ Kept(a) \subseteq Held(a)
         /\ Cardinality(Kept(a)) <= Limit
         /\ \A x \in Kept(a), y \in Held(a) \ Kept(a) : a[x] <= a[y]
<1>1. Gone \in Nat /\ a \in [Terms -> Nat]
  BY WindowAssumption DEF Gone
<1>2. Held(a) \in SUBSET Terms /\ IsFiniteSet(Held(a))
  <2>1. Held(a) \in SUBSET Terms
    BY DEF Held
  <2> QED
    BY <2>1, TermsAssumption, FS_Subset
<1>3. StrictOrderOn(Held(a), HeavierTerm(a))
  BY <1>1, <1>2, HeavierTermStrict
<1>4. Kept(a) \subseteq Held(a)
  BY DEF Kept, FirstN
<1>5. Trimmed(a) \in [Terms -> 0 .. Gone]
  BY <1>1 DEF Trimmed
<1>6. Held(Trimmed(a)) = Kept(a)
  BY <1>2, <1>4 DEF Held, Trimmed
<1>7. Cardinality(Kept(a)) <= Limit
  <2>1. /\ Cardinality(Held(a)) \in Nat
        /\ Cardinality(Kept(a)) \in Nat
        /\ Cardinality(Kept(a)) <= Cardinality(Held(a))
    BY <1>2, <1>4, FS_Subset, FS_CardinalityType
  <2>2. CASE Limit <= Cardinality(Held(a))
    BY <2>2, <1>2, <1>3, LimitPositive, FirstNCardinality DEF Kept
  <2>3. CASE ~(Limit <= Cardinality(Held(a)))
    BY <2>1, <2>3, LimitPositive
  <2> QED
    BY <2>2, <2>3
<1>8. ASSUME NEW x \in Kept(a), NEW y \in Held(a) \ Kept(a)
      PROVE  a[x] <= a[y]
  <2>1. Limit \in Int
    BY LimitPositive
  <2>2. <<x, y>> \in HeavierTerm(a)
    BY <1>2, <1>3, <2>1, CutSortsAfter DEF Kept
  <2>3. x \in Terms /\ y \in Terms
    BY <1>2, <1>4
  <2> QED
    BY <2>2, <2>3, <1>1 DEF HeavierTerm
<1> QED
  BY <1>4, <1>5, <1>6, <1>7, <1>8

-----------------------------------------------------------------------------
(* A count of terms is a number.                                           *)
LEMMA CountType ==
  ASSUME NEW a \in [Terms -> 0 .. Gone]
  PROVE  Recount(a) \in [0 .. MaxAge -> Int]
<1>1. ASSUME NEW n \in 0 .. MaxAge
      PROVE  Cardinality({t \in Terms : a[t] = n}) \in Int
  <2>1. IsFiniteSet({t \in Terms : a[t] = n})
    BY TermsAssumption, FS_Subset
  <2> QED
    BY <2>1, FS_CardinalityType
<1> QED
  BY <1>1 DEF Recount

LEMMA TotalInsertedType ==
  ASSUME TypeOK, NEW batch \in SUBSET Terms
  PROVE  TotalInserted(batch) \in [0 .. MaxAge -> Int]
<1>1. Decayed \in [Terms -> 0 .. Gone]
  BY WindowAssumption DEF TypeOK, Decayed, Gone
<1>2. Recount(Decayed) \in [0 .. MaxAge -> Int]
  BY <1>1, CountType
<1>3. IsFiniteSet(batch)
  BY TermsAssumption, FS_Subset
<1>4. Cardinality(batch) \in Int
  BY <1>3, FS_CardinalityType
<1>5. ASSUME NEW n \in 0 .. MaxAge
      PROVE  Cardinality({t \in batch : Decayed[t] = n}) \in Int
  <2>1. IsFiniteSet({t \in batch : Decayed[t] = n})
    BY <1>3, FS_Subset
  <2> QED
    BY <2>1, FS_CardinalityType
<1> QED
  BY <1>2, <1>4, <1>5 DEF TotalInserted

LEMMA InitType == Init => TypeOK
BY WindowAssumption DEF Init, TypeOK, Gone

LEMMA AddType ==
  ASSUME TypeOK, NEW batch \in SUBSET Terms, Add(batch)
  PROVE  TypeOK'
<1>1. Inserted(batch) \in [Terms -> 0 .. Gone]
  BY InsertedFacts
<1>2. Trimmed(Inserted(batch)) \in [Terms -> 0 .. Gone]
  BY <1>1, TrimmedFacts
<1>3. total' \in [0 .. MaxAge -> Int]
  BY <1>2, CountType, TotalInsertedType DEF Add
<1> QED
  BY <1>2, <1>3 DEF Add, TypeOK

LEMMA NextType == TypeOK /\ [Next]_termVars => TypeOK'
<1>1. TypeOK /\ UNCHANGED termVars => TypeOK'
  BY DEF TypeOK, termVars
<1> QED
  BY <1>1, AddType DEF Next

(* The state is well typed.                                                *)
THEOREM TypeCorrect == Spec => []TypeOK
BY InitType, NextType, PTL DEF Spec

(* The window keeps its bound, however many terms a batch has.             *)
THEOREM WindowBounded == Spec => []WindowBound
<1>1. Init => WindowBound
  <2>1. Init => Held(age) = {}
    BY DEF Init, Held
  <2> QED
    BY <2>1, FS_EmptySet, LimitPositive DEF WindowBound
<1>2. TypeOK /\ WindowBound /\ [Next]_termVars => WindowBound'
  <2>1. ASSUME TypeOK, NEW batch \in SUBSET Terms, Add(batch)
        PROVE  WindowBound'
    <3>1. Inserted(batch) \in [Terms -> 0 .. Gone]
      BY <2>1, InsertedFacts
    <3>2. Cardinality(Held(Trimmed(Inserted(batch)))) <= Limit
      BY <3>1, TrimmedFacts
    <3>3. Held(age') = Held(Trimmed(Inserted(batch)))
      BY <2>1 DEF Add
    <3> QED
      BY <3>2, <3>3 DEF WindowBound, Held, Gone
  <2>2. WindowBound /\ UNCHANGED termVars => WindowBound'
    BY DEF WindowBound, Held, termVars
  <2> QED
    BY <2>1, <2>2 DEF Next
<1> QED
  BY <1>1, <1>2, InitType, NextType, PTL DEF Spec

(* What leaves the window faded, or was no heavier than what stays.        *)
THEOREM WeakestLeaves == Spec => LightestLeaves
<1> DEFINE Leaves == \A a \in Held(age) \ Held(age'), b \in Held(age') :
                        age'[b] <= age[a] + 1
<1>1. ASSUME TypeOK, NEW batch \in SUBSET Terms, Add(batch)
      PROVE  Leaves
  <2> DEFINE ins == Inserted(batch)
  <2>1. /\ ins \in [Terms -> 0 .. Gone] /\ Gone \in Nat
        /\ \A t \in Terms : ins[t] <= age[t] + 1
        /\ \A t \in Terms : age[t] # Gone /\ ins[t] = Gone => age[t] = MaxAge
    BY <1>1, InsertedFacts
  <2>2. age' = Trimmed(ins) /\ age \in [Terms -> 0 .. Gone]
    BY <1>1 DEF Add, TypeOK
  <2> HIDE DEF ins
  <2>3. /\ Held(age') = Kept(ins) /\ Kept(ins) \subseteq Held(ins)
        /\ \A x \in Kept(ins), y \in Held(ins) \ Kept(ins) : ins[x] <= ins[y]
    BY <2>1, <2>2, TrimmedFacts
  <2>4. SUFFICES ASSUME NEW a \in Held(age) \ Held(age'), NEW b \in Held(age')
                 PROVE  age'[b] <= age[a] + 1
    OBVIOUS
  <2>5. /\ a \in Terms /\ b \in Terms /\ age[a] # Gone
        /\ age'[b] = ins[b] /\ ins[b] # Gone
    BY <2>2, <2>3, <2>4 DEF Held, Trimmed
  <2>6. CASE a \in Held(ins)
    BY <2>1, <2>2, <2>3, <2>4, <2>5, <2>6
  <2>7. CASE a \notin Held(ins)
    <3>1. age[a] = MaxAge
      BY <2>1, <2>5, <2>7 DEF Held
    <3> QED
      BY <3>1, <2>1, <2>5, WindowAssumption DEF Gone
  <2> QED
    BY <2>6, <2>7
<1>2. TypeOK /\ [Next]_termVars => [Leaves]_termVars
  BY <1>1 DEF Next
<1> QED
  BY <1>2, InitType, NextType, PTL DEF Spec, LightestLeaves

-----------------------------------------------------------------------------
(* A window with room for everything it holds drops nothing.               *)
LEMMA TrimmedIdle ==
  ASSUME NEW a \in [Terms -> 0 .. Gone], Cardinality(Held(a)) <= Limit
  PROVE  Trimmed(a) = a
<1>1. Held(a) \in SUBSET Terms /\ IsFiniteSet(Held(a))
  <2>1. Held(a) \in SUBSET Terms
    BY DEF Held
  <2> QED
    BY <2>1, TermsAssumption, FS_Subset
<1>2. StrictOrderOn(Held(a), HeavierTerm(a))
  <2>1. a \in [Terms -> Nat]
    BY WindowAssumption DEF Gone
  <2> QED
    BY <1>1, <2>1, HeavierTermStrict
<1>3. \A x \in Held(a) : x \in Kept(a)
  <2>1. SUFFICES ASSUME NEW x \in Held(a) PROVE x \in Kept(a)
    OBVIOUS
  <2>2. /\ Cardinality(Held(a)) \in Nat
        /\ Cardinality(Ahead(Held(a), HeavierTerm(a), x)) \in 0 .. Cardinality(Held(a)) - 1
    BY <1>1, <1>2, RankRange
  <2>3. Cardinality(Ahead(Held(a), HeavierTerm(a), x)) < Limit
    BY <2>2, LimitPositive
  <2> QED
    BY <2>3 DEF Kept, FirstN
<1>4. \A t \in Terms : Trimmed(a)[t] = a[t]
  BY <1>3 DEF Trimmed, Held
<1> QED
  BY <1>4 DEF Trimmed

(* Adding 1 and taking away the old weight, term by term, accumulates the  *)
(* sum of the new weights.                                                 *)
LEMMA TotalInsertedIsSum ==
  ASSUME TypeOK, NEW batch \in SUBSET Terms
  PROVE  TotalInserted(batch) = Recount(Inserted(batch))
<1>1. SUFFICES ASSUME NEW n \in 0 .. MaxAge
               PROVE  TotalInserted(batch)[n] = Recount(Inserted(batch))[n]
  BY DEF TotalInserted, Recount
<1> DEFINE A == {t \in Terms : Decayed[t] = n}
           B == {t \in batch : Decayed[t] = n}
           C == {t \in Terms : Inserted(batch)[t] = n}
<1>2. /\ IsFiniteSet(A) /\ IsFiniteSet(B) /\ IsFiniteSet(batch)
      /\ Cardinality(A) \in Nat /\ Cardinality(B) \in Nat
      /\ Cardinality(batch) \in Nat
  <2>1. A \subseteq Terms /\ B \subseteq Terms /\ batch \subseteq Terms
    OBVIOUS
  <2> HIDE DEF A, B
  <2> QED
    BY <2>1, TermsAssumption, FS_Subset, FS_CardinalityType
<1>3. TotalInserted(batch)[n] =
        Cardinality(A) - Cardinality(B) + (IF n = 0 THEN Cardinality(batch) ELSE 0)
  BY DEF TotalInserted, Recount
<1>4. Recount(Inserted(batch))[n] = Cardinality(C)
  BY DEF Recount
<1>5. \A t \in Terms : Decayed[t] \in Nat \ {0}
  BY WindowAssumption DEF TypeOK, Decayed, Gone
<1>6. CASE n = 0
  <2>1. A = {} /\ B = {}
    BY <1>5, <1>6
  <2>2. C = batch
    BY <1>5, <1>6 DEF Inserted
  <2>3. Cardinality(A) = 0 /\ Cardinality(B) = 0
    BY <2>1, FS_EmptySet
  <2> HIDE DEF A, B, C
  <2> QED
    BY <1>2, <1>3, <1>4, <1>6, <2>2, <2>3
<1>7. CASE n # 0
  <2>1. C = A \ B /\ A \cap B = B
    BY <1>7 DEF Inserted
  <2> HIDE DEF A, B, C
  <2>2. Cardinality(A \ B) = Cardinality(A) - Cardinality(A \cap B)
    BY <1>2, FS_Difference
  <2> QED
    BY <1>2, <1>3, <1>4, <1>7, <2>1, <2>2
<1> QED
  BY <1>6, <1>7

LEMMA InitSum == Init => TotalIsSum
<1>1. SUFFICES ASSUME Init PROVE TotalIsSum
  OBVIOUS
<1>2. \A n \in 0 .. MaxAge : {t \in Terms : age[t] = n} = {}
  BY <1>1, WindowAssumption DEF Init, Gone
<1>3. \A n \in 0 .. MaxAge : Recount(age)[n] = 0
  BY <1>2, FS_EmptySet DEF Recount
<1> QED
  BY <1>1, <1>3 DEF Init, TotalIsSum, Recount

(* The sum the code carries is the sum of the weights it carries, whether  *)
(* the batch was added up term by term or the window was trimmed and       *)
(* recounted: Score takes an empty sum for an empty window (terms.go).     *)
THEOREM TotalCorrect == Spec => []TotalIsSum
<1>1. ASSUME TypeOK, NEW batch \in SUBSET Terms, Add(batch)
      PROVE  TotalIsSum'
  <2> DEFINE ins == Inserted(batch)
  <2>1. ins \in [Terms -> 0 .. Gone] /\ TotalInserted(batch) = Recount(ins)
    BY <1>1, InsertedFacts, TotalInsertedIsSum
  <2>2. /\ age' = Trimmed(ins)
        /\ total' = IF Cardinality(Held(ins)) <= Limit
                    THEN TotalInserted(batch) ELSE Recount(Trimmed(ins))
    BY <1>1 DEF Add
  <2> HIDE DEF ins
  <2>3. total' = Recount(age')
    BY <2>1, <2>2, TrimmedIdle
  <2> QED
    BY <2>3 DEF TotalIsSum, Recount
<1>2. TypeOK /\ TotalIsSum /\ [Next]_termVars => TotalIsSum'
  <2>1. TotalIsSum /\ UNCHANGED termVars => TotalIsSum'
    BY DEF TotalIsSum, Recount, termVars
  <2> QED
    BY <1>1, <2>1 DEF Next
<1> QED
  BY <1>2, InitSum, InitType, NextType, PTL DEF Spec

-----------------------------------------------------------------------------
(* The history of the batches.                                             *)
BatchesOK == batches \in Seq(SUBSET Terms)

LEMMA BatchesStep ==
  ASSUME BatchesOK, NEW batch \in SUBSET Terms, batches' = <<batch>> \o batches
  PROVE  /\ BatchesOK'
         /\ Len(batches) \in Nat /\ Len(batches') = Len(batches) + 1
         /\ batches'[1] = batch
         /\ \A i \in 1 .. Len(batches) : batches'[i + 1] = batches[i]
BY DEF BatchesOK

(* A batch makes a term of it the latest, and every other mention older.   *)
LEMMA LastAddedStep ==
  ASSUME BatchesOK, NEW batch \in SUBSET Terms, batches' = <<batch>> \o batches,
         NEW t \in Terms
  PROVE  /\ t \in batch => LastAdded(t)' = {0}
         /\ t \notin batch => LastAdded(t)' = {n + 1 : n \in LastAdded(t)}
<1>1. /\ Len(batches) \in Nat /\ Len(batches') = Len(batches) + 1
      /\ batches'[1] = batch
      /\ \A i \in 1 .. Len(batches) : batches'[i + 1] = batches[i]
  BY BatchesStep
<1>2. ASSUME t \in batch PROVE LastAdded(t)' = {0}
  BY <1>1, <1>2 DEF LastAdded
<1>3. ASSUME t \notin batch, NEW n \in LastAdded(t)
      PROVE  n + 1 \in LastAdded(t)'
  <2>1. n \in 0 .. Len(batches) - 1 /\ t \in batches[n + 1]
        /\ \A i \in 1 .. n : t \notin batches[i]
    BY <1>3 DEF LastAdded
  <2>2. n + 1 \in 0 .. Len(batches') - 1 /\ t \in batches'[n + 1 + 1]
    BY <1>1, <2>1
  <2>3. ASSUME NEW i \in 1 .. n + 1 PROVE t \notin batches'[i]
    <3>1. CASE i = 1
      BY <1>1, <1>3, <3>1
    <3>2. CASE i # 1
      <4>1. i - 1 \in 1 .. n /\ i - 1 \in 1 .. Len(batches) /\ i = (i - 1) + 1
        BY <1>1, <2>1, <3>2
      <4> QED
        BY <4>1, <1>1, <2>1
    <3> QED
      BY <3>1, <3>2
  <2> QED
    BY <2>2, <2>3 DEF LastAdded
<1>4. ASSUME t \notin batch, NEW m \in LastAdded(t)'
      PROVE  m - 1 \in LastAdded(t) /\ m = (m - 1) + 1
  <2>1. m \in 0 .. Len(batches') - 1 /\ t \in batches'[m + 1]
        /\ \A i \in 1 .. m : t \notin batches'[i]
    BY <1>4 DEF LastAdded
  <2>2. m # 0
    BY <1>1, <1>4, <2>1
  <2>3. m - 1 \in 0 .. Len(batches) - 1 /\ m \in 1 .. Len(batches)
        /\ m = (m - 1) + 1
    BY <1>1, <2>1, <2>2
  <2>4. t \in batches[(m - 1) + 1]
    BY <1>1, <2>1, <2>3
  <2>5. ASSUME NEW i \in 1 .. m - 1 PROVE t \notin batches[i]
    <3>1. i + 1 \in 1 .. m /\ i \in 1 .. Len(batches)
      BY <1>1, <2>3
    <3> QED
      BY <3>1, <1>1, <2>1
  <2> QED
    BY <2>3, <2>4, <2>5 DEF LastAdded
<1> QED
  BY <1>2, <1>3, <1>4

(* The terms mentioned in the latest n + 1 batches.                        *)
Mentioned(n) == UNION {batches[i] : i \in 1 .. n + 1}

(* What is in the window after a batch, before it is trimmed: the terms    *)
(* that are held carry the age of their last mention, and every term that  *)
(* the room allows is there.                                               *)
LEMMA InsertedIsRecent ==
  ASSUME TypeOK, BatchesOK, RecentTermsKnown, NEW batch \in SUBSET Terms,
         batches' = <<batch>> \o batches, NEW t \in Terms
  PROVE  /\ t \in Held(Inserted(batch)) => LastAdded(t)' = {Inserted(batch)[t]}
         /\ \A n \in LastAdded(t)' :
               n <= MaxAge /\ Cardinality(Mentioned(n)') <= Limit
                 => t \in Held(Inserted(batch)) /\ Inserted(batch)[t] = n
<1>1. MaxAge \in Nat /\ age[t] \in 0 .. Gone /\ Gone = MaxAge + 1
  BY WindowAssumption DEF TypeOK, Gone
<1>2. CASE t \in batch
  <2>1. LastAdded(t)' = {0} /\ Inserted(batch)[t] = 0
    BY <1>2, LastAddedStep DEF Inserted
  <2> QED
    BY <2>1, <1>1 DEF Held
<1>3. CASE t \notin batch
  <2>1. LastAdded(t)' = {n + 1 : n \in LastAdded(t)}
    BY <1>3, LastAddedStep
  <2>2. Inserted(batch)[t] = IF age[t] = Gone THEN Gone ELSE age[t] + 1
    BY <1>3 DEF Inserted, Decayed
  <2>3. ASSUME t \in Held(Inserted(batch))
        PROVE  LastAdded(t)' = {Inserted(batch)[t]}
    <3>1. t \in Held(age) /\ Inserted(batch)[t] = age[t] + 1
      BY <2>2, <2>3 DEF Held
    <3>2. LastAdded(t) = {age[t]}
      BY <3>1 DEF RecentTermsKnown
    <3> QED
      BY <2>1, <3>1, <3>2
  <2>4. ASSUME NEW m \in LastAdded(t)', m <= MaxAge,
               Cardinality(Mentioned(m)') <= Limit
        PROVE  t \in Held(Inserted(batch)) /\ Inserted(batch)[t] = m
    <3>1. PICK n \in LastAdded(t) : m = n + 1
      BY <2>1, <2>4
    <3>2. n \in Nat /\ n < Len(batches) /\ Len(batches) \in Nat
      BY BatchesStep DEF LastAdded
    <3>3. Mentioned(n) \subseteq Mentioned(m)'
      <4>1. SUFFICES ASSUME NEW i \in 1 .. n + 1
                     PROVE  batches[i] \subseteq UNION {batches'[j] : j \in 1 .. m + 1}
        BY DEF Mentioned
      <4>2. i + 1 \in 1 .. m + 1 /\ batches'[i + 1] = batches[i]
        BY <3>1, <3>2, BatchesStep
      <4> QED
        BY <4>2
    <3>4. /\ IsFiniteSet(Mentioned(m)') /\ Cardinality(Mentioned(m)') \in Nat
          /\ Cardinality(Mentioned(n)) \in Nat
          /\ Cardinality(Mentioned(n)) <= Cardinality(Mentioned(m)')
      <4>1. Mentioned(m)' \in SUBSET Terms
        BY <3>1, <3>2, BatchesStep DEF Mentioned, BatchesOK
      <4>2. IsFiniteSet(Mentioned(m)')
        BY <4>1, TermsAssumption, FS_Subset
      <4> QED
        BY <4>2, <3>3, FS_Subset, FS_CardinalityType
    <3>5. n <= MaxAge /\ Cardinality(Mentioned(n)) <= Limit
      BY <2>4, <3>1, <3>2, <3>4, <1>1, LimitPositive
    <3>6. t \in Held(age) /\ LastAdded(t) = {age[t]}
      BY <3>1, <3>5 DEF RecentTermsKnown, Mentioned
    <3>7. age[t] = n /\ Inserted(batch)[t] = m
      BY <3>1, <3>6, <2>2 DEF Held
    <3> QED
      BY <3>7, <2>4, <3>1, <3>2, <1>1 DEF Held
  <2> QED
    BY <2>3, <2>4
<1> QED
  BY <1>2, <1>3

(* What is ahead of a recent term in the order of the trim was mentioned   *)
(* since, so the trim leaves the term in.                                  *)
LEMMA RecentIsKept ==
  ASSUME TypeOK, BatchesOK, RecentTermsKnown, NEW batch \in SUBSET Terms,
         batches' = <<batch>> \o batches, NEW t \in Terms,
         NEW n \in LastAdded(t)', n <= MaxAge,
         Cardinality(Mentioned(n)') <= Limit
  PROVE  t \in Kept(Inserted(batch))
<1> DEFINE ins == Inserted(batch)
           U == Mentioned(n)'
           ahead == Ahead(Held(ins), HeavierTerm(ins), t)
<1>1. t \in Held(ins) /\ ins[t] = n /\ ins \in [Terms -> 0 .. Gone]
      /\ Gone \in Nat
  BY InsertedIsRecent, InsertedFacts
<1>2. n \in Nat /\ t \in batches'[n + 1] /\ n < Len(batches')
      /\ Len(batches') \in Nat /\ batches' \in Seq(SUBSET Terms)
  BY BatchesStep DEF LastAdded, BatchesOK
<1>3. IsFiniteSet(U) /\ t \in U
  <2>1. U \in SUBSET Terms /\ t \in U
    BY <1>2 DEF Mentioned
  <2> QED
    BY <2>1, TermsAssumption, FS_Subset
<1>4. ASSUME NEW y \in ahead PROVE y \in U \ {t}
  <2>1. y \in Terms /\ y \in Held(ins) /\ <<y, t>> \in HeavierTerm(ins)
    BY DEF Ahead, Held
  <2>2. ins[y] \in Nat /\ ins[y] <= n /\ y # t
    BY <2>1, <1>1, TermsAssumption DEF HeavierTerm
  <2>3. LastAdded(y)' = {ins[y]}
    BY <2>1, InsertedIsRecent
  <2>4. y \in batches'[ins[y] + 1] /\ ins[y] + 1 \in 1 .. n + 1
    BY <2>2, <2>3, <1>2 DEF LastAdded
  <2> QED
    BY <2>2, <2>4 DEF Mentioned
<1> HIDE DEF ahead, U
<1>5. /\ IsFiniteSet(U \ {t})
      /\ Cardinality(U \ {t}) = Cardinality(U) - 1 /\ Cardinality(U) \in Nat
  BY <1>3, FS_RemoveElement, FS_CardinalityType
<1>6. ahead \subseteq U \ {t}
  BY <1>4
<1>7. Cardinality(ahead) <= Cardinality(U) - 1 /\ Cardinality(ahead) \in Nat
  BY <1>5, <1>6, FS_Subset, FS_CardinalityType
<1>8. Cardinality(ahead) < Limit
  BY <1>5, <1>7, LimitPositive DEF U
<1> QED
  BY <1>1, <1>8 DEF Kept, FirstN, ahead

LEMMA RecentStep ==
  ASSUME TypeOK, BatchesOK, RecentTermsKnown, NEW batch \in SUBSET Terms,
         Add(batch), batches' = <<batch>> \o batches
  PROVE  RecentTermsKnown'
<1> DEFINE ins == Inserted(batch)
<1>1. ins \in [Terms -> 0 .. Gone] /\ age' = Trimmed(ins)
  BY InsertedFacts DEF Add
<1>2. Held(age') = Kept(ins) /\ Kept(ins) \subseteq Held(ins)
  BY <1>1, TrimmedFacts
<1>3. ASSUME NEW t \in Terms, t \in Held(age')
      PROVE  LastAdded(t)' = {age'[t]}
  BY <1>1, <1>2, <1>3, InsertedIsRecent DEF Trimmed
<1>4. ASSUME NEW t \in Terms, NEW n \in LastAdded(t)', n <= MaxAge,
             Cardinality(Mentioned(n)') <= Limit
      PROVE  t \in Held(age')
  BY <1>2, <1>4, RecentIsKept
<1> HIDE DEF ins
<1> QED
  BY <1>3, <1>4 DEF RecentTermsKnown, Mentioned, Held, Gone

(* The window remembers what is recent, for every limit, decay and order   *)
(* of the batches: what it holds carries the age of its last mention, and  *)
(* a term is lost only to its weight or to as many others mentioned since. *)
THEOREM RecentTermsHeld == MCSpec => []RecentTermsKnown
<1> DEFINE HInv == TypeOK /\ BatchesOK /\ RecentTermsKnown
<1>1. MCInit => HInv
  <2>1. SUFFICES ASSUME MCInit PROVE HInv
    OBVIOUS
  <2>2. TypeOK
    BY <2>1, InitType DEF MCInit
  <2>3. BatchesOK /\ batches = <<>>
    BY <2>1 DEF MCInit, BatchesOK
  <2>4. \A t \in Terms : t \notin Held(age) /\ LastAdded(t) = {}
    BY <2>1, <2>3 DEF MCInit, Init, Held, LastAdded
  <2> QED
    BY <2>2, <2>3, <2>4 DEF RecentTermsKnown
<1>2. HInv /\ [MCNext]_<<termVars, batches>> => HInv'
  <2>1. ASSUME HInv, NEW batch \in SUBSET Terms,
               Add(batch), batches' = <<batch>> \o batches
        PROVE  HInv'
    BY <2>1, AddType, BatchesStep, RecentStep
  <2>2. ASSUME HInv, UNCHANGED <<termVars, batches>> PROVE HInv'
    BY <2>2 DEF termVars, TypeOK, BatchesOK, RecentTermsKnown, LastAdded, Held
  <2> QED
    BY <2>1, <2>2 DEF MCNext
<1>3. HInv => RecentTermsKnown
  OBVIOUS
<1> QED
  BY <1>1, <1>2, <1>3, PTL DEF MCSpec
=============================================================================
