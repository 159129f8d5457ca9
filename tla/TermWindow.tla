----------------------------- MODULE TermWindow -----------------------------
(***************************************************************************)
(* The lexical memory of a session (prune/terms.go): a bounded bag of      *)
(* terms whose weights decay with every batch that is added.               *)
(*                                                                         *)
(* A weight is always decay^age with 0 < decay < 1, so the window is       *)
(* modelled by ages: a younger term is a heavier one, and a weight below   *)
(* 1e-4 is an age above MaxAge.  A term that is not in the map has the     *)
(* age Gone.  A term is a positive integer, ordered as Go orders strings.  *)
(***************************************************************************)
EXTENDS Ranking

CONSTANTS
  Terms,    \* the terms traffic may contain
  Max,      \* NewTermWindow's first argument, any integer
  MaxAge,   \* the largest n with decay^n >= 1e-4
  MaxAdds   \* bound of the model: batches added in a behavior

DefaultMax == 256

ASSUME TermsAssumption == Terms \subseteq Nat \ {0} /\ IsFiniteSet(Terms)
ASSUME WindowAssumption == Max \in Int /\ MaxAge \in Nat /\ MaxAdds \in Nat

Limit == IF Max <= 0 THEN DefaultMax ELSE Max
Gone == MaxAge + 1

VARIABLES
  age,    \* TermWindow.weights
  total,  \* TermWindow.total: how often the weight of each age is in the sum
  adds    \* batches added so far

termVars == <<age, total, adds>>

Held(a) == {t \in Terms : a[t] # Gone}

(* A sum over a map, as the code accumulates it anew.                      *)
Recount(a) == [n \in 0 .. MaxAge |-> Cardinality({t \in Terms : a[t] = n})]

Init ==
  /\ age = [t \in Terms |-> Gone]
  /\ total = [n \in 0 .. MaxAge |-> 0]
  /\ adds = 0

-----------------------------------------------------------------------------
(* Every weight times decay; what falls below 1e-4 is deleted.             *)
Decayed == [t \in Terms |-> IF age[t] = Gone THEN Gone ELSE age[t] + 1]

(* The batch at weight 1, whether a term is new or known; repeating a term *)
(* inside the batch changes nothing.                                       *)
Inserted(batch) == [t \in Terms |-> IF t \in batch THEN 0 ELSE Decayed[t]]

\* Mutant of TotalInserted: the weight a known term had stays in the sum.
TotalInsertedOnTop(batch) ==
  [Recount(Decayed) EXCEPT ![0] = @ + Cardinality(batch)]

(* total += 1 - weights[t], for each term of the batch.                    *)
TotalInserted(batch) ==
  [n \in 0 .. MaxAge |->
     Recount(Decayed)[n] - Cardinality({t \in batch : Decayed[t] = n})
       + (IF n = 0 THEN Cardinality(batch) ELSE 0)]

HeavierTerm(a) ==
  {p \in Terms \X Terms : \/ a[p[1]] < a[p[2]]
                          \/ a[p[1]] = a[p[2]] /\ p[1] < p[2]}

\* Mutant of Kept: by name.
KeptByName(a) ==
  FirstN(Held(a), {p \in Terms \X Terms : p[1] < p[2]}, Limit)

(* trim: the heaviest terms the window has room for.                       *)
Kept(a) == FirstN(Held(a), HeavierTerm(a), Limit)

Trimmed(a) == [t \in Terms |-> IF t \in Kept(a) THEN a[t] ELSE Gone]

(* Add: an empty batch returns before anything decays.                     *)
Add(batch) ==
  /\ batch # {}
  /\ age' = Trimmed(Inserted(batch))
  /\ total' = IF Cardinality(Held(Inserted(batch))) <= Limit
              THEN TotalInserted(batch)
              ELSE Recount(Trimmed(Inserted(batch)))
  /\ adds' = adds + 1

Next == adds < MaxAdds /\ \E batch \in SUBSET Terms : Add(batch)

Spec == Init /\ [][Next]_termVars

-----------------------------------------------------------------------------
(* The type of the state: no weight below the threshold survives.          *)
TypeOK ==
  /\ age \in [Terms -> 0 .. Gone]
  /\ total \in [0 .. MaxAge -> Int]
  /\ adds \in Nat

(* The window never holds more terms than it was given room for, however   *)
(* large a batch is (terms.go, trim).                                      *)
WindowBound == Cardinality(Held(age)) <= Limit

(* total is the sum of the weights, on every path that accumulates it: an  *)
(* empty sum is how Score decides that the window carries no signal.       *)
TotalIsSum == total = Recount(age)

(* A term leaves the window only if no lighter one stays: "trim evicts the *)
(* weakest terms".                                                         *)
LightestLeaves ==
  [][\A a \in Held(age) \ Held(age'), b \in Held(age') :
       age'[b] <= age[a] + 1]_termVars
=============================================================================
