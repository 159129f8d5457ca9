---------------------------- MODULE MCTermWindow ----------------------------
(***************************************************************************)
(* The term window with the batches that were added beside it.             *)
(***************************************************************************)
EXTENDS TermWindow, Sequences

VARIABLE batches   \* the batches added so far, the latest first

MCInit == Init /\ batches = <<>>

MCNext ==
  /\ adds < MaxAdds
  /\ \E batch \in SUBSET Terms :
       Add(batch) /\ batches' = <<batch>> \o batches

MCSpec == MCInit /\ [][MCNext]_<<termVars, batches>>

(* Batches added after the last one that held t.                           *)
LastAdded(t) ==
  {n \in 0 .. Len(batches) - 1 :
     t \in batches[n + 1] /\ \A i \in 1 .. n : t \notin batches[i]}

(* The window remembers what is recent: a term is held, with the age of    *)
(* its last mention, for as long as the terms mentioned since then fit the *)
(* window and its weight is above the threshold; whatever else is held has *)
(* the age of its last mention too (terms.go, Add).                        *)
RecentTermsKnown ==
  \A t \in Terms :
    /\ t \in Held(age) => LastAdded(t) = {age[t]}
    /\ \A n \in LastAdded(t) :
         n <= MaxAge /\ Cardinality(UNION {batches[i] : i \in 1 .. n + 1}) <= Limit
           => t \in Held(age)
=============================================================================
