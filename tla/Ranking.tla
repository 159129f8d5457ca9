------------------------------ MODULE Ranking ------------------------------
(***************************************************************************)
(* "Sort, then take a prefix" is the one algorithm this program uses over  *)
(* and over: the edges a node keeps, the nodes an eviction drops, the      *)
(* tools that keep their full schema.  Every comparator of the code is a   *)
(* strict total order, so the sorted slice is determined by the set of     *)
(* elements and the order, and an element's index in it is the number of   *)
(* elements that come before it.  An order is a set of pairs <<x, y>>,     *)
(* read "x sorts before y".                                                *)
(***************************************************************************)
EXTENDS Integers, FiniteSets

(* The elements of S that sort before x: x's index is their number.        *)
Ahead(S, order, x) == {y \in S : <<y, x>> \in order}

(* edges[:n] / cands[:n]: the first n elements of S once it is sorted.     *)
FirstN(S, order, n) == {x \in S : Cardinality(Ahead(S, order, x)) < n}

(* What the comparators must be for the two definitions above to describe  *)
(* the sorted slice.                                                       *)
StrictOrderOn(S, order) ==
  /\ \A x \in S : <<x, x>> \notin order
  /\ \A x, y \in S : x # y => <<x, y>> \in order \/ <<y, x>> \in order
  /\ \A x, y, z \in S :
        <<x, y>> \in order /\ <<y, z>> \in order => <<x, z>> \in order
=============================================================================
