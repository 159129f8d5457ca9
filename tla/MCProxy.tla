------------------------------ MODULE MCProxy ------------------------------
(***************************************************************************)
(* The lists the servers of the runs return.                               *)
(***************************************************************************)
EXTENDS Proxy

OnePage == <<Tools>>
TwoPages == <<{1, 2}, Tools \ {1, 2}>>
SmallPages == <<{1}, {2}>>
=============================================================================
