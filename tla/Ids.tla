-------------------------------- MODULE Ids --------------------------------
(***************************************************************************)
(* Ids of rows and slots: natural numbers, allotted in increasing order.   *)
(***************************************************************************)
EXTENDS Naturals

Least(ids) == CHOOSE i \in ids : \A j \in ids : i <= j
=============================================================================
