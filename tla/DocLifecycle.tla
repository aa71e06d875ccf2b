---------------------------- MODULE DocLifecycle ----------------------------
(***************************************************************************)
(* What the trash promises about documents, without hierarchy, requests or *)
(* sessions: a document is created active; a set of documents goes to the  *)
(* trash, comes back, or is deleted, all of it in one step; deleted is     *)
(* terminal.                                                               *)
(***************************************************************************)
CONSTANT Docs

VARIABLE status

\* Every document of D leaves state `from` for state `to`; no other changes.
Shift(D, from, to) ==
    /\ \A d \in D : status[d] = from
    /\ status' = [d \in Docs |-> IF d \in D THEN to ELSE status[d]]

Create(d)  == Shift({d}, "absent", "active")
Trash(D)   == Shift(D, "active", "trashed")
Restore(D) == Shift(D, "trashed", "active")
Purge(D)   == Shift(D, "trashed", "deleted")

Init == status = [d \in Docs |-> "absent"]

Next ==
    \/ \E d \in Docs : Create(d)
    \/ \E D \in SUBSET Docs : Trash(D) \/ Restore(D) \/ Purge(D)

Spec == Init /\ [][Next]_status
=============================================================================
