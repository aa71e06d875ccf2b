------------------------------ MODULE LockedLog ------------------------------
(***************************************************************************)
(* What the edit lock promises: one user at a time holds the document, a   *)
(* version is appended by the holder only, appending gives the lock up,    *)
(* and no version is ever changed or removed.                              *)
(***************************************************************************)
EXTENDS Sequences

CONSTANTS Users, Null

VARIABLES lock, log    \* the holder, and the authors of the versions

vars == <<lock, log>>

Acquire(u) == lock = Null /\ lock' = u /\ UNCHANGED log

Save(u) == lock = u /\ log' = Append(log, u) /\ lock' = Null

Release == lock # Null /\ lock' = Null /\ UNCHANGED log

Init == lock = Null /\ log = <<>>

Next == \/ \E u \in Users : Acquire(u) \/ Save(u)
        \/ Release

Spec == Init /\ [][Next]_vars
=============================================================================
