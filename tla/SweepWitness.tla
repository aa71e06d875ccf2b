---------------------------- MODULE SweepWitness ----------------------------
(***************************************************************************)
(* DocTree with a record of what was in the trash while the retention      *)
(* sweep ran.  Requests overlap the sweep, whose session keeps objects it  *)
(* loaded before (expire_on_commit=False) and tests the retention period   *)
(* once, when it lists the bundles: what it may delete is therefore a      *)
(* matter of what it could have seen since.                                *)
(***************************************************************************)
EXTENDS DocTree

VARIABLES
    trashed,    \* history: the documents in the trash at some moment since the sweep began
    expired,    \* history: those of them whose retention period was over at such a moment
    failed      \* history: a bundle has failed since the sweep began

witnessvars == <<vars, trashed, expired, failed>>

InTrash == {d \in Docs : table.status[d] = "trashed"}
PastRetention == {d \in InTrash : Expired(table.trashed_at[d])}

\* What a step adds to the record; the end of the sweep clears it.
Recorded ==
    IF sweep'.state = "idle"
    THEN trashed' = {} /\ expired' = {} /\ failed' = FALSE
    ELSE /\ trashed' = trashed \cup InTrash'
         /\ expired' = expired \cup PastRetention'
         /\ failed' = (failed \/ \E d \in Docs : SweepSkip(d))

WitnessInit == Init /\ trashed = {} /\ expired = {} /\ failed = FALSE
WitnessNext == Next /\ Recorded
WitnessSpec == WitnessInit /\ [][WitnessNext]_witnessvars
FairWitnessSpec == WitnessSpec /\ Fairness

---------------------------------------------------------------------------
\* Whatever requests commit while it runs, the sweep deletes no document that has not
\* been in the trash since it began, and, until a bundle fails and the rollback makes it
\* load the others anew, none that has not been there past its retention period.
SweepDeletesWitnessed ==
    [][request' = request =>
        \A d \in Docs : table'.status[d] = "deleted" /\ table.status[d] # "deleted" =>
            d \in trashed /\ (failed \/ d \in expired)]_witnessvars
=============================================================================
