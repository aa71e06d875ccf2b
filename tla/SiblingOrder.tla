---------------------------- MODULE SiblingOrder ----------------------------
(***************************************************************************)
(* Where documents stand among their siblings: the sort_order that create, *)
(* move and restore compute.  A document is inserted between two siblings  *)
(* by giving it the middle of their values; nobody else is renumbered.     *)
(*                                                                         *)
(* One request at a time.  The lists are those of one workspace: the top   *)
(* level (parent Null) and the children of some folders.  A folder is a    *)
(* document whose own place is of no interest here; it goes to the trash   *)
(* and comes back with its children.  Values are integers: a unit is the   *)
(* last decimal of DECIMAL(30,15), so Step, 1000 in the code, is 10^18.    *)
(***************************************************************************)
EXTENDS Integers, FiniteSets

CONSTANTS
    Docs,       \* document ids, allotted in increasing order
    Folders,    \* the documents they can have as a parent
    Step,       \* _SORT_ORDER_STEP and _SORT_ORDER_START, in units
    MaxPlacements,   \* bound on the number of moves and restores
    Null        \* SQL NULL: no parent, no neighbour

ASSUME DocsAssumption == Docs \subseteq Nat /\ IsFiniteSet(Docs) /\ Null \notin Docs \cup Folders
ASSUME StepAssumption == Step \in Nat \ {0} /\ MaxPlacements \in Nat

VARIABLES
    status,       \* of documents; bundled: in the trash as part of its folder's bundle
    parent_id,
    sort_order,
    folder,       \* status of the folders
    placements    \* moves and restores so far

vars == <<status, parent_id, sort_order, folder, placements>>

Parents == Folders \cup {Null}

---------------------------------------------------------------------------
(***************************************************************************)
(* Siblings in order.                                                      *)
(***************************************************************************)
\* The order of list_siblings.
Precedes(d, e) ==
    sort_order[d] < sort_order[e] \/ (sort_order[d] = sort_order[e] /\ d < e)

Siblings(p) == {d \in Docs : status[d] = "active" /\ parent_id[d] = p}

First(S) == IF S = {} THEN Null ELSE CHOOSE d \in S : \A e \in S \ {d} : Precedes(d, e)
Last(S)  == IF S = {} THEN Null ELSE CHOOSE d \in S : \A e \in S \ {d} : Precedes(e, d)

\* The middle of two values, rounded by the column: half away from zero.
Middle(x, y) == IF x + y >= 0 THEN (x + y + 1) \div 2 ELSE (x + y) \div 2

\* The value given to a document put between two siblings, Null at the ends.
Between(lower, upper) ==
    CASE lower # Null /\ upper # Null -> Middle(sort_order[lower], sort_order[upper])
      [] lower # Null /\ upper = Null -> sort_order[lower] + Step
      [] lower = Null /\ upper # Null -> sort_order[upper] - Step
      [] OTHER                        -> Step

---------------------------------------------------------------------------
(***************************************************************************)
(* Requests.                                                               *)
(***************************************************************************)
Admissible(p) == p \in Folders => folder[p] = "active"

\* create_document: behind the last sibling.
Create(d, p) ==
    /\ status[d] = "absent" /\ \A e \in Docs : status[e] = "absent" => d <= e
    /\ Admissible(p)
    /\ status' = [status EXCEPT ![d] = "active"]
    /\ parent_id' = [parent_id EXCEPT ![d] = p]
    /\ sort_order' = [sort_order EXCEPT ![d] = Between(Last(Siblings(p)), Null)]
    /\ UNCHANGED <<folder, placements>>

\* _insertion_bounds: the neighbours of the place behind sibling `after` and
\* before sibling `before`; with neither, behind the last.
Lower(S, after, before) ==
    IF after # Null THEN after
    ELSE IF before # Null THEN Last({e \in S : Precedes(e, before)}) ELSE Last(S)

\* Mutant: behind `after` counts as behind the last.
UpperIgnored(S, after, before) == before

Upper(S, after, before) ==
    IF before # Null THEN before
    ELSE IF after # Null THEN First({e \in S : Precedes(after, e)}) ELSE Null

\* move_document: 422 for a reference that is no sibling, or two that are not
\* adjacent.
Move(d, p, after, before) ==
    LET S == Siblings(p) \ {d} IN
    /\ placements < MaxPlacements
    /\ status[d] = "active" /\ Admissible(p)
    /\ {after, before} \subseteq S \cup {Null}
    /\ after # Null /\ before # Null => First({e \in S : Precedes(after, e)}) = before
    /\ parent_id' = [parent_id EXCEPT ![d] = p]
    /\ sort_order' = [sort_order EXCEPT ![d] =
                        Between(Lower(S, after, before), Upper(S, after, before))]
    /\ placements' = placements + 1
    /\ UNCHANGED <<status, folder>>

\* trash_document: sort_order and parent_id stay.
Trash(d) ==
    /\ status[d] = "active"
    /\ status' = [status EXCEPT ![d] = "trashed"]
    /\ UNCHANGED <<parent_id, sort_order, folder, placements>>

\* Mutant: on a collision the document goes behind everything above.
RestoreOrderPast(S, original) ==
    LET above == {e \in S : sort_order[e] > original} IN
    IF \A e \in S : sort_order[e] # original THEN original
    ELSE Between(Last(above), Null)

\* _resolve_restore_sort_order: the old value if no sibling has it, else one
\* between the siblings below and above, or next to the end that is left.
RestoreOrder(S, original) ==
    LET below == {e \in S : sort_order[e] < original}
        above == {e \in S : sort_order[e] > original} IN
    IF \A e \in S : sort_order[e] # original THEN original
    ELSE IF above = {} THEN Between(Last(S), Null)
    ELSE Between(Last(below), First(above))

\* Mutant: a document without a parent gets its old value back.
RestoreInPlace(d) ==
    /\ placements < MaxPlacements
    /\ status[d] = "trashed"
    /\ status' = [status EXCEPT ![d] = "active"]
    /\ parent_id' = [parent_id EXCEPT ![d] = IF Admissible(@) THEN @ ELSE Null]
    /\ placements' = placements + 1
    /\ UNCHANGED <<sort_order, folder>>

\* restore_bundle: back under an active parent, else last at the top level.
Restore(d) ==
    LET p == parent_id[d] IN
    /\ placements < MaxPlacements
    /\ status[d] = "trashed"
    /\ status' = [status EXCEPT ![d] = "active"]
    /\ IF p \in Folders /\ folder[p] = "active"
       THEN /\ sort_order' = [sort_order EXCEPT ![d] = RestoreOrder(Siblings(p), @)]
            /\ UNCHANGED parent_id
       ELSE /\ sort_order' = [sort_order EXCEPT ![d] = Between(Last(Siblings(Null)), Null)]
            /\ parent_id' = [parent_id EXCEPT ![d] = Null]
    /\ placements' = placements + 1
    /\ UNCHANGED folder

\* A folder and its active children change state together.
Shift(f, from, to, kids, then) ==
    /\ folder[f] = from
    /\ folder' = [folder EXCEPT ![f] = to]
    /\ status' = [d \in Docs |-> IF parent_id[d] = f /\ status[d] = kids THEN then ELSE status[d]]
    /\ UNCHANGED <<parent_id, sort_order, placements>>

TrashFolder(f)   == Shift(f, "active", "trashed", "active", "bundled")
RestoreFolder(f) == Shift(f, "trashed", "active", "bundled", "active")
PurgeFolder(f)   == Shift(f, "trashed", "deleted", "bundled", "deleted")

---------------------------------------------------------------------------
Init ==
    /\ status = [d \in Docs |-> "absent"]
    /\ parent_id = [d \in Docs |-> Null]
    /\ sort_order = [d \in Docs |-> 0]
    /\ folder = [f \in Folders |-> "active"]
    /\ placements = 0

Next ==
    \/ \E d \in Docs, p \in Parents : Create(d, p)
    \/ \E d \in Docs, p \in Parents, after, before \in Docs \cup {Null} : Move(d, p, after, before)
    \/ \E d \in Docs : Trash(d) \/ Restore(d)
    \/ \E f \in Folders : TrashFolder(f) \/ RestoreFolder(f) \/ PurgeFolder(f)

Spec == Init /\ [][Next]_vars

---------------------------------------------------------------------------
(***************************************************************************)
(* Properties.                                                             *)
(***************************************************************************)
\* While placements have not used up the decimals (2^placements <= Step), no two documents
\* of the top level share a value, so that there is room between any two.
RootDistinct ==
    \A d, e \in Siblings(Null) : d # e => sort_order[d] # sort_order[e]

\* A document moved at the top level lands exactly where it was asked to.
MoveLands ==
    [][\A d \in Docs, after, before \in Docs \cup {Null} :
          Move(d, Null, after, before) =>
             LET S == Siblings(Null)' \ {d} IN
             /\ after # Null => Precedes(after, d)'
             /\ before # Null => Precedes(d, before)'
             /\ after # Null => ~\E e \in S : (Precedes(after, e) /\ Precedes(e, d))'
             /\ before # Null => ~\E e \in S : (Precedes(d, e) /\ Precedes(e, before))'
             /\ after = Null /\ before = Null => \A e \in S : Precedes(e, d)']_vars

\* A document restored to its folder passes no sibling that stood before or
\* behind its old place.
RestoreNearby ==
    [][\A d \in Docs : Restore(d) /\ parent_id[d] \in Folders /\ parent_id'[d] = parent_id[d] =>
          \A e \in Siblings(parent_id[d]) :
             /\ sort_order[e] < sort_order[d] => sort_order'[e] < sort_order'[d]
             /\ sort_order[e] > sort_order[d] => sort_order'[e] > sort_order'[d]]_vars

\* A document restored to its folder gets a value no sibling has.
RestoreAvoidsCollision ==
    [][\A d \in Docs : Restore(d) /\ parent_id'[d] \in Folders =>
          \A e \in Siblings(parent_id[d]) : sort_order'[e] # sort_order'[d]]_vars
=============================================================================
