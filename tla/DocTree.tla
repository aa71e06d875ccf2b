------------------------------ MODULE DocTree ------------------------------
(***************************************************************************)
(* The document hierarchy and the trash: table `document`, the requests    *)
(* that change it (create, move, delete, restore a bundle, purge a bundle) *)
(* and the background retention sweep.                                     *)
(*                                                                         *)
(* Every HTTP request runs in one database session.  Its first SELECT      *)
(* fixes an InnoDB REPEATABLE READ snapshot, all guards are evaluated on   *)
(* that snapshot, and the single commit at its end writes only the columns *)
(* the session changed onto whatever rows are current by then: the rows    *)
(* carry no version and the UPDATEs no status condition.  A request is     *)
(* therefore two steps, Begin... (snapshot, guards, the columns to write)  *)
(* and Commit, with Abort for a request that dies in between.  A request   *)
(* whose guard fails answers 4xx and changes nothing: it is no step.       *)
(*                                                                         *)
(* sort_order, titles, versions, locks and permissions are not part of     *)
(* this module.                                                            *)
(***************************************************************************)
EXTENDS Integers, FiniteSets

CONSTANTS
    Docs,             \* document ids, allotted in increasing order (AUTO_INCREMENT)
    Workspaces,       \* workspace ids
    Requests,         \* concurrent requests (threads of the server's pool)
    SweepWorkspaces,  \* workspaces the retention sweep visits ({}: no sweep runs)
    Overlap,          \* FALSE: a request or sweep starts only when none is in flight
    Retention,        \* trash_retention_days, in units of the clock
    MaxTime,          \* bound on the clock
    Null,             \* SQL NULL
    Keep              \* "this session does not write this column of this row"

ASSUME DocsAssumption == Docs \subseteq Nat /\ IsFiniteSet(Docs)
ASSUME SweepAssumption == SweepWorkspaces \subseteq Workspaces
ASSUME TimeAssumption == Retention \in Nat \ {0} /\ MaxTime \in Nat
ASSUME OverlapAssumption == Overlap \in BOOLEAN
ASSUME NullAssumption ==
    /\ Null \notin Docs \cup Workspaces \cup Nat
    /\ Keep \notin Docs \cup Workspaces \cup Nat \cup {Null, "absent", "active", "trashed", "deleted"}

VARIABLES
    table,    \* the committed rows of table document, column by column
    now,      \* the clock, in the whole seconds a DATETIME column keeps
    request,  \* per request: idle, or open with its pending writes
    sweep     \* the retention sweep's session

vars == <<table, now, request, sweep>>

Status == {"absent", "active", "trashed", "deleted"}   \* absent: no row yet
Time == 0..MaxTime

Table == [workspace_id : [Docs -> Workspaces \cup {Null}],
          parent_id    : [Docs -> Docs \cup {Null}],
          status       : [Docs -> Status],
          trashed_at   : [Docs -> Time \cup {Null}]]

\* The columns a session has dirtied: Keep for those its UPDATE leaves out.
Writes == [workspace_id : [Docs -> Workspaces \cup {Null, Keep}],
           parent_id    : [Docs -> Docs \cup {Null, Keep}],
           status       : [Docs -> Status \cup {Keep}],
           trashed_at   : [Docs -> Time \cup {Null, Keep}]]

Assign(D, v) == [d \in Docs |-> IF d \in D THEN v ELSE Keep]

NoWrites == [workspace_id |-> Assign({}, Null), parent_id  |-> Assign({}, Null),
             status       |-> Assign({}, Null), trashed_at |-> Assign({}, Null)]

Flush(column, w) == [d \in Docs |-> IF w[d] = Keep THEN column[d] ELSE w[d]]

\* The table after a session that dirtied the columns w has committed.
Committed(T, w) ==
    [workspace_id |-> Flush(T.workspace_id, w.workspace_id),
     parent_id    |-> Flush(T.parent_id, w.parent_id),
     status       |-> Flush(T.status, w.status),
     trashed_at   |-> Flush(T.trashed_at, w.trashed_at)]

Empty == [workspace_id |-> [d \in Docs |-> Null], parent_id  |-> [d \in Docs |-> Null],
          status       |-> [d \in Docs |-> "absent"], trashed_at |-> [d \in Docs |-> Null]]

---------------------------------------------------------------------------
(***************************************************************************)
(* The hierarchy queries, over a table T.  Reach(x, E) is the least set    *)
(* that holds x and is closed under the edges E.                           *)
(***************************************************************************)
Closed(S, E) == \A e \in E : e[1] \in S => e[2] \in S

Reach(x, E) == {y \in Docs : \A S \in SUBSET Docs : x \in S /\ Closed(S, E) => y \in S}

ParentEdges(T) == {e \in Docs \X Docs : T.parent_id[e[1]] = e[2]}

ChildEdges(T, D) == {e \in Docs \X D : T.parent_id[e[2]] = e[1]}

AncestorsOrSelf(T, d) == Reach(d, ParentEdges(T))

\* Mutant: collect_active_descendants descends into trashed children too.
LiveEdges(T) == ChildEdges(T, {d \in Docs : T.status[d] \in {"active", "trashed"}})

ActiveEdges(T) == ChildEdges(T, {d \in Docs : T.status[d] = "active"})

ActiveDescendants(T, d) == Reach(d, ActiveEdges(T))

\* collect_active_descendants keeps no visited set: below a cycle it never ends.
DescentDiverges(T, d) ==
    \E e \in ActiveEdges(T) :
        e[1] \in ActiveDescendants(T, d) /\ e[1] \in Reach(e[2], ActiveEdges(T))

\* Mutant: _is_bundle_root without the comparison of the stamps.
IsBundleRootUnstamped(T, d) ==
    LET p == T.parent_id[d] IN p \in Docs => T.status[p] # "trashed"

\* Mutant: _is_bundle_root takes a deleted parent for a trashed one.
IsBundleRootUnderActive(T, d) ==
    LET p == T.parent_id[d] IN
        p \in Docs => \/ T.status[p] = "active"
                       \/ (T.status[p] = "trashed" /\ T.trashed_at[p] # T.trashed_at[d])

IsBundleRoot(T, d) ==
    LET p == T.parent_id[d] IN
        p \in Docs => T.status[p] # "trashed" \/ T.trashed_at[p] # T.trashed_at[d]

BundleEdges(T, stamp) ==
    ChildEdges(T, {d \in Docs : T.status[d] = "trashed" /\ T.trashed_at[d] = stamp})

Members(T, root) == Reach(root, BundleEdges(T, T.trashed_at[root]))

\* Mutant: get_bundle refuses active documents only.
BundleRootsNotActive(T) ==
    {d \in Docs : T.status[d] \in {"trashed", "deleted"} /\ IsBundleRoot(T, d)}

BundleRoots(T) == {d \in Docs : T.status[d] = "trashed" /\ IsBundleRoot(T, d)}

---------------------------------------------------------------------------
(***************************************************************************)
(* Requests.                                                               *)
(***************************************************************************)
Idle == [state |-> "idle", write |-> NoWrites]

NoSweep == [state |-> "idle", snap |-> Empty, seen |-> Empty, cached |-> {},
            due |-> [d \in Docs |-> Null]]

Quiet == (\A r \in Requests : request[r].state # "open") /\ sweep.state = "idle"

MayBegin(r) == request[r].state = "idle" /\ (Overlap \/ Quiet)

Open(r, w) ==
    /\ request' = [request EXCEPT ![r] = [state |-> "open", write |-> w]]
    /\ UNCHANGED <<table, now, sweep>>

\* An id no row and no INSERT in flight has taken.
Unused(d) == /\ table.status[d] = "absent"
             /\ \A r \in Requests : request[r].write.status[d] = Keep

\* An assignment that leaves parent_id as the session loaded it is not written.
Changed(d, p) == IF table.parent_id[d] = p THEN {} ELSE {d}

\* A parent a document of workspace w may be put under: none, or an active
\* document of the same workspace.
AdmissibleParent(w, p) ==
    \/ p = Null
    \/ /\ p \in Docs
       /\ table.status[p] = "active"
       /\ table.workspace_id[p] = w

\* create_document: POST /workspaces/{w}/documents
BeginCreate(r, d, w, p) ==
    /\ MayBegin(r)
    /\ Unused(d) /\ \A e \in Docs : Unused(e) => d <= e
    /\ AdmissibleParent(w, p)
    /\ Open(r, [workspace_id |-> Assign({d}, w), parent_id |-> Assign({d}, p),
                status |-> Assign({d}, "active"), trashed_at |-> Assign({d}, Null)])

\* Mutant: move_document without _reject_cycle.
BeginMoveUnchecked(r, d, p) ==
    /\ MayBegin(r)
    /\ table.status[d] = "active"
    /\ AdmissibleParent(table.workspace_id[d], p)
    /\ Open(r, [NoWrites EXCEPT !.parent_id = Assign(Changed(d, p), p)])

\* move_document: an active document goes under an admissible parent that is
\* neither itself nor one of its descendants.
BeginMove(r, d, p) ==
    /\ MayBegin(r)
    /\ table.status[d] = "active"
    /\ AdmissibleParent(table.workspace_id[d], p)
    /\ p \in Docs => d \notin AncestorsOrSelf(table, p)
    /\ Open(r, [NoWrites EXCEPT !.parent_id = Assign(Changed(d, p), p)])

\* Mutant: trash_document stores the end of the retention period.
BeginTrashExpiry(r, d) ==
    /\ MayBegin(r)
    /\ table.status[d] = "active"
    /\ ~DescentDiverges(table, d)
    /\ LET captured == ActiveDescendants(table, d) IN
        Open(r, [NoWrites EXCEPT !.status = Assign(captured, "trashed"),
                                 !.trashed_at = Assign(captured, now + Retention)])

\* Mutant: trash_document without its 409 for a document that is not active.
BeginTrashAny(r, d) ==
    /\ MayBegin(r)
    /\ table.status[d] # "absent"
    /\ ~DescentDiverges(table, d)
    /\ LET captured == ActiveDescendants(table, d) IN
        Open(r, [NoWrites EXCEPT !.status = Assign(captured, "trashed"),
                                 !.trashed_at = Assign(captured, now)])

\* trash_document: the document and its active descendants, one common stamp.
\* A descent that diverges never answers and never writes: it is no step.
BeginTrash(r, d) ==
    /\ MayBegin(r)
    /\ table.status[d] = "active"
    /\ ~DescentDiverges(table, d)
    /\ LET captured == ActiveDescendants(table, d) IN
        Open(r, [NoWrites EXCEPT !.status = Assign(captured, "trashed"),
                                 !.trashed_at = Assign(captured, now)])

\* Mutant: restore_bundle keeps the parent whatever its status.
RestoreParentKept(T, root) == T.parent_id[root]

\* Where a restored root goes back to: its parent if that is active, else the top.
RestoreParent(T, root) ==
    LET p == T.parent_id[root] IN
        IF p \in Docs /\ T.status[p] = "active" THEN p ELSE Null

\* Mutant: restore_bundle flips the root only.
BeginRestoreRootOnly(r, root) ==
    /\ MayBegin(r)
    /\ root \in BundleRoots(table)
    /\ LET p == RestoreParent(table, root) IN
        Open(r, [NoWrites EXCEPT !.status = Assign({root}, "active"),
                                 !.trashed_at = Assign({root}, Null),
                                 !.parent_id = Assign(Changed(root, p), p)])

\* Mutant: restore_bundle leaves the stamp.
BeginRestoreStamped(r, root) ==
    /\ MayBegin(r)
    /\ root \in BundleRoots(table)
    /\ LET p == RestoreParent(table, root) IN
        Open(r, [NoWrites EXCEPT !.status = Assign(Members(table, root), "active"),
                                 !.parent_id = Assign(Changed(root, p), p)])

\* restore_bundle
BeginRestore(r, root) ==
    /\ MayBegin(r)
    /\ root \in BundleRoots(table)
    /\ LET members == Members(table, root)
           p == RestoreParent(table, root) IN
        Open(r, [NoWrites EXCEPT !.status = Assign(members, "active"),
                                 !.trashed_at = Assign(members, Null),
                                 !.parent_id = Assign(Changed(root, p), p)])

\* purge_bundle: trashed_at is written back unchanged, hence not written.
PurgeWrites(D) == [NoWrites EXCEPT !.status = Assign(D, "deleted")]

BeginPurge(r, root) ==
    /\ MayBegin(r)
    /\ root \in BundleRoots(table)
    /\ Open(r, PurgeWrites(Members(table, root)))

Commit(r) ==
    /\ request[r].state = "open"
    /\ table' = Committed(table, request[r].write)
    /\ request' = [request EXCEPT ![r] = Idle]
    /\ UNCHANGED <<now, sweep>>

\* Deadlock victim, lost connection or server crash: nothing was written.
Abort(r) ==
    /\ request[r].state = "open"
    /\ request' = [request EXCEPT ![r] = Idle]
    /\ UNCHANGED <<table, now, sweep>>

Tick ==
    /\ now < MaxTime
    /\ now' = now + 1
    /\ UNCHANGED <<table, request, sweep>>

---------------------------------------------------------------------------
(***************************************************************************)
(* The retention sweep.  One session lists the bundles of a workspace and  *)
(* purges the expired ones, one commit each.  The session's objects keep   *)
(* the attributes they were first loaded with (expire_on_commit=False):    *)
(* seen holds those of the documents in cached, snap the rows its SELECTs  *)
(* filter on, due the stamps of the expired bundles still to purge.        *)
(***************************************************************************)
\* What the session sees of a table T: attributes of cached objects are stale.
Loaded(T, seen, cached) ==
    [workspace_id |-> [d \in Docs |-> IF d \in cached THEN seen.workspace_id[d] ELSE T.workspace_id[d]],
     parent_id    |-> [d \in Docs |-> IF d \in cached THEN seen.parent_id[d] ELSE T.parent_id[d]],
     status       |-> [d \in Docs |-> IF d \in cached THEN seen.status[d] ELSE T.status[d]],
     trashed_at   |-> [d \in Docs |-> IF d \in cached THEN seen.trashed_at[d] ELSE T.trashed_at[d]]]

Expired(stamp) == stamp + Retention <= now

\* Mutant: sweep_expired_bundles without its expiry test.
SweepStartAll(w) ==
    /\ sweep.state = "idle"
    /\ Overlap \/ Quiet
    /\ LET roots == {d \in BundleRoots(table) : table.workspace_id[d] = w} IN
        /\ sweep' = [state |-> "reading", snap |-> table, seen |-> table,
                     cached |-> UNION {Members(table, d) : d \in roots},
                     due |-> [d \in Docs |-> IF d \in roots THEN table.trashed_at[d] ELSE Null]]
        /\ UNCHANGED <<table, now, request>>

\* run_sweep reads the clock, then the bundles of workspace w.
SweepStart(w) ==
    /\ sweep.state = "idle"
    /\ Overlap \/ Quiet
    /\ LET roots == {d \in BundleRoots(table) : table.workspace_id[d] = w}
           due == {d \in roots : Expired(table.trashed_at[d])} IN
        /\ sweep' = [state |-> "reading", snap |-> table, seen |-> table,
                     cached |-> UNION {Members(table, d) : d \in roots},
                     due |-> [d \in Docs |-> IF d \in due THEN table.trashed_at[d] ELSE Null]]
        /\ UNCHANGED <<table, now, request>>

\* Bundles are taken in the order of (trashed_at, id).
NextDue(d) ==
    /\ sweep.due[d] # Null
    /\ \A e \in Docs : sweep.due[e] # Null =>
            sweep.due[d] < sweep.due[e] \/ (sweep.due[d] = sweep.due[e] /\ d <= e)

View == Loaded(sweep.snap, sweep.seen, sweep.cached)

\* list_children(..., "trashed"): the SELECT filters rows of the snapshot, the
\* comparison of the stamps reads the loaded objects.
SweepMembers(root) ==
    Reach(root, {e \in Docs \X Docs :
                    /\ sweep.snap.parent_id[e[2]] = e[1]
                    /\ sweep.snap.status[e[2]] = "trashed"
                    /\ View.trashed_at[e[2]] = View.trashed_at[root]})

\* purge_bundle(root) in the sweep's session, and its commit.
SweepPurge(root) ==
    /\ sweep.state = "reading"
    /\ NextDue(root)
    /\ root \in BundleRoots(View)
    /\ LET members == SweepMembers(root)
           dirty == {d \in members : View.status[d] # "deleted"} IN
        /\ table' = Committed(table, PurgeWrites(dirty))
        /\ sweep' = [sweep EXCEPT
                        !.state = "between", !.snap = Empty, !.due[root] = Null,
                        !.seen.status = [d \in Docs |->
                            IF d \in dirty \cap sweep.cached THEN "deleted" ELSE sweep.seen.status[d]]]
        /\ UNCHANGED <<now, request>>

\* The bundle fails (404 of get_bundle, or a database error): it is logged and
\* left, and the rollback expires every object of the session.
SweepSkip(root) ==
    /\ sweep.state = "reading"
    /\ NextDue(root)
    /\ sweep' = [sweep EXCEPT !.state = "between", !.snap = Empty, !.seen = Empty,
                              !.cached = {}, !.due[root] = Null]
    /\ UNCHANGED <<table, now, request>>

\* The first SELECT after a commit or rollback opens a new snapshot.
SweepReopen ==
    /\ sweep.state = "between"
    /\ \E d \in Docs : sweep.due[d] # Null
    /\ sweep' = [sweep EXCEPT !.state = "reading", !.snap = table]
    /\ UNCHANGED <<table, now, request>>

SweepEnd ==
    /\ sweep.state # "idle"
    /\ \A d \in Docs : sweep.due[d] = Null
    /\ sweep' = NoSweep
    /\ UNCHANGED <<table, now, request>>

---------------------------------------------------------------------------
Init ==
    /\ table = Empty
    /\ now = 0
    /\ request = [r \in Requests |-> Idle]
    /\ sweep = NoSweep

RequestStep(r) ==
    \/ \E d \in Docs, w \in Workspaces, p \in Docs \cup {Null} : BeginCreate(r, d, w, p)
    \/ \E d \in Docs, p \in Docs \cup {Null} : BeginMove(r, d, p)
    \/ \E d \in Docs : BeginTrash(r, d)
    \/ \E d \in Docs : BeginRestore(r, d)
    \/ \E d \in Docs : BeginPurge(r, d)
    \/ Commit(r)
    \/ Abort(r)

SweepStep ==
    \/ \E w \in SweepWorkspaces : SweepStart(w)
    \/ \E d \in Docs : SweepPurge(d)
    \/ \E d \in Docs : SweepSkip(d)
    \/ SweepReopen
    \/ SweepEnd

Next ==
    \/ \E r \in Requests : RequestStep(r)
    \/ SweepStep
    \/ Tick

Spec == Init /\ [][Next]_vars

\* The sweep is a periodic job, so it starts again and again and runs on; no
\* bundle fails for ever.  Requests finish one way or the other; the
\* users that send them owe nothing.
Fairness ==
    /\ \A w \in SweepWorkspaces : WF_vars(SweepStart(w))
    /\ WF_vars(SweepReopen) /\ WF_vars(SweepEnd)
    /\ WF_vars(\E d \in Docs : SweepPurge(d) \/ SweepSkip(d))
    /\ \A d \in Docs : SF_vars(SweepPurge(d))
    /\ \A r \in Requests : WF_vars(Commit(r) \/ Abort(r))
    /\ WF_vars(Tick)

---------------------------------------------------------------------------
(***************************************************************************)
(* Properties.                                                             *)
(***************************************************************************)
\* The variables range over the rows, pending writes and sessions above.
TypeOK ==
    /\ table \in Table
    /\ now \in Time
    /\ request \in [Requests -> [state : {"idle", "open"}, write : Writes]]
    /\ sweep \in [state : {"idle", "reading", "between"}, snap : Table, seen : Table,
                  cached : SUBSET Docs, due : [Docs -> Time \cup {Null}]]

\* INV-5: no document is its own ancestor (_reject_cycle of move_document).
Acyclic ==
    \A d \in Docs : table.parent_id[d] \in Docs =>
        d \notin AncestorsOrSelf(table, table.parent_id[d])

\* INV-6: a parent is a row of the same workspace, whichever requests overlap.
SameWorkspace ==
    \A d \in Docs : table.parent_id[d] \in Docs =>
        /\ table.workspace_id[d] # Null
        /\ table.workspace_id[table.parent_id[d]] = table.workspace_id[d]

\* An active document hangs under active documents only: the tree the client
\* draws from the active documents has no orphans.
ActiveUnderActive ==
    \A d \in Docs : table.status[d] = "active" /\ table.parent_id[d] \in Docs =>
        table.status[table.parent_id[d]] = "active"

\* identify_bundles and get_bundle agree on a partition: every trashed document
\* is a member of exactly one bundle, so each can be restored or purged.
BundlesPartitionTrash ==
    \A d \in Docs : table.status[d] = "trashed" =>
        Cardinality({root \in BundleRoots(table) : d \in Members(table, root)}) = 1

\* A trashed document has a stamp and an active one has none.  A trashed row
\* without a stamp would make the expiry sum of list_trash and of the sweep fail.
StampCoherent ==
    \A d \in Docs :
        /\ table.status[d] = "trashed" => table.trashed_at[d] \in Time
        /\ table.status[d] \in {"absent", "active"} => table.trashed_at[d] = Null

\* INV-10: no step splits a bundle; its members leave the trash together and to
\* the same state.
BundleAtomic ==
    [][\A root \in BundleRoots(table) : LET M == Members(table, root) IN
          (\E d \in M : table'.status[d] # "trashed") =>
             \A d \in M : table'.status[d] = table'.status[root]]_table

\* INV-12: nothing resets the retention timer of a document in the trash, a
\* later delete of its parent included.
TimerNeverReset ==
    [][\A d \in Docs : table.status[d] = "trashed" /\ table'.status[d] = "trashed" =>
          table'.trashed_at[d] = table.trashed_at[d]]_table

\* INV-11: a child that is in the trash under a parent in the trash was trashed
\* before its parent or together with it.
ChildTrashedFirst ==
    \A d \in Docs : LET p == table.parent_id[d] IN
        p \in Docs /\ table.status[d] = "trashed" /\ table.status[p] = "trashed" =>
            table.trashed_at[d] <= table.trashed_at[p]

\* The sweep deletes a document only if at that moment it is in the trash and
\* its retention period is over; a restored bundle is left alone.
SweepDeletesOnlyExpiredTrash ==
    [][request' = request =>
        \A d \in Docs : table'.status[d] = "deleted" /\ table.status[d] # "deleted" =>
            table.status[d] = "trashed" /\ Expired(table.trashed_at[d])]_table

\* A deleted document no request in flight is about to bring back.
Settled(d) ==
    /\ table.status[d] = "deleted"
    /\ \A r \in Requests : request[r].write.status[d] \in {Keep, "deleted"}

\* INV-7 under concurrency: a deleted document stays deleted unless a request
\* that had read it before is still in flight; none that begins later changes it.
DeletedSettles == [][\A d \in Docs : Settled(d) => Settled(d)']_vars

\* Whatever users do meanwhile, an expired document leaves the trash.
ExpiredLeavesTrash ==
    \A d \in Docs :
        (table.status[d] = "trashed" /\ Expired(table.trashed_at[d]))
            ~> table.status[d] # "trashed"

\* Every document goes through the life cycle of DocLifecycle: whole sets of
\* documents move from active to trashed, back, or on to deleted for good (INV-7).
Promise == INSTANCE DocLifecycle WITH status <- table.status
FollowsLifecycle == Promise!Spec
=============================================================================
