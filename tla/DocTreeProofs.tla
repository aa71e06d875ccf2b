--------------------------- MODULE DocTreeProofs ---------------------------
(***************************************************************************)
(* What holds of DocTree for every set of documents, workspaces and        *)
(* requests: first with or without overlapping requests and sweep, then    *)
(* when they do not overlap, the setting move_document, the state engine   *)
(* and the sweep were written for: the shape of the tree, the bundles of   *)
(* the trash, and the life cycle of documents; last, overlap included      *)
(* again, what the sweep has seen of the documents it deletes.             *)
(***************************************************************************)
EXTENDS SweepWitness, FiniteSetTheorems, WellFoundedInduction, TLAPS

---------------------------------------------------------------------------
(***************************************************************************)
(* Reachability.                                                           *)
(***************************************************************************)
LEMMA ReachInDocs == \A x, E : Reach(x, E) \subseteq Docs
BY DEF Reach

\* Only the start and the targets of edges are reached.
LEMMA ReachTargets ==
    ASSUME NEW T, NEW x \in Docs, NEW D \in SUBSET Docs, NEW y \in Reach(x, ChildEdges(T, D))
    PROVE  y = x \/ y \in D
<1> DEFINE S == {x} \cup D
<1>1. S \in SUBSET Docs /\ x \in S  OBVIOUS
<1>2. Closed(S, ChildEdges(T, D))  BY DEF Closed, ChildEdges
<1>3. y \in S  BY <1>1, <1>2 DEF Reach
<1> QED  BY <1>3

\* trash_document captures active documents, a bundle holds trashed ones.
LEMMA CapturedActive ==
    ASSUME NEW T, NEW x \in Docs, T.status[x] = "active"
    PROVE  \A d \in ActiveDescendants(T, x) : T.status[d] = "active"
BY ReachTargets DEF ActiveDescendants, ActiveEdges

LEMMA MembersTrashed ==
    ASSUME NEW T, NEW x \in BundleRoots(T)
    PROVE  \A d \in Members(T, x) : T.status[d] = "trashed"
BY ReachTargets DEF BundleRoots, Members, BundleEdges

---------------------------------------------------------------------------
(***************************************************************************)
(* Type correctness.                                                       *)
(***************************************************************************)
LEMMA AssignType ==
    ASSUME NEW D, NEW V, NEW v \in V
    PROVE  Assign(D, v) \in [Docs -> V \cup {Keep}]
BY DEF Assign

LEMMA NoWritesType == NoWrites \in Writes
BY DEF NoWrites, Writes, Assign

LEMMA CommittedType ==
    ASSUME NEW T \in Table, NEW w \in Writes
    PROVE  Committed(T, w) \in Table
<1>1. \A d \in Docs : /\ w.workspace_id[d] \in Workspaces \cup {Null, Keep}
                      /\ w.parent_id[d] \in Docs \cup {Null, Keep}
                      /\ w.status[d] \in Status \cup {Keep}
                      /\ w.trashed_at[d] \in Time \cup {Null, Keep}
  BY DEF Writes
<1>2. \A d \in Docs : /\ T.workspace_id[d] \in Workspaces \cup {Null}
                      /\ T.parent_id[d] \in Docs \cup {Null}
                      /\ T.status[d] \in Status
                      /\ T.trashed_at[d] \in Time \cup {Null}
  BY DEF Table
<1> QED  BY <1>1, <1>2 DEF Committed, Flush, Table

LEMMA EmptyType == Empty \in Table
BY DEF Empty, Table, Status

LEMMA LoadedType ==
    ASSUME NEW T \in Table, NEW S \in Table, NEW D \in SUBSET Docs
    PROVE  Loaded(T, S, D) \in Table
BY DEF Loaded, Table

LEMMA PurgeWritesType == \A D : PurgeWrites(D) \in Writes
BY NoWritesType DEF PurgeWrites, Assign, Writes, Status

\* What a request may have pending.
LEMMA OpenType ==
    ASSUME TypeOK, NEW r \in Requests, NEW w \in Writes, Open(r, w)
    PROVE  TypeOK'
BY DEF TypeOK, Open

THEOREM TypeCorrect == Spec => []TypeOK
<1>1. Init => TypeOK
  BY EmptyType, NoWritesType, TimeAssumption DEF Init, TypeOK, Idle, NoSweep, Time
<1>2. TypeOK /\ [Next]_vars => TypeOK'
  <2> SUFFICES ASSUME TypeOK, [Next]_vars PROVE TypeOK'
    OBVIOUS
  <2>1. ASSUME NEW r \in Requests, NEW d \in Docs, NEW w \in Workspaces,
               NEW p \in Docs \cup {Null}, BeginCreate(r, d, w, p)
        PROVE  TypeOK'
    <3> DEFINE wr == [workspace_id |-> Assign({d}, w), parent_id |-> Assign({d}, p),
                      status |-> Assign({d}, "active"), trashed_at |-> Assign({d}, Null)]
    <3>1. wr \in Writes  BY DEF Writes, Assign, Status
    <3> QED  BY <2>1, <3>1, OpenType DEF BeginCreate
  <2>2. ASSUME NEW r \in Requests, NEW d \in Docs, NEW p \in Docs \cup {Null},
               BeginMove(r, d, p)
        PROVE  TypeOK'
    <3> DEFINE wr == [NoWrites EXCEPT !.parent_id = Assign(Changed(d, p), p)]
    <3>1. wr \in Writes  BY NoWritesType, AssignType DEF Writes, Assign
    <3> QED  BY <2>2, <3>1, OpenType DEF BeginMove
  <2>3. ASSUME NEW r \in Requests, NEW d \in Docs, BeginTrash(r, d)
        PROVE  TypeOK'
    <3> DEFINE captured == ActiveDescendants(table, d)
               wr == [NoWrites EXCEPT !.status = Assign(captured, "trashed"),
                                      !.trashed_at = Assign(captured, now)]
    <3>1. wr \in Writes  BY NoWritesType DEF Writes, Assign, Status, TypeOK
    <3> QED  BY <2>3, <3>1, OpenType DEF BeginTrash
  <2>4. ASSUME NEW r \in Requests, NEW root \in Docs, BeginRestore(r, root)
        PROVE  TypeOK'
    <3> DEFINE members == Members(table, root)
               p == RestoreParent(table, root)
               wr == [NoWrites EXCEPT !.status = Assign(members, "active"),
                                      !.trashed_at = Assign(members, Null),
                                      !.parent_id = Assign(Changed(root, p), p)]
    <3>1. p \in Docs \cup {Null}  BY DEF RestoreParent
    <3> HIDE DEF p
    <3>2. wr \in Writes  BY <3>1, NoWritesType DEF Writes, Assign, Status
    <3> QED  BY <2>4, <3>2, OpenType DEF BeginRestore, p
  <2>5. ASSUME NEW r \in Requests, NEW root \in Docs, BeginPurge(r, root)
        PROVE  TypeOK'
    BY <2>5, OpenType, PurgeWritesType DEF BeginPurge
  <2>6. ASSUME NEW r \in Requests, Commit(r)
        PROVE  TypeOK'
    <3>1. request[r].write \in Writes  BY DEF TypeOK
    <3>2. table' \in Table  BY <2>6, <3>1, CommittedType DEF Commit, TypeOK
    <3> QED  BY <2>6, <3>2, NoWritesType DEF Commit, TypeOK, Idle
  <2>7. ASSUME NEW r \in Requests, Abort(r)
        PROVE  TypeOK'
    BY <2>7, NoWritesType DEF Abort, TypeOK, Idle
  <2>8. ASSUME NEW w \in SweepWorkspaces, SweepStart(w)
        PROVE  TypeOK'
    <3>1. \A d \in Docs : table.trashed_at[d] \in Time \cup {Null}
      BY DEF TypeOK, Table
    <3>2. UNION {Members(table, d) :
                    d \in {e \in BundleRoots(table) : table.workspace_id[e] = w}} \in SUBSET Docs
      BY ReachInDocs DEF Members
    <3> QED  BY <2>8, <3>1, <3>2 DEF SweepStart, TypeOK
  <2>9. ASSUME NEW root \in Docs, SweepPurge(root)
         PROVE  TypeOK'
    <3> DEFINE dirty == {d \in SweepMembers(root) : View.status[d] # "deleted"}
    <3>1. table' = Committed(table, PurgeWrites(dirty))
      BY <2>9 DEF SweepPurge
    <3>2. table' \in Table
      BY <3>1, CommittedType, PurgeWritesType DEF TypeOK
    <3>3. sweep.seen \in Table /\ sweep.due \in [Docs -> Time \cup {Null}]
          /\ sweep.cached \in SUBSET Docs
      BY DEF TypeOK
    <3> DEFINE st == [d \in Docs |-> IF d \in dirty \cap sweep.cached
                                       THEN "deleted" ELSE sweep.seen.status[d]]
    <3>4. sweep' = [sweep EXCEPT !.state = "between", !.snap = Empty, !.due[root] = Null,
                                 !.seen.status = st]
      BY <2>9 DEF SweepPurge
    <3>5. st \in [Docs -> Status]
      BY <3>3 DEF Table, Status
    <3> HIDE DEF st
    <3>6. [sweep.seen EXCEPT !.status = st] \in Table
      BY <3>3, <3>5 DEF Table
    <3>7. sweep' \in [state : {"idle", "reading", "between"}, snap : Table, seen : Table,
                      cached : SUBSET Docs, due : [Docs -> Time \cup {Null}]]
      BY <3>3, <3>4, <3>6, EmptyType DEF TypeOK
    <3> QED  BY <2>9, <3>2, <3>7 DEF SweepPurge, TypeOK
  <2>10. ASSUME NEW root \in Docs, SweepSkip(root)
         PROVE  TypeOK'
    BY <2>10, EmptyType DEF SweepSkip, TypeOK
  <2>11. CASE SweepReopen
    BY <2>11 DEF SweepReopen, TypeOK
  <2>12. CASE SweepEnd
    BY <2>12, EmptyType DEF SweepEnd, NoSweep, TypeOK
  <2>13. CASE Tick
    BY <2>13, TimeAssumption DEF Tick, TypeOK, Time
  <2>14. CASE UNCHANGED vars
    BY <2>14 DEF vars, TypeOK
  <2> QED
    BY <2>1, <2>2, <2>3, <2>4, <2>5, <2>6, <2>7, <2>8, <2>9, <2>10, <2>11,
       <2>12, <2>13, <2>14 DEF Next, RequestStep, SweepStep
<1> QED  BY <1>1, <1>2, PTL DEF Spec

\* Requests change neither the clock nor the sweep, and the table by their commit only.
LEMMA RequestsApart ==
    ASSUME NEW r \in Requests, RequestStep(r)
    PROVE  UNCHANGED <<now, sweep>> /\ (table' = table \/ Commit(r))
<1>1. CASE \/ \E d \in Docs, w \in Workspaces, p \in Docs \cup {Null} : BeginCreate(r, d, w, p)
           \/ \E d \in Docs, p \in Docs \cup {Null} : BeginMove(r, d, p)
  BY <1>1 DEF BeginCreate, BeginMove, Open
<1>2. CASE \E d \in Docs : BeginTrash(r, d) \/ BeginRestore(r, d) \/ BeginPurge(r, d)
  BY <1>2 DEF BeginTrash, BeginRestore, BeginPurge, Open
<1>3. CASE Commit(r) \/ Abort(r)
  BY <1>3 DEF Commit, Abort
<1> QED  BY <1>1, <1>2, <1>3 DEF RequestStep

\* The rows change by the commit of a request or of the sweep.
LEMMA Writers ==
    ASSUME [Next]_vars, table' # table
    PROVE  (\E r \in Requests : Commit(r)) \/ (\E root \in Docs : SweepPurge(root))
<1>1. CASE SweepStep
  <2>1. ASSUME NEW w, SweepStart(w) PROVE FALSE  BY <2>1 DEF SweepStart
  <2>2. ASSUME NEW e, SweepSkip(e) PROVE FALSE  BY <2>2 DEF SweepSkip
  <2>3. ~SweepReopen /\ ~SweepEnd  BY DEF SweepReopen, SweepEnd
  <2> QED  BY <1>1, <2>1, <2>2, <2>3 DEF SweepStep
<1> QED  BY <1>1, RequestsApart DEF Next, Tick, vars

---------------------------------------------------------------------------
(***************************************************************************)
(* Deleted is for good.                                                    *)
(***************************************************************************)
\* A request that begins leaves the settled documents alone if it writes the
\* status of live documents only.
LEMMA OpenSettles ==
    ASSUME TypeOK, NEW r \in Requests, NEW w \in Writes, Open(r, w),
           \A d \in Docs : table.status[d] = "deleted" => w.status[d] = Keep
    PROVE  \A d \in Docs : Settled(d) => Settled(d)'
BY DEF Open, Settled, TypeOK

LEMMA PurgeSettles ==
    ASSUME TypeOK, NEW D, table' = Committed(table, PurgeWrites(D)), UNCHANGED request,
           NEW d \in Docs, Settled(d)
    PROVE  Settled(d)'
BY DEF Settled, Committed, Flush, PurgeWrites, Assign, NoWrites

\* DeletedSettles: once no request that read a document earlier is in flight,
\* its deletion is final, however requests and sweep overlap.
THEOREM DeletionIsFinal == Spec => DeletedSettles
<1>1. TypeOK /\ [Next]_vars => [\A d \in Docs : Settled(d) => Settled(d)']_vars
  <2> SUFFICES ASSUME TypeOK, Next, NEW d \in Docs, Settled(d)
               PROVE  Settled(d)'
    OBVIOUS
  <2> USE DEF Status
  <2>0. Keep # "deleted" /\ Keep # "active" /\ Keep # "trashed"
    BY NullAssumption
  <2>1. ASSUME NEW r \in Requests, NEW e \in Docs, NEW w \in Workspaces,
               NEW p \in Docs \cup {Null}, BeginCreate(r, e, w, p)
        PROVE  Settled(d)'
    BY <2>1 DEF BeginCreate, Unused, Open, Settled, Assign, TypeOK
  <2>2. ASSUME NEW r \in Requests, NEW e \in Docs, NEW p \in Docs \cup {Null},
               BeginMove(r, e, p)
        PROVE  Settled(d)'
    BY <2>2 DEF BeginMove, Open, Settled, NoWrites, Assign, TypeOK
  <2>3. ASSUME NEW r \in Requests, NEW e \in Docs, BeginTrash(r, e)
        PROVE  Settled(d)'
    <3>1. d \notin ActiveDescendants(table, e)
      BY <2>3, CapturedActive DEF BeginTrash, Settled
    <3> QED  BY <2>3, <3>1 DEF BeginTrash, Open, Settled, NoWrites, Assign, TypeOK
  <2>4. ASSUME NEW r \in Requests, NEW root \in Docs, BeginRestore(r, root)
        PROVE  Settled(d)'
    <3>1. d \notin Members(table, root)
      BY <2>4, MembersTrashed DEF BeginRestore, Settled
    <3> QED  BY <2>4, <3>1 DEF BeginRestore, Open, Settled, NoWrites, Assign, TypeOK
  <2>5. ASSUME NEW r \in Requests, NEW root \in Docs, BeginPurge(r, root)
        PROVE  Settled(d)'
    BY <2>5 DEF BeginPurge, PurgeWrites, Open, Settled, NoWrites, Assign, TypeOK
  <2>6. ASSUME NEW r \in Requests, Commit(r)
        PROVE  Settled(d)'
    BY <2>6 DEF Commit, Committed, Flush, Idle, Settled, NoWrites, Assign, TypeOK
  <2>7. ASSUME NEW r \in Requests, Abort(r)
        PROVE  Settled(d)'
    BY <2>7 DEF Abort, Idle, Settled, NoWrites, Assign, TypeOK
  <2>8. ASSUME NEW root \in Docs, SweepPurge(root)
        PROVE  Settled(d)'
    BY <2>8, PurgeSettles DEF SweepPurge
  <2>9. CASE UNCHANGED <<table, request>>
    BY <2>9 DEF Settled
  <2> QED
    BY <2>1, <2>2, <2>3, <2>4, <2>5, <2>6, <2>7, <2>8, <2>9
    DEF Next, RequestStep, SweepStep, SweepStart, SweepSkip, SweepReopen, SweepEnd, Tick
<1> QED  BY <1>1, TypeCorrect, PTL DEF Spec, DeletedSettles

---------------------------------------------------------------------------
(***************************************************************************)
(* Stamps.                                                                 *)
(***************************************************************************)
\* A session that writes a status writes the stamp that goes with it.
WritesStamp(w) ==
    \A d \in Docs :
        \/ w.status[d] = Keep /\ w.trashed_at[d] = Keep
        \/ w.status[d] = "active" /\ w.trashed_at[d] = Null
        \/ w.status[d] = "trashed" /\ w.trashed_at[d] \in Time
        \/ w.status[d] = "deleted" /\ w.trashed_at[d] = Keep

PendingStamps == \A r \in Requests : WritesStamp(request[r].write)

LEMMA NoWritesStamp == WritesStamp(NoWrites)
BY DEF WritesStamp, NoWrites, Assign

LEMMA PurgeWritesStamp == \A D : WritesStamp(PurgeWrites(D))
BY DEF WritesStamp, PurgeWrites, NoWrites, Assign

LEMMA CommittedStamp ==
    ASSUME TypeOK, StampCoherent, NEW w \in Writes, WritesStamp(w),
           table' = Committed(table, w)
    PROVE  StampCoherent'
BY NullAssumption DEF StampCoherent, WritesStamp, Committed, Flush, TypeOK, Table, Time

LEMMA OpenStamp ==
    ASSUME TypeOK, PendingStamps, StampCoherent,
           NEW r \in Requests, NEW w, WritesStamp(w), Open(r, w)
    PROVE  (PendingStamps /\ StampCoherent)'
BY DEF Open, PendingStamps, StampCoherent, TypeOK

\* StampCoherent: no interleaving leaves a trashed row without a stamp or an
\* active one with a stamp, since every session writes the two columns together.
THEOREM StampsCoherent == Spec => []StampCoherent
<1>1. Init => PendingStamps /\ StampCoherent
  BY NoWritesStamp DEF Init, Empty, Idle, PendingStamps, StampCoherent
<1>2. TypeOK /\ PendingStamps /\ StampCoherent /\ [Next]_vars
        => (PendingStamps /\ StampCoherent)'
  <2> SUFFICES ASSUME TypeOK, PendingStamps, StampCoherent, [Next]_vars
               PROVE  (PendingStamps /\ StampCoherent)'
    OBVIOUS
  <2>1. ASSUME NEW r \in Requests, NEW d \in Docs, NEW w \in Workspaces,
               NEW p \in Docs \cup {Null}, BeginCreate(r, d, w, p)
        PROVE  (PendingStamps /\ StampCoherent)'
    <3> DEFINE wr == [workspace_id |-> Assign({d}, w), parent_id |-> Assign({d}, p),
                      status |-> Assign({d}, "active"), trashed_at |-> Assign({d}, Null)]
    <3>1. WritesStamp(wr)  BY DEF WritesStamp, Assign
    <3> QED  BY <2>1, <3>1, OpenStamp DEF BeginCreate
  <2>2. ASSUME NEW r \in Requests, NEW d \in Docs, NEW p \in Docs \cup {Null},
               BeginMove(r, d, p)
        PROVE  (PendingStamps /\ StampCoherent)'
    <3> DEFINE wr == [NoWrites EXCEPT !.parent_id = Assign(Changed(d, p), p)]
    <3>1. WritesStamp(wr)  BY NoWritesStamp DEF WritesStamp, NoWrites
    <3> QED  BY <2>2, <3>1, OpenStamp DEF BeginMove
  <2>3. ASSUME NEW r \in Requests, NEW d \in Docs, BeginTrash(r, d)
        PROVE  (PendingStamps /\ StampCoherent)'
    <3> DEFINE captured == ActiveDescendants(table, d)
               wr == [NoWrites EXCEPT !.status = Assign(captured, "trashed"),
                                      !.trashed_at = Assign(captured, now)]
    <3>1. WritesStamp(wr)  BY DEF WritesStamp, NoWrites, Assign, TypeOK
    <3> QED  BY <2>3, <3>1, OpenStamp DEF BeginTrash
  <2>4. ASSUME NEW r \in Requests, NEW root \in Docs, BeginRestore(r, root)
        PROVE  (PendingStamps /\ StampCoherent)'
    <3> DEFINE members == Members(table, root)
               p == RestoreParent(table, root)
               wr == [NoWrites EXCEPT !.status = Assign(members, "active"),
                                      !.trashed_at = Assign(members, Null),
                                      !.parent_id = Assign(Changed(root, p), p)]
    <3>1. WritesStamp(wr)  BY DEF WritesStamp, NoWrites, Assign
    <3> QED  BY <2>4, <3>1, OpenStamp DEF BeginRestore
  <2>5. ASSUME NEW r \in Requests, NEW root \in Docs, BeginPurge(r, root)
        PROVE  (PendingStamps /\ StampCoherent)'
    BY <2>5, OpenStamp, PurgeWritesStamp DEF BeginPurge
  <2>6. ASSUME NEW r \in Requests, Commit(r)
        PROVE  (PendingStamps /\ StampCoherent)'
    <3>1. StampCoherent'
      BY <2>6, CommittedStamp DEF Commit, PendingStamps, TypeOK
    <3>2. PendingStamps'
      BY <2>6, NoWritesStamp DEF Commit, Idle, PendingStamps, TypeOK
    <3> QED  BY <3>1, <3>2
  <2>7. ASSUME NEW r \in Requests, Abort(r)
        PROVE  (PendingStamps /\ StampCoherent)'
    BY <2>7, NoWritesStamp DEF Abort, Idle, PendingStamps, StampCoherent, TypeOK
  <2>8. ASSUME NEW root \in Docs, SweepPurge(root)
        PROVE  (PendingStamps /\ StampCoherent)'
    <3>1. StampCoherent'
      BY <2>8, CommittedStamp, PurgeWritesType, PurgeWritesStamp DEF SweepPurge
    <3> QED  BY <2>8, <3>1 DEF SweepPurge, PendingStamps
  <2>9. CASE UNCHANGED <<table, request>>
    BY <2>9 DEF PendingStamps, StampCoherent
  <2> QED
    BY <2>1, <2>2, <2>3, <2>4, <2>5, <2>6, <2>7, <2>8, <2>9
    DEF Next, vars, RequestStep, SweepStep, SweepStart, SweepSkip, SweepReopen, SweepEnd, Tick
<1> QED  BY <1>1, <1>2, TypeCorrect, PTL DEF Spec

---------------------------------------------------------------------------
(***************************************************************************)
(* Workspaces.  The invariant behind SameWorkspace: a parent that is, or   *)
(* is about to be, referenced has a row already and that row never changes *)
(* its workspace; an id is inserted by one session only; the sweep touches *)
(* only rows that exist.                                                   *)
(***************************************************************************)
Exists(d) == table.status[d] # "absent"

\* p is a row of workspace w.
RowOf(p, w) == Exists(p) /\ table.workspace_id[p] = w

Rows ==
    \A d \in Docs :
        /\ Exists(d) <=> table.workspace_id[d] \in Workspaces
        /\ table.parent_id[d] \in Docs =>
                Exists(d) /\ RowOf(table.parent_id[d], table.workspace_id[d])

\* The pending columns w of document d: an INSERT of a free id, or an UPDATE
\* of an existing row.
PendingRow(w, d) ==
    IF w.workspace_id[d] # Keep
    THEN /\ ~Exists(d)
         /\ w.workspace_id[d] \in Workspaces
         /\ w.status[d] = "active"
         /\ w.parent_id[d] \in Docs => RowOf(w.parent_id[d], w.workspace_id[d])
    ELSE /\ w.status[d] # Keep \/ w.parent_id[d] # Keep => Exists(d)
         /\ w.status[d] # "absent"
         /\ w.parent_id[d] \in Docs => RowOf(w.parent_id[d], table.workspace_id[d])

PendingRows == \A r \in Requests, d \in Docs : PendingRow(request[r].write, d)

Reserved ==
    \A r, q \in Requests, d \in Docs :
        r # q /\ request[r].write.workspace_id[d] # Keep =>
            /\ request[q].write.workspace_id[d] = Keep
            /\ request[q].write.status[d] = Keep

SweepSees ==
    \A d \in Docs : sweep.snap.status[d] # "absent" \/ sweep.seen.status[d] # "absent" => Exists(d)

WInv == Rows /\ PendingRows /\ Reserved /\ SweepSees

LEMMA KeepFacts ==
    /\ Keep \notin Docs /\ Keep \notin Workspaces /\ Keep # Null
    /\ Keep # "absent" /\ Keep # "active" /\ Keep # "trashed" /\ Keep # "deleted"
    /\ Null \notin Docs /\ Null \notin Workspaces
BY NullAssumption

LEMMA NoWritesRow == \A d \in Docs : PendingRow(NoWrites, d)
BY KeepFacts DEF PendingRow, NoWrites, Assign

\* A session that starts and writes existing rows, none of which it moves to
\* another workspace, preserves the invariant.
LEMMA OpenUpdate ==
    ASSUME TypeOK, WInv, NEW r \in Requests, NEW w \in Writes, Open(r, w),
           \A d \in Docs : w.workspace_id[d] = Keep /\ PendingRow(w, d)
    PROVE  WInv'
<1>1. table' = table /\ sweep' = sweep /\ request' = [request EXCEPT ![r] = [state |-> "open", write |-> w]]
  BY DEF Open
<1>2. Rows' /\ SweepSees'
  BY <1>1 DEF WInv, Rows, SweepSees, Exists, RowOf
<1>3. PendingRows'
  BY <1>1 DEF WInv, PendingRows, PendingRow, Exists, RowOf, TypeOK
<1>4. Reserved'
  <2> SUFFICES ASSUME NEW s \in Requests, NEW q \in Requests, NEW d \in Docs, s # q,
                      request'[s].write.workspace_id[d] # Keep
               PROVE  /\ request'[q].write.workspace_id[d] = Keep
                      /\ request'[q].write.status[d] = Keep
    BY DEF Reserved
  <2>1. s # r /\ request'[s] = request[s]
    BY <1>1 DEF TypeOK
  <2>2. ~Exists(d)
    BY <2>1 DEF WInv, PendingRows, PendingRow
  <2>3. CASE q = r
    BY <1>1, <2>2, <2>3 DEF PendingRow, TypeOK
  <2>4. CASE q # r
    BY <1>1, <2>1, <2>4 DEF WInv, Reserved, TypeOK
  <2> QED  BY <2>3, <2>4
<1> QED  BY <1>2, <1>3, <1>4 DEF WInv

\* A commit of writes that satisfy PendingRow keeps the rows well formed and
\* no row loses its existence or its workspace.
LEMMA CommittedRows ==
    ASSUME TypeOK, Rows, NEW w \in Writes, \A d \in Docs : PendingRow(w, d),
           table' = Committed(table, w)
    PROVE  /\ Rows'
           /\ \A d \in Docs : Exists(d) => /\ Exists(d)'
                                          /\ table'.workspace_id[d] = table.workspace_id[d]
           /\ \A d \in Docs : w.workspace_id[d] = Keep => (Exists(d)' <=> Exists(d))
<1>1. \A d \in Docs : /\ table'.workspace_id[d] = IF w.workspace_id[d] = Keep
                            THEN table.workspace_id[d] ELSE w.workspace_id[d]
                      /\ table'.parent_id[d] = IF w.parent_id[d] = Keep
                            THEN table.parent_id[d] ELSE w.parent_id[d]
                      /\ table'.status[d] = IF w.status[d] = Keep
                            THEN table.status[d] ELSE w.status[d]
  BY DEF Committed, Flush
<1>2. \A d \in Docs : Exists(d) => /\ Exists(d)'
                                  /\ table'.workspace_id[d] = table.workspace_id[d]
  BY <1>1, KeepFacts DEF PendingRow, Exists
<1>3. \A d \in Docs : w.workspace_id[d] = Keep => (Exists(d)' <=> Exists(d))
  BY <1>1, KeepFacts DEF PendingRow, Exists
<1>4. Rows'
  <2> SUFFICES ASSUME NEW d \in Docs
               PROVE  /\ Exists(d)' <=> table'.workspace_id[d] \in Workspaces
                      /\ table'.parent_id[d] \in Docs =>
                            Exists(d)' /\ RowOf(table.parent_id[d], table.workspace_id[d])'
    BY DEF Rows
  <2>1. Exists(d)' <=> table'.workspace_id[d] \in Workspaces
    <3>1. CASE w.workspace_id[d] = Keep
      BY <1>1, <1>3, <3>1 DEF Rows
    <3>2. CASE w.workspace_id[d] # Keep
      BY <1>1, <3>2, KeepFacts DEF PendingRow, Exists
    <3> QED  BY <3>1, <3>2
  <2>2. ASSUME table'.parent_id[d] \in Docs, w.parent_id[d] = Keep
        PROVE  Exists(d)' /\ RowOf(table.parent_id[d], table.workspace_id[d])'
    <3>1. table'.parent_id[d] = table.parent_id[d]  BY <1>1, <2>2
    <3>2. Exists(d) /\ RowOf(table.parent_id[d], table.workspace_id[d])
      BY <2>2, <3>1 DEF Rows
    <3>3. table.parent_id[d] \in Docs  BY <2>2, <3>1
    <3> QED  BY <1>2, <3>1, <3>2, <3>3 DEF RowOf, Exists
  <2>3. ASSUME table'.parent_id[d] \in Docs, w.parent_id[d] # Keep
        PROVE  Exists(d)' /\ RowOf(table.parent_id[d], table.workspace_id[d])'
    <3>1. w.parent_id[d] \in Docs /\ table'.parent_id[d] = w.parent_id[d]
      BY <1>1, <2>3
    <3>2. Exists(w.parent_id[d]) /\ table.workspace_id[w.parent_id[d]] = table'.workspace_id[d]
      BY <1>1, <3>1 DEF PendingRow, RowOf
    <3>3. Exists(d)'
      BY <1>1, <1>2, <2>3, KeepFacts DEF PendingRow, Exists
    <3> QED  BY <1>2, <3>1, <3>2, <3>3 DEF RowOf, Exists
  <2> QED  BY <2>1, <2>2, <2>3
<1> QED  BY <1>2, <1>3, <1>4

\* Other sessions' pending rows survive a commit that inserts none of theirs.
LEMMA PendingSurvives ==
    ASSUME NEW v \in Writes, NEW d \in Docs, PendingRow(v, d),
           v.workspace_id[d] # Keep => ~(Exists(d)'),
           \A e \in Docs : Exists(e) => /\ Exists(e)'
                                       /\ table'.workspace_id[e] = table.workspace_id[e]
    PROVE  PendingRow(v, d)'
<1>1. CASE v.workspace_id[d] # Keep
  BY <1>1 DEF PendingRow, RowOf, Exists
<1>2. CASE v.workspace_id[d] = Keep
  <2>1. v.parent_id[d] \in Docs \cup {Null, Keep}  BY DEF Writes
  <2>2. v.parent_id[d] \in Docs => Exists(d)
    BY <1>2, KeepFacts DEF PendingRow
  <2> QED  BY <1>2, <2>1, <2>2 DEF PendingRow, RowOf, Exists
<1> QED  BY <1>1, <1>2

\* WInv is inductive.
LEMMA RowsWellFormed == Spec => []WInv
<1>1. Init => WInv
  <2> SUFFICES ASSUME Init PROVE WInv
    OBVIOUS
  <2>1. Rows /\ SweepSees
    BY KeepFacts DEF Init, Empty, NoSweep, Rows, SweepSees, Exists
  <2>2. PendingRows /\ Reserved
    BY NoWritesRow DEF Init, Idle, NoWrites, Assign, PendingRows, Reserved
  <2> QED  BY <2>1, <2>2 DEF WInv
<1>2. TypeOK /\ WInv /\ [Next]_vars => WInv'
  <2> SUFFICES ASSUME TypeOK, WInv, [Next]_vars PROVE WInv'
    OBVIOUS
  <2>1. ASSUME NEW r \in Requests, NEW d \in Docs, NEW w \in Workspaces,
               NEW p \in Docs \cup {Null}, BeginCreate(r, d, w, p)
        PROVE  WInv'
    <3> DEFINE wr == [workspace_id |-> Assign({d}, w), parent_id |-> Assign({d}, p),
                      status |-> Assign({d}, "active"), trashed_at |-> Assign({d}, Null)]
    <3>1. /\ table' = table /\ sweep' = sweep
          /\ request' = [request EXCEPT ![r] = [state |-> "open", write |-> wr]]
          /\ Unused(d) /\ AdmissibleParent(w, p)
      BY <2>1 DEF BeginCreate, Open
    <3>2. \A q \in Requests : request[q].write.status[d] = Keep /\ request[q].write.workspace_id[d] = Keep
      BY <3>1, KeepFacts DEF Unused, WInv, PendingRows, PendingRow
    <3>3. Rows' /\ SweepSees'
      BY <3>1 DEF WInv, Rows, SweepSees, Exists, RowOf
    <3>4. \A e \in Docs : PendingRow(wr, e)
      BY <3>1, KeepFacts DEF PendingRow, Assign, Unused, AdmissibleParent, Exists, RowOf
    <3> HIDE DEF wr
    <3>5. PendingRows'
      BY <3>1, <3>4 DEF WInv, PendingRows, PendingRow, Exists, RowOf, TypeOK
    <3>6. Reserved'
      <4>1. \A e \in Docs : e # d => wr.workspace_id[e] = Keep /\ wr.status[e] = Keep
        BY DEF wr, Assign
      <4> QED  BY <3>1, <3>2, <4>1 DEF WInv, Reserved, TypeOK
    <3> QED  BY <3>3, <3>5, <3>6 DEF WInv
  <2>2. ASSUME NEW r \in Requests, NEW d \in Docs, NEW p \in Docs \cup {Null},
               BeginMove(r, d, p)
        PROVE  WInv'
    <3> DEFINE wr == [NoWrites EXCEPT !.parent_id = Assign(Changed(d, p), p)]
    <3>1. wr \in Writes  BY NoWritesType, AssignType DEF Writes, Assign
    <3>2. table.status[d] = "active" /\ AdmissibleParent(table.workspace_id[d], p)
      BY <2>2 DEF BeginMove
    <3>3. \A e \in Docs : wr.workspace_id[e] = Keep /\ PendingRow(wr, e)
      BY <3>2, KeepFacts
      DEF PendingRow, NoWrites, Assign, Changed, AdmissibleParent, Exists, RowOf
    <3> QED  BY <2>2, <3>1, <3>3, OpenUpdate DEF BeginMove
  <2>3. ASSUME NEW r \in Requests, NEW d \in Docs, BeginTrash(r, d)
        PROVE  WInv'
    <3> DEFINE captured == ActiveDescendants(table, d)
               wr == [NoWrites EXCEPT !.status = Assign(captured, "trashed"),
                                      !.trashed_at = Assign(captured, now)]
    <3>1. wr \in Writes  BY NoWritesType DEF Writes, Assign, Status, TypeOK
    <3>2. \A e \in captured : Exists(e)
      BY <2>3, CapturedActive DEF BeginTrash, Exists
    <3>3. \A e \in Docs : wr.workspace_id[e] = Keep /\ PendingRow(wr, e)
      BY <3>2, KeepFacts DEF PendingRow, NoWrites, Assign, Status
    <3> QED  BY <2>3, <3>1, <3>3, OpenUpdate DEF BeginTrash
  <2>4. ASSUME NEW r \in Requests, NEW root \in Docs, BeginRestore(r, root)
        PROVE  WInv'
    <3> DEFINE members == Members(table, root)
               p == RestoreParent(table, root)
               wr == [NoWrites EXCEPT !.status = Assign(members, "active"),
                                      !.trashed_at = Assign(members, Null),
                                      !.parent_id = Assign(Changed(root, p), p)]
    <3>1. p \in Docs => p = table.parent_id[root]
      BY KeepFacts DEF RestoreParent
    <3>2. p \in Docs \cup {Null}  BY DEF RestoreParent
    <3> HIDE DEF p
    <3>3. wr \in Writes  BY <3>2, NoWritesType DEF Writes, Assign, Status
    <3>4. \A e \in members : Exists(e)
      BY <2>4, MembersTrashed DEF BeginRestore, Exists
    <3>5. Exists(root)
      BY <2>4 DEF BeginRestore, BundleRoots, Exists
    <3>6. \A e \in Docs : wr.workspace_id[e] = Keep /\ PendingRow(wr, e)
      BY <3>1, <3>2, <3>4, <3>5, KeepFacts
      DEF PendingRow, NoWrites, Assign, Changed, Status
    <3> QED  BY <2>4, <3>3, <3>6, OpenUpdate DEF BeginRestore, p
  <2>5. ASSUME NEW r \in Requests, NEW root \in Docs, BeginPurge(r, root)
        PROVE  WInv'
    <3>1. \A e \in Members(table, root) : Exists(e)
      BY <2>5, MembersTrashed DEF BeginPurge, Exists
    <3>2. \A e \in Docs : /\ PurgeWrites(Members(table, root)).workspace_id[e] = Keep
                          /\ PendingRow(PurgeWrites(Members(table, root)), e)
      BY <3>1, KeepFacts DEF PendingRow, PurgeWrites, NoWrites, Assign, Status
    <3> QED  BY <2>5, <3>2, PurgeWritesType, OpenUpdate DEF BeginPurge
  <2>6. ASSUME NEW r \in Requests, Commit(r)
        PROVE  WInv'
    <3> DEFINE w == request[r].write
    <3>1. w \in Writes /\ \A d \in Docs : PendingRow(w, d)
      BY DEF TypeOK, WInv, PendingRows
    <3>2. /\ table' = Committed(table, w) /\ sweep' = sweep
          /\ request' = [request EXCEPT ![r] = Idle]
      BY <2>6 DEF Commit
    <3>3. /\ Rows'
          /\ \A d \in Docs : Exists(d) => /\ Exists(d)'
                                         /\ table'.workspace_id[d] = table.workspace_id[d]
          /\ \A d \in Docs : w.workspace_id[d] = Keep => (Exists(d)' <=> Exists(d))
      BY <3>1, <3>2, CommittedRows DEF WInv
    <3>4. \A q \in Requests \ {r}, d \in Docs : PendingRow(request[q].write, d)'
      <4> SUFFICES ASSUME NEW q \in Requests \ {r}, NEW d \in Docs
                   PROVE  PendingRow(request[q].write, d)'
        OBVIOUS
      <4> DEFINE v == request[q].write
      <4>1. v \in Writes /\ PendingRow(v, d)  BY DEF TypeOK, WInv, PendingRows
      <4>2. ASSUME v.workspace_id[d] # Keep PROVE ~(Exists(d)')
        <5>1. ~Exists(d)  BY <4>1, <4>2 DEF PendingRow
        <5>2. w.workspace_id[d] = Keep  BY <4>2 DEF WInv, Reserved
        <5> QED  BY <5>1, <5>2, <3>3
      <4>3. \A u \in Writes : u = v => PendingRow(u, d)'
        BY <4>1, <4>2, <3>3, PendingSurvives
      <4>4. request'[q].write = v
        BY <3>2 DEF TypeOK
      <4> QED  BY <4>1, <4>3, <4>4 DEF PendingRow, RowOf, Exists
    <3>5. PendingRows'
      <4>1. request'[r].write = NoWrites  BY <3>2 DEF Idle, TypeOK
      <4>2. \A d \in Docs : PendingRow(request[r].write, d)'
        BY <4>1, KeepFacts DEF PendingRow, Exists, RowOf, NoWrites, Assign
      <4> QED  BY <3>4, <4>2 DEF PendingRows
    <3>6. Reserved'
      BY <3>2 DEF WInv, Reserved, Idle, NoWrites, Assign, TypeOK
    <3>7. SweepSees'
      BY <3>2, <3>3 DEF WInv, SweepSees
    <3> QED  BY <3>3, <3>5, <3>6, <3>7 DEF WInv
  <2>7. ASSUME NEW r \in Requests, Abort(r)
        PROVE  WInv'
    <3>1. /\ table' = table /\ sweep' = sweep
          /\ request'[r].write = NoWrites
          /\ \A q \in Requests \ {r} : request'[q] = request[q]
      BY <2>7 DEF Abort, Idle, TypeOK
    <3>2. Rows' /\ SweepSees'
      BY <3>1 DEF WInv, Rows, SweepSees, Exists, RowOf
    <3>3. PendingRows'
      BY <3>1, NoWritesRow DEF WInv, PendingRows, PendingRow, Exists, RowOf
    <3>4. Reserved'
      BY <3>1 DEF WInv, Reserved, NoWrites, Assign
    <3> QED  BY <3>2, <3>3, <3>4 DEF WInv
  <2>8. ASSUME NEW w \in SweepWorkspaces, SweepStart(w)
        PROVE  WInv'
    BY <2>8 DEF SweepStart, WInv, Rows, PendingRows, PendingRow, Reserved, SweepSees, Exists, RowOf
  <2>9. ASSUME NEW root \in Docs, SweepPurge(root)
        PROVE  WInv'
    <3> DEFINE dirty == {d \in SweepMembers(root) : View.status[d] # "deleted"}
               w == PurgeWrites(dirty)
    <3>1. /\ table' = Committed(table, w)
          /\ request' = request
          /\ root \in BundleRoots(View)
          /\ sweep'.snap = Empty
          /\ \A d \in Docs : sweep'.seen.status[d] =
                IF d \in dirty \cap sweep.cached THEN "deleted" ELSE sweep.seen.status[d]
      BY <2>9 DEF SweepPurge, TypeOK, Table
    <3>2. \A d \in dirty : Exists(d)
      <4> SUFFICES ASSUME NEW d \in dirty PROVE Exists(d)
        OBVIOUS
      <4> DEFINE D == {e \in Docs : sweep.snap.status[e] = "trashed"}
                 S == {root} \cup D
                 E == {e \in Docs \X Docs :
                        /\ sweep.snap.parent_id[e[2]] = e[1]
                        /\ sweep.snap.status[e[2]] = "trashed"
                        /\ View.trashed_at[e[2]] = View.trashed_at[root]}
      <4>1. S \in SUBSET Docs /\ root \in S  OBVIOUS
      <4>2. Closed(S, E)  BY DEF Closed
      <4>3. d \in Reach(root, E)  BY DEF SweepMembers
      <4>4. d \in S  BY <4>1, <4>2, <4>3 DEF Reach
      <4>5. CASE d \in D  BY <4>5 DEF WInv, SweepSees
      <4>6. CASE d = root
        BY <3>1, <4>6 DEF BundleRoots, View, Loaded, WInv, SweepSees
      <4> QED  BY <4>4, <4>5, <4>6
    <3>3. w \in Writes  BY PurgeWritesType
    <3>4. \A d \in Docs : w.workspace_id[d] = Keep /\ PendingRow(w, d)
      BY <3>2, KeepFacts DEF PendingRow, PurgeWrites, NoWrites, Assign, Status
    <3> HIDE DEF w
    <3>5. /\ Rows'
          /\ \A d \in Docs : Exists(d) => /\ Exists(d)'
                                         /\ table'.workspace_id[d] = table.workspace_id[d]
          /\ \A d \in Docs : Exists(d)' <=> Exists(d)
      BY <3>1, <3>3, <3>4, CommittedRows DEF WInv
    <3>6. PendingRows'
      <4> SUFFICES ASSUME NEW r \in Requests, NEW d \in Docs
                   PROVE  PendingRow(request[r].write, d)'
        BY DEF PendingRows
      <4> DEFINE v == request[r].write
      <4>1. v \in Writes /\ PendingRow(v, d)  BY DEF TypeOK, WInv, PendingRows
      <4>2. v.workspace_id[d] # Keep => ~(Exists(d)')
        BY <4>1, <3>5 DEF PendingRow
      <4>3. \A u \in Writes : u = v => PendingRow(u, d)'
        BY <4>1, <4>2, <3>5, PendingSurvives
      <4> QED  BY <3>1, <4>1, <4>3 DEF PendingRow, RowOf, Exists
    <3>7. Reserved'
      BY <3>1 DEF WInv, Reserved
    <3>8. SweepSees'
      BY <3>1, <3>2, <3>5 DEF WInv, SweepSees, Empty
    <3> QED  BY <3>5, <3>6, <3>7, <3>8 DEF WInv
  <2>10. CASE UNCHANGED <<table, request>> /\ (sweep' = sweep \/ SweepReopen \/ SweepEnd
                \/ \E root \in Docs : SweepSkip(root))
    <3>1. \A d \in Docs : sweep'.snap.status[d] # "absent" \/ sweep'.seen.status[d] # "absent"
            => Exists(d)
      <4>1. CASE sweep' = sweep  BY <4>1 DEF WInv, SweepSees
      <4>2. CASE SweepReopen
        BY <4>2 DEF WInv, SweepSees, SweepReopen, Exists, TypeOK
      <4>3. CASE SweepEnd
        BY <4>3 DEF SweepEnd, NoSweep, Empty
      <4>4. CASE \E root \in Docs : SweepSkip(root)
        BY <4>4 DEF SweepSkip, Empty, TypeOK
      <4> QED  BY <2>10, <4>1, <4>2, <4>3, <4>4
    <3> QED
      BY <2>10, <3>1 DEF WInv, Rows, PendingRows, PendingRow, Reserved, SweepSees, Exists, RowOf
  <2> QED
    BY <2>1, <2>2, <2>3, <2>4, <2>5, <2>6, <2>7, <2>8, <2>9, <2>10
    DEF Next, vars, RequestStep, SweepStep, SweepSkip, SweepReopen, SweepEnd, Tick
<1> QED  BY <1>1, <1>2, TypeCorrect, PTL DEF Spec

\* SameWorkspace (INV-6): parent and child are rows of one workspace, whichever
\* requests overlap.
THEOREM WorkspacesHomogeneous == Spec => []SameWorkspace
<1>1. WInv => SameWorkspace
  BY KeepFacts DEF WInv, Rows, RowOf, SameWorkspace
<1> QED  BY <1>1, RowsWellFormed, PTL
---------------------------------------------------------------------------
(***************************************************************************)
(* Walks over the hierarchy: up to the ancestors, down to the children in  *)
(* a set D.                                                                *)
(***************************************************************************)
LEMMA ReachSelf == \A x \in Docs : \A E : x \in Reach(x, E)
BY DEF Reach

LEMMA ReachStep ==
    ASSUME NEW x, NEW E, NEW e \in E, e[1] \in Reach(x, E), e[2] \in Docs
    PROVE  e[2] \in Reach(x, E)
BY DEF Reach, Closed

LEMMA ReachLeast ==
    ASSUME NEW x, NEW E, NEW S \in SUBSET Docs, x \in S, Closed(S, E)
    PROVE  Reach(x, E) \subseteq S
BY DEF Reach

\* All but the start are reached over a last edge.
LEMMA ReachLast ==
    ASSUME NEW x \in Docs, NEW E \in SUBSET (Docs \X Docs), NEW y \in Reach(x, E), y # x
    PROVE  \E e \in E : e[2] = y /\ e[1] \in Reach(x, E)
<1> SUFFICES ASSUME \A e \in E : ~(e[2] = y /\ e[1] \in Reach(x, E)) PROVE FALSE
  OBVIOUS
<1> DEFINE S == Reach(x, E) \ {y}
<1>1. S \in SUBSET Docs /\ x \in S  BY ReachInDocs, ReachSelf
<1>2. ASSUME NEW e \in E, e[1] \in S PROVE e[2] \in S
  BY <1>2, ReachStep
<1> QED  BY <1>1, <1>2, ReachLeast DEF Closed

LEMMA UpStep ==
    ASSUME NEW T, NEW x \in Docs, NEW y \in AncestorsOrSelf(T, x), T.parent_id[y] \in Docs
    PROVE  T.parent_id[y] \in AncestorsOrSelf(T, x)
<1> DEFINE e == <<y, T.parent_id[y]>>
<1>1. y \in Docs  BY ReachInDocs DEF AncestorsOrSelf
<1>2. e \in ParentEdges(T)  BY <1>1 DEF ParentEdges
<1> QED  BY <1>2, ReachStep DEF AncestorsOrSelf

LEMMA UpLeast ==
    ASSUME NEW T, NEW x, NEW S \in SUBSET Docs, x \in S,
           \A y \in S : T.parent_id[y] \in Docs => T.parent_id[y] \in S
    PROVE  AncestorsOrSelf(T, x) \subseteq S
<1>1. Closed(S, ParentEdges(T))  BY DEF Closed, ParentEdges
<1> QED  BY <1>1, ReachLeast DEF AncestorsOrSelf

LEMMA UpTrans ==
    ASSUME NEW T, NEW x \in Docs, NEW y \in AncestorsOrSelf(T, x)
    PROVE  AncestorsOrSelf(T, y) \subseteq AncestorsOrSelf(T, x)
<1>1. AncestorsOrSelf(T, x) \in SUBSET Docs  BY ReachInDocs DEF AncestorsOrSelf
<1> QED  BY <1>1, UpStep, UpLeast

LEMMA UpLast ==
    ASSUME NEW T, NEW x \in Docs, NEW y \in AncestorsOrSelf(T, x), y # x
    PROVE  \E z \in AncestorsOrSelf(T, x) : T.parent_id[z] = y
<1>1. ParentEdges(T) \in SUBSET (Docs \X Docs)  BY DEF ParentEdges
<1>2. PICK e \in ParentEdges(T) : e[2] = y /\ e[1] \in AncestorsOrSelf(T, x)
  BY <1>1, ReachLast DEF AncestorsOrSelf
<1> QED  BY <1>2 DEF ParentEdges

LEMMA DownStep ==
    ASSUME NEW T, NEW D \in SUBSET Docs, NEW x \in Docs, NEW z \in D,
           T.parent_id[z] \in Reach(x, ChildEdges(T, D))
    PROVE  z \in Reach(x, ChildEdges(T, D))
<1> DEFINE e == <<T.parent_id[z], z>>
<1>1. e \in ChildEdges(T, D)  BY ReachInDocs DEF ChildEdges
<1> QED  BY <1>1, ReachStep

LEMMA DownLeast ==
    ASSUME NEW T, NEW D \in SUBSET Docs, NEW S \in SUBSET Docs, NEW x \in S,
           \A z \in D : T.parent_id[z] \in S => z \in S
    PROVE  Reach(x, ChildEdges(T, D)) \subseteq S
<1>1. Closed(S, ChildEdges(T, D))  BY DEF Closed, ChildEdges
<1> QED  BY <1>1, ReachLeast

LEMMA DownLast ==
    ASSUME NEW T, NEW D \in SUBSET Docs, NEW x \in Docs,
           NEW y \in Reach(x, ChildEdges(T, D)), y # x
    PROVE  y \in D /\ T.parent_id[y] \in Reach(x, ChildEdges(T, D))
<1>1. ChildEdges(T, D) \in SUBSET (Docs \X Docs)  BY DEF ChildEdges
<1>2. PICK e \in ChildEdges(T, D) : e[2] = y /\ e[1] \in Reach(x, ChildEdges(T, D))
  BY <1>1, ReachLast
<1> QED  BY <1>2 DEF ChildEdges

LEMMA DownTrans ==
    ASSUME NEW T, NEW D \in SUBSET Docs, NEW x \in Docs, NEW y \in Reach(x, ChildEdges(T, D))
    PROVE  Reach(y, ChildEdges(T, D)) \subseteq Reach(x, ChildEdges(T, D))
<1>1. Reach(x, ChildEdges(T, D)) \in SUBSET Docs  BY ReachInDocs
<1> QED  BY <1>1, DownStep, DownLeast

---------------------------------------------------------------------------
(***************************************************************************)
(* Cycles.                                                                 *)
(***************************************************************************)
NoCycle(T) ==
    \A d \in Docs : T.parent_id[d] \in Docs => d \notin AncestorsOrSelf(T, T.parent_id[d])

\* T2 is T1 with document d under p.
Reparents(T1, T2, d, p) ==
    \A e \in Docs : T2.parent_id[e] = IF e = d THEN p ELSE T1.parent_id[e]

\* Putting a document under one that is not below it makes no cycle.
LEMMA ReparentNoCycle ==
    ASSUME NEW T1, NEW T2, NEW d \in Docs, NEW p, NoCycle(T1), Reparents(T1, T2, d, p),
           p \in Docs => d \notin AncestorsOrSelf(T1, p)
    PROVE  NoCycle(T2)
<1> SUFFICES ASSUME NEW e \in Docs, NEW q \in Docs, q = T2.parent_id[e],
                    e \in AncestorsOrSelf(T2, q)
             PROVE  FALSE
  BY DEF NoCycle
<1>1. ASSUME NEW x \in Docs, d \notin AncestorsOrSelf(T1, x)
      PROVE  AncestorsOrSelf(T2, x) \subseteq AncestorsOrSelf(T1, x)
  <2> DEFINE S == AncestorsOrSelf(T1, x)
  <2>1. S \in SUBSET Docs /\ x \in S  BY ReachInDocs, ReachSelf DEF AncestorsOrSelf
  <2>2. \A y \in S : T2.parent_id[y] \in Docs => T2.parent_id[y] \in S
    BY <1>1, <2>1, UpStep DEF Reparents
  <2> HIDE DEF S
  <2>3. AncestorsOrSelf(T2, x) \subseteq S
    BY <2>1, <2>2, UpLeast
  <2> QED  BY <2>3 DEF S
<1>2. CASE e = d
  <2>1. q = p  BY <1>2 DEF Reparents
  <2> QED  BY <1>1, <1>2, <2>1
<1>3. CASE e # d
  <2> DEFINE A == AncestorsOrSelf(T1, q)
  <2>1. q = T1.parent_id[e] /\ e \notin A  BY <1>3 DEF Reparents, NoCycle
  <2>2. d \in A  BY <1>1, <2>1
  <2>3. A \in SUBSET Docs /\ q \in A  BY ReachInDocs, ReachSelf DEF AncestorsOrSelf
  <2>4. d \in AncestorsOrSelf(T1, e)
    <3>1. e \in AncestorsOrSelf(T1, e)  BY ReachSelf DEF AncestorsOrSelf
    <3>2. q \in AncestorsOrSelf(T1, e)  BY <2>1, <3>1, UpStep
    <3> QED  BY <2>2, <3>2, UpTrans
  <2>5. CASE p \notin Docs
    <3>1. \A y \in A : T2.parent_id[y] \in Docs => T2.parent_id[y] \in A
      BY <2>3, <2>5, UpStep DEF Reparents
    <3>2. AncestorsOrSelf(T2, q) \subseteq A
      <4> HIDE DEF A
      <4> QED  BY <2>3, <3>1, UpLeast
    <3> QED  BY <2>1, <3>2
  <2>6. CASE p \in Docs
    <3> DEFINE B == AncestorsOrSelf(T2, p)
               S == A \cup B
    <3>1. B \in SUBSET Docs /\ p \in B  BY <2>6, ReachInDocs, ReachSelf DEF AncestorsOrSelf
    <3>2. \A y \in A : T2.parent_id[y] \in Docs => T2.parent_id[y] \in S
      BY <2>3, <3>1, UpStep DEF Reparents
    <3>3. \A y \in B : T2.parent_id[y] \in Docs => T2.parent_id[y] \in S
      BY <2>6, <3>1, UpStep
    <3>4. AncestorsOrSelf(T2, q) \subseteq S
      <4> HIDE DEF A, B
      <4>1. S \in SUBSET Docs /\ q \in S  BY <2>3, <3>1
      <4> HIDE DEF S
      <4>2. \A y \in S : T2.parent_id[y] \in Docs => T2.parent_id[y] \in S
        BY <3>2, <3>3 DEF S
      <4> QED  BY <4>1, <4>2, UpLeast
    <3>5. e \in AncestorsOrSelf(T1, p)  BY <1>1, <2>1, <2>6, <3>4
    <3>6. d \in AncestorsOrSelf(T1, p)  BY <2>4, <2>6, <3>5, UpTrans
    <3> QED  BY <2>6, <3>6
  <2> QED  BY <2>5, <2>6
<1> QED  BY <1>2, <1>3

\* In a tree without cycles a parent has fewer ancestors than its child.
LEMMA FewerAncestors ==
    ASSUME NEW T, NoCycle(T), NEW d \in Docs, T.parent_id[d] \in Docs
    PROVE  /\ Cardinality(AncestorsOrSelf(T, d)) \in Nat
           /\ Cardinality(AncestorsOrSelf(T, T.parent_id[d])) \in Nat
           /\ Cardinality(AncestorsOrSelf(T, T.parent_id[d])) < Cardinality(AncestorsOrSelf(T, d))
<1> DEFINE A == AncestorsOrSelf(T, d)
           B == AncestorsOrSelf(T, T.parent_id[d])
<1>1. A \subseteq Docs /\ B \subseteq Docs /\ d \in A
  BY ReachInDocs, ReachSelf DEF AncestorsOrSelf
<1>2. B \subseteq A  BY <1>1, UpStep, UpTrans
<1>3. d \notin B  BY DEF NoCycle
<1>4. IsFiniteSet(A) /\ IsFiniteSet(B)  BY <1>1, FS_Subset, DocsAssumption
<1> QED  BY <1>1, <1>2, <1>3, <1>4, FS_Subset, FS_CardinalityType

---------------------------------------------------------------------------
(***************************************************************************)
(* Bundles.                                                                *)
(***************************************************************************)
\* The members of a bundle are in the trash with the stamp of its root; all but
\* the root hang under another member.
LEMMA MemberFacts ==
    ASSUME NEW T, NEW root \in BundleRoots(T), NEW d \in Members(T, root)
    PROVE  /\ d \in Docs /\ root \in Docs /\ root \in Members(T, root)
           /\ T.status[d] = "trashed" /\ T.trashed_at[d] = T.trashed_at[root]
           /\ d # root => T.parent_id[d] \in Members(T, root)
<1> DEFINE D == {e \in Docs : T.status[e] = "trashed" /\ T.trashed_at[e] = T.trashed_at[root]}
<1>1. root \in Docs /\ T.status[root] = "trashed"  BY DEF BundleRoots
<1>2. Members(T, root) = Reach(root, ChildEdges(T, D))  BY DEF Members, BundleEdges
<1>3. d # root => d \in D /\ T.parent_id[d] \in Members(T, root)
  BY <1>1, <1>2, DownLast
<1> QED  BY <1>1, <1>2, <1>3, ReachInDocs, ReachSelf

\* A child with the stamp of its parent in the bundle is in the bundle.
LEMMA MemberStep ==
    ASSUME NEW T, NEW root \in BundleRoots(T), NEW d \in Docs,
           T.parent_id[d] \in Members(T, root),
           T.status[d] = "trashed", T.trashed_at[d] = T.trashed_at[root]
    PROVE  d \in Members(T, root)
BY DownStep DEF Members, BundleEdges, BundleRoots

\* Two bundles have no document in common.
LEMMA BundlesDisjoint ==
    ASSUME NEW T, NEW r1 \in BundleRoots(T), NEW r2 \in BundleRoots(T), r1 # r2
    PROVE  Members(T, r1) \cap Members(T, r2) = {}
<1> DEFINE D == {e \in Docs : T.status[e] = "trashed" /\ T.trashed_at[e] = T.trashed_at[r1]}
           S == Members(T, r1) \ Members(T, r2)
<1>1. Members(T, r1) = Reach(r1, ChildEdges(T, D)) /\ r1 \in Docs
  BY DEF Members, BundleEdges, BundleRoots
<1>2. r1 \notin Members(T, r2)
  <2> SUFFICES ASSUME r1 \in Members(T, r2) PROVE FALSE
    OBVIOUS
  <2> DEFINE p == T.parent_id[r1]
  <2>1. p \in Members(T, r2) /\ T.trashed_at[r1] = T.trashed_at[r2]  BY MemberFacts
  <2>2. p \in Docs /\ T.status[p] = "trashed" /\ T.trashed_at[p] = T.trashed_at[r2]
    BY <2>1, MemberFacts
  <2> QED  BY <2>1, <2>2 DEF BundleRoots, IsBundleRoot
<1>3. S \in SUBSET Docs /\ r1 \in S
  BY <1>1, <1>2, ReachInDocs, ReachSelf
<1>4. ASSUME NEW z \in D, T.parent_id[z] \in S PROVE z \in S
  <2>1. z \in Members(T, r1)  BY <1>4, MemberStep
  <2>2. ASSUME z \in Members(T, r2) PROVE FALSE
    <3>1. z = r2  BY <1>4, <2>2, MemberFacts
    <3>2. T.parent_id[z] \in Docs /\ T.status[T.parent_id[z]] = "trashed"
          /\ T.trashed_at[T.parent_id[z]] = T.trashed_at[r1]
      BY <1>4, MemberFacts
    <3> QED  BY <3>1, <3>2 DEF BundleRoots, IsBundleRoot
  <2> QED  BY <2>1, <2>2
<1>5. Members(T, r1) \subseteq S
  <2> HIDE DEF S, D
  <2>1. D \in SUBSET Docs  BY DEF D
  <2> QED  BY <1>1, <1>3, <1>4, <2>1, DownLeast
<1> QED  BY <1>5

\* Without cycles every document in the trash belongs to a bundle: go up from it
\* while the parent is in the trash with the same stamp.
LEMMA SomeBundle ==
    ASSUME NEW T, NoCycle(T), NEW d \in Docs, T.status[d] = "trashed"
    PROVE  \E root \in BundleRoots(T) : d \in Members(T, root)
<1> DEFINE D == {e \in Docs : T.status[e] = "trashed" /\ T.trashed_at[e] = T.trashed_at[d]}
           C == {a \in D : d \in Reach(a, ChildEdges(T, D))}
           size(a) == Cardinality(AncestorsOrSelf(T, a))
           sizes == {size(a) : a \in C}
<1>1. d \in C  BY ReachSelf
<1>2. sizes \subseteq Nat /\ sizes # {}
  <2>1. ASSUME NEW a \in C PROVE size(a) \in Nat
    BY FS_Subset, FS_CardinalityType, ReachInDocs, DocsAssumption DEF AncestorsOrSelf
  <2> QED  BY <1>1, <2>1
<1>3. PICK n \in sizes : \A m \in sizes : <<m, n>> \notin OpToRel(<, Nat)
  BY <1>2, NatLessThanWellFounded, WFMin
<1>4. PICK a \in C : n = size(a)  OBVIOUS
<1>5. a \in BundleRoots(T)
  <2> SUFFICES ASSUME T.parent_id[a] \in D PROVE FALSE
    BY DEF BundleRoots, IsBundleRoot
  <2> DEFINE p == T.parent_id[a]
  <2>1. a \in Reach(p, ChildEdges(T, D))
    BY ReachSelf, DownStep
  <2>2. d \in Reach(p, ChildEdges(T, D))
    <3>1. d \in Reach(a, ChildEdges(T, D)) /\ p \in Docs /\ D \in SUBSET Docs
      OBVIOUS
    <3> QED  BY <2>1, <3>1, DownTrans
  <2>3. p \in C  BY <2>2
  <2>4. size(p) \in Nat /\ size(a) \in Nat /\ size(p) < size(a)
    BY FewerAncestors
  <2>5. <<size(p), n>> \in Nat \X Nat /\ <<size(p), n>>[1] < <<size(p), n>>[2]
    BY <1>4, <2>4
  <2>6. <<size(p), n>> \in OpToRel(<, Nat)
    BY <2>5, Zenon DEF OpToRel
  <2> QED  BY <1>3, <2>3, <2>6
<1>6. Members(T, a) = Reach(a, ChildEdges(T, D))
  BY DEF Members, BundleEdges
<1> QED  BY <1>5, <1>6

\* BundlesPartitionTrash follows from the absence of cycles, whatever the stamps.
LEMMA NoCyclePartition ==
    NoCycle(table) => BundlesPartitionTrash
<1> SUFFICES ASSUME NoCycle(table), NEW d \in Docs, table.status[d] = "trashed"
             PROVE  Cardinality({root \in BundleRoots(table) : d \in Members(table, root)}) = 1
  BY DEF BundlesPartitionTrash
<1>1. PICK root \in BundleRoots(table) : d \in Members(table, root)
  BY SomeBundle
<1>2. {r \in BundleRoots(table) : d \in Members(table, r)} = {root}
  BY <1>1, BundlesDisjoint
<1> QED  BY <1>2, FS_Singleton

---------------------------------------------------------------------------
(***************************************************************************)
(* What one request at a time does to the table.  Prepared(T, w): the      *)
(* columns w were computed from the rows of T.                             *)
(***************************************************************************)
Creates(T, w, d, ws, p) ==
    /\ T.status[d] = "absent"
    /\ p \in Docs => T.status[p] = "active"
    /\ w = [workspace_id |-> Assign({d}, ws), parent_id |-> Assign({d}, p),
            status |-> Assign({d}, "active"), trashed_at |-> Assign({d}, Null)]

Moves(T, w, d, p) ==
    /\ T.status[d] = "active"
    /\ p \in Docs => T.status[p] = "active" /\ d \notin AncestorsOrSelf(T, p)
    /\ w = [NoWrites EXCEPT !.parent_id = Assign(IF T.parent_id[d] = p THEN {} ELSE {d}, p)]

Trashes(T, w, d, t) ==
    /\ T.status[d] = "active"
    /\ w = [NoWrites EXCEPT !.status = Assign(ActiveDescendants(T, d), "trashed"),
                            !.trashed_at = Assign(ActiveDescendants(T, d), t)]

Restores(T, w, root, p) ==
    /\ root \in BundleRoots(T) /\ p = RestoreParent(T, root)
    /\ w = [NoWrites EXCEPT
               !.status = Assign(Members(T, root), "active"),
               !.trashed_at = Assign(Members(T, root), Null),
               !.parent_id = Assign(IF T.parent_id[root] = p THEN {} ELSE {root}, p)]

Purges(T, w, root) ==
    /\ root \in BundleRoots(T)
    /\ w = PurgeWrites(Members(T, root))

Prepared(T, w) ==
    \/ \E d \in Docs, ws \in Workspaces, p \in Docs \cup {Null} : Creates(T, w, d, ws, p)
    \/ \E d \in Docs, p \in Docs \cup {Null} : Moves(T, w, d, p)
    \/ \E d \in Docs, t \in Time : Trashes(T, w, d, t)
    \/ \E root \in Docs, p \in Docs \cup {Null} : Restores(T, w, root, p)
    \/ \E root \in Docs : Purges(T, w, root)

\* The same, as what becomes of the rows.
StatusChange(D, s) ==
    \A e \in Docs : table'.status[e] = IF e \in D THEN s ELSE table.status[e]

StampChange(D, t) ==
    \A e \in Docs : table'.trashed_at[e] = IF e \in D THEN t ELSE table.trashed_at[e]

Created(d, p) ==
    /\ table.status[d] = "absent"
    /\ p \in Docs => table.status[p] = "active"
    /\ StatusChange({d}, "active") /\ StampChange({d}, Null)
    /\ Reparents(table, table', d, p)

Moved(d, p) ==
    /\ table.status[d] = "active"
    /\ p \in Docs => table.status[p] = "active" /\ d \notin AncestorsOrSelf(table, p)
    /\ StatusChange({}, "active") /\ StampChange({}, Null)
    /\ Reparents(table, table', d, p)

Trashed(d, t) ==
    /\ table.status[d] = "active"
    /\ StatusChange(ActiveDescendants(table, d), "trashed")
    /\ StampChange(ActiveDescendants(table, d), t)
    /\ Reparents(table, table', d, table.parent_id[d])

Restored(root) ==
    /\ root \in BundleRoots(table)
    /\ StatusChange(Members(table, root), "active") /\ StampChange(Members(table, root), Null)
    /\ Reparents(table, table', root, RestoreParent(table, root))

Purged(root) ==
    /\ root \in BundleRoots(table)
    /\ StatusChange(Members(table, root), "deleted") /\ StampChange({}, Null)
    /\ Reparents(table, table', root, table.parent_id[root])

TreeStep ==
    \/ \E d \in Docs, p \in Docs \cup {Null} : Created(d, p) \/ Moved(d, p)
    \/ \E d \in Docs, t \in Time : Trashed(d, t)
    \/ \E root \in Docs : Restored(root) \/ Purged(root)

LEMMA Columns ==
    ASSUME NEW T, NEW w
    PROVE  /\ \A d \in Docs : Committed(T, w).parent_id[d] =
                  IF w.parent_id[d] = Keep THEN T.parent_id[d] ELSE w.parent_id[d]
           /\ \A d \in Docs : Committed(T, w).status[d] =
                  IF w.status[d] = Keep THEN T.status[d] ELSE w.status[d]
           /\ \A d \in Docs : Committed(T, w).trashed_at[d] =
                  IF w.trashed_at[d] = Keep THEN T.trashed_at[d] ELSE w.trashed_at[d]
BY DEF Committed, Flush

LEMMA PurgeColumns ==
    ASSUME NEW root \in BundleRoots(table), table' = Committed(table, PurgeWrites(Members(table, root)))
    PROVE  Purged(root)
<1> DEFINE w == PurgeWrites(Members(table, root))
<1>1. \A d \in Docs : /\ w.parent_id[d] = Keep /\ w.trashed_at[d] = Keep
                      /\ w.status[d] = IF d \in Members(table, root) THEN "deleted" ELSE Keep
  BY DEF PurgeWrites, NoWrites, Assign
<1> HIDE DEF w
<1> QED  BY <1>1, Columns, KeepFacts DEF w, Purged, StatusChange, StampChange, Reparents

LEMMA CommitsTreeStep ==
    ASSUME TypeOK, NEW w, Prepared(table, w), table' = Committed(table, w)
    PROVE  TreeStep
<1>0. \A e \in Docs :
        /\ table'.parent_id[e] = IF w.parent_id[e] = Keep THEN table.parent_id[e] ELSE w.parent_id[e]
        /\ table'.status[e] = IF w.status[e] = Keep THEN table.status[e] ELSE w.status[e]
        /\ table'.trashed_at[e] = IF w.trashed_at[e] = Keep THEN table.trashed_at[e] ELSE w.trashed_at[e]
  BY Columns
<1>1. ASSUME NEW d \in Docs, NEW ws \in Workspaces, NEW p \in Docs \cup {Null}, Creates(table, w, d, ws, p)
      PROVE  Created(d, p)
  <2>1. \A e \in Docs : /\ w.parent_id[e] = IF e = d THEN p ELSE Keep
                        /\ w.status[e] = IF e = d THEN "active" ELSE Keep
                        /\ w.trashed_at[e] = IF e = d THEN Null ELSE Keep
    BY <1>1 DEF Creates, Assign
  <2>2. table.status[d] = "absent" /\ (p \in Docs => table.status[p] = "active")
    BY <1>1, KeepFacts DEF Creates
  <2>3. StatusChange({d}, "active") /\ StampChange({d}, Null) /\ Reparents(table, table', d, p)
    BY <1>0, <2>1, KeepFacts DEF StatusChange, StampChange, Reparents
  <2> QED  BY <2>2, <2>3 DEF Created
<1>2. ASSUME NEW d \in Docs, NEW p \in Docs \cup {Null}, Moves(table, w, d, p)
      PROVE  Moved(d, p)
  <2>1. \A e \in Docs : /\ w.parent_id[e] = IF e = d /\ table.parent_id[d] # p THEN p ELSE Keep
                        /\ w.status[e] = Keep /\ w.trashed_at[e] = Keep
    BY <1>2 DEF Moves, Assign, NoWrites
  <2>2. /\ table.status[d] = "active"
        /\ p \in Docs => table.status[p] = "active" /\ d \notin AncestorsOrSelf(table, p)
    BY <1>2, KeepFacts DEF Moves
  <2>3. StatusChange({}, "active") /\ StampChange({}, Null) /\ Reparents(table, table', d, p)
    BY <1>0, <2>1, KeepFacts DEF StatusChange, StampChange, Reparents
  <2> QED  BY <2>2, <2>3 DEF Moved
<1>3. ASSUME NEW d \in Docs, NEW t \in Time, Trashes(table, w, d, t)
      PROVE  Trashed(d, t)
  <2> DEFINE D == ActiveDescendants(table, d)
  <2>1. \A e \in Docs : /\ w.parent_id[e] = Keep
                        /\ w.status[e] = IF e \in D THEN "trashed" ELSE Keep
                        /\ w.trashed_at[e] = IF e \in D THEN t ELSE Keep
    BY <1>3 DEF Trashes, Assign, NoWrites
  <2>2. t # Keep  BY NullAssumption DEF Time
  <2> HIDE DEF D
  <2>3. /\ StatusChange(D, "trashed") /\ StampChange(D, t)
        /\ Reparents(table, table', d, table.parent_id[d])
    BY <1>0, <2>1, <2>2, KeepFacts DEF StatusChange, StampChange, Reparents
  <2> QED  BY <1>3, <2>3 DEF D, Trashes, Trashed
<1>4. ASSUME NEW root \in Docs, NEW p \in Docs \cup {Null}, Restores(table, w, root, p)
      PROVE  Restored(root)
  <2> DEFINE D == Members(table, root)
  <2>1. \A e \in Docs : /\ w.parent_id[e] = IF e = root /\ table.parent_id[root] # p THEN p ELSE Keep
                        /\ w.status[e] = IF e \in D THEN "active" ELSE Keep
                        /\ w.trashed_at[e] = IF e \in D THEN Null ELSE Keep
    BY <1>4 DEF Restores, Assign, NoWrites
  <2>2. p # Keep  BY KeepFacts
  <2> HIDE DEF D
  <2>3. table'.parent_id[root] = p /\ \A e \in Docs \ {root} : table'.parent_id[e] = table.parent_id[e]
    BY <1>0, <2>1, <2>2
  <2>4. StatusChange(D, "active") /\ StampChange(D, Null)
    BY <1>0, <2>1, KeepFacts DEF StatusChange, StampChange
  <2> QED  BY <1>4, <2>3, <2>4 DEF D, Restores, Restored, Reparents
<1>5. ASSUME NEW root \in Docs, Purges(table, w, root)
      PROVE  Purged(root)
  BY <1>5, PurgeColumns DEF Purges
<1> QED  BY <1>1, <1>2, <1>3, <1>4, <1>5 DEF Prepared, TreeStep

---------------------------------------------------------------------------
(***************************************************************************)
(* The shape of the tree under these changes.                              *)
(***************************************************************************)
\* A document without a row has no children, so it is above nobody.
LEMMA AbsentAboveNobody ==
    ASSUME Rows, NEW d \in Docs, table.status[d] = "absent", NEW x \in Docs, x # d
    PROVE  d \notin AncestorsOrSelf(table, x)
<1> SUFFICES ASSUME d \in AncestorsOrSelf(table, x) PROVE FALSE
  OBVIOUS
<1>1. PICK z \in AncestorsOrSelf(table, x) : table.parent_id[z] = d  BY UpLast
<1>2. z \in Docs  BY ReachInDocs DEF AncestorsOrSelf
<1> QED  BY <1>1, <1>2 DEF Rows, RowOf, Exists

LEMMA StepNoCycle ==
    ASSUME Rows, NoCycle(table), TreeStep
    PROVE  NoCycle(table')
<1>1. ASSUME NEW d \in Docs, Reparents(table, table', d, table.parent_id[d]) PROVE NoCycle(table')
  <2>1. table.parent_id[d] \in Docs => d \notin AncestorsOrSelf(table, table.parent_id[d])
    BY DEF NoCycle
  <2> QED  BY <1>1, <2>1, ReparentNoCycle
<1>2. ASSUME NEW d \in Docs, NEW p \in Docs \cup {Null}, Created(d, p) PROVE NoCycle(table')
  <2>1. p \in Docs => d \notin AncestorsOrSelf(table, p)
    <3>1. table.status[d] = "absent" /\ (p \in Docs => table.status[p] = "active")
      BY <1>2 DEF Created
    <3> QED  BY <3>1, AbsentAboveNobody
  <2> QED  BY <1>2, <2>1, ReparentNoCycle DEF Created
<1>3. ASSUME NEW d \in Docs, NEW p \in Docs \cup {Null}, Moved(d, p) PROVE NoCycle(table')
  BY <1>3, ReparentNoCycle DEF Moved
<1>4. ASSUME NEW root \in Docs, Restored(root) PROVE NoCycle(table')
  <2> DEFINE p == RestoreParent(table, root)
  <2>1. p \in Docs => p = table.parent_id[root]  BY KeepFacts DEF RestoreParent
  <2>2. p \in Docs => root \notin AncestorsOrSelf(table, p)  BY <2>1 DEF NoCycle
  <2>3. Reparents(table, table', root, p)  BY <1>4 DEF Restored
  <2> HIDE DEF p
  <2> QED  BY <2>2, <2>3, ReparentNoCycle
<1> QED  BY <1>1, <1>2, <1>3, <1>4 DEF TreeStep, Trashed, Purged

LEMMA StepActiveUnderActive ==
    ASSUME ActiveUnderActive, TreeStep
    PROVE  ActiveUnderActive'
<1> SUFFICES ASSUME NEW e \in Docs, table'.status[e] = "active", NEW q \in Docs,
                    q = table'.parent_id[e]
             PROVE  table'.status[q] = "active"
  BY DEF ActiveUnderActive
<1>1. ASSUME NEW d \in Docs, NEW p \in Docs \cup {Null}, Created(d, p) \/ Moved(d, p)
      PROVE  table'.status[q] = "active"
  <2>1. /\ p \in Docs => table.status[p] = "active"
        /\ Reparents(table, table', d, p)
        /\ \A x \in Docs : table.status[x] = "active" => table'.status[x] = "active"
        /\ e # d => table.status[e] = "active"
    BY <1>1 DEF Created, Moved, StatusChange
  <2> QED  BY <2>1 DEF Reparents, ActiveUnderActive
<1>2. ASSUME NEW d \in Docs, NEW t \in Time, Trashed(d, t)
      PROVE  table'.status[q] = "active"
  <2> DEFINE D == ActiveDescendants(table, d)
  <2>1. e \notin D /\ table.status[e] = "active" /\ q = table.parent_id[e]
    BY <1>2 DEF Trashed, StatusChange, Reparents
  <2>2. table.status[q] = "active"  BY <2>1 DEF ActiveUnderActive
  <2>3. q \notin D
    BY <2>1, DownStep DEF ActiveDescendants, ActiveEdges
  <2> QED  BY <1>2, <2>2, <2>3 DEF Trashed, StatusChange
<1>3. ASSUME NEW root \in Docs, Restored(root)
      PROVE  table'.status[q] = "active"
  <2> DEFINE D == Members(table, root)
  <2>1. /\ root \in BundleRoots(table)
        /\ \A x \in Docs : table'.status[x] = IF x \in D THEN "active" ELSE table.status[x]
        /\ \A x \in Docs : table'.parent_id[x] =
                IF x = root THEN RestoreParent(table, root) ELSE table.parent_id[x]
    BY <1>3 DEF Restored, StatusChange, Reparents
  <2>2. CASE e = root
    BY <2>1, <2>2, KeepFacts DEF RestoreParent
  <2>3. CASE e # root /\ e \in D
    BY <2>1, <2>3, MemberFacts
  <2>4. CASE e # root /\ e \notin D
    BY <2>1, <2>4 DEF ActiveUnderActive
  <2> QED  BY <2>2, <2>3, <2>4
<1>4. ASSUME NEW root \in Docs, Purged(root)
      PROVE  table'.status[q] = "active"
  <2>1. root \in BundleRoots(table)  BY <1>4 DEF Purged
  <2>2. /\ table.status[e] = "active" /\ q = table.parent_id[e]
        /\ \A x \in Docs : table.status[x] = "active" => table'.status[x] = "active"
    BY <1>4, <2>1, MemberFacts DEF Purged, StatusChange, Reparents
  <2> QED  BY <2>2 DEF ActiveUnderActive
<1> QED  BY <1>1, <1>2, <1>3, <1>4 DEF TreeStep

\* INV-10, for one change: the members of a bundle leave the trash together.
LEMMA StepBundleAtomic ==
    ASSUME TreeStep, NEW root \in BundleRoots(table), NEW x \in Members(table, root),
           table'.status[x] # "trashed", NEW d \in Members(table, root)
    PROVE  table'.status[d] = table'.status[root]
<1>1. /\ x \in Docs /\ d \in Docs /\ root \in Docs /\ root \in Members(table, root)
      /\ table.status[x] = "trashed"
  BY MemberFacts
<1>2. ASSUME NEW e \in Docs, NEW p \in Docs \cup {Null}, Created(e, p) \/ Moved(e, p) PROVE FALSE
  BY <1>1, <1>2 DEF Created, Moved, StatusChange
<1>3. ASSUME NEW e \in Docs, NEW t \in Time, Trashed(e, t) PROVE FALSE
  BY <1>1, <1>3 DEF Trashed, StatusChange
<1>4. ASSUME NEW r \in BundleRoots(table), NEW s, StatusChange(Members(table, r), s)
      PROVE  table'.status[d] = table'.status[root]
  <2>1. x \in Members(table, r)  BY <1>1, <1>4 DEF StatusChange
  <2>2. r = root  BY <2>1, BundlesDisjoint
  <2> QED  BY <1>1, <1>4, <2>2 DEF StatusChange
<1> QED  BY <1>2, <1>3, <1>4 DEF TreeStep, Restored, Purged

\* INV-12, for one change: what stays in the trash keeps its stamp.
LEMMA StepTimerKept ==
    ASSUME TreeStep, NEW d \in Docs, table.status[d] = "trashed", table'.status[d] = "trashed"
    PROVE  table'.trashed_at[d] = table.trashed_at[d]
<1>1. ASSUME NEW e \in Docs, NEW p \in Docs \cup {Null}, Created(e, p) \/ Moved(e, p)
      PROVE  table'.trashed_at[d] = table.trashed_at[d]
  BY <1>1 DEF Created, Moved, StampChange
<1>2. ASSUME NEW e \in Docs, NEW t \in Time, Trashed(e, t)
      PROVE  table'.trashed_at[d] = table.trashed_at[d]
  <2>1. d \notin ActiveDescendants(table, e)  BY <1>2, CapturedActive DEF Trashed
  <2> QED  BY <1>2, <2>1 DEF Trashed, StampChange
<1>3. ASSUME NEW root \in Docs, Restored(root) \/ Purged(root)
      PROVE  table'.trashed_at[d] = table.trashed_at[d]
  BY <1>3 DEF Restored, Purged, StatusChange, StampChange
<1> QED  BY <1>1, <1>2, <1>3 DEF TreeStep

---------------------------------------------------------------------------
(***************************************************************************)
(* One request or sweep at a time.                                         *)
(***************************************************************************)
\* Whoever is under way is alone and has read the rows that are current.
Serial ==
    /\ \A r \in Requests : request[r].state = "open" =>
            sweep.state = "idle" /\ Prepared(table, request[r].write)
    /\ \A r, q \in Requests : request[r].state = "open" /\ request[q].state = "open" => r = q

\* The sweep's stale objects agree with the rows, and what it has listed is
\* still in the trash, with the stamp it was listed with.
SweepFresh ==
    sweep.state # "idle" =>
        /\ sweep.state = "reading" => sweep.snap = table
        /\ \A d \in sweep.cached :
                /\ sweep.seen.workspace_id[d] = table.workspace_id[d]
                /\ sweep.seen.parent_id[d] = table.parent_id[d]
                /\ sweep.seen.status[d] = table.status[d]
                /\ sweep.seen.trashed_at[d] = table.trashed_at[d]
        /\ \A d \in Docs : sweep.due[d] # Null =>
                sweep.due[d] = table.trashed_at[d] /\ Expired(sweep.due[d])

LEMMA BeginSerial ==
    ASSUME Overlap = FALSE, TypeOK, Serial, NEW r \in Requests, MayBegin(r),
           NEW w, Open(r, w), Prepared(table, w)
    PROVE  Serial'
<1>1. /\ request' = [request EXCEPT ![r] = [state |-> "open", write |-> w]]
      /\ table' = table /\ sweep' = sweep
      /\ sweep.state = "idle" /\ \A q \in Requests : request[q].state # "open"
  BY DEF Open, MayBegin, Quiet
<1>2. request'[r].write = w /\ \A q \in Requests : q # r => request'[q] = request[q]
  BY <1>1 DEF TypeOK
<1>3. \A q \in Requests : request'[q].state = "open" => q = r
  BY <1>1, <1>2
<1> QED  BY <1>1, <1>2, <1>3 DEF Serial

LEMMA BeginPrepared ==
    ASSUME TypeOK, NEW r \in Requests,
           \/ \E d \in Docs, w \in Workspaces, p \in Docs \cup {Null} : BeginCreate(r, d, w, p)
           \/ \E d \in Docs, p \in Docs \cup {Null} : BeginMove(r, d, p)
           \/ \E d \in Docs : BeginTrash(r, d)
           \/ \E d \in Docs : BeginRestore(r, d)
           \/ \E d \in Docs : BeginPurge(r, d)
    PROVE  MayBegin(r) /\ \E w : Open(r, w) /\ Prepared(table, w)
<1>1. ASSUME NEW d \in Docs, NEW ws \in Workspaces, NEW p \in Docs \cup {Null}, BeginCreate(r, d, ws, p)
      PROVE  MayBegin(r) /\ \E w : Open(r, w) /\ Prepared(table, w)
  <2> DEFINE w == [workspace_id |-> Assign({d}, ws), parent_id |-> Assign({d}, p),
                   status |-> Assign({d}, "active"), trashed_at |-> Assign({d}, Null)]
  <2>1. Creates(table, w, d, ws, p)
    BY <1>1, KeepFacts DEF BeginCreate, Unused, AdmissibleParent, Creates
  <2>2. MayBegin(r) /\ Open(r, w)  BY <1>1 DEF BeginCreate
  <2> HIDE DEF w
  <2> QED  BY <2>1, <2>2 DEF Prepared
<1>2. ASSUME NEW d \in Docs, NEW p \in Docs \cup {Null}, BeginMove(r, d, p)
      PROVE  MayBegin(r) /\ \E w : Open(r, w) /\ Prepared(table, w)
  <2> DEFINE w == [NoWrites EXCEPT !.parent_id = Assign(Changed(d, p), p)]
  <2>1. Moves(table, w, d, p)
    BY <1>2, KeepFacts DEF BeginMove, AdmissibleParent, Changed, Moves
  <2>2. MayBegin(r) /\ Open(r, w)  BY <1>2 DEF BeginMove
  <2> HIDE DEF w
  <2> QED  BY <2>1, <2>2 DEF Prepared
<1>3. ASSUME NEW d \in Docs, BeginTrash(r, d)
      PROVE  MayBegin(r) /\ \E w : Open(r, w) /\ Prepared(table, w)
  <2> DEFINE captured == ActiveDescendants(table, d)
             w == [NoWrites EXCEPT !.status = Assign(captured, "trashed"),
                                   !.trashed_at = Assign(captured, now)]
  <2>1. Trashes(table, w, d, now) /\ now \in Time
    BY <1>3 DEF BeginTrash, Trashes, TypeOK
  <2>2. MayBegin(r) /\ Open(r, w)  BY <1>3 DEF BeginTrash
  <2> HIDE DEF w
  <2> QED  BY <2>1, <2>2 DEF Prepared
<1>4. ASSUME NEW root \in Docs, BeginRestore(r, root)
      PROVE  MayBegin(r) /\ \E w : Open(r, w) /\ Prepared(table, w)
  <2> DEFINE members == Members(table, root)
             p == RestoreParent(table, root)
             w == [NoWrites EXCEPT !.status = Assign(members, "active"),
                                   !.trashed_at = Assign(members, Null),
                                   !.parent_id = Assign(Changed(root, p), p)]
  <2>1. Restores(table, w, root, p)
    BY <1>4 DEF BeginRestore, Changed, Restores
  <2>2. MayBegin(r) /\ Open(r, w)  BY <1>4 DEF BeginRestore
  <2>3. p \in Docs \cup {Null}  BY DEF RestoreParent
  <2> HIDE DEF w, p
  <2> QED  BY <2>1, <2>2, <2>3 DEF Prepared
<1>5. ASSUME NEW root \in Docs, BeginPurge(r, root)
      PROVE  MayBegin(r) /\ \E w : Open(r, w) /\ Prepared(table, w)
  <2> DEFINE w == PurgeWrites(Members(table, root))
  <2>1. Purges(table, w, root)  BY <1>5 DEF BeginPurge, Purges
  <2>2. MayBegin(r) /\ Open(r, w)  BY <1>5 DEF BeginPurge
  <2> HIDE DEF w
  <2> QED  BY <2>1, <2>2 DEF Prepared
<1> QED  BY <1>1, <1>2, <1>3, <1>4, <1>5

\* The sweep sees the rows as they are, so it purges a bundle as a request does.
LEMMA SweepPurgesBundle ==
    ASSUME TypeOK, SweepFresh, NEW root \in Docs, SweepPurge(root)
    PROVE  /\ Purged(root)
           /\ {d \in SweepMembers(root) : View.status[d] # "deleted"} = Members(table, root)
<1>1. /\ sweep.state = "reading" /\ sweep.snap = table
      /\ sweep.cached \in SUBSET Docs
      /\ \A d \in sweep.cached :
            /\ sweep.seen.workspace_id[d] = table.workspace_id[d]
            /\ sweep.seen.parent_id[d] = table.parent_id[d]
            /\ sweep.seen.status[d] = table.status[d]
            /\ sweep.seen.trashed_at[d] = table.trashed_at[d]
  BY DEF SweepPurge, SweepFresh, TypeOK
<1>2. View = table
  <2>1. /\ table.workspace_id = [d \in Docs |-> table.workspace_id[d]]
        /\ table.parent_id = [d \in Docs |-> table.parent_id[d]]
        /\ table.status = [d \in Docs |-> table.status[d]]
        /\ table.trashed_at = [d \in Docs |-> table.trashed_at[d]]
        /\ table = [workspace_id |-> table.workspace_id, parent_id |-> table.parent_id,
                    status |-> table.status, trashed_at |-> table.trashed_at]
    BY DEF TypeOK, Table
  <2> QED  BY <1>1, <2>1 DEF View, Loaded
<1>3. root \in BundleRoots(table)
  BY <1>2 DEF SweepPurge
<1>4. SweepMembers(root) = Members(table, root)
  <2>1. {e \in Docs \X Docs :
            /\ table.parent_id[e[2]] = e[1]
            /\ table.status[e[2]] = "trashed"
            /\ table.trashed_at[e[2]] = table.trashed_at[root]}
          = BundleEdges(table, table.trashed_at[root])
    BY DEF BundleEdges, ChildEdges
  <2> QED  BY <1>1, <1>2, <2>1 DEF SweepMembers, Members
<1>5. {d \in SweepMembers(root) : View.status[d] # "deleted"} = Members(table, root)
  BY <1>2, <1>3, <1>4, MembersTrashed
<1>6. table' = Committed(table, PurgeWrites(Members(table, root)))
  BY <1>5 DEF SweepPurge
<1> QED  BY <1>3, <1>5, <1>6, PurgeColumns

LEMMA SerialInit == Init => Serial /\ SweepFresh
BY DEF Init, Serial, SweepFresh, Idle, NoSweep

LEMMA SerialStep ==
    ASSUME Overlap = FALSE, TypeOK, Serial, [Next]_vars
    PROVE  Serial'
<1>1. ASSUME NEW r \in Requests, RequestStep(r), ~Commit(r), ~Abort(r)
      PROVE  Serial'
  BY <1>1, BeginPrepared, BeginSerial DEF RequestStep
<1>2. ASSUME NEW r \in Requests, Commit(r) \/ Abort(r)
      PROVE  Serial'
  <2>1. request'[r].state = "idle" /\ \A q \in Requests : q # r => request[q].state # "open"
    BY <1>2 DEF Commit, Abort, Idle, Serial, TypeOK
  <2>2. \A q \in Requests : q # r => request'[q] = request[q]
    BY <1>2 DEF Commit, Abort, TypeOK
  <2>3. \A q \in Requests : request'[q].state # "open"
    BY <2>1, <2>2
  <2> QED  BY <2>3 DEF Serial
<1>3. CASE SweepStep
  <2>1. /\ request' = request
        /\ \A r \in Requests : request[r].state = "open" => FALSE
    BY <1>3 DEF SweepStep, SweepStart, SweepPurge, SweepSkip, SweepReopen, SweepEnd, Serial, Quiet
  <2> QED  BY <2>1 DEF Serial
<1>4. CASE Tick \/ UNCHANGED vars
  BY <1>4 DEF Tick, vars, Serial
<1> QED  BY <1>1, <1>2, <1>3, <1>4 DEF Next

LEMMA SweepFreshStep ==
    ASSUME Overlap = FALSE, TypeOK, StampCoherent, Serial, SweepFresh, [Next]_vars
    PROVE  SweepFresh'
<1>1. CASE sweep' = sweep /\ table' = table /\ now' = now
  BY <1>1 DEF SweepFresh, Expired
<1>2. ASSUME NEW r \in Requests, Commit(r)
      PROVE  SweepFresh'
  BY <1>2 DEF Commit, Serial, SweepFresh
<1>3. ASSUME NEW w \in SweepWorkspaces, SweepStart(w)
      PROVE  SweepFresh'
  BY <1>3 DEF SweepStart, SweepFresh, Expired
<1>4. ASSUME NEW root \in Docs, SweepPurge(root)
      PROVE  SweepFresh'
  <2> DEFINE D == Members(table, root)
  <2>1. Purged(root) /\ {d \in SweepMembers(root) : View.status[d] # "deleted"} = D
    BY <1>4, SweepPurgesBundle
  <2> HIDE DEF D
  <2>2. /\ sweep' = [sweep EXCEPT
                !.state = "between", !.snap = Empty, !.due[root] = Null,
                !.seen.status = [d \in Docs |->
                    IF d \in D \cap sweep.cached THEN "deleted" ELSE sweep.seen.status[d]]]
        /\ now' = now /\ sweep.state = "reading"
    BY <1>4, <2>1 DEF SweepPurge
  <2>3. /\ sweep'.state = "between" /\ sweep'.cached = sweep.cached /\ sweep.cached \in SUBSET Docs
        /\ sweep'.seen.workspace_id = sweep.seen.workspace_id
        /\ sweep'.seen.parent_id = sweep.seen.parent_id
        /\ sweep'.seen.trashed_at = sweep.seen.trashed_at
        /\ \A d \in Docs : sweep'.seen.status[d] =
                IF d \in D \cap sweep.cached THEN "deleted" ELSE sweep.seen.status[d]
        /\ \A d \in Docs : sweep'.due[d] = IF d = root THEN Null ELSE sweep.due[d]
    BY <2>2 DEF TypeOK, Table
  <2>4. /\ \A d \in Docs : table'.status[d] = IF d \in D THEN "deleted" ELSE table.status[d]
        /\ \A d \in Docs : table'.parent_id[d] = table.parent_id[d]
        /\ \A d \in Docs : table'.trashed_at[d] = table.trashed_at[d]
    BY <2>1 DEF Purged, StatusChange, StampChange, Reparents, D
  <2>5. \A d \in Docs : table'.workspace_id[d] = table.workspace_id[d]
    BY <1>4 DEF SweepPurge, Committed, Flush, PurgeWrites, NoWrites, Assign
  <2> QED
    BY <2>2, <2>3, <2>4, <2>5 DEF SweepFresh, Expired
<1>5. ASSUME NEW root \in Docs, SweepSkip(root)
      PROVE  SweepFresh'
  <2>1. /\ sweep'.state = "between" /\ sweep'.cached = {} /\ table' = table /\ now' = now
        /\ \A d \in Docs : sweep'.due[d] = IF d = root THEN Null ELSE sweep.due[d]
        /\ sweep.state = "reading"
    BY <1>5 DEF SweepSkip, TypeOK
  <2> QED  BY <2>1 DEF SweepFresh, Expired
<1>6. CASE SweepReopen
  <2>1. /\ sweep'.snap = table /\ sweep'.cached = sweep.cached /\ sweep'.seen = sweep.seen
        /\ sweep'.due = sweep.due /\ table' = table /\ now' = now /\ sweep.state = "between"
    BY <1>6 DEF SweepReopen, TypeOK
  <2> QED  BY <2>1 DEF SweepFresh, Expired
<1>7. CASE SweepEnd
  BY <1>7 DEF SweepEnd, NoSweep, SweepFresh
<1>8. CASE Tick
  <2>1. /\ sweep' = sweep /\ table' = table /\ now' = now + 1 /\ now \in Nat
        /\ \A d \in Docs : sweep.due[d] # Null => sweep.due[d] \in Nat
    BY <1>8 DEF Tick, TypeOK, Time
  <2> QED  BY <2>1, TimeAssumption DEF SweepFresh, Expired
<1> QED
  BY <1>1, <1>2, <1>3, <1>4, <1>5, <1>6, <1>7, <1>8
  DEF Next, RequestStep, SweepStep, Open, BeginCreate, BeginMove, BeginTrash, BeginRestore,
      BeginPurge, Abort, vars

\* A step leaves the rows alone or is one of the five changes.
LEMMA StepIsTreeStep ==
    ASSUME TypeOK, Serial, SweepFresh, [Next]_vars
    PROVE  table' = table \/ TreeStep
<1>1. ASSUME NEW r \in Requests, Commit(r) PROVE TreeStep
  <2>1. Prepared(table, request[r].write)  BY <1>1 DEF Commit, Serial
  <2>2. table' = Committed(table, request[r].write)  BY <1>1 DEF Commit
  <2> QED  BY <2>1, <2>2, CommitsTreeStep
<1>2. ASSUME NEW root \in Docs, SweepPurge(root) PROVE TreeStep
  BY <1>2, SweepPurgesBundle DEF TreeStep
<1> QED
  BY <1>1, <1>2
  DEF Next, RequestStep, SweepStep, Open, BeginCreate, BeginMove, BeginTrash, BeginRestore,
      BeginPurge, Abort, SweepStart, SweepSkip, SweepReopen, SweepEnd, Tick, vars

---------------------------------------------------------------------------
(***************************************************************************)
(* The theorems.  Each assumes that requests and sweep run one at a time.  *)
(***************************************************************************)
LEMMA SerialAlways ==
    ASSUME Overlap = FALSE
    PROVE  Spec => [](TypeOK /\ WInv /\ StampCoherent /\ Serial /\ SweepFresh)
<1>1. TypeOK /\ StampCoherent /\ Serial /\ SweepFresh /\ [Next]_vars => Serial' /\ SweepFresh'
  BY SerialStep, SweepFreshStep
<1> QED  BY <1>1, SerialInit, TypeCorrect, RowsWellFormed, StampsCoherent, PTL DEF Spec

LEMMA ShapeAlways ==
    ASSUME Overlap = FALSE
    PROVE  Spec => [](NoCycle(table) /\ ActiveUnderActive)
<1>1. Init => NoCycle(table) /\ ActiveUnderActive
  BY NullAssumption DEF Init, Empty, NoCycle, ActiveUnderActive
<1>2. TypeOK /\ WInv /\ Serial /\ SweepFresh /\ NoCycle(table) /\ ActiveUnderActive /\ [Next]_vars
        => NoCycle(table') /\ ActiveUnderActive'
  <2> SUFFICES ASSUME TypeOK, WInv, Serial, SweepFresh, NoCycle(table), ActiveUnderActive,
                      [Next]_vars
               PROVE  NoCycle(table') /\ ActiveUnderActive'
    OBVIOUS
  <2>1. CASE table' = table
    BY <2>1 DEF ActiveUnderActive
  <2>2. CASE TreeStep
    <3>1. Rows  BY DEF WInv
    <3> QED  BY <2>2, <3>1, StepNoCycle, StepActiveUnderActive
  <2> QED  BY <2>1, <2>2, StepIsTreeStep
<1>3. NoCycle(table)' <=> NoCycle(table')
  BY DEF NoCycle, AncestorsOrSelf, ParentEdges, Reach, Closed
<1> QED  BY <1>1, <1>2, <1>3, SerialAlways, PTL DEF Spec

\* INV-5: create, move, trash, restore, purge and sweep never make a document
\* its own ancestor: _reject_cycle looks at the right rows.
THEOREM TreeAcyclic ==
    ASSUME Overlap = FALSE
    PROVE  Spec => []Acyclic
<1>1. NoCycle(table) => Acyclic  BY DEF NoCycle, Acyclic
<1> QED  BY <1>1, ShapeAlways, PTL

\* Active documents hang under active documents: trash_document takes the
\* whole active subtree and restore_bundle reattaches under an active parent.
THEOREM NoOrphans ==
    ASSUME Overlap = FALSE
    PROVE  Spec => []ActiveUnderActive
BY ShapeAlways, PTL

\* Every trashed document belongs to exactly one bundle of identify_bundles.
THEOREM TrashPartitioned ==
    ASSUME Overlap = FALSE
    PROVE  Spec => []BundlesPartitionTrash
BY ShapeAlways, NoCyclePartition, PTL

\* INV-10: restore_bundle, purge_bundle and the sweep take all of a bundle.
THEOREM BundlesAtomic ==
    ASSUME Overlap = FALSE
    PROVE  Spec => BundleAtomic
<1> DEFINE Step == \A root \in BundleRoots(table) : LET M == Members(table, root) IN
                      (\E d \in M : table'.status[d] # "trashed") =>
                         \A d \in M : table'.status[d] = table'.status[root]
<1>1. TypeOK /\ Serial /\ SweepFresh /\ [Next]_vars => [Step]_table
  <2> SUFFICES ASSUME TypeOK, Serial, SweepFresh, [Next]_vars, table' # table,
                      NEW root \in BundleRoots(table),
                      NEW x \in Members(table, root), table'.status[x] # "trashed",
                      NEW d \in Members(table, root)
               PROVE  table'.status[d] = table'.status[root]
    OBVIOUS
  <2> QED  BY StepIsTreeStep, StepBundleAtomic
<1> QED  BY <1>1, SerialAlways, PTL DEF Spec, BundleAtomic

\* INV-12: no later delete of a parent captures a document again, so a stamp
\* once given stands until the document leaves the trash.
THEOREM TimersKept ==
    ASSUME Overlap = FALSE
    PROVE  Spec => TimerNeverReset
<1>1. TypeOK /\ Serial /\ SweepFresh /\ [Next]_vars =>
        [\A d \in Docs : table.status[d] = "trashed" /\ table'.status[d] = "trashed" =>
            table'.trashed_at[d] = table.trashed_at[d]]_table
  BY StepIsTreeStep, StepTimerKept
<1> QED  BY <1>1, SerialAlways, PTL DEF Spec, TimerNeverReset

\* One change of the tree is one step of the life cycle, or none (a move).
LEMMA StepFollowsLifecycle ==
    ASSUME TypeOK, TypeOK', TreeStep
    PROVE  Promise!Next \/ table'.status = table.status
<1>1. /\ table'.status = [e \in Docs |-> table'.status[e]]
      /\ table.status = [e \in Docs |-> table.status[e]]
  BY DEF TypeOK, Table
<1>2. ASSUME NEW D, NEW s, StatusChange(D, s)
      PROVE  table'.status = [e \in Docs |-> IF e \in D THEN s ELSE table.status[e]]
  BY <1>1, <1>2 DEF StatusChange
<1>3. ASSUME NEW d \in Docs, NEW p \in Docs \cup {Null}, Created(d, p) PROVE Promise!Next
  BY <1>2, <1>3 DEF Created, Promise!Next, Promise!Create, Promise!Shift
<1>4. ASSUME NEW d \in Docs, NEW p \in Docs \cup {Null}, Moved(d, p)
      PROVE  table'.status = table.status
  BY <1>1, <1>2, <1>4 DEF Moved
<1>5. ASSUME NEW d \in Docs, NEW t \in Time, Trashed(d, t) PROVE Promise!Next
  <2>1. /\ ActiveDescendants(table, d) \in SUBSET Docs
        /\ \A e \in ActiveDescendants(table, d) : table.status[e] = "active"
    BY <1>5, CapturedActive, ReachInDocs DEF Trashed, ActiveDescendants
  <2>2. Promise!Trash(ActiveDescendants(table, d))
    BY <1>2, <1>5, <2>1 DEF Trashed, Promise!Trash, Promise!Shift
  <2> QED  BY <2>1, <2>2 DEF Promise!Next
<1>6. ASSUME NEW root \in Docs, Restored(root) \/ Purged(root) PROVE Promise!Next
  <2>1. /\ Members(table, root) \in SUBSET Docs
        /\ \A e \in Members(table, root) : table.status[e] = "trashed"
    BY <1>6, MemberFacts, ReachInDocs DEF Restored, Purged, Members
  <2>2. Promise!Restore(Members(table, root)) \/ Promise!Purge(Members(table, root))
    BY <1>2, <1>6, <2>1 DEF Restored, Purged, Promise!Restore, Promise!Purge, Promise!Shift
  <2> QED  BY <2>1, <2>2 DEF Promise!Next
<1> QED  BY <1>3, <1>4, <1>5, <1>6 DEF TreeStep

\* The document state engine implements the life cycle of DocLifecycle: whole
\* sets of documents change state together and deleted is terminal.
THEOREM ImplementsLifecycle ==
    ASSUME Overlap = FALSE
    PROVE  Spec => FollowsLifecycle
<1>1. Init => Promise!Init
  BY DEF Init, Empty, Promise!Init
<1>2. TypeOK /\ TypeOK' /\ Serial /\ SweepFresh /\ [Next]_vars => [Promise!Next]_(table.status)
  BY StepIsTreeStep, StepFollowsLifecycle
<1> QED  BY <1>1, <1>2, SerialAlways, PTL DEF Spec, FollowsLifecycle, Promise!Spec

---------------------------------------------------------------------------
(***************************************************************************)
(* INV-11, one at a time still.  It rests on stamps being given in the     *)
(* order of time, although a request reads the clock before it commits.    *)
(***************************************************************************)
\* Stamps are given in the order of time: none in the table is later than now,
\* nor than one a request is about to write.
Dated(d, t) == table.status[d] = "trashed" => table.trashed_at[d] <= t

StampsInOrder ==
    /\ \A d \in Docs : Dated(d, now)
    /\ \A r \in Requests : request[r].state = "open" =>
          \A d \in Docs : request[r].write.trashed_at[d] \in Time =>
              /\ request[r].write.trashed_at[d] <= now
              /\ \A e \in Docs : Dated(e, request[r].write.trashed_at[d])

\* What enters the trash has a stamp no earlier than any there.
LEMMA NewestStamp ==
    ASSUME TypeOK, StampCoherent, Serial, SweepFresh, StampsInOrder, [Next]_vars,
           NEW d \in Docs, table.status[d] # "trashed", table'.status[d] = "trashed"
    PROVE  /\ table'.trashed_at[d] \in Time /\ table'.trashed_at[d] <= now
           /\ \A e \in Docs : Dated(e, table'.trashed_at[d])
<1>1. table' # table  OBVIOUS
<1>2. ASSUME NEW root \in Docs, SweepPurge(root) PROVE FALSE
  BY <1>2, SweepPurgesBundle DEF Purged, StatusChange
<1>3. PICK r \in Requests : Commit(r)  BY <1>1, <1>2, Writers
<1> DEFINE w == request[r].write
<1>4. request[r].state = "open" /\ Prepared(table, w) /\ table' = Committed(table, w)
  BY <1>3 DEF Commit, Serial
<1>5. PICK x \in Docs, t \in Time : Trashed(x, t)
  <2>1. TreeStep  BY <1>4, CommitsTreeStep
  <2> QED
    BY <2>1 DEF TreeStep, Created, Moved, Restored, Purged, StatusChange
<1>6. d \in ActiveDescendants(table, x) /\ table'.trashed_at[d] = t
  BY <1>5 DEF Trashed, StatusChange, StampChange
<1>7. table.trashed_at[d] = Null
  <2>1. table.status[d] = "active"  BY <1>5, <1>6, CapturedActive DEF Trashed
  <2> QED  BY <2>1 DEF StampCoherent
<1>8. w.trashed_at[d] = t
  <2>1. table'.trashed_at[d] = IF w.trashed_at[d] = Keep THEN table.trashed_at[d] ELSE w.trashed_at[d]
    BY <1>4, Columns
  <2>2. t # Null  BY NullAssumption DEF Time
  <2> HIDE DEF w
  <2> QED  BY <1>6, <1>7, <2>1, <2>2
<1> QED  BY <1>4, <1>6, <1>8 DEF StampsInOrder

\* The one stamp a request that begins may write is the present time.
LEMMA BeginStamp ==
    ASSUME NEW r \in Requests,
           \/ \E d \in Docs, w \in Workspaces, p \in Docs \cup {Null} : BeginCreate(r, d, w, p)
           \/ \E d \in Docs, p \in Docs \cup {Null} : BeginMove(r, d, p)
           \/ \E d \in Docs : BeginTrash(r, d)
           \/ \E d \in Docs : BeginRestore(r, d)
           \/ \E d \in Docs : BeginPurge(r, d)
    PROVE  /\ MayBegin(r)
           /\ \E w : Open(r, w) /\ \A d \in Docs : w.trashed_at[d] \in Time => w.trashed_at[d] = now
<1>0. Null \notin Time /\ Keep \notin Time
  BY NullAssumption DEF Time
<1>1. ASSUME NEW d \in Docs, NEW ws \in Workspaces, NEW p \in Docs \cup {Null}, BeginCreate(r, d, ws, p)
      PROVE  /\ MayBegin(r)
             /\ \E w : Open(r, w) /\ \A e \in Docs : w.trashed_at[e] \in Time => w.trashed_at[e] = now
  BY <1>0, <1>1 DEF BeginCreate, Assign
<1>2. ASSUME NEW d \in Docs, NEW p \in Docs \cup {Null}, BeginMove(r, d, p)
      PROVE  /\ MayBegin(r)
             /\ \E w : Open(r, w) /\ \A e \in Docs : w.trashed_at[e] \in Time => w.trashed_at[e] = now
  BY <1>0, <1>2 DEF BeginMove, NoWrites, Assign
<1>3. ASSUME NEW d \in Docs, BeginTrash(r, d)
      PROVE  /\ MayBegin(r)
             /\ \E w : Open(r, w) /\ \A e \in Docs : w.trashed_at[e] \in Time => w.trashed_at[e] = now
  <2> DEFINE captured == ActiveDescendants(table, d)
             w == [NoWrites EXCEPT !.status = Assign(captured, "trashed"),
                                   !.trashed_at = Assign(captured, now)]
  <2>1. \A e \in Docs : w.trashed_at[e] \in {Keep, now}
    <3> HIDE DEF captured
    <3> QED  BY DEF NoWrites, Assign
  <2>2. MayBegin(r) /\ Open(r, w)  BY <1>3 DEF BeginTrash
  <2> HIDE DEF w
  <2> QED  BY <1>0, <2>1, <2>2
<1>4. ASSUME NEW d \in Docs, BeginRestore(r, d)
      PROVE  /\ MayBegin(r)
             /\ \E w : Open(r, w) /\ \A e \in Docs : w.trashed_at[e] \in Time => w.trashed_at[e] = now
  <2> DEFINE members == Members(table, d)
             p == RestoreParent(table, d)
             w == [NoWrites EXCEPT !.status = Assign(members, "active"),
                                   !.trashed_at = Assign(members, Null),
                                   !.parent_id = Assign(Changed(d, p), p)]
  <2>1. \A e \in Docs : w.trashed_at[e] \in {Keep, Null}
    <3> HIDE DEF members, p
    <3> QED  BY DEF NoWrites, Assign
  <2>2. MayBegin(r) /\ Open(r, w)  BY <1>4 DEF BeginRestore
  <2> HIDE DEF w
  <2> QED  BY <1>0, <2>1, <2>2
<1>5. ASSUME NEW d \in Docs, BeginPurge(r, d)
      PROVE  /\ MayBegin(r)
             /\ \E w : Open(r, w) /\ \A e \in Docs : w.trashed_at[e] \in Time => w.trashed_at[e] = now
  <2> DEFINE w == PurgeWrites(Members(table, d))
  <2>1. \A e \in Docs : w.trashed_at[e] = Keep
    BY DEF PurgeWrites, NoWrites, Assign
  <2>2. MayBegin(r) /\ Open(r, w)  BY <1>5 DEF BeginPurge
  <2> HIDE DEF w
  <2> QED  BY <1>0, <2>1, <2>2
<1> QED  BY <1>1, <1>2, <1>3, <1>4, <1>5

LEMMA StampsInOrderStep ==
    ASSUME Overlap = FALSE, TypeOK, StampCoherent, Serial, SweepFresh, StampsInOrder, [Next]_vars
    PROVE  StampsInOrder'
<1>1. now \in Nat /\ now' \in Nat /\ now <= now'
  <2>1. now \in Nat  BY TimeAssumption DEF TypeOK, Time
  <2>2. SweepStep => now' = now
    BY DEF SweepStep, SweepStart, SweepPurge, SweepSkip, SweepReopen, SweepEnd
  <2>3. now' = now \/ now' = now + 1
    BY <2>2, RequestsApart DEF Next, Tick, vars
  <2> QED  BY <2>1, <2>3
<1>2. \A e \in Docs : Dated(e, now)'
  <2> SUFFICES ASSUME NEW e \in Docs, table'.status[e] = "trashed"
               PROVE  table'.trashed_at[e] <= now'
    BY DEF Dated
  <2>1. CASE table.status[e] # "trashed"
    <3>1. table'.trashed_at[e] \in Nat /\ table'.trashed_at[e] <= now
      BY <2>1, NewestStamp, TimeAssumption DEF Time
    <3> QED  BY <1>1, <3>1
  <2>2. CASE table.status[e] = "trashed"
    <3>1. table'.trashed_at[e] = table.trashed_at[e]
      BY <2>2, StepIsTreeStep, StepTimerKept
    <3>2. table.trashed_at[e] \in Nat /\ table.trashed_at[e] <= now
      BY <2>2, TimeAssumption DEF StampCoherent, Time, StampsInOrder, Dated
    <3> QED  BY <1>1, <3>1, <3>2
  <2> QED  BY <2>1, <2>2
<1>3. ASSUME NEW r \in Requests, request'[r].state = "open", request'[r] = request[r], table' = table
      PROVE  \A d \in Docs : request'[r].write.trashed_at[d] \in Time =>
                /\ request'[r].write.trashed_at[d] <= now'
                /\ \A e \in Docs : Dated(e, request[r].write.trashed_at[d])'
  <2> SUFFICES ASSUME NEW d \in Docs, request[r].write.trashed_at[d] \in Time
               PROVE  /\ request[r].write.trashed_at[d] <= now'
                      /\ \A e \in Docs : Dated(e, request[r].write.trashed_at[d])'
    BY <1>3
  <2>1. /\ request[r].write.trashed_at[d] \in Nat /\ request[r].write.trashed_at[d] <= now
        /\ \A e \in Docs : Dated(e, request[r].write.trashed_at[d])
    BY <1>3, TimeAssumption DEF StampsInOrder, Time
  <2> QED  BY <1>1, <1>3, <2>1 DEF Dated
<1>4. ASSUME \A r \in Requests : request'[r].state # "open" PROVE StampsInOrder'
  BY <1>2, <1>4 DEF StampsInOrder
<1>5. ASSUME NEW r \in Requests, RequestStep(r), ~Commit(r), ~Abort(r) PROVE StampsInOrder'
  <2>1. /\ MayBegin(r)
        /\ \E w : Open(r, w) /\ \A d \in Docs : w.trashed_at[d] \in Time => w.trashed_at[d] = now
    BY <1>5, BeginStamp DEF RequestStep
  <2>2. PICK w : Open(r, w) /\ \A d \in Docs : w.trashed_at[d] \in Time => w.trashed_at[d] = now
    BY <2>1
  <2>3. /\ request' = [request EXCEPT ![r] = [state |-> "open", write |-> w]]
        /\ now' = now /\ \A q \in Requests : request[q].state # "open"
    BY <2>1, <2>2 DEF Open, MayBegin, Quiet
  <2>4. request'[r].write = w /\ \A q \in Requests : q # r => request'[q] = request[q]
    BY <2>3 DEF TypeOK
  <2>5. \A d \in Docs : request'[r].write.trashed_at[d] \in Time => request'[r].write.trashed_at[d] = now'
    BY <2>2, <2>3, <2>4
  <2>6. \A q \in Requests : request'[q].state = "open" => q = r
    BY <2>3, <2>4
  <2> QED  BY <1>1, <1>2, <2>5, <2>6 DEF StampsInOrder
<1>6. ASSUME NEW r \in Requests, Commit(r) \/ Abort(r) PROVE StampsInOrder'
  <2>1. request'[r].state = "idle" /\ \A q \in Requests : q # r => request[q].state # "open"
    BY <1>6 DEF Commit, Abort, Idle, Serial, TypeOK
  <2>2. \A q \in Requests : q # r => request'[q] = request[q]
    BY <1>6 DEF Commit, Abort, TypeOK
  <2> QED  BY <1>4, <2>1, <2>2
<1>7. CASE SweepStep
  <2>1. /\ request' = request
        /\ \A r \in Requests : request[r].state # "open"
    BY <1>7 DEF SweepStep, SweepStart, SweepPurge, SweepSkip, SweepReopen, SweepEnd, Serial, Quiet
  <2> QED  BY <1>4, <2>1
<1>8. CASE Tick \/ UNCHANGED vars
  <2>1. request' = request /\ table' = table  BY <1>8 DEF Tick, vars
  <2> QED  BY <1>2, <1>3, <2>1 DEF StampsInOrder
<1> QED  BY <1>5, <1>6, <1>7, <1>8 DEF Next

\* A change of the tree keeps the order of the stamps along the parents.
LEMMA StepChildFirst ==
    ASSUME TypeOK, StampCoherent, ActiveUnderActive, ChildTrashedFirst, StampsInOrder, TreeStep,
           \A d \in Docs : table.status[d] # "trashed" /\ table'.status[d] = "trashed" =>
              table'.trashed_at[d] \in Time /\ \A e \in Docs : Dated(e, table'.trashed_at[d])
    PROVE  ChildTrashedFirst'
<1> DEFINE p(d) == table'.parent_id[d]
<1> SUFFICES ASSUME NEW d \in Docs, p(d) \in Docs,
                    table'.status[d] = "trashed", table'.status[p(d)] = "trashed"
             PROVE  table'.trashed_at[d] <= table'.trashed_at[p(d)]
  BY DEF ChildTrashedFirst
<1>1. CASE table.status[d] = "trashed" /\ table.status[p(d)] = "trashed"
  <2>1. /\ table'.trashed_at[d] = table.trashed_at[d]
        /\ table'.trashed_at[p(d)] = table.trashed_at[p(d)]
    BY <1>1, StepTimerKept
  <2>2. table.parent_id[d] = p(d)
    <3>1. ASSUME NEW e \in Docs, NEW q, table.status[e] # "trashed" \/ q = table.parent_id[e],
                 Reparents(table, table', e, q)
          PROVE  table.parent_id[d] = p(d)
      BY <1>1, <3>1 DEF Reparents
    <3>2. ASSUME NEW root \in Docs, Restored(root) PROVE d # root
      <4>1. root \in Members(table, root)  BY ReachSelf DEF Members
      <4> QED  BY <1>1, <3>2, <4>1 DEF Restored, StatusChange
    <3> QED
      BY <3>1, <3>2 DEF TreeStep, Created, Moved, Trashed, Restored, Purged, Reparents
  <2> QED  BY <1>1, <2>1, <2>2 DEF ChildTrashedFirst
<1>2. CASE table.status[d] # "trashed" \/ table.status[p(d)] # "trashed"
  <2>1. PICK x \in Docs, t \in Time : Trashed(x, t)
    BY <1>2 DEF TreeStep, Created, Moved, Restored, Purged, StatusChange
  <2> DEFINE D == ActiveDescendants(table, x)
  <2>2. /\ p(d) = table.parent_id[d]
        /\ \A e \in Docs : e \in D => table.status[e] = "active" /\ table'.trashed_at[e] = t
        /\ \A e \in Docs : table'.status[e] = IF e \in D THEN "trashed" ELSE table.status[e]
        /\ \A e \in Docs : e \notin D => table'.trashed_at[e] = table.trashed_at[e]
    BY <2>1, CapturedActive DEF Trashed, StatusChange, StampChange, Reparents
  <2> HIDE DEF D
  <2>3. p(d) \in D
    <3>1. ASSUME d \in D, p(d) \notin D PROVE FALSE
      BY <2>2, <3>1 DEF ActiveUnderActive
    <3> QED  BY <1>2, <2>2, <3>1
  <2>4. table'.trashed_at[p(d)] = t /\ Dated(d, t) /\ t \in Nat
    BY <2>2, <2>3, TimeAssumption DEF Time
  <2>5. CASE d \in D
    BY <2>2, <2>4, <2>5
  <2>6. CASE d \notin D
    BY <2>2, <2>4, <2>6 DEF Dated
  <2> QED  BY <2>5, <2>6
<1> QED  BY <1>1, <1>2

\* INV-11: whatever is created, moved, trashed, restored or purged, a trashed
\* child went to the trash before its trashed parent or with it.
THEOREM ChildrenTrashedFirst ==
    ASSUME Overlap = FALSE
    PROVE  Spec => []ChildTrashedFirst
<1>1. Init => StampsInOrder /\ ChildTrashedFirst
  BY NullAssumption DEF Init, Empty, Idle, StampsInOrder, Dated, ChildTrashedFirst
<1>2. TypeOK /\ StampCoherent /\ Serial /\ SweepFresh /\ StampsInOrder /\ [Next]_vars => StampsInOrder'
  BY StampsInOrderStep
<1>3. TypeOK /\ StampCoherent /\ Serial /\ SweepFresh /\ StampsInOrder /\ ActiveUnderActive
        /\ ChildTrashedFirst /\ [Next]_vars => ChildTrashedFirst'
  <2> SUFFICES ASSUME TypeOK, StampCoherent, Serial, SweepFresh, StampsInOrder, ActiveUnderActive,
                      ChildTrashedFirst, [Next]_vars
               PROVE  ChildTrashedFirst'
    OBVIOUS
  <2>1. CASE table' = table
    BY <2>1 DEF ChildTrashedFirst
  <2>2. CASE TreeStep
    BY <2>2, NewestStamp, StepChildFirst
  <2> QED  BY <2>1, <2>2, StepIsTreeStep
<1> QED  BY <1>1, <1>2, <1>3, SerialAlways, ShapeAlways, PTL DEF Spec

---------------------------------------------------------------------------
(***************************************************************************)
(* What the sweep can have seen of a document it deletes, whichever        *)
(* requests overlap it.  The list of bundles was made of documents past    *)
(* their retention period.  A member of one is found by a SELECT on a      *)
(* snapshot taken since, and until a rollback its stamp is that of the     *)
(* list, of which the session keeps the objects.                           *)
(***************************************************************************)
\* The bundles still to purge are as the session listed them.
DueWitnessed ==
    \A root \in Docs : sweep.due[root] # Null => root \in expired /\ Expired(sweep.due[root])

SnapWitnessed ==
    sweep.state = "reading" => \A d \in Docs : sweep.snap.status[d] = "trashed" => d \in trashed

\* Until a bundle fails the session still holds the roots as it listed them, and
\* whatever it can take for a member of one has been past its retention period.
SeenWitnessed ==
    ~failed => \A root \in Docs : sweep.due[root] # Null =>
        /\ root \in sweep.cached /\ sweep.seen.trashed_at[root] = sweep.due[root]
        /\ \A d \in sweep.cached : sweep.seen.trashed_at[d] = sweep.due[root] => d \in expired
        /\ sweep.state = "reading" =>
              \A d \in Docs : /\ sweep.snap.status[d] = "trashed"
                              /\ sweep.snap.trashed_at[d] = sweep.due[root]
                              => d \in expired

Witnessed ==
    /\ expired \subseteq trashed
    /\ sweep.state # "idle" => DueWitnessed /\ SnapWitnessed /\ SeenWitnessed

\* The record grows while the sweep runs.
LEMMA RecordGrows ==
    ASSUME Recorded, sweep'.state # "idle"
    PROVE  /\ trashed \subseteq trashed' /\ expired \subseteq expired'
           /\ InTrash' \subseteq trashed' /\ PastRetention' \subseteq expired'
           /\ ~failed' => ~failed /\ \A d \in Docs : ~SweepSkip(d)
BY DEF Recorded

LEMMA RecordOrdered ==
    ASSUME Witnessed, Recorded
    PROVE  expired' \subseteq trashed'
<1>1. PastRetention' \subseteq InTrash'  BY DEF PastRetention
<1> QED  BY <1>1 DEF Recorded, Witnessed

\* A request or the clock moves on while the sweep stands still.
LEMMA WitnessedApart ==
    ASSUME TypeOK, Witnessed, Recorded, UNCHANGED sweep, now' \in Nat, now <= now'
    PROVE  Witnessed'
<1> SUFFICES ASSUME sweep.state # "idle"
             PROVE  (DueWitnessed /\ SnapWitnessed /\ SeenWitnessed)'
  BY RecordOrdered DEF Witnessed
<1>1. /\ DueWitnessed /\ SnapWitnessed /\ SeenWitnessed
      /\ trashed \subseteq trashed' /\ expired \subseteq expired' /\ (~failed' => ~failed)
  BY RecordGrows DEF Witnessed
<1>2. DueWitnessed'
  <2>1. \A x \in Nat : Expired(x) => Expired(x)'
    BY TimeAssumption DEF Expired, TypeOK, Time
  <2>2. \A root \in Docs : sweep.due[root] # Null => sweep.due[root] \in Nat
    BY TimeAssumption DEF TypeOK, Time
  <2> QED  BY <1>1, <2>1, <2>2 DEF DueWitnessed, Expired
<1>3. SnapWitnessed' /\ SeenWitnessed'
  BY <1>1 DEF SnapWitnessed, SeenWitnessed
<1> QED  BY <1>2, <1>3

\* SweepStart: every bundle listed is in the trash, those to purge past their period.
LEMMA WitnessedStart ==
    ASSUME TypeOK, StampCoherent, Witnessed, Recorded, NEW w, SweepStart(w)
    PROVE  Witnessed'
<1> DEFINE roots == {d \in BundleRoots(table) : table.workspace_id[d] = w}
           listed == {d \in roots : Expired(table.trashed_at[d])}
<1>1. /\ sweep'.state = "reading" /\ sweep'.snap = table /\ sweep'.seen = table
      /\ sweep'.cached = UNION {Members(table, d) : d \in roots}
      /\ sweep'.due = [d \in Docs |-> IF d \in listed THEN table.trashed_at[d] ELSE Null]
      /\ UNCHANGED <<table, now>>
  BY DEF SweepStart
<1>2. InTrash \subseteq trashed' /\ PastRetention \subseteq expired'
  <2>1. InTrash' = InTrash /\ PastRetention' = PastRetention
    BY <1>1 DEF InTrash, PastRetention, Expired
  <2> QED  BY <1>1, <2>1, RecordGrows
<1>3. \A root \in Docs : sweep'.due[root] # Null =>
          /\ root \in roots /\ root \in PastRetention /\ Expired(table.trashed_at[root])
          /\ sweep'.due[root] = table.trashed_at[root]
  BY <1>1 DEF BundleRoots, PastRetention, InTrash
<1>4. \A d \in Docs : \A root \in Docs :
          /\ sweep'.due[root] # Null /\ table.status[d] = "trashed"
          /\ table.trashed_at[d] = sweep'.due[root]
          => d \in expired'
  BY <1>2, <1>3 DEF PastRetention, InTrash
<1>5. \A d \in sweep'.cached : d \in Docs /\ table.status[d] = "trashed"
  BY <1>1, MembersTrashed, ReachInDocs DEF Members
<1>6. \A root \in roots : root \in sweep'.cached
  BY <1>1, ReachSelf DEF Members, BundleRoots
<1> HIDE DEF roots, listed
<1>7. DueWitnessed'
  BY <1>1, <1>2, <1>3 DEF DueWitnessed, Expired
<1>8. SnapWitnessed'
  BY <1>1, <1>2 DEF SnapWitnessed, InTrash
<1>9. SeenWitnessed'
  BY <1>1, <1>3, <1>4, <1>5, <1>6 DEF SeenWitnessed
<1> QED  BY <1>7, <1>8, <1>9, RecordOrdered DEF Witnessed

\* SweepReopen: the rows of the new snapshot are those of the moment.
LEMMA WitnessedReopen ==
    ASSUME TypeOK, Witnessed, Recorded, SweepReopen
    PROVE  Witnessed'
<1>1. /\ sweep.state # "idle" /\ sweep'.state = "reading" /\ sweep'.snap = table
      /\ sweep'.seen = sweep.seen /\ sweep'.cached = sweep.cached /\ sweep'.due = sweep.due
      /\ UNCHANGED <<table, now>>
  BY DEF SweepReopen, TypeOK
<1>2. /\ DueWitnessed /\ SeenWitnessed
      /\ trashed \subseteq trashed' /\ expired \subseteq expired'
      /\ InTrash' \subseteq trashed' /\ PastRetention' \subseteq expired'
      /\ ~failed' => ~failed
  BY <1>1, RecordGrows DEF Witnessed
<1>3. DueWitnessed'  BY <1>1, <1>2 DEF DueWitnessed, Expired
<1>4. SnapWitnessed'  BY <1>1, <1>2 DEF SnapWitnessed, InTrash
<1>5. \A d \in Docs : \A root \in Docs :
          /\ sweep.due[root] # Null /\ table.status[d] = "trashed"
          /\ table.trashed_at[d] = sweep.due[root]
          => d \in expired'
  BY <1>1, <1>2 DEF DueWitnessed, PastRetention, InTrash, Expired
<1>6. SeenWitnessed'  BY <1>1, <1>2, <1>5 DEF SeenWitnessed
<1> QED  BY <1>3, <1>4, <1>6, RecordOrdered DEF Witnessed

\* SweepPurge and SweepSkip strike one bundle off the list.
LEMMA WitnessedStruck ==
    ASSUME TypeOK, Witnessed, Recorded, NEW root \in Docs, SweepPurge(root) \/ SweepSkip(root)
    PROVE  Witnessed'
<1>1. /\ sweep.state # "idle" /\ sweep'.state = "between"
      /\ sweep'.due = [sweep.due EXCEPT ![root] = Null]
      /\ UNCHANGED now
  BY DEF SweepPurge, SweepSkip, TypeOK
<1>2. /\ DueWitnessed /\ SeenWitnessed /\ expired \subseteq expired'
      /\ ~failed' => ~failed /\ ~SweepSkip(root)
  BY <1>1, RecordGrows DEF Witnessed
<1>3. \A d \in Docs : sweep'.due[d] # Null => sweep'.due[d] = sweep.due[d]
  BY <1>1 DEF TypeOK
<1>4. DueWitnessed'  BY <1>1, <1>2, <1>3 DEF DueWitnessed, Expired
<1>5. SnapWitnessed'  BY <1>1 DEF SnapWitnessed
<1>6. SeenWitnessed'
  <2>1. CASE SweepSkip(root)
    BY <1>2, <2>1 DEF SeenWitnessed
  <2>2. CASE SweepPurge(root)
    <3>1. sweep'.cached = sweep.cached /\ sweep'.seen.trashed_at = sweep.seen.trashed_at
      BY <2>2 DEF SweepPurge, TypeOK, Table
    <3> QED  BY <1>1, <1>2, <1>3, <3>1 DEF SeenWitnessed
  <2> QED  BY <2>1, <2>2
<1> QED  BY <1>4, <1>5, <1>6, RecordOrdered DEF Witnessed

\* What purge_bundle takes for the bundle of root has been in the trash, and,
\* while the session holds the objects it listed, past its retention period.
LEMMA PurgesWitnessed ==
    ASSUME TypeOK, Witnessed, NEW root \in Docs, SweepPurge(root), NEW d \in SweepMembers(root)
    PROVE  d \in trashed /\ (failed \/ d \in expired)
<1> DEFINE D == {e \in Docs : /\ sweep.snap.status[e] = "trashed"
                              /\ View.trashed_at[e] = View.trashed_at[root]}
           S == {root} \cup D
           E == {e \in Docs \X Docs : /\ sweep.snap.parent_id[e[2]] = e[1]
                                      /\ sweep.snap.status[e[2]] = "trashed"
                                      /\ View.trashed_at[e[2]] = View.trashed_at[root]}
<1>1. d \in S
  <2>1. Closed(S, E)  BY DEF Closed
  <2>2. S \in SUBSET Docs /\ root \in S  OBVIOUS
  <2> HIDE DEF S
  <2>3. d \in Reach(root, E)  BY DEF SweepMembers
  <2> QED  BY <2>1, <2>2, <2>3 DEF Reach
<1>2. /\ sweep.state = "reading" /\ sweep.due[root] # Null
      /\ expired \subseteq trashed /\ DueWitnessed /\ SnapWitnessed /\ SeenWitnessed
  BY DEF SweepPurge, NextDue, Witnessed
<1>3. CASE d = root
  BY <1>2, <1>3 DEF DueWitnessed
<1>4. CASE d \in D
  <2>1. d \in trashed  BY <1>2, <1>4 DEF SnapWitnessed
  <2>2. ASSUME ~failed PROVE d \in expired
    <3>1. /\ root \in sweep.cached /\ sweep.seen.trashed_at[root] = sweep.due[root]
          /\ \A e \in sweep.cached : sweep.seen.trashed_at[e] = sweep.due[root] => e \in expired
          /\ \A e \in Docs : /\ sweep.snap.status[e] = "trashed"
                             /\ sweep.snap.trashed_at[e] = sweep.due[root]
                             => e \in expired
      BY <1>2, <2>2 DEF SeenWitnessed
    <3>2. \A e \in Docs : View.trashed_at[e] = IF e \in sweep.cached THEN sweep.seen.trashed_at[e]
                                               ELSE sweep.snap.trashed_at[e]
      BY DEF View, Loaded
    <3> QED  BY <1>4, <3>1, <3>2
  <2> QED  BY <2>1, <2>2
<1> QED  BY <1>1, <1>3, <1>4

\* A record of the trash changes nothing of the tree.
LEMMA WitnessSpecIsSpec == WitnessSpec => Spec
<1>1. WitnessInit => Init  BY DEF WitnessInit
<1>2. [WitnessNext]_witnessvars => [Next]_vars  BY DEF WitnessNext, witnessvars, vars
<1> QED  BY <1>1, <1>2, PTL DEF WitnessSpec, Spec

LEMMA WitnessedAlways == WitnessSpec => []Witnessed
<1>1. WitnessInit => Witnessed
  BY DEF WitnessInit, Init, NoSweep, Witnessed
<1>2. ASSUME TypeOK, TypeOK', StampCoherent, Witnessed, [WitnessNext]_witnessvars PROVE Witnessed'
  <2>1. CASE UNCHANGED witnessvars
    BY <1>2, <2>1
    DEF witnessvars, vars, Witnessed, DueWitnessed, SnapWitnessed, SeenWitnessed, Expired
  <2>2. CASE WitnessNext
    <3>1. Recorded  BY <2>2 DEF WitnessNext
    <3>2. CASE UNCHANGED sweep /\ now' \in Nat /\ now <= now'
      BY <1>2, <3>1, <3>2, WitnessedApart
    <3>3. CASE SweepStep
      <4>1. ASSUME NEW w \in SweepWorkspaces, SweepStart(w) PROVE Witnessed'
        BY <1>2, <3>1, <4>1, WitnessedStart
      <4>2. ASSUME NEW root \in Docs, SweepPurge(root) \/ SweepSkip(root) PROVE Witnessed'
        BY <1>2, <3>1, <4>2, WitnessedStruck
      <4>3. CASE SweepReopen  BY <1>2, <3>1, <4>3, WitnessedReopen
      <4>4. CASE SweepEnd  BY <1>2, <3>1, <4>4, RecordOrdered DEF SweepEnd, NoSweep, Witnessed
      <4> QED  BY <3>3, <4>1, <4>2, <4>3, <4>4 DEF SweepStep
    <3>4. now \in Nat  BY <1>2, TimeAssumption DEF TypeOK, Time
    <3>5. CASE \E r \in Requests : RequestStep(r)  BY <3>2, <3>4, <3>5, RequestsApart
    <3>6. CASE Tick  BY <3>2, <3>4, <3>6 DEF Tick
    <3> QED  BY <2>2, <3>3, <3>5, <3>6 DEF WitnessNext, Next
  <2> QED  BY <1>2, <2>1, <2>2
<1> QED  BY <1>1, <1>2, WitnessSpecIsSpec, TypeCorrect, StampsCoherent, PTL DEF WitnessSpec

\* Whichever requests overlap it, run_sweep deletes no document that was not in the
\* trash at some moment since it made its list, and, as long as no bundle has failed,
\* none that was not past its retention period at such a moment.
THEOREM SweepGoesByWhatItSaw == WitnessSpec => SweepDeletesWitnessed
<1>1. ASSUME TypeOK, Witnessed, [Next]_vars, request' = request,
             NEW d \in Docs, table'.status[d] = "deleted", table.status[d] # "deleted"
      PROVE  d \in trashed /\ (failed \/ d \in expired)
  <2>1. PICK root \in Docs : SweepPurge(root)
    <3>1. ASSUME NEW r \in Requests, Commit(r) PROVE FALSE
      BY <1>1, <3>1 DEF Commit, TypeOK, Idle
    <3>2. table' # table  BY <1>1
    <3> QED  BY <1>1, <3>1, <3>2, Writers
  <2> DEFINE dirty == {e \in SweepMembers(root) : View.status[e] # "deleted"}
  <2>2. table' = Committed(table, PurgeWrites(dirty))
    BY <2>1 DEF SweepPurge
  <2>3. d \in dirty
    <3> HIDE DEF dirty
    <3>1. table'.status[d] = IF PurgeWrites(dirty).status[d] = Keep THEN table.status[d]
                             ELSE PurgeWrites(dirty).status[d]
      BY <2>2 DEF Committed, Flush
    <3>2. PurgeWrites(dirty).status[d] = IF d \in dirty THEN "deleted" ELSE Keep
      BY DEF PurgeWrites, NoWrites, Assign
    <3> QED  BY <1>1, <3>1, <3>2
  <2> QED  BY <1>1, <2>1, <2>3, PurgesWitnessed
<1>2. TypeOK /\ Witnessed /\ [WitnessNext]_witnessvars =>
        [request' = request =>
            \A d \in Docs : table'.status[d] = "deleted" /\ table.status[d] # "deleted" =>
                d \in trashed /\ (failed \/ d \in expired)]_witnessvars
  <2>1. [WitnessNext]_witnessvars => [Next]_vars  BY DEF WitnessNext, witnessvars, vars
  <2> QED  BY <1>1, <2>1
<1> QED
  BY <1>2, WitnessedAlways, WitnessSpecIsSpec, TypeCorrect, PTL DEF WitnessSpec, SweepDeletesWitnessed
=============================================================================
