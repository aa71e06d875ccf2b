---------------------------- MODULE DocumentPage ----------------------------
(***************************************************************************)
(* The document page of the client: the tree of the current workspace with *)
(* its optimistic mutations (useDocumentTree, useDocumentMutations), the   *)
(* trash panel (useTrash) and the page, toolbar and tree components that   *)
(* drive them, over the rows of the server.                                *)
(*                                                                         *)
(* What the page does between two awaits is one step.  A task is one       *)
(* asynchronous function in flight: it calls the server, goes on when the  *)
(* answer comes, mostly to reload, and keeps the closures of the render it *)
(* started from, among them the workspace that was current then.           *)
(*                                                                         *)
(* Each request is one step of the server (DocTree has the transactions).  *)
(* The page is mounted throughout, its user may edit, lists fit one page;  *)
(* the order of siblings and which nodes are open are left out.            *)
(***************************************************************************)
EXTENDS Integers, FiniteSets

CONSTANTS
    Docs,          \* document ids, allotted in increasing order
    Workspaces,
    Titles,
    Tasks,         \* slots for functions in flight, numbers
    MaxClicks,     \* bound on what the user starts
    MaxFaults,     \* bound on the requests and answers that are lost
    Null

ASSUME IdsAssumption ==
    /\ Docs \subseteq Nat /\ IsFiniteSet(Docs)
    /\ Tasks \subseteq Nat /\ Tasks # {} /\ IsFiniteSet(Tasks)
    /\ Workspaces # {} /\ Titles # {}
ASSUME BoundsAssumption == MaxClicks \in Nat /\ MaxFaults \in Nat
ASSUME NullAssumption == Null \notin Docs \cup Workspaces \cup Tasks \cup Titles

VARIABLES
    row,          \* the documents on the server
    workspace,    \* the current workspace of CurrentWorkspaceProvider
    tree,         \* state of useDocumentTree; snap is serverSnapshotRef, run the task
                  \* of the latest load (runIdRef)
    remembered,   \* localStorage: the last document selected in a workspace
    pending,      \* state of useDocumentMutations
    panel,        \* mode and selection of the page, state of useTrash
    task,         \* the functions in flight
    clicks, faults,   \* how much the user started, how much was lost
    disturbed     \* history: what has happened that the properties speak of

vars == <<row, workspace, tree, remembered, pending, panel, task, clicks, faults, disturbed>>
client == <<workspace, tree, remembered, pending, panel>>

Ids == Docs \cup {Null}
Status == {"loading", "ready", "error"}
Causes == {"lost", "stray", "unread", "superseded", "undone", "crossed", "behind",
           "raced", "adrift", "foreign"}

\* What a list of documents says of each, and the tree of a list.
Node == [parent_id: Ids, title: Titles]
Nodes == UNION {[D -> Node] : D \in SUBSET Docs}

Bundles == UNION {[D -> SUBSET Docs] : D \in SUBSET Docs}

TreeState == [status: Status, snap: Nodes, shown: Nodes, selected: Ids, run: Tasks \cup {Null}]
PanelState == [mode: {"active", "trash"}, picked: Ids, status: Status, bundles: Bundles,
               run: Tasks \cup {Null}]

NoTask == [op |-> "none", workspace |-> Null, doc |-> Null, to |-> Null, beside |-> Null,
           title |-> Null, chain |-> <<>>, stage |-> "none", done |-> FALSE, ok |-> FALSE,
           got |-> <<>>]

Load(w) == [NoTask EXCEPT !.op = "load", !.workspace = w, !.stage = "fetch"]
List(w) == [NoTask EXCEPT !.op = "list", !.workspace = w, !.stage = "list"]

NoRow == [workspace |-> Null, parent_id |-> Null, title |-> Null, status |-> "absent", bundle |-> Null]

Note(causes) == disturbed' = disturbed \cup causes

---------------------------------------------------------------------------
(***************************************************************************)
(* The server.                                                             *)
(***************************************************************************)
ActiveDocs == {d \in Docs : row[d].status = "active"}

\* An active document of workspace w, or none.
GoodParent(w, p) == p = Null \/ (p \in ActiveDocs /\ row[p].workspace = w)

\* d and its active descendants.
Subtree(d) ==
    {e \in Docs : \A S \in SUBSET Docs :
        d \in S /\ (\A x \in ActiveDocs : row[x].parent_id \in S => x \in S) => e \in S}

Members(b) == {d \in Docs : row[d].status = "trashed" /\ row[d].bundle = b}

\* GET /workspaces/{w}/documents and GET /workspaces/{w}/trash.
Listing(w) == [d \in {e \in ActiveDocs : row[e].workspace = w} |->
                  [parent_id |-> row[d].parent_id, title |-> row[d].title]]
TrashListing(w) == [b \in {e \in Docs : row[e].workspace = w /\ Members(e) # {}} |-> Members(b)]

Fresh == {d \in Docs : row[d].status = "absent" /\ \A e \in Docs : row[e].status = "absent" => d <= e}

\* What the handler of a call refuses, and what it does to the rows.
Legal(k) ==
    CASE k.op = "create"  -> Fresh # {} /\ GoodParent(k.workspace, k.to)
      [] k.op = "move"    -> /\ k.doc \in ActiveDocs
                             /\ GoodParent(row[k.doc].workspace, k.to)
                             /\ k.to \notin Subtree(k.doc)
                             /\ k.beside # Null =>
                                    k.beside \in ActiveDocs \ {k.doc} /\ row[k.beside].parent_id = k.to
      [] k.op = "rename"  -> row[k.doc].status # "absent"
      [] k.op = "remove"  -> k.doc \in ActiveDocs
      [] OTHER            -> Members(k.doc) # {}

Effect(k) ==
    CASE k.op = "create" ->
            [row EXCEPT ![CHOOSE d \in Fresh : TRUE] =
                [workspace |-> k.workspace, parent_id |-> k.to, title |-> k.title,
                 status |-> "active", bundle |-> Null]]
      [] k.op = "rename" -> [row EXCEPT ![k.doc].title = k.title]
      [] k.op = "move"   -> [row EXCEPT ![k.doc].parent_id = k.to]
      [] k.op = "remove" ->
            [d \in Docs |-> IF d \in Subtree(k.doc)
                            THEN [row[d] EXCEPT !.status = "trashed", !.bundle = k.doc] ELSE row[d]]
      [] k.op = "restore" ->
            [d \in Docs |-> IF d \in Members(k.doc)
                            THEN [row[d] EXCEPT !.status = "active", !.bundle = Null,
                                      !.parent_id = IF d = k.doc /\ @ \notin ActiveDocs THEN Null ELSE @]
                            ELSE row[d]]
      [] k.op = "purge" ->
            [d \in Docs |-> IF d \in Members(k.doc) THEN [row[d] EXCEPT !.status = "deleted"] ELSE row[d]]

Put(t, k) == task' = [task EXCEPT ![t] = k]

Lost(n) == faults' = faults + n /\ faults' <= MaxFaults

\* The handler of a mutation runs; the answer may be lost on its way.
Handle(t, answered) ==
    LET k == task[t] IN
    /\ k.stage = "call"
    /\ Legal(k) /\ Lost(IF answered THEN 0 ELSE 1)
    /\ row' = Effect(k)
    /\ Put(t, [k EXCEPT !.stage = "answer", !.done = answered,
                        !.doc = IF k.op = "create" THEN CHOOSE d \in Fresh : TRUE ELSE @])
    /\ Note((IF answered THEN {} ELSE {"lost"})
            \cup (IF k.op = "remove" /\ panel.mode = "trash" THEN {"behind"} ELSE {})
            \cup (IF k.op = "remove" /\ \E u \in Tasks : task[u].op \in {"create", "restore"}
                  THEN {"raced"} ELSE {}))
    /\ UNCHANGED <<client, clicks>>

\* The handler refuses, or the request is lost.
Fail(t) ==
    /\ task[t].stage = "call"
    /\ Lost(IF Legal(task[t]) THEN 1 ELSE 0)
    /\ Put(t, [task[t] EXCEPT !.stage = "answer", !.done = FALSE])
    /\ UNCHANGED <<row, client, clicks, disturbed>>

\* A list is read, or the request or its answer is lost.
Read(t, answered) ==
    LET k == task[t] IN
    /\ k.stage \in {"fetch", "list"} /\ Lost(IF answered THEN 0 ELSE 1)
    /\ Put(t, [k EXCEPT !.stage = IF @ = "fetch" THEN "fetched" ELSE "listed", !.ok = answered,
                        !.got = IF ~answered THEN <<>>
                                ELSE IF k.stage = "fetch" THEN Listing(k.workspace)
                                ELSE TrashListing(k.workspace)])
    /\ UNCHANGED <<row, client, clicks, disturbed>>

---------------------------------------------------------------------------
(***************************************************************************)
(* Trees.                                                                  *)
(***************************************************************************)
\* resolveAncestors, nearest first, without the document itself.
Ancestors(nodes, d) ==
    LET up[n \in 0..Cardinality(Docs)] ==
            IF n = 0 THEN d ELSE IF up[n - 1] \in DOMAIN nodes THEN nodes[up[n - 1]].parent_id ELSE Null
    IN  [n \in 1..Cardinality(Docs) |-> IF up[n] \in DOMAIN nodes \ {d} THEN up[n] ELSE Null]

\* Mutant: the position in the chain instead of the document.
SurvivorIndex(chain, nodes) ==
    LET alive == {n \in DOMAIN chain : chain[n] \in DOMAIN nodes} IN
    IF alive = {} THEN -1 ELSE CHOOSE n \in alive : \A m \in alive : n <= m

\* Mutant: the nearest, there or not.
SurvivorUnchecked(chain, nodes) == IF chain = <<>> THEN Null ELSE chain[1]

\* The nearest of a chain of ancestors that is still there.
Survivor(chain, nodes) ==
    LET alive == {n \in DOMAIN chain : chain[n] \in DOMAIN nodes} IN
    IF alive = {} THEN Null ELSE chain[CHOOSE n \in alive : \A m \in alive : n <= m]

\* applyLocal: the tree is shown as nodes.
Shown(nodes) == [tree EXCEPT !.shown = nodes]

\* writeLastDocumentId
Remembering(w, d) == [remembered EXCEPT ![w] = d]

\* cloneRootsWithRenamedTitle and relocateSubtree: the optimistic patches.
Renamed(nodes, d, title) == [x \in DOMAIN nodes |-> IF x = d THEN [nodes[x] EXCEPT !.title = title] ELSE nodes[x]]
Relocated(nodes, d, p) == [nodes EXCEPT ![d].parent_id = p]

\* computeMoveTarget
MoveTarget(nodes, kind, x) ==
    CASE kind = "inside" -> [to |-> x, beside |-> Null]
      [] kind = "beside" -> [to |-> nodes[x].parent_id, beside |-> x]
      [] kind = "root"   -> [to |-> Null, beside |-> Null]

---------------------------------------------------------------------------
(***************************************************************************)
(* Loads.                                                                  *)
(***************************************************************************)
Loading(t) == [tree EXCEPT !.status = "loading", !.run = t]

\* Mutant: the selection is kept.
TurnedKeeping(t) == Loading(t)

\* The workspace has changed: the effects forget the selection and load.
Turned(t) == [Loading(t) EXCEPT !.selected = Null]

\* What a load of the tree that starts now, for workspace w, is noted for.
Begun(w) ==
    (IF w = workspace THEN {} ELSE {"stray"})
    \cup (IF \E u \in Tasks : task[u].op = "rename" THEN {"crossed"} ELSE {})

\* Mutant: any load counts, not only the latest.
LandedLate(t) ==
    LET k == task[t] IN
    IF ~k.ok THEN [tree EXCEPT !.status = "error"]
    ELSE [tree EXCEPT !.status = "ready", !.snap = k.got, !.shown = k.got]

\* Mutant: an error is not caught.
LandedUncaught(t) ==
    LET k == task[t] IN
    IF tree.run # t \/ ~k.ok THEN [tree EXCEPT !.run = IF @ = t THEN Null ELSE @]
    ELSE [tree EXCEPT !.status = "ready", !.run = Null, !.snap = k.got, !.shown = k.got]

\* useDocumentTree.load, after the await: only the latest load counts, and with
\* nothing selected the document remembered for its workspace is.
Landed(t) ==
    LET k == task[t] IN
    IF tree.run # t THEN tree
    ELSE IF ~k.ok THEN [tree EXCEPT !.status = "error", !.run = Null]
    ELSE [tree EXCEPT !.status = "ready", !.run = Null, !.snap = k.got, !.shown = k.got,
             !.selected = IF @ = Null /\ remembered[k.workspace] \in DOMAIN k.got
                          THEN remembered[k.workspace] ELSE @]

\* Mutant: any list counts.
TrashLandedLate(t) ==
    IF ~task[t].ok THEN [panel EXCEPT !.status = "error"]
    ELSE [panel EXCEPT !.status = "ready", !.bundles = task[t].got]

\* The same in useTrash.
TrashLanded(t) ==
    IF panel.run # t THEN panel
    ELSE IF ~task[t].ok THEN [panel EXCEPT !.status = "error", !.run = Null]
    ELSE [panel EXCEPT !.status = "ready", !.run = Null, !.bundles = task[t].got]

\* reselectAfterRemoval
Reselected(tr, chain) ==
    IF tr.selected \in DOMAIN tr.snap THEN tr ELSE [tr EXCEPT !.selected = Survivor(chain, tr.snap)]

\* A load lands and the function that awaited it goes on: a created or restored
\* document is selected, after a removal the nearest survivor.
Reloaded(t) ==
    LET k == task[t]
        after == CASE k.op \in {"create", "restore"} -> [Landed(t) EXCEPT !.selected = k.doc]
                   [] k.op = "remove" -> Reselected(Landed(t), k.chain)
                   [] OTHER -> Landed(t)
    IN
    /\ k.stage = "fetched"
    /\ tree' = after
    /\ remembered' = IF k.op \in {"create", "restore"}
                        \/ (k.op = "remove" /\ after.selected \notin {Null, Landed(t).selected})
                     THEN Remembering(k.workspace, after.selected) ELSE remembered
    /\ pending' = (pending /\ k.op \notin {"create", "remove", "move"})
    /\ Put(t, NoTask)
    /\ Note((IF tree.run # t THEN {"superseded"} ELSE IF k.ok THEN {} ELSE {"unread"})
            \cup (IF k.workspace # workspace /\ after.selected # tree.selected THEN {"adrift"} ELSE {}))
    /\ UNCHANGED <<row, workspace, panel, clicks, faults>>

---------------------------------------------------------------------------
(***************************************************************************)
(* Mutations.                                                              *)
(***************************************************************************)
\* The server confirmed a creation, removal or move: reload.
Confirmed(t) ==
    LET k == task[t] IN
    /\ k.stage = "answer" /\ k.done /\ k.op \in {"create", "remove", "move"}
    /\ tree' = Loading(t)
    /\ Put(t, [k EXCEPT !.stage = "fetch"])
    /\ Note(Begun(k.workspace))
    /\ UNCHANGED <<row, workspace, remembered, pending, panel, clicks, faults>>

\* A rename that succeeded, a creation or removal that failed: nothing to show.
Finished(t) ==
    LET k == task[t] IN
    /\ k.stage = "answer"
    /\ IF k.op = "rename" THEN k.done ELSE ~k.done /\ k.op \in {"create", "remove"}
    /\ pending' = FALSE
    /\ Put(t, NoTask)
    /\ UNCHANGED <<row, workspace, tree, remembered, panel, clicks, faults, disturbed>>

\* A rename or move failed: the tree is shown as the server last gave it.
Undone(t) ==
    LET k == task[t] IN
    /\ k.stage = "answer" /\ ~k.done /\ k.op \in {"rename", "move"}
    /\ tree' = Shown(tree.snap)
    /\ pending' = FALSE
    /\ Put(t, NoTask)
    /\ Note({"undone"})
    /\ UNCHANGED <<row, workspace, remembered, panel, clicks, faults>>

\* useTrash.mutate reloads its list whatever came of the call.
TrashAnswered(t) ==
    LET k == task[t] IN
    /\ k.stage = "answer" /\ k.op \in {"restore", "purge"}
    /\ panel' = [panel EXCEPT !.status = "loading", !.run = t]
    /\ Put(t, [k EXCEPT !.stage = "list"])
    /\ Note(IF k.workspace = workspace THEN {} ELSE {"stray"})
    /\ UNCHANGED <<row, workspace, tree, remembered, pending, clicks, faults>>

\* setPanelMode("active"): with it useTrash has no workspace and an empty list.
ActivePanel == [mode |-> "active", picked |-> Null, status |-> "ready", bundles |-> <<>>, run |-> Null]

\* The list has landed: handleRestore goes back to the documents and reloads
\* the tree, handlePurge clears the selection.
Listed(t) ==
    LET k == task[t] IN
    /\ k.stage = "listed"
    /\ UNCHANGED <<row, workspace, remembered, pending, clicks, faults>>
    /\ \/ /\ k.op = "restore" /\ k.done
          /\ panel' = IF panel.mode = "trash" THEN ActivePanel ELSE [TrashLanded(t) EXCEPT !.picked = Null]
          /\ tree' = Loading(t)
          /\ Put(t, [k EXCEPT !.stage = "fetch"])
          /\ Note(Begun(k.workspace))
       \/ /\ ~(k.op = "restore" /\ k.done)
          /\ panel' = [TrashLanded(t) EXCEPT !.picked = IF k.op = "purge" THEN Null ELSE @]
          /\ Put(t, NoTask)
          /\ UNCHANGED <<tree, disturbed>>

---------------------------------------------------------------------------
(***************************************************************************)
(* The user.                                                               *)
(***************************************************************************)
Slots == {t \in Tasks : task[t].op = "none"}
FirstOf(S) == CHOOSE t \in S : \A u \in S : t <= u

Click == clicks < MaxClicks /\ clicks' = clicks + 1 /\ UNCHANGED <<row, faults>>

\* The user starts function k.
Start(k) == Click /\ Slots # {} /\ Put(FirstOf(Slots), k)

Call(op, d) == [NoTask EXCEPT !.op = op, !.workspace = workspace, !.doc = d, !.stage = "call"]

\* Where the documents, not the trash, are on the page.
Editing == panel.mode = "active"

\* DocumentToolbar: the buttons for new documents and titles are enabled.
Enabled == Editing /\ ~pending

\* DocumentToolbar: a new document, at the top or below the selected one.
CreateClick(p, title) ==
    /\ Enabled /\ p \in {Null, tree.selected}
    /\ Start([Call("create", Null) EXCEPT !.to = p, !.title = title])
    /\ pending' = TRUE
    /\ UNCHANGED <<workspace, tree, remembered, panel, disturbed>>

\* DocumentToolbar: the selected document gets a title, shown at once.
RenameClick(title) ==
    /\ Enabled /\ tree.selected # Null
    /\ Start([Call("rename", tree.selected) EXCEPT !.title = title])
    /\ tree' = Shown(Renamed(tree.shown, tree.selected, title))
    /\ pending' = TRUE
    /\ Note(IF \E u \in Tasks : task[u].op = "rename" \/ task[u].stage \in {"fetch", "fetched"} THEN {"crossed"} ELSE {})
    /\ UNCHANGED <<workspace, remembered, panel>>

\* DocumentToolbar: the selected document is deleted; nothing disables this.
DeleteClick ==
    /\ Editing /\ tree.selected # Null
    /\ Start([Call("remove", tree.selected) EXCEPT !.chain = Ancestors(tree.shown, tree.selected)])
    /\ pending' = TRUE
    /\ UNCHANGED <<workspace, tree, remembered, panel, disturbed>>

\* move(), with the document dragged, for where it was dropped.
MoveTo(d, target) ==
    /\ Editing /\ tree.status = "ready" /\ d \in DOMAIN tree.shown
    /\ Start([Call("move", d) EXCEPT !.to = target.to, !.beside = target.beside])
    /\ tree' = Shown(Relocated(tree.shown, d, target.to))
    /\ pending' = TRUE
    /\ UNCHANGED <<workspace, remembered, panel, disturbed>>

\* DocumentTreeNode: d is dropped on x, or before or after it.
Drop(d, kind, x) ==
    /\ x \in DOMAIN tree.shown \ {d}
    /\ MoveTo(d, MoveTarget(tree.shown, kind, x))

\* DocumentTree: d is dropped on the area below the tree.
DropBelow(d) == MoveTo(d, MoveTarget(tree.shown, "root", Null))

\* Breadcrumb: at any time the ancestors of the document selected.
Crumbs ==
    IF tree.selected = Null THEN {}
    ELSE {Ancestors(tree.shown, tree.selected)[n] : n \in 1..Cardinality(Docs)}

\* select(): a node of the tree or of the breadcrumb.
Select(d) ==
    /\ Editing /\ d # tree.selected
    /\ (tree.status = "ready" /\ d \in DOMAIN tree.shown) \/ d \in Crumbs
    /\ tree' = [tree EXCEPT !.selected = d]
    /\ remembered' = Remembering(workspace, d)
    /\ UNCHANGED <<row, workspace, pending, panel, task, clicks, faults, disturbed>>

\* PanelModeTabs: the list of the trash is loaded when it is looked at.
ShowTrash ==
    /\ Editing
    /\ Start(List(workspace))
    /\ panel' = [panel EXCEPT !.mode = "trash", !.picked = Null, !.status = "loading",
                              !.run = FirstOf(Slots)]
    /\ UNCHANGED <<workspace, tree, remembered, pending, disturbed>>

ShowDocuments ==
    /\ panel.mode = "trash" /\ panel' = ActivePanel
    /\ UNCHANGED <<row, workspace, tree, remembered, pending, task, clicks, faults, disturbed>>

\* TrashPanel: a document of bundle b is looked at.
Pick(b) ==
    /\ panel.mode = "trash" /\ panel.status = "ready" /\ b \in DOMAIN panel.bundles
    /\ panel' = [panel EXCEPT !.picked = b]
    /\ UNCHANGED <<row, workspace, tree, remembered, pending, task, clicks, faults, disturbed>>

\* A call for the bundle selected, if the list has it.
TrashClick(op) ==
    /\ panel.mode = "trash" /\ panel.picked \in DOMAIN panel.bundles
    /\ Start(Call(op, panel.picked))
    /\ Note(IF row[panel.picked].workspace = workspace THEN {} ELSE {"foreign"})
    /\ UNCHANGED <<workspace, tree, remembered, pending, panel>>

\* handleRestore
RestoreClick == TrashClick("restore")

\* handlePurge, once the dialog is confirmed.
PurgeClick == TrashClick("purge")

\* selectWorkspace: the page forgets its selection and loads the other tree, and
\* the other trash if that is what it shows.
Switch(w) ==
    LET t == FirstOf(Slots)
        u == FirstOf(Slots \ {t}) IN
    /\ w # workspace /\ Slots # {} /\ Click
    /\ workspace' = w
    /\ tree' = Turned(t)
    /\ UNCHANGED <<remembered, pending>>
    /\ \/ /\ panel.mode = "active"
          /\ Put(t, Load(w))
          /\ UNCHANGED panel
       \/ /\ panel.mode = "trash" /\ Cardinality(Slots) > 1
          /\ task' = [task EXCEPT ![t] = Load(w), ![u] = List(w)]
          /\ panel' = [panel EXCEPT !.status = "loading", !.run = u]
    /\ Note(Begun(workspace))

---------------------------------------------------------------------------
\* Some documents, some of them in the trash; the page opens in a workspace.
Init ==
    /\ row \in [Docs -> [workspace: Workspaces, parent_id: Ids, title: {CHOOSE x \in Titles : TRUE},
                         status: {"active", "trashed"}, bundle: Ids]
                        \cup {NoRow}]
    /\ \A d, e \in Docs : d < e /\ row[e].status # "absent" => row[d].status # "absent"
    /\ \A d \in Docs : LET p == row[d].parent_id IN
          /\ p # Null => p < d /\ row[p].workspace = row[d].workspace
          /\ p # Null /\ row[d].status = "active" => row[p].status = "active"
          /\ row[d].bundle = IF row[d].status # "trashed" THEN Null
                             ELSE IF p # Null /\ row[p].status = "trashed" THEN row[p].bundle ELSE d
    /\ workspace = CHOOSE w \in Workspaces : TRUE
    /\ tree = [status |-> "loading", snap |-> <<>>, shown |-> <<>>, selected |-> Null, run |-> FirstOf(Tasks)]
    /\ remembered = [w \in Workspaces |-> Null]
    /\ pending = FALSE
    /\ panel = ActivePanel
    /\ task = [t \in Tasks |-> IF t = FirstOf(Tasks) THEN Load(workspace) ELSE NoTask]
    /\ clicks = 0 /\ faults = 0
    /\ disturbed = {}

Server(t) == \/ \E answered \in BOOLEAN : Handle(t, answered) \/ Read(t, answered)
             \/ Fail(t)

Page(t) == Reloaded(t) \/ Confirmed(t) \/ Finished(t) \/ Undone(t) \/ TrashAnswered(t) \/ Listed(t)

User ==
    \/ \E p \in Ids, title \in Titles : CreateClick(p, title)
    \/ \E title \in Titles : RenameClick(title)
    \/ DeleteClick
    \/ \E d, x \in Docs, kind \in {"inside", "beside"} : Drop(d, kind, x)
    \/ \E d \in Docs : DropBelow(d) \/ Select(d) \/ Pick(d)
    \/ ShowTrash \/ ShowDocuments
    \/ RestoreClick \/ PurgeClick
    \/ \E w \in Workspaces : Switch(w)

Next == (\E t \in Tasks : Server(t) \/ Page(t)) \/ User

Spec == Init /\ [][Next]_vars

---------------------------------------------------------------------------
(***************************************************************************)
(* Properties.                                                             *)
(***************************************************************************)
TypeOK ==
    /\ row \in [Docs -> [workspace: Workspaces \cup {Null}, parent_id: Ids, title: Titles \cup {Null},
                         status: {"absent", "active", "trashed", "deleted"}, bundle: Ids]]
    /\ workspace \in Workspaces
    /\ tree \in TreeState
    /\ remembered \in [Workspaces -> Ids]
    /\ pending \in BOOLEAN
    /\ panel \in PanelState
    /\ \A t \in Tasks : task[t].doc \in Ids /\ task[t].to \in Ids /\ task[t].workspace \in Workspaces \cup {Null}
    /\ disturbed \subseteq Causes

\* Nothing is in flight and the tree has been loaded.
Quiet == tree.status = "ready" /\ \A t \in Tasks : task[t].op = "none"

Spared(causes) == disturbed \cap causes = {}

\* However the user's mutations, switches and reloads overlap, fail or supersede
\* each other, the page comes to rest with the documents of the current workspace, each
\* below its parent, unless an answer was lost or a function begun in another
\* workspace reloaded here; with the server's titles too, unless a rename met a load
\* or a failed change was undone.
ShowsServer ==
    Quiet /\ Spared({"lost", "stray"}) =>
        /\ DOMAIN tree.shown = DOMAIN Listing(workspace)
        /\ \A d \in DOMAIN tree.shown : tree.shown[d].parent_id = row[d].parent_id
        /\ Spared({"undone", "crossed"}) => tree.shown = Listing(workspace)

\* The document selected is in the tree, unless a reload failed or was superseded or
\* a removal overtook the creation or restoration that selects, or the trash shown
\* was another workspace's.
NoGhostSelected ==
    Quiet /\ Spared({"lost", "stray", "unread", "superseded", "raced", "foreign"}) =>
        tree.selected = Null \/ tree.selected \in DOMAIN tree.shown

\* The trash panel comes to rest with the bundles of the current workspace, unless
\* a removal was confirmed behind its back or a function begun in another workspace
\* reloaded here.
TrashShowsServer ==
    Quiet /\ panel.mode = "trash" /\ panel.status = "ready"
    /\ Spared({"behind", "stray"}) =>
        panel.bundles = TrashListing(workspace)

\* A workspace remembers a document of its own, unless a function begun in another
\* workspace reloaded or selected here, or the trash shown was still another's.
RemembersOwn ==
    Spared({"stray", "adrift", "foreign"}) =>
        \A w \in Workspaces : remembered[w] # Null => row[remembered[w]].workspace = w

\* The page never waits for what is not under way: behind a list that is loading is
\* the latest load, behind disabled buttons a mutation.
NoEndlessWait ==
    /\ tree.status = "loading" => tree.run # Null /\ task[tree.run].stage \in {"fetch", "fetched"}
    /\ panel.status = "loading" => panel.run # Null /\ task[panel.run].stage \in {"list", "listed"}
    /\ pending => \E t \in Tasks : task[t].op \in {"create", "rename", "remove", "move"}
=============================================================================
