# MarkSpace, specified in TLA+

MarkSpace is a workspace for Markdown documents: a FastAPI/SQLAlchemy backend on MySQL 8
(`src/backend/app`) and a React client (`src/frontend/src`). This directory holds TLA+ models of
its core, the TLC configurations that check them and proofs checked by TLAPS. Line numbers refer to
the files under `src/`.

## The system

### Parts, their state, their operations

| Part | State | Operations |
|---|---|---|
| Document tree (`document/service.py`, `repository.py`) | rows of `document`: workspace_id, parent_id, sort_order, status, trashed_at | create, rename, move/reorder, read, list |
| State engine (`document/engine.py`) | the same rows; no state of its own | trash a subtree, restore a bundle, purge a bundle; identify bundles |
| Trash (`trash/`) | retention period per workspace; a scheduler job | list, restore, purge; hourly retention sweep |
| Edit lock and versions (`lock_version/`) | `document.lock_user_id`, `current_version_id`, rows of `document_version` | start, save, cancel, force unlock, list versions |
| Edit page (`features/editor`) | status, lock flags and editor handle of a mounted page | acquire, load, cancel, force and retry, save on unmount |
| Workspaces (`workspace/`) | `workspace`, `workspace_member` | create, settings, delete; add, re-role, remove members; change owner |
| Share links (`sharing/`) | `share_link`: token, is_enabled | issue or reissue, toggle, public read, lazy retirement, invalidation sweep |
| Attachments (`attachment/`) | `attachment` rows, files on disk | upload, serve, two archive sweeps |
| Authentication, accounts, settings | `user`, `user_setting`, session cookie | log in, change password, create or change a user, change settings |
| Document page (`features/document`) | tree, selection and panel; mutations under way; the last document per workspace (localStorage) | load, create, rename, move, delete, restore, purge, select, switch workspace |
| Workspace page (`features/workspace`, `app/workspace-context`) | list of workspaces, roster, assignable users, roles known | load, reload after an action, switch |
| Share control (`features/sharing`) | the link shown, loading, pending | read, issue, toggle; the page of a guest |
| Uploads (`features/attachment`, `shared/editor`) | text of the editor, uploads under way | drop a file, replace its placeholder |
| Client session (`app/session`, `shared/api`, `features/auth`) | session, route, page to come back to | bootstrap, redirect on 401, log in, log out |

### How they interact

* Every HTTP request has one database session (`common/db.py`). Its first SELECT fixes a REPEATABLE
  READ snapshot; the guards of a handler are evaluated on it; one commit writes the columns the
  handler changed, without a version column or a condition in the UPDATE. Handlers run in a thread
  pool, so requests overlap. Only the lock handlers use `SELECT ... FOR UPDATE`.
* The trash routes and the sweep call the state engine; the sweep keeps one session, with
  `expire_on_commit=False`, across all its bundles.
* Attachment archival and link invalidation observe `document.status`; nobody calls them.
* The client learns of a change only by reloading. Locks have no time-out; a page gives its lock up by
  saving when it is unmounted.
* The session is the signed cookie alone; an answer may renew the cookie its request was sent with.
* Every asynchronous function of the client goes on after an `await` with the closures of the render it
  started from: the workspace, document or list of that moment. Loads guard themselves in one of two ways:
  a run counter (the latest load counts) or a flag (a load under way bars the next).

### What is hard, and what correctness means

* **Document tree and trash.** Check-then-act on snapshots: the guards of two requests may both hold
  although their writes together are illegal. A bundle is reconstructed from parents, states and
  one-second stamps. Correct: no cycles (INV-5), parents in the same workspace (INV-6), deleted is final
  (INV-7), a bundle changes state whole (INV-10), children are trashed first (INV-11), independent timers (INV-12),
  no active document under one that is not, every trashed document belongs to exactly one bundle, the sweep deletes expired
  trash only and, in the end, all of it.
* **Order of siblings.** Midpoints in a column of fixed precision, restores to places that have been
  taken. Correct: a move lands where it was asked to, values stay distinct.
* **Editing.** Late, lost and repeated requests of pages that are gone. Correct: only the holder writes,
  no version overwrites one it was not based on, an open editor keeps its lock, no lock is forgotten.
* **Workspaces.** A count of owners checked on a snapshot. Correct: every workspace keeps an owner.
* **Sharing.** Upsert without a unique key, a sweep against reissue and toggle. Correct: a retired token
  never works again, a link serves only while document and gate allow it.
* **Attachments.** File and row are two steps; references are read from the current version. Correct: no
  row names a missing file for ever, an image in use is not archived.
* **Pages.** Answers out of order, optimistic patches undone late, functions that go on in another
  workspace. Correct: at rest a page shows what the server has, selects what exists and waits for nothing.
* **Session.** Overlapping logins, logouts, bootstraps and refusals. Correct: the client ends with the session of
  the cookie, the lists are the user's own, and the user comes back to where he was going.

`PROJECT.json` lists the hazards line by line, with the properties that cover each.

## The modules

| Module | Models |
|---|---|
| `DocTree` | the rows of `document`, overlapping requests, the retention sweep |
| `DocLifecycle` | abstract: absent, active, trashed, deleted, in whole sets |
| `SweepWitness` | `DocTree` with a record of what was in the trash while the sweep ran |
| `MCDocTree` | symmetry for the instances of `DocTree` |
| `SiblingOrder` | `sort_order` under create, move, trash, restore |
| `EditLock` | lock and versions on the server, the edit pages, the network |
| `LockedLog` | abstract: one holder, the holder appends |
| `Uploads` | the texts behind `EditLock` and the uploads into them (extends `EditLock`) |
| `MCEditLock` | symmetry and two bounds for the instance of `Uploads` |
| `DocumentPage` | the document page of the client over the rows of the server |
| `Sharing` | links, service and sweep on snapshots, share controls, a guest |
| `Membership` | workspaces and members on snapshots, the workspace page of one user |
| `Session` | cookie, client session, router, login and logout |
| `Ids` | the least id of a set, for what is allotted in order |
| `DocTreeProofs` | theorems about `DocTree` and `SweepWitness`: with overlap, and for one request at a time |
| `EditLockProofs` | theorems about `EditLock` and `Uploads` |
| `SiblingOrderProofs`, `SharingProofs`, `MembershipProofs`, `SessionProofs`, `DocumentPageProofs`, `IdsProofs` | theorems about the module of that name |

### DocTree

`table` holds the committed rows, column by column. A request is two steps. `BeginCreate`,
`BeginMove`, `BeginTrash`, `BeginRestore` and `BeginPurge` are the snapshot, the guards
(`service.py`, `engine.py`) and the columns the session will write; `Commit` is the one
`db.commit()`, which writes these columns onto whatever is in the table by then; `Abort` is a
deadlock victim or a crash. A request that is refused changes nothing and is no step. In `Writes` the
value `Keep` is a column the UPDATE leaves out: SQLAlchemy does not write an attribute that was
assigned its old value (`Changed`), which is why a purge writes the state and not the stamp. A delete
whose descent meets a cycle never answers and writes nothing (`collect_active_descendants` keeps no visited set), so
it is no step either.

The sweep is one session. `SweepStart` lists the bundles of a workspace; `SweepPurge` purges the next
expired one and commits; `SweepSkip` is a bundle that fails, logged and rolled back; `SweepReopen` is
the new snapshot after a commit or rollback. Objects loaded once keep their attributes (`seen`, `cached`) while
queries filter on the rows of the snapshot (`snap`), as in SQLAlchemy's identity map. `SweepWitness` adds three
history variables: what has been in the trash since the sweep began, what of it past its retention period, and whether a
bundle has failed. They say what the sweep can have seen when it deletes, which is all it goes by.

`Reach` is a least fixed point stated with a quantifier over sets, not recursion, so that the module
can be proved about.

### SiblingOrder

One request at a time. `Between` is the rule all values come from: the middle of two neighbours, a
step beyond one, the start value for none. `Lower` and `Upper` are `_insertion_bounds`,
`RestoreOrder` is `_resolve_restore_sort_order`. A unit is the last decimal of the column. Folders go to
the trash with their children and come back, so that a restore also finds its parent gone.

### EditLock

The server handlers take the row lock first, so each is one step, taken when the request in `inbox` is
handled: in any order, and possibly after the visit that sent it has given up or gone. `visit` is a mount
of the edit page: `phase` is the status of `useEditSession` (its "acquiring" is split into `locking`
and `loading`), `call` and `answer` the promise it awaits. `Leave` is the cleanup effect, with its
conditions: lock acquired, editor open, no cancel that has succeeded. `ForceAnswered` retries even if the page is gone, as
`handleClick` does. `basis` (how many versions there were when the text was loaded) and `end` (how the
page was left) exist for the properties only.

Not in the model: the document's state (lock and trash never look at each other in the code), a second
document, the version history, more than one cancel or forced unlock of a visit under way at once.

### Uploads

`UploadsSpec` takes every step of `EditLock` with its effect on the texts (`Edit`): the text a page loads, edits
and saves. `StartUpload` puts a placeholder at any place, `UploadAnswered` replaces the first one with the number of
the upload. A text is the sequence of its placeholders; the rest of it plays no part. Numbers start again with
each mount (`counterRef`), and nothing waits for an upload, so a page that is left saves its
placeholders, and a later page loads them: `unfinished` records that a page was left so. The editor stays in
markdown mode: in its other mode the place found in the markdown is passed to an editor that counts differently,
which is not modelled.

### DocumentPage

A `task` is one asynchronous function, at one of its awaits (`stage`): its call to the server, the reload after it,
or a load of its own. It keeps the workspace of the render it started from. `Handle` and `Fail` are the server, one step
each (`DocTree` has the transactions); `Read` is a list as it was read, `Reloaded`, `Confirmed`, `Finished`, `Undone`,
`TrashAnswered` and `Listed` what the page does next. `tree.snap` is `serverSnapshotRef`, to which `applyLocal(null)`
returns; `tree.run` and `panel.run` are the run counters, by the task that counts. The clicks are those the components
enable: nothing disables the delete button, and a drop is possible while a mutation is pending. What the server refuses is
`Legal`: a move and a removal need an active document, a rename only one that exists, so that a rename which meets a
trashed or deleted row succeeds and nothing is undone.

### Sharing

A request that writes is `Read` (snapshot, guards) and `Commit`. `Saved` is the UPDATE of the session: attributes
equal to what was loaded are not written, so a reissue that crosses a toggle keeps the `is_enabled` of the toggle.
The status of documents and the gate change in one step each. `SweepLists` and `SweepRetires` are the sweep, one
commit per link. A control reads its link on mount (`Turn`), and `Act` makes a read under way void.

### Membership

`Read` passes the role gate and the guards on the snapshot, `Commit` writes; a creation commits twice (stage `half`).
`loaded` is the role the session read, `gone` if its row was deleted meanwhile, which makes an UPDATE of it fail
(`Writable`). `Rendered` is what React makes of a new state: panels that appear load, panels that stay load for the new
workspace unless a load is under way, the settings panel starts afresh (it has a key, the members panel has none).
Other users and administrators act through `OtherReads`; their answers are seen by nobody.

### Session

A `call` is one asynchronous function at one of its requests; it carries the cookie there was when it was sent
(`sender`). An answer first sets the cookie (`CookiesAfter`), then the function goes on. That an answer
other than to a login or logout renews the cookie depends on the version of Starlette, so both are allowed.
`Settled` is the end of a bootstrap with everything React makes of it in the same render: session, route (`ProtectedRoute`),
and the load of the list of workspaces if the status has turned to authenticated.

### Causes

`DocumentPage`, `Sharing`, `Membership` and `Session` have a variable `disturbed`: the set of things that have
happened which the code has no answer to, each recorded by the step that does it. A property about the page at rest
reads "unless one of these happened", names them, and holds for every other order of events. So a property says two
things: what the guards of the code achieve, and which gaps they leave. The gaps are part of the result:

| Module | Cause | What it is |
|---|---|---|
| `DocumentPage` | `lost` | a mutation was done and its answer lost; the page takes it for failed |
| | `stray` | a function begun in another workspace reloads that one's list here |
| | `undone`, `crossed` | a failed rename or move shows the last list again; a rename overlaps a load |
| | `unread`, `superseded`, `raced` | a reload that failed, or that another overtook; a removal while a creation or restoration is to be selected |
| | `behind` | a removal confirmed while the trash is shown |
| | `adrift`, `foreign` | a selection made in another workspace than the one shown; a bundle of the former workspace still picked |
| `Sharing` | `crossed` | the row was toggled between snapshot and commit |
| | `moved`, `failed`, `changed` | the document changed under an action; a request failed; the link was written under another control |
| `Membership` | `overlapped`, `promoted`, `abandoned` | two demotions at once; a member promoted while removed; a creation that stopped half-way |
| | `dropped`, `strayed`, `behind`, `elsewhere` | a load barred by another; a reload for a former workspace; one that began too early; a change by somebody else |
| | `unseen`, `crossed`, `unlisted` | the user's own role changed without an answer to the page, or with another answer on its way; a change after which no list is loaded |
| `Session` | `lost`, `ended` | `/auth/me` was lost; the cookie expired or the account was closed |
| | `crossed`, `mixed` | an answer set the cookie although another had set it meanwhile |
| | `relogged`, `turned` | another user logged in over a session not ended; the user went elsewhere while a login was under way |

In `Session` what a new bootstrap or a new list puts right is taken out of the set again (`PutRight`). A new list
puts `relogged` right only when no bootstrap follows it: the login that loads the list while the former user
is still shown does not. The attempt to prove `ListOwn` brought this out; the case needs one act more than the run has.
`TrashShowsServer` names `stray` for the same reason: a purge begun in another workspace asks for that one's bundles
after the user has turned here. To turn with the trash open takes two slots beside the purge's; the run has two in all.

## What TLC checks

`CHECK_DEADLOCK FALSE` throughout: documents and visits are finite in the instances, and users may stop.

| Run | Instance | Shows |
|---|---|---|
| `tree_exclusive` | 3 documents, 2 workspaces, one request or sweep at a time, clock 0..2 | the shape of tree and trash and the refinement of `DocLifecycle`, in the setting the code was written for |
| `tree_sweep` | 2 documents, 1 request overlapping the sweep, clock 0..2, fairness | `StampCoherent`, `DeletedSettles`, `SweepDeletesWitnessed`, `ExpiredLeavesTrash` |
| `edit_lock` | 2 users, one waits for earlier calls, the other, an owner, does not; 3 visits, broken connections, 2 uploads of a page | the lock properties, the refinement of `LockedLog`, `PlaceholdersResolved` |
| `sibling_order` | 4 documents, top level and a folder, 2 moves or restores, Step 4 | `RootDistinct`, `MoveLands`, `RestoreNearby` |
| `document_page` | 2 documents in any legal state, 2 workspaces, 2 tasks, 3 clicks, 1 loss | `ShowsServer`, `NoGhostSelected`, `TrashShowsServer`, `RemembersOwn`, `NoEndlessWait` |
| `sharing` | 2 documents, 2 rows, 2 controls and a guest, 2 requests, 3 starts, 2 events, 1 fault, fairness | `DeadStaysDead`, `ControlShowsServer`, `ReissueEnables`, `InvalidRetired` |
| `membership` | 2 users and an administrator, 2 workspaces, 2 requests, 3 starts, 1 loss | `OwnerRemains`, `RosterShown`, `RoleShown`, `ListShown` |
| `session` | 2 users, 2 pages, 3 calls, 4 acts, 1 fault | `SessionShowsCookie`, `ListOwn`, `ReturnsWhereAsked` |
| `tree_cycle` | 2 documents, 2 overlapping moves | finds the cycle (violation) |
| `tree_sweep_restored` | 2 documents, a restore during the sweep | finds the restored document deleted (violation) |
| `edit_reentry` | 2 users, 3 visits, no forced unlock, no broken connection | finds two open editors (violation) |
| `restore_collision` | 4 documents, a folder | finds the collision the fallback makes itself (violation) |

**Bounds.** Three documents are a chain, a pair of siblings under a parent, or a bundle inside a bundle,
the shapes the engine distinguishes. Two requests are enough for a write skew; a clock of one unit more than
the retention separates equal, different, expired and unexpired stamps. Three visits are two of one user and
one of another, the least for a late request to meet a new page of its user and a rival. Two constraints keep the instance
of `edit_lock` small and leave out nothing of pages and lock, which do not depend on uploads: behaviours end once an
editor was left with an upload under way, after which nothing is claimed of texts, or when two open pages upload. Four
siblings are a restored
document, the one in its place and one on each side. `Step` must be at least 2 to the power of
`MaxPlacements`: in the code it is 10^18 units, that is, some sixty insertions at one spot.

In the client modules two slots for functions in flight are the least for one to overtake another; three clicks are a
first function, one that overlaps it and a switch or look at what came of both; one loss separates what a loss
explains from what an order explains. `session` has three calls, since a logout, the login after it and a late answer
of the page before make the cases its properties are about. Two documents and two workspaces (or pages) are the least
for an answer to be
about the wrong one. Every cause in the table above is reached in these instances: without it in
the exception the property fails. `DeadStaysDead`, `OwnerRemains` and `ReturnsWhereAsked`, which might depend on
the bounds most, are proved for all values, as is all else except liveness.

**Which setting a property needs.** `Acyclic`, `ActiveUnderActive`, `BundlesPartitionTrash`, `ChildTrashedFirst`,
`BundleAtomic`, `TimerNeverReset` and the refinement of `DocLifecycle` are checked and proved without overlap only, since
overlapping requests break them (`tree_cycle` shows it for the first; see the findings). What holds with overlap is
checked with it (`tree_sweep`): `StampCoherent`, `DeletedSettles`, and what is left of the sweep's promise,
`SweepDeletesWitnessed`. That the sweep deletes only what is expired trash at that very moment
(`SweepDeletesOnlyExpiredTrash`) holds only as long as nothing changes while it runs; `tree_sweep_restored` refutes it.
`SameWorkspace` (INV-6) is proved, overlap included, and in no run.
`ExpiredLeavesTrash` is checked for one request beside the sweep: when two moves make a cycle and a third request, which
read the tree before, trashes it, the bundle has no root and stays in the trash.

`LockKeptWhileEditing` is stated for every setting, with what each one leaves: of a user who waits for the calls of the page
just closed (`Prompt`) no other page can unlock; of one who does not, a late request of a page left can, and nothing else.
`NoLostUpdate` is about the versions of users who have one page open and wait; the late save of `edit_reentry` breaks it
for others. `edit_lock` has a user of each kind, so that the one who waits meets the late requests of the other.

**Fairness** (`tree_sweep`). The sweep is an interval job of the scheduler, so it starts again and its
steps go on (weak fairness); no bundle fails for ever (strong fairness of `SweepPurge(d)` per document);
a request commits or dies; time passes. Nothing is assumed of users.

**Fairness** (`sharing`). The invalidation sweep is an interval job too (`sharing/scheduler.py`): listing and
retiring go on (weak fairness). Requests are handled and answers delivered (weak fairness of
`Handle(r) \/ Deliver(r)`); nothing is assumed of users, or of what changes documents and gate. One retirement may
fail (`MaxFaults`); the
next sweep lists the link again. The other runs state safety only and need no fairness: "at rest" means that nothing
is in flight.

### Findings

Four runs end in a violation, each of a statement of the repository itself; `PROJECT.json` quotes them.

1. *Two moves make a cycle* (`tree_cycle`): the check of INV-5 reads the snapshot, the UPDATE has no condition.
2. *The sweep deletes a restored bundle* (`tree_sweep_restored`): the session's objects are stale.
3. *Two open editors* (`edit_reentry`): the save of the page just closed takes the lock of the page
   just opened, because the lock names a user and not a page.
4. *A restored document collides again* (`restore_collision`): with evenly spaced siblings the fallback
   computes the taken value.

Two more of the kind of the first are found by TLC on the instance of `tree_cycle`, with another property in its place. With
`ActiveUnderActive`: a delete does not see a child created under its root meanwhile (`engine.py:108`), and leaves it active
under a trashed parent. With "a deleted document stays deleted": a restore that read the bundle in the trash before it was
purged writes `active` over `deleted` (`repository.py:261`), although INV-7 knows no way back; `DeletedSettles` is what
remains, that no later request brings it back.

One divergence is of the documents alone. INV-8 and the notice of the share control (`InvalidationNotice.tsx:41`) say
that a link
once invalid stays so. The token of a link that was toggled off before its document went to the trash, or whose
document came back before the sweep or a visit retired it, works again. `DeadStaysDead` is about tokens
that were replaced, which is what the code guarantees; `InvalidRetired` says that a link stays invalid and enabled for
a while only.

## What is proved

Every state invariant, action property and refinement that the passing runs check, for every value of the constants;
what is left are the two liveness properties. The theorems rest on the named assumptions of the modules and, where it is
said, on a hypothesis about the setting, which is that of a run.

### DocTree with overlap (`DocTreeProofs`)

`TypeCorrect`; `WorkspacesHomogeneous` (INV-6); `StampsCoherent`; `DeletionIsFinal`. `SameWorkspace` is not inductive: a
pending write may carry a parent read earlier. The invariant `WInv` adds that every pending parent is a row of the
writer's workspace (`PendingRows`), that an id with an INSERT in flight is written by nobody else (`Reserved`), and that
the sweep's objects are rows that were once committed (`SweepSees`). A workspace once set never changes, so the two stay
together whoever commits first.

`SweepGoesByWhatItSaw` is about `SweepWitness`. The invariant `Witnessed` says how each source the sweep decides from
is behind the record: the bundles still due were past retention when it listed them (`DueWitnessed`), its snapshot was taken
since it began (`SnapWitnessed`), and until a rollback the stamps it compares are those of the list (`SeenWitnessed`),
so that
a row can only join a bundle whose period is over. After a rollback objects are loaded anew and the period is
not tested again, so that a bundle restored and trashed again meanwhile goes before its time: hence `failed`.

### DocTree, one request or sweep at a time (`DocTreeProofs`)

`TreeAcyclic` (INV-5), `NoOrphans`, `TrashPartitioned`, `BundlesAtomic` (INV-10), `ChildrenTrashedFirst` (INV-11),
`TimersKept` (INV-12) and `ImplementsLifecycle`, from `Overlap = FALSE`: with overlap they do not hold (see the
settings above). The argument has two halves.

* Nobody writes from an old snapshot. `Serial`: a request under way is alone, and its columns are those its
  handler would compute from the rows of now (`Prepared`). `SweepFresh`: the sweep's objects agree with the rows, although it
  never refreshes them, and what it listed is still in the trash with that stamp. Hence every change of `table` is one of the
  atomic tree operations `Created`, `Moved`, `Trashed`, `Restored`, `Purged` (`StepIsTreeStep`).
* These operations keep the shape (`NoCycle /\ ActiveUnderActive`). Descendants and ancestors are least fixed points, so
  that an edge changed in `parent_id` is followed by closing a set under it, not by induction over a path.
  `BundlesPartitionTrash` then needs no invariant of its own: without a cycle the
  trashed ancestor with the fewest ancestors and the same stamp is the root of the bundle (`NoCyclePartition`).

`BundlesAtomic` and `TimersKept` look at one operation: it changes a whole `Members` set or a whole `ActiveDescendants` set,
and a delete captures active documents only. `ChildrenTrashedFirst` needs the invariant `StampsInOrder`: no stamp in the
table is later than one a delete under way is about to write.

### SiblingOrder (`SiblingOrderProofs`)

* `RestoresNearby` holds as it stands: a restore computes a value between the siblings below and above the old one.
* `RootsDistinct` and `MovesLand` have the hypothesis `Enough`: there is a sequence that starts at no more than
  `Step`, halves at
  least with each placement and stays positive, which is 2^`MaxPlacements` <= `Step` said without powers. For the
  code's 10^18
  units that is 59 moves and restores, the worst case in which all fall between the same two documents; creates are free.
  `RootDistinct` is not inductive, since two
  different values may have none between them. The invariant `RootInv` says how far apart the values are:
  `Room[placements]` (`RootSpaced`). A placement has neighbours (`BoundsSplit`: everybody else is at or before the lower
  or at or behind the upper one) and keeps half of their distance from all others (`BetweenLies`).

### EditLock and Uploads (`EditLockProofs`)

* `TypeCorrect`; `ImplementsLockedLog` (the refinement); `OrphansExplained`. The invariant `Inv` says which phase goes with
  which call (`Consistent`) and that some visit of the holder answers for the lock (`Standing`): it awaits or has the
  editor, its save is under way, or it was left early or lost its save. Each step is shown to be `Sound`: it
  disturbs no other visit and either keeps the lock with the visit that answered for it or hands it to one that does.
* `LockKept`, without a hypothesis. Which page the unlocking request can come from is told by `OwnPages`: with one page per
  user no two of a user's visits are open (`OneOpen`), so it is a page that was left, however early the user returns; and
  if the user waits for its calls there is none (`OnePage`).
* `NoUpdateLost`, from `Tabs = 1`, for the versions of users who wait (`edit_reentry` shows what the others can do). The
  invariants, both about users who wait, are `OnePage`, of two visits of a user one is settled, so that a request on its
  way comes from the page its user has now, and `Fresh`, whoever edits, is about to, or has a save under way and holds the
  lock has the newest version as its basis. Whoever else takes the lock in between makes the text stale but its lock void.
* `UploadsResolve`: the placeholders in a text are pairwise different and those of uploads under way (`Marks`), so that
  replacing the first occurrence replaces the right one. It needs what a replacement does to the set of the values of
  a sequence.

### Sharing (`SharingProofs`)

* `TypeCorrect`; `ReplacedStaysDead` (INV-8); `ReissueLeavesEnabled`. The invariant `Tokens` adds that dead tokens and the
  tokens of rows are below `next`, so that a new one is neither, and that no two rows share a token, so that
  replacing one kills no other. Requests under way carry no token to write: that is why their order does not matter.
* `ControlTellsTruth`. The invariant `Controlled` says, as long as no cause occurred, that a document has one row
  (`OneRow`), that a control has at most one write under way (`OneWrite`), that an answer that still counts carries
  the row of now
  (`FreshAnswers`), and that a control waiting for nothing shows it (`Shown`).

### Membership (`MembershipProofs`)

* `TypeCorrect`; `OwnersRemain`. The invariant `Owners` says, as long as none of the three causes occurred, that while a
  demotion or removal is past its guard another owner remains in the committed rows (`Another`), and that a workspace without
  an owner is one whose creation has its second commit to come (`Owned`). Each commit is shown to keep it or to record a
  cause.
* `ListsShown`, `RolesShown`, `RostersShown`. Each invariant says of what a page shows either that it is as the server
  has it or
  who will put it right: a load under way or an answer after which one follows (`ListInv`), an answer that tells the new
  role (`RoleInv`), a load of this workspace that has not read yet or has read what is true, or the action that the
  panel waits for (`RosterInv`).

### Session (`SessionProofs`)

* `TypeCorrect`; `ReturnsToAsked`. The invariant `Returns` adds that every login under way leads to the page asked for;
  redirection, route guard and late answers move nobody (`ToLoginStands`, `GuardedStands`, `RedirectedStands`).
* `ShowsCookie`, `ListsOwn`. The invariant `Views` says that the run counters name calls of the right kind (`Latest`), that
  what the latest bootstrap has learnt so far is true of the cookie (`Booted`), and that, unless somebody logs in over
  another, the cookie, the session to come and the list to come name one user (`OneUser`).

### DocumentPage (`DocumentPageProofs`)

* `TypeCorrect`; `NoEndlessWaits`. The invariant `Typed` says which stage goes with which function (`Formed`), that the
  counter of a list that is loading names a function that fetches or lists (`TreeFormed`, `PanelFormed`), and that a
  bundle contains its root (`Rooted`). Each action has a lemma that says what it does (`HandleDoes`, `ReloadedDoes`,
  ...), so that the other invariants are kept from these lemmas and not from the definitions of the actions.
* `TrashShown`. The invariant `Trash`: the load the panel waits for is of this workspace, and what it shows and what that
  load has read are the server's bundles (`TrashFresh`), unless a restoration or purge has come back that will
  ask again (`Unread`).
* `RememberedOwn`. The invariant `Homes`: snapshot, selection, memory and what each function carries (the list it has
  read, the document to select, the ancestors of the one it removes) are of the workspace they are for. The ancestors
  come from a recursive function: it has a value because a solution is exhibited, and that all of them are documents of the
  tree is shown by the least place where one is not (`AncestorsOutside`).
* `TreeShown`. The invariant `Shows`: snapshot and landing load have the documents and parents of the server
  (`Matches`) unless a change is done for which the tree is not asked yet (`Undelivered`), and what is shown differs
  from the snapshot only while a move is under way (`Placed`). Titles need more, `Headed`: one rename at
  a time and no load beside it (`Solo`), so that, unless a refusal is about to be undone, each title shown is the row's
  or that of the rename under way (`Titled`).
* `NoGhosts`. The invariant `Ghosts`: shown, selected and landing documents are active, or a removal whose load has not
  landed will see to it, and a document created or restored stays active until it is selected. The invariant
  `Adrift`: a selection in another workspace than the one shown (`adrift`) is made only together with `superseded` or
  `stray`, which is why `NoGhostSelected` need not name it.

`IdsAssumption` asks for a function slot, a workspace and a title: a page is at a workspace, which loads as it opens.

`IdsProofs`: a nonempty set of numbers has a least member, from which the other modules take their ids and their
members with the fewest of something. `SiblingOrder`, `EditLock` and `DocumentPage` assume finite sets of documents,
visits or
slots for that.

### Only model-checked

* Liveness (`ExpiredLeavesTrash`, `InvalidRetired`): TLAPS cannot prove it under fairness.
* What the runs with violations show: one counterexample is all they need.

## Not modelled, and the plan

Rendering, error mapping, configuration, migrations and the administration CLI have no protocol to get wrong;
account administration and user settings are single-row updates (two first changes of a user's settings both
insert, and one fails on the unique key). Reading views, the outline and the version history show what they load once.

Left for later, in this order:

1. Attachments on the server: file and row, crashes between them (`attachment/service.py:136`, `archival.py:81`), and
   the archive sweep that decides on the version it has read (`archival.py:101`). It needs the references in a text, which
   `Uploads` leaves out.
2. `EditLock`: the text discarded by a cancel under way (`useEditSession.ts:180`), a second document in the same page.
3. `SiblingOrder` with snapshots, for creates and restores that overlap.
4. `Sharing`: what is promised when a document has two rows, which a missing unique key allows.
5. `Uploads`: the other mode of the editor, and a dropped image that both handlers of `EditorWrapper` may take.
