----------------------------- MODULE Membership -----------------------------
(***************************************************************************)
(* Workspaces and their members: the service that creates, changes and     *)
(* deletes workspaces and adds, re-roles and removes members, and the      *)
(* workspace page of one user, Me, who may act while others do.            *)
(*                                                                         *)
(* A request that writes is two steps: it passes the gate and the guards   *)
(* on its snapshot, then commits what it changes; creating a workspace has *)
(* a second commit, for the membership of its owner.  The page has four    *)
(* loads that race with these: the list of workspaces (the latest load     *)
(* counts), the roster and the assignable users (a load under way bars the *)
(* next), and the role of Me, which it learns from lists and from answers. *)
(***************************************************************************)
EXTENDS Integers, FiniteSets, Ids

CONSTANTS
    Users, Me,     \* those who may be members, the one whose page it is
    Admins,        \* administrators, who may be users or not
    Workspaces,    \* ids, allotted in increasing order
    Reqs,          \* slots for requests
    MaxStarts,     \* bound on what users start
    MaxFaults,     \* bound on requests and answers that are lost
    Null

ASSUME UsersAssumption == Me \in Users
ASSUME NumbersAssumption == Workspaces \subseteq Nat /\ Reqs \subseteq Nat
ASSUME BoundsAssumption == MaxStarts \in Nat /\ MaxFaults \in Nat
ASSUME NullAssumption == Null \notin Users \cup Workspaces \cup Reqs

VARIABLES
    made,         \* the workspaces there are
    used,         \* the ids that have been given out
    open,         \* is_shareable of each: the settings
    role,         \* role[w][u], "none" for no row of workspace_member
    req,          \* requests in flight
    page,         \* the page of Me
    starts, faults,
    disturbed     \* history: what has happened that the properties speak of

server == <<made, used, open, role>>
vars == <<server, req, page, starts, faults, disturbed>>

Roles == {"none", "member", "owner"}
Rows == [Users -> Roles]
Listing == [Workspaces -> [made: BOOLEAN, open: BOOLEAN, role: Roles]]
Ops == {"none", "add", "change", "remove", "own", "create", "update", "delete"}
Stages == {"none", "sent", "read", "half", "answered", "refresh", "listed", "unlisted"}
Loads == {"members", "assignable"}
Causes == {"overlapped", "promoted", "abandoned", "elsewhere", "dropped", "strayed", "behind",
           "unseen", "crossed", "unlisted"}

NoRows == [u \in Users |-> "none"]
NoList == [w \in Workspaces |-> [made |-> FALSE, open |-> FALSE, role |-> "none"]]

\* loaded, was: the role and the setting in the snapshot; got, list: what was answered.
Request == [op: Ops, by: Users \cup {Null}, ws: Workspaces \cup {Null}, user: Users \cup {Null},
            role: Roles, open: BOOLEAN, stage: Stages, loaded: Roles \cup {"gone"}, was: BOOLEAN,
            ok: BOOLEAN, got: Roles, list: Listing]
NoReq == [op |-> "none", by |-> Null, ws |-> Null, user |-> Null, role |-> "none", open |-> FALSE,
          stage |-> "none", loaded |-> "none", was |-> FALSE, ok |-> FALSE, got |-> "none", list |-> NoList]

\* A load: under way for workspace asked, which answered got; rows of workspace of are shown.
Load == [stage: {"idle", "sent", "read", "failed"}, asked: Workspaces \cup {Null}, got: Rows,
         ok: BOOLEAN, of: Workspaces \cup {Null}, rows: Rows]
NoLoad == [stage |-> "idle", asked |-> Null, got |-> NoRows, ok |-> FALSE, of |-> Null, rows |-> NoRows]

Note(causes) == disturbed' = disturbed \cup causes
Put(r, q) == req' = [req EXCEPT ![r] = q]
Lost(n) == faults' = faults + n /\ faults' <= MaxFaults

---------------------------------------------------------------------------
(***************************************************************************)
(* The server.                                                             *)
(***************************************************************************)
\* require_ws_role(OWNER), require_admin, get_current_user
Admitted(u, op, w) ==
    CASE op = "create" -> TRUE
      [] op = "own"    -> u \in Admins
      [] OTHER         -> u \in Admins \/ (u \in Users /\ role[w][u] = "owner")

\* Mutant: the owners are not counted.
SoleOwnerNever(w, u) == FALSE

\* The owners of w are u alone.
SoleOwner(w, u) == role[w][u] = "owner" /\ \A v \in Users \ {u} : role[w][v] # "owner"

\* NOT_FOUND and CONFLICT on the snapshot.
Refused(q) ==
    CASE q.op = "add"    -> role[q.ws][q.user] # "none"
      [] q.op = "change" -> \/ role[q.ws][q.user] = "none"
                            \/ q.role # "owner" /\ SoleOwner(q.ws, q.user)
      [] q.op = "remove" -> role[q.ws][q.user] = "none" \/ SoleOwner(q.ws, q.user)
      [] q.op = "create" -> FALSE
      [] OTHER           -> q.ws \notin made

\* The request passes the gate and the guards, or is answered.
Read(r) ==
    LET q == req[r]
        admitted == Admitted(Me, q.op, q.ws) /\ ~Refused(q) IN
    /\ q.stage = "sent"
    /\ Put(r, IF ~admitted THEN [q EXCEPT !.stage = "answered"]
              ELSE [q EXCEPT !.stage = "read",
                             !.loaded = IF q.user = Null THEN "none" ELSE role[q.ws][q.user],
                             !.was = q.ws # Null /\ open[q.ws]])
    /\ UNCHANGED <<server, page, starts, faults, disturbed>>

\* The row a request writes is there, or is not there yet (unique and foreign key).
Writable(q) ==
    CASE q.op = "change"                     -> q.loaded # "gone"
      [] q.op = "own" /\ q.loaded # "none"   -> q.loaded # "gone"
      [] q.op \in {"add", "own"}             -> q.ws \in made /\ role[q.ws][q.user] = "none"
      [] q.op = "create" /\ q.stage = "half" -> q.ws \in made
      [] q.op = "update"                     -> q.ws \in made
      [] OTHER                               -> TRUE

\* Mutant: the role is left out of a new row.
GivenNull(q) ==
    CASE q.op = "remove"             -> "none"
      [] q.op = "add"                -> Null
      [] q.op \in {"own", "create"}  -> "owner"
      [] OTHER                       -> q.role

\* The role a request gives.
Given(q) ==
    CASE q.op = "remove"             -> "none"
      [] q.op \in {"own", "create"}  -> "owner"
      [] OTHER                       -> q.role

\* The roles after the commit of q; a role that is as it was loaded is not written,
\* to delete a row that is gone has no effect.
RolesAfter(q) ==
    IF q.op = "delete" THEN [role EXCEPT ![q.ws] = NoRows]
    ELSE IF q.op = "update" \/ (q.op = "create" /\ q.stage = "read") THEN role
    ELSE IF q.op = "create" THEN [role EXCEPT ![q.ws][q.by] = "owner"]
    ELSE IF q.loaded \in {Given(q), "gone"} THEN role
    ELSE [role EXCEPT ![q.ws][q.user] = Given(q)]

\* A demotion or removal that its guard has let pass.
Passed(q) == /\ q.stage = "read" /\ q.loaded = "owner"
             /\ q.op = "remove" \/ (q.op = "change" /\ q.role # "owner")

Mine(r) == req[r].by = Me

\* What the commit of r does under others' eyes: an owner goes while another is being
\* demoted; a member is removed who has become an owner; the rows of a workspace that the page shows or loads change;
\* the role of Me changes and the page will not learn it, or has older news to come;
\* a list changes and no load of it follows.
Disturbances(r, answered) ==
    LET q == req[r]
        new == RolesAfter(q)
        changed == {w \in Workspaces : new[w] # role[w]}
        mine == \E w \in changed : new[w][Me] # role[w][Me]
        told == Mine(r) /\ answered /\ q.op \in {"add", "change", "create"} IN
    (IF \E w \in changed, u \in Users : /\ role[w][u] = "owner" /\ new[w][u] # "owner"
                                        /\ \E x \in Reqs : Passed(req[x]) /\ req[x].ws = w /\ req[x].user # u
     THEN {"overlapped"} ELSE {})
    \cup (IF q.op = "remove" /\ q.loaded = "member" /\ role[q.ws][q.user] = "owner" THEN {"promoted"} ELSE {})
    \cup (IF page.acting # r /\ \E w \in changed, k \in Loads : w \in {page.load[k].of, page.load[k].asked}
          THEN {"elsewhere"} ELSE {})
    \cup (IF mine /\ ~told THEN {"unseen"} ELSE {})
    \cup (IF mine /\ \E x \in Reqs \ {r} : Mine(x) /\ req[x].stage \in {"answered", "listed"}
          THEN {"crossed"} ELSE {})
    \cup (IF q.op \in {"create", "update", "delete"} /\ ~(Mine(r) /\ answered) THEN {"unlisted"} ELSE {})

\* The request commits; a row it removes is gone for those that have loaded it.
Commit(r, answered) ==
    LET q == req[r]
        w == IF q.op = "create" /\ q.stage = "read" THEN Least(Workspaces \ used) ELSE q.ws
        first == q.op = "create" /\ q.stage = "read" IN
    /\ q.stage \in {"read", "half"} /\ Writable(q)
    /\ first => answered /\ Workspaces \ used # {}
    /\ Lost(IF answered THEN 0 ELSE 1)
    /\ made' = IF first THEN made \cup {w} ELSE IF q.op = "delete" THEN made \ {w} ELSE made
    /\ used' = IF first THEN used \cup {w} ELSE used
    /\ open' = IF q.op = "update" /\ q.open # q.was THEN [open EXCEPT ![w] = q.open] ELSE open
    /\ role' = RolesAfter(q)
    /\ req' = [x \in Reqs |->
                 IF x = r THEN IF first THEN [q EXCEPT !.stage = "half", !.ws = w]
                               ELSE IF ~Mine(r) THEN NoReq
                               ELSE [q EXCEPT !.stage = "answered", !.ok = answered,
                                              !.got = IF q.user = Null THEN "none" ELSE role'[w][q.user]]
                 ELSE IF /\ req[x].stage = "read" /\ req[x].loaded # "none" /\ req[x].ws = w
                         /\ role[w][req[x].user] # "none" /\ role'[w][req[x].user] = "none"
                 THEN [req[x] EXCEPT !.loaded = "gone"] ELSE req[x]]
    /\ Note(IF first THEN {} ELSE Disturbances(r, answered))
    /\ UNCHANGED <<page, starts>>

\* The request fails: it is lost, a key forbids its row, its row is gone, or there
\* are documents in the workspace.
Fail(r) ==
    LET q == req[r] IN
    /\ q.stage \in {"sent", "read", "half"}
    /\ Lost(IF q.stage # "sent" /\ (~Writable(q) \/ q.op = "delete") THEN 0 ELSE 1)
    /\ Put(r, IF Mine(r) THEN [q EXCEPT !.stage = "answered"] ELSE NoReq)
    /\ Note(IF q.stage = "half" THEN {"abandoned", "unlisted"} ELSE {})
    /\ UNCHANGED <<server, page, starts>>

---------------------------------------------------------------------------
(***************************************************************************)
(* The page.                                                               *)
(***************************************************************************)
\* list_members, list_assignable_users: of the latter only who is a member matters.
View(k, w) == [u \in Users |-> IF k = "assignable" /\ role[w][u] = "owner" THEN "member" ELSE role[w][u]]

\* The panel for members and settings shows (RequireRole).
Shown(p) == p.cur # Null /\ (Me \in Admins \/ p.role[p.cur] = "owner")

\* load(): a load under way bars another; what was shown is hidden until it ends.
Loading(l, w) == IF l.stage = "idle" THEN [NoLoad EXCEPT !.stage = "sent", !.asked = w] ELSE l

\* The page renders as n after p: panels come, go or turn to another workspace;
\* the settings have a key and start afresh, the members go on with what they have.
Rendered(p, n) ==
    IF ~Shown(n) THEN [n EXCEPT !.load = [k \in Loads |-> NoLoad], !.acting = Null, !.saving = Null]
    ELSE IF ~Shown(p) THEN [n EXCEPT !.load = [k \in Loads |-> Loading(NoLoad, n.cur)],
                                     !.acting = Null, !.saving = Null]
    ELSE IF n.cur # p.cur THEN [n EXCEPT !.load = [k \in Loads |-> Loading(p.load[k], n.cur)],
                                         !.saving = Null]
    ELSE n

\* The page turns from p to n while a load is under way: the new one is not made.
Dropped(p, n) ==
    IF Shown(p) /\ Shown(n) /\ n.cur # p.cur
       /\ \E k \in Loads : p.load[k].stage # "idle" /\ p.load[k].asked # n.cur
    THEN {"dropped"} ELSE {}

Listed(p) == {w \in Workspaces : p.list[w].made}

\* resolveCurrent
Current(list, want) ==
    LET there == {w \in Workspaces : list[w].made} IN
    IF want \in there THEN want ELSE IF there = {} THEN Null ELSE Least(there)

\* seedRoles: the roles of a list are merged into those that are known.
Seeded(p) == [p EXCEPT !.role = [w \in Workspaces |-> IF p.list[w].role # "none" THEN p.list[w].role ELSE @[w]]]

Slots == {r \in Reqs : req[r].op = "none"}

Start(q) ==
    /\ starts < MaxStarts /\ starts' = starts + 1
    /\ Slots # {} /\ Put(Least(Slots), [q EXCEPT !.stage = "sent"])
    /\ UNCHANGED <<server, faults>>

\* selectWorkspace, from the switcher.
Switch(w) ==
    LET n == [page EXCEPT !.cur = w, !.want = w] IN
    /\ w \in Listed(page) /\ w # page.cur
    /\ starts < MaxStarts /\ starts' = starts + 1
    /\ page' = Rendered(page, n)
    /\ Note(Dropped(page, n))
    /\ UNCHANGED <<server, req, faults>>

Ready(k) == page.load[k].stage = "idle" /\ page.load[k].ok

\* The row of u is offered unless u is the only owner of the roster that is shown.
Offered(u) ==
    LET rows == page.load["members"].rows IN
    /\ Ready("members") /\ rows[u] # "none"
    /\ rows[u] = "owner" => \E v \in Users \ {u} : rows[v] = "owner"

\* handleAdd, handleChangeRole, handleRemove.  The user to add was chosen from the
\* list that is shown or from an earlier one.
Act(op, u, new) ==
    /\ Shown(page) /\ page.acting = Null
    /\ CASE op = "add"    -> /\ Ready("assignable") /\ new = "member" /\ u \notin Admins
                             /\ \E v \in Users \ Admins : page.load["assignable"].rows[v] = "none"
         [] op = "change" -> Offered(u) /\ new \in {"member", "owner"} \ {page.load["members"].rows[u]}
         [] op = "remove" -> Offered(u) /\ new = "none"
    /\ Start([NoReq EXCEPT !.op = op, !.by = Me, !.ws = page.cur, !.user = u, !.role = new])
    /\ page' = [page EXCEPT !.acting = Least(Slots)]
    /\ UNCHANGED disturbed

\* CreateWorkspaceDialog
Create ==
    /\ page.creating = Null
    /\ Start([NoReq EXCEPT !.op = "create", !.by = Me])
    /\ page' = [page EXCEPT !.creating = Least(Slots)]
    /\ UNCHANGED disturbed

\* WorkspaceSettingsPanel: the gate is turned to what it is not, or the workspace deleted.
Settle(op) ==
    /\ Shown(page) /\ page.saving = Null /\ op \in {"update", "delete"}
    /\ Start([NoReq EXCEPT !.op = op, !.by = Me, !.ws = page.cur, !.open = ~page.list[page.cur].open])
    /\ page' = [page EXCEPT !.saving = Least(Slots)]
    /\ UNCHANGED disturbed

\* Mutant: only the roster is loaded again.
ReloadsRoster(op) == {"members"}

\* What is loaded again after an action.
Reloads(op) == IF op = "change" THEN {"members"} ELSE Loads

\* Mutant: any role is taken for one's own.
EchoedAny(q) == IF q.ok /\ q.op \in {"add", "change"} THEN [page EXCEPT !.role[q.ws] = q.got] ELSE page

\* echoSelfRole
Echoed(q) ==
    IF q.ok /\ q.op \in {"add", "change"} /\ q.user = Me THEN [page EXCEPT !.role[q.ws] = q.got] ELSE page

\* The answer to an add, change or remove: the loads are made for the workspace of the
\* action if its panel is still there, unless one is under way.
Acted(r) ==
    LET q == req[r]
        again == IF page.acting = r THEN Reloads(q.op) ELSE {}
        loads == [k \in Loads |-> IF k \in again THEN Loading(page.load[k], q.ws) ELSE page.load[k]]
        echoed == [Echoed(q) EXCEPT !.load = loads, !.acting = IF @ = r THEN Null ELSE @] IN
    /\ q.stage = "answered" /\ Mine(r) /\ q.op \in {"add", "change", "remove"}
    /\ page' = Rendered(page, echoed)
    /\ Put(r, NoReq)
    /\ Note((IF q.ws # page.cur /\ \E k \in again : page.load[k].stage = "idle" THEN {"strayed"} ELSE {})
            \cup (IF \E k \in again : page.load[k].stage = "read" /\ page.load[k].got # View(k, page.load[k].asked)
                  THEN {"behind"} ELSE {}))
    /\ UNCHANGED <<server, starts, faults>>

\* The answer to a create, update or delete: the list is loaded again, if it went well.
Answered(r) ==
    LET q == req[r]
        n == [page EXCEPT !.run = IF q.ok THEN r ELSE @,
                          !.role = IF q.ok /\ q.op = "create" THEN [@ EXCEPT ![q.ws] = "owner"] ELSE @] IN
    /\ q.stage = "answered" /\ Mine(r) /\ q.op \in {"create", "update", "delete"}
    /\ page' = Rendered(page, IF q.ok THEN n ELSE [n EXCEPT !.saving = IF @ = r THEN Null ELSE @,
                                                            !.creating = IF @ = r THEN Null ELSE @])
    /\ Put(r, IF q.ok THEN [q EXCEPT !.stage = "refresh"] ELSE NoReq)
    /\ UNCHANGED <<server, starts, faults, disturbed>>

\* list_workspaces, for Me.
MyList == [w \in Workspaces |-> IF w \in made THEN [made |-> TRUE, open |-> open[w], role |-> role[w][Me]]
                                  ELSE NoList[w]]

ListReads(r, ok) ==
    /\ req[r].stage = "refresh" /\ Lost(IF ok THEN 0 ELSE 1)
    /\ Put(r, [req[r] EXCEPT !.stage = IF ok THEN "listed" ELSE "unlisted", !.list = IF ok THEN MyList ELSE @])
    /\ Note(IF ok THEN {} ELSE {"unlisted"})
    /\ UNCHANGED <<server, page, starts>>

\* Mutant: a list counts whenever it comes.
CountsLate(r) == TRUE

Counts(r) == page.run = r

\* refresh(): a list that counts is shown; an error empties the list.  create() selects
\* the new workspace, if it is listed.  Rendered, the list gives its roles (an effect).
ListLands(r) ==
    LET q == req[r]
        now == Current(q.list, page.want)
        shown == IF ~Counts(r) THEN page
                 ELSE [page EXCEPT !.list = q.list, !.cur = now, !.run = IF @ = r THEN Null ELSE @,
                                   !.want = IF q.stage = "listed" THEN now ELSE @]
        chosen == IF q.op = "create" /\ q.ws \in Listed(shown) THEN [shown EXCEPT !.cur = q.ws, !.want = q.ws] ELSE shown
        one == Rendered(page, chosen)
        two == Rendered(one, IF Counts(r) THEN Seeded(one) ELSE one) IN
    /\ q.stage \in {"listed", "unlisted"}
    /\ page' = [two EXCEPT !.saving = IF @ = r THEN Null ELSE @, !.creating = IF @ = r THEN Null ELSE @]
    /\ Put(r, NoReq)
    /\ Note(Dropped(page, one))
    /\ UNCHANGED <<server, starts, faults>>

\* A load reads the members of its workspace, or is refused or lost.
LoadReads(k) ==
    LET l == page.load[k] IN
    /\ l.stage = "sent"
    /\ \E ok \in BOOLEAN :
       /\ ok => Admitted(Me, k, l.asked)
       /\ Lost(IF ok \/ ~Admitted(Me, k, l.asked) THEN 0 ELSE 1)
       /\ page' = [page EXCEPT !.load[k] = [l EXCEPT !.stage = IF ok THEN "read" ELSE "failed",
                                                     !.got = IF ok THEN View(k, l.asked) ELSE @]]
    /\ UNCHANGED <<server, req, starts, disturbed>>

\* Its answer is shown, whatever workspace the page shows by now.
LoadLands(k) ==
    LET l == page.load[k] IN
    /\ l.stage \in {"read", "failed"}
    /\ page' = [page EXCEPT !.load[k] = IF l.stage = "failed" THEN NoLoad ELSE [NoLoad EXCEPT !.ok = TRUE, !.of = l.asked, !.rows = l.got]]
    /\ UNCHANGED <<server, req, starts, faults, disturbed>>

\* A request of another user passes the gate and the guards; nobody sees its answer.
OtherReads(op, w, u, new) ==
    LET q == [NoReq EXCEPT !.op = op, !.ws = w, !.user = u, !.role = new, !.stage = "read",
                           !.loaded = IF u = Null THEN "none" ELSE role[w][u]] IN
    /\ CASE op = "add" -> new = "member" [] op = "change" -> new # "none" [] OTHER -> new = "none"
    /\ op = "delete" <=> u = Null
    /\ \E v \in (Users \cup Admins) \ {Me} : Admitted(v, op, w)
    /\ ~Refused(q)
    /\ starts < MaxStarts /\ starts' = starts + 1
    /\ Slots # {} /\ Put(Least(Slots), q)
    /\ UNCHANGED <<server, page, faults, disturbed>>

---------------------------------------------------------------------------
\* Me owns one workspace or more, the others are members of the first; the page shows
\* the first.
Init ==
    /\ \E last \in Workspaces : made = {w \in Workspaces : w <= last}
    /\ used = made /\ open = [w \in Workspaces |-> FALSE]
    /\ role = [w \in Workspaces |-> [u \in Users |->
                 CASE u = Me /\ w \in made            -> "owner"
                   [] u # Me /\ w = Least(Workspaces) -> "member"
                   [] OTHER                           -> "none"]]
    /\ req = [r \in Reqs |-> NoReq]
    /\ page = [list |-> MyList, cur |-> Least(made), want |-> Least(made), run |-> Null,
               role |-> [w \in Workspaces |-> role[w][Me]],
               load |-> [k \in Loads |-> [NoLoad EXCEPT !.ok = TRUE, !.of = Least(made),
                                                        !.rows = View(k, Least(made))]],
               acting |-> Null, saving |-> Null, creating |-> Null]
    /\ starts = 0 /\ faults = 0 /\ disturbed = {}

Handle(r) == Read(r) \/ Fail(r) \/ \E ok \in BOOLEAN : Commit(r, ok) \/ ListReads(r, ok)
Deliver(r) == Acted(r) \/ Answered(r) \/ ListLands(r)
LoadStep(k) == LoadReads(k) \/ LoadLands(k)

User ==
    \/ \E w \in Workspaces : Switch(w)
    \/ \E op \in {"add", "change", "remove"}, u \in Users, new \in Roles : Act(op, u, new)
    \/ Create
    \/ \E op \in {"update", "delete"} : Settle(op)
    \/ \E op \in {"add", "change", "remove", "own", "delete"}, w \in made, u \in Users \cup {Null}, new \in Roles :
          OtherReads(op, w, u, new)

Next == (\E r \in Reqs : Handle(r) \/ Deliver(r)) \/ (\E k \in Loads : LoadStep(k)) \/ User

Spec == Init /\ [][Next]_vars

---------------------------------------------------------------------------
(***************************************************************************)
(* Properties.                                                             *)
(***************************************************************************)
TypeOK ==
    /\ made \subseteq Workspaces /\ used \subseteq Workspaces
    /\ open \in [Workspaces -> BOOLEAN] /\ role \in [Workspaces -> Rows]
    /\ req \in [Reqs -> Request]
    /\ page \in [list: Listing, cur: Workspaces \cup {Null}, want: Workspaces \cup {Null},
                 run: Reqs \cup {Null}, role: [Workspaces -> Roles], load: [Loads -> Load],
                 acting: Reqs \cup {Null}, saving: Reqs \cup {Null}, creating: Reqs \cup {Null}]
    /\ starts \in Nat /\ faults \in Nat /\ disturbed \subseteq Causes

Spared(causes) == disturbed \cap causes = {}
Quiet == \A r \in Reqs : ~Mine(r)

\* A workspace has an owner, unless owners were demoted or removed at the same time, a
\* member was made an owner while being removed, or the creation stopped half-way.
OwnerRemains ==
    Spared({"overlapped", "promoted", "abandoned"}) =>
        \A w \in made : \/ \E u \in Users : role[w][u] = "owner"
                        \/ \E r \in Reqs : req[r].stage = "half" /\ req[r].ws = w

\* At rest a panel shows the members and the assignable users of its workspace as they
\* are, unless the workspace was switched under a load or an action, a load barred the
\* one that an action called for, or the members were changed elsewhere.
RosterShown ==
    Quiet /\ Shown(page) /\ Spared({"dropped", "strayed", "behind", "elsewhere"}) =>
        \A k \in Loads : Ready(k) => page.load[k].of = page.cur /\ page.load[k].rows = View(k, page.cur)

\* At rest the page knows the role of Me in what it lists, unless the role changed
\* without an answer to the page or with another answer on its way.
RoleShown ==
    Quiet /\ Spared({"unseen", "crossed"}) => \A w \in Listed(page) : page.role[w] = role[w][Me]

\* At rest the page lists the workspaces there are with their settings, and is at one
\* of them, unless one was changed and the list not loaded again.
ListShown ==
    Quiet /\ Spared({"unlisted"}) =>
        /\ Listed(page) = made
        /\ \A w \in made : page.list[w].open = open[w]
        /\ page.cur \in made \cup {Null} /\ (page.cur = Null => made = {})
=============================================================================
