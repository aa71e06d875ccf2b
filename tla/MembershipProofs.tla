-------------------------- MODULE MembershipProofs --------------------------
(***************************************************************************)
(* What holds of workspaces and members for every number of users,         *)
(* workspaces and requests.                                                *)
(***************************************************************************)
EXTENDS Membership, IdsProofs

Page == [list: Listing, cur: Workspaces \cup {Null}, want: Workspaces \cup {Null},
         run: Reqs \cup {Null}, role: [Workspaces -> Roles], load: [Loads -> Load],
         acting: Reqs \cup {Null}, saving: Reqs \cup {Null}, creating: Reqs \cup {Null}]

\* A load that is to be made has a workspace to read.
Asking(p) == \A k \in Loads : p.load[k].stage = "sent" => p.load[k].asked \in Workspaces

Pages == {p \in Page : Asking(p)}

\* A request for a member names him and his workspace; one that creates is Me's.
Named(q) ==
    /\ q.user # Null => q.ws \in Workspaces /\ q.op \in {"add", "change", "remove", "own"}
    /\ q.op \in {"add", "change", "remove", "own"} => q.user # Null
    /\ q.op \in {"update", "delete"} => q.ws \in Workspaces
    /\ q.stage = "half" => q.op = "create"
    /\ q.op = "create" => q.by = Me /\ q.user = Null

\* A change gives a role; a change or removal has found the row it is about.
Aimed(q) ==
    /\ q.op = "change" => q.role # "none"
    /\ q.stage = "read" /\ q.op \in {"change", "remove"} => q.loaded # "none"

Requests == {q \in Request : Named(q) /\ Aimed(q)}

Typed ==
    /\ TypeOK
    /\ Asking(page)
    /\ \A r \in Reqs : Named(req[r]) /\ Aimed(req[r])

---------------------------------------------------------------------------
(***************************************************************************)
(* Operators.                                                              *)
(***************************************************************************)
LEMMA NoListType == NoList \in Listing
BY DEF NoList, Listing, Roles

LEMMA NoReqType == NoReq \in Requests
BY NoListType DEF NoReq, Requests, Request, Named, Aimed, Ops, Stages, Roles

LEMMA NoLoadType == NoLoad \in Load /\ NoLoad.stage = "idle"
BY DEF NoLoad, NoRows, Load, Rows, Roles

LEMMA TypedParts ==
    Typed => page \in Pages /\ req \in [Reqs -> Requests] /\ role \in [Workspaces -> Rows]
BY DEF Typed, TypeOK, Pages, Page, Requests

LEMMA PutType ==
    ASSUME Typed, NEW r \in Reqs, NEW q \in Requests, Put(r, q)
    PROVE  req' \in [Reqs -> Requests]
BY TypedParts DEF Put

LEMMA LostType ==
    ASSUME faults \in Nat, NEW n \in Nat, Lost(n)
    PROVE  faults' \in Nat
BY DEF Lost

\* Back from the parts to the whole.
LEMMA TypedFrom ==
    ASSUME page' \in Pages, req' \in [Reqs -> Requests], role' \in [Workspaces -> Rows],
           made' \subseteq Workspaces, used' \subseteq Workspaces, open' \in [Workspaces -> BOOLEAN],
           starts' \in Nat, faults' \in Nat, disturbed' \subseteq Causes
    PROVE  Typed'
BY DEF Typed, TypeOK, Pages, Page, Requests

LEMMA ViewType ==
    ASSUME Typed, NEW k, NEW w \in Workspaces
    PROVE  View(k, w) \in Rows
BY TypedParts DEF View, Rows, Roles

LEMMA LoadingType ==
    ASSUME NEW l \in Load, NEW w \in Workspaces, l.stage = "sent" => l.asked \in Workspaces
    PROVE  /\ Loading(l, w) \in Load
           /\ Loading(l, w).stage = "sent" => Loading(l, w).asked \in Workspaces
<1>1. [NoLoad EXCEPT !.stage = "sent", !.asked = w] \in Load
  BY NoLoadType DEF Load
<1>2. [NoLoad EXCEPT !.stage = "sent", !.asked = w].asked = w
  BY NoLoadType DEF Load
<1> QED  BY <1>1, <1>2 DEF Loading

\* New loads for a page.
LEMMA LoadsType ==
    ASSUME NEW p \in Pages, NEW f \in [Loads -> Load],
           \A k \in Loads : f[k].stage = "sent" => f[k].asked \in Workspaces
    PROVE  [p EXCEPT !.load = f] \in Pages
BY DEF Pages, Page, Asking

\* Anything else on a page.
LEMMA FieldsType ==
    ASSUME NEW p \in Pages, NEW a \in Reqs \cup {Null}, NEW s \in Reqs \cup {Null}
    PROVE  /\ [p EXCEPT !.acting = a] \in Pages
           /\ [p EXCEPT !.saving = s] \in Pages
           /\ [p EXCEPT !.creating = s] \in Pages
           /\ [p EXCEPT !.run = s] \in Pages
<1>1. p \in Page
  BY DEF Pages
<1>2. [p EXCEPT !.acting = a] \in Page /\ [p EXCEPT !.acting = a].load = p.load
  BY <1>1 DEF Page
<1>3. [p EXCEPT !.saving = s] \in Page /\ [p EXCEPT !.saving = s].load = p.load
  BY <1>1 DEF Page
<1>4. [p EXCEPT !.creating = s] \in Page /\ [p EXCEPT !.creating = s].load = p.load
  BY <1>1 DEF Page
<1>5. [p EXCEPT !.run = s] \in Page /\ [p EXCEPT !.run = s].load = p.load
  BY <1>1 DEF Page
<1> QED  BY <1>2, <1>3, <1>4, <1>5 DEF Pages, Asking

LEMMA RenderedType ==
    ASSUME NEW p \in Pages, NEW n \in Pages
    PROVE  Rendered(p, n) \in Pages
<1> DEFINE none == [k \in Loads |-> NoLoad]
           all == [k \in Loads |-> Loading(NoLoad, n.cur)]
           more == [k \in Loads |-> Loading(p.load[k], n.cur)]
<1>1. p.load \in [Loads -> Load] /\ n \in Page /\ Asking(p)
  BY DEF Pages, Page
<1>2. [n EXCEPT !.load = none, !.acting = Null, !.saving = Null] \in Pages
  <2>1. none \in [Loads -> Load]
    BY NoLoadType
  <2>2. [n EXCEPT !.load = none, !.acting = Null, !.saving = Null] \in Page
    BY <1>1, <2>1 DEF Page
  <2> QED  BY <1>1, <2>2, NoLoadType DEF Pages, Page, Asking
<1>3. ASSUME Shown(n) PROVE n.cur \in Workspaces
  BY <1>1, <1>3 DEF Shown, Page
<1>4. ASSUME Shown(n) PROVE [n EXCEPT !.load = all, !.acting = Null, !.saving = Null] \in Pages
  <2>1. \A k \in Loads : all[k] \in Load /\ (all[k].stage = "sent" => all[k].asked \in Workspaces)
    BY <1>3, <1>4, NoLoadType, LoadingType
  <2>2. [n EXCEPT !.load = all, !.acting = Null, !.saving = Null] \in Page
    BY <1>1, <2>1 DEF Page
  <2>3. [n EXCEPT !.load = all, !.acting = Null, !.saving = Null].load = all
    BY <1>1 DEF Page
  <2> HIDE DEF all
  <2> QED  BY <2>1, <2>2, <2>3 DEF Pages, Asking
<1>5. ASSUME Shown(n) PROVE [n EXCEPT !.load = more, !.saving = Null] \in Pages
  <2>1. \A k \in Loads : more[k] \in Load /\ (more[k].stage = "sent" => more[k].asked \in Workspaces)
    BY <1>1, <1>3, <1>5, LoadingType DEF Asking
  <2>2. [n EXCEPT !.load = more, !.saving = Null] \in Page
    BY <1>1, <2>1 DEF Page
  <2>3. [n EXCEPT !.load = more, !.saving = Null].load = more
    BY <1>1 DEF Page
  <2> HIDE DEF more
  <2> QED  BY <2>1, <2>2, <2>3 DEF Pages, Asking
<1> QED  BY <1>2, <1>4, <1>5 DEF Rendered

LEMMA SeededType == ASSUME NEW p \in Pages PROVE Seeded(p) \in Pages
<1> DEFINE seeded == [w \in Workspaces |-> IF p.list[w].role # "none" THEN p.list[w].role ELSE p.role[w]]
<1>1. p \in Page /\ Asking(p)
  BY DEF Pages
<1>2. seeded \in [Workspaces -> Roles]
  BY <1>1 DEF Page, Listing
<1>3. Seeded(p) = [p EXCEPT !.role = seeded]
  BY DEF Seeded
<1>4. [p EXCEPT !.role = seeded] \in Page /\ [p EXCEPT !.role = seeded].load = p.load
  BY <1>1, <1>2 DEF Page
<1> QED  BY <1>1, <1>3, <1>4 DEF Pages, Asking

LEMMA CurrentType == \A list, want : Current(list, want) \in Workspaces \cup {Null}
<1> TAKE list, want
<1> DEFINE there == {w \in Workspaces : list[w].made}
<1>1. there # {} => Least(there) \in there
  BY LeastIn, NumbersAssumption
<1> QED  BY <1>1 DEF Current

LEMMA SlotType == Slots # {} => Least(Slots) \in Slots
BY LeastIn, NumbersAssumption DEF Slots

LEMMA StartType ==
    ASSUME Typed, NEW q \in Requests, q.op # "create" \/ q.stage = "none", Start(q)
    PROVE  /\ Least(Slots) \in Reqs /\ req' \in [Reqs -> Requests] /\ starts' \in Nat
           /\ UNCHANGED <<server, faults>>
<1>1. Least(Slots) \in Reqs
  BY SlotType DEF Start, Slots
<1>2. [q EXCEPT !.stage = "sent"] \in Requests
  <2>1. q \in Request /\ Named(q) /\ Aimed(q)
    BY DEF Requests
  <2>2. [q EXCEPT !.stage = "sent"] \in Request
    BY <2>1 DEF Request, Stages
  <2> QED  BY <2>1, <2>2 DEF Requests, Named, Aimed, Request
<1>3. req' \in [Reqs -> Requests]
  BY <1>1, <1>2, PutType DEF Start
<1> QED  BY <1>1, <1>3 DEF Start, Typed, TypeOK

\* The disturbances that are noted are causes.
LEMMA NoteType ==
    ASSUME Typed, NEW causes, causes \subseteq Causes, Note(causes)
    PROVE  disturbed' \subseteq Causes
BY DEF Typed, TypeOK, Note

---------------------------------------------------------------------------
(***************************************************************************)
(* Types: the server.                                                      *)
(***************************************************************************)
LEMMA ReadType == ASSUME Typed, NEW r \in Reqs, Read(r) PROVE Typed'
<1> DEFINE q == req[r]
           loaded == IF q.user = Null THEN "none" ELSE role[q.ws][q.user]
           was == q.ws # Null /\ open[q.ws]
           passed == [q EXCEPT !.stage = "read", !.loaded = loaded, !.was = was]
           refused == [q EXCEPT !.stage = "answered"]
<1>1. q \in Request /\ Named(q) /\ Aimed(q) /\ q.stage = "sent"
  BY TypedParts DEF Requests, Read
<1>2. q.user # Null => q.user \in Users /\ q.ws \in Workspaces /\ role[q.ws][q.user] \in Roles
  BY <1>1, TypedParts DEF Request, Named, Rows
<1>3. loaded \in Roles \cup {"gone"}
  BY <1>2 DEF Roles
<1>4. was \in BOOLEAN
  OBVIOUS
<1>5. passed \in Request
  BY <1>1, <1>3, <1>4 DEF Request, Stages
<1>6. ASSUME ~Refused(q) PROVE passed \in Requests
  <2>1. q.op \in {"change", "remove"} => loaded # "none"
    BY <1>1, <1>6 DEF Refused, Named
  <2>2. /\ passed.op = q.op /\ passed.user = q.user /\ passed.ws = q.ws /\ passed.role = q.role
        /\ passed.by = q.by /\ passed.stage = "read" /\ passed.loaded = loaded
    BY <1>1 DEF Request
  <2> HIDE DEF passed, loaded
  <2> QED  BY <1>1, <1>5, <2>1, <2>2 DEF Requests, Named, Aimed
<1>7. refused \in Requests
  <2>1. refused \in Request
    BY <1>1 DEF Request, Stages
  <2> QED  BY <1>1, <2>1 DEF Requests, Named, Aimed, Request
<1>8. \/ Put(r, refused)
      \/ ~Refused(q) /\ Put(r, passed)
  BY DEF Read
<1>9. req' \in [Reqs -> Requests]
  BY <1>6, <1>7, <1>8, PutType
<1> QED  BY <1>9, TypedFrom, TypedParts DEF Read, server, Typed, TypeOK

LEMMA FailType == ASSUME Typed, NEW r \in Reqs, Fail(r) PROVE Typed'
<1> DEFINE q == req[r]
<1>1. q \in Request /\ Named(q) /\ Aimed(q)
  BY TypedParts DEF Requests
<1>2. [q EXCEPT !.stage = "answered"] \in Requests
  <2>1. [q EXCEPT !.stage = "answered"] \in Request
    BY <1>1 DEF Request, Stages
  <2> QED  BY <1>1, <2>1 DEF Requests, Named, Aimed, Request
<1>3. req' \in [Reqs -> Requests]
  BY <1>2, NoReqType, PutType DEF Fail
<1>4. faults' \in Nat
  BY LostType DEF Fail, Typed, TypeOK
<1>5. disturbed' \subseteq Causes
  BY NoteType DEF Fail, Causes
<1> QED  BY <1>3, <1>4, <1>5, TypedFrom, TypedParts DEF Fail, server, Typed, TypeOK

\* What a commit makes of the roles are roles.
LEMMA RolesAfterType == ASSUME Typed, NEW r \in Reqs PROVE RolesAfter(req[r]) \in [Workspaces -> Rows]
<1> DEFINE q == req[r]
<1>1. q \in Request
  BY TypedParts DEF Requests
<1>2. Given(q) \in Roles
  BY <1>1 DEF Given, Request, Roles
<1>3. role \in [Workspaces -> [Users -> Roles]]
  BY TypedParts DEF Rows
<1>4. NoRows \in [Users -> Roles] /\ "owner" \in Roles
  BY DEF NoRows, Roles
<1>5. [role EXCEPT ![q.ws] = NoRows] \in [Workspaces -> [Users -> Roles]]
  BY <1>3, <1>4
<1>6. [role EXCEPT ![q.ws][q.by] = "owner"] \in [Workspaces -> [Users -> Roles]]
  BY <1>3, <1>4
<1>7. [role EXCEPT ![q.ws][q.user] = Given(q)] \in [Workspaces -> [Users -> Roles]]
  BY <1>2, <1>3
<1> QED  BY <1>3, <1>5, <1>6, <1>7 DEF RolesAfter, Rows

\* The requests after the commit of request r.
LEMMA CommitReqs ==
    ASSUME Typed, NEW r \in Reqs, NEW answered \in BOOLEAN, Commit(r, answered)
    PROVE  req' \in [Reqs -> Requests]
<1> DEFINE first == req[r].op = "create" /\ req[r].stage = "read"
           w == IF first THEN Least(Workspaces \ used) ELSE req[r].ws
<1>1. \A x \in Reqs : req[x] \in Request /\ Named(req[x]) /\ Aimed(req[x])
  BY TypedParts DEF Requests
<1>2. first => w \in Workspaces
  BY LeastIn, NumbersAssumption DEF Commit
<1>3. role' \in [Workspaces -> Rows]
  BY RolesAfterType DEF Commit
<1>4. ASSUME NEW x \in Reqs PROVE req'[x] \in Requests
  <2> DEFINE q == req[x]
  <2>0. q \in Request /\ Named(q) /\ Aimed(q) /\ q \in Requests
    BY <1>1 DEF Requests
  <2>1. CASE x = r /\ first
    <3> DEFINE half == [q EXCEPT !.stage = "half", !.ws = w]
    <3>1. req'[x] = half
      BY <2>1 DEF Commit
    <3>2. half \in Request
      BY <1>2, <2>0, <2>1 DEF Request, Stages
    <3>3. half.op = "create" /\ half.by = q.by /\ half.user = q.user /\ half.stage = "half"
      BY <2>0, <2>1 DEF Request
    <3> HIDE DEF half
    <3> QED  BY <2>0, <2>1, <3>1, <3>2, <3>3 DEF Requests, Named, Aimed
  <2>2. CASE x = r /\ ~first /\ ~Mine(r)
    BY <2>2, NoReqType DEF Commit
  <2>3. CASE x = r /\ ~first /\ Mine(r)
    <3> DEFINE got == IF q.user = Null THEN "none" ELSE role'[w][q.user]
               done == [q EXCEPT !.stage = "answered", !.ok = answered, !.got = got]
    <3>1. req'[x] = done
      BY <2>3 DEF Commit
    <3>2. got \in Roles
      BY <1>3, <2>0, <2>3 DEF Request, Named, Rows, Roles
    <3>3. done \in Request
      BY <2>0, <3>2 DEF Request, Stages
    <3>4. /\ done.op = q.op /\ done.by = q.by /\ done.user = q.user /\ done.ws = q.ws
          /\ done.role = q.role /\ done.stage = "answered"
      BY <2>0 DEF Request
    <3> HIDE DEF done
    <3> QED  BY <2>0, <3>1, <3>3, <3>4 DEF Requests, Named, Aimed
  <2>4. CASE x # r
    <3> DEFINE gone == [q EXCEPT !.loaded = "gone"]
    <3>1. req'[x] \in {gone, q}
      BY <2>4 DEF Commit
    <3>2. gone \in Request
      BY <2>0 DEF Request
    <3>3. /\ gone.op = q.op /\ gone.by = q.by /\ gone.user = q.user /\ gone.ws = q.ws
          /\ gone.role = q.role /\ gone.stage = q.stage /\ gone.loaded = "gone"
      BY <2>0 DEF Request
    <3>4. gone \in Requests
      <4> HIDE DEF gone
      <4> QED  BY <2>0, <3>2, <3>3 DEF Requests, Named, Aimed
    <3> QED  BY <2>0, <3>1, <3>4
  <2> QED  BY <2>1, <2>2, <2>3, <2>4
<1>5. req' = [x \in Reqs |-> req'[x]]
  BY DEF Commit
<1> QED  BY <1>4, <1>5

LEMMA CommitType ==
    ASSUME Typed, NEW r \in Reqs, NEW answered \in BOOLEAN, Commit(r, answered) PROVE Typed'
<1> DEFINE first == req[r].op = "create" /\ req[r].stage = "read"
           w == IF first THEN Least(Workspaces \ used) ELSE req[r].ws
<1>1. first => w \in Workspaces
  BY LeastIn, NumbersAssumption DEF Commit
<1>2. made' \subseteq Workspaces /\ used' \subseteq Workspaces
  BY <1>1 DEF Commit, Typed, TypeOK
<1>3. open' \in [Workspaces -> BOOLEAN]
  <2>1. req[r].open \in BOOLEAN
    BY TypedParts DEF Requests, Request
  <2> QED  BY <2>1 DEF Commit, Typed, TypeOK
<1>4. role' \in [Workspaces -> Rows]
  BY RolesAfterType DEF Commit
<1>5. faults' \in Nat
  BY LostType DEF Commit, Typed, TypeOK
<1>6. disturbed' \subseteq Causes
  <2>1. (IF first THEN {} ELSE Disturbances(r, answered)) \subseteq Causes
    BY DEF Disturbances, Causes
  <2>2. Note(IF first THEN {} ELSE Disturbances(r, answered))
    BY DEF Commit
  <2> QED  BY <2>1, <2>2, NoteType
<1> QED  BY <1>2, <1>3, <1>4, <1>5, <1>6, CommitReqs, TypedFrom, TypedParts DEF Commit, Typed, TypeOK

LEMMA MyListType == Typed => MyList \in Listing
<1> SUFFICES ASSUME Typed, NEW w \in Workspaces
             PROVE  (IF w \in made THEN [made |-> TRUE, open |-> open[w], role |-> role[w][Me]] ELSE NoList[w])
                       \in [made: BOOLEAN, open: BOOLEAN, role: Roles]
  BY DEF MyList, Listing
<1>1. open[w] \in BOOLEAN /\ role[w][Me] \in Roles
  BY UsersAssumption, TypedParts DEF Typed, TypeOK, Rows
<1> QED  BY <1>1, NoListType DEF Listing

LEMMA ListReadsType ==
    ASSUME Typed, NEW r \in Reqs, NEW ok \in BOOLEAN, ListReads(r, ok) PROVE Typed'
<1> DEFINE q == req[r]
           stage == IF ok THEN "listed" ELSE "unlisted"
           list == IF ok THEN MyList ELSE q.list
           done == [q EXCEPT !.stage = stage, !.list = list]
<1>1. q \in Request /\ Named(q) /\ Aimed(q)
  BY TypedParts DEF Requests
<1>2. list \in Listing
  BY <1>1, MyListType DEF Request
<1>3. stage \in Stages \ {"half", "read"}
  BY DEF Stages
<1>4. done \in Requests
  <2> HIDE DEF stage, list
  <2>1. done \in Request
    BY <1>1, <1>2, <1>3 DEF Request
  <2> QED  BY <1>1, <1>3, <2>1 DEF Requests, Named, Aimed, Request
<1>5. req' \in [Reqs -> Requests]
  BY <1>4, PutType DEF ListReads
<1>6. faults' \in Nat
  BY LostType DEF ListReads, Typed, TypeOK
<1>7. disturbed' \subseteq Causes
  BY NoteType DEF ListReads, Causes
<1> QED  BY <1>5, <1>6, <1>7, TypedFrom, TypedParts DEF ListReads, server, Typed, TypeOK

LEMMA OtherReadsType ==
    ASSUME Typed, NEW op \in {"add", "change", "remove", "own", "delete"}, NEW w \in made,
           NEW u \in Users \cup {Null}, NEW new \in Roles, OtherReads(op, w, u, new)
    PROVE  Typed'
<1> DEFINE loaded == IF u = Null THEN "none" ELSE role[w][u]
           q == [NoReq EXCEPT !.op = op, !.ws = w, !.user = u, !.role = new, !.stage = "read", !.loaded = loaded]
<1>1. w \in Workspaces
  BY DEF Typed, TypeOK
<1>2. loaded \in Roles
  BY <1>1, TypedParts DEF Rows, Roles
<1>3. q \in Request
  <2>1. NoReq \in Request
    BY NoReqType DEF Requests
  <2>2. op \in Ops /\ "read" \in Stages
    BY DEF Ops, Stages
  <2> HIDE DEF loaded
  <2> QED  BY <1>1, <1>2, <2>1, <2>2 DEF Request
<1>4. /\ q.op = op /\ q.ws = w /\ q.user = u /\ q.role = new /\ q.stage = "read" /\ q.loaded = loaded
  BY NoReqType DEF Requests, Request
<1>5. op = "change" => new # "none"
  BY DEF OtherReads
<1>6. op = "delete" <=> u = Null
  BY DEF OtherReads
<1>7. op \in {"change", "remove"} => loaded # "none"
  <2>1. ~Refused(q)
    BY DEF OtherReads
  <2>2. op \in {"change", "remove"} => loaded = role[w][u]
    BY <1>6
  <2> HIDE DEF q, loaded
  <2> QED  BY <1>4, <2>1, <2>2 DEF Refused
<1>8. q \in Requests
  <2> HIDE DEF q, loaded
  <2> QED  BY <1>1, <1>3, <1>4, <1>5, <1>6, <1>7 DEF Requests, Named, Aimed
<1>9. Put(Least(Slots), q) /\ Least(Slots) \in Reqs
  BY SlotType DEF OtherReads, Slots
<1>10. req' \in [Reqs -> Requests]
  BY <1>8, <1>9, PutType
<1>11. starts' \in Nat
  BY DEF OtherReads, Typed, TypeOK
<1> QED  BY <1>10, <1>11, TypedFrom, TypedParts DEF OtherReads, server, Typed, TypeOK

---------------------------------------------------------------------------
(***************************************************************************)
(* Types: the page.                                                        *)
(***************************************************************************)
LEMMA DroppedType == \A p, n : Dropped(p, n) \subseteq Causes
BY DEF Dropped, Causes

LEMMA SwitchType == ASSUME Typed, NEW w \in Workspaces, Switch(w) PROVE Typed'
<1> DEFINE n == [page EXCEPT !.cur = w, !.want = w]
<1>1. page \in Page /\ Asking(page) /\ page \in Pages
  BY TypedParts DEF Pages
<1>2. n \in Page /\ n.load = page.load
  BY <1>1 DEF Page
<1>3. n \in Pages
  BY <1>1, <1>2 DEF Pages, Asking
<1>4. page' \in Pages
  BY <1>1, <1>3, RenderedType DEF Switch
<1>5. disturbed' \subseteq Causes
  BY DroppedType, NoteType DEF Switch
<1> QED  BY <1>4, <1>5, TypedFrom, TypedParts DEF Switch, server, Typed, TypeOK

\* A request of Me for a member of workspace w.
LEMMA ActType ==
    ASSUME Typed, NEW op \in {"add", "change", "remove"}, NEW u \in Users, NEW new \in Roles, Act(op, u, new)
    PROVE  Typed'
<1> DEFINE q == [NoReq EXCEPT !.op = op, !.by = Me, !.ws = page.cur, !.user = u, !.role = new]
<1>1. page \in Pages /\ page.cur \in Workspaces
  BY TypedParts DEF Act, Shown, Pages, Page
<1>2. q \in Request
  BY <1>1, UsersAssumption, NoReqType DEF Requests, Request, Ops
<1>3. /\ q.op = op /\ q.ws = page.cur /\ q.user = u /\ q.role = new /\ q.stage = "none"
  BY NoReqType DEF Requests, Request, NoReq
<1>4. op = "change" => new # "none"
  BY DEF Act
<1>5. q \in Requests
  <2> HIDE DEF q
  <2> QED  BY <1>1, <1>2, <1>3, <1>4, NullAssumption DEF Requests, Named, Aimed
<1>6. Least(Slots) \in Reqs /\ req' \in [Reqs -> Requests] /\ starts' \in Nat /\ UNCHANGED <<server, faults>>
  BY <1>3, <1>5, StartType DEF Act
<1>7. page' \in Pages
  BY <1>1, <1>6, FieldsType DEF Act
<1> QED  BY <1>6, <1>7, TypedFrom, TypedParts DEF Act, server, Typed, TypeOK

LEMMA CreateType == ASSUME Typed, Create PROVE Typed'
<1> DEFINE q == [NoReq EXCEPT !.op = "create", !.by = Me]
<1>1. q \in Request
  BY UsersAssumption, NoReqType DEF Requests, Request, Ops
<1>2. q.op = "create" /\ q.by = Me /\ q.user = Null /\ q.stage = "none"
  BY NoReqType DEF Requests, Request, NoReq
<1>3. q \in Requests
  <2> HIDE DEF q
  <2> QED  BY <1>1, <1>2 DEF Requests, Named, Aimed
<1>4. Least(Slots) \in Reqs /\ req' \in [Reqs -> Requests] /\ starts' \in Nat /\ UNCHANGED <<server, faults>>
  BY <1>2, <1>3, StartType DEF Create
<1>5. page' \in Pages
  BY <1>4, TypedParts, FieldsType DEF Create
<1> QED  BY <1>4, <1>5, TypedFrom, TypedParts DEF Create, server, Typed, TypeOK

LEMMA SettleType == ASSUME Typed, NEW op \in {"update", "delete"}, Settle(op) PROVE Typed'
<1> DEFINE turned == ~page.list[page.cur].open
           q == [NoReq EXCEPT !.op = op, !.by = Me, !.ws = page.cur, !.open = turned]
<1>1. page \in Pages /\ page.cur \in Workspaces
  BY TypedParts DEF Settle, Shown, Pages, Page
<1>2. turned \in BOOLEAN
  OBVIOUS
<1>3. q \in Request
  <2> HIDE DEF turned
  <2> QED  BY <1>1, <1>2, UsersAssumption, NoReqType DEF Requests, Request, Ops
<1>4. q.op = op /\ q.ws = page.cur /\ q.user = Null /\ q.stage = "none"
  BY NoReqType DEF Requests, Request, NoReq
<1>5. q \in Requests
  <2> HIDE DEF q
  <2> QED  BY <1>1, <1>3, <1>4 DEF Requests, Named, Aimed
<1>6. Least(Slots) \in Reqs /\ req' \in [Reqs -> Requests] /\ starts' \in Nat /\ UNCHANGED <<server, faults>>
  BY <1>4, <1>5, StartType DEF Settle
<1>7. page' \in Pages
  BY <1>1, <1>6, FieldsType DEF Settle
<1> QED  BY <1>6, <1>7, TypedFrom, TypedParts DEF Settle, server, Typed, TypeOK

LEMMA EchoedType == ASSUME Typed, NEW r \in Reqs PROVE Echoed(req[r]) \in Pages /\ Echoed(req[r]).load = page.load
<1> DEFINE q == req[r]
<1>1. page \in Page /\ Asking(page) /\ q \in Request
  BY TypedParts DEF Pages, Requests
<1>2. [page EXCEPT !.role[q.ws] = q.got] \in Page /\ [page EXCEPT !.role[q.ws] = q.got].load = page.load
  BY <1>1 DEF Page, Request
<1> QED  BY <1>1, <1>2 DEF Echoed, Pages, Asking

LEMMA ActedType == ASSUME Typed, NEW r \in Reqs, Acted(r) PROVE Typed'
<1> DEFINE q == req[r]
           again == IF page.acting = r THEN Reloads(q.op) ELSE {}
           loads == [k \in Loads |-> IF k \in again THEN Loading(page.load[k], q.ws) ELSE page.load[k]]
           acting == IF Echoed(q).acting = r THEN Null ELSE Echoed(q).acting
           echoed == [Echoed(q) EXCEPT !.load = loads, !.acting = acting]
<1>1. page \in Pages /\ page \in Page /\ Asking(page) /\ q \in Request /\ Named(q) /\ q.ws \in Workspaces
  BY TypedParts DEF Pages, Requests, Acted, Named
<1>2. Echoed(q) \in Pages
  BY EchoedType
<1>3. \A k \in Loads : loads[k] \in Load /\ (loads[k].stage = "sent" => loads[k].asked \in Workspaces)
  BY <1>1, LoadingType DEF Asking, Page
<1>4. echoed \in Pages
  <2> HIDE DEF loads
  <2>1. acting \in Reqs \cup {Null}
    BY <1>2 DEF Pages, Page
  <2> HIDE DEF acting
  <2>2. loads \in [Loads -> Load]
    BY <1>3 DEF loads
  <2>3. echoed \in Page /\ echoed.load = loads
    BY <1>2, <2>1, <2>2 DEF Pages, Page
  <2> QED  BY <1>3, <2>3 DEF Pages, Asking
<1>5. page' = Rendered(page, echoed)
  BY DEF Acted
<1>6. page' \in Pages
  BY <1>1, <1>4, <1>5, RenderedType
<1>7. req' \in [Reqs -> Requests]
  BY NoReqType, PutType DEF Acted
<1>8. disturbed' \subseteq Causes
  <2>1. disturbed' \subseteq disturbed \cup {"strayed", "behind"}
    BY DEF Acted, Note
  <2> QED  BY <2>1 DEF Typed, TypeOK, Causes
<1> QED  BY <1>6, <1>7, <1>8, TypedFrom, TypedParts DEF Acted, server, Typed, TypeOK

LEMMA AnsweredType == ASSUME Typed, NEW r \in Reqs, Answered(r) PROVE Typed'
<1> DEFINE q == req[r]
           run == IF q.ok THEN r ELSE page.run
           roles == IF q.ok /\ q.op = "create" THEN [page.role EXCEPT ![q.ws] = "owner"] ELSE page.role
           n == [page EXCEPT !.run = run, !.role = roles]
           saving == IF n.saving = r THEN Null ELSE n.saving
           creating == IF n.creating = r THEN Null ELSE n.creating
           m == [n EXCEPT !.saving = saving, !.creating = creating]
<1>1. page \in Pages /\ page \in Page /\ Asking(page) /\ q \in Request /\ Named(q) /\ Aimed(q)
  BY TypedParts DEF Pages, Requests
<1>2. run \in Reqs \cup {Null} /\ roles \in [Workspaces -> Roles]
  BY <1>1 DEF Page, Roles
<1>3. n \in Page /\ n.load = page.load
  <2> HIDE DEF run, roles
  <2> QED  BY <1>1, <1>2 DEF Page
<1>4. m \in Page /\ m.load = page.load
  <2>1. saving \in Reqs \cup {Null} /\ creating \in Reqs \cup {Null}
    BY <1>3 DEF Page
  <2> HIDE DEF n, saving, creating
  <2> QED  BY <1>3, <2>1 DEF Page
<1>5. n \in Pages /\ m \in Pages
  <2> HIDE DEF n, m
  <2> QED  BY <1>1, <1>3, <1>4 DEF Pages, Asking
<1>6. page' = Rendered(page, IF q.ok THEN n ELSE m)
  BY DEF Answered
<1>7. page' \in Pages
  <2> HIDE DEF n, m
  <2> QED  BY <1>1, <1>5, <1>6, RenderedType
<1>8. [q EXCEPT !.stage = "refresh"] \in Requests
  <2>1. [q EXCEPT !.stage = "refresh"] \in Request
    BY <1>1 DEF Request, Stages
  <2> QED  BY <1>1, <2>1 DEF Requests, Named, Aimed, Request
<1>9. req' \in [Reqs -> Requests]
  BY <1>8, NoReqType, PutType DEF Answered
<1> QED  BY <1>7, <1>9, TypedFrom, TypedParts DEF Answered, server, Typed, TypeOK

LEMMA ListLandsType == ASSUME Typed, NEW r \in Reqs, ListLands(r) PROVE Typed'
<1> DEFINE q == req[r]
           now == Current(q.list, page.want)
           run == IF page.run = r THEN Null ELSE page.run
           want == IF q.stage = "listed" THEN now ELSE page.want
           listed == [page EXCEPT !.list = q.list, !.cur = now, !.run = run, !.want = want]
           shown == IF ~Counts(r) THEN page ELSE listed
           selected == [shown EXCEPT !.cur = q.ws, !.want = q.ws]
           chosen == IF q.op = "create" /\ q.ws \in Listed(shown) THEN selected ELSE shown
           one == Rendered(page, chosen)
           two == Rendered(one, IF Counts(r) THEN Seeded(one) ELSE one)
           saving == IF two.saving = r THEN Null ELSE two.saving
           creating == IF two.creating = r THEN Null ELSE two.creating
<1>1. page \in Pages /\ page \in Page /\ Asking(page) /\ q \in Request
  BY TypedParts DEF Pages, Requests
<1>2. shown \in Page /\ shown.load = page.load
  <2>1. now \in Workspaces \cup {Null} /\ run \in Reqs \cup {Null} /\ want \in Workspaces \cup {Null}
    BY <1>1, CurrentType DEF Page
  <2> HIDE DEF now, run, want
  <2>2. listed \in Page /\ listed.load = page.load
    BY <1>1, <2>1 DEF Page, Request
  <2> QED  BY <1>1, <2>2
<1> HIDE DEF listed, shown
<1>3. chosen \in Page /\ chosen.load = page.load
  <2>1. selected \in Page /\ selected.load = shown.load
    BY <1>1, <1>2 DEF Page, Request
  <2> QED  BY <1>2, <2>1
<1>4. chosen \in Pages
  <2> HIDE DEF chosen
  <2> QED  BY <1>1, <1>3 DEF Pages, Asking
<1> HIDE DEF chosen
<1>5. one \in Pages
  BY <1>1, <1>4, RenderedType
<1> HIDE DEF one
<1>6. two \in Pages
  BY <1>5, SeededType, RenderedType
<1>7. saving \in Reqs \cup {Null} /\ creating \in Reqs \cup {Null}
  <2> HIDE DEF two
  <2> QED  BY <1>6 DEF Pages, Page
<1>8. page' = [two EXCEPT !.saving = saving, !.creating = creating]
  BY DEF ListLands, shown, listed, chosen, one
<1> HIDE DEF two, saving, creating
<1>9. page' \in Page /\ page'.load = two.load
  BY <1>6, <1>7, <1>8 DEF Pages, Page
<1>10. page' \in Pages
  BY <1>6, <1>9 DEF Pages, Asking
<1>11. req' \in [Reqs -> Requests]
  BY NoReqType, PutType DEF ListLands
<1>12. disturbed' \subseteq Causes
  BY DroppedType, NoteType DEF ListLands
<1> QED  BY <1>10, <1>11, <1>12, TypedFrom, TypedParts DEF ListLands, server, Typed, TypeOK

LEMMA LoadStepType == ASSUME Typed, NEW k \in Loads, LoadStep(k) PROVE Typed'
<1> DEFINE l == page.load[k]
<1>1. page \in Pages /\ page \in Page /\ Asking(page) /\ l \in Load
  BY TypedParts DEF Pages, Page
<1>2. ASSUME NEW m \in Load, m.stage # "sent", page' = [page EXCEPT !.load[k] = m] PROVE page' \in Pages
  <2>1. page' \in Page /\ \A j \in Loads : page'.load[j] \in {page.load[j], m}
    BY <1>1, <1>2 DEF Page
  <2> QED  BY <1>1, <1>2, <2>1 DEF Pages, Asking
<1>3. CASE LoadReads(k)
  <2>1. l.asked \in Workspaces
    BY <1>1, <1>3 DEF LoadReads, Asking
  <2>2. PICK ok \in BOOLEAN :
           /\ Lost(IF ok \/ ~Admitted(Me, k, l.asked) THEN 0 ELSE 1)
           /\ page' = [page EXCEPT !.load[k] = [l EXCEPT !.stage = IF ok THEN "read" ELSE "failed",
                                                         !.got = IF ok THEN View(k, l.asked) ELSE @]]
    BY <1>3 DEF LoadReads
  <2> DEFINE stage == IF ok THEN "read" ELSE "failed"
             got == IF ok THEN View(k, l.asked) ELSE l.got
             m == [l EXCEPT !.stage = stage, !.got = got]
  <2>3. got \in Rows
    BY <1>1, <2>1, ViewType DEF Load
  <2>4. m \in Load /\ m.stage # "sent"
    <3> HIDE DEF got
    <3> QED  BY <1>1, <2>3 DEF Load
  <2>5. page' = [page EXCEPT !.load[k] = m]
    BY <2>2
  <2>6. page' \in Pages
    <3> HIDE DEF m
    <3> QED  BY <1>2, <2>4, <2>5
  <2>7. faults' \in Nat
    BY <2>2, LostType DEF Typed, TypeOK
  <2> QED  BY <1>3, <2>6, <2>7, TypedFrom, TypedParts DEF LoadReads, server, Typed, TypeOK
<1>4. CASE LoadLands(k)
  <2> DEFINE m == IF l.stage = "failed" THEN NoLoad
                  ELSE [NoLoad EXCEPT !.ok = TRUE, !.of = l.asked, !.rows = l.got]
  <2>1. m \in Load /\ m.stage # "sent"
    BY <1>1, NoLoadType DEF Load
  <2>2. page' = [page EXCEPT !.load[k] = m]
    BY <1>4 DEF LoadLands
  <2>3. page' \in Pages
    <3> HIDE DEF m
    <3> QED  BY <1>2, <2>1, <2>2
  <2> QED  BY <1>4, <2>3, TypedFrom, TypedParts DEF LoadLands, server, Typed, TypeOK
<1> QED  BY <1>3, <1>4 DEF LoadStep

---------------------------------------------------------------------------
LEMMA InitTyped == Init => Typed
<1> SUFFICES ASSUME Init PROVE Typed
  OBVIOUS
<1>1. PICK last \in Workspaces : made = {w \in Workspaces : w <= last}
  BY DEF Init
<1>2. made # {} /\ made \subseteq Workspaces
  BY <1>1, NumbersAssumption
<1>3. Least(made) \in Workspaces
  BY <1>2, LeastIn, NumbersAssumption
<1>4. role \in [Workspaces -> Rows]
  BY DEF Init, Rows, Roles
<1>5. used \subseteq Workspaces /\ open \in [Workspaces -> BOOLEAN]
  BY <1>2 DEF Init
<1>6. \A w \in Workspaces : role[w][Me] \in Roles
  BY <1>4, UsersAssumption DEF Rows
<1>7. MyList \in Listing
  <2> SUFFICES ASSUME NEW w \in Workspaces
               PROVE  (IF w \in made THEN [made |-> TRUE, open |-> open[w], role |-> role[w][Me]] ELSE NoList[w])
                         \in [made: BOOLEAN, open: BOOLEAN, role: Roles]
    BY DEF MyList, Listing
  <2> QED  BY <1>5, <1>6, NoListType DEF Listing
<1>8. \A k \in Loads : View(k, Least(made)) \in Rows
  BY <1>3, <1>4 DEF View, Rows, Roles
<1> DEFINE load == [k \in Loads |-> [NoLoad EXCEPT !.ok = TRUE, !.of = Least(made), !.rows = View(k, Least(made))]]
<1>9. \A k \in Loads : load[k] \in Load /\ load[k].stage = "idle"
  <2> SUFFICES ASSUME NEW k \in Loads
               PROVE  /\ [NoLoad EXCEPT !.ok = TRUE, !.of = Least(made), !.rows = View(k, Least(made))] \in Load
                      /\ [NoLoad EXCEPT !.ok = TRUE, !.of = Least(made), !.rows = View(k, Least(made))].stage = "idle"
    OBVIOUS
  <2> QED  BY <1>3, <1>8, NoLoadType DEF Load
<1>10. page = [list |-> MyList, cur |-> Least(made), want |-> Least(made), run |-> Null,
               role |-> [w \in Workspaces |-> role[w][Me]], load |-> load,
               acting |-> Null, saving |-> Null, creating |-> Null]
  BY DEF Init
<1>11. page \in Page /\ page.load = load
  <2>1. load \in [Loads -> Load]
    BY <1>9
  <2>2. [w \in Workspaces |-> role[w][Me]] \in [Workspaces -> Roles]
    BY <1>6
  <2> HIDE DEF load
  <2> QED  BY <1>3, <1>7, <1>10, <2>1, <2>2 DEF Page
<1>12. page \in Pages
  <2> HIDE DEF load
  <2> QED  BY <1>9, <1>11 DEF Pages, Asking
<1>13. req \in [Reqs -> Requests]
  BY NoReqType DEF Init
<1>14. starts \in Nat /\ faults \in Nat /\ disturbed \subseteq Causes
  BY DEF Init
<1> QED  BY <1>2, <1>4, <1>5, <1>12, <1>13, <1>14 DEF Typed, TypeOK, Pages, Page, Requests

LEMMA UserType == ASSUME Typed, User PROVE Typed'
BY SwitchType, ActType, CreateType, SettleType, OtherReadsType DEF User

LEMMA StepTyped == Typed /\ [Next]_vars => Typed'
<1> SUFFICES ASSUME Typed, [Next]_vars PROVE Typed'
  OBVIOUS
<1>1. ASSUME NEW r \in Reqs, Handle(r) PROVE Typed'
  BY <1>1, ReadType, FailType, CommitType, ListReadsType DEF Handle
<1>2. ASSUME NEW r \in Reqs, Deliver(r) PROVE Typed'
  BY <1>2, ActedType, AnsweredType, ListLandsType DEF Deliver
<1>3. ASSUME NEW k \in Loads, LoadStep(k) PROVE Typed'
  BY <1>3, LoadStepType
<1>4. CASE UNCHANGED vars
  BY <1>4, TypedFrom, TypedParts DEF vars, server, Typed, TypeOK
<1> QED  BY <1>1, <1>2, <1>3, <1>4, UserType DEF Next

\* Requests, roles and the page keep their form: in particular a load is only made for
\* a workspace there is an id for, and a request names the member it is about.
THEOREM TypeCorrect == Spec => []TypeOK
<1>1. Typed => TypeOK
  BY DEF Typed
<1> QED  BY <1>1, InitTyped, StepTyped, PTL DEF Spec

---------------------------------------------------------------------------
(***************************************************************************)
(* Owners.                                                                 *)
(***************************************************************************)
Disturbed == ~Spared({"overlapped", "promoted", "abandoned"})

Owner(w, u) == u \in Users /\ role[w][u] = "owner"

\* A workspace has an owner or its creation is half done.
Owned == \A w \in made : (\E u \in Users : Owner(w, u)) \/ \E r \in Reqs : req[r].stage = "half" /\ req[r].ws = w

\* While a demotion or removal is under way, another owner remains.
Another == \A r \in Reqs : Passed(req[r]) => \E v \in Users \ {req[r].user} : Owner(req[r].ws, v)

Owners == Disturbed \/ (Owned /\ Another)

LEMMA StillDisturbed ==
    ASSUME Disturbed, disturbed \subseteq disturbed'
    PROVE  Disturbed'
BY DEF Disturbed, Spared

\* The disturbances grow.
LEMMA DisturbedGrows == [Next]_vars => disturbed \subseteq disturbed'
<1> SUFFICES ASSUME [Next]_vars PROVE disturbed \subseteq disturbed'
  OBVIOUS
<1>1. ASSUME NEW r \in Reqs, Handle(r) PROVE disturbed \subseteq disturbed'
  <2>1. ASSUME NEW ok \in BOOLEAN, Commit(r, ok) \/ ListReads(r, ok) PROVE disturbed \subseteq disturbed'
    BY <2>1 DEF Commit, ListReads, Note
  <2> QED  BY <1>1, <2>1 DEF Handle, Read, Fail, Note
<1>2. ASSUME NEW r \in Reqs, Deliver(r) PROVE disturbed \subseteq disturbed'
  BY <1>2 DEF Deliver, Acted, Answered, ListLands, Note
<1>3. ASSUME NEW k \in Loads, LoadStep(k) PROVE disturbed \subseteq disturbed'
  BY <1>3 DEF LoadStep, LoadReads, LoadLands
<1>4. CASE User
  BY <1>4 DEF User, Switch, Act, Create, Settle, OtherReads, Note
<1> QED  BY <1>1, <1>2, <1>3, <1>4 DEF Next, vars

\* Steps that change no role and bring no request into the stages read and half, nor
\* take one from half.
LEMMA SameOwners ==
    ASSUME Typed, Owned, Another, UNCHANGED <<made, role>>,
           \A r \in Reqs : req[r].stage = "half" \/ req'[r].stage = "read" => req'[r] = req[r]
    PROVE  Owned' /\ Another'
<1>1. Owned'
  BY DEF Owned, Owner
<1>2. Another'
  BY DEF Another, Passed, Owner
<1> QED  BY <1>1, <1>2

\* One request changes, from another stage than half to one that is not read.
LEMMA PutOwners ==
    ASSUME Typed, Owned, Another, UNCHANGED <<made, role>>, NEW r \in Reqs, NEW q, Put(r, q),
           req[r].stage # "half", q.stage # "read"
    PROVE  Owned' /\ Another'
BY TypedParts, SameOwners DEF Put

\* A request that its guard lets pass leaves an owner.
LEMMA GuardOwners ==
    ASSUME Typed, Owned, Another, UNCHANGED <<made, role>>, NEW r \in Reqs, NEW q, Put(r, q),
           req[r].stage # "half", ~Refused(q), Named(q), q.stage = "read",
           q.op \in {"change", "remove"} => q.loaded = role[q.ws][q.user]
    PROVE  Owned' /\ Another'
<1>1. req'[r] = q /\ \A x \in Reqs \ {r} : req'[x] = req[x]
  BY TypedParts DEF Put
<1>2. Owned'
  BY <1>1 DEF Owned, Owner
<1>3. ASSUME Passed(q) PROVE \E v \in Users \ {q.user} : Owner(q.ws, v)
  <2>1. q.op \in {"change", "remove"} /\ role[q.ws][q.user] = "owner" /\ (q.op = "change" => q.role # "owner")
    BY <1>3 DEF Passed
  <2>2. ~SoleOwner(q.ws, q.user)
    BY <2>1 DEF Refused
  <2> QED  BY <2>1, <2>2 DEF SoleOwner, Owner
<1>4. Another'
  BY <1>1, <1>3 DEF Another, Passed, Owner
<1> QED  BY <1>2, <1>4

LEMMA ReadOwners == ASSUME Typed, Owned, Another, NEW r \in Reqs, Read(r) PROVE Owned' /\ Another'
<1> DEFINE q == req[r]
           loaded == IF q.user = Null THEN "none" ELSE role[q.ws][q.user]
           was == q.ws # Null /\ open[q.ws]
           passed == [q EXCEPT !.stage = "read", !.loaded = loaded, !.was = was]
           refused == [q EXCEPT !.stage = "answered"]
<1>1. q \in Request /\ Named(q) /\ q.stage = "sent"
  BY TypedParts DEF Requests, Read
<1>2. CASE Put(r, refused)
  <2>1. refused.stage = "answered"
    BY <1>1 DEF Request
  <2> QED  BY <1>1, <1>2, <2>1, PutOwners DEF Read, server
<1>3. CASE ~Refused(q) /\ Put(r, passed)
  <2>1. /\ passed.op = q.op /\ passed.user = q.user /\ passed.ws = q.ws /\ passed.role = q.role
        /\ passed.by = q.by /\ passed.stage = "read" /\ passed.loaded = loaded
    BY <1>1 DEF Request
  <2> HIDE DEF passed
  <2>2. ~Refused(passed)
    BY <1>3, <2>1 DEF Refused
  <2>3. Named(passed)
    BY <1>1, <2>1 DEF Named
  <2>4. passed.op \in {"change", "remove"} => passed.loaded = role[passed.ws][passed.user]
    BY <2>1, <2>3 DEF Named
  <2> QED  BY <1>1, <1>3, <2>1, <2>2, <2>3, <2>4, GuardOwners DEF Read, server
<1> QED  BY <1>2, <1>3 DEF Read

LEMMA OtherReadsOwners ==
    ASSUME Typed, Owned, Another, NEW op \in {"add", "change", "remove", "own", "delete"}, NEW w \in made,
           NEW u \in Users \cup {Null}, NEW new \in Roles, OtherReads(op, w, u, new)
    PROVE  Owned' /\ Another'
<1> DEFINE loaded == IF u = Null THEN "none" ELSE role[w][u]
           q == [NoReq EXCEPT !.op = op, !.ws = w, !.user = u, !.role = new, !.stage = "read", !.loaded = loaded]
<1>1. /\ q.op = op /\ q.ws = w /\ q.user = u /\ q.role = new /\ q.stage = "read" /\ q.loaded = loaded
  BY NoReqType DEF Requests, Request
<1>2. ~Refused(q) /\ Put(Least(Slots), q) /\ (op = "delete" <=> u = Null) /\ Least(Slots) \in Slots
  BY SlotType DEF OtherReads
<1> HIDE DEF q
<1>3. w \in Workspaces
  BY DEF Typed, TypeOK
<1>4. Named(q)
  BY <1>1, <1>2, <1>3 DEF Named
<1>5. req[Least(Slots)].stage # "half" /\ Least(Slots) \in Reqs
  BY <1>2, TypedParts DEF Slots, Requests, Named
<1>6. q.op \in {"change", "remove"} => q.loaded = role[q.ws][q.user]
  BY <1>1, <1>2
<1> QED  BY <1>1, <1>2, <1>4, <1>5, <1>6, GuardOwners DEF OtherReads, server

\* The page starts a request.
LEMMA StartOwners ==
    ASSUME Typed, Owned, Another, NEW q, [q EXCEPT !.stage = "sent"].stage = "sent", Start(q)
    PROVE  Owned' /\ Another'
<1>1. Least(Slots) \in Reqs /\ req[Least(Slots)].stage # "half"
  BY SlotType, TypedParts DEF Start, Slots, Requests, Named
<1> QED  BY <1>1, PutOwners DEF Start, server

LEMMA FailOwners ==
    ASSUME Typed, Owned, Another, NEW r \in Reqs, Fail(r), ~Disturbed' PROVE Owned' /\ Another'
<1>1. req[r].stage # "half"
  BY DEF Fail, Note, Disturbed, Spared
<1>2. [req[r] EXCEPT !.stage = "answered"].stage # "read" /\ NoReq.stage # "read"
  BY TypedParts DEF Requests, Request, NoReq
<1> QED  BY <1>1, <1>2, PutOwners DEF Fail, server

\* The first commit of a creation: the new workspace is half done.
LEMMA FirstCommitOwners ==
    ASSUME Typed, Owned, Another, NEW r \in Reqs, NEW answered \in BOOLEAN, Commit(r, answered),
           req[r].op = "create", req[r].stage = "read"
    PROVE  Owned' /\ Another'
<1> DEFINE w == Least(Workspaces \ used)
<1>1. made' = made \cup {w} /\ role' = role
  BY DEF Commit, RolesAfter
<1>2. req[r] \in Request /\ req'[r] = [req[r] EXCEPT !.stage = "half", !.ws = w]
  BY TypedParts DEF Commit, Requests
<1>3. req'[r].stage = "half" /\ req'[r].ws = w
  BY <1>2 DEF Request
<1>4. \A x \in Reqs \ {r} : req[x] \in Request /\ req'[x] \in {req[x], [req[x] EXCEPT !.loaded = "gone"]}
  BY TypedParts DEF Commit, Requests
<1>5. \A x \in Reqs \ {r} : req'[x].stage = req[x].stage /\ req'[x].ws = req[x].ws
                          /\ (req'[x] = req[x] \/ req'[x].loaded = "gone")
  BY <1>4 DEF Request
<1>6. Owned'
  BY <1>1, <1>3, <1>5 DEF Owned, Owner
<1>7. Another'
  <2> SUFFICES ASSUME NEW x \in Reqs, Passed(req'[x])
               PROVE  \E v \in Users \ {req'[x].user} : role'[req'[x].ws][v] = "owner"
    BY DEF Another, Passed, Owner
  <2>1. x # r
    BY <1>3 DEF Passed
  <2>2. req'[x] = req[x]
    BY <1>5, <2>1 DEF Passed
  <2> QED  BY <1>1, <2>2 DEF Another, Owner
<1> QED  BY <1>6, <1>7

\* Who loses the last owner's role but one has passed the guard, and someone remains.
LEMMA LostOwner ==
    ASSUME Typed, Another, NEW r \in Reqs, NEW w \in made, NEW u \in Users,
           req[r].stage \in {"read", "half"}, Writable(req[r]), req[r].op # "delete",
           ~(req[r].op = "remove" /\ req[r].loaded = "member" /\ role[req[r].ws][req[r].user] = "owner"),
           role[w][u] = "owner", RolesAfter(req[r])[w][u] # "owner"
    PROVE  \E v \in Users : RolesAfter(req[r])[w][v] = "owner"
<1> DEFINE q == req[r]
<1>1. q \in Request /\ Named(q) /\ Aimed(q) /\ role \in [Workspaces -> Rows] /\ w \in Workspaces
  BY TypedParts DEF Requests, Typed, TypeOK
<1>2. q.op # "create"
  BY <1>1 DEF RolesAfter, Rows
<1>3. q.op # "update" /\ q.loaded \notin {Given(q), "gone"} /\ RolesAfter(q) = [role EXCEPT ![q.ws][q.user] = Given(q)]
  BY <1>2 DEF RolesAfter
<1>4. w = q.ws /\ u = q.user /\ Given(q) # "owner"
  BY <1>1, <1>3 DEF Rows
<1>5. q.op \in {"add", "change", "remove", "own"} /\ q.stage = "read"
  BY <1>1, <1>2, <1>4, NullAssumption DEF Named
<1>6. q.op \in {"change", "remove"}
  BY <1>4, <1>5 DEF Given, Writable
<1>7. q.loaded = "owner" /\ (q.op = "change" => q.role # "owner")
  <2>1. CASE q.op = "remove"
    BY <1>1, <1>3, <1>4, <2>1 DEF Request, Roles, Given
  <2>2. CASE q.op = "change"
    BY <1>1, <1>3, <1>4, <1>5, <2>2 DEF Request, Roles, Given, Aimed
  <2> QED  BY <1>6, <2>1, <2>2
<1>8. PICK v \in Users \ {q.user} : role[w][v] = "owner"
  BY <1>4, <1>5, <1>6, <1>7 DEF Another, Passed, Owner
<1>9. RolesAfter(q)[w][v] = "owner"
  BY <1>1, <1>3, <1>8 DEF Rows
<1> QED  BY <1>9

LEMMA CommitOwners ==
    ASSUME Typed, Owned, Another, NEW r \in Reqs, NEW answered \in BOOLEAN, Commit(r, answered), ~Disturbed',
           ~(req[r].op = "create" /\ req[r].stage = "read")
    PROVE  Owned' /\ Another'
<1> DEFINE q == req[r]
           new == RolesAfter(q)
<1>1. q \in Request /\ Named(q) /\ q.stage \in {"read", "half"} /\ Writable(q) /\ role' = new
  BY TypedParts DEF Commit, Requests
<1>2. Disturbances(r, answered) \cap {"overlapped", "promoted", "abandoned"} = {}
  BY DEF Commit, Note, Disturbed, Spared
<1>3. ~(q.op = "remove" /\ q.loaded = "member" /\ role[q.ws][q.user] = "owner")
  BY <1>2 DEF Disturbances
<1>4. ~ \E w \in {w \in Workspaces : new[w] # role[w]}, u \in Users :
          /\ role[w][u] = "owner" /\ new[w][u] # "owner"
          /\ \E x \in Reqs : Passed(req[x]) /\ req[x].ws = w /\ req[x].user # u
  BY <1>2 DEF Disturbances
<1>5. \A w \in Workspaces, u \in Users, x \in Reqs :
          role[w][u] = "owner" /\ Passed(req[x]) /\ req[x].ws = w /\ req[x].user # u => new[w][u] = "owner"
  BY <1>4
<1>6. \A x \in Reqs \ {r} : req[x] \in Request /\ req'[x] \in {req[x], [req[x] EXCEPT !.loaded = "gone"]}
  BY TypedParts DEF Commit, Requests
<1>7. \A x \in Reqs \ {r} : req'[x].stage = req[x].stage /\ req'[x].ws = req[x].ws
                          /\ (req'[x] = req[x] \/ req'[x].loaded = "gone")
  BY <1>6 DEF Request
<1>8. req'[r].stage \in {"none", "answered"}
  BY <1>1 DEF Commit, Request, NoReq
<1>9. ASSUME NEW w \in made' PROVE \/ \E u \in Users : Owner(w, u)'
                                  \/ \E x \in Reqs : req'[x].stage = "half" /\ req'[x].ws = w
  <2>1. w \in made /\ w \in Workspaces /\ (q.op = "delete" => w # q.ws)
    BY DEF Commit, Typed, TypeOK
  <2>2. ASSUME NEW u \in Users, role[w][u] = "owner" PROVE \E v \in Users : new[w][v] = "owner"
    <3>1. CASE q.op = "delete"
      BY <2>1, <2>2, <3>1, TypedParts DEF RolesAfter, Rows
    <3>2. CASE q.op # "delete"
      BY <1>1, <1>3, <2>1, <2>2, <3>2, LostOwner
    <3> QED  BY <3>1, <3>2
  <2>3. ASSUME req[r].stage = "half", req[r].ws = w PROVE \E v \in Users : new[w][v] = "owner"
    <3>1. q.op = "create" /\ q.by = Me
      BY <1>1, <2>3 DEF Named
    <3>2. new[w][Me] = "owner"
      BY <2>1, <2>3, <3>1, UsersAssumption, TypedParts DEF RolesAfter, Rows
    <3> QED  BY <3>2, UsersAssumption
  <2>4. ASSUME NEW x \in Reqs \ {r}, req[x].stage = "half", req[x].ws = w
        PROVE  req'[x].stage = "half" /\ req'[x].ws = w
    BY <1>7, <2>4
  <2> QED  BY <1>1, <2>1, <2>2, <2>3, <2>4 DEF Owned, Owner
<1>10. Owned'
  BY <1>9 DEF Owned
<1>11. Another'
  <2> SUFFICES ASSUME NEW x \in Reqs, Passed(req'[x])
               PROVE  \E v \in Users \ {req'[x].user} : role'[req'[x].ws][v] = "owner"
    BY DEF Another, Passed, Owner
  <2>1. x # r
    BY <1>8 DEF Passed
  <2>2. req'[x] = req[x]
    BY <1>7, <2>1 DEF Passed
  <2>3. req[x].ws \in Workspaces
    BY <2>2, TypedParts DEF Passed, Requests, Named
  <2>4. PICK v \in Users \ {req[x].user} : role[req[x].ws][v] = "owner"
    BY <2>2 DEF Another, Owner
  <2>5. new[req[x].ws][v] = "owner"
    BY <1>5, <2>2, <2>3, <2>4
  <2> QED  BY <1>1, <2>2, <2>4, <2>5 DEF Owner
<1> QED  BY <1>10, <1>11

LEMMA DeliverOwners == ASSUME Typed, Owned, Another, NEW r \in Reqs, Deliver(r) PROVE Owned' /\ Another'
<1>1. NoReq.stage # "read" /\ [req[r] EXCEPT !.stage = "refresh"].stage # "read"
  BY TypedParts DEF Requests, Request, NoReq
<1>2. CASE Acted(r)
  BY <1>1, <1>2, PutOwners DEF Acted, server
<1>3. CASE Answered(r)
  BY <1>1, <1>3, PutOwners DEF Answered, server
<1>4. CASE ListLands(r)
  BY <1>1, <1>4, PutOwners DEF ListLands, server
<1> QED  BY <1>2, <1>3, <1>4 DEF Deliver

LEMMA ListReadsOwners ==
    ASSUME Typed, Owned, Another, NEW r \in Reqs, NEW ok \in BOOLEAN, ListReads(r, ok)
    PROVE  Owned' /\ Another'
<1> DEFINE q == [req[r] EXCEPT !.stage = IF ok THEN "listed" ELSE "unlisted", !.list = IF ok THEN MyList ELSE @]
<1>1. q.stage # "read"
  BY TypedParts DEF Requests, Request
<1>2. Put(r, q) /\ req[r].stage = "refresh" /\ UNCHANGED <<made, role>>
  BY DEF ListReads, server
<1> HIDE DEF q
<1> QED  BY <1>1, <1>2, PutOwners

LEMMA UserOwners == ASSUME Typed, Owned, Another, User PROVE Owned' /\ Another'
<1>1. ASSUME NEW w \in Workspaces, Switch(w) PROVE Owned' /\ Another'
  BY <1>1, SameOwners DEF Switch, server
<1>2. ASSUME NEW op \in {"add", "change", "remove"}, NEW u \in Users, NEW new \in Roles, Act(op, u, new)
      PROVE  Owned' /\ Another'
  <2> DEFINE q == [NoReq EXCEPT !.op = op, !.by = Me, !.ws = page.cur, !.user = u, !.role = new]
  <2>1. [q EXCEPT !.stage = "sent"].stage = "sent"
    BY DEF NoReq
  <2>2. Start(q)
    BY <1>2 DEF Act
  <2> QED  BY <2>1, <2>2, StartOwners
<1>3. CASE Create
  <2> DEFINE q == [NoReq EXCEPT !.op = "create", !.by = Me]
  <2>1. [q EXCEPT !.stage = "sent"].stage = "sent"
    BY DEF NoReq
  <2> QED  BY <1>3, <2>1, StartOwners DEF Create
<1>4. ASSUME NEW op \in {"update", "delete"}, Settle(op) PROVE Owned' /\ Another'
  <2> DEFINE q == [NoReq EXCEPT !.op = op, !.by = Me, !.ws = page.cur, !.open = ~page.list[page.cur].open]
  <2>1. [q EXCEPT !.stage = "sent"].stage = "sent"
    BY DEF NoReq
  <2>2. Start(q)
    BY <1>4 DEF Settle
  <2> QED  BY <2>1, <2>2, StartOwners
<1> QED  BY <1>1, <1>2, <1>3, <1>4, OtherReadsOwners DEF User

LEMMA StepOwners == Typed /\ Owners /\ [Next]_vars => Owners'
<1> SUFFICES ASSUME Typed, Owned, Another, [Next]_vars, ~Disturbed' PROVE Owned' /\ Another'
  BY StillDisturbed, DisturbedGrows DEF Owners
<1>1. ASSUME NEW r \in Reqs, Handle(r) PROVE Owned' /\ Another'
  BY <1>1, ReadOwners, FailOwners, FirstCommitOwners, CommitOwners, ListReadsOwners DEF Handle
<1>2. ASSUME NEW r \in Reqs, Deliver(r) PROVE Owned' /\ Another'
  BY <1>2, DeliverOwners
<1>3. ASSUME NEW k \in Loads, LoadStep(k) PROVE Owned' /\ Another'
  BY <1>3, SameOwners DEF LoadStep, LoadReads, LoadLands, server
<1>4. CASE UNCHANGED vars
  BY <1>4, SameOwners DEF vars, server
<1> QED  BY <1>1, <1>2, <1>3, <1>4, UserOwners DEF Next

\* Whoever demotes, removes or promotes whom, a workspace keeps an owner, except where
\* the guards of two requests overlap (service.py counts owners, then writes) or a
\* creation stops between its commits.
THEOREM OwnersRemain == Spec => []OwnerRemains
<1>1. Init => Owners
  <2> SUFFICES ASSUME Init PROVE Owned /\ Another
    BY DEF Owners
  <2>1. ASSUME NEW w \in made PROVE Owner(w, Me)
    BY UsersAssumption DEF Init, Owner
  <2>2. Owned
    BY <2>1 DEF Owned, Owner
  <2>3. Another
    BY DEF Init, Another, Passed, NoReq
  <2> QED  BY <2>2, <2>3
<1>2. Owners => OwnerRemains
  BY DEF Owners, Owned, Owner, Disturbed, OwnerRemains
<1>3. Spec => []Typed
  BY InitTyped, StepTyped, PTL DEF Spec
<1> QED  BY <1>1, <1>2, <1>3, StepOwners, PTL DEF Spec

---------------------------------------------------------------------------
(***************************************************************************)
(* What the steps do to the page and to the requests.                      *)
(***************************************************************************)
LEMMA RenderedKeeps ==
    ASSUME NEW p, NEW n \in Page
    PROVE  /\ Rendered(p, n).list = n.list /\ Rendered(p, n).cur = n.cur /\ Rendered(p, n).want = n.want
           /\ Rendered(p, n).run = n.run /\ Rendered(p, n).role = n.role
<1> DEFINE bare(load) == [n EXCEPT !.load = load, !.acting = Null, !.saving = Null]
           turned(load) == [n EXCEPT !.load = load, !.saving = Null]
           Same(m) == m.list = n.list /\ m.cur = n.cur /\ m.want = n.want /\ m.run = n.run /\ m.role = n.role
<1>1. \A load : Same(bare(load)) /\ Same(turned(load)) /\ Same(n)
  BY DEF Page
<1>2. \E load : Rendered(p, n) \in {bare(load), turned(load), n}
  BY DEF Rendered
<1> HIDE DEF bare, turned
<1>3. Same(Rendered(p, n))  BY <1>1, <1>2
<1> QED  BY <1>3

LEMMA PutIs ==
    ASSUME Typed, NEW r \in Reqs, NEW q, Put(r, q)
    PROVE  req'[r] = q /\ \A x \in Reqs \ {r} : req'[x] = req[x]
BY TypedParts DEF Put

\* A new request: nothing has been answered to it.
New(q) ==
    /\ q.stage \in {"sent", "read"} /\ q.ok = FALSE /\ q.list = NoList
    /\ q.op \in {"create", "update"} => q.by = Me
Taken(s) == req[s].op = "none" /\ New(req'[s]) /\ \A x \in Reqs \ {s} : req'[x] = req[x]

LEMMA StartTakes ==
    ASSUME Typed, NEW q \in Request, Start(q), q.ok = FALSE, q.list = NoList, q.by = Me
    PROVE  \E s \in Reqs : Taken(s)
<1>1. Slots # {} /\ Put(Least(Slots), [q EXCEPT !.stage = "sent"])  BY DEF Start
<1>2. Least(Slots) \in Reqs /\ req[Least(Slots)].op = "none"  BY <1>1, SlotType DEF Slots
<1>3. req'[Least(Slots)] = [q EXCEPT !.stage = "sent"]
      /\ \A x \in Reqs \ {Least(Slots)} : req'[x] = req[x]
  BY <1>1, <1>2, PutIs
<1>4. New([q EXCEPT !.stage = "sent"])  BY DEF New, Request
<1> QED  BY <1>2, <1>3, <1>4 DEF Taken

\* The user chooses a workspace that is listed, or starts something.
LEMMA UserDoes ==
    ASSUME Typed, User
    PROVE  /\ page'.list = page.list /\ page'.run = page.run /\ page'.role = page.role
           /\ page'.cur = page.cur \/ page'.cur \in Listed(page)
           /\ UNCHANGED server /\ disturbed \subseteq disturbed'
           /\ req' = req \/ \E s \in Reqs : Taken(s)
<1>0. page \in Page /\ NoReq \in Request /\ NoReq.ok = FALSE /\ NoReq.list = NoList
  BY TypedParts, NoReqType DEF Pages, Requests, NoReq
<1>1. ASSUME NEW w \in Workspaces, Switch(w)
      PROVE  /\ page'.list = page.list /\ page'.run = page.run /\ page'.role = page.role
             /\ page'.cur \in Listed(page) /\ UNCHANGED <<server, req>> /\ disturbed \subseteq disturbed'
  <2> DEFINE n == [page EXCEPT !.cur = w, !.want = w]
  <2>1. n \in Page /\ n.list = page.list /\ n.run = page.run /\ n.role = page.role /\ n.cur = w
    BY <1>0 DEF Page
  <2>2. page' = Rendered(page, n) /\ w \in Listed(page)  BY <1>1 DEF Switch
  <2> HIDE DEF n
  <2> QED  BY <1>1, <2>1, <2>2, RenderedKeeps DEF Switch, Note
<1>2. ASSUME NEW op \in {"add", "change", "remove"}, NEW u \in Users, NEW new \in Roles, Act(op, u, new)
      PROVE  /\ page'.list = page.list /\ page'.run = page.run /\ page'.role = page.role /\ page'.cur = page.cur
             /\ UNCHANGED <<server, disturbed>> /\ \E s \in Reqs : Taken(s)
  <2> DEFINE q == [NoReq EXCEPT !.op = op, !.by = Me, !.ws = page.cur, !.user = u, !.role = new]
  <2>1. q \in Request /\ q.ok = FALSE /\ q.list = NoList /\ q.by = Me
    BY <1>0, UsersAssumption DEF Request, Ops, Page
  <2>2. Start(q) /\ page' = [page EXCEPT !.acting = Least(Slots)] /\ UNCHANGED <<server, disturbed>>
    BY <1>2 DEF Act, Start
  <2>3. page'.list = page.list /\ page'.run = page.run /\ page'.role = page.role /\ page'.cur = page.cur
    BY <1>0, <2>2 DEF Page
  <2> HIDE DEF q
  <2> QED  BY <2>1, <2>2, <2>3, StartTakes
<1>3. ASSUME Create
      PROVE  /\ page'.list = page.list /\ page'.run = page.run /\ page'.role = page.role /\ page'.cur = page.cur
             /\ UNCHANGED <<server, disturbed>> /\ \E s \in Reqs : Taken(s)
  <2> DEFINE q == [NoReq EXCEPT !.op = "create", !.by = Me]
  <2>1. q \in Request /\ q.ok = FALSE /\ q.list = NoList /\ q.by = Me
    BY <1>0, UsersAssumption DEF Request, Ops
  <2>2. Start(q) /\ page' = [page EXCEPT !.creating = Least(Slots)] /\ UNCHANGED <<server, disturbed>>
    BY <1>3 DEF Create, Start
  <2>3. page'.list = page.list /\ page'.run = page.run /\ page'.role = page.role /\ page'.cur = page.cur
    BY <1>0, <2>2 DEF Page
  <2> HIDE DEF q
  <2> QED  BY <2>1, <2>2, <2>3, StartTakes
<1>4. ASSUME NEW op \in {"update", "delete"}, Settle(op)
      PROVE  /\ page'.list = page.list /\ page'.run = page.run /\ page'.role = page.role /\ page'.cur = page.cur
             /\ UNCHANGED <<server, disturbed>> /\ \E s \in Reqs : Taken(s)
  <2> DEFINE set == ~page.list[page.cur].open
             q == [NoReq EXCEPT !.op = op, !.by = Me, !.ws = page.cur, !.open = set]
  <2>0. set \in BOOLEAN  OBVIOUS
  <2>1. q \in Request /\ q.ok = FALSE /\ q.list = NoList /\ q.by = Me
    <3> HIDE DEF set
    <3> QED  BY <1>0, <2>0, UsersAssumption DEF Request, Ops, Page
  <2>2. Start(q) /\ page' = [page EXCEPT !.saving = Least(Slots)] /\ UNCHANGED <<server, disturbed>>
    BY <1>4 DEF Settle, Start
  <2>3. page'.list = page.list /\ page'.run = page.run /\ page'.role = page.role /\ page'.cur = page.cur
    BY <1>0, <2>2 DEF Page
  <2> HIDE DEF q
  <2> QED  BY <2>1, <2>2, <2>3, StartTakes
<1>5. ASSUME NEW op \in {"add", "change", "remove", "own", "delete"}, NEW w \in made,
             NEW u \in Users \cup {Null}, NEW new \in Roles, OtherReads(op, w, u, new)
      PROVE  UNCHANGED <<server, page, disturbed>> /\ \E s \in Reqs : Taken(s)
  <2> DEFINE had == IF u = Null THEN "none" ELSE role[w][u]
             q == [NoReq EXCEPT !.op = op, !.ws = w, !.user = u, !.role = new, !.stage = "read", !.loaded = had]
  <2>1. q.stage = "read" /\ q.op = op /\ q.ok = FALSE /\ q.list = NoList
    BY <1>0 DEF NoReq
  <2>2. Slots # {} /\ Put(Least(Slots), q) /\ UNCHANGED <<server, page, disturbed>>
    BY <1>5 DEF OtherReads
  <2> HIDE DEF q
  <2>3. Least(Slots) \in Reqs /\ req[Least(Slots)].op = "none"  BY <2>2, SlotType DEF Slots
  <2>4. req'[Least(Slots)] = q /\ \A x \in Reqs \ {Least(Slots)} : req'[x] = req[x]
    BY <2>2, <2>3, PutIs
  <2> QED  BY <2>1, <2>2, <2>3, <2>4 DEF Taken, New
<1> QED  BY <1>1, <1>2, <1>3, <1>4, <1>5 DEF User


\* Where the page is: at a listed workspace, or nowhere if none is listed.
At(p) == p.cur \in Listed(p) \/ (p.cur = Null /\ Listed(p) = {})

LEMMA CurrentAt ==
    ASSUME NEW p, NEW want, p.cur = Current(p.list, want) PROVE At(p)
<1> DEFINE there == {w \in Workspaces : p.list[w].made}
<1>1. there # {} => Least(there) \in there  BY LeastIn, NumbersAssumption
<1> QED  BY <1>1 DEF At, Current, Listed

\* The answer to an action on a member.
LEMMA ActedDoes ==
    ASSUME Typed, NEW r \in Reqs, Acted(r)
    PROVE  /\ page'.list = page.list /\ page'.cur = page.cur /\ page'.run = page.run
           /\ page'.role = Echoed(req[r]).role
           /\ req'[r] = NoReq /\ \A x \in Reqs \ {r} : req'[x] = req[x]
<1> DEFINE q == req[r]
           e == Echoed(q)
           again == IF page.acting = r THEN Reloads(q.op) ELSE {}
           loads == [k \in Loads |-> IF k \in again THEN Loading(page.load[k], q.ws) ELSE page.load[k]]
           acting == IF e.acting = r THEN Null ELSE e.acting
           echoed == [e EXCEPT !.load = loads, !.acting = acting]
<1>1. page \in Page /\ Asking(page) /\ q \in Request /\ Named(q) /\ q.ws \in Workspaces
  BY TypedParts DEF Pages, Requests, Acted, Named
<1>2. e \in Page  BY EchoedType DEF Pages
<1>3. loads \in [Loads -> Load]
  BY <1>1, LoadingType DEF Asking, Page
<1>4. acting \in Reqs \cup {Null}  BY <1>2 DEF Page
<1>5. page' = Rendered(page, echoed)  BY DEF Acted
<1>6. e.list = page.list /\ e.cur = page.cur /\ e.run = page.run
  BY <1>1 DEF Echoed, Page
<1> HIDE DEF e, loads, acting
<1>7. /\ echoed \in Page /\ echoed.list = e.list /\ echoed.cur = e.cur
      /\ echoed.run = e.run /\ echoed.role = e.role
  BY <1>2, <1>3, <1>4 DEF Page
<1> HIDE DEF echoed
<1>8. page'.list = page.list /\ page'.cur = page.cur /\ page'.run = page.run /\ page'.role = e.role
  BY <1>5, <1>6, <1>7, RenderedKeeps
<1>9. Put(r, NoReq)  BY DEF Acted
<1> QED  BY <1>8, <1>9, PutIs DEF e

\* The answer to a request that changes the list.
LEMMA AnsweredDoes ==
    ASSUME Typed, NEW r \in Reqs, Answered(r)
    PROVE  /\ page'.list = page.list /\ page'.cur = page.cur
           /\ page'.run = IF req[r].ok THEN r ELSE page.run
           /\ page'.role = IF req[r].ok /\ req[r].op = "create" THEN [page.role EXCEPT ![req[r].ws] = "owner"]
                           ELSE page.role
           /\ req'[r] = IF req[r].ok THEN [req[r] EXCEPT !.stage = "refresh"] ELSE NoReq
           /\ \A x \in Reqs \ {r} : req'[x] = req[x]
<1> DEFINE q == req[r]
           run == IF q.ok THEN r ELSE page.run
           roles == IF q.ok /\ q.op = "create" THEN [page.role EXCEPT ![q.ws] = "owner"] ELSE page.role
           n == [page EXCEPT !.run = run, !.role = roles]
           saving == IF n.saving = r THEN Null ELSE n.saving
           creating == IF n.creating = r THEN Null ELSE n.creating
           m == [n EXCEPT !.saving = saving, !.creating = creating]
           Same(p) == p \in Page /\ p.list = page.list /\ p.cur = page.cur /\ p.run = run /\ p.role = roles
<1>1. page \in Page /\ q \in Request  BY TypedParts DEF Pages, Requests
<1>2. run \in Reqs \cup {Null} /\ roles \in [Workspaces -> Roles]  BY <1>1 DEF Page, Roles
<1>3. Same(n)
  <2> HIDE DEF run, roles
  <2> QED  BY <1>1, <1>2 DEF Page
<1>4. saving \in Reqs \cup {Null} /\ creating \in Reqs \cup {Null}
  <2> HIDE DEF n
  <2> QED  BY <1>3 DEF Page
<1>5. Same(m)
  <2> HIDE DEF n, saving, creating, run, roles
  <2> QED  BY <1>3, <1>4 DEF Page
<1>6. page' = Rendered(page, IF q.ok THEN n ELSE m)  BY DEF Answered
<1>7. Put(r, IF q.ok THEN [q EXCEPT !.stage = "refresh"] ELSE NoReq)  BY DEF Answered
<1> HIDE DEF n, m
<1>8. page'.list = page.list /\ page'.cur = page.cur /\ page'.run = run /\ page'.role = roles
  <2> HIDE DEF run, roles
  <2> QED  BY <1>3, <1>5, <1>6, RenderedKeeps
<1> QED  BY <1>7, <1>8, PutIs

\* A list arrives.
LEMMA ListLandsDoes ==
    ASSUME Typed, At(page), NEW r \in Reqs, ListLands(r)
    PROVE  /\ page.run = r => /\ page'.list = req[r].list /\ page'.run = Null
                              /\ \A w \in Workspaces :
                                    page'.role[w] = IF req[r].list[w].role # "none" THEN req[r].list[w].role
                                                    ELSE page.role[w]
           /\ page.run # r => page'.list = page.list /\ page'.run = page.run /\ page'.role = page.role
           /\ At(page)'
           /\ req'[r] = NoReq /\ \A x \in Reqs \ {r} : req'[x] = req[x]
<1> DEFINE q == req[r]
           now == Current(q.list, page.want)
           run == IF page.run = r THEN Null ELSE page.run
           want == IF q.stage = "listed" THEN now ELSE page.want
           listed == [page EXCEPT !.list = q.list, !.cur = now, !.run = run, !.want = want]
           shown == IF ~Counts(r) THEN page ELSE listed
           selected == [shown EXCEPT !.cur = q.ws, !.want = q.ws]
           chosen == IF q.op = "create" /\ q.ws \in Listed(shown) THEN selected ELSE shown
           one == Rendered(page, chosen)
           seeded == IF Counts(r) THEN Seeded(one) ELSE one
           two == Rendered(one, seeded)
           saving == IF two.saving = r THEN Null ELSE two.saving
           creating == IF two.creating = r THEN Null ELSE two.creating
<1>1. page \in Pages /\ page \in Page /\ q \in Request
  BY TypedParts DEF Pages, Requests
<1>2. /\ listed \in Page /\ listed.list = q.list /\ listed.run = run /\ listed.role = page.role
      /\ listed.load = page.load /\ listed.cur = now
  <2>1. now \in Workspaces \cup {Null} /\ run \in Reqs \cup {Null} /\ want \in Workspaces \cup {Null}
    BY <1>1, CurrentType DEF Page
  <2> HIDE DEF now, run, want
  <2> QED  BY <1>1, <2>1 DEF Page, Request
<1>3. At(listed)
  <2> HIDE DEF listed
  <2> QED  BY <1>2, CurrentAt
<1> HIDE DEF listed
<1>4. shown \in Page /\ At(shown) /\ shown.load = page.load /\ shown.role = page.role
  BY <1>1, <1>2, <1>3
<1>5. /\ page.run = r => shown.list = q.list /\ shown.run = Null
      /\ page.run # r => shown.list = page.list /\ shown.run = page.run
  BY <1>2 DEF Counts
<1> HIDE DEF shown
<1>6. /\ chosen \in Page /\ chosen.load = page.load /\ chosen.role = page.role
      /\ chosen.list = shown.list /\ chosen.run = shown.run
      /\ chosen.cur = shown.cur \/ chosen.cur \in Listed(shown)
  <2>1. /\ selected \in Page /\ selected.load = shown.load /\ selected.role = shown.role
        /\ selected.list = shown.list /\ selected.run = shown.run /\ selected.cur = q.ws
    BY <1>1, <1>4 DEF Page, Request
  <2> HIDE DEF selected
  <2> QED  BY <1>4, <2>1
<1> HIDE DEF chosen
<1>7. chosen \in Pages  BY <1>1, <1>6 DEF Pages, Asking
<1>8. /\ one \in Page /\ one.list = chosen.list /\ one.cur = chosen.cur
      /\ one.run = chosen.run /\ one.role = chosen.role
  BY <1>1, <1>6, <1>7, RenderedType, RenderedKeeps DEF Pages
<1>9. one \in Pages  BY <1>1, <1>7, RenderedType
<1> HIDE DEF one
<1>10. /\ seeded \in Page /\ seeded.list = one.list /\ seeded.cur = one.cur /\ seeded.run = one.run
       /\ Counts(r) => \A w \in Workspaces :
             seeded.role[w] = IF one.list[w].role # "none" THEN one.list[w].role ELSE one.role[w]
       /\ ~Counts(r) => seeded.role = one.role
  <2>1. /\ Seeded(one) \in Page /\ Seeded(one).list = one.list /\ Seeded(one).cur = one.cur
        /\ Seeded(one).run = one.run
        /\ \A w \in Workspaces :
              Seeded(one).role[w] = IF one.list[w].role # "none" THEN one.list[w].role ELSE one.role[w]
    BY <1>8, <1>9, SeededType DEF Seeded, Page, Pages
  <2> QED  BY <1>8, <2>1
<1> HIDE DEF seeded
<1>11. /\ two \in Page /\ two.list = seeded.list /\ two.cur = seeded.cur
       /\ two.run = seeded.run /\ two.role = seeded.role
  <2>1. seeded \in Pages  BY <1>9, SeededType DEF seeded
  <2> QED  BY <1>9, <1>10, <2>1, RenderedType, RenderedKeeps DEF Pages
<1>12. page' = [two EXCEPT !.saving = saving, !.creating = creating]
  BY DEF ListLands, shown, listed, chosen, one, seeded
<1>13. saving \in Reqs \cup {Null} /\ creating \in Reqs \cup {Null}
  <2> HIDE DEF two
  <2> QED  BY <1>11 DEF Page
<1> HIDE DEF two, saving, creating
<1>14. /\ page'.list = two.list /\ page'.cur = two.cur /\ page'.run = two.run /\ page'.role = two.role
  BY <1>11, <1>12, <1>13 DEF Page
<1>15. page'.list = shown.list /\ page'.run = shown.run
  BY <1>6, <1>8, <1>10, <1>11, <1>14
<1>16. page'.cur = shown.cur \/ page'.cur \in Listed(shown)
  BY <1>6, <1>8, <1>10, <1>11, <1>14
<1>17. At(page)'
  <2>1. Listed(page)' = Listed(shown)  BY <1>15 DEF Listed
  <2> QED  BY <1>4, <1>16, <2>1 DEF At
<1>18. page.run = r => \A w \in Workspaces :
          page'.role[w] = IF q.list[w].role # "none" THEN q.list[w].role ELSE page.role[w]
  BY <1>5, <1>6, <1>8, <1>10, <1>11, <1>14 DEF Counts
<1>19. page.run # r => page'.role = page.role
  BY <1>6, <1>8, <1>10, <1>11, <1>14 DEF Counts
<1>20. Put(r, NoReq)  BY DEF ListLands
<1> QED  BY <1>5, <1>15, <1>17, <1>18, <1>19, <1>20, PutIs

\* A load goes on.
LEMMA LoadStepDoes ==
    ASSUME Typed, NEW k \in Loads, LoadStep(k)
    PROVE  /\ page'.list = page.list /\ page'.cur = page.cur /\ page'.run = page.run /\ page'.role = page.role
           /\ UNCHANGED <<server, req, disturbed>>
<1>1. page \in Page  BY TypedParts DEF Pages
<1>2. \E l : page' = [page EXCEPT !.load[k] = l]
  BY DEF LoadStep, LoadReads, LoadLands
<1>3. page'.list = page.list /\ page'.cur = page.cur /\ page'.run = page.run /\ page'.role = page.role
  BY <1>1, <1>2 DEF Page
<1> QED  BY <1>3 DEF LoadStep, LoadReads, LoadLands, server

---------------------------------------------------------------------------
(***************************************************************************)
(* What the page lists.                                                    *)
(***************************************************************************)
\* A request as it was, but for what it loaded.
Still(p, q) ==
    /\ p.op = q.op /\ p.by = q.by /\ p.ws = q.ws /\ p.user = q.user /\ p.stage = q.stage
    /\ p.ok = q.ok /\ p.got = q.got /\ p.list = q.list
OthersStill(r) == \A x \in Reqs \ {r} : Still(req'[x], req[x])

\* What Handle(r) makes of request r.
HandledFrom(p, q) ==
    \/ p = NoReq
    \/ /\ p.op = q.op /\ p.by = q.by /\ p.user = q.user
       /\ p.stage \in {"read", "half", "answered", "listed", "unlisted"}

\* A request whose end the list of workspaces follows.
Lists(q) == q.op \in {"create", "update", "delete"}

\* The first commit of a request that creates a workspace.
First(q) == q.op = "create" /\ q.stage = "read"

\* A commit: the requests, and what it changes.
LEMMA CommitDoes ==
    ASSUME Typed, NEW r \in Reqs, NEW ok \in BOOLEAN, Commit(r, ok)
    PROVE  /\ OthersStill(r) /\ HandledFrom(req'[r], req[r])
           /\ req[r].stage \in {"read", "half"}
           /\ First(req[r]) => req'[r].stage = "half" /\ req'[r].ok = req[r].ok /\ req'[r].list = req[r].list
           /\ ~First(req[r]) =>
                 /\ ~Mine(r) => req'[r] = NoReq
                 /\ Mine(r) => /\ req'[r].stage = "answered" /\ req'[r].ok = ok /\ req'[r].ws = req[r].ws
                               /\ req'[r].list = req[r].list
                               /\ req'[r].got = IF req[r].user = Null THEN "none"
                                                ELSE role'[req[r].ws][req[r].user]
                 /\ disturbed' = disturbed \cup Disturbances(r, ok)
           /\ role' = RolesAfter(req[r])
           /\ ~Lists(req[r]) => made' = made /\ open' = open
           /\ page' = page
<1> DEFINE q == req[r]
           w == IF First(q) THEN Least(Workspaces \ used) ELSE q.ws
           mine == [q EXCEPT !.stage = "answered", !.ok = ok,
                             !.got = IF q.user = Null THEN "none" ELSE role'[w][q.user]]
           half == [q EXCEPT !.stage = "half", !.ws = w]
<1>1. q \in Request /\ \A x \in Reqs : req[x] \in Request
  BY TypedParts DEF Requests
<1>2. req'[r] = IF First(q) THEN half ELSE IF ~Mine(r) THEN NoReq ELSE mine
  BY DEF Commit, First
<1>3. \A x \in Reqs \ {r} : req'[x] \in {req[x], [req[x] EXCEPT !.loaded = "gone"]}
  BY DEF Commit
<1>4. OthersStill(r)
  BY <1>1, <1>3 DEF OthersStill, Still, Request
<1>5. /\ half.stage = "half" /\ half.ok = q.ok /\ half.list = q.list /\ half.op = q.op /\ half.by = q.by
      /\ half.user = q.user
  BY <1>1 DEF Request
<1>6. /\ mine.stage = "answered" /\ mine.ok = ok /\ mine.ws = q.ws /\ mine.list = q.list /\ mine.op = q.op
      /\ mine.by = q.by /\ mine.user = q.user
      /\ mine.got = IF q.user = Null THEN "none" ELSE role'[w][q.user]
  BY <1>1 DEF Request
<1> HIDE DEF half, mine
<1>7. ~First(q) => w = q.ws  OBVIOUS
<1>8. ~First(q) => disturbed' = disturbed \cup Disturbances(r, ok)
  BY DEF Commit, Note, First
<1>9. role' = RolesAfter(q) /\ page' = page /\ q.stage \in {"read", "half"}
  BY DEF Commit
<1>10. ~Lists(q) => made' = made /\ open' = open
  BY DEF Commit, Lists
<1>11. HandledFrom(req'[r], q)
  BY <1>2, <1>5, <1>6 DEF HandledFrom
<1> QED  BY <1>2, <1>4, <1>5, <1>6, <1>7, <1>8, <1>9, <1>10, <1>11

\* list is the list of a server with the workspaces m and the settings o.
AlikeTo(list, m, o) == \A w \in Workspaces : (list[w].made <=> w \in m) /\ (w \in m => list[w].open = o[w])

\* A change of Me's that his page will hear of, and then load the list again.
Com(q) == q.by = Me /\ Lists(q) /\ (q.stage = "half" \/ (q.stage = "answered" /\ q.ok))
Coming == \E r \in Reqs : Com(req[r])

RunIs == page.run # Null => /\ Mine(page.run) /\ Lists(req[page.run])
                            /\ req[page.run].stage \in {"refresh", "listed", "unlisted"}
Refreshed(q) == /\ q.stage = "unlisted" => "unlisted" \in disturbed
                /\ q.op \in {"update", "create"} => q.by = Me
ListsTold == RunIs /\ At(page) /\ \A r \in Reqs : Refreshed(req[r])

\* What is shown, or is about to be, is as the server has it, unless there is more to come.
ListNews ==
    Spared({"unlisted"}) /\ ~Coming =>
        IF page.run = Null THEN AlikeTo(page.list, made, open)
        ELSE req[page.run].stage = "listed" => AlikeTo(req[page.run].list, made, open)
ListInv == ListsTold /\ ListNews

\* A step on request r that leaves the list of the page and its load alone.
LEMMA SameLists ==
    ASSUME Typed, ListsTold, NEW r \in Reqs, OthersStill(r), disturbed \subseteq disturbed',
           page'.run = page.run, page.run # r, At(page)', Refreshed(req[r])'
    PROVE  ListsTold'
<1>1. page.run \in Reqs \cup {Null}  BY TypedParts DEF Pages, Page
<1>2. RunIs'
  BY <1>1 DEF RunIs, ListsTold, OthersStill, Still, Lists, Mine
<1>3. \A x \in Reqs \ {r} : Refreshed(req[x])'
  BY DEF ListsTold, Refreshed, OthersStill, Still
<1> QED  BY <1>2, <1>3 DEF ListsTold

LEMMA SameNews ==
    ASSUME Typed, ListNews, NEW r \in Reqs, OthersStill(r), disturbed \subseteq disturbed',
           page'.run = page.run, page'.list = page.list, page.run # r, made' = made, open' = open,
           Com(req[r]) => Com(req'[r]) \/ "unlisted" \in disturbed'
    PROVE  ListNews'
<1> SUFFICES ASSUME Spared({"unlisted"})', ~Coming'
             PROVE  IF page.run = Null THEN AlikeTo(page.list, made, open)
                    ELSE req'[page.run].stage = "listed" => AlikeTo(req'[page.run].list, made, open)
  BY DEF ListNews
<1>1. page.run \in Reqs \cup {Null}  BY TypedParts DEF Pages, Page
<1>2. Spared({"unlisted"})  BY DEF Spared
<1>3. ASSUME NEW x \in Reqs, Com(req[x]) PROVE FALSE
  <2>1. CASE x = r  BY <1>3, <2>1 DEF Coming, Spared
  <2>2. CASE x # r
    <3>1. Com(req'[x])  BY <1>3, <2>2 DEF Com, Lists, OthersStill, Still
    <3> QED  BY <3>1 DEF Coming
  <2> QED  BY <2>1, <2>2
<1>4. ~Coming  BY <1>3 DEF Coming
<1>5. CASE page.run = Null  BY <1>2, <1>4, <1>5 DEF ListNews
<1>6. CASE page.run # Null
  <2>1. Still(req'[page.run], req[page.run])  BY <1>1, <1>6 DEF OthersStill
  <2> QED  BY <1>2, <1>4, <1>6, <2>1 DEF ListNews, Still
<1> QED  BY <1>5, <1>6

LEMMA MoreComes ==
    ASSUME NEW r \in Reqs, Com(req'[r]) \/ "unlisted" \in disturbed'
    PROVE  ListNews'
BY DEF ListNews, Coming, Spared

LEMMA RequestLists ==
    ASSUME Typed, ListInv, NEW r \in Reqs, Read(r) \/ Fail(r) \/ \E ok \in BOOLEAN : Commit(r, ok)
    PROVE  ListInv'
<1>0. page.run # r
  BY NullAssumption DEF ListInv, ListsTold, RunIs, Read, Fail, Commit
<1>1. disturbed \subseteq disturbed'  BY DisturbedGrows DEF Next, Handle
<1>2. Refreshed(req[r])  BY DEF ListInv, ListsTold
<1>3. req[r] \in Request  BY TypedParts DEF Requests
<1>4. ASSUME Read(r) PROVE ListInv'
  <2>1. /\ req'[r].op = req[r].op /\ req'[r].by = req[r].by /\ req'[r].stage \in {"answered", "read"}
        /\ OthersStill(r) /\ page' = page /\ UNCHANGED <<made, open>> /\ req[r].stage = "sent"
    <3> DEFINE read(l, s) == [req[r] EXCEPT !.stage = "read", !.loaded = l, !.was = s]
               ended == [req[r] EXCEPT !.stage = "answered"]
               Same(q) == q.op = req[r].op /\ q.by = req[r].by
    <3>1. \A l, s : Same(read(l, s)) /\ read(l, s).stage = "read"  BY <1>3 DEF Request
    <3>2. Same(ended) /\ ended.stage = "answered"  BY <1>3 DEF Request
    <3>3. \E l, s : Put(r, read(l, s)) \/ Put(r, ended)
      BY <1>4, Zenon DEF Read
    <3> HIDE DEF read, ended
    <3>4. \E q : Put(r, q) /\ Same(q) /\ q.stage \in {"answered", "read"}
      BY <3>1, <3>2, <3>3
    <3> QED  BY <1>4, <3>4, PutIs DEF Read, OthersStill, Still, server
  <2>2. Refreshed(req[r])'  BY <1>2, <2>1 DEF Refreshed
  <2>3. ~Com(req[r])  BY <2>1 DEF Com
  <2> QED  BY <1>0, <1>1, <2>1, <2>2, <2>3, SameLists, SameNews DEF ListInv, ListsTold, At, Listed
<1>5. ASSUME Fail(r) PROVE ListInv'
  <2>1. /\ req'[r] = NoReq \/ (/\ req'[r].op = req[r].op /\ req'[r].by = req[r].by
                               /\ req'[r].stage = "answered")
        /\ OthersStill(r) /\ page' = page /\ UNCHANGED <<made, open>>
        /\ req[r].stage \in {"sent", "read", "half"}
        /\ req[r].stage = "half" => "unlisted" \in disturbed'
    <3>1. \E q : /\ Put(r, q)
                 /\ q = NoReq \/ (q.op = req[r].op /\ q.by = req[r].by /\ q.stage = "answered")
      BY <1>3, <1>5 DEF Fail, Request
    <3> QED  BY <1>5, <3>1, PutIs DEF Fail, OthersStill, Still, server, Note
  <2>2. Refreshed(req[r])'  BY <1>2, <2>1 DEF Refreshed, NoReq
  <2>3. Com(req[r]) => "unlisted" \in disturbed'  BY <2>1 DEF Com
  <2> QED  BY <1>0, <1>1, <2>1, <2>2, <2>3, SameLists, SameNews DEF ListInv, ListsTold, At, Listed
<1>6. ASSUME NEW ok \in BOOLEAN, Commit(r, ok) PROVE ListInv'
  <2>1. /\ OthersStill(r) /\ HandledFrom(req'[r], req[r]) /\ page' = page
        /\ req[r].stage \in {"read", "half"} /\ req'[r].stage # "unlisted"
    BY <1>6, CommitDoes DEF NoReq
  <2>2. Refreshed(req[r])'  BY <1>2, <2>1 DEF Refreshed, HandledFrom, NoReq
  <2>3. ListsTold'  BY <1>0, <1>1, <2>1, <2>2, SameLists DEF ListInv, ListsTold, At, Listed
  <2>4. CASE First(req[r])
    <3>1. req'[r].op = "create" /\ req'[r].by = Me /\ req'[r].stage = "half"
      BY <1>2, <1>6, <2>1, <2>4, CommitDoes DEF Refreshed, First, HandledFrom, NoReq
    <3> QED  BY <2>3, <3>1, MoreComes DEF ListInv, Com, Lists
  <2>5. CASE ~First(req[r]) /\ Lists(req[r]) /\ Mine(r) /\ ok
    <3>1. req'[r].stage = "answered" /\ req'[r].ok = ok  BY <1>6, <2>5, CommitDoes
    <3>2. req'[r].op = req[r].op /\ req'[r].by = Me
      BY <2>1, <2>5, <3>1 DEF HandledFrom, NoReq, Mine
    <3>3. Com(req'[r])  BY <2>5, <3>1, <3>2 DEF Com, Lists
    <3> QED  BY <2>3, <3>3, MoreComes DEF ListInv
  <2>6. CASE ~First(req[r]) /\ Lists(req[r]) /\ ~(Mine(r) /\ ok)
    <3>1. "unlisted" \in Disturbances(r, ok)  BY <2>6 DEF Disturbances, Lists
    <3>2. "unlisted" \in disturbed'  BY <1>6, <2>6, <3>1, CommitDoes
    <3> QED  BY <2>3, <3>2, MoreComes DEF ListInv
  <2>7. CASE ~Lists(req[r])
    <3>1. made' = made /\ open' = open  BY <1>6, <2>7, CommitDoes
    <3> QED  BY <1>0, <1>1, <2>1, <2>3, <2>7, <3>1, SameNews DEF ListInv, Com
  <2> QED  BY <2>4, <2>5, <2>6, <2>7
<1> QED  BY <1>4, <1>5, <1>6

\* Requests that stay as they are.
LEMMA UnchangedLists ==
    ASSUME ListInv, req' = req, disturbed \subseteq disturbed', page'.run = page.run, page'.list = page.list,
           made' = made, open' = open, At(page)'
    PROVE  ListInv'
<1>1. ListsTold'  BY DEF ListInv, ListsTold, RunIs, Refreshed, Mine, Lists
<1>2. ListNews'
  <2> SUFFICES ASSUME Spared({"unlisted"}), ~Coming, disturbed' \cap {"unlisted"} = {}
               PROVE  IF page.run = Null THEN AlikeTo(page.list, made, open)
                      ELSE req[page.run].stage = "listed" => AlikeTo(req[page.run].list, made, open)
    BY DEF ListNews, Coming, Spared
  <2> QED  BY DEF ListInv, ListNews
<1> QED  BY <1>1, <1>2 DEF ListInv

LEMMA ReadsList ==
    ASSUME Typed, ListInv, NEW r \in Reqs, NEW ok \in BOOLEAN, ListReads(r, ok)
    PROVE  ListInv'
<1> DEFINE q == [req[r] EXCEPT !.stage = IF ok THEN "listed" ELSE "unlisted", !.list = IF ok THEN MyList ELSE @]
<1>0. disturbed \subseteq disturbed'  BY DEF ListReads, Note
<1>1. req[r] \in Request /\ page.run \in Reqs \cup {Null}  BY TypedParts DEF Requests, Pages, Page
<1>2. /\ q.op = req[r].op /\ q.by = req[r].by /\ q.stage = IF ok THEN "listed" ELSE "unlisted"
      /\ ok => q.list = MyList
  BY <1>1 DEF Request
<1>3. req'[r] = q /\ OthersStill(r)
  <2>1. Put(r, q)  BY DEF ListReads
  <2> HIDE DEF q
  <2> QED  BY <2>1, PutIs DEF OthersStill, Still
<1> HIDE DEF q
<1>4. page' = page /\ UNCHANGED <<made, open>> /\ req[r].stage = "refresh" /\ (~ok => "unlisted" \in disturbed')
  BY DEF ListReads, server, Note
<1>5. Refreshed(req[r])'
  BY <1>2, <1>3, <1>4 DEF ListInv, ListsTold, Refreshed
<1>6. CASE page.run # r
  BY <1>0, <1>4, <1>5, <1>6, <1>3, SameLists, SameNews DEF ListInv, ListsTold, At, Listed, Com
<1>7. CASE page.run = r
  <2>1. RunIs'
    BY <1>2, <1>3, <1>4, <1>7, NullAssumption DEF ListInv, ListsTold, RunIs, Mine, Lists
  <2>2. \A x \in Reqs \ {r} : Refreshed(req[x])'
    BY <1>0, <1>3 DEF ListInv, ListsTold, Refreshed, OthersStill, Still
  <2>3. At(page)'  BY <1>4 DEF ListInv, ListsTold, At, Listed
  <2>4. ListsTold'  BY <1>5, <2>1, <2>2, <2>3 DEF ListsTold
  <2>5. AlikeTo(MyList, made, open)
    BY DEF AlikeTo, MyList, NoList
  <2>6. ListNews'
    <3>1. CASE ok  BY <1>2, <1>3, <1>4, <1>7, <2>5, <3>1, NullAssumption DEF ListNews
    <3>2. CASE ~ok  BY <1>4, <3>2, MoreComes
    <3> QED  BY <3>1, <3>2
  <2> QED  BY <2>4, <2>6 DEF ListInv
<1> QED  BY <1>6, <1>7

LEMMA DeliverLists ==
    ASSUME Typed, ListInv, NEW r \in Reqs, Deliver(r)
    PROVE  ListInv'
<1>0. disturbed \subseteq disturbed'  BY DisturbedGrows DEF Next
<1>1. UNCHANGED <<made, open>>
  BY DEF Deliver, Acted, Answered, ListLands, server
<1>2. Refreshed(NoReq)'  BY DEF Refreshed, NoReq
<1>3. At(page) /\ r # Null /\ req[r] \in Request /\ Refreshed(req[r])
  BY TypedParts, NullAssumption DEF ListInv, ListsTold, Requests
<1>4. ASSUME Acted(r) PROVE ListInv'
  <2>1. /\ page'.list = page.list /\ page'.cur = page.cur /\ page'.run = page.run
        /\ req'[r] = NoReq /\ OthersStill(r) /\ req[r].stage = "answered" /\ ~Lists(req[r])
    BY <1>4, ActedDoes DEF OthersStill, Still, Acted, Lists
  <2>2. At(page)'  BY <1>3, <2>1 DEF At, Listed
  <2>3. page.run # r /\ ~Com(req[r])
    BY <1>3, <2>1 DEF ListInv, ListsTold, RunIs, Com
  <2> QED  BY <1>0, <1>1, <1>2, <2>1, <2>2, <2>3, SameLists, SameNews DEF ListInv
<1>5. ASSUME Answered(r) PROVE ListInv'
  <2>1. /\ page'.list = page.list /\ page'.cur = page.cur
        /\ page'.run = IF req[r].ok THEN r ELSE page.run
        /\ req'[r] = IF req[r].ok THEN [req[r] EXCEPT !.stage = "refresh"] ELSE NoReq
        /\ OthersStill(r) /\ req[r].stage = "answered" /\ Lists(req[r]) /\ Mine(r)
    BY <1>5, AnsweredDoes DEF OthersStill, Still, Answered, Lists
  <2>2. At(page)'  BY <1>3, <2>1 DEF At, Listed
  <2>3. page.run # r
    BY <1>3, <2>1 DEF ListInv, ListsTold, RunIs
  <2>4. CASE ~req[r].ok
    BY <1>0, <1>1, <1>2, <2>1, <2>2, <2>3, <2>4, SameLists, SameNews DEF ListInv, Com
  <2>5. CASE req[r].ok
    <3>1. req'[r].op = req[r].op /\ req'[r].by = req[r].by /\ req'[r].stage = "refresh" /\ page'.run = r
      BY <1>3, <2>1, <2>5 DEF Request
    <3>2. RunIs'  BY <2>1, <3>1 DEF RunIs, Mine, Lists
    <3>3. \A x \in Reqs : Refreshed(req[x])'
      <4>1. Refreshed(req[r])'  BY <1>3, <3>1 DEF Refreshed
      <4>2. ASSUME NEW x \in Reqs \ {r} PROVE Refreshed(req[x])'
        BY <1>0, <2>1 DEF ListInv, ListsTold, Refreshed, OthersStill, Still
      <4> QED  BY <4>1, <4>2
    <3>4. ListNews'  BY <1>3, <3>1 DEF ListNews
    <3> QED  BY <2>2, <3>2, <3>3, <3>4 DEF ListInv, ListsTold
  <2> QED  BY <2>4, <2>5
<1>6. ASSUME ListLands(r) PROVE ListInv'
  <2>1. /\ page.run = r => page'.list = req[r].list /\ page'.run = Null
        /\ page.run # r => page'.list = page.list /\ page'.run = page.run
        /\ At(page)' /\ req'[r] = NoReq /\ OthersStill(r)
        /\ req[r].stage \in {"listed", "unlisted"}
    BY <1>3, <1>6, ListLandsDoes DEF OthersStill, Still, ListLands
  <2>2. ~Com(req[r])  BY <2>1 DEF Com
  <2>3. CASE page.run # r
    BY <1>0, <1>1, <1>2, <2>1, <2>2, <2>3, SameLists, SameNews DEF ListInv
  <2>4. CASE page.run = r
    <3>1. \A x \in Reqs : Refreshed(req[x])'
      BY <1>0, <1>2, <2>1 DEF ListInv, ListsTold, Refreshed, OthersStill, Still
    <3>2. ListsTold'  BY <2>1, <2>4, <3>1 DEF ListsTold, RunIs
    <3>3. ASSUME Spared({"unlisted"})', ~Coming' PROVE AlikeTo(req[r].list, made, open)
      <4>1. Spared({"unlisted"})  BY <1>0, <3>3 DEF Spared
      <4>2. ~Coming  BY <2>1, <2>2, <3>3 DEF Coming, Com, Lists, OthersStill, Still
      <4>3. req[r].stage = "listed"  BY <1>3, <2>1, <4>1 DEF Refreshed, Spared
      <4> QED  BY <1>3, <2>4, <4>1, <4>2, <4>3 DEF ListInv, ListNews
    <3>4. ListNews'  BY <1>1, <2>1, <2>4, <3>3 DEF ListNews
    <3> QED  BY <3>2, <3>4 DEF ListInv
  <2> QED  BY <2>3, <2>4
<1> QED  BY <1>4, <1>5, <1>6 DEF Deliver

LEMMA UserLists == ASSUME Typed, ListInv, User PROVE ListInv'
<1>1. /\ page'.list = page.list /\ page'.run = page.run
      /\ page'.cur = page.cur \/ page'.cur \in Listed(page)
      /\ UNCHANGED server /\ disturbed \subseteq disturbed'
      /\ req' = req \/ \E s \in Reqs : Taken(s)
  BY UserDoes
<1>2. At(page)'  BY <1>1 DEF ListInv, ListsTold, At, Listed
<1>3. CASE req' = req
  BY <1>1, <1>2, <1>3, UnchangedLists DEF server
<1>4. ASSUME NEW s \in Reqs, Taken(s) PROVE ListInv'
  <2>1. page.run # s /\ ~Com(req[s])
    BY <1>4, NullAssumption DEF ListInv, ListsTold, RunIs, Taken, Lists, Com
  <2>2. Refreshed(req[s])'  BY <1>4 DEF Taken, New, Refreshed
  <2>3. OthersStill(s)  BY <1>4 DEF Taken, OthersStill, Still
  <2> QED  BY <1>1, <1>2, <2>1, <2>2, <2>3, SameLists, SameNews DEF ListInv, server
<1> QED  BY <1>1, <1>3, <1>4

LEMMA InitLists == Init => ListInv
<1> SUFFICES ASSUME Init PROVE ListInv
  OBVIOUS
<1>0. Typed  BY InitTyped
<1>1. PICK last \in Workspaces : made = {w \in Workspaces : w <= last}  BY DEF Init
<1>2. last \in made /\ made \subseteq Nat
  <2>1. last \in Nat  BY NumbersAssumption
  <2>2. last <= last  BY <2>1
  <2>3. last \in made  BY <1>1, <2>2
  <2>4. made \subseteq Nat  BY <1>1, NumbersAssumption
  <2> QED  BY <2>3, <2>4
<1>3. Least(made) \in made  BY <1>2, LeastIn
<1>4. page.list = MyList /\ page.cur = Least(made) /\ page.run = Null /\ \A r \in Reqs : req[r] = NoReq
  BY DEF Init
<1>5. AlikeTo(MyList, made, open)  BY DEF AlikeTo, MyList, NoList
<1>6. Listed(page) = made  BY <1>0, <1>4, <1>5 DEF Listed, AlikeTo, Typed, TypeOK
<1>7. ListsTold  BY <1>3, <1>4, <1>6 DEF ListsTold, RunIs, At, Refreshed, NoReq
<1> QED  BY <1>4, <1>5, <1>7 DEF ListInv, ListNews

LEMMA StepLists == Typed /\ ListInv /\ [Next]_vars => ListInv'
<1> SUFFICES ASSUME Typed, ListInv, [Next]_vars PROVE ListInv'
  OBVIOUS
<1>1. ASSUME NEW r \in Reqs, Handle(r) PROVE ListInv'
  BY <1>1, RequestLists, ReadsList DEF Handle
<1>2. ASSUME NEW r \in Reqs, Deliver(r) PROVE ListInv'
  BY <1>2, DeliverLists
<1>3. ASSUME NEW k \in Loads, LoadStep(k) PROVE ListInv'
  BY <1>3, LoadStepDoes, UnchangedLists DEF server, ListInv, ListsTold, At, Listed
<1>4. CASE UNCHANGED vars
  BY <1>4, UnchangedLists DEF vars, server, ListInv, ListsTold, At, Listed
<1> QED  BY <1>1, <1>2, <1>3, <1>4, UserLists DEF Next

\* At rest the page lists the workspaces there are with their settings and is at one of
\* them (refresh() after each change of Me's, the latest load counts), unless one was
\* changed elsewhere or the list not loaded again.
THEOREM ListsShown == Spec => []ListShown
<1>1. Typed /\ ListInv => ListShown
  <2> SUFFICES ASSUME Typed, ListInv, Quiet, Spared({"unlisted"})
               PROVE  /\ Listed(page) = made
                      /\ \A w \in made : page.list[w].open = open[w]
                      /\ page.cur \in made \cup {Null} /\ (page.cur = Null => made = {})
    BY DEF ListShown
  <2>1. ~Coming  BY DEF Quiet, Mine, Coming, Com
  <2>2. page.run = Null  BY TypedParts DEF Quiet, ListInv, ListsTold, RunIs, Pages, Page
  <2>3. AlikeTo(page.list, made, open)  BY <2>1, <2>2 DEF ListInv, ListNews
  <2>4. made \subseteq Workspaces  BY DEF Typed, TypeOK
  <2>5. Listed(page) = made  BY <2>3, <2>4 DEF Listed, AlikeTo
  <2> QED  BY <2>3, <2>4, <2>5, NullAssumption DEF AlikeTo, ListInv, ListsTold, At
<1>2. Spec => []Typed
  BY InitTyped, StepTyped, PTL DEF Spec
<1> QED  BY <1>1, <1>2, InitLists, StepLists, PTL DEF Spec

---------------------------------------------------------------------------
(***************************************************************************)
(* The role of Me that the page knows.                                     *)
(***************************************************************************)
\* An answer that gives the page the role of Me in w, and the role it gives.
Learns(q, w) ==
    /\ q.by = Me /\ q.stage = "answered" /\ q.ok /\ q.ws = w
    /\ q.op = "create" \/ (q.op \in {"add", "change"} /\ q.user = Me)
Learnt(q) == IF q.op = "create" THEN "owner" ELSE q.got

\* What has been answered to a request is of its stage, a list is one for Me.
Answers(q) ==
    /\ q.ok => q.stage \in {"answered", "refresh", "listed", "unlisted"}
    /\ q.stage \in {"refresh", "listed"} => q.by = Me
    /\ \A w \in Workspaces : q.list[w].role # "none" => q.stage = "listed"

\* The news on their way are those of the server, with roles rs.
Truthful(q, rs) ==
    \A w \in Workspaces : /\ Learns(q, w) => rs[w][Me] = Learnt(q)
                          /\ q.list[w].role \in {"none", rs[w][Me]}

\* The page knows each role, or an answer that gives it is on its way.
RoleNews ==
    Spared({"unseen", "crossed"}) =>
        /\ \A r \in Reqs : Truthful(req[r], role)
        /\ \A w \in Workspaces : page.role[w] = role[w][Me] \/ \E r \in Reqs : Learns(req[r], w)
RoleInv == (\A r \in Reqs : Answers(req[r])) /\ RoleNews

LEMMA StillRoles ==
    ASSUME NEW p, NEW q, Still(p, q)
    PROVE  /\ \A w \in Workspaces : Learns(p, w) <=> Learns(q, w)
           /\ Answers(q) => Answers(p)
           /\ \A rs : Truthful(q, rs) => Truthful(p, rs)
<1>1. \A w \in Workspaces : Learns(p, w) <=> Learns(q, w)  BY DEF Still, Learns
<1>2. Learnt(p) = Learnt(q)  BY DEF Still, Learnt
<1>3. Answers(q) => Answers(p)  BY DEF Still, Answers
<1>4. \A rs : Truthful(q, rs) => Truthful(p, rs)  BY <1>1, <1>2 DEF Truthful, Still
<1> QED  BY <1>1, <1>3, <1>4

LEMMA NoReqRoles == Answers(NoReq) /\ (\A w : ~Learns(NoReq, w)) /\ \A rs : Truthful(NoReq, rs)
<1>1. /\ NoReq.stage = "none" /\ ~NoReq.ok
      /\ \A w \in Workspaces : NoReq.list[w].role = "none"
  BY DEF NoReq, NoList
<1> QED  BY <1>1 DEF Answers, Learns, Truthful

\* A step on request r that changes no role and by which the page learns what it gives.
LEMMA SameRoles ==
    ASSUME RoleInv, NEW r \in Reqs, OthersStill(r), disturbed \subseteq disturbed', role' = role,
           Answers(req'[r]), RoleNews /\ Spared({"unseen", "crossed"}) => Truthful(req'[r], role),
           \A w \in Workspaces : \/ page'.role[w] = page.role[w] /\ (Learns(req[r], w) => Learns(req'[r], w))
                                 \/ RoleNews /\ Spared({"unseen", "crossed"}) => page'.role[w] = role[w][Me]
    PROVE  RoleInv'
<1>1. \A x \in Reqs : Answers(req'[x])
  BY StillRoles DEF RoleInv, OthersStill
<1>2. ASSUME Spared({"unseen", "crossed"})'
      PROVE  /\ \A x \in Reqs : Truthful(req'[x], role)
             /\ \A w \in Workspaces : page'.role[w] = role[w][Me] \/ \E x \in Reqs : Learns(req'[x], w)
  <2>1. Spared({"unseen", "crossed"})  BY <1>2 DEF Spared
  <2>2. /\ \A x \in Reqs : Truthful(req[x], role)
        /\ \A w \in Workspaces : page.role[w] = role[w][Me] \/ \E x \in Reqs : Learns(req[x], w)
        /\ RoleNews
    BY <2>1 DEF RoleInv, RoleNews
  <2>3. \A x \in Reqs : Truthful(req'[x], role)
    BY <2>1, <2>2, StillRoles DEF OthersStill
  <2>4. ASSUME NEW w \in Workspaces, NEW x \in Reqs, Learns(req[x], w), Learns(req[r], w) => Learns(req'[r], w)
        PROVE  \E y \in Reqs : Learns(req'[y], w)
    <3>1. CASE x = r  BY <2>4, <3>1
    <3>2. CASE x # r  BY <2>4, <3>2, StillRoles DEF OthersStill
    <3> QED  BY <3>1, <3>2
  <2>5. ASSUME NEW w \in Workspaces
        PROVE  page'.role[w] = role[w][Me] \/ \E x \in Reqs : Learns(req'[x], w)
    BY <2>1, <2>2, <2>4
  <2> QED  BY <2>3, <2>5
<1> QED  BY <1>1, <1>2 DEF RoleInv, RoleNews

LEMMA UnchangedRoles ==
    ASSUME RoleInv, req' = req, disturbed \subseteq disturbed', page'.role = page.role, role' = role
    PROVE  RoleInv'
<1>1. Spared({"unseen", "crossed"})' => Spared({"unseen", "crossed"})  BY DEF Spared
<1> QED  BY <1>1 DEF RoleInv, RoleNews

\* Whose roles a commit changes.
LEMMA RolesChange ==
    ASSUME Typed, NEW r \in Reqs, NEW w \in Workspaces, NEW u \in Users, RolesAfter(req[r])[w][u] # role[w][u]
    PROVE  /\ w = req[r].ws
           /\ \/ req[r].op = "delete"
              \/ req[r].op = "create" /\ req[r].stage # "read" /\ u = req[r].by
              \/ req[r].op \notin {"delete", "create", "update"} /\ u = req[r].user
<1> DEFINE q == req[r]
<1>1. role \in [Workspaces -> Rows] /\ role[w] \in Rows  BY TypedParts
<1>2. \A a, b, v : a # w \/ b # u => [role EXCEPT ![a][b] = v][w][u] = role[w][u]
  BY <1>1 DEF Rows
<1>3. \A a : a # w => [role EXCEPT ![a] = NoRows][w][u] = role[w][u]
  BY <1>1
<1>4. CASE q.op = "delete"  BY <1>3, <1>4 DEF RolesAfter
<1>5. CASE q.op = "create"  BY <1>2, <1>5 DEF RolesAfter
<1>6. CASE q.op \notin {"delete", "create"}
  <2> DEFINE g == Given(q)
  <2>1. RolesAfter(q) = role \/ (q.op # "update" /\ RolesAfter(q) = [role EXCEPT ![q.ws][q.user] = g])
    BY <1>6 DEF RolesAfter
  <2> HIDE DEF g
  <2>2. q.ws # w \/ q.user # u => [role EXCEPT ![q.ws][q.user] = g][w][u] = role[w][u]
    BY <1>2
  <2>3. RolesAfter(q) # role  OBVIOUS
  <2> QED  BY <1>6, <2>1, <2>2, <2>3
<1> QED  BY <1>4, <1>5, <1>6

LEMMA CommitRoles ==
    ASSUME Typed, RoleInv, NEW r \in Reqs, NEW ok \in BOOLEAN, Commit(r, ok)
    PROVE  RoleInv'
<1> DEFINE q == req[r]
<1>0. disturbed \subseteq disturbed'  BY DEF Commit, Note
<1>1. /\ OthersStill(r) /\ HandledFrom(req'[r], q) /\ q.stage \in {"read", "half"}
      /\ First(q) => req'[r].stage = "half" /\ req'[r].ok = q.ok /\ req'[r].list = q.list
      /\ ~First(q) =>
            /\ ~Mine(r) => req'[r] = NoReq
            /\ Mine(r) => /\ req'[r].stage = "answered" /\ req'[r].ok = ok /\ req'[r].ws = q.ws
                          /\ req'[r].list = q.list
                          /\ req'[r].got = IF q.user = Null THEN "none" ELSE role'[q.ws][q.user]
            /\ disturbed' = disturbed \cup Disturbances(r, ok)
      /\ role' = RolesAfter(q) /\ page' = page
  BY CommitDoes
<1>2. /\ role \in [Workspaces -> Rows] /\ role' \in [Workspaces -> Rows]
      /\ Named(q) /\ Me \in Users /\ Me # Null
  BY <1>1, TypedParts, RolesAfterType, UsersAssumption, NullAssumption DEF Typed
<1>3. \A x \in Reqs : Answers(req[x])  BY DEF RoleInv
<1>4. ~q.ok /\ \A w \in Workspaces : q.list[w].role = "none" /\ ~Learns(q, w)
  BY <1>1, <1>3 DEF Answers, Learns
<1>5. Answers(req'[r])
  <2>1. CASE req'[r] = NoReq  BY <2>1, NoReqRoles
  <2>2. CASE req'[r].stage \in {"half", "answered"} /\ req'[r].list = q.list
             /\ (req'[r].ok => req'[r].stage = "answered")
    BY <1>4, <2>2 DEF Answers
  <2> QED  BY <1>1, <1>4, <2>1, <2>2
<1>6. \A x \in Reqs : Answers(req'[x])
  BY <1>1, <1>3, <1>5, StillRoles DEF OthersStill
<1>7. ASSUME First(q) PROVE RoleInv'
  <2>1. role' = role  BY <1>1, <1>7 DEF RolesAfter, First
  <2>2. Truthful(req'[r], role)  BY <1>1, <1>4, <1>7 DEF Truthful, Learns
  <2> QED  BY <1>0, <1>1, <1>4, <1>5, <2>1, <2>2, SameRoles
<1>8. ASSUME ~First(q), Spared({"unseen", "crossed"})'
      PROVE  /\ \A x \in Reqs : Truthful(req'[x], role')
             /\ \A w \in Workspaces : page.role[w] = role'[w][Me] \/ \E x \in Reqs : Learns(req'[x], w)
  <2> DEFINE mine == \E w \in Workspaces : role'[w][Me] # role[w][Me]
  <2>1. Spared({"unseen", "crossed"})  BY <1>0, <1>8 DEF Spared
  <2>2. /\ \A x \in Reqs : Truthful(req[x], role)
        /\ \A w \in Workspaces : page.role[w] = role[w][Me] \/ \E x \in Reqs : Learns(req[x], w)
    BY <2>1 DEF RoleInv, RoleNews
  <2>3. ASSUME mine
        PROVE  /\ \A x \in Reqs \ {r} : ~(Mine(x) /\ req[x].stage \in {"answered", "listed"})
               /\ Mine(r) /\ ok /\ q.op \in {"add", "change", "create"}
    <3>1. PICK w \in Workspaces : role'[w][Me] # role[w][Me]  BY <2>3
    <3>2. \E v \in {x \in Workspaces : RolesAfter(q)[x] # role[x]} : RolesAfter(q)[v][Me] # role[v][Me]
      BY <1>1, <3>1
    <3>3. "unseen" \notin Disturbances(r, ok) /\ "crossed" \notin Disturbances(r, ok)
      BY <1>1, <1>8 DEF Spared
    <3>4. Mine(r) /\ ok /\ q.op \in {"add", "change", "create"}
      BY <3>2, <3>3 DEF Disturbances
    <3>5. \A x \in Reqs \ {r} : ~(Mine(x) /\ req[x].stage \in {"answered", "listed"})
      BY <3>2, <3>3 DEF Disturbances
    <3> QED  BY <3>4, <3>5
  <2>4. Truthful(req'[r], role')
    <3>1. CASE ~Mine(r)  BY <1>1, <1>8, <3>1, NoReqRoles
    <3>2. CASE Mine(r)
      <4>1. \A w \in Workspaces : req'[r].list[w].role = "none"  BY <1>1, <1>4, <1>8, <3>2
      <4>2. ASSUME NEW w \in Workspaces, Learns(req'[r], w) PROVE role'[w][Me] = Learnt(req'[r])
        <5>1. w = q.ws /\ req'[r].op = q.op /\ req'[r].user = q.user /\ q.by = Me
          BY <1>1, <1>8, <3>2, <4>2 DEF Learns, HandledFrom, NoReq, Mine
        <5>2. CASE q.op = "create"
          <6>1. q.stage # "read"  BY <1>8, <5>2 DEF First
          <6>2. role' = [role EXCEPT ![w][Me] = "owner"]  BY <1>1, <5>1, <5>2, <6>1 DEF RolesAfter
          <6>3. role'[w][Me] = "owner"  BY <1>2, <6>2 DEF Rows
          <6> QED  BY <5>1, <5>2, <6>3 DEF Learnt
        <5>3. CASE q.op # "create"
          <6>1. q.user = Me  BY <4>2, <5>1, <5>3 DEF Learns
          <6>2. req'[r].got = role'[w][Me]  BY <1>1, <1>2, <1>8, <3>2, <5>1, <6>1
          <6> QED  BY <5>1, <5>3, <6>2 DEF Learnt
        <5> QED  BY <5>2, <5>3
      <4> QED  BY <4>1, <4>2 DEF Truthful
    <3> QED  BY <3>1, <3>2
  <2>5. ASSUME NEW x \in Reqs \ {r} PROVE Truthful(req'[x], role')
    <3>1. CASE ~mine
      <4>1. Truthful(req[x], role')  BY <2>2, <3>1 DEF Truthful
      <4> QED  BY <1>1, <4>1, StillRoles DEF OthersStill
    <3>2. CASE mine
      <4>1. ~(req[x].by = Me /\ req[x].stage \in {"answered", "listed"})  BY <2>3, <3>2 DEF Mine
      <4>2. \A w \in Workspaces : ~Learns(req[x], w) /\ req[x].list[w].role = "none"
        BY <1>3, <4>1 DEF Learns, Answers
      <4>3. Truthful(req[x], role')  BY <4>2 DEF Truthful
      <4> QED  BY <1>1, <4>3, StillRoles DEF OthersStill
    <3> QED  BY <3>1, <3>2
  <2>6. ASSUME NEW w \in Workspaces
        PROVE  page.role[w] = role'[w][Me] \/ \E x \in Reqs : Learns(req'[x], w)
    <3>1. CASE role'[w][Me] = role[w][Me]
      <4>1. ASSUME NEW x \in Reqs, Learns(req[x], w) PROVE Learns(req'[x], w)
        BY <1>1, <1>4, <4>1, StillRoles DEF OthersStill
      <4> QED  BY <2>2, <3>1, <4>1
    <3>2. CASE role'[w][Me] # role[w][Me]
      <4>1. Mine(r) /\ ok /\ q.op \in {"add", "change", "create"}  BY <2>3, <3>2
      <4>2. w = q.ws /\ (q.op = "create" \/ q.user = Me)
        BY <1>1, <1>2, <3>2, <4>1, RolesChange
      <4>3. /\ req'[r].stage = "answered" /\ req'[r].ok /\ req'[r].ws = w
            /\ req'[r].op = q.op /\ req'[r].user = q.user /\ req'[r].by = Me
        <5>1. req'[r].stage = "answered" /\ req'[r].ok = ok /\ req'[r].ws = q.ws
          BY <1>1, <1>8, <4>1
        <5>2. req'[r].op = q.op /\ req'[r].user = q.user /\ req'[r].by = Me
          BY <1>1, <4>1, <5>1 DEF HandledFrom, NoReq, Mine
        <5> QED  BY <4>1, <4>2, <5>1, <5>2
      <4>4. Learns(req'[r], w)  BY <4>1, <4>2, <4>3 DEF Learns
      <4> QED  BY <4>4
    <3> QED  BY <3>1, <3>2
  <2> QED  BY <2>4, <2>5, <2>6
<1>9. ASSUME ~First(q) PROVE RoleNews'
  BY <1>1, <1>8, <1>9 DEF RoleNews
<1> QED  BY <1>6, <1>7, <1>9 DEF RoleInv

LEMMA RequestRoles ==
    ASSUME Typed, RoleInv, NEW r \in Reqs, Read(r) \/ Fail(r)
    PROVE  RoleInv'
<1> DEFINE q == req[r]
<1>0. disturbed \subseteq disturbed'  BY DEF Read, Fail, Note
<1>1. q \in Request /\ Answers(q)  BY TypedParts DEF Requests, RoleInv
<1>2. role' = role /\ page' = page /\ q.stage \in {"sent", "read", "half"}
  BY DEF Read, Fail, server
<1>3. \E p : Put(r, p) /\ (p = NoReq \/ (/\ p.ok = q.ok /\ p.list = q.list
                                         /\ p.stage \in {"read", "answered"}))
  <2> DEFINE read(l, s) == [q EXCEPT !.stage = "read", !.loaded = l, !.was = s]
             ended == [q EXCEPT !.stage = "answered"]
             Same(p) == p.ok = q.ok /\ p.list = q.list
  <2>1. \A l, s : Same(read(l, s)) /\ read(l, s).stage = "read"  BY <1>1 DEF Request
  <2>2. Same(ended) /\ ended.stage = "answered"  BY <1>1 DEF Request
  <2>3. \E l, s : Put(r, read(l, s)) \/ Put(r, ended) \/ Put(r, NoReq)
    BY Zenon DEF Read, Fail
  <2> HIDE DEF read, ended
  <2> QED  BY <2>1, <2>2, <2>3
<1>4. PICK p : Put(r, p) /\ (p = NoReq \/ (/\ p.ok = q.ok /\ p.list = q.list
                                           /\ p.stage \in {"read", "answered"}))
  BY <1>3
<1>5. req'[r] = p /\ OthersStill(r)  BY <1>4, PutIs DEF OthersStill, Still
<1>6. ~q.ok /\ \A w \in Workspaces : q.list[w].role = "none" /\ ~Learns(q, w)
  BY <1>1, <1>2 DEF Answers, Learns
<1>7. Answers(p) /\ Truthful(p, role)
  <2>1. CASE p = NoReq  BY <2>1, NoReqRoles
  <2>2. CASE p.ok = q.ok /\ p.list = q.list /\ p.stage \in {"read", "answered"}
    BY <1>6, <2>2 DEF Answers, Truthful, Learns
  <2> QED  BY <1>4, <2>1, <2>2
<1> QED  BY <1>0, <1>2, <1>5, <1>6, <1>7, SameRoles

LEMMA ReadsListRoles ==
    ASSUME Typed, RoleInv, NEW r \in Reqs, NEW ok \in BOOLEAN, ListReads(r, ok)
    PROVE  RoleInv'
<1> DEFINE list == IF ok THEN MyList ELSE req[r].list
           stage == IF ok THEN "listed" ELSE "unlisted"
           q == [req[r] EXCEPT !.stage = stage, !.list = list]
<1>0. disturbed \subseteq disturbed'  BY DEF ListReads, Note
<1>1. req[r] \in Request /\ Answers(req[r])  BY TypedParts DEF Requests, RoleInv
<1>2. req[r].stage = "refresh" /\ page' = page /\ role' = role
  BY DEF ListReads, server
<1>3. Put(r, q)  BY DEF ListReads
<1>4. q.stage = stage /\ q.list = list /\ q.by = req[r].by
  <2> HIDE DEF stage, list
  <2> QED  BY <1>1 DEF Request
<1> HIDE DEF q
<1>5. req'[r] = q /\ OthersStill(r)  BY <1>3, PutIs DEF OthersStill, Still
<1>6. \A w \in Workspaces : MyList[w].role \in {"none", role[w][Me]}
  BY DEF MyList, NoList
<1>7. \A w \in Workspaces : /\ list[w].role \in {"none", role[w][Me]}
                            /\ ~ok => list[w].role = "none"
  BY <1>1, <1>2, <1>6 DEF Answers
<1>8. Answers(q)
  <2> HIDE DEF list
  <2> QED  BY <1>1, <1>2, <1>4, <1>7 DEF Answers
<1>9. Truthful(q, role)
  <2> HIDE DEF list
  <2> QED  BY <1>4, <1>7 DEF Truthful, Learns
<1>10. \A w \in Workspaces : ~Learns(req[r], w)  BY <1>2 DEF Learns
<1> QED  BY <1>0, <1>2, <1>5, <1>8, <1>9, <1>10, SameRoles

LEMMA DeliverRoles ==
    ASSUME Typed, At(page), RoleInv, NEW r \in Reqs, Deliver(r)
    PROVE  RoleInv'
<1> DEFINE q == req[r]
<1>0. disturbed \subseteq disturbed' /\ role' = role
  BY DEF Deliver, Acted, Answered, ListLands, server, Note
<1>1. q \in Request /\ page.role \in [Workspaces -> Roles] /\ Answers(q)
  BY TypedParts DEF Requests, Pages, Page, RoleInv
<1>2. ASSUME RoleNews, Spared({"unseen", "crossed"}) PROVE Truthful(q, role)
  BY <1>2 DEF RoleNews
<1>3. ASSUME Acted(r) PROVE RoleInv'
  <2>1. page'.role = Echoed(q).role /\ req'[r] = NoReq /\ OthersStill(r)
        /\ q.stage = "answered" /\ q.by = Me /\ q.op \in {"add", "change", "remove"}
    BY <1>3, ActedDoes DEF OthersStill, Still, Acted, Mine
  <2>2. ASSUME NEW w \in Workspaces
        PROVE  page'.role[w] = IF Learns(q, w) THEN Learnt(q) ELSE page.role[w]
    <3> DEFINE told == q.ok /\ q.op \in {"add", "change"} /\ q.user = Me
    <3>1. CASE told
      <4>1. Echoed(q) = [page EXCEPT !.role[q.ws] = q.got]  BY <3>1 DEF Echoed
      <4>2. Echoed(q).role = [page.role EXCEPT ![q.ws] = q.got]
        BY <4>1, TypedParts DEF Pages, Page
      <4>3. page'.role[w] = IF w = q.ws THEN q.got ELSE page.role[w]
        BY <1>1, <2>1, <4>2
      <4> QED  BY <2>1, <3>1, <4>3 DEF Learns, Learnt
    <3>2. CASE ~told
      <4>1. Echoed(q) = page  BY <3>2 DEF Echoed
      <4>2. ~Learns(q, w)  BY <2>1, <3>2 DEF Learns
      <4> QED  BY <2>1, <4>1, <4>2
    <3> QED  BY <3>1, <3>2
  <2>3. ASSUME NEW w \in Workspaces
        PROVE  \/ page'.role[w] = page.role[w] /\ (Learns(req[r], w) => Learns(req'[r], w))
               \/ RoleNews /\ Spared({"unseen", "crossed"}) => page'.role[w] = role[w][Me]
    BY <1>2, <2>2 DEF Truthful
  <2> QED  BY <1>0, <2>1, <2>3, NoReqRoles, SameRoles
<1>4. ASSUME Answered(r) PROVE RoleInv'
  <2>1. /\ page'.role = IF q.ok /\ q.op = "create" THEN [page.role EXCEPT ![q.ws] = "owner"] ELSE page.role
        /\ req'[r] = IF q.ok THEN [q EXCEPT !.stage = "refresh"] ELSE NoReq
        /\ OthersStill(r) /\ q.stage = "answered" /\ q.by = Me /\ q.op \in {"create", "update", "delete"}
    BY <1>4, AnsweredDoes DEF OthersStill, Still, Answered, Mine
  <2>2. ASSUME NEW w \in Workspaces
        PROVE  page'.role[w] = IF Learns(q, w) THEN Learnt(q) ELSE page.role[w]
    BY <1>1, <2>1 DEF Learns, Learnt
  <2>3. ASSUME NEW w \in Workspaces
        PROVE  \/ page'.role[w] = page.role[w] /\ (Learns(req[r], w) => Learns(req'[r], w))
               \/ RoleNews /\ Spared({"unseen", "crossed"}) => page'.role[w] = role[w][Me]
    BY <1>2, <2>2 DEF Truthful
  <2>4. Answers(req'[r]) /\ Truthful(req'[r], role)
    <3>1. CASE ~q.ok  BY <2>1, <3>1, NoReqRoles
    <3>2. CASE q.ok
      <4>1. req'[r].stage = "refresh" /\ req'[r].by = Me /\ req'[r].list = q.list
        BY <1>1, <2>1, <3>2 DEF Request
      <4>2. \A w \in Workspaces : req'[r].list[w].role = "none"
        BY <1>1, <2>1, <4>1 DEF Answers
      <4> QED  BY <4>1, <4>2 DEF Answers, Truthful, Learns
    <3> QED  BY <3>1, <3>2
  <2> QED  BY <1>0, <2>1, <2>3, <2>4, SameRoles
<1>5. ASSUME ListLands(r) PROVE RoleInv'
  <2>1. /\ page.run = r => \A w \in Workspaces :
              page'.role[w] = IF q.list[w].role # "none" THEN q.list[w].role ELSE page.role[w]
        /\ page.run # r => page'.role = page.role
        /\ req'[r] = NoReq /\ OthersStill(r) /\ q.stage \in {"listed", "unlisted"}
    BY <1>5, ListLandsDoes DEF OthersStill, Still, ListLands
  <2>2. \A w \in Workspaces : ~Learns(q, w)  BY <2>1 DEF Learns
  <2>3. ASSUME NEW w \in Workspaces
        PROVE  \/ page'.role[w] = page.role[w] /\ (Learns(req[r], w) => Learns(req'[r], w))
               \/ RoleNews /\ Spared({"unseen", "crossed"}) => page'.role[w] = role[w][Me]
    BY <1>2, <2>1, <2>2 DEF Truthful
  <2> QED  BY <1>0, <2>1, <2>3, NoReqRoles, SameRoles
<1> QED  BY <1>3, <1>4, <1>5 DEF Deliver

LEMMA UserRoles == ASSUME Typed, RoleInv, User PROVE RoleInv'
<1>1. /\ page'.role = page.role /\ role' = role /\ disturbed \subseteq disturbed'
      /\ req' = req \/ \E s \in Reqs : Taken(s)
  BY UserDoes DEF server
<1>2. CASE req' = req  BY <1>1, <1>2, UnchangedRoles
<1>3. ASSUME NEW s \in Reqs, Taken(s) PROVE RoleInv'
  <2>1. OthersStill(s) /\ req[s].op = "none" /\ ~req'[s].ok /\ req'[s].list = NoList
        /\ req'[s].stage \in {"sent", "read"}
    BY <1>3 DEF Taken, New, OthersStill, Still
  <2>2. \A w \in Workspaces : NoList[w].role = "none" /\ ~Learns(req[s], w)
    BY <2>1 DEF NoList, Learns
  <2>3. Answers(req'[s]) /\ Truthful(req'[s], role)
    BY <2>1, <2>2 DEF Answers, Truthful, Learns
  <2> QED  BY <1>1, <2>1, <2>2, <2>3, SameRoles
<1> QED  BY <1>1, <1>2, <1>3

LEMMA InitRoles == Init => RoleInv
<1> SUFFICES ASSUME Init PROVE RoleInv
  OBVIOUS
<1>1. /\ \A r \in Reqs : req[r] = NoReq
      /\ page.role = [w \in Workspaces |-> role[w][Me]]
  BY DEF Init
<1> QED  BY <1>1, NoReqRoles DEF RoleInv, RoleNews

LEMMA StepRoles == Typed /\ ListInv /\ RoleInv /\ [Next]_vars => RoleInv'
<1> SUFFICES ASSUME Typed, At(page), RoleInv, [Next]_vars PROVE RoleInv'
  BY DEF ListInv, ListsTold
<1>1. ASSUME NEW r \in Reqs, Handle(r) PROVE RoleInv'
  BY <1>1, RequestRoles, CommitRoles, ReadsListRoles DEF Handle
<1>2. ASSUME NEW r \in Reqs, Deliver(r) PROVE RoleInv'
  BY <1>2, DeliverRoles
<1>3. ASSUME NEW k \in Loads, LoadStep(k) PROVE RoleInv'
  BY <1>3, LoadStepDoes, UnchangedRoles DEF server
<1>4. CASE UNCHANGED vars
  BY <1>4, UnchangedRoles DEF vars, server
<1> QED  BY <1>1, <1>2, <1>3, <1>4, UserRoles DEF Next

\* At rest the page knows the role of Me in what it lists (seedRoles, echoSelfRole), unless
\* the role changed without an answer to the page or with another answer on its way.
THEOREM RolesShown == Spec => []RoleShown
<1>1. RoleInv => RoleShown
  <2> SUFFICES ASSUME RoleInv, Quiet, Spared({"unseen", "crossed"}), NEW w \in Listed(page)
               PROVE  page.role[w] = role[w][Me]
    BY DEF RoleShown
  <2>1. w \in Workspaces  BY DEF Listed
  <2>2. \A r \in Reqs : ~Learns(req[r], w)  BY DEF Quiet, Mine, Learns
  <2> QED  BY <2>1, <2>2 DEF RoleInv, RoleNews
<1>2. Spec => []Typed
  BY InitTyped, StepTyped, PTL DEF Spec
<1>3. Spec => []ListInv
  BY <1>2, InitLists, StepLists, PTL DEF Spec
<1> QED  BY <1>1, <1>2, <1>3, InitRoles, StepRoles, PTL DEF Spec

---------------------------------------------------------------------------
(***************************************************************************)
(* The members that the panels show.                                       *)
(***************************************************************************)
\* The row that a request has found is there, unless it is known to be gone.
FoundIn(q, rs) ==
    q.stage = "read" /\ q.user # Null /\ q.loaded \notin {"none", "gone"} => rs[q.ws][q.user] # "none"
Found == \A r \in Reqs : FoundIn(req[r], role)

LEMMA SameFound ==
    ASSUME Found, NEW r \in Reqs, role' = role, FoundIn(req'[r], role),
           \A x \in Reqs \ {r} : req'[x] = req[x]
    PROVE  Found'
BY DEF Found

LEMMA StartDoes ==
    ASSUME Typed, NEW q \in Request, Start(q)
    PROVE  \E s \in Reqs : /\ s = Least(Slots) /\ req[s].op = "none" /\ req'[s].stage = "sent"
                           /\ req'[s].op = q.op /\ req'[s].by = q.by
                           /\ \A x \in Reqs \ {s} : req'[x] = req[x]
                           /\ UNCHANGED server
<1> DEFINE sent == [q EXCEPT !.stage = "sent"]
<1>1. Slots # {} /\ Put(Least(Slots), sent)  BY DEF Start
<1>2. Least(Slots) \in Reqs /\ req[Least(Slots)].op = "none"  BY <1>1, SlotType DEF Slots
<1>3. sent.stage = "sent" /\ sent.op = q.op /\ sent.by = q.by  BY DEF Request
<1> HIDE DEF sent
<1>4. req'[Least(Slots)] = sent /\ \A x \in Reqs \ {Least(Slots)} : req'[x] = req[x]
  BY <1>1, <1>2, PutIs
<1> QED  BY <1>2, <1>3, <1>4 DEF Start

LEMMA ReadDoes ==
    ASSUME Typed, NEW r \in Reqs, Read(r)
    PROVE  /\ req'[r].op = req[r].op /\ req'[r].by = req[r].by /\ req'[r].stage \in {"read", "answered"}
           /\ FoundIn(req'[r], role)
           /\ \A x \in Reqs \ {r} : req'[x] = req[x]
<1> DEFINE q == req[r]
           had == IF q.user = Null THEN "none" ELSE role[q.ws][q.user]
           read(s) == [q EXCEPT !.stage = "read", !.loaded = had, !.was = s]
           ended == [q EXCEPT !.stage = "answered"]
<1>1. q \in Request  BY TypedParts DEF Requests
<1>2. ASSUME NEW s PROVE read(s).op = q.op /\ read(s).by = q.by /\ read(s).stage = "read" /\ read(s).loaded = had
                         /\ read(s).user = q.user /\ read(s).ws = q.ws
  <2> HIDE DEF had
  <2> QED  BY <1>1 DEF Request
<1>3. ended.op = q.op /\ ended.by = q.by /\ ended.stage = "answered"  BY <1>1 DEF Request
<1>4. \E s : Put(r, read(s)) \/ Put(r, ended)  BY Zenon DEF Read
<1> HIDE DEF read, ended
<1>5. \A s : FoundIn(read(s), role)  BY <1>2 DEF FoundIn
<1>6. FoundIn(ended, role)  BY <1>3 DEF FoundIn
<1>7. \E p : /\ Put(r, p) /\ p.op = q.op /\ p.by = q.by /\ p.stage \in {"read", "answered"} /\ FoundIn(p, role)
  BY <1>2, <1>3, <1>4, <1>5, <1>6
<1> QED  BY <1>7, PutIs

LEMMA FailDoes ==
    ASSUME Typed, NEW r \in Reqs, Fail(r)
    PROVE  /\ IF Mine(r) THEN req'[r].op = req[r].op /\ req'[r].by = req[r].by /\ req'[r].stage = "answered"
              ELSE req'[r] = NoReq
           /\ \A x \in Reqs \ {r} : req'[x] = req[x]
<1> DEFINE q == req[r]
           ended == [q EXCEPT !.stage = "answered"]
<1>1. q \in Request  BY TypedParts DEF Requests
<1>2. ended.op = q.op /\ ended.by = q.by /\ ended.stage = "answered"  BY <1>1 DEF Request
<1>3. Put(r, IF Mine(r) THEN ended ELSE NoReq)  BY DEF Fail
<1> HIDE DEF ended
<1> QED  BY <1>2, <1>3, PutIs

LEMMA CommitFound ==
    ASSUME Typed, Found, NEW r \in Reqs, NEW ok \in BOOLEAN, Commit(r, ok)
    PROVE  Found'
<1> SUFFICES ASSUME NEW x \in Reqs PROVE FoundIn(req'[x], role')
  BY DEF Found
<1>1. /\ req[r].stage \in {"read", "half"} /\ role' = RolesAfter(req[r])
      /\ First(req[r]) => req'[r].stage = "half"
      /\ ~First(req[r]) => req'[r] = NoReq \/ req'[r].stage = "answered"
  BY CommitDoes
<1>2. CASE x = r  BY <1>1, <1>2 DEF FoundIn, NoReq
<1>3. CASE x # r
  <2> DEFINE p == req[x]
             w == IF First(req[r]) THEN Least(Workspaces \ used) ELSE req[r].ws
             gone == [p EXCEPT !.loaded = "gone"]
             loses == /\ p.stage = "read" /\ p.loaded # "none" /\ p.ws = w
                      /\ role[w][p.user] # "none" /\ role'[w][p.user] = "none"
  <2>1. req'[x] = IF loses THEN gone ELSE p  BY <1>3 DEF Commit, First
  <2>2. p \in Request /\ Named(p) /\ FoundIn(p, role)  BY TypedParts DEF Requests, Found
  <2>3. gone.loaded = "gone"  BY <2>2 DEF Request
  <2>4. CASE loses  BY <2>1, <2>3, <2>4 DEF FoundIn
  <2>5. CASE ~loses
    <3> SUFFICES ASSUME p.stage = "read", p.user # Null, p.loaded \notin {"none", "gone"},
                        role'[p.ws][p.user] = "none"
                 PROVE  FALSE
      BY <2>1, <2>5 DEF FoundIn
    <3>1. p.ws \in Workspaces /\ p.user \in Users /\ role[p.ws][p.user] # "none"
      BY <2>2 DEF Named, Request, FoundIn
    <3>2. p.ws = req[r].ws /\ ~First(req[r])
      BY <1>1, <3>1, RolesChange DEF First
    <3>3. loses  BY <3>1, <3>2
    <3> QED  BY <2>5, <3>3
  <2> QED  BY <2>4, <2>5
<1> QED  BY <1>2, <1>3

LEMMA StepFound == Typed /\ Found /\ [Next]_vars => Found'
<1> SUFFICES ASSUME Typed, Found, [Next]_vars PROVE Found'
  OBVIOUS
<1>1. ASSUME NEW r \in Reqs, Handle(r) PROVE Found'
  <2>1. CASE Read(r)  BY <2>1, ReadDoes, SameFound DEF Read, server
  <2>2. CASE Fail(r)
    <3>1. FoundIn(req'[r], role)  BY <2>2, FailDoes DEF FoundIn, NoReq
    <3> QED  BY <2>2, <3>1, FailDoes, SameFound DEF Fail, server
  <2>3. ASSUME NEW ok \in BOOLEAN, ListReads(r, ok) PROVE Found'
    <3> DEFINE stage == IF ok THEN "listed" ELSE "unlisted"
               list == IF ok THEN MyList ELSE req[r].list
               q == [req[r] EXCEPT !.stage = stage, !.list = list]
    <3>1. Put(r, q)  BY <2>3 DEF ListReads
    <3>2. q.stage = stage
      <4> HIDE DEF list, stage
      <4> QED  BY TypedParts DEF Requests, Request
    <3>3. FoundIn(q, role)
      <4> HIDE DEF q
      <4> QED  BY <3>2 DEF FoundIn
    <3> HIDE DEF q
    <3> QED  BY <2>3, <3>1, <3>3, PutIs, SameFound DEF ListReads, server
  <2> QED  BY <1>1, <2>1, <2>2, <2>3, CommitFound DEF Handle
<1>2. ASSUME NEW r \in Reqs, Deliver(r) PROVE Found'
  <2> DEFINE refresh == [req[r] EXCEPT !.stage = "refresh"]
  <2>1. refresh.stage = "refresh"  BY TypedParts DEF Requests, Request
  <2>2. FoundIn(refresh, role) /\ FoundIn(NoReq, role)
    <3> HIDE DEF refresh
    <3> QED  BY <2>1 DEF FoundIn, NoReq
  <2>3. Put(r, refresh) \/ Put(r, NoReq)
    BY <1>2 DEF Deliver, Acted, Answered, ListLands
  <2>4. role' = role  BY <1>2 DEF Deliver, Acted, Answered, ListLands, server
  <2> HIDE DEF refresh
  <2> QED  BY <2>2, <2>3, <2>4, PutIs, SameFound
<1>3. ASSUME NEW k \in Loads, LoadStep(k) PROVE Found'
  BY <1>3, LoadStepDoes DEF Found, server
<1>4. CASE User
  <2>1. role' = role  BY <1>4, UserDoes DEF server
  <2>2. ASSUME NEW q \in Request, Start(q) PROVE Found'
    <3>1. PICK s \in Reqs : req'[s].stage = "sent" /\ \A x \in Reqs \ {s} : req'[x] = req[x]
      BY <2>2, StartDoes
    <3>2. FoundIn(req'[s], role)  BY <3>1 DEF FoundIn
    <3> QED  BY <2>1, <3>1, <3>2, SameFound
  <2>3. ASSUME NEW op, NEW w, NEW u, NEW new, OtherReads(op, w, u, new) PROVE Found'
    <3> DEFINE had == IF u = Null THEN "none" ELSE role[w][u]
               q == [NoReq EXCEPT !.op = op, !.ws = w, !.user = u, !.role = new, !.stage = "read", !.loaded = had]
    <3>1. q.ws = w /\ q.user = u /\ q.loaded = had  BY DEF NoReq
    <3>2. FoundIn(q, role)
      <4> HIDE DEF q
      <4> QED  BY <3>1 DEF FoundIn
    <3>3. Put(Least(Slots), q) /\ Least(Slots) \in Reqs  BY <2>3, SlotType DEF OtherReads, Slots
    <3> HIDE DEF q
    <3> QED  BY <2>1, <3>2, <3>3, PutIs, SameFound
  <2>4. NoReq \in Request /\ page.cur \in Workspaces \cup {Null}
    BY TypedParts, NoReqType DEF Requests, Pages, Page
  <2>5. ASSUME NEW op \in {"add", "change", "remove"}, NEW u \in Users, NEW new \in Roles, Act(op, u, new)
        PROVE  Found'
    <3> DEFINE q == [NoReq EXCEPT !.op = op, !.by = Me, !.ws = page.cur, !.user = u, !.role = new]
    <3>1. q \in Request  BY <2>4, UsersAssumption DEF Request, Ops
    <3>2. Start(q)  BY <2>5 DEF Act
    <3> HIDE DEF q
    <3> QED  BY <2>2, <3>1, <3>2
  <2>6. CASE Create
    <3> DEFINE q == [NoReq EXCEPT !.op = "create", !.by = Me]
    <3>1. q \in Request  BY <2>4, UsersAssumption DEF Request, Ops
    <3>2. Start(q)  BY <2>6 DEF Create
    <3> HIDE DEF q
    <3> QED  BY <2>2, <3>1, <3>2
  <2>7. ASSUME NEW op \in {"update", "delete"}, Settle(op) PROVE Found'
    <3> DEFINE set == ~page.list[page.cur].open
               q == [NoReq EXCEPT !.op = op, !.by = Me, !.ws = page.cur, !.open = set]
    <3>0. set \in BOOLEAN  OBVIOUS
    <3>1. q \in Request
      <4> HIDE DEF set
      <4> QED  BY <2>4, <3>0, UsersAssumption DEF Request, Ops
    <3>2. Start(q)  BY <2>7 DEF Settle
    <3> HIDE DEF q
    <3> QED  BY <2>2, <3>1, <3>2
  <2>8. ASSUME NEW w \in Workspaces, Switch(w) PROVE Found'
    BY <2>8 DEF Switch, server, Found
  <2> QED  BY <1>4, <2>3, <2>5, <2>6, <2>7, <2>8 DEF User
<1>5. CASE UNCHANGED vars
  BY <1>5 DEF vars, server, Found
<1> QED  BY <1>1, <1>2, <1>3, <1>4, <1>5 DEF Next

\* A load is for workspace w and shows its rows; it tells v.
Its(l, w) == (l.stage # "idle" => l.asked = w) /\ (l.stage = "idle" /\ l.ok => l.of = w)
Tells(l, v) == (l.stage = "read" => l.got = v) /\ (l.stage = "idle" /\ l.ok => l.rows = v)

\* The action on a member that the panel waits for.
Acting(q) == q.by = Me /\ q.op \in {"add", "change", "remove"} /\ q.stage \in {"sent", "read", "answered"}
ActingIs == page.acting # Null => Acting(req[page.acting])

\* The panel has still to load k again for an action that is answered.
Behind(k) == page.acting # Null /\ req[page.acting].stage = "answered" /\ k \in Reloads(req[page.acting].op)

Settled == Spared({"dropped", "strayed", "behind", "elsewhere"})
RosterNews ==
    Settled /\ Shown(page) =>
        \A k \in Loads : /\ Its(page.load[k], page.cur)
                         /\ Behind(k) \/ Tells(page.load[k], View(k, page.cur))
RosterInv == ActingIs /\ Found /\ RosterNews

LEMMA RenderedLoads ==
    ASSUME NEW p, NEW n \in Page
    PROVE  /\ Shown(Rendered(p, n)) <=> Shown(n)
           /\ Rendered(p, n).acting \in {Null, n.acting}
           /\ Shown(n) => \A k \in Loads :
                 \/ Rendered(p, n).load[k].stage = "sent" /\ Rendered(p, n).load[k].asked = n.cur
                 \/ Shown(p) /\ n.cur # p.cur /\ p.load[k].stage # "idle"
                 \/ Shown(p) /\ n.cur = p.cur /\ Rendered(p, n).load[k] = n.load[k] /\ Rendered(p, n).acting = n.acting
<1> DEFINE m == Rendered(p, n)
           sent(w) == [NoLoad EXCEPT !.stage = "sent", !.asked = w]
           all == [k \in Loads |-> Loading(NoLoad, n.cur)]
           more == [k \in Loads |-> Loading(p.load[k], n.cur)]
           none == [k \in Loads |-> NoLoad]
<1>1. m.cur = n.cur /\ m.role = n.role  BY RenderedKeeps
<1>2. Shown(m) <=> Shown(n)  BY <1>1 DEF Shown
<1>3. \A w : sent(w).stage = "sent" /\ sent(w).asked = w  BY DEF NoLoad
<1>4. \A l, w : l.stage = "idle" => Loading(l, w) = sent(w)  BY DEF Loading
<1> HIDE DEF sent
<1>5. CASE ~Shown(n)
  <2>1. m = [n EXCEPT !.load = none, !.acting = Null, !.saving = Null]  BY <1>5 DEF Rendered
  <2>2. m.acting = Null
    <3> HIDE DEF none, m
    <3> QED  BY <2>1 DEF Page
  <2> QED  BY <1>2, <1>5, <2>2
<1>6. CASE Shown(n) /\ ~Shown(p)
  <2>1. m = [n EXCEPT !.load = all, !.acting = Null, !.saving = Null]  BY <1>6 DEF Rendered
  <2>2. m.acting = Null /\ m.load = all
    <3> HIDE DEF all, m
    <3> QED  BY <2>1 DEF Page
  <2>3. \A k \in Loads : all[k] = sent(n.cur)  BY <1>4, NoLoadType
  <2> HIDE DEF all, m
  <2> QED  BY <1>2, <1>3, <2>2, <2>3 DEF m
<1>7. CASE Shown(n) /\ Shown(p) /\ n.cur # p.cur
  <2>1. m = [n EXCEPT !.load = more, !.saving = Null]  BY <1>7 DEF Rendered
  <2>2. m.acting = n.acting /\ m.load = more
    <3> HIDE DEF more, m
    <3> QED  BY <2>1 DEF Page
  <2>3. \A k \in Loads : p.load[k].stage = "idle" => more[k] = sent(n.cur)  BY <1>4
  <2> HIDE DEF more, m
  <2> QED  BY <1>2, <1>3, <1>7, <2>2, <2>3 DEF m
<1>8. CASE Shown(n) /\ Shown(p) /\ n.cur = p.cur
  BY <1>8 DEF Rendered
<1> QED  BY <1>5, <1>6, <1>7, <1>8

\* A step by which each load is begun anew or left as it was.
LEMMA SameRoster ==
    ASSUME RosterNews, disturbed \subseteq disturbed', role' = role,
           ASSUME NEW k \in Loads, Settled, Settled', Shown(page'),
                  Shown(page) => Its(page.load[k], page.cur)
           PROVE  \/ page'.load[k].stage = "sent" /\ page'.load[k].asked = page'.cur
                  \/ /\ Shown(page) /\ page'.cur = page.cur /\ page'.load[k] = page.load[k]
                     /\ Behind(k) => Behind(k)'
    PROVE  RosterNews'
<1> SUFFICES ASSUME Settled', Shown(page'), NEW k \in Loads
             PROVE  /\ Its(page'.load[k], page'.cur)
                    /\ Behind(k)' \/ Tells(page'.load[k], View(k, page.cur)')
  BY DEF RosterNews, Shown
<1>1. Settled  BY DEF Settled, Spared
<1>2. Shown(page) => /\ Its(page.load[k], page.cur)
                     /\ Behind(k) \/ Tells(page.load[k], View(k, page.cur))
  BY <1>1 DEF RosterNews
<1>3. CASE page'.load[k].stage = "sent" /\ page'.load[k].asked = page'.cur
  BY <1>3 DEF Its, Tells
<1>4. CASE /\ Shown(page) /\ page'.cur = page.cur /\ page'.load[k] = page.load[k]
           /\ Behind(k) => Behind(k)'
  <2>1. View(k, page.cur)' = View(k, page.cur)  BY <1>4 DEF View
  <2> QED  BY <1>2, <1>4, <2>1
<1> QED  BY <1>1, <1>2, <1>3, <1>4

\* A step on a request under the panels as they are.
LEMMA RequestRoster ==
    ASSUME Typed, RosterInv, NEW r \in Reqs,
           Read(r) \/ Fail(r) \/ \E ok \in BOOLEAN : ListReads(r, ok)
    PROVE  ActingIs' /\ RosterNews'
<1>1. disturbed \subseteq disturbed' /\ role' = role /\ page' = page
  BY DEF Read, Fail, ListReads, server, Note
<1>2. page.acting \in Reqs \cup {Null}  BY TypedParts DEF Pages, Page
<1>3. \A x \in Reqs \ {r} : req'[x] = req[x]
  <2>1. ASSUME NEW ok \in BOOLEAN, ListReads(r, ok) PROVE \A x \in Reqs \ {r} : req'[x] = req[x]
    BY <2>1, PutIs DEF ListReads
  <2> QED  BY <2>1, ReadDoes, FailDoes
<1>4. CASE page.acting = r
  <2>1. Acting(req[r]) /\ r # Null  BY <1>4, NullAssumption DEF RosterInv, ActingIs
  <2>2. Read(r) \/ Fail(r)  BY <2>1 DEF Acting, ListReads
  <2>3. req[r].stage # "answered"  BY <2>2 DEF Read, Fail
  <2>4. Acting(req'[r])
    <3>1. CASE Read(r)  BY <2>1, <3>1, ReadDoes DEF Acting
    <3>2. CASE Fail(r)  BY <2>1, <3>2, FailDoes DEF Acting, Mine
    <3> QED  BY <2>2, <3>1, <3>2
  <2>5. ActingIs'  BY <1>1, <1>4, <2>4 DEF ActingIs
  <2>6. \A k \in Loads : ~Behind(k)  BY <1>4, <2>3 DEF Behind
  <2> QED  BY <1>1, <2>5, <2>6, SameRoster DEF RosterInv
<1>5. CASE page.acting # r
  <2>1. ActingIs'  BY <1>1, <1>2, <1>3, <1>5 DEF RosterInv, ActingIs
  <2>2. \A k \in Loads : Behind(k) => Behind(k)'  BY <1>1, <1>2, <1>3, <1>5 DEF Behind
  <2> QED  BY <1>1, <2>1, <2>2, SameRoster DEF RosterInv
<1> QED  BY <1>4, <1>5

\* A change of role leaves the assignable users as they are.
LEMMA ChangeAssigns ==
    ASSUME Typed, Found, NEW r \in Reqs, req[r].stage = "read", req[r].op = "change",
           role' = RolesAfter(req[r]), NEW w \in Workspaces
    PROVE  View("assignable", w)' = View("assignable", w)
<1> DEFINE q == req[r]
           as(rs, u) == IF rs[w][u] = "owner" THEN "member" ELSE rs[w][u]
<1>1. /\ q \in Request /\ Named(q) /\ Aimed(q) /\ FoundIn(q, role)
      /\ role \in [Workspaces -> Rows] /\ role[w] \in Rows
  BY TypedParts DEF Requests, Found
<1>2. q.ws \in Workspaces /\ q.user \in Users /\ q.role \in {"member", "owner"} /\ q.loaded # "none"
  BY <1>1 DEF Named, Aimed, Request, Roles
<1>3. role' = role \/ (role' = [role EXCEPT ![q.ws][q.user] = q.role] /\ q.loaded # "gone")
  BY DEF RolesAfter, Given
<1>4. ASSUME NEW u \in Users PROVE as(role', u) = as(role, u)
  <2>1. CASE role' = role  BY <2>1
  <2>2. CASE role' = [role EXCEPT ![q.ws][q.user] = q.role] /\ q.loaded # "gone"
    <3>1. CASE w = q.ws /\ u = q.user
      <4>1. role'[w][u] = q.role  BY <1>1, <1>2, <2>2, <3>1 DEF Rows
      <4>2. role[w][u] \in {"member", "owner"}
        <5>1. role[w][u] # "none"  BY <1>1, <1>2, <2>2, <3>1, NullAssumption DEF FoundIn
        <5> QED  BY <1>1, <5>1 DEF Rows, Roles
      <4> QED  BY <1>2, <4>1, <4>2
    <3>2. CASE w # q.ws \/ u # q.user
      <4>1. role'[w][u] = role[w][u]  BY <1>1, <1>2, <2>2, <3>2 DEF Rows
      <4> QED  BY <4>1
    <3> QED  BY <3>1, <3>2
  <2> QED  BY <1>3, <2>1, <2>2
<1>5. View("assignable", w) = [u \in Users |-> as(role, u)] /\ View("assignable", w)' = [u \in Users |-> as(role', u)]
  BY DEF View
<1> HIDE DEF as
<1> QED  BY <1>4, <1>5

LEMMA CommitRoster ==
    ASSUME Typed, RosterInv, NEW r \in Reqs, NEW ok \in BOOLEAN, Commit(r, ok)
    PROVE  ActingIs' /\ RosterNews'
<1> DEFINE q == req[r]
<1>1. /\ OthersStill(r) /\ HandledFrom(req'[r], q) /\ q.stage \in {"read", "half"}
      /\ ~First(q) => /\ Mine(r) => req'[r].stage = "answered"
                      /\ disturbed' = disturbed \cup Disturbances(r, ok)
      /\ role' = RolesAfter(q) /\ page' = page
  BY CommitDoes
<1>2. disturbed \subseteq disturbed'  BY DEF Commit, Note
<1>3. page.acting \in Reqs \cup {Null} /\ page.cur \in Workspaces \cup {Null}
  BY TypedParts DEF Pages, Page
<1>4. ASSUME page.acting = r PROVE /\ Acting(q) /\ Acting(req'[r]) /\ req'[r].stage = "answered" /\ req'[r].op = q.op
                                   /\ r # Null /\ q.stage = "read"
  <2>1. Acting(q) /\ r # Null  BY <1>4, NullAssumption DEF RosterInv, ActingIs
  <2>2. ~First(q) /\ Mine(r)  BY <2>1 DEF Acting, First, Mine
  <2>3. req'[r].stage = "answered"  BY <1>1, <2>2
  <2>4. req'[r].op = q.op /\ req'[r].by = q.by  BY <1>1, <2>3 DEF HandledFrom, NoReq
  <2> QED  BY <1>1, <2>1, <2>3, <2>4 DEF Acting
<1>5. ActingIs'
  BY <1>1, <1>3, <1>4 DEF RosterInv, ActingIs, OthersStill, Still, Acting
<1>6. ASSUME Settled', Shown(page), NEW k \in Loads
      PROVE  Its(page.load[k], page.cur) /\ (Behind(k)' \/ Tells(page.load[k], View(k, page.cur)'))
  <2> DEFINE l == page.load[k]
  <2>1. Settled  BY <1>2, <1>6 DEF Settled, Spared
  <2>2. Its(l, page.cur) /\ (Behind(k) \/ Tells(l, View(k, page.cur)))
    BY <1>6, <2>1 DEF RosterInv, RosterNews
  <2>3. page.cur \in Workspaces  BY <1>3, <1>6 DEF Shown
  <2>4. CASE Behind(k)
    <3>1. page.acting # r  BY <1>1, <2>4 DEF Behind
    <3> QED  BY <1>1, <1>3, <2>2, <2>4, <3>1 DEF Behind, OthersStill, Still
  <2>5. CASE page.acting = r /\ k \in Reloads(q.op)
    BY <1>1, <1>4, <2>2, <2>5 DEF Behind
  <2>6. CASE page.acting = r /\ k \notin Reloads(q.op) /\ ~Behind(k)
    <3>1. q.op = "change" /\ k = "assignable"  BY <2>6 DEF Reloads, Loads
    <3>2. View(k, page.cur)' = View(k, page.cur)
      BY <1>1, <1>4, <2>3, <2>6, <3>1, ChangeAssigns DEF RosterInv
    <3> QED  BY <2>2, <2>6, <3>2
  <2>7. CASE page.acting # r /\ ~Behind(k)
    <3>1. CASE role'[page.cur] = role[page.cur]
      <4>1. View(k, page.cur)' = View(k, page.cur)  BY <1>1, <3>1 DEF View
      <4> QED  BY <2>2, <2>7, <4>1
    <3>2. CASE role'[page.cur] # role[page.cur]
      <4>1. ~First(q)  BY <1>1, <3>2 DEF First, RolesAfter
      <4>2. "elsewhere" \notin Disturbances(r, ok)  BY <1>1, <1>6, <4>1 DEF Settled, Spared
      <4>3. page.cur \in {x \in Workspaces : RolesAfter(q)[x] # role[x]}  BY <1>1, <2>3, <3>2
      <4>4. page.cur \notin {l.of, l.asked}  BY <2>7, <4>2, <4>3 DEF Disturbances
      <4>5. ~(l.stage = "read") /\ ~(l.stage = "idle" /\ l.ok)  BY <2>2, <4>4 DEF Its
      <4> QED  BY <2>2, <4>5 DEF Tells
    <3> QED  BY <3>1, <3>2
  <2> QED  BY <2>4, <2>5, <2>6, <2>7
<1>7. RosterNews'
  BY <1>1, <1>6 DEF RosterNews, Shown
<1> QED  BY <1>5, <1>7

\* The answer to an action on a member: the loads it calls for.
LEMMA ActedRoster ==
    ASSUME Typed, RosterInv, NEW r \in Reqs, Acted(r)
    PROVE  ActingIs' /\ RosterNews'
<1> DEFINE q == req[r]
           e == Echoed(q)
           again == IF page.acting = r THEN Reloads(q.op) ELSE {}
           loads == [k \in Loads |-> IF k \in again THEN Loading(page.load[k], q.ws) ELSE page.load[k]]
           acting == IF e.acting = r THEN Null ELSE e.acting
           echoed == [e EXCEPT !.load = loads, !.acting = acting]
<1>1. page \in Page /\ Asking(page) /\ q \in Request /\ Named(q) /\ q.ws \in Workspaces
  BY TypedParts DEF Pages, Requests, Acted, Named
<1>2. e \in Page  BY EchoedType DEF Pages
<1>3. loads \in [Loads -> Load]
  BY <1>1, LoadingType DEF Asking, Page
<1>4. acting \in Reqs \cup {Null}  BY <1>2 DEF Page
<1>5. page' = Rendered(page, echoed) /\ role' = role /\ disturbed \subseteq disturbed'
  BY DEF Acted, server, Note
<1>6. e.cur = page.cur /\ e.acting = page.acting
  BY <1>1 DEF Echoed, Page
<1>7. acting = IF page.acting = r THEN Null ELSE page.acting  BY <1>6
<1> HIDE DEF e, loads, acting
<1>8. echoed \in Page /\ echoed.load = loads /\ echoed.cur = page.cur /\ echoed.acting = acting
  BY <1>2, <1>3, <1>4, <1>6 DEF Page
<1> HIDE DEF echoed
<1>9. /\ Shown(page') <=> Shown(echoed)
      /\ page'.acting \in {Null, acting} /\ page'.cur = page.cur
      /\ Shown(page') => \A k \in Loads :
            \/ page'.load[k].stage = "sent" /\ page'.load[k].asked = page'.cur
            \/ Shown(page) /\ page'.load[k] = loads[k] /\ page'.acting = acting
  BY <1>5, <1>8, RenderedLoads, RenderedKeeps
<1>10. \A x \in Reqs \ {r} : req'[x] = req[x]  BY ActedDoes
<1>11. ActingIs'
  BY <1>1, <1>7, <1>9, <1>10 DEF RosterInv, ActingIs, Page
<1>12. CASE page.acting # r
  <2>1. \A k \in Loads : loads[k] = page.load[k]  BY <1>12 DEF loads
  <2>2. acting = page.acting  BY <1>7, <1>12
  <2>3. \A k \in Loads : page'.acting = acting /\ Behind(k) => Behind(k)'
    BY <1>1, <1>10, <1>12, <2>2 DEF Behind, Page
  <2> QED  BY <1>5, <1>9, <1>11, <2>1, <2>3, SameRoster DEF RosterInv
<1>13. CASE page.acting = r
  <2>1. q.stage = "answered" /\ r # Null /\ again = Reloads(q.op) /\ again \subseteq Loads
    BY <1>13, NullAssumption DEF Acted, Reloads, Loads
  <2>2. ASSUME Settled', Shown(page'), NEW k \in Loads
        PROVE  /\ Its(page'.load[k], page'.cur)
               /\ Behind(k)' \/ Tells(page'.load[k], View(k, page.cur)')
    <3> DEFINE l == page.load[k]
    <3>1. Settled  BY <1>5, <2>2 DEF Settled, Spared
    <3>2. CASE page'.load[k].stage = "sent" /\ page'.load[k].asked = page'.cur
      BY <3>2 DEF Its, Tells
    <3>3. CASE Shown(page) /\ page'.load[k] = loads[k]
      <4>1. Its(l, page.cur) /\ (Behind(k) \/ Tells(l, View(k, page.cur)))
        BY <3>1, <3>3 DEF RosterInv, RosterNews
      <4>2. View(k, page.cur)' = View(k, page.cur)  BY <1>5, <1>9 DEF View
      <4>3. CASE k \notin again
        <5>1. ~Behind(k)  BY <1>13, <2>1, <4>3 DEF Behind
        <5>2. page'.load[k] = l  BY <3>3, <4>3 DEF loads
        <5> QED  BY <1>9, <4>1, <4>2, <5>1, <5>2
      <4>4. CASE k \in again /\ l.stage = "idle"
        <5>1. q.ws = page.cur
          <6>1. "strayed" \notin disturbed'  BY <2>2 DEF Settled, Spared
          <6> QED  BY <4>4, <6>1 DEF Acted, Note
        <5>2. page'.load[k] = [NoLoad EXCEPT !.stage = "sent", !.asked = q.ws]
          BY <3>3, <4>4 DEF loads, Loading
        <5>3. page'.load[k].stage = "sent" /\ page'.load[k].asked = page'.cur
          BY <1>9, <5>1, <5>2 DEF NoLoad
        <5> QED  BY <5>3 DEF Its, Tells
      <4>5. CASE k \in again /\ l.stage # "idle"
        <5>1. page'.load[k] = l  BY <3>3, <4>5 DEF loads, Loading
        <5>2. ASSUME l.stage = "read" PROVE l.got = View(k, page.cur)
          <6>1. "behind" \notin disturbed'  BY <2>2 DEF Settled, Spared
          <6>2. l.got = View(k, l.asked)  BY <4>5, <5>2, <6>1 DEF Acted, Note
          <6> QED  BY <4>1, <5>2, <6>2 DEF Its
        <5> QED  BY <1>9, <4>1, <4>2, <4>5, <5>1, <5>2 DEF Its, Tells
      <4> QED  BY <4>3, <4>4, <4>5
    <3> QED  BY <1>9, <2>2, <3>2, <3>3
  <2>3. RosterNews'  BY <2>2 DEF RosterNews, Shown
  <2> QED  BY <1>11, <2>3
<1> QED  BY <1>12, <1>13

LEMMA AnsweredRoster ==
    ASSUME Typed, RosterInv, NEW r \in Reqs, Answered(r)
    PROVE  ActingIs' /\ RosterNews'
<1> DEFINE q == req[r]
           run == IF q.ok THEN r ELSE page.run
           roles == IF q.ok /\ q.op = "create" THEN [page.role EXCEPT ![q.ws] = "owner"] ELSE page.role
           n == [page EXCEPT !.run = run, !.role = roles]
           saving == IF n.saving = r THEN Null ELSE n.saving
           creating == IF n.creating = r THEN Null ELSE n.creating
           m == [n EXCEPT !.saving = saving, !.creating = creating]
           Same(p) == p \in Page /\ p.load = page.load /\ p.cur = page.cur /\ p.acting = page.acting
<1>1. page \in Page /\ q \in Request  BY TypedParts DEF Pages, Requests
<1>2. run \in Reqs \cup {Null} /\ roles \in [Workspaces -> Roles]  BY <1>1 DEF Page, Roles
<1>3. Same(n)
  <2> HIDE DEF run, roles
  <2> QED  BY <1>1, <1>2 DEF Page
<1>4. saving \in Reqs \cup {Null} /\ creating \in Reqs \cup {Null}
  <2> HIDE DEF n
  <2> QED  BY <1>3 DEF Page
<1>5. Same(m)
  <2> HIDE DEF n, saving, creating, run, roles
  <2> QED  BY <1>3, <1>4 DEF Page
<1>6. page' = Rendered(page, IF q.ok THEN n ELSE m) /\ role' = role /\ disturbed' = disturbed
  BY DEF Answered, server
<1> HIDE DEF n, m
<1>7. PICK p : Same(p) /\ page' = Rendered(page, p)  BY <1>3, <1>5, <1>6
<1>8. /\ page'.acting \in {Null, page.acting} /\ page'.cur = page.cur
      /\ Shown(page') => \A k \in Loads :
            \/ page'.load[k].stage = "sent" /\ page'.load[k].asked = page'.cur
            \/ Shown(page) /\ page'.load[k] = page.load[k] /\ page'.acting = page.acting
  BY <1>7, RenderedLoads, RenderedKeeps
<1>9. \A x \in Reqs \ {r} : req'[x] = req[x]  BY AnsweredDoes
<1>10. page.acting # r
  BY NullAssumption DEF RosterInv, ActingIs, Acting, Answered
<1>11. ActingIs'
  BY <1>1, <1>8, <1>9, <1>10 DEF RosterInv, ActingIs, Page
<1>12. \A k \in Loads : page'.acting = page.acting /\ Behind(k) => Behind(k)'
  BY <1>1, <1>9, <1>10 DEF Behind, Page
<1> QED  BY <1>6, <1>8, <1>11, <1>12, SameRoster DEF RosterInv

\* The page a list makes: it renders twice.
LEMMA ListLandsTwice ==
    ASSUME Typed, NEW r \in Reqs, ListLands(r)
    PROVE  \E chosen, seeded \in Page :
             LET one == Rendered(page, chosen)
                 two == Rendered(one, seeded) IN
             /\ chosen.load = page.load /\ chosen.acting = page.acting
             /\ seeded.load = one.load /\ seeded.acting = one.acting /\ seeded.cur = one.cur
             /\ page'.load = two.load /\ page'.acting = two.acting
             /\ page'.cur = two.cur /\ page'.role = two.role
             /\ Dropped(page, one) \subseteq disturbed'
<1> DEFINE q == req[r]
           now == Current(q.list, page.want)
           run == IF page.run = r THEN Null ELSE page.run
           want == IF q.stage = "listed" THEN now ELSE page.want
           listed == [page EXCEPT !.list = q.list, !.cur = now, !.run = run, !.want = want]
           shown == IF ~Counts(r) THEN page ELSE listed
           selected == [shown EXCEPT !.cur = q.ws, !.want = q.ws]
           chosen == IF q.op = "create" /\ q.ws \in Listed(shown) THEN selected ELSE shown
           one == Rendered(page, chosen)
           seeded == IF Counts(r) THEN Seeded(one) ELSE one
           two == Rendered(one, seeded)
           saving == IF two.saving = r THEN Null ELSE two.saving
           creating == IF two.creating = r THEN Null ELSE two.creating
           Same(p) == p \in Page /\ p.load = page.load /\ p.acting = page.acting
<1>1. page \in Pages /\ page \in Page /\ q \in Request
  BY TypedParts DEF Pages, Requests
<1>2. Same(listed)
  <2>1. now \in Workspaces \cup {Null} /\ run \in Reqs \cup {Null} /\ want \in Workspaces \cup {Null}
    BY <1>1, CurrentType DEF Page
  <2> HIDE DEF now, run, want
  <2> QED  BY <1>1, <2>1 DEF Page, Request
<1> HIDE DEF listed
<1>3. Same(shown)  BY <1>1, <1>2
<1> HIDE DEF shown
<1>4. Same(chosen)
  <2>1. Same(selected)  BY <1>1, <1>3 DEF Page, Request
  <2> HIDE DEF selected
  <2> QED  BY <1>3, <2>1
<1> HIDE DEF chosen
<1>5. chosen \in Pages  BY <1>1, <1>4 DEF Pages, Asking
<1>6. one \in Pages /\ one \in Page  BY <1>1, <1>5, RenderedType DEF Pages
<1> HIDE DEF one
<1>7. seeded \in Pages /\ seeded \in Page /\ seeded.load = one.load /\ seeded.acting = one.acting /\ seeded.cur = one.cur
  <2>1. Seeded(one) \in Pages /\ Seeded(one).load = one.load /\ Seeded(one).acting = one.acting /\ Seeded(one).cur = one.cur
    BY <1>6, SeededType DEF Seeded, Page
  <2> QED  BY <1>6, <2>1 DEF Pages
<1> HIDE DEF seeded
<1>8. two \in Page  BY <1>6, <1>7, RenderedType DEF Pages
<1>9. page' = [two EXCEPT !.saving = saving, !.creating = creating]
  BY DEF ListLands, shown, listed, chosen, one, seeded
<1>10. saving \in Reqs \cup {Null} /\ creating \in Reqs \cup {Null}
  <2> HIDE DEF two
  <2> QED  BY <1>8 DEF Page
<1>11. page'.load = two.load /\ page'.acting = two.acting /\ page'.cur = two.cur /\ page'.role = two.role
  <2> HIDE DEF two, saving, creating
  <2> QED  BY <1>8, <1>9, <1>10 DEF Page
<1>12. Dropped(page, one) \subseteq disturbed'
  BY DEF ListLands, Note, shown, listed, chosen, one
<1> QED  BY <1>4, <1>7, <1>11, <1>12 DEF one

LEMMA ListLandsRoster ==
    ASSUME Typed, RosterInv, NEW r \in Reqs, ListLands(r)
    PROVE  ActingIs' /\ RosterNews'
<1>1. page \in Page /\ role' = role /\ disturbed \subseteq disturbed'
  BY TypedParts DEF Pages, ListLands, server, Note
<1>2. PICK chosen \in Page, seeded \in Page :
             LET one == Rendered(page, chosen)
                 two == Rendered(one, seeded) IN
             /\ chosen.load = page.load /\ chosen.acting = page.acting
             /\ seeded.load = one.load /\ seeded.acting = one.acting /\ seeded.cur = one.cur
             /\ page'.load = two.load /\ page'.acting = two.acting
             /\ page'.cur = two.cur /\ page'.role = two.role
             /\ Dropped(page, one) \subseteq disturbed'
  BY ListLandsTwice
<1> DEFINE one == Rendered(page, chosen)
           two == Rendered(one, seeded)
<1>3. /\ seeded.load = one.load /\ seeded.acting = one.acting /\ seeded.cur = one.cur
      /\ page'.load = two.load /\ page'.acting = two.acting
      /\ page'.cur = two.cur /\ page'.role = two.role
      /\ Dropped(page, one) \subseteq disturbed'
  BY <1>2
<1>4. /\ Shown(two) <=> Shown(seeded)
      /\ two.acting \in {Null, seeded.acting} /\ two.cur = seeded.cur
      /\ Shown(seeded) => \A k \in Loads :
            \/ two.load[k].stage = "sent" /\ two.load[k].asked = seeded.cur
            \/ Shown(one) /\ two.load[k] = one.load[k] /\ two.acting = one.acting
  BY <1>3, RenderedLoads, RenderedKeeps
<1>5. /\ Shown(one) <=> Shown(chosen)
      /\ one.acting \in {Null, page.acting} /\ one.cur = chosen.cur
      /\ Shown(one) => \A k \in Loads :
            \/ one.load[k].stage = "sent" /\ one.load[k].asked = one.cur
            \/ Shown(page) /\ one.cur # page.cur /\ page.load[k].stage # "idle"
            \/ Shown(page) /\ one.cur = page.cur /\ one.load[k] = page.load[k] /\ one.acting = page.acting
  BY <1>2, RenderedLoads, RenderedKeeps
<1> HIDE DEF one, two
<1>6. page.acting # r
  BY NullAssumption DEF RosterInv, ActingIs, Acting, ListLands
<1>7. \A x \in Reqs \ {r} : req'[x] = req[x]
  BY PutIs DEF ListLands
<1>8. ActingIs'
  BY <1>1, <1>3, <1>4, <1>5, <1>6, <1>7 DEF RosterInv, ActingIs, Page
<1>9. \A k \in Loads : page'.acting = page.acting /\ Behind(k) => Behind(k)'
  BY <1>1, <1>6, <1>7 DEF Behind, Page
<1>10. Shown(page') <=> Shown(two)  BY <1>3 DEF Shown
<1>11. ASSUME NEW k \in Loads, Settled, Settled', Shown(page'),
              Shown(page) => Its(page.load[k], page.cur)
       PROVE  \/ page'.load[k].stage = "sent" /\ page'.load[k].asked = page'.cur
              \/ /\ Shown(page) /\ page'.cur = page.cur /\ page'.load[k] = page.load[k]
                 /\ Behind(k) => Behind(k)'
  <2>1. CASE two.load[k].stage = "sent" /\ two.load[k].asked = seeded.cur
    BY <1>3, <1>4, <2>1
  <2>2. CASE Shown(one) /\ two.load[k] = one.load[k] /\ two.acting = one.acting
    <3>1. CASE one.load[k].stage = "sent" /\ one.load[k].asked = one.cur
      BY <1>3, <1>4, <2>2, <3>1
    <3>2. CASE Shown(page) /\ one.cur # page.cur /\ page.load[k].stage # "idle"
      <4>1. page.load[k].asked = page.cur  BY <1>11, <3>2 DEF Its
      <4>2. "dropped" \in Dropped(page, one)  BY <2>2, <3>2, <4>1 DEF Dropped
      <4> QED  BY <1>3, <1>11, <4>2 DEF Settled, Spared
    <3>3. CASE Shown(page) /\ one.cur = page.cur /\ one.load[k] = page.load[k] /\ one.acting = page.acting
      BY <1>3, <1>4, <1>9, <2>2, <3>3
    <3> QED  BY <1>5, <2>2, <3>1, <3>2, <3>3
  <2> QED  BY <1>4, <1>10, <1>11, <2>1, <2>2
<1> QED  BY <1>1, <1>8, <1>11, SameRoster DEF RosterInv

LEMMA LoadRoster ==
    ASSUME Typed, RosterInv, NEW k \in Loads, LoadStep(k)
    PROVE  ActingIs' /\ RosterNews'
<1> DEFINE l == page.load[k]
<1>1. page \in Page /\ l \in Load /\ page.load \in [Loads -> Load]  BY TypedParts DEF Pages, Page
<1>2. role' = role /\ req' = req /\ disturbed' = disturbed
  BY LoadStepDoes DEF server
<1>3. \E x : /\ page' = [page EXCEPT !.load[k] = x]
             /\ \A w, v : Its(l, w) => Its(x, w) /\ (Tells(l, v) => Tells(x, v) \/ v # View(k, w))
  <2>1. CASE LoadReads(k)
    <3>1. PICK ok \in BOOLEAN :
             page' = [page EXCEPT !.load[k] = [l EXCEPT !.stage = IF ok THEN "read" ELSE "failed",
                                                        !.got = IF ok THEN View(k, l.asked) ELSE @]]
      BY <2>1 DEF LoadReads
    <3> DEFINE stage == IF ok THEN "read" ELSE "failed"
               got == IF ok THEN View(k, l.asked) ELSE l.got
               x == [l EXCEPT !.stage = stage, !.got = got]
    <3>2. page' = [page EXCEPT !.load[k] = x]  BY <3>1
    <3>3. x.stage = stage /\ x.got = got /\ x.asked = l.asked
      <4> HIDE DEF stage, got
      <4> QED  BY <1>1 DEF Load
    <3>4. l.stage = "sent"  BY <2>1 DEF LoadReads
    <3> HIDE DEF x
    <3>5. \A w, v : Its(l, w) => Its(x, w) /\ (Tells(l, v) => Tells(x, v) \/ v # View(k, w))
      BY <3>3, <3>4 DEF Its, Tells
    <3> QED  BY <3>2, <3>5
  <2>2. CASE LoadLands(k)
    <3> DEFINE done == [NoLoad EXCEPT !.ok = TRUE, !.of = l.asked, !.rows = l.got]
    <3>1. done.ok = TRUE /\ done.stage = "idle" /\ done.of = l.asked /\ done.rows = l.got
      BY DEF NoLoad
    <3>2. NoLoad.ok = FALSE /\ NoLoad.stage = "idle"  BY DEF NoLoad
    <3>3. page' = [page EXCEPT !.load[k] = IF l.stage = "failed" THEN NoLoad ELSE done]
          /\ l.stage \in {"read", "failed"}
      BY <2>2 DEF LoadLands
    <3> HIDE DEF done
    <3>4. \A w, v : Its(l, w) => Its(NoLoad, w) /\ Tells(NoLoad, v)
      BY <3>2 DEF Its, Tells
    <3>5. l.stage = "read" => \A w, v : Its(l, w) => Its(done, w) /\ (Tells(l, v) => Tells(done, v))
      BY <3>1 DEF Its, Tells
    <3>6. CASE l.stage = "failed"  BY <3>3, <3>4, <3>6
    <3>7. CASE l.stage = "read"  BY <3>3, <3>5, <3>7
    <3> QED  BY <3>3, <3>6, <3>7
  <2> QED  BY <2>1, <2>2 DEF LoadStep
<1>4. PICK x : /\ page' = [page EXCEPT !.load[k] = x]
               /\ \A w, v : Its(l, w) => Its(x, w) /\ (Tells(l, v) => Tells(x, v) \/ v # View(k, w))
  BY <1>3
<1>5. page'.load = [page.load EXCEPT ![k] = x] /\ page'.acting = page.acting /\ page'.cur = page.cur
      /\ page'.role = page.role
  BY <1>1, <1>4 DEF Page
<1>6. page'.load[k] = x /\ \A j \in Loads \ {k} : page'.load[j] = page.load[j]  BY <1>1, <1>5
<1>7. ActingIs'  BY <1>2, <1>5 DEF RosterInv, ActingIs
<1>8. \A j \in Loads : (Behind(j) <=> Behind(j)') /\ View(j, page.cur)' = View(j, page.cur)
  BY <1>2, <1>5 DEF Behind, View
<1>9. (Settled' <=> Settled) /\ (Shown(page') <=> Shown(page))
  BY <1>2, <1>5 DEF Settled, Spared, Shown
<1>10. ASSUME Settled, Shown(page), NEW j \in Loads
       PROVE  Its(page'.load[j], page.cur) /\ (Behind(j) \/ Tells(page'.load[j], View(j, page.cur)))
  <2>1. Its(page.load[j], page.cur) /\ (Behind(j) \/ Tells(page.load[j], View(j, page.cur)))
    BY <1>10 DEF RosterInv, RosterNews
  <2>2. CASE j # k  BY <1>6, <2>1, <2>2
  <2>3. CASE j = k  BY <1>4, <1>6, <2>1, <2>3
  <2> QED  BY <2>2, <2>3
<1>11. RosterNews'
  BY <1>5, <1>8, <1>9, <1>10 DEF RosterNews, Shown
<1> QED  BY <1>7, <1>11

\* A step that leaves the loads, the action under way and its request as they are.
LEMMA QuietRoster ==
    ASSUME RosterInv, role' = role, disturbed \subseteq disturbed', page'.load = page.load,
           page'.cur = page.cur, page'.role = page.role, page'.acting = page.acting,
           page.acting # Null => req'[page.acting] = req[page.acting]
    PROVE  ActingIs' /\ RosterNews'
<1>1. ActingIs'  BY DEF RosterInv, ActingIs
<1>2. \A k \in Loads : Behind(k) => Behind(k)'  BY DEF Behind
<1>3. Shown(page') <=> Shown(page)  BY DEF Shown
<1> QED  BY <1>1, <1>2, <1>3, SameRoster DEF RosterInv

LEMMA UserRoster == ASSUME Typed, RosterInv, User PROVE ActingIs' /\ RosterNews'
<1>1. page \in Page /\ NoReq \in Request /\ Me # Null /\ page.acting \in Reqs \cup {Null}
  BY TypedParts, NoReqType, NullAssumption, UsersAssumption DEF Pages, Requests, Page
<1>2. role' = role /\ disturbed \subseteq disturbed'
  BY UserDoes DEF server
<1>3. ASSUME NEW w \in Workspaces, Switch(w) PROVE ActingIs' /\ RosterNews'
  <2> DEFINE n == [page EXCEPT !.cur = w, !.want = w]
  <2>1. n \in Page /\ n.load = page.load /\ n.acting = page.acting /\ n.cur = w
    BY <1>1 DEF Page
  <2>2. page' = Rendered(page, n) /\ w # page.cur /\ req' = req /\ Dropped(page, n) \subseteq disturbed'
    BY <1>3 DEF Switch, Note
  <2> HIDE DEF n
  <2>3. /\ Shown(page') <=> Shown(n)
        /\ page'.acting \in {Null, page.acting} /\ page'.cur = w
        /\ Shown(page') => \A k \in Loads :
              \/ page'.load[k].stage = "sent" /\ page'.load[k].asked = page'.cur
              \/ Shown(page) /\ page.load[k].stage # "idle"
    BY <2>1, <2>2, RenderedLoads, RenderedKeeps
  <2>4. ActingIs'  BY <2>2, <2>3 DEF RosterInv, ActingIs
  <2>5. ASSUME NEW k \in Loads, Settled, Settled', Shown(page'),
               Shown(page) => Its(page.load[k], page.cur)
        PROVE  page'.load[k].stage = "sent" /\ page'.load[k].asked = page'.cur
    <3> SUFFICES ASSUME Shown(page), page.load[k].stage # "idle" PROVE FALSE
      BY <2>3, <2>5
    <3>1. page.load[k].asked = page.cur  BY <2>5 DEF Its
    <3>2. "dropped" \in Dropped(page, n)  BY <2>1, <2>2, <2>3, <2>5, <3>1 DEF Dropped
    <3> QED  BY <2>2, <2>5, <3>2 DEF Settled, Spared
  <2> QED  BY <1>2, <2>4, <2>5, SameRoster DEF RosterInv
<1>4. ASSUME NEW op \in {"add", "change", "remove"}, NEW u \in Users, NEW new \in Roles, Act(op, u, new)
      PROVE  ActingIs' /\ RosterNews'
  <2> DEFINE q == [NoReq EXCEPT !.op = op, !.by = Me, !.ws = page.cur, !.user = u, !.role = new]
  <2>1. q \in Request /\ q.op = op /\ q.by = Me
    BY <1>1, UsersAssumption DEF Request, Ops, Page
  <2>2. Start(q) /\ page' = [page EXCEPT !.acting = Least(Slots)] /\ page.acting = Null
    BY <1>4 DEF Act
  <2> HIDE DEF q
  <2>3. PICK s \in Reqs : s = Least(Slots) /\ req'[s].stage = "sent" /\ req'[s].op = q.op /\ req'[s].by = q.by
    BY <2>1, <2>2, StartDoes
  <2>4. /\ page'.load = page.load /\ page'.cur = page.cur /\ page'.role = page.role /\ page'.acting = s
    BY <1>1, <2>2, <2>3 DEF Page
  <2>5. ActingIs'  BY <2>1, <2>3, <2>4 DEF ActingIs, Acting
  <2>6. \A k \in Loads : ~Behind(k)  BY <2>2 DEF Behind
  <2>7. Shown(page') <=> Shown(page)  BY <2>4 DEF Shown
  <2> QED  BY <1>2, <2>4, <2>5, <2>6, <2>7, SameRoster DEF RosterInv
<1>5. ASSUME NEW q \in Request, Start(q), page'.load = page.load, page'.cur = page.cur,
             page'.role = page.role, page'.acting = page.acting
      PROVE  ActingIs' /\ RosterNews'
  <2>1. PICK s \in Reqs : req[s].op = "none" /\ \A x \in Reqs \ {s} : req'[x] = req[x]
    BY <1>5, StartDoes
  <2>2. page.acting # Null => page.acting # s  BY <2>1 DEF RosterInv, ActingIs, Acting
  <2> QED  BY <1>1, <1>2, <1>5, <2>1, <2>2, QuietRoster
<1>6. CASE Create
  <2> DEFINE q == [NoReq EXCEPT !.op = "create", !.by = Me]
  <2>1. q \in Request  BY <1>1, UsersAssumption DEF Request, Ops
  <2>2. Start(q) /\ page' = [page EXCEPT !.creating = Least(Slots)]  BY <1>6 DEF Create
  <2>3. page'.load = page.load /\ page'.cur = page.cur /\ page'.role = page.role /\ page'.acting = page.acting
    BY <1>1, <2>2 DEF Page
  <2> HIDE DEF q
  <2> QED  BY <1>5, <2>1, <2>2, <2>3
<1>7. ASSUME NEW op \in {"update", "delete"}, Settle(op) PROVE ActingIs' /\ RosterNews'
  <2> DEFINE set == ~page.list[page.cur].open
             q == [NoReq EXCEPT !.op = op, !.by = Me, !.ws = page.cur, !.open = set]
  <2>0. set \in BOOLEAN  OBVIOUS
  <2>1. q \in Request
    <3> HIDE DEF set
    <3> QED  BY <1>1, <2>0, UsersAssumption DEF Request, Ops, Page
  <2>2. Start(q) /\ page' = [page EXCEPT !.saving = Least(Slots)]  BY <1>7 DEF Settle
  <2>3. page'.load = page.load /\ page'.cur = page.cur /\ page'.role = page.role /\ page'.acting = page.acting
    BY <1>1, <2>2 DEF Page
  <2> HIDE DEF q
  <2> QED  BY <1>5, <2>1, <2>2, <2>3
<1>8. ASSUME NEW op, NEW w, NEW u, NEW new, OtherReads(op, w, u, new) PROVE ActingIs' /\ RosterNews'
  <2>1. \E q : Put(Least(Slots), q)  BY <1>8 DEF OtherReads
  <2>2. Least(Slots) \in Reqs /\ req[Least(Slots)].op = "none" /\ page' = page
    BY <1>8, SlotType DEF OtherReads, Slots
  <2>3. \A x \in Reqs \ {Least(Slots)} : req'[x] = req[x]  BY <2>1, <2>2, PutIs
  <2>4. page.acting # Null => page.acting # Least(Slots)  BY <2>2 DEF RosterInv, ActingIs, Acting
  <2> QED  BY <1>1, <1>2, <2>2, <2>3, <2>4, QuietRoster
<1> QED  BY <1>3, <1>4, <1>6, <1>7, <1>8 DEF User

LEMMA InitRoster == Init => RosterInv
<1> SUFFICES ASSUME Init PROVE RosterInv
  OBVIOUS
<1>1. \A r \in Reqs : req[r] = NoReq  BY DEF Init
<1>2. Found  BY <1>1 DEF Found, FoundIn, NoReq
<1>3. page.acting = Null /\ page.cur = Least(made)
      /\ page.load = [k \in Loads |-> [NoLoad EXCEPT !.ok = TRUE, !.of = Least(made),
                                                     !.rows = View(k, Least(made))]]
  BY DEF Init
<1>4. ASSUME NEW k \in Loads PROVE Its(page.load[k], page.cur) /\ Tells(page.load[k], View(k, page.cur))
  <2> DEFINE v == View(k, page.cur)
             l == [NoLoad EXCEPT !.ok = TRUE, !.of = page.cur, !.rows = v]
  <2>1. page.load[k] = l  BY <1>3
  <2>2. l.stage = "idle" /\ l.of = page.cur /\ l.rows = v
    <3> HIDE DEF v
    <3> QED  BY DEF NoLoad
  <2> HIDE DEF l, v
  <2>3. Its(l, page.cur) /\ Tells(l, v)  BY <2>2 DEF Its, Tells
  <2> QED  BY <2>1, <2>3 DEF v
<1> QED  BY <1>2, <1>3, <1>4 DEF RosterInv, ActingIs, RosterNews

LEMMA StepRoster == Typed /\ RosterInv /\ [Next]_vars => RosterInv'
<1> SUFFICES ASSUME Typed, RosterInv, [Next]_vars PROVE ActingIs' /\ RosterNews'
  BY StepFound DEF RosterInv
<1>1. ASSUME NEW r \in Reqs, Handle(r) PROVE ActingIs' /\ RosterNews'
  BY <1>1, RequestRoster, CommitRoster DEF Handle
<1>2. ASSUME NEW r \in Reqs, Deliver(r) PROVE ActingIs' /\ RosterNews'
  BY <1>2, ActedRoster, AnsweredRoster, ListLandsRoster DEF Deliver
<1>3. ASSUME NEW k \in Loads, LoadStep(k) PROVE ActingIs' /\ RosterNews'
  BY <1>3, LoadRoster
<1>4. CASE UNCHANGED vars
  BY <1>4, QuietRoster DEF vars, server
<1> QED  BY <1>1, <1>2, <1>3, <1>4, UserRoster DEF Next

\* At rest a panel shows the members and the assignable users of its workspace as they
\* are (load() after each action), unless the workspace was switched under a load or an
\* action, a load barred the one an action called for, or the members were changed elsewhere.
THEOREM RostersShown == Spec => []RosterShown
<1>1. Typed /\ RosterInv => RosterShown
  <2> SUFFICES ASSUME Typed, RosterInv, Quiet, Shown(page), Settled, NEW k \in Loads, Ready(k)
               PROVE  page.load[k].of = page.cur /\ page.load[k].rows = View(k, page.cur)
    BY DEF RosterShown, Settled
  <2>1. page.acting = Null  BY TypedParts DEF RosterInv, ActingIs, Acting, Quiet, Mine, Pages, Page
  <2> QED  BY <2>1 DEF RosterInv, RosterNews, Its, Tells, Ready, Behind
<1>2. Spec => []Typed
  BY InitTyped, StepTyped, PTL DEF Spec
<1> QED  BY <1>1, <1>2, InitRoster, StepRoster, PTL DEF Spec

=============================================================================
