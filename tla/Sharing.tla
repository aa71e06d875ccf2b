------------------------------ MODULE Sharing ------------------------------
(***************************************************************************)
(* Share links: the service that issues, toggles and reads the link of a   *)
(* document, the public route that retires a link it finds invalid, the    *)
(* sweep that retires the others, and the pages above them: the share      *)
(* control of a document and the page of a guest.                          *)
(*                                                                         *)
(* A request that writes is two steps: it reads its snapshot and decides,  *)
(* then updates the row by its id, writing only the attributes it changed  *)
(* from what it had read (the unit of work of the session), and commits.   *)
(* The refresh after the commit is part of the second step.  The status of *)
(* documents and the gate of their workspace (is_shareable) are set by     *)
(* other parts of the system, each in one step.                            *)
(***************************************************************************)
EXTENDS Integers, FiniteSets, Ids

CONSTANTS
    Docs,          \* documents of one workspace
    Links,         \* ids of rows of share_link, allotted in increasing order
    Controls,      \* share controls, each on the page of its user
    Reqs,          \* slots for requests
    MaxStarts,     \* bound on what members and guests start
    MaxEvents,     \* bound on changes of status and gate
    MaxFaults,     \* bound on requests, answers and retirements that fail
    Null

ASSUME NumbersAssumption == Links \subseteq Nat /\ Reqs \subseteq Nat
ASSUME BoundsAssumption == MaxStarts \in Nat /\ MaxEvents \in Nat /\ MaxFaults \in Nat
ASSUME DocsAssumption == Docs # {}
ASSUME NullAssumption == Null \notin Docs \cup Links \cup Controls \cup Reqs

VARIABLES
    status,       \* of each document
    gate,         \* is_shareable
    link,         \* the rows of share_link
    next,         \* the next token; tokens are never used twice
    sweep,        \* the links a sweep has listed and not retired yet
    req,          \* requests in flight
    control,      \* state of useShareManager
    guest,        \* state of usePublicDocument
    starts, events, faults,
    dead,         \* history: tokens that a reissue or a retirement replaced
    disturbed     \* history: what has happened that the properties speak of

server == <<status, gate, link, next, sweep, dead>>
pages == <<control, guest>>
vars == <<server, req, pages, starts, events, faults, disturbed>>

Statuses == {"active", "trashed", "deleted"}
Ops == {"none", "get", "issue", "on", "off", "visit"}
Stages == {"none", "sent", "read", "answered"}
Causes == {"crossed", "moved", "failed", "changed"}

Row == [doc: Docs \cup {Null}, token: Nat, enabled: BOOLEAN]
NoRow == [doc |-> Null, token |-> 0, enabled |-> FALSE]

\* found and loaded: the row of the snapshot and its is_enabled; ok, got: the answer.
Request == [op: Ops, by: Controls \cup {Null}, doc: Docs \cup {Null}, token: Nat, stage: Stages,
            found: Links \cup {Null}, loaded: BOOLEAN, ok: BOOLEAN, got: Row]
NoReq == [op |-> "none", by |-> Null, doc |-> Null, token |-> 0, stage |-> "none",
          found |-> Null, loaded |-> FALSE, ok |-> FALSE, got |-> NoRow]

Note(causes) == disturbed' = disturbed \cup causes
Put(r, q) == req' = [req EXCEPT ![r] = q]
Lost(n) == faults' = faults + n /\ faults' <= MaxFaults

---------------------------------------------------------------------------
(***************************************************************************)
(* The server.                                                             *)
(***************************************************************************)
RowsOf(d) == {l \in Links : link[l].doc = d}
Shareable(d) == status[d] = "active" /\ gate
Valid(l) == link[l].enabled /\ Shareable(link[l].doc)

\* What a request for row l answers at once: NOT_FOUND, CONFLICT or the row as it is.
Refused(q, l) ==
    CASE q.op = "get"   -> FALSE
      [] q.op = "issue" -> ~Shareable(q.doc)
      [] q.op = "on"    -> l = Null \/ ~Shareable(q.doc)
      [] q.op = "off"   -> l = Null
      [] q.op = "visit" -> l = Null \/ ~Valid(l)

\* What it has to write.
Writes(q, l) ==
    CASE q.op = "get"   -> FALSE
      [] q.op = "visit" -> l # Null /\ link[l].enabled /\ ~Valid(l)
      [] OTHER          -> ~Refused(q, l)

\* The rows a request finds; with two of a document, either.
Found(q) ==
    LET rows == IF q.op = "visit" THEN {l \in Links : link[l].doc # Null /\ link[l].token = q.token}
                ELSE RowsOf(q.doc)
    IN  IF rows = {} THEN {Null} ELSE rows

\* The request reads: it is answered, or it has an update to make.
Read(r) ==
    LET q == req[r] IN
    /\ q.stage = "sent"
    /\ \E l \in Found(q) :
          Put(r, IF Writes(q, l)
                 THEN [q EXCEPT !.stage = "read", !.found = l, !.loaded = l # Null /\ link[l].enabled]
                 ELSE [q EXCEPT !.stage = "answered", !.ok = ~Refused(q, l),
                                !.got = IF l = Null \/ Refused(q, l) THEN NoRow ELSE link[l]])
    /\ UNCHANGED <<server, pages, starts, events, faults, disturbed>>

\* Mutant: is_enabled is cleared instead of set false.
SavedCleared(l, op, loaded) ==
    LET wanted == op \in {"issue", "on"} IN
    [link[l] EXCEPT !.token = IF op \in {"issue", "retire"} THEN next ELSE @,
                    !.enabled = IF wanted = loaded THEN @ ELSE IF wanted THEN TRUE ELSE Null]

\* Mutant: the new token is any that no row has now.
SavedReusing(l, op, loaded) ==
    LET wanted == op \in {"issue", "on"} IN
    [link[l] EXCEPT !.token = IF op \notin {"issue", "retire"} THEN @
                              ELSE CHOOSE t \in 1..next : \A k \in Links : link[k].token # t,
                    !.enabled = IF wanted = loaded THEN @ ELSE wanted]

\* Mutant: a reissue replaces the token alone.
SavedToken(l, op, loaded) ==
    [link[l] EXCEPT !.token = IF op \in {"issue", "retire"} THEN next ELSE @,
                    !.enabled = IF op = "on" THEN TRUE ELSE IF op = "issue" THEN @ ELSE FALSE]

\* What an operation makes of row l when it had read is_enabled = loaded.
Saved(l, op, loaded) ==
    LET wanted == op \in {"issue", "on"} IN
    [link[l] EXCEPT !.token = IF op \in {"issue", "retire"} THEN next ELSE @,
                    !.enabled = IF wanted = loaded THEN @ ELSE wanted]

\* Row l takes value new; a token that is replaced is dead.
Store(l, new) ==
    /\ link' = [link EXCEPT ![l] = new]
    /\ next' = IF new.token = next THEN next + 1 ELSE next
    /\ dead' = IF link[l].doc # Null /\ new.token # link[l].token THEN dead \cup {link[l].token} ELSE dead

\* A link of d is written under another control that is at d.
Changed(d, by) == IF \E c \in Controls \ {by} : control[c].doc = d THEN {"changed"} ELSE {}

FreeRow == Least({l \in Links : link[l].doc = Null})

\* The request updates or inserts its row; the answer may be lost.
Commit(r, answered) ==
    LET q == req[r]
        op == IF q.op = "visit" THEN "retire" ELSE q.op
        l == IF q.found = Null THEN FreeRow ELSE q.found
        new == IF q.found = Null THEN [doc |-> q.doc, token |-> next, enabled |-> TRUE]
               ELSE Saved(l, op, q.loaded) IN
    /\ q.stage = "read" /\ Lost(IF answered THEN 0 ELSE 1)
    /\ q.found = Null => \E k \in Links : link[k].doc = Null
    /\ Store(l, new)
    /\ Put(r, [q EXCEPT !.stage = "answered", !.ok = answered /\ op # "retire", !.got = new])
    /\ Note((IF q.found # Null /\ link[l].enabled # q.loaded THEN {"crossed"} ELSE {})
            \cup Changed(new.doc, q.by))
    /\ UNCHANGED <<status, gate, sweep, pages, starts, events>>

\* The request or its session fails.
Fail(r) ==
    /\ req[r].stage \in {"sent", "read"} /\ Lost(1)
    /\ Put(r, [req[r] EXCEPT !.stage = "answered", !.ok = FALSE])
    /\ UNCHANGED <<server, pages, starts, events, disturbed>>

\* Mutant: the gate is not looked at.
InvalidatableTrashed == {l \in Links : link[l].doc # Null /\ link[l].enabled /\ status[link[l].doc] # "active"}

\* list_enabled_invalidatable
Invalidatable == {l \in Links : link[l].doc # Null /\ link[l].enabled /\ ~Shareable(link[l].doc)}

\* invalidate_by_observation lists the enabled links that are no longer valid ...
SweepLists ==
    /\ sweep = {}
    /\ sweep' = Invalidatable
    /\ sweep' # {}
    /\ UNCHANGED <<status, gate, link, next, dead, req, pages, starts, events, faults, disturbed>>

\* ... and retires them one by one, as it had listed them; one that fails is skipped.
SweepRetires(done) ==
    LET l == Least(sweep) IN
    /\ sweep # {} /\ Lost(IF done THEN 0 ELSE 1)
    /\ sweep' = sweep \ {l}
    /\ IF done THEN Store(l, Saved(l, "retire", TRUE)) /\ Note(Changed(link[l].doc, Null))
       ELSE UNCHANGED <<link, next, dead, disturbed>>
    /\ UNCHANGED <<status, gate, req, pages, starts, events>>

\* The document is moved to the trash, restored or purged.
SetStatus(d, new) ==
    /\ events < MaxEvents /\ events' = events + 1
    /\ <<status[d], new>> \in {<<"active", "trashed">>, <<"trashed", "active">>, <<"trashed", "deleted">>}
    /\ status' = [status EXCEPT ![d] = new]
    /\ UNCHANGED <<gate, link, next, sweep, dead, req, pages, starts, faults, disturbed>>

\* The settings of the workspace open or close the gate.
SetGate ==
    /\ events < MaxEvents /\ events' = events + 1
    /\ gate' = ~gate
    /\ UNCHANGED <<status, link, next, sweep, dead, req, pages, starts, faults, disturbed>>

---------------------------------------------------------------------------
(***************************************************************************)
(* The pages.                                                              *)
(***************************************************************************)
Slots == {r \in Reqs : req[r].op = "none"}
Slot == Least(Slots)

Start(q) ==
    /\ starts < MaxStarts /\ starts' = starts + 1
    /\ Slots # {} /\ Put(Slot, [q EXCEPT !.stage = "sent"])
    /\ UNCHANGED <<server, events, faults>>

\* The control turns to document d and asks for its link; it keeps the link it had.
Turn(c, d) ==
    /\ d # control[c].doc
    /\ Start([NoReq EXCEPT !.op = "get", !.by = c, !.doc = d])
    /\ control' = [control EXCEPT ![c].doc = d, ![c].loading = TRUE, ![c].run = Slot]
    /\ Note(IF \E r \in Reqs : req[r].by = c /\ req[r].op # "get" THEN {"moved"} ELSE {})
    /\ UNCHANGED guest

\* Mutant: the read under way still counts.
ActOvertaken(c, op) ==
    /\ ~control[c].pending
    /\ Start([NoReq EXCEPT !.op = op, !.by = c, !.doc = control[c].doc])
    /\ control' = [control EXCEPT ![c].pending = TRUE]
    /\ UNCHANGED <<guest, disturbed>>

\* issue() and toggle(): an answer to a read that is under way no longer counts.
Act(c, op) ==
    /\ ~control[c].pending
    /\ Start([NoReq EXCEPT !.op = op, !.by = c, !.doc = control[c].doc])
    /\ control' = [control EXCEPT ![c].loading = FALSE, ![c].pending = TRUE, ![c].run = Null]
    /\ UNCHANGED <<guest, disturbed>>

\* The one button of DocumentShareControl, disabled while the link is loaded.
ControlClick(c) ==
    LET k == control[c] IN
    /\ ~k.loading
    /\ Act(c, IF k.link.doc = Null THEN "issue" ELSE IF k.link.enabled THEN "off" ELSE "on")

\* The two buttons of ShareLinkPanel, which are not.
PanelClick(c, op) ==
    /\ op \in {"issue"} \cup (IF control[c].link.doc = Null THEN {}
                            ELSE IF control[c].link.enabled THEN {"off"} ELSE {"on"})
    /\ Act(c, op)

\* A read counts if it is the latest, an issue() or toggle() always.
Counts(r) == req[r].op # "get" \/ control[req[r].by].run = r

\* An answer reaches the control.
Answered(r) ==
    LET q == req[r]
        c == q.by
        k == control[c]
        counts == Counts(r) IN
    /\ q.stage = "answered" /\ c # Null
    /\ control' = [control EXCEPT ![c] =
          [k EXCEPT !.link = IF counts /\ q.ok THEN q.got ELSE @,
                    !.loading = IF q.op = "get" /\ counts THEN FALSE ELSE @,
                    !.run = IF q.op = "get" /\ counts THEN Null ELSE @,
                    !.pending = IF q.op = "get" THEN @ ELSE FALSE]]
    /\ Put(r, NoReq)
    /\ Note(IF counts /\ ~q.ok THEN {"failed"} ELSE {})
    /\ UNCHANGED <<server, guest, starts, events, faults>>

\* A guest follows the link with token t.
Follow(t) ==
    /\ t # guest.token
    /\ Start([NoReq EXCEPT !.op = "visit", !.token = t])
    /\ guest' = [token |-> t, status |-> "loading", run |-> Slot]
    /\ UNCHANGED <<control, disturbed>>

\* The answer reaches the guest if the page still shows that link.  "unavailable" is
\* the 404 and every other failure, which the hook tells apart and no property does.
Visited(r) ==
    /\ req[r].stage = "answered" /\ req[r].op = "visit"
    /\ guest' = IF guest.run # r THEN guest
                ELSE [guest EXCEPT !.status = IF req[r].ok THEN "ready" ELSE "unavailable", !.run = Null]
    /\ Put(r, NoReq)
    /\ UNCHANGED <<server, control, starts, events, faults, disturbed>>

---------------------------------------------------------------------------
\* No document has a link; the controls are at the same document and know it has none.
Init ==
    /\ status = [d \in Docs |-> "active"] /\ gate = TRUE
    /\ link = [l \in Links |-> NoRow] /\ next = 1 /\ dead = {} /\ sweep = {}
    /\ req = [r \in Reqs |-> NoReq]
    /\ control = [c \in Controls |-> [doc |-> CHOOSE d \in Docs : TRUE, link |-> NoRow,
                                      loading |-> FALSE, pending |-> FALSE, run |-> Null]]
    /\ guest = [token |-> 0, status |-> "none", run |-> Null]
    /\ starts = 0 /\ events = 0 /\ faults = 0
    /\ disturbed = {}

Handle(r) == Read(r) \/ Fail(r) \/ \E answered \in BOOLEAN : Commit(r, answered)
Deliver(r) == Answered(r) \/ Visited(r)
Sweep == SweepLists \/ \E done \in BOOLEAN : SweepRetires(done)

User ==
    \/ \E c \in Controls :
          \/ \E d \in Docs : Turn(c, d)
          \/ ControlClick(c)
          \/ \E op \in {"issue", "on", "off"} : PanelClick(c, op)
    \/ \E t \in 1..(next - 1) : Follow(t)

Events == SetGate \/ \E d \in Docs, new \in Statuses : SetStatus(d, new)

Next == (\E r \in Reqs : Handle(r) \/ Deliver(r)) \/ Sweep \/ User \/ Events

Spec == Init /\ [][Next]_vars

\* Requests are handled, their answers reach the page, the sweep runs again and again.
FairSpec == Spec /\ WF_vars(Sweep) /\ \A r \in Reqs : WF_vars(Handle(r) \/ Deliver(r))

---------------------------------------------------------------------------
(***************************************************************************)
(* Properties.                                                             *)
(***************************************************************************)
TypeOK ==
    /\ status \in [Docs -> Statuses] /\ gate \in BOOLEAN
    /\ link \in [Links -> Row] /\ next \in Nat /\ dead \subseteq Nat
    /\ sweep \subseteq Links
    /\ req \in [Reqs -> Request]
    /\ control \in [Controls -> [doc: Docs, link: Row, loading: BOOLEAN,
                                 pending: BOOLEAN, run: Reqs \cup {Null}]]
    /\ guest \in [token: Nat, status: {"none", "loading", "ready", "unavailable"}, run: Reqs \cup {Null}]
    /\ starts \in Nat /\ events \in Nat /\ faults \in Nat
    /\ disturbed \subseteq Causes

Spared(causes) == disturbed \cap causes = {}
Quiet(c) == \A r \in Reqs : req[r].by # c

\* A token that was replaced, by a reissue or because the link was found invalid,
\* opens nothing again, whatever else was under way (INV-8).
DeadStaysDead == \A l \in Links : link[l].doc # Null => link[l].token \notin dead

\* Reissuing leaves the link enabled, unless it was toggled or retired meanwhile.
ReissueEnables ==
    [][\A r \in Reqs :
          req[r].op = "issue" /\ req[r].stage = "read" /\ req'[r].stage = "answered" /\ link' # link =>
              req'[r].got.enabled \/ "crossed" \in disturbed']_vars

\* A control at rest shows the link of its document as it is, unless the document changed
\* under an issue or toggle, a request of the control failed or was refused, or the link
\* was written under another control.
ControlShowsServer ==
    \A c \in Controls :
        Quiet(c) /\ Spared({"moved", "failed", "changed"}) =>
            control[c].link = IF RowsOf(control[c].doc) = {} THEN NoRow
                              ELSE link[CHOOSE l \in RowsOf(control[c].doc) : TRUE]

\* A link of a document that is not shared any more is retired, or becomes valid again.
InvalidRetired ==
    \A l \in Links : (link[l].doc # Null /\ link[l].enabled /\ ~Valid(l)) ~> (~link[l].enabled \/ Valid(l))
=============================================================================
