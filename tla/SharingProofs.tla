--------------------------- MODULE SharingProofs ---------------------------
(***************************************************************************)
(* What holds of share links for every number of documents, rows, controls *)
(* and requests.                                                           *)
(***************************************************************************)
EXTENDS Sharing, IdsProofs

Control == [doc: Docs, link: Row, loading: BOOLEAN, pending: BOOLEAN, run: Reqs \cup {Null}]
Guest == [token: Nat, status: {"none", "loading", "ready", "unavailable"}, run: Reqs \cup {Null}]

---------------------------------------------------------------------------
(***************************************************************************)
(* Types.                                                                  *)
(***************************************************************************)
LEMMA NoRowType == NoRow \in Row
BY DEF NoRow, Row

LEMMA NoReqType == NoReq \in Request
BY NoRowType DEF NoReq, Request, Ops, Stages

LEMMA PutType ==
    ASSUME req \in [Reqs -> Request], NEW r \in Reqs, NEW q \in Request, Put(r, q)
    PROVE  req' \in [Reqs -> Request]
BY DEF Put

LEMMA LostType ==
    ASSUME faults \in Nat, NEW n \in Nat, Lost(n)
    PROVE  faults' \in Nat
BY DEF Lost

LEMMA SavedType ==
    ASSUME TypeOK, NEW l \in Links, NEW op, NEW loaded
    PROVE  Saved(l, op, loaded) \in Row
<1>1. link[l] \in Row /\ next \in Nat
  BY DEF TypeOK
<1>2. (op \in {"issue", "on"}) \in BOOLEAN
  OBVIOUS
<1> QED  BY <1>1, <1>2 DEF Saved, Row

LEMMA StoreType ==
    ASSUME TypeOK, NEW l \in Links, NEW new \in Row, Store(l, new)
    PROVE  link' \in [Links -> Row] /\ next' \in Nat /\ dead' \subseteq Nat
<1>1. link[l] \in Row /\ link[l].token \in Nat
  BY DEF TypeOK, Row
<1>2. link' \in [Links -> Row]
  BY DEF Store, TypeOK
<1>3. next' \in Nat
  BY DEF Store, TypeOK
<1>4. dead' \subseteq Nat
  BY <1>1 DEF Store, TypeOK
<1> QED  BY <1>2, <1>3, <1>4

LEMMA SlotType == Slots # {} => Slot \in Reqs
BY LeastIn, NumbersAssumption DEF Slot, Slots

LEMMA FoundType == \A q : Found(q) \subseteq Links \cup {Null}
BY DEF Found, RowsOf

\* The causes that are noted are causes.
LEMMA NoteType ==
    ASSUME TypeOK, NEW causes, causes \subseteq Causes, Note(causes)
    PROVE  disturbed' \subseteq Causes
BY DEF TypeOK, Note

LEMMA ReadType == ASSUME TypeOK, NEW r \in Reqs, Read(r) PROVE TypeOK'
<1> DEFINE q == req[r]
<1>1. q \in Request
  BY DEF TypeOK
<1>2. PICK l \in Found(q) :
         Put(r, IF Writes(q, l)
                THEN [q EXCEPT !.stage = "read", !.found = l, !.loaded = l # Null /\ link[l].enabled]
                ELSE [q EXCEPT !.stage = "answered", !.ok = ~Refused(q, l),
                               !.got = IF l = Null \/ Refused(q, l) THEN NoRow ELSE link[l]])
  BY DEF Read
<1>3. l \in Links \cup {Null}
  BY FoundType
<1>4. (l # Null /\ link[l].enabled) \in BOOLEAN /\ (~Refused(q, l)) \in BOOLEAN
  OBVIOUS
<1>5. (IF l = Null \/ Refused(q, l) THEN NoRow ELSE link[l]) \in Row
  BY <1>3, NoRowType DEF TypeOK
<1>6. [q EXCEPT !.stage = "read", !.found = l, !.loaded = l # Null /\ link[l].enabled] \in Request
  BY <1>1, <1>3, <1>4 DEF Request, Stages
<1>7. [q EXCEPT !.stage = "answered", !.ok = ~Refused(q, l),
                !.got = IF l = Null \/ Refused(q, l) THEN NoRow ELSE link[l]] \in Request
  BY <1>1, <1>4, <1>5 DEF Request, Stages
<1>8. req' \in [Reqs -> Request]
  BY <1>2, <1>6, <1>7, PutType DEF TypeOK
<1>9. disturbed' \subseteq Causes
  BY DEF Read, TypeOK
<1> QED  BY <1>8, <1>9 DEF Read, TypeOK, server, pages

\* The row a request commits to.
LEMMA CommitRow ==
    ASSUME TypeOK, NEW r \in Reqs, NEW answered, Commit(r, answered)
    PROVE  (IF req[r].found = Null THEN FreeRow ELSE req[r].found) \in Links
<1>1. req[r].found \in Links \cup {Null}
  BY DEF TypeOK, Request
<1>2. CASE req[r].found = Null
  <2> DEFINE free == {k \in Links : link[k].doc = Null}
  <2>1. free # {} /\ free \subseteq Nat
    BY <1>2, NumbersAssumption DEF Commit
  <2>2. Least(free) \in free
    BY <2>1, LeastIn
  <2> QED  BY <1>2, <2>2 DEF FreeRow
<1> QED  BY <1>1, <1>2

LEMMA CommitType ==
    ASSUME TypeOK, NEW r \in Reqs, NEW answered \in BOOLEAN, Commit(r, answered) PROVE TypeOK'
<1> DEFINE q == req[r]
           op == IF q.op = "visit" THEN "retire" ELSE q.op
           l == IF q.found = Null THEN FreeRow ELSE q.found
           new == IF q.found = Null THEN [doc |-> q.doc, token |-> next, enabled |-> TRUE]
                  ELSE Saved(l, op, q.loaded)
<1>1. q \in Request /\ q.doc \in Docs \cup {Null} /\ q.found \in Links \cup {Null}
  BY DEF TypeOK, Request
<1>2. l \in Links
  BY CommitRow
<1>3. new \in Row
  <2>1. [doc |-> q.doc, token |-> next, enabled |-> TRUE] \in Row
    BY <1>1 DEF TypeOK, Row
  <2>2. Saved(l, op, q.loaded) \in Row
    BY <1>2, SavedType
  <2> QED  BY <2>1, <2>2
<1>4. link' \in [Links -> Row] /\ next' \in Nat /\ dead' \subseteq Nat
  BY <1>2, <1>3, StoreType DEF Commit
<1>5. faults' \in Nat
  BY LostType DEF Commit, TypeOK
<1>6. (answered /\ op # "retire") \in BOOLEAN
  OBVIOUS
<1>7. [q EXCEPT !.stage = "answered", !.ok = answered /\ op # "retire", !.got = new] \in Request
  BY <1>1, <1>3, <1>6 DEF Request, Stages
<1>8. req' \in [Reqs -> Request]
  BY <1>7, PutType DEF Commit, TypeOK
<1>9. disturbed' \subseteq Causes
  BY DEF Commit, Changed, Note, TypeOK, Causes
<1> QED  BY <1>4, <1>5, <1>8, <1>9 DEF Commit, TypeOK, pages

LEMMA FailType == ASSUME TypeOK, NEW r \in Reqs, Fail(r) PROVE TypeOK'
<1> DEFINE q == req[r]
<1>1. q \in Request
  BY DEF TypeOK
<1>2. [q EXCEPT !.stage = "answered", !.ok = FALSE] \in Request
  BY <1>1 DEF Request, Stages
<1>3. req' \in [Reqs -> Request]
  BY <1>2, PutType DEF Fail, TypeOK
<1>4. faults' \in Nat
  BY LostType DEF Fail, TypeOK
<1> QED  BY <1>3, <1>4 DEF Fail, TypeOK, server, pages

LEMMA SweepType == ASSUME TypeOK, Sweep PROVE TypeOK'
<1>1. CASE SweepLists
  BY <1>1 DEF SweepLists, Invalidatable, TypeOK, pages
<1>2. ASSUME NEW done \in BOOLEAN, SweepRetires(done) PROVE TypeOK'
  <2> DEFINE l == Least(sweep)
  <2>1. sweep # {} /\ sweep \subseteq Links
    BY <1>2 DEF SweepRetires, TypeOK
  <2>2. l \in Links
    BY <2>1, LeastIn, NumbersAssumption
  <2>3. Saved(l, "retire", TRUE) \in Row
    BY <2>2, SavedType
  <2>4. link' \in [Links -> Row] /\ next' \in Nat /\ dead' \subseteq Nat /\ disturbed' \subseteq Causes
    <3>1. CASE done
      <4>1. Store(l, Saved(l, "retire", TRUE)) /\ Note(Changed(link[l].doc, Null))
        BY <1>2, <3>1 DEF SweepRetires
      <4>2. Changed(link[l].doc, Null) \subseteq Causes
        BY DEF Changed, Causes
      <4> QED  BY <2>2, <2>3, <4>1, <4>2, StoreType, NoteType
    <3>2. CASE ~done
      BY <1>2, <3>2 DEF SweepRetires, TypeOK
    <3> QED  BY <3>1, <3>2
  <2>5. faults' \in Nat
    BY <1>2, LostType DEF SweepRetires, TypeOK
  <2> QED  BY <1>2, <2>1, <2>4, <2>5 DEF SweepRetires, TypeOK, pages
<1> QED  BY <1>1, <1>2 DEF Sweep

LEMMA EventsType == ASSUME TypeOK, Events PROVE TypeOK'
<1>1. CASE SetGate
  BY <1>1 DEF SetGate, TypeOK, pages
<1>2. ASSUME NEW d \in Docs, NEW new \in Statuses, SetStatus(d, new) PROVE TypeOK'
  BY <1>2 DEF SetStatus, TypeOK, pages
<1> QED  BY <1>1, <1>2 DEF Events

LEMMA StartType ==
    ASSUME TypeOK, NEW q \in Request, Start(q)
    PROVE  /\ Slot \in Reqs /\ req' \in [Reqs -> Request] /\ starts' \in Nat
           /\ UNCHANGED <<server, events, faults>>
<1>1. Slot \in Reqs
  BY SlotType DEF Start
<1>2. [q EXCEPT !.stage = "sent"] \in Request
  BY DEF Request, Stages
<1>3. req' \in [Reqs -> Request]
  BY <1>1, <1>2, PutType DEF Start, TypeOK
<1> QED  BY <1>1, <1>3 DEF Start, TypeOK

LEMMA TurnType == ASSUME TypeOK, NEW c \in Controls, NEW d \in Docs, Turn(c, d) PROVE TypeOK'
<1> DEFINE q == [NoReq EXCEPT !.op = "get", !.by = c, !.doc = d]
<1>1. q \in Request
  BY NoReqType DEF Request, Ops
<1>2. Slot \in Reqs /\ req' \in [Reqs -> Request] /\ starts' \in Nat /\ UNCHANGED <<server, events, faults>>
  BY <1>1, StartType DEF Turn
<1>3. control[c] \in Control
  BY DEF TypeOK, Control
<1>4. [control[c] EXCEPT !.doc = d, !.loading = TRUE, !.run = Slot] \in Control
  BY <1>2, <1>3 DEF Control
<1>5. control' \in [Controls -> Control]
  BY <1>4 DEF Turn, TypeOK, Control
<1>6. disturbed' \subseteq Causes
  BY DEF Turn, Note, TypeOK, Causes
<1> QED  BY <1>2, <1>5, <1>6 DEF TypeOK, Turn, Control, server

LEMMA ActType == ASSUME TypeOK, NEW c \in Controls, NEW op \in Ops, Act(c, op) PROVE TypeOK'
<1> DEFINE q == [NoReq EXCEPT !.op = op, !.by = c, !.doc = control[c].doc]
<1>1. control[c] \in Control
  BY DEF TypeOK, Control
<1>2. q \in Request
  BY <1>1, NoReqType DEF Request, Control
<1>3. Slot \in Reqs /\ req' \in [Reqs -> Request] /\ starts' \in Nat /\ UNCHANGED <<server, events, faults>>
  BY <1>2, StartType DEF Act
<1>4. [control[c] EXCEPT !.loading = FALSE, !.pending = TRUE, !.run = Null] \in Control
  BY <1>1 DEF Control
<1>5. control' \in [Controls -> Control]
  BY <1>4 DEF Act, TypeOK, Control
<1> QED  BY <1>3, <1>5 DEF TypeOK, Act, Control, server

LEMMA FollowType == ASSUME TypeOK, NEW t \in 1..(next - 1), Follow(t) PROVE TypeOK'
<1> DEFINE q == [NoReq EXCEPT !.op = "visit", !.token = t]
<1>1. t \in Nat
  BY DEF TypeOK
<1>2. q \in Request
  BY <1>1, NoReqType DEF Request, Ops
<1>3. Slot \in Reqs /\ req' \in [Reqs -> Request] /\ starts' \in Nat /\ UNCHANGED <<server, events, faults>>
  BY <1>2, StartType DEF Follow
<1>4. guest' \in Guest
  BY <1>1, <1>3 DEF Follow, Guest
<1> QED  BY <1>3, <1>4 DEF TypeOK, Follow, Guest, server

LEMMA UserType == ASSUME TypeOK, User PROVE TypeOK'
<1>1. ASSUME NEW c \in Controls, NEW d \in Docs, Turn(c, d) PROVE TypeOK'
  BY <1>1, TurnType
<1>2. ASSUME NEW c \in Controls, ControlClick(c) PROVE TypeOK'
  BY <1>2, ActType DEF ControlClick, Ops
<1>3. ASSUME NEW c \in Controls, NEW op \in {"issue", "on", "off"}, PanelClick(c, op) PROVE TypeOK'
  BY <1>3, ActType DEF PanelClick, Ops
<1>4. ASSUME NEW t \in 1..(next - 1), Follow(t) PROVE TypeOK'
  BY <1>4, FollowType
<1> QED  BY <1>1, <1>2, <1>3, <1>4 DEF User

LEMMA DeliverType == ASSUME TypeOK, NEW r \in Reqs, Deliver(r) PROVE TypeOK'
<1> DEFINE q == req[r]
<1>1. q \in Request
  BY DEF TypeOK
<1>2. Put(r, NoReq) => req' \in [Reqs -> Request]
  BY NoReqType, PutType DEF TypeOK
<1>3. CASE Answered(r)
  <2> DEFINE c == q.by
             k == control[c]
  <2>1. c \in Controls
    BY <1>1, <1>3 DEF Answered, Request
  <2>2. k \in Control
    BY <2>1 DEF TypeOK, Control
  <2>3. PICK l, loading, run, pending :
          /\ l \in Row /\ loading \in BOOLEAN /\ run \in Reqs \cup {Null} /\ pending \in BOOLEAN
          /\ control' = [control EXCEPT ![c] = [k EXCEPT !.link = l, !.loading = loading, !.run = run,
                                                        !.pending = pending]]
    <3> DEFINE counts == Counts(r)
    <3>1. (IF counts /\ q.ok THEN q.got ELSE k.link) \in Row
      BY <1>1, <2>2 DEF Request, Control
    <3>2. (IF q.op = "get" /\ counts THEN FALSE ELSE k.loading) \in BOOLEAN
      BY <2>2 DEF Control
    <3>3. (IF q.op = "get" /\ counts THEN Null ELSE k.run) \in Reqs \cup {Null}
      BY <2>2 DEF Control
    <3>4. (IF q.op = "get" THEN k.pending ELSE FALSE) \in BOOLEAN
      BY <2>2 DEF Control
    <3>5. control' = [control EXCEPT ![c] =
             [k EXCEPT !.link = IF counts /\ q.ok THEN q.got ELSE k.link,
                       !.loading = IF q.op = "get" /\ counts THEN FALSE ELSE k.loading,
                       !.run = IF q.op = "get" /\ counts THEN Null ELSE k.run,
                       !.pending = IF q.op = "get" THEN k.pending ELSE FALSE]]
      BY <1>3 DEF Answered
    <3> QED  BY <3>1, <3>2, <3>3, <3>4, <3>5
  <2>4. [k EXCEPT !.link = l, !.loading = loading, !.run = run, !.pending = pending] \in Control
    BY <2>2, <2>3 DEF Control
  <2>5. control' \in [Controls -> Control]
    BY <2>3, <2>4 DEF TypeOK, Control
  <2>6. disturbed' \subseteq Causes
    BY <1>3 DEF Answered, Note, TypeOK, Causes
  <2> QED  BY <1>2, <1>3, <2>5, <2>6 DEF Answered, TypeOK, Control, server
<1>4. CASE Visited(r)
  <2>1. guest \in Guest
    BY DEF TypeOK, Guest
  <2>2. guest' \in Guest
    BY <1>4, <2>1 DEF Visited, Guest
  <2> QED  BY <1>2, <1>4, <2>2 DEF Visited, TypeOK, Guest, server
<1> QED  BY <1>3, <1>4 DEF Deliver

LEMMA InitType == Init => TypeOK
<1> SUFFICES ASSUME Init PROVE TypeOK
  OBVIOUS
<1>1. (CHOOSE d \in Docs : TRUE) \in Docs
  BY DocsAssumption
<1>2. control \in [Controls -> Control]
  BY <1>1, NoRowType DEF Init, Control
<1>3. req \in [Reqs -> Request] /\ link \in [Links -> Row]
  BY NoRowType, NoReqType DEF Init
<1>4. guest \in Guest
  BY DEF Init, Guest
<1> QED  BY <1>2, <1>3, <1>4 DEF Init, TypeOK, Control, Guest, Statuses

LEMMA StepType == TypeOK /\ [Next]_vars => TypeOK'
<1> SUFFICES ASSUME TypeOK, [Next]_vars PROVE TypeOK'
  OBVIOUS
<1>1. ASSUME NEW r \in Reqs, Handle(r) PROVE TypeOK'
  BY <1>1, ReadType, FailType, CommitType DEF Handle
<1>2. ASSUME NEW r \in Reqs, Deliver(r) PROVE TypeOK'
  BY <1>2, DeliverType
<1>3. CASE UNCHANGED vars
  BY <1>3 DEF vars, server, pages, TypeOK
<1> QED  BY <1>1, <1>2, <1>3, SweepType, UserType, EventsType DEF Next

\* Whatever overlaps, every row, request and page keeps its form: in particular an
\* update that writes only what it changed never leaves half a row.
THEOREM TypeCorrect == Spec => []TypeOK
BY InitType, StepType, PTL DEF Spec

---------------------------------------------------------------------------
(***************************************************************************)
(* Replaced tokens.                                                        *)
(***************************************************************************)
Used == {l \in Links : link[l].doc # Null}

\* Tokens in use differ, none is dead, and all tokens were allotted.
TokensDistinct == \A l, k \in Used : link[l].token = link[k].token => l = k
TokensAllotted == \A l \in Used : link[l].token < next
DeadAllotted == \A t \in dead : t < next
Tokens == DeadStaysDead /\ TokensDistinct /\ TokensAllotted /\ DeadAllotted

\* An update keeps the token of its row or gives it a new one.
LEMMA SavedAgain ==
    ASSUME TypeOK, NEW l \in Links, NEW op, NEW loaded
    PROVE  Saved(l, op, loaded).token \in {next, link[l].token} /\ Saved(l, op, loaded).doc = link[l].doc
<1>1. link[l] \in Row
  BY DEF TypeOK
<1> QED  BY <1>1 DEF Saved, Row

\* To give a row a new token, or leave it its own, keeps replaced tokens dead.
LEMMA StoreTokens ==
    ASSUME TypeOK, Tokens, NEW l \in Links, NEW new \in Row, Store(l, new),
           new.token = next \/ (new.token = link[l].token /\ new.doc = link[l].doc)
    PROVE  Tokens'
<1>1. next \in Nat /\ dead \subseteq Nat /\ \A k \in Links : link[k].token \in Nat
  BY DEF TypeOK, Row
<1>2. link'[l] = new /\ \A k \in Links \ {l} : link'[k] = link[k]
  BY DEF Store, TypeOK
<1>3. CASE new.token = next
  <2>1. next' = next + 1
    BY <1>3 DEF Store
  <2>2. \A t \in dead' : t \in dead \/ (l \in Used /\ t = link[l].token)
    BY DEF Store, Used
  <2>3. \A t \in dead' : t < next
    BY <2>2 DEF Tokens, TokensAllotted, DeadAllotted
  <2>4. \A k \in Used' : k = l \/ (k \in Used /\ link'[k] = link[k])
    BY <1>2 DEF Used
  <2>5. \A k \in Used \ {l} : link[k].token < next /\ link[k].token \notin dead'
    BY <2>2 DEF Tokens, TokensAllotted, TokensDistinct, DeadStaysDead, Used
  <2>6. TokensDistinct'
    BY <1>1, <1>2, <1>3, <2>4, <2>5 DEF TokensDistinct, Tokens, Used
  <2>7. TokensAllotted'
    BY <1>1, <1>2, <1>3, <2>1, <2>4, <2>5 DEF TokensAllotted, Used
  <2>8. next \notin dead'
    BY <1>1, <2>3
  <2>9. DeadStaysDead'
    BY <1>2, <1>3, <2>4, <2>5, <2>8 DEF DeadStaysDead, Used
  <2>10. DeadAllotted'
    <3>1. \A t \in dead' : t \in Nat
      BY <1>1, <2>2
    <3> QED  BY <1>1, <2>1, <2>3, <3>1 DEF DeadAllotted
  <2> QED  BY <2>6, <2>7, <2>9, <2>10 DEF Tokens
<1>4. CASE new.token # next
  <2>1. new.token = link[l].token /\ new.doc = link[l].doc
    BY <1>4
  <2>2. next' = next /\ dead' = dead
    BY <1>4, <2>1 DEF Store
  <2>3. \A k \in Links : link'[k].token = link[k].token /\ link'[k].doc = link[k].doc
    BY <1>2, <2>1
  <2> QED  BY <2>2, <2>3 DEF Tokens, DeadStaysDead, TokensDistinct, TokensAllotted, DeadAllotted, Used
<1> QED  BY <1>3, <1>4

LEMMA CommitTokens ==
    ASSUME TypeOK, Tokens, NEW r \in Reqs, NEW answered \in BOOLEAN, Commit(r, answered) PROVE Tokens'
<1> DEFINE q == req[r]
           op == IF q.op = "visit" THEN "retire" ELSE q.op
           l == IF q.found = Null THEN FreeRow ELSE q.found
           new == IF q.found = Null THEN [doc |-> q.doc, token |-> next, enabled |-> TRUE]
                  ELSE Saved(l, op, q.loaded)
<1>1. q.doc \in Docs \cup {Null} /\ q.found \in Links \cup {Null}
  BY DEF TypeOK, Request
<1>2. l \in Links
  BY <1>1, CommitRow
<1>3. new \in Row
  BY <1>1, <1>2, SavedType DEF TypeOK, Row
<1>4. new.token = next \/ (new.token = link[l].token /\ new.doc = link[l].doc)
  BY <1>2, SavedAgain
<1>5. Store(l, new)
  BY DEF Commit
<1> QED  BY <1>2, <1>3, <1>4, <1>5, StoreTokens

\* Steps that leave the rows alone.
LEMMA OtherTokens == ASSUME Tokens, UNCHANGED <<link, next, dead>> PROVE Tokens'
BY DEF Tokens, DeadStaysDead, TokensDistinct, TokensAllotted, DeadAllotted, Used

LEMMA SweepTokens == ASSUME TypeOK, Tokens, Sweep PROVE Tokens'
<1>1. CASE SweepLists
  BY <1>1, OtherTokens DEF SweepLists
<1>2. ASSUME NEW done \in BOOLEAN, SweepRetires(done) PROVE Tokens'
  <2> DEFINE l == Least(sweep)
  <2>1. l \in Links
    BY <1>2, LeastIn, NumbersAssumption DEF SweepRetires, TypeOK
  <2>2. CASE done
    <3>1. Store(l, Saved(l, "retire", TRUE))
      BY <1>2, <2>2 DEF SweepRetires
    <3> QED  BY <2>1, <3>1, SavedType, SavedAgain, StoreTokens
  <2>3. CASE ~done
    BY <1>2, <2>3, OtherTokens DEF SweepRetires
  <2> QED  BY <2>2, <2>3
<1> QED  BY <1>1, <1>2 DEF Sweep

LEMMA StepTokens == TypeOK /\ Tokens /\ [Next]_vars => Tokens'
<1> SUFFICES ASSUME TypeOK, Tokens, [Next]_vars PROVE Tokens'
  OBVIOUS
<1>1. ASSUME NEW r \in Reqs, Handle(r) PROVE Tokens'
  BY <1>1, CommitTokens, OtherTokens DEF Handle, Read, Fail, server
<1>2. ASSUME NEW r \in Reqs, Deliver(r) PROVE Tokens'
  BY <1>2, OtherTokens DEF Deliver, Answered, Visited, server
<1>3. CASE User
  BY <1>3, OtherTokens DEF User, Turn, ControlClick, PanelClick, Act, Follow, Start, server
<1>4. CASE Events
  BY <1>4, OtherTokens DEF Events, SetGate, SetStatus
<1>5. CASE UNCHANGED vars
  BY <1>5, OtherTokens DEF vars, server
<1> QED  BY <1>1, <1>2, <1>3, <1>4, <1>5, SweepTokens DEF Next

\* However issues, toggles, visits and sweeps overlap, no link has a token again that
\* an earlier reissue or retirement replaced.
THEOREM ReplacedStaysDead == Spec => []DeadStaysDead
<1>1. Init => Tokens
  BY DEF Init, NoRow, Tokens, DeadStaysDead, TokensDistinct, TokensAllotted, DeadAllotted, Used
<1>2. Tokens => DeadStaysDead
  BY DEF Tokens
<1> QED  BY <1>1, <1>2, StepTokens, TypeCorrect, PTL DEF Spec

---------------------------------------------------------------------------
(***************************************************************************)
(* A reissue.                                                              *)
(***************************************************************************)
\* A reissue leaves the link enabled whatever is_enabled had been read, unless another
\* request changed it in between.
THEOREM ReissueLeavesEnabled == Spec => ReissueEnables
<1>1. ASSUME TypeOK, Next, NEW r \in Reqs,
             req[r].op = "issue", req[r].stage = "read", req'[r].stage = "answered", link' # link
      PROVE  req'[r].got.enabled \/ "crossed" \in disturbed'
  <2>1. PICK s \in Reqs, answered \in BOOLEAN : Commit(s, answered) \/ SweepRetires(answered)
    BY <1>1
    DEF Next, Handle, Deliver, Read, Fail, Answered, Visited, Sweep, SweepLists, User, Turn, ControlClick,
        PanelClick, Act, Follow, Start, Events, SetGate, SetStatus, server
  <2>2. ~SweepRetires(answered)  BY <1>1 DEF SweepRetires
  <2>3. s = r /\ Commit(r, answered)
    BY <1>1, <2>1, <2>2 DEF Commit, Put, TypeOK
  <2> DEFINE q == req[r]
  <2>4. CASE q.found = Null
    <3>1. req'[r].got.enabled = TRUE
      <4>1. req' = [req EXCEPT ![r] = [q EXCEPT !.stage = "answered", !.ok = answered,
                                !.got = [doc |-> q.doc, token |-> next, enabled |-> TRUE]]]
        BY <1>1, <2>3, <2>4 DEF Commit, Put
      <4>2. q \in Request /\ req \in [Reqs -> Request]  BY <1>1 DEF TypeOK
      <4>3. req'[r] = [q EXCEPT !.stage = "answered", !.ok = answered,
                                !.got = [doc |-> q.doc, token |-> next, enabled |-> TRUE]]
        BY <4>1, <4>2
      <4> QED  BY <4>2, <4>3 DEF Request
    <3> QED  BY <3>1
  <2>5. CASE q.found # Null
    <3>1. q.found \in Links /\ q.loaded \in BOOLEAN /\ link[q.found] \in Row
      BY <1>1, <2>5 DEF TypeOK, Request
    <3>2. req'[r].got = Saved(q.found, "issue", q.loaded)
      BY <1>1, <2>3, <2>5 DEF Commit, Put, TypeOK
    <3>3. link[q.found].enabled # q.loaded => "crossed" \in disturbed'
      BY <2>3, <2>5 DEF Commit, Note
    <3>4. CASE q.loaded = TRUE
      <4>1. Saved(q.found, "issue", TRUE).enabled = link[q.found].enabled
        BY <3>1 DEF Saved, Row
      <4> QED  BY <3>2, <3>3, <3>4, <4>1
    <3>5. CASE q.loaded = FALSE
      <4>1. Saved(q.found, "issue", FALSE).enabled = TRUE
        BY <3>1 DEF Saved, Row
      <4> QED  BY <3>2, <3>5, <4>1
    <3> QED  BY <3>1, <3>4, <3>5
  <2> QED  BY <2>4, <2>5
<1>2. TypeOK /\ [Next]_vars =>
        [\A r \in Reqs :
            req[r].op = "issue" /\ req[r].stage = "read" /\ req'[r].stage = "answered" /\ link' # link =>
                req'[r].got.enabled \/ "crossed" \in disturbed']_vars
  BY <1>1
<1> QED  BY <1>2, TypeCorrect, PTL DEF Spec, ReissueEnables


---------------------------------------------------------------------------
(***************************************************************************)
(* What a control shows.                                                   *)
(***************************************************************************)
\* The link of document d among the rows of a table.
LinkIn(rows, d) ==
    LET found == {l \in Links : rows[l].doc = d} IN IF found = {} THEN NoRow ELSE rows[CHOOSE l \in found : TRUE]

\* The requests of a control that write.
Writing(c) == {r \in Reqs : req[r].by = c /\ req[r].op # "get"}

\* Requests are of a control or of a guest; what a read of the row led to.
Formed(q) ==
    /\ q.by = Null <=> q.op \in {"none", "visit"}
    /\ q.op = "none" => q.stage = "none"
    /\ q.by # Null => q.doc # Null
    /\ q.stage = "read" => q.op # "get" /\ (q.found = Null => q.by # Null)

\* The read a control waits for is one of its document.
RunIsGet(c) ==
    control[c].run # Null =>
        LET q == req[control[c].run] IN q.op = "get" /\ q.by = c /\ q.doc = control[c].doc

\* A document has one row; a request that has read it will find it as it was.
OneRow == \A l, k \in Links : link[l].doc # Null /\ link[l].doc = link[k].doc => l = k
ReadRow(q) ==
    q.stage = "read" /\ q.by # Null =>
        IF q.found = Null THEN \A l \in Links : link[l].doc # q.doc ELSE link[q.found].doc = q.doc

\* A control writes once at a time, to its document, and waits for no read meanwhile.
OneWrite(c) ==
    \A r \in Writing(c) :
        /\ control[c].pending /\ control[c].run = Null /\ req[r].doc = control[c].doc
        /\ \A s \in Writing(c) : r = s

\* An answer that will count tells the link as it is; so does a control that waits for none.
FreshAnswers(c) ==
    \A r \in Reqs :
        /\ req[r].by = c /\ req[r].stage = "answered" /\ req[r].ok
        /\ r = control[c].run \/ req[r].op # "get"
        => req[r].got = LinkIn(link, control[c].doc)
Shown(c) ==
    control[c].run = Null /\ Writing(c) = {} => control[c].link = LinkIn(link, control[c].doc)

Told(c) == OneWrite(c) /\ FreshAnswers(c) /\ Shown(c)
AllFormed == (\A r \in Reqs : Formed(req[r])) /\ (\A c \in Controls : RunIsGet(c))
AllTold == OneRow /\ (\A r \in Reqs : ReadRow(req[r])) /\ (\A c \in Controls : Told(c))
Undisturbed == Spared({"moved", "failed", "changed"})
Controlled == AllFormed /\ (Undisturbed => AllTold)

---------------------------------------------------------------------------
LEMMA LinkFound ==
    ASSUME NEW rows, NEW l \in Links, \A k \in Links : rows[k].doc = rows[l].doc => k = l
    PROVE  LinkIn(rows, rows[l].doc) = rows[l]
<1>1. {k \in Links : rows[k].doc = rows[l].doc} = {l}
  OBVIOUS
<1>2. (CHOOSE k \in {l} : TRUE) = l
  OBVIOUS
<1> QED  BY <1>1, <1>2 DEF LinkIn

LEMMA LinkKept ==
    ASSUME NEW rows, NEW after, NEW d,
           \A l \in Links : rows[l].doc = d \/ after[l].doc = d => after[l] = rows[l]
    PROVE  LinkIn(after, d) = LinkIn(rows, d)
<1> DEFINE found == {l \in Links : rows[l].doc = d}
<1>1. {l \in Links : after[l].doc = d} = found
  OBVIOUS
<1>2. found # {} => after[CHOOSE l \in found : TRUE] = rows[CHOOSE l \in found : TRUE]
  <2> SUFFICES ASSUME found # {} PROVE after[CHOOSE l \in found : TRUE] = rows[CHOOSE l \in found : TRUE]
    OBVIOUS
  <2>1. (CHOOSE l \in found : TRUE) \in found
    OBVIOUS
  <2> QED  BY <2>1
<1> QED  BY <1>1, <1>2 DEF LinkIn

LEMMA PutIs ==
    ASSUME TypeOK, NEW r \in Reqs, NEW q, Put(r, q)
    PROVE  req'[r] = q /\ \A x \in Reqs \ {r} : req'[x] = req[x]
BY DEF Put, TypeOK

\* A slot that is taken was nobody's.
LEMMA SlotFree ==
    ASSUME TypeOK, AllFormed, NEW q, Start(q)
    PROVE  /\ Slot \in Reqs /\ Slot # Null /\ req[Slot].by = Null /\ req'[Slot] = [q EXCEPT !.stage = "sent"]
           /\ \A x \in Reqs \ {Slot} : req'[x] = req[x]
           /\ \A c \in Controls : control[c].run # Slot
<1>1. Slots # {} /\ Put(Slot, [q EXCEPT !.stage = "sent"])  BY DEF Start
<1>2. Slots \subseteq Nat  BY NumbersAssumption DEF Slots
<1>3. Slot \in Slots  BY <1>1, <1>2, LeastIn DEF Slot
<1>4. Slot \in Reqs /\ Slot # Null /\ req[Slot].op = "none"  BY <1>3, NullAssumption DEF Slots
<1>5. req[Slot].by = Null  BY <1>4 DEF AllFormed, Formed
<1>6. \A c \in Controls : control[c].run # Slot  BY <1>4 DEF AllFormed, RunIsGet
<1> HIDE DEF Slot
<1> QED  BY <1>1, <1>4, <1>5, <1>6, PutIs

\* A step that has nothing to do with a control.
LEMMA OtherTold ==
    ASSUME TypeOK, AllFormed, NEW c \in Controls, Told(c), control'[c] = control[c],
           LinkIn(link', control[c].doc) = LinkIn(link, control[c].doc),
           \A x \in Reqs : req[x].by = c \/ req'[x].by = c => req'[x] = req[x]
    PROVE  Told(c)'
<1>1. Writing(c)' = Writing(c)  BY DEF Writing
<1>2. OneWrite(c)'  BY <1>1 DEF Told, OneWrite, Writing
<1>3. FreshAnswers(c)'  BY DEF Told, FreshAnswers
<1>4. Shown(c)'  BY <1>1 DEF Told, Shown
<1> QED  BY <1>2, <1>3, <1>4 DEF Told

LEMMA OtherFormed ==
    ASSUME TypeOK, AllFormed, NEW c \in Controls, control'[c].run = control[c].run,
           control'[c].doc = control[c].doc,
           control[c].run # Null => LET q == req'[control[c].run] IN
               q.op = req[control[c].run].op /\ q.by = req[control[c].run].by /\ q.doc = req[control[c].run].doc
    PROVE  RunIsGet(c)'
BY DEF AllFormed, RunIsGet

\* A step that touches neither rows nor controls, and of requests those of guests at most.
LEMMA AsideControlled ==
    ASSUME TypeOK, Controlled, link' = link, control' = control, disturbed' = disturbed, NEW r \in Reqs,
           req[r].by = Null, req'[r].by = Null, Formed(req'[r]), \A x \in Reqs \ {r} : req'[x] = req[x]
    PROVE  Controlled'
<1>1. \A x \in Reqs : Formed(req'[x])  BY DEF Controlled, AllFormed
<1>2. ASSUME NEW c \in Controls PROVE RunIsGet(c)'
  <2>1. c # Null /\ r # Null  BY NullAssumption
  <2>2. control[c].run # r  BY <2>1 DEF Controlled, AllFormed, RunIsGet
  <2>3. control[c].run \in Reqs \cup {Null}  BY DEF TypeOK
  <2> QED  BY <2>2, <2>3, OtherFormed DEF Controlled
<1>3. AllFormed'  BY <1>1, <1>2 DEF AllFormed, Formed
<1>4. ASSUME Undisturbed' PROVE AllTold'
  <2>1. AllTold  BY <1>4 DEF Controlled, Undisturbed, Spared
  <2>2. OneRow'  BY <2>1 DEF AllTold, OneRow
  <2>3. \A x \in Reqs : ReadRow(req[x])'  BY <2>1 DEF AllTold, ReadRow
  <2>4. ASSUME NEW c \in Controls PROVE Told(c)'
    BY <2>1, NullAssumption, OtherTold DEF AllTold, Controlled
  <2> QED  BY <2>2, <2>3, <2>4 DEF AllTold
<1> QED  BY <1>3, <1>4 DEF Controlled


\* A request goes on, and rows and controls stay.
LEMMA StageControlled ==
    ASSUME TypeOK, Controlled, link' = link, control' = control, disturbed' = disturbed, NEW r \in Reqs,
           \A x \in Reqs \ {r} : req'[x] = req[x],
           req'[r].op = req[r].op, req'[r].by = req[r].by, req'[r].doc = req[r].doc, Formed(req'[r]),
           AllTold => ReadRow(req[r])',
           \A c \in Controls :
               AllTold /\ req[r].by = c /\ req'[r].stage = "answered" /\ req'[r].ok
                   /\ (r = control[c].run \/ req[r].op # "get")
               => req'[r].got = LinkIn(link, control[c].doc)
    PROVE  Controlled'
<1>1. \A x \in Reqs : Formed(req'[x])  BY DEF Controlled, AllFormed
<1>2. ASSUME NEW c \in Controls PROVE RunIsGet(c)'
  <2>1. control[c].run \in Reqs \cup {Null}  BY DEF TypeOK
  <2>2. \A x \in Reqs : req'[x].op = req[x].op /\ req'[x].by = req[x].by /\ req'[x].doc = req[x].doc
    OBVIOUS
  <2> QED  BY <2>1, <2>2, OtherFormed DEF Controlled
<1>3. AllFormed'  BY <1>1, <1>2 DEF AllFormed, Formed
<1>4. ASSUME Undisturbed' PROVE AllTold'
  <2>1. AllTold  BY <1>4 DEF Controlled, Undisturbed, Spared
  <2>2. OneRow'  BY <2>1 DEF AllTold, OneRow
  <2>3. \A x \in Reqs : ReadRow(req[x])'
    <3>1. \A x \in Reqs \ {r} : ReadRow(req[x])'  BY <2>1 DEF AllTold, ReadRow
    <3> QED  BY <2>1, <3>1
  <2>4. ASSUME NEW c \in Controls PROVE Told(c)'
    <3>1. Told(c)  BY <2>1 DEF AllTold
    <3>2. Writing(c)' = Writing(c)  BY DEF Writing
    <3>3. OneWrite(c)'  BY <3>1, <3>2 DEF Told, OneWrite, Writing
    <3>4. Shown(c)'  BY <3>1, <3>2 DEF Told, Shown
    <3>5. FreshAnswers(c)'
      <4>1. ASSUME NEW x \in Reqs, req'[x].by = c, req'[x].stage = "answered", req'[x].ok,
                   x = control[c].run \/ req'[x].op # "get"
            PROVE  req'[x].got = LinkIn(link, control[c].doc)
        <5>1. CASE x = r
          BY <2>1, <4>1, <5>1
        <5>2. CASE x # r
          BY <3>1, <4>1, <5>2 DEF Told, FreshAnswers
        <5> QED  BY <5>1, <5>2
      <4> QED  BY <4>1 DEF FreshAnswers
    <3> QED  BY <3>3, <3>4, <3>5 DEF Told
  <2> QED  BY <2>2, <2>3, <2>4 DEF AllTold
<1> QED  BY <1>3, <1>4 DEF Controlled

LEMMA ReadControlled == ASSUME TypeOK, Controlled, NEW r \in Reqs, Read(r) PROVE Controlled'
<1> DEFINE q == req[r]
<1>0. q \in Request /\ Formed(q) /\ q.stage = "sent" /\ r # Null
  BY NullAssumption DEF TypeOK, Controlled, AllFormed, Read
<1>1. link' = link /\ control' = control /\ disturbed' = disturbed
  BY DEF Read, server, pages
<1>2. PICK l \in Found(q) :
         Put(r, IF Writes(q, l)
                THEN [q EXCEPT !.stage = "read", !.found = l, !.loaded = l # Null /\ link[l].enabled]
                ELSE [q EXCEPT !.stage = "answered", !.ok = ~Refused(q, l),
                               !.got = IF l = Null \/ Refused(q, l) THEN NoRow ELSE link[l]])
  BY DEF Read
<1>3. \A x \in Reqs \ {r} : req'[x] = req[x]  BY <1>2, PutIs
<1>4. q.by # Null => \/ l = Null /\ \A k \in Links : link[k].doc # q.doc
                     \/ l \in Links /\ link[l].doc = q.doc
  BY <1>0 DEF Formed, Found, RowsOf
<1>5. q.by # Null => q.op \in {"get", "issue", "on", "off"}
  BY <1>0 DEF Formed, Request, Ops
<1>6. CASE Writes(q, l)
  <2>1. req'[r] = [q EXCEPT !.stage = "read", !.found = l, !.loaded = l # Null /\ link[l].enabled]
    BY <1>2, <1>6, PutIs
  <2>2. /\ req'[r].op = q.op /\ req'[r].by = q.by /\ req'[r].doc = q.doc
        /\ req'[r].stage = "read" /\ req'[r].found = l
    BY <1>0, <2>1 DEF Request
  <2>3. q.op # "get" /\ (q.by = Null => l # Null)
    BY <1>0, <1>6 DEF Writes, Formed
  <2>4. Formed(req'[r])  BY <1>0, <2>2, <2>3 DEF Formed
  <2>5. ReadRow(req[r])'  BY <1>1, <1>4, <2>2, NullAssumption DEF ReadRow
  <2> QED  BY <1>1, <1>3, <2>2, <2>4, <2>5, StageControlled
<1>7. CASE ~Writes(q, l)
  <2> DEFINE got == IF l = Null \/ Refused(q, l) THEN NoRow ELSE link[l]
  <2>1. req'[r] = [q EXCEPT !.stage = "answered", !.ok = ~Refused(q, l), !.got = got]
    BY <1>2, <1>7, PutIs
  <2>2. /\ req'[r].op = q.op /\ req'[r].by = q.by /\ req'[r].doc = q.doc
        /\ req'[r].stage = "answered" /\ req'[r].ok = ~Refused(q, l) /\ req'[r].got = got
    <3> HIDE DEF got
    <3> QED  BY <1>0, <2>1 DEF Request
  <2>3. Formed(req'[r])  BY <1>0, <2>2 DEF Formed
  <2>4. ReadRow(req[r])'  BY <2>2 DEF ReadRow
  <2>5. ASSUME NEW c \in Controls, AllTold, q.by = c, req'[r].ok, r = control[c].run \/ q.op # "get"
        PROVE  got = LinkIn(link, control[c].doc)
    <3>0. c # Null  BY NullAssumption
    <3>1. ~Refused(q, l)  BY <2>2, <2>5
    <3>2. q.op = "get"  BY <1>5, <1>7, <2>5, <3>0, <3>1 DEF Writes
    <3>3. q.doc = control[c].doc /\ q.doc # Null
      BY <1>0, <2>5, <3>0, <3>2 DEF Controlled, AllFormed, RunIsGet, Formed
    <3>4. CASE l = Null /\ \A k \in Links : link[k].doc # q.doc
      BY <3>3, <3>4 DEF LinkIn
    <3>5. CASE l \in Links /\ link[l].doc = q.doc
      <4>1. \A k \in Links : link[k].doc = link[l].doc => k = l
        BY <2>5, <3>3, <3>5 DEF AllTold, OneRow
      <4>2. LinkIn(link, q.doc) = link[l]  BY <3>5, <4>1, LinkFound
      <4>3. l # Null  BY <3>5, NullAssumption
      <4> QED  BY <3>1, <3>3, <4>2, <4>3
    <3> QED  BY <1>4, <2>5, <3>0, <3>4, <3>5
  <2> HIDE DEF got
  <2> QED  BY <1>1, <1>3, <2>2, <2>3, <2>4, <2>5, StageControlled
<1> QED  BY <1>6, <1>7

LEMMA FailControlled == ASSUME TypeOK, Controlled, NEW r \in Reqs, Fail(r) PROVE Controlled'
<1>1. req'[r] = [req[r] EXCEPT !.stage = "answered", !.ok = FALSE] /\ \A x \in Reqs \ {r} : req'[x] = req[x]
  BY PutIs DEF Fail
<1>2. req[r] \in Request /\ Formed(req[r]) /\ req[r].op # "none"
  BY DEF TypeOK, Controlled, AllFormed, Formed, Fail
<1>3. /\ req'[r].op = req[r].op /\ req'[r].by = req[r].by /\ req'[r].doc = req[r].doc
      /\ req'[r].stage = "answered" /\ req'[r].ok = FALSE
  BY <1>1, <1>2 DEF Request
<1>4. Formed(req'[r])  BY <1>2, <1>3 DEF Formed
<1>5. ReadRow(req[r])'  BY <1>3 DEF ReadRow
<1>6. link' = link /\ control' = control /\ disturbed' = disturbed
  BY DEF Fail, server, pages
<1> QED  BY <1>1, <1>3, <1>4, <1>5, <1>6, StageControlled

\* Rows and requests stay as they are; so do the controls.
LEMMA StillControlled ==
    ASSUME TypeOK, Controlled, link' = link, control' = control, disturbed' = disturbed, req' = req
    PROVE  Controlled'
<1>1. AllFormed'  BY DEF Controlled, AllFormed, RunIsGet, Formed
<1>2. ASSUME Undisturbed' PROVE AllTold'
  <2>1. AllTold  BY <1>2 DEF Controlled, Undisturbed, Spared
  <2>2. OneRow'  BY <2>1 DEF AllTold, OneRow
  <2>3. \A x \in Reqs : ReadRow(req[x])'  BY <2>1 DEF AllTold, ReadRow
  <2>4. ASSUME NEW c \in Controls PROVE Told(c)'
    BY <2>1, OtherTold DEF AllTold, Controlled
  <2> QED  BY <2>2, <2>3, <2>4 DEF AllTold
<1> QED  BY <1>1, <1>2 DEF Controlled


\* A row that is written concerns its document only.
LEMMA StoreElsewhere ==
    ASSUME TypeOK, NEW l \in Links, NEW new \in Row, Store(l, new),
           new.doc = link[l].doc \/ link[l].doc = Null,
           NEW c \in Controls, control[c].doc # new.doc
    PROVE  LinkIn(link', control[c].doc) = LinkIn(link, control[c].doc)
<1>1. control[c].doc \in Docs /\ control[c].doc # Null
  BY NullAssumption DEF TypeOK
<1>2. link'[l] = new /\ \A k \in Links \ {l} : link'[k] = link[k]
  BY DEF Store, TypeOK
<1>3. \A k \in Links : link[k].doc = control[c].doc \/ link'[k].doc = control[c].doc => link'[k] = link[k]
  BY <1>1, <1>2
<1> QED  BY <1>3, LinkKept

LEMMA SweepControlled == ASSUME TypeOK, Controlled, Sweep PROVE Controlled'
<1>1. CASE SweepLists
  BY <1>1, StillControlled DEF SweepLists, pages
<1>2. ASSUME NEW done \in BOOLEAN, SweepRetires(done) PROVE Controlled'
  <2>1. CASE ~done
    BY <1>2, <2>1, StillControlled DEF SweepRetires, pages
  <2>2. CASE done
    <3> DEFINE l == Least(sweep)
               new == Saved(l, "retire", TRUE)
    <3>1. l \in Links  BY <1>2, LeastIn, NumbersAssumption DEF SweepRetires, TypeOK
    <3>2. /\ Store(l, new) /\ req' = req /\ control' = control
          /\ disturbed' = disturbed \cup Changed(link[l].doc, Null)
      BY <1>2, <2>2 DEF SweepRetires, Note, pages
    <3>3. new \in Row /\ new.doc = link[l].doc  BY <3>1, SavedType, SavedAgain
    <3> HIDE DEF l, new
    <3>4. link'[l] = new /\ \A k \in Links \ {l} : link'[k] = link[k]
      BY <3>1, <3>2 DEF Store, TypeOK
    <3>5. \A k \in Links : link'[k].doc = link[k].doc  BY <3>3, <3>4
    <3>6. AllFormed'  BY <3>2 DEF Controlled, AllFormed, RunIsGet, Formed
    <3>7. ASSUME Undisturbed' PROVE AllTold'
      <4>1. AllTold  BY <3>2, <3>7 DEF Controlled, Undisturbed, Spared
      <4>2. Changed(link[l].doc, Null) = {}
        BY <3>2, <3>7 DEF Undisturbed, Spared, Changed
      <4>3. \A c \in Controls : control[c].doc # new.doc
        BY <3>3, <4>2, NullAssumption DEF Changed
      <4>4. OneRow'  BY <3>5, <4>1 DEF AllTold, OneRow
      <4>5. ASSUME NEW x \in Reqs PROVE ReadRow(req[x])'
        <5>1. ReadRow(req[x]) /\ req[x].found \in Links \cup {Null}  BY <4>1 DEF AllTold, TypeOK, Request
        <5> QED  BY <3>2, <3>5, <5>1 DEF ReadRow
      <4>6. ASSUME NEW c \in Controls PROVE Told(c)'
        <5>1. LinkIn(link', control[c].doc) = LinkIn(link, control[c].doc)
          BY <3>1, <3>2, <3>3, <4>3, StoreElsewhere
        <5> QED  BY <3>2, <4>1, <5>1, OtherTold DEF AllTold, Controlled
      <4> QED  BY <4>4, <4>5, <4>6 DEF AllTold
    <3> QED  BY <3>6, <3>7 DEF Controlled
  <2> QED  BY <2>1, <2>2
<1> QED  BY <1>1, <1>2 DEF Sweep

LEMMA CommitControlled ==
    ASSUME TypeOK, Controlled, NEW r \in Reqs, NEW answered \in BOOLEAN, Commit(r, answered) PROVE Controlled'
<1> DEFINE q == req[r]
           op == IF q.op = "visit" THEN "retire" ELSE q.op
           l == IF q.found = Null THEN FreeRow ELSE q.found
           new == IF q.found = Null THEN [doc |-> q.doc, token |-> next, enabled |-> TRUE]
                  ELSE Saved(l, op, q.loaded)
           sets == (IF q.found # Null /\ link[l].enabled # q.loaded THEN {"crossed"} ELSE {})
                   \cup Changed(new.doc, q.by)
<1>0. q \in Request /\ Formed(q) /\ q.stage = "read" /\ q.op # "none" /\ q.op # "get"
  BY DEF TypeOK, Controlled, AllFormed, Commit, Formed
<1>1. l \in Links  BY CommitRow
<1>2. Store(l, new) /\ control' = control /\ disturbed' = disturbed \cup sets
  BY DEF Commit, Note, pages
<1>3. req'[r] = [q EXCEPT !.stage = "answered", !.ok = answered /\ op # "retire", !.got = new]
      /\ \A x \in Reqs \ {r} : req'[x] = req[x]
  BY PutIs DEF Commit
<1>4. new \in Row
  BY <1>0, <1>1, SavedType DEF TypeOK, Row, Request
<1>6. q.found = Null => new.doc = q.doc /\ link[l].doc = Null /\ q.by # Null
  <2> SUFFICES ASSUME q.found = Null PROVE new.doc = q.doc /\ link[l].doc = Null /\ q.by # Null
    OBVIOUS
  <2> DEFINE free == {k \in Links : link[k].doc = Null}
  <2>1. free # {} /\ free \subseteq Nat  BY NumbersAssumption DEF Commit
  <2>2. Least(free) \in free  BY <2>1, LeastIn
  <2>3. link[l].doc = Null  BY <2>2 DEF FreeRow
  <2> QED  BY <1>0, <2>3 DEF Formed
<1>7. q.found # Null => new.doc = link[l].doc /\ l = q.found
  BY <1>1, SavedAgain
<1>8. Changed(new.doc, q.by) \subseteq disturbed' /\ disturbed \subseteq disturbed'
  BY <1>2
<1>9. new.doc = link[l].doc \/ link[l].doc = Null  BY <1>6, <1>7
<1> HIDE DEF l, new, sets
<1>10. /\ req'[r].op = q.op /\ req'[r].by = q.by /\ req'[r].doc = q.doc
       /\ req'[r].stage = "answered" /\ req'[r].got = new
  <2> HIDE DEF op
  <2> QED  BY <1>0, <1>3 DEF Request
<1>11. link'[l] = new /\ \A k \in Links \ {l} : link'[k] = link[k]
  BY <1>1, <1>2 DEF Store, TypeOK
<1>12. \A x \in Reqs : req'[x].op = req[x].op /\ req'[x].by = req[x].by /\ req'[x].doc = req[x].doc
  BY <1>3, <1>10
<1>13. AllFormed'
  <2>1. \A x \in Reqs : Formed(req'[x])
    <3>1. Formed(req'[r])  BY <1>0, <1>10 DEF Formed
    <3> QED  BY <1>3, <3>1 DEF Controlled, AllFormed
  <2>2. ASSUME NEW c \in Controls PROVE RunIsGet(c)'
    <3>1. control[c].run \in Reqs \cup {Null}  BY DEF TypeOK
    <3> QED  BY <1>2, <1>12, <3>1, OtherFormed DEF Controlled
  <2> QED  BY <2>1, <2>2 DEF AllFormed, Formed
<1>14. ASSUME Undisturbed' PROVE AllTold'
  <2>1. AllTold  BY <1>8, <1>14 DEF Controlled, Undisturbed, Spared
  <2>2. \A c \in Controls \ {q.by} : control[c].doc # new.doc
    BY <1>8, <1>14 DEF Undisturbed, Spared, Changed
  <2>3. q.by # Null => new.doc = q.doc /\ q.doc # Null
    BY <1>0, <1>6, <1>7, <2>1 DEF AllTold, ReadRow, Formed
  <2>4. q.by # Null => q.by \in Controls /\ r \in Writing(q.by)
    BY <1>0 DEF Request, Writing
  <2>5. OneRow'
    <3>1. CASE q.found = Null
      <4>1. \A k \in Links : link[k].doc # new.doc
        BY <1>0, <1>6, <2>1, <3>1 DEF AllTold, ReadRow
      <4> QED  BY <1>11, <2>1, <4>1 DEF AllTold, OneRow
    <3>2. CASE q.found # Null
      <4>1. \A k \in Links : link'[k].doc = link[k].doc  BY <1>7, <1>11, <3>2
      <4> QED  BY <2>1, <4>1 DEF AllTold, OneRow
    <3> QED  BY <3>1, <3>2
  <2>6. ASSUME NEW x \in Reqs PROVE ReadRow(req[x])'
    <3>1. CASE x = r
      BY <1>10, <3>1 DEF ReadRow
    <3>2. CASE x # r
      <4> SUFFICES ASSUME req[x].stage = "read", req[x].by # Null
          PROVE  IF req[x].found = Null THEN \A k \in Links : link'[k].doc # req[x].doc
                 ELSE link'[req[x].found].doc = req[x].doc
        BY <1>3, <3>2 DEF ReadRow
      <4>1. /\ req[x] \in Request /\ Formed(req[x]) /\ ReadRow(req[x])
        BY <2>1 DEF AllTold, TypeOK, Controlled, AllFormed
      <4>2. req[x].found \in Links \cup {Null} /\ req[x].by \in Controls /\ req[x].doc # Null
            /\ x \in Writing(req[x].by)
        BY <4>1 DEF Request, Formed, Writing
      <4>3. q.by # req[x].by
        BY <2>1, <2>4, <3>2, <4>2 DEF AllTold, Told, OneWrite
      <4>4. control[req[x].by].doc = req[x].doc
        BY <2>1, <4>2 DEF AllTold, Told, OneWrite
      <4>5. req[x].doc # new.doc
        BY <2>2, <4>2, <4>3, <4>4
      <4> QED  BY <1>7, <1>6, <1>11, <4>1, <4>2, <4>5 DEF ReadRow
    <3> QED  BY <3>1, <3>2
  <2>7. ASSUME NEW c \in Controls, c # q.by PROVE Told(c)'
    <3>1. LinkIn(link', control[c].doc) = LinkIn(link, control[c].doc)
      BY <1>1, <1>2, <1>4, <1>9, <2>2, <2>7, StoreElsewhere
    <3>2. \A x \in Reqs : req[x].by = c \/ req'[x].by = c => req'[x] = req[x]
      BY <1>3, <1>10, <2>7
    <3> QED  BY <1>2, <2>1, <3>1, <3>2, OtherTold DEF AllTold, Controlled
  <2>8. ASSUME NEW c \in Controls, c = q.by PROVE Told(c)'
    <3>0. c # Null /\ r \in Writing(c)  BY <2>4, <2>8, NullAssumption
    <3>1. Told(c)  BY <2>1 DEF AllTold
    <3>2. Writing(c)' = Writing(c)  BY <1>12 DEF Writing
    <3>3. OneWrite(c)'  BY <1>2, <1>12, <3>1, <3>2 DEF Told, OneWrite, Writing
    <3>4. Shown(c)'  BY <3>0, <3>2 DEF Shown
    <3>5. control[c].doc = new.doc /\ control[c].run = Null
      BY <2>3, <2>8, <3>0, <3>1 DEF Told, OneWrite
    <3>6. LinkIn(link', new.doc) = new
      <4>1. \A k \in Links : link'[k].doc = link'[l].doc => k = l
        BY <1>1, <1>11, <2>3, <2>5, <2>8, <3>0 DEF OneRow
      <4> QED  BY <1>1, <1>11, <4>1, LinkFound
    <3>7. \A x \in Reqs : req'[x].by = c /\ req'[x].op # "get" => x = r
      BY <1>12, <3>0, <3>1 DEF Told, OneWrite, Writing
    <3>8. FreshAnswers(c)'
      BY <1>2, <1>10, <3>5, <3>6, <3>7, NullAssumption DEF FreshAnswers
    <3> QED  BY <3>3, <3>4, <3>8 DEF Told
  <2> QED  BY <2>5, <2>6, <2>7, <2>8 DEF AllTold
<1> QED  BY <1>13, <1>14 DEF Controlled


\* A control turns, clicks, or a guest follows: a slot is taken.
LEMMA StartKeeps ==
    ASSUME TypeOK, Controlled, NEW q \in Request, Start(q), Formed(q), Formed([q EXCEPT !.stage = "sent"])
    PROVE  /\ \A x \in Reqs : Formed(req'[x])
           /\ \A c \in Controls : control'[c].run = control[c].run /\ control'[c].doc = control[c].doc => RunIsGet(c)'
           /\ AllTold => OneRow' /\ \A x \in Reqs : ReadRow(req[x])'
           /\ \A c \in Controls : AllTold /\ q.by # c /\ control'[c] = control[c] => Told(c)'
<1>1. /\ Slot \in Reqs /\ Slot # Null /\ req[Slot].by = Null /\ req'[Slot] = [q EXCEPT !.stage = "sent"]
      /\ \A x \in Reqs \ {Slot} : req'[x] = req[x]
      /\ \A c \in Controls : control[c].run # Slot
  BY SlotFree DEF Controlled
<1>2. link' = link  BY DEF Start, server
<1>3. req'[Slot].stage = "sent" /\ req'[Slot].by = q.by  BY <1>1 DEF Request
<1> HIDE DEF Slot
<1>4. \A x \in Reqs : Formed(req'[x])  BY <1>1 DEF Controlled, AllFormed
<1>5. ASSUME NEW c \in Controls, control'[c].run = control[c].run, control'[c].doc = control[c].doc
      PROVE  RunIsGet(c)'
  <2>1. control[c].run \in Reqs \cup {Null}  BY DEF TypeOK
  <2> QED  BY <1>1, <1>5, <2>1, OtherFormed DEF Controlled
<1>6. AllTold => OneRow'  BY <1>2 DEF AllTold, OneRow
<1>7. ASSUME AllTold, NEW x \in Reqs PROVE ReadRow(req[x])'
  <2>1. CASE x = Slot
    BY <1>3, <2>1 DEF ReadRow
  <2>2. CASE x # Slot
    BY <1>1, <1>2, <1>7, <2>2 DEF AllTold, ReadRow
  <2> QED  BY <2>1, <2>2
<1>8. ASSUME AllTold, NEW c \in Controls, q.by # c, control'[c] = control[c] PROVE Told(c)'
  <2>1. c # Null  BY NullAssumption
  <2>2. \A x \in Reqs : req[x].by = c \/ req'[x].by = c => req'[x] = req[x]
    BY <1>1, <1>3, <1>8, <2>1
  <2> QED  BY <1>2, <1>8, <2>2, OtherTold DEF AllTold, Controlled
<1> QED  BY <1>4, <1>5, <1>6, <1>7, <1>8

LEMMA TurnControlled ==
    ASSUME TypeOK, Controlled, NEW c \in Controls, NEW d \in Docs, Turn(c, d) PROVE Controlled'
<1> DEFINE q == [NoReq EXCEPT !.op = "get", !.by = c, !.doc = d]
<1>0. c # Null /\ d # Null /\ control[c] \in Control /\ control \in [Controls -> Control]
  BY NullAssumption DEF TypeOK, Control
<1>1. q \in Request /\ q.op = "get" /\ q.by = c /\ q.doc = d /\ q.stage = "none"
  BY NoReqType DEF Request, Ops, NoReq
<1>2. /\ Start(q)
      /\ control' = [control EXCEPT ![c].doc = d, ![c].loading = TRUE, ![c].run = Slot]
      /\ disturbed' = disturbed \cup (IF \E r \in Reqs : req[r].by = c /\ req[r].op # "get" THEN {"moved"} ELSE {})
  BY DEF Turn, Note
<1> HIDE DEF q
<1>3. LET s == [q EXCEPT !.stage = "sent"] IN
      s.op = "get" /\ s.by = c /\ s.doc = d /\ s.stage = "sent"
  BY <1>1 DEF Request
<1>4. Formed(q) /\ Formed([q EXCEPT !.stage = "sent"])
  BY <1>0, <1>1, <1>3 DEF Formed
<1>5. control'[c].doc = d /\ control'[c].run = Slot /\ \A x \in Controls \ {c} : control'[x] = control[x]
  BY <1>0, <1>2 DEF Control
<1>6. /\ Slot \in Reqs /\ Slot # Null /\ req[Slot].by = Null /\ req'[Slot] = [q EXCEPT !.stage = "sent"]
      /\ \A x \in Reqs \ {Slot} : req'[x] = req[x]
  BY <1>2, SlotFree DEF Controlled
<1>7. /\ \A x \in Reqs : Formed(req'[x])
      /\ \A x \in Controls : control'[x].run = control[x].run /\ control'[x].doc = control[x].doc => RunIsGet(x)'
      /\ AllTold => OneRow' /\ \A x \in Reqs : ReadRow(req[x])'
      /\ \A x \in Controls : AllTold /\ q.by # x /\ control'[x] = control[x] => Told(x)'
  BY <1>1, <1>2, <1>4, StartKeeps
<1> HIDE DEF Slot
<1>8. RunIsGet(c)'  BY <1>3, <1>5, <1>6 DEF RunIsGet
<1>9. AllFormed'
  <2>1. \A x \in Controls : RunIsGet(x)'  BY <1>5, <1>7, <1>8
  <2> QED  BY <1>7, <2>1 DEF AllFormed, Formed
<1>10. ASSUME Undisturbed' PROVE AllTold'
  <2>1. AllTold  BY <1>2, <1>10 DEF Controlled, Undisturbed, Spared
  <2>2. Writing(c) = {}  BY <1>2, <1>10 DEF Undisturbed, Spared, Writing
  <2>3. Writing(c)' = {}  BY <1>3, <1>6, <2>2 DEF Writing
  <2>4. Told(c)'
    <3>1. OneWrite(c)'  BY <2>3 DEF OneWrite
    <3>2. Shown(c)'  BY <1>5, <1>6 DEF Shown
    <3>3. \A x \in Reqs : req'[x].by = c /\ req'[x].op # "get" => x \in Writing(c)'
      BY DEF Writing
    <3>4. FreshAnswers(c)'  BY <1>3, <1>5, <1>6, <2>3, <3>3 DEF FreshAnswers
    <3> QED  BY <3>1, <3>2, <3>4 DEF Told
  <2>5. \A x \in Controls : Told(x)'  BY <1>1, <1>5, <1>7, <2>1, <2>4
  <2> QED  BY <1>7, <2>1, <2>5 DEF AllTold
<1> QED  BY <1>9, <1>10 DEF Controlled

LEMMA ActControlled ==
    ASSUME TypeOK, Controlled, NEW c \in Controls, NEW op \in {"issue", "on", "off"}, Act(c, op) PROVE Controlled'
<1> DEFINE q == [NoReq EXCEPT !.op = op, !.by = c, !.doc = control[c].doc]
<1>0. /\ c # Null /\ control[c] \in Control /\ control \in [Controls -> Control]
      /\ control[c].doc \in Docs /\ control[c].doc # Null
  BY NullAssumption DEF TypeOK, Control
<1>1. q \in Request /\ q.op = op /\ q.by = c /\ q.doc = control[c].doc /\ q.stage = "none"
  BY <1>0, NoReqType DEF Request, Ops, NoReq
<1>2. /\ ~control[c].pending /\ Start(q) /\ disturbed' = disturbed
      /\ control' = [control EXCEPT ![c].loading = FALSE, ![c].pending = TRUE, ![c].run = Null]
  BY DEF Act
<1> HIDE DEF q
<1>3. LET s == [q EXCEPT !.stage = "sent"] IN
      s.op = op /\ s.by = c /\ s.doc = control[c].doc /\ s.stage = "sent"
  BY <1>1 DEF Request
<1>4. Formed(q) /\ Formed([q EXCEPT !.stage = "sent"])
  BY <1>0, <1>1, <1>3 DEF Formed
<1>5. /\ control'[c].doc = control[c].doc /\ control'[c].run = Null /\ control'[c].pending = TRUE
      /\ \A x \in Controls \ {c} : control'[x] = control[x]
  BY <1>0, <1>2 DEF Control
<1>6. /\ Slot \in Reqs /\ Slot # Null /\ req[Slot].by = Null /\ req'[Slot] = [q EXCEPT !.stage = "sent"]
      /\ \A x \in Reqs \ {Slot} : req'[x] = req[x]
  BY <1>2, SlotFree DEF Controlled
<1>7. /\ \A x \in Reqs : Formed(req'[x])
      /\ \A x \in Controls : control'[x].run = control[x].run /\ control'[x].doc = control[x].doc => RunIsGet(x)'
      /\ AllTold => OneRow' /\ \A x \in Reqs : ReadRow(req[x])'
      /\ \A x \in Controls : AllTold /\ q.by # x /\ control'[x] = control[x] => Told(x)'
  BY <1>1, <1>2, <1>4, StartKeeps
<1> HIDE DEF Slot
<1>8. RunIsGet(c)'  BY <1>5 DEF RunIsGet
<1>9. AllFormed'
  <2>1. \A x \in Controls : RunIsGet(x)'  BY <1>5, <1>7, <1>8
  <2> QED  BY <1>7, <2>1 DEF AllFormed, Formed
<1>10. ASSUME Undisturbed' PROVE AllTold'
  <2>1. AllTold  BY <1>2, <1>10 DEF Controlled, Undisturbed, Spared
  <2>2. Writing(c) = {}  BY <1>2, <2>1 DEF AllTold, Told, OneWrite
  <2>3. Writing(c)' = {Slot}
    <3>1. req'[Slot].by = c /\ req'[Slot].op # "get"  BY <1>3, <1>6
    <3>2. \A x \in Reqs \ {Slot} : ~(req'[x].by = c /\ req'[x].op # "get")
      BY <1>6, <2>2 DEF Writing
    <3> QED  BY <1>6, <3>1, <3>2 DEF Writing
  <2>4. Told(c)'
    <3>1. OneWrite(c)'  BY <1>3, <1>5, <1>6, <2>3 DEF OneWrite
    <3>2. Shown(c)'  BY <2>3 DEF Shown
    <3>3. \A x \in Reqs : req'[x].by = c /\ req'[x].op # "get" => x = Slot
      BY <2>3 DEF Writing
    <3>4. FreshAnswers(c)'
      <4>1. SUFFICES ASSUME NEW r \in Reqs, req'[r].by = c, req'[r].stage = "answered",
                            r = control'[c].run \/ req'[r].op # "get"
                     PROVE  FALSE
        BY Zenon DEF FreshAnswers
      <4>2. r # control'[c].run  BY <1>5, <4>1, NullAssumption
      <4>3. r = Slot  BY <3>3, <4>1, <4>2
      <4>4. req'[Slot].stage = "sent"  BY <1>3, <1>6
      <4> QED  BY <4>1, <4>3, <4>4
    <3> QED  BY <3>1, <3>2, <3>4 DEF Told
  <2>5. \A x \in Controls : Told(x)'  BY <1>1, <1>5, <1>7, <2>1, <2>4
  <2> QED  BY <1>7, <2>1, <2>5 DEF AllTold
<1> QED  BY <1>9, <1>10 DEF Controlled

LEMMA FollowControlled == ASSUME TypeOK, Controlled, NEW t \in 1..(next - 1), Follow(t) PROVE Controlled'
<1> DEFINE q == [NoReq EXCEPT !.op = "visit", !.token = t]
<1>0. t \in Nat  BY DEF TypeOK
<1>1. q \in Request /\ q.op = "visit" /\ q.by = Null /\ q.stage = "none"
  BY <1>0, NoReqType DEF Request, Ops, NoReq
<1>2. Start(q) /\ control' = control /\ disturbed' = disturbed /\ link' = link  BY DEF Follow, Start, server
<1> HIDE DEF q
<1>3. LET s == [q EXCEPT !.stage = "sent"] IN s.op = "visit" /\ s.by = Null /\ s.stage = "sent"
  BY <1>1 DEF Request
<1>4. Formed([q EXCEPT !.stage = "sent"])  BY <1>3 DEF Formed
<1>5. /\ Slot \in Reqs /\ req[Slot].by = Null /\ req'[Slot] = [q EXCEPT !.stage = "sent"]
      /\ \A x \in Reqs \ {Slot} : req'[x] = req[x]
  BY <1>2, SlotFree DEF Controlled
<1> HIDE DEF Slot
<1> QED  BY <1>2, <1>3, <1>4, <1>5, AsideControlled


\* An answer that is delivered; its slot is free again.
LEMMA FreedKeeps ==
    ASSUME TypeOK, Controlled, NEW r \in Reqs, Put(r, NoReq), link' = link
    PROVE  /\ req'[r] = NoReq /\ NoReq.by = Null /\ \A x \in Reqs \ {r} : req'[x] = req[x]
           /\ \A x \in Reqs : Formed(req'[x])
           /\ AllTold => OneRow' /\ \A x \in Reqs : ReadRow(req[x])'
<1>1. req'[r] = NoReq /\ \A x \in Reqs \ {r} : req'[x] = req[x]  BY PutIs
<1>2. NoReq.by = Null /\ NoReq.op = "none" /\ NoReq.stage = "none"  BY DEF NoReq
<1>3. \A x \in Reqs : Formed(req'[x])
  <2>1. Formed(NoReq)  BY <1>2 DEF Formed
  <2> QED  BY <1>1, <2>1 DEF Controlled, AllFormed
<1>4. AllTold => OneRow'  BY DEF AllTold, OneRow
<1>5. ASSUME AllTold, NEW x \in Reqs PROVE ReadRow(req[x])'
  BY <1>1, <1>2, <1>5 DEF AllTold, ReadRow
<1> QED  BY <1>1, <1>2, <1>3, <1>4, <1>5

LEMMA VisitedControlled == ASSUME TypeOK, Controlled, NEW r \in Reqs, Visited(r) PROVE Controlled'
<1>1. link' = link /\ control' = control /\ disturbed' = disturbed /\ Put(r, NoReq)
  BY DEF Visited, server
<1>2. req[r].by = Null  BY DEF Visited, Controlled, AllFormed, Formed
<1> QED  BY <1>1, <1>2, FreedKeeps, AsideControlled

LEMMA AnsweredControlled ==
    ASSUME TypeOK, Controlled, NEW r \in Reqs, NEW c \in Controls, req[r].by = c, Answered(r)
    PROVE  Controlled'
<1> DEFINE q == req[r]
           k == control[c]
           counts == Counts(r)
<1>0. /\ q \in Request /\ Formed(q) /\ q.stage = "answered" /\ q.by = c /\ c # Null
      /\ q.op \in {"get", "issue", "on", "off"} /\ r # Null
  BY NullAssumption DEF TypeOK, Controlled, AllFormed, Answered, Request, Formed, Ops
<1>1. k \in Control /\ control \in [Controls -> Control]  BY <1>0 DEF TypeOK, Control
<1>2. /\ control' = [control EXCEPT ![c] =
             [k EXCEPT !.link = IF counts /\ q.ok THEN q.got ELSE k.link,
                       !.loading = IF q.op = "get" /\ counts THEN FALSE ELSE k.loading,
                       !.run = IF q.op = "get" /\ counts THEN Null ELSE k.run,
                       !.pending = IF q.op = "get" THEN k.pending ELSE FALSE]]
      /\ link' = link /\ Put(r, NoReq)
      /\ disturbed' = disturbed \cup (IF counts /\ ~q.ok THEN {"failed"} ELSE {})
  BY DEF Answered, server, Note
<1>3. /\ control'[c].doc = k.doc
      /\ control'[c].link = IF counts /\ q.ok THEN q.got ELSE k.link
      /\ control'[c].run = IF q.op = "get" /\ counts THEN Null ELSE k.run
      /\ control'[c].pending = IF q.op = "get" THEN k.pending ELSE FALSE
      /\ \A x \in Controls \ {c} : control'[x] = control[x]
  <2> HIDE DEF counts
  <2> QED  BY <1>0, <1>1, <1>2 DEF Control
<1>4. /\ req'[r] = NoReq /\ NoReq.by = Null /\ \A x \in Reqs \ {r} : req'[x] = req[x]
      /\ \A x \in Reqs : Formed(req'[x])
      /\ AllTold => OneRow' /\ \A x \in Reqs : ReadRow(req[x])'
  BY <1>2, FreedKeeps
<1>5. counts <=> q.op # "get" \/ k.run = r  BY DEF Counts
<1> HIDE DEF counts, k
<1>6. k = control[c] /\ k.run \in Reqs \cup {Null} /\ RunIsGet(c)
  BY <1>0, <1>1 DEF k, Control, Controlled, AllFormed
<1>7. k.run # r => control'[c].run = k.run
  BY <1>3, <1>5
<1>8. k.run = r => control'[c].run = Null
  BY <1>0, <1>3, <1>5, <1>6 DEF RunIsGet
<1>9. ASSUME NEW x \in Controls PROVE RunIsGet(x)'
  <2>1. control[x].run \in Reqs \cup {Null} /\ RunIsGet(x)  BY DEF TypeOK, Controlled, AllFormed
  <2>2. CASE x = c
    <3>1. CASE k.run = r
      BY <1>8, <2>2, <3>1 DEF RunIsGet
    <3>2. CASE k.run # r
      BY <1>3, <1>4, <1>6, <1>7, <2>2, <3>2, OtherFormed DEF Controlled
    <3> QED  BY <3>1, <3>2
  <2>3. CASE x # c
    <3>1. control[x].run # r  BY <1>0, <2>1, <2>3 DEF RunIsGet
    <3> QED  BY <1>3, <1>4, <2>1, <2>3, <3>1, OtherFormed DEF Controlled
  <2> QED  BY <2>2, <2>3
<1>10. AllFormed'  BY <1>4, <1>9 DEF AllFormed, Formed
<1>11. ASSUME Undisturbed' PROVE AllTold'
  <2>1. AllTold /\ Told(c)  BY <1>0, <1>2, <1>11 DEF Controlled, Undisturbed, Spared, AllTold
  <2>2. counts => q.ok  BY <1>2, <1>11 DEF Undisturbed, Spared
  <2>3. ASSUME NEW x \in Controls, x # c PROVE Told(x)'
    <3>1. \A s \in Reqs : req[s].by = x \/ req'[s].by = x => req'[s] = req[s]
      BY <1>4, <2>3, NullAssumption
    <3> QED  BY <1>2, <1>3, <2>1, <2>3, <3>1, OtherTold DEF AllTold, Controlled
  <2>4. Told(c)'
    <3>1. Writing(c)' = Writing(c) \ {r}  BY <1>0, <1>4 DEF Writing
    <3>2. CASE q.op # "get"
      <4>1. Writing(c) = {r} /\ k.run = Null
        BY <1>0, <1>6, <2>1, <3>2 DEF Told, OneWrite, Writing
      <4>2. Writing(c)' = {}  BY <3>1, <4>1
      <4>3. OneWrite(c)'  BY <4>2 DEF OneWrite
      <4>4. q.got = LinkIn(link, k.doc)
        BY <1>0, <1>5, <1>6, <2>1, <2>2, <3>2 DEF Told, FreshAnswers
      <4>5. Shown(c)'  BY <1>2, <1>3, <1>5, <2>2, <3>2, <4>4 DEF Shown
      <4>6. \A x \in Reqs : req'[x].by = c /\ req'[x].op # "get" => x \in Writing(c)'
        BY DEF Writing
      <4>7. FreshAnswers(c)'
        BY <1>3, <3>2, <4>1, <4>2, <4>6, NullAssumption DEF FreshAnswers
      <4> QED  BY <4>3, <4>5, <4>7 DEF Told
    <3>3. CASE q.op = "get" /\ k.run = r
      <4>1. Writing(c) = {}  BY <1>0, <1>6, <2>1, <3>3 DEF Told, OneWrite
      <4>2. Writing(c)' = {}  BY <3>1, <4>1
      <4>3. OneWrite(c)'  BY <4>2 DEF OneWrite
      <4>4. q.got = LinkIn(link, k.doc)
        BY <1>0, <1>5, <1>6, <2>1, <2>2, <3>3 DEF Told, FreshAnswers
      <4>5. Shown(c)'  BY <1>2, <1>3, <1>5, <2>2, <3>3, <4>4 DEF Shown
      <4>6. \A x \in Reqs : req'[x].by = c /\ req'[x].op # "get" => x \in Writing(c)'
        BY DEF Writing
      <4>7. FreshAnswers(c)'
        BY <1>8, <3>3, <4>2, <4>6, NullAssumption DEF FreshAnswers
      <4> QED  BY <4>3, <4>5, <4>7 DEF Told
    <3>4. CASE q.op = "get" /\ k.run # r
      <4>1. Writing(c)' = Writing(c)  BY <3>1, <3>4 DEF Writing
      <4>2. control'[c].pending = k.pending /\ control'[c].link = k.link /\ control'[c].run = k.run
        BY <1>3, <1>5, <3>4
      <4>3. \A x \in Reqs : req'[x].by = c => x # r /\ req'[x] = req[x]
        BY <1>0, <1>4
      <4>4. OneWrite(c)'  BY <1>3, <1>6, <2>1, <4>1, <4>2, <4>3 DEF Told, OneWrite, Writing
      <4>5. Shown(c)'  BY <1>2, <1>3, <1>6, <2>1, <4>1, <4>2 DEF Told, Shown
      <4>6. FreshAnswers(c)'  BY <1>2, <1>3, <1>6, <2>1, <4>2, <4>3 DEF Told, FreshAnswers
      <4> QED  BY <4>4, <4>5, <4>6 DEF Told
    <3> QED  BY <3>2, <3>3, <3>4
  <2>5. \A x \in Controls : Told(x)'  BY <2>3, <2>4
  <2> QED  BY <1>4, <2>1, <2>5 DEF AllTold
<1> QED  BY <1>10, <1>11 DEF Controlled

LEMMA InitControlled == ASSUME Init PROVE Controlled
<1>1. \A r \in Reqs : req[r].op = "none" /\ req[r].by = Null /\ req[r].stage = "none"
  BY DEF Init, NoReq
<1>2. \A l \in Links : link[l].doc = Null  BY DEF Init, NoRow
<1>3. \A r \in Reqs : Formed(req[r]) /\ ReadRow(req[r])  BY <1>1 DEF Formed, ReadRow
<1>4. ASSUME NEW c \in Controls PROVE RunIsGet(c) /\ Told(c)
  <2>1. control[c].run = Null /\ control[c].link = NoRow /\ control[c].doc = (CHOOSE d \in Docs : TRUE)
    BY DEF Init
  <2>2. control[c].doc \in Docs /\ control[c].doc # Null /\ c # Null
    BY <2>1, DocsAssumption, NullAssumption
  <2>3. LinkIn(link, control[c].doc) = NoRow  BY <1>2, <2>2 DEF LinkIn
  <2>4. \A r \in Reqs : req[r].by # c  BY <1>1, <2>2
  <2> QED  BY <2>1, <2>3, <2>4 DEF RunIsGet, Told, OneWrite, FreshAnswers, Shown, Writing
<1>5. OneRow  BY <1>2 DEF OneRow
<1> QED  BY <1>3, <1>4, <1>5 DEF Controlled, AllFormed, AllTold

LEMMA StepControlled == TypeOK /\ Controlled /\ [Next]_vars => Controlled'
<1> SUFFICES ASSUME TypeOK, Controlled, [Next]_vars PROVE Controlled'
  OBVIOUS
<1>1. ASSUME NEW r \in Reqs, Handle(r) PROVE Controlled'
  BY <1>1, ReadControlled, FailControlled, CommitControlled DEF Handle
<1>2. ASSUME NEW r \in Reqs, Deliver(r) PROVE Controlled'
  <2>1. CASE Answered(r)
    <3>1. req[r].by \in Controls  BY <2>1 DEF Answered, TypeOK, Request
    <3> QED  BY <2>1, <3>1, AnsweredControlled
  <2> QED  BY <1>2, <2>1, VisitedControlled DEF Deliver
<1>3. CASE User
  <2>1. ASSUME NEW c \in Controls, NEW d \in Docs, Turn(c, d) PROVE Controlled'
    BY <2>1, TurnControlled
  <2>2. ASSUME NEW c \in Controls, ControlClick(c) PROVE Controlled'
    BY <2>2, ActControlled DEF ControlClick
  <2>3. ASSUME NEW c \in Controls, NEW op \in {"issue", "on", "off"}, PanelClick(c, op) PROVE Controlled'
    BY <2>3, ActControlled DEF PanelClick
  <2>4. ASSUME NEW t \in 1..(next - 1), Follow(t) PROVE Controlled'
    BY <2>4, FollowControlled
  <2> QED  BY <1>3, <2>1, <2>2, <2>3, <2>4 DEF User
<1>4. CASE Events
  BY <1>4, StillControlled DEF Events, SetGate, SetStatus, pages
<1>5. CASE UNCHANGED vars
  BY <1>5, StillControlled DEF vars, server, pages
<1> QED  BY <1>1, <1>2, <1>3, <1>4, <1>5, SweepControlled DEF Next

\* Whichever of its reads and writes overlap or are overtaken, a control at rest shows
\* the link of its document as it is, unless what it makes an exception for happened.
THEOREM ControlTellsTruth == Spec => []ControlShowsServer
<1>1. TypeOK /\ Controlled => ControlShowsServer
  <2> SUFFICES ASSUME TypeOK, Controlled, NEW c \in Controls, Quiet(c), Undisturbed
      PROVE  control[c].link = LinkIn(link, control[c].doc)
    BY DEF ControlShowsServer, Undisturbed, LinkIn, RowsOf
  <2>1. Writing(c) = {}  BY DEF Quiet, Writing
  <2>2. control[c].run = Null  BY DEF TypeOK, Quiet, Controlled, AllFormed, RunIsGet
  <2> QED  BY <2>1, <2>2 DEF Controlled, AllTold, Told, Shown
<1> QED  BY <1>1, InitControlled, StepControlled, TypeCorrect, PTL DEF Spec

=============================================================================
