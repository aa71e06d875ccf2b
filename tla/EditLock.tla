------------------------------ MODULE EditLock ------------------------------
(***************************************************************************)
(* Editing one document: the lock and the version log on the server        *)
(* (LockVersionService) and the visits users pay to its edit page          *)
(* (useEditSession, useForceUnlock, DocumentEditPage).                     *)
(*                                                                         *)
(* Each handler of the server locks the row of the document first (SELECT  *)
(* ... FOR UPDATE), so it is one step.  A request waits in inbox until the *)
(* server takes it, in any order; the visit that sent it goes on when the  *)
(* answer comes, or fails when it gives up waiting, in which case the      *)
(* server may still take the request.  The save a visit sends when the     *)
(* page closes is awaited by nobody.                                       *)
(*                                                                         *)
(* A visit has at most one cancel under way.  A page that goes straight    *)
(* from one document to another is not modelled: it is one document here.  *)
(***************************************************************************)
EXTENDS Integers, Sequences, FiniteSets

CONSTANTS
    Users,
    Owners,    \* those who may force an unlock (workspace owner or admin)
    Visits,    \* mounts of the edit page
    Tabs,      \* how many edit pages a user has open at once
    Prompt,    \* the users who come back only when their earlier calls are settled
    Breaks,    \* TRUE: connections may break
    Null       \* SQL NULL: nobody

ASSUME UsersAssumption == Owners \subseteq Users /\ Prompt \subseteq Users /\ Null \notin Users
ASSUME VisitsAssumption == IsFiniteSet(Visits)
ASSUME TabsAssumption == Tabs \in Nat \ {0} /\ Breaks \in BOOLEAN

VARIABLES
    lock,     \* document.lock_user_id
    log,      \* the rows of document_version, oldest first; the last is current
    inbox,    \* per visit: requests sent and not yet taken by the server
    visit     \* per visit: the state of its edit page

vars == <<lock, log, inbox, visit>>

Calls == {"lock", "get", "cancel", "force"}    \* the calls a visit waits for

\* phase: the status of useEditSession; "acquiring" is split into locking and
\* loading.  call, answer: the call waited for and its outcome.  basis: the
\* number of versions when the editor's text was read.  end: how it was left.
Visit == [user   : Users \cup {Null},
          phase  : {"away", "locking", "loading", "editing", "blocked", "error",
                    "released", "left"},
          call   : Calls \cup {"none"},
          answer : {"none", "ok", "conflict", "failed"},
          basis  : Nat,
          end    : {"none", "saving", "clean", "early", "lost"}]

Versions == [by : Users, base : Nat]

---------------------------------------------------------------------------
(***************************************************************************)
(* The server.                                                             *)
(***************************************************************************)
\* The server takes request op of visit s; the visit hears of it if it still waits.
Take(s, op, outcome) ==
    /\ op \in inbox[s]
    /\ inbox' = [inbox EXCEPT ![s] = @ \ {op}]
    /\ visit' = IF visit[s].call = op /\ visit[s].answer = "none"
                THEN [visit EXCEPT ![s] = [@ EXCEPT !.answer = outcome]]
                ELSE visit

\* Mutant: start_edit without the conflict.
StartEditAnyway(s) == Take(s, "lock", "ok") /\ lock' = visit[s].user /\ UNCHANGED log

\* start_edit: takes a free lock, leaves one's own, refuses another's (409).
StartEdit(s) ==
    LET u == visit[s].user IN
    \/ lock \in {Null, u} /\ Take(s, "lock", "ok") /\ lock' = u /\ UNCHANGED log
    \/ lock \notin {Null, u} /\ Take(s, "lock", "conflict") /\ UNCHANGED <<lock, log>>

\* get_document: the text of the current version.
GetDocument(s) ==
    /\ "get" \in inbox[s]
    /\ inbox' = [inbox EXCEPT ![s] = @ \ {"get"}]
    /\ visit' = IF visit[s].call = "get" /\ visit[s].answer = "none"
                THEN [visit EXCEPT ![s] = [@ EXCEPT !.answer = "ok", !.basis = Len(log)]]
                ELSE visit
    /\ UNCHANGED <<lock, log>>

\* Mutant: save without its check of the holder.
SaveUnchecked(s) ==
    /\ Take(s, "save", "ok")
    /\ log' = Append(log, [by |-> visit[s].user, base |-> visit[s].basis])
    /\ lock' = Null

\* Mutant: the same, and the version is signed with the holder of the lock.
SaveSignedByHolder(s) ==
    /\ Take(s, "save", "ok")
    /\ log' = Append(log, [by |-> lock, base |-> visit[s].basis])
    /\ lock' = Null

\* Mutant: save forgets clear_lock.
SaveKeepsLock(s) ==
    /\ Take(s, "save", "ok")
    /\ IF lock = visit[s].user
       THEN log' = Append(log, [by |-> lock, base |-> visit[s].basis]) /\ UNCHANGED lock
       ELSE UNCHANGED <<lock, log>>

\* save: version, current version and unlock in one transaction; 409 for anyone
\* but the holder.
Save(s) ==
    LET u == visit[s].user IN
    /\ Take(s, "save", "ok")
    /\ IF lock = u
       THEN log' = Append(log, [by |-> u, base |-> visit[s].basis]) /\ lock' = Null
       ELSE UNCHANGED <<lock, log>>

\* cancel_edit: unlocks, changes nothing if there is no lock, refuses another's.
CancelEdit(s) ==
    LET u == visit[s].user IN
    /\ UNCHANGED log
    /\ \/ lock \in {Null, u} /\ Take(s, "cancel", "ok") /\ lock' = Null
       \/ lock \notin {Null, u} /\ Take(s, "cancel", "conflict") /\ UNCHANGED lock

\* force_unlock: unlocks whoever holds it.
ForceUnlock(s) == Take(s, "force", "ok") /\ lock' = Null /\ UNCHANGED log

---------------------------------------------------------------------------
(***************************************************************************)
(* The edit page.                                                          *)
(***************************************************************************)
Open(s) == visit[s].phase \notin {"away", "left"}

VisitsOf(u) == {s \in Visits : visit[s].user = u}

\* A visit no request of which can still reach the server.
Settled(s) == ~Open(s) /\ inbox[s] = {} /\ visit[s].call = "none"

Send(s, op) == inbox' = [inbox EXCEPT ![s] = @ \cup {op}]

\* Visit s sends op and waits in phase p.
CallFrom(s, p, op) ==
    /\ visit' = [visit EXCEPT ![s] = [@ EXCEPT !.phase = p, !.call = op, !.answer = "none"]]
    /\ Send(s, op)

\* Visit s has its answer and goes to phase p.
Proceed(s, p) ==
    /\ visit' = [visit EXCEPT ![s] = [@ EXCEPT !.phase = p, !.call = "none", !.answer = "none"]]
    /\ UNCHANGED inbox

Answered(s, op) == visit[s].call = op /\ visit[s].answer # "none"

\* Mount of DocumentEditPage: acquire() asks for the lock.
Enter(s, u) ==
    /\ visit[s].phase = "away"
    /\ Cardinality({t \in VisitsOf(u) : Open(t)}) < Tabs
    /\ u \in Prompt => \A t \in VisitsOf(u) : Open(t) \/ Settled(t)
    /\ visit' = [visit EXCEPT ![s] = [@ EXCEPT !.user = u, !.phase = "locking", !.call = "lock"]]
    /\ Send(s, "lock")
    /\ UNCHANGED <<lock, log>>

\* acquire(), after lockDocument: resolveLockState decides.  Once the page is
\* gone nothing follows: a lock the server gave stays.
LockAnswered(s) ==
    /\ Answered(s, "lock")
    /\ UNCHANGED <<lock, log>>
    /\ \/ visit[s].phase = "left" /\ Proceed(s, "left")
       \/ Open(s) /\ visit[s].answer = "ok" /\ CallFrom(s, "loading", "get")
       \/ Open(s) /\ visit[s].answer = "conflict" /\ Proceed(s, "blocked")
       \/ Open(s) /\ visit[s].answer = "failed" /\ Proceed(s, "error")

\* acquire(), after getDocument: the editor opens and hands over its handle.
DocumentLoaded(s) ==
    /\ Answered(s, "get")
    /\ UNCHANGED <<lock, log>>
    /\ \/ visit[s].phase = "left" /\ Proceed(s, "left")
       \/ Open(s) /\ visit[s].answer = "ok" /\ Proceed(s, "editing")
       \/ Open(s) /\ visit[s].answer = "failed" /\ Proceed(s, "error")

\* The cancel button of EditorPane.
Cancel(s) ==
    /\ visit[s].phase = "editing" /\ visit[s].call = "none" /\ "cancel" \notin inbox[s]
    /\ CallFrom(s, "editing", "cancel")
    /\ UNCHANGED <<lock, log>>

\* cancel(), after cancelEdit: released, or the error is shown and editing goes on.
CancelAnswered(s) ==
    /\ Answered(s, "cancel")
    /\ UNCHANGED <<lock, log>>
    /\ \/ visit[s].phase = "left" /\ Proceed(s, "left")
       \/ Open(s) /\ visit[s].answer = "ok" /\ Proceed(s, "released")
       \/ Open(s) /\ visit[s].answer # "ok" /\ Proceed(s, "editing")

\* The button EditLockBanner shows an owner who is locked out.
ForceClick(s) ==
    /\ visit[s].phase = "blocked" /\ visit[s].user \in Owners
    /\ visit[s].call = "none" /\ "force" \notin inbox[s]
    /\ CallFrom(s, "blocked", "force")
    /\ UNCHANGED <<lock, log>>

\* handleClick, after forceUnlock: retryAcquire asks for the lock again, even if
\* the page is gone by then.
ForceAnswered(s) ==
    /\ Answered(s, "force")
    /\ UNCHANGED <<lock, log>>
    /\ \/ visit[s].answer = "ok" /\ visit[s].phase = "left" /\ CallFrom(s, "left", "lock")
       \/ visit[s].answer = "ok" /\ Open(s) /\ CallFrom(s, "locking", "lock")
       \/ visit[s].answer = "failed" /\ Proceed(s, visit[s].phase)

\* How the page was left, judged from where it stood.
End(s) ==
    CASE visit[s].phase = "editing" -> "saving"
      [] visit[s].phase = "released" \/ (visit[s].phase = "blocked" /\ visit[s].call = "none") -> "clean"
      [] OTHER -> "early"

\* Mutant: the cleanup does not save.
LeaveUnsaved(s) ==
    /\ Open(s)
    /\ visit' = [visit EXCEPT ![s] = [@ EXCEPT !.phase = "left", !.end = End(s)]]
    /\ UNCHANGED <<lock, log, inbox>>

\* Unmount: the cleanup of useEditSession saves if the lock was acquired, the
\* editor had opened and no cancel has succeeded.
Leave(s) ==
    /\ Open(s)
    /\ visit' = [visit EXCEPT ![s] = [@ EXCEPT !.phase = "left", !.end = End(s)]]
    /\ IF visit[s].phase = "editing" THEN Send(s, "save") ELSE UNCHANGED inbox
    /\ UNCHANGED <<lock, log>>

---------------------------------------------------------------------------
(***************************************************************************)
(* The network.                                                            *)
(***************************************************************************)
\* The connection breaks while the visit waits; the request may still arrive.
GiveUp(s) ==
    /\ Breaks /\ visit[s].call # "none" /\ visit[s].answer = "none"
    /\ visit' = [visit EXCEPT ![s] = [@ EXCEPT !.answer = "failed"]]
    /\ UNCHANGED <<lock, log, inbox>>

\* A request nobody waits for any more, or the save of a closed page, is lost.
Lose(s, op) ==
    /\ Breaks /\ op \in inbox[s]
    /\ op # "save" => visit[s].call # op \/ visit[s].answer = "failed"
    /\ inbox' = [inbox EXCEPT ![s] = @ \ {op}]
    /\ visit' = IF op = "save" THEN [visit EXCEPT ![s] = [@ EXCEPT !.end = "lost"]] ELSE visit
    /\ UNCHANGED <<lock, log>>

---------------------------------------------------------------------------
Init ==
    /\ lock = Null
    /\ log = <<>>
    /\ inbox = [s \in Visits |-> {}]
    /\ visit = [s \in Visits |-> [user |-> Null, phase |-> "away", call |-> "none",
                                  answer |-> "none", basis |-> 0, end |-> "none"]]

Server(s) == StartEdit(s) \/ GetDocument(s) \/ Save(s) \/ CancelEdit(s) \/ ForceUnlock(s)

Page(s) ==
    \/ \E u \in Users : Enter(s, u)
    \/ LockAnswered(s) \/ DocumentLoaded(s)
    \/ Cancel(s) \/ CancelAnswered(s)
    \/ ForceClick(s) \/ ForceAnswered(s)
    \/ Leave(s)

Network(s) == GiveUp(s) \/ (\E op \in Calls \cup {"save"} : Lose(s, op))

Next == \E s \in Visits : Server(s) \/ Page(s) \/ Network(s)

Spec == Init /\ [][Next]_vars

---------------------------------------------------------------------------
(***************************************************************************)
(* Properties.                                                             *)
(***************************************************************************)
\* The variables range over the rows, requests and pages above.
TypeOK ==
    /\ lock \in Users \cup {Null}
    /\ log \in Seq(Versions)
    /\ inbox \in [Visits -> SUBSET (Calls \cup {"save"})]
    /\ visit \in [Visits -> Visit]

\* No lost update: every version of a user who waits for the earlier calls was edited
\* from the one it replaces, forced unlocks, broken connections, late requests and
\* the habits of the other users notwithstanding.
NoLostUpdate == \A i \in 1..Len(log) : log[i].by \in Prompt => log[i].base = i - 1

\* A cancel or exit save of page t unlocks.  With one page per user t is closed by
\* then, and if the user also waits for the earlier calls no such request is left.
UnlockedFrom(t) ==
    /\ CancelEdit(t) \/ Save(t)
    /\ Tabs = 1 => visit[t].phase = "left" /\ visit[t].user \notin Prompt

\* While an editor is open, its user loses the lock only to a forced unlock, to the
\* cancel of that very page, or to a request still under way of another page of the
\* same user: the lock names the user, not the page.  See UnlockedFrom for which page.
LockKeptWhileEditing ==
    [][\A s \in Visits :
          /\ visit[s].phase = "editing" /\ visit'[s].phase = "editing"
          /\ lock = visit[s].user /\ lock' # lock
          => \/ CancelEdit(s)
             \/ \E t \in Visits : ForceUnlock(t)
             \/ \E t \in VisitsOf(visit[s].user) \ {s} : UnlockedFrom(t)]_vars

\* Where no unlock is forced and no connection breaks, no two users have the
\* document open in an editor (one whose cancel is not under way).
OneEditor ==
    \A s, t \in Visits :
        (\A v \in {s, t} : visit[v].phase = "editing" /\ visit[v].call # "cancel") =>
            visit[s].user = visit[t].user

\* A lock nobody stands behind (its holder has no page open and no request
\* under way) comes from a page left before its editor opened or a lost save.
OrphanExplained ==
    lock # Null /\ (\A s \in VisitsOf(lock) : Settled(s)) =>
        \E s \in VisitsOf(lock) : visit[s].end \in {"early", "lost"}

\* The lock and the authors of the versions follow LockedLog: only the holder
\* appends, and appending gives the lock up.
Promise == INSTANCE LockedLog WITH log <- [i \in DOMAIN log |-> log[i].by]
FollowsLockedLog == Promise!Spec
=============================================================================
