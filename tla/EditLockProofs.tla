--------------------------- MODULE EditLockProofs ---------------------------
(***************************************************************************)
(* What holds of EditLock for every number of users, visits and tabs, with *)
(* or without broken connections and early returns.                        *)
(***************************************************************************)
EXTENDS Uploads, FiniteSetTheorems, SequenceTheorems, TLAPS

Phases == {"away", "locking", "loading", "editing", "blocked", "error", "released", "left"}
Answers == {"none", "ok", "conflict", "failed"}
Requests == Calls \cup {"save"}

---------------------------------------------------------------------------
(***************************************************************************)
(* What the updates of a visit do, field by field.                         *)
(***************************************************************************)
LEMMA SetPhase == \A v \in Visit, p \in Phases : [v EXCEPT !.phase = p] \in Visit
BY DEF Phases, Visit

LEMMA SetCall == \A v \in Visit, op \in Calls \cup {"none"} : [v EXCEPT !.call = op] \in Visit
BY DEF Visit

LEMMA SetAnswer == \A v \in Visit, a \in Answers : [v EXCEPT !.answer = a] \in Visit
BY DEF Visit, Answers

LEMMA SetUser == \A v \in Visit, u \in Users : [v EXCEPT !.user = u] \in Visit
BY DEF Visit

LEMMA SetBasis == \A v \in Visit, n \in Nat : [v EXCEPT !.basis = n] \in Visit
BY DEF Visit

LEMMA SetEnd ==
    \A v \in Visit, e \in {"saving", "clean", "early", "lost"} : [v EXCEPT !.end = e] \in Visit
BY DEF Visit

\* Nothing but the named fields of visit s differs.
Kept(s, F) ==
    /\ \A t \in Visits \ {s} : visit'[t] = visit[t]
    /\ "user" \notin F => visit'[s].user = visit[s].user
    /\ "phase" \notin F => visit'[s].phase = visit[s].phase
    /\ "call" \notin F => visit'[s].call = visit[s].call
    /\ "answer" \notin F => visit'[s].answer = visit[s].answer
    /\ "basis" \notin F => visit'[s].basis = visit[s].basis
    /\ "end" \notin F => visit'[s].end = visit[s].end

LEMMA TakeFacts ==
    ASSUME TypeOK, NEW s \in Visits, NEW op, NEW a \in Answers, Take(s, op, a)
    PROVE  /\ visit' \in [Visits -> Visit] /\ Kept(s, {"answer"})
           /\ visit'[s].answer = IF visit[s].call = op /\ visit[s].answer = "none"
                                 THEN a ELSE visit[s].answer
           /\ op \in inbox[s] /\ inbox' = [inbox EXCEPT ![s] = @ \ {op}]
<1>1. visit[s] \in Visit /\ [visit[s] EXCEPT !.answer = a] \in Visit
  BY SetAnswer DEF TypeOK
<1>2. visit' \in [Visits -> Visit]
  BY <1>1 DEF Take, TypeOK
<1> QED  BY <1>1, <1>2 DEF Take, Kept, TypeOK, Visit

LEMMA CallFromFacts ==
    ASSUME TypeOK, NEW s \in Visits, NEW p \in Phases, NEW op \in Calls, CallFrom(s, p, op)
    PROVE  /\ visit' \in [Visits -> Visit] /\ Kept(s, {"phase", "call", "answer"})
           /\ visit'[s].phase = p /\ visit'[s].call = op /\ visit'[s].answer = "none"
           /\ inbox' = [inbox EXCEPT ![s] = @ \cup {op}]
<1>1. visit[s] \in Visit  BY DEF TypeOK
<1>2. [[visit[s] EXCEPT !.phase = p] EXCEPT !.call = op] \in Visit
  BY <1>1, SetPhase, SetCall
<1>3. [visit[s] EXCEPT !.phase = p, !.call = op, !.answer = "none"] \in Visit
  BY <1>2, SetAnswer DEF Answers
<1>4. visit' \in [Visits -> Visit]
  BY <1>3 DEF CallFrom, TypeOK
<1> QED  BY <1>1, <1>4 DEF CallFrom, Send, Kept, TypeOK, Visit

LEMMA ProceedFacts ==
    ASSUME TypeOK, NEW s \in Visits, NEW p \in Phases, Proceed(s, p)
    PROVE  /\ visit' \in [Visits -> Visit] /\ Kept(s, {"phase", "call", "answer"})
           /\ visit'[s].phase = p /\ visit'[s].call = "none" /\ visit'[s].answer = "none"
           /\ inbox' = inbox
<1>1. visit[s] \in Visit  BY DEF TypeOK
<1>2. [[visit[s] EXCEPT !.phase = p] EXCEPT !.call = "none"] \in Visit
  BY <1>1, SetPhase, SetCall
<1>3. [visit[s] EXCEPT !.phase = p, !.call = "none", !.answer = "none"] \in Visit
  BY <1>2, SetAnswer DEF Answers
<1>4. visit' \in [Visits -> Visit]
  BY <1>3 DEF Proceed, TypeOK
<1> QED  BY <1>1, <1>4 DEF Proceed, Kept, TypeOK, Visit

LEMMA GetFacts ==
    ASSUME TypeOK, NEW s \in Visits, GetDocument(s)
    PROVE  /\ visit' \in [Visits -> Visit] /\ Kept(s, {"answer", "basis"})
           /\ visit'[s].answer = IF visit[s].call = "get" /\ visit[s].answer = "none"
                                 THEN "ok" ELSE visit[s].answer
           /\ visit'[s].basis = IF visit[s].call = "get" /\ visit[s].answer = "none"
                                THEN Len(log) ELSE visit[s].basis
           /\ inbox' = [inbox EXCEPT ![s] = @ \ {"get"}]
<1>1. visit[s] \in Visit /\ Len(log) \in Nat  BY DEF TypeOK
<1>2. [[visit[s] EXCEPT !.answer = "ok"] EXCEPT !.basis = Len(log)] \in Visit
  BY <1>1, SetAnswer, SetBasis DEF Answers
<1>3. visit' \in [Visits -> Visit]
  BY <1>2 DEF GetDocument, TypeOK
<1> QED  BY <1>1, <1>3 DEF GetDocument, Kept, TypeOK, Visit

LEMMA EnterFacts ==
    ASSUME TypeOK, NEW s \in Visits, NEW u \in Users, Enter(s, u)
    PROVE  /\ visit' \in [Visits -> Visit] /\ Kept(s, {"user", "phase", "call"})
           /\ visit[s].phase = "away"
           /\ visit'[s].user = u /\ visit'[s].phase = "locking" /\ visit'[s].call = "lock"
           /\ inbox' = [inbox EXCEPT ![s] = @ \cup {"lock"}]
<1>1. visit[s] \in Visit  BY DEF TypeOK
<1>2. [[visit[s] EXCEPT !.user = u] EXCEPT !.phase = "locking"] \in Visit
  BY <1>1, SetUser, SetPhase DEF Phases
<1>3. [visit[s] EXCEPT !.user = u, !.phase = "locking", !.call = "lock"] \in Visit
  BY <1>2, SetCall DEF Calls
<1>4. visit' \in [Visits -> Visit]
  BY <1>3 DEF Enter, TypeOK
<1> QED  BY <1>1, <1>4 DEF Enter, Send, Kept, TypeOK, Visit

LEMMA LeaveFacts ==
    ASSUME TypeOK, NEW s \in Visits, Leave(s)
    PROVE  /\ visit' \in [Visits -> Visit] /\ Kept(s, {"phase", "end"})
           /\ visit'[s].phase = "left" /\ visit'[s].end = End(s)
           /\ End(s) \in {"saving", "clean", "early"}
<1>1. visit[s] \in Visit  BY DEF TypeOK
<1>2. End(s) \in {"saving", "clean", "early"}  BY DEF End
<1> HIDE DEF End
<1>3. [[visit[s] EXCEPT !.phase = "left"] EXCEPT !.end = End(s)] \in Visit
  BY <1>1, <1>2, SetPhase, SetEnd DEF Phases
<1>4. visit' \in [Visits -> Visit]
  BY <1>3 DEF Leave, TypeOK
<1> QED  BY <1>1, <1>2, <1>4 DEF Leave, Kept, TypeOK, Visit

LEMMA GiveUpFacts ==
    ASSUME TypeOK, NEW s \in Visits, GiveUp(s)
    PROVE  /\ visit' \in [Visits -> Visit] /\ Kept(s, {"answer"})
           /\ visit[s].call # "none" /\ visit[s].answer = "none" /\ visit'[s].answer = "failed" /\ inbox' = inbox
<1>1. visit[s] \in Visit /\ [visit[s] EXCEPT !.answer = "failed"] \in Visit
  BY SetAnswer DEF TypeOK, Answers
<1>2. visit' \in [Visits -> Visit]
  BY <1>1 DEF GiveUp, TypeOK
<1> QED  BY <1>1, <1>2 DEF GiveUp, Kept, TypeOK, Visit

LEMMA LoseFacts ==
    ASSUME TypeOK, NEW s \in Visits, NEW op \in Requests, Lose(s, op)
    PROVE  /\ visit' \in [Visits -> Visit] /\ Kept(s, {"end"})
           /\ visit'[s].end = IF op = "save" THEN "lost" ELSE visit[s].end
           /\ op \in inbox[s] /\ inbox' = [inbox EXCEPT ![s] = @ \ {op}]
<1>1. visit[s] \in Visit /\ [visit[s] EXCEPT !.end = "lost"] \in Visit
  BY SetEnd DEF TypeOK
<1>2. visit' \in [Visits -> Visit]
  BY <1>1 DEF Lose, TypeOK
<1> QED  BY <1>1, <1>2 DEF Lose, Kept, TypeOK, Visit

---------------------------------------------------------------------------
(***************************************************************************)
(* The inductive invariant.  Consistent(s) relates what visit s shows to   *)
(* what it has asked for; Standing(s) says that visit s answers for the lock.      *)
(***************************************************************************)
GoneWithLock(s) == visit[s].end \in {"early", "lost"}

Consistent(s) ==
    /\ visit[s].phase = "away" =>
          /\ visit[s].user = Null /\ visit[s].call = "none" /\ visit[s].answer = "none"
          /\ inbox[s] = {}
    /\ visit[s].phase # "away" => visit[s].user \in Users
    /\ visit[s].end # "none" \/ "save" \in inbox[s] => visit[s].phase = "left"
    /\ visit[s].call = "lock" => visit[s].phase \in {"locking", "left"}
    /\ visit[s].call = "get" => visit[s].phase \in {"loading", "left"}
    /\ visit[s].call = "cancel" => visit[s].phase \in {"editing", "left"}
    /\ visit[s].call = "force" => visit[s].phase \in {"blocked", "left"}
    /\ visit[s].phase = "left" /\ visit[s].call \in {"lock", "force"} => GoneWithLock(s)
    /\ "lock" \in inbox[s] =>
          \/ /\ visit[s].phase = "locking" /\ visit[s].call = "lock"
             /\ visit[s].answer \in {"none", "failed"}
          \/ visit[s].phase = "error"
          \/ GoneWithLock(s)

Standing(s) ==
    /\ visit[s].user = lock
    /\ \/ visit[s].phase = "locking" /\ visit[s].answer \in {"ok", "failed"}
       \/ visit[s].phase \in {"loading", "error"}
       \/ visit[s].phase = "editing" /\ ~(visit[s].call = "cancel" /\ visit[s].answer = "ok")
       \/ "save" \in inbox[s]
       \/ GoneWithLock(s)

Inv ==
    /\ TypeOK
    /\ \A s \in Visits : Consistent(s)
    /\ lock # Null => \E s \in Visits : Standing(s)

\* A step of visit s leaves the others alone, and s answers for the lock if the
\* step took it or if s answered for it before.
Sound(s) ==
    /\ TypeOK'
    /\ Consistent(s)'
    /\ \A t \in Visits \ {s} : visit'[t] = visit[t] /\ inbox'[t] = inbox[t]
    /\ lock' # Null => Standing(s)' \/ (lock' = lock /\ ~Standing(s))

LEMMA StartEditSound ==
    ASSUME TypeOK, NEW s \in Visits, Consistent(s), StartEdit(s)  PROVE Sound(s)
<1> DEFINE u == visit[s].user
<1>1. u \in Users
  BY DEF StartEdit, Take, Consistent
<1>2. CASE lock \in {Null, u} /\ Take(s, "lock", "ok") /\ lock' = u /\ UNCHANGED log
  <2>1. "ok" \in Answers  BY DEF Answers
  <2>2. TypeOK'  BY <1>1, <1>2, <2>1, TakeFacts DEF TypeOK
  <2>3. Consistent(s)'
    BY <1>2, <2>1, TakeFacts DEF TypeOK, Kept, Consistent, GoneWithLock, Visit
  <2>4. Standing(s)'
    BY <1>2, <2>1, TakeFacts DEF TypeOK, Kept, Consistent, Standing, GoneWithLock, Visit
  <2> QED  BY <1>2, <2>1, <2>2, <2>3, <2>4, TakeFacts DEF Sound, Kept, TypeOK
<1>3. CASE lock \notin {Null, u} /\ Take(s, "lock", "conflict") /\ UNCHANGED <<lock, log>>
  <2>1. "conflict" \in Answers  BY DEF Answers
  <2>2. TypeOK'  BY <1>3, <2>1, TakeFacts DEF TypeOK
  <2>3. Consistent(s)'
    BY <1>3, <2>1, TakeFacts DEF TypeOK, Kept, Consistent, GoneWithLock, Visit
  <2>4. ~Standing(s)  BY <1>3 DEF Standing
  <2> QED  BY <1>3, <2>1, <2>2, <2>3, <2>4, TakeFacts DEF Sound, Kept, TypeOK
<1> QED  BY <1>2, <1>3 DEF StartEdit

LEMMA GetDocumentSound ==
    ASSUME TypeOK, NEW s \in Visits, Consistent(s), GetDocument(s)  PROVE Sound(s)
<1>1. UNCHANGED <<lock, log>>  BY DEF GetDocument
<1>2. TypeOK'  BY <1>1, GetFacts DEF TypeOK
<1>3. Consistent(s)'
  BY GetFacts DEF TypeOK, Kept, Consistent, GoneWithLock, Visit
<1>4. Standing(s) => Standing(s)'
  BY <1>1, GetFacts DEF TypeOK, Kept, Standing, GoneWithLock, Visit
<1> QED  BY <1>1, <1>2, <1>3, <1>4, GetFacts DEF Sound, Kept, TypeOK

LEMMA SaveSound ==
    ASSUME TypeOK, NEW s \in Visits, Consistent(s), Save(s)  PROVE Sound(s)
<1> DEFINE u == visit[s].user
<1>1. u \in Users /\ visit[s].basis \in Nat /\ Take(s, "save", "ok") /\ "ok" \in Answers
  BY DEF Save, Take, Consistent, TypeOK, Visit, Answers
<1>2. lock' \in Users \cup {Null} /\ log' \in Seq(Versions)
  <2>1. [by |-> u, base |-> visit[s].basis] \in Versions  BY <1>1 DEF Versions
  <2> QED  BY <2>1 DEF Save, TypeOK
<1>3. TypeOK'  BY <1>1, <1>2, TakeFacts DEF TypeOK
<1>4. Consistent(s)'
  BY <1>1, TakeFacts DEF TypeOK, Kept, Consistent, GoneWithLock, Visit
<1>5. lock' = Null \/ (lock' = lock /\ ~Standing(s))
  BY DEF Save, Standing
<1> QED  BY <1>1, <1>3, <1>4, <1>5, TakeFacts DEF Sound, Kept, TypeOK

LEMMA CancelEditSound ==
    ASSUME TypeOK, NEW s \in Visits, Consistent(s), CancelEdit(s)  PROVE Sound(s)
<1>1. PICK a \in {"ok", "conflict"} : Take(s, "cancel", a)
  BY DEF CancelEdit
<1>2. lock' = Null \/ (lock' = lock /\ ~Standing(s))
  BY DEF CancelEdit, Standing
<1>3. a \in Answers /\ UNCHANGED log  BY DEF Answers, CancelEdit
<1>4. TypeOK'  BY <1>1, <1>2, <1>3, TakeFacts DEF TypeOK
<1>5. Consistent(s)'
  BY <1>1, <1>3, TakeFacts DEF TypeOK, Kept, Consistent, GoneWithLock, Visit
<1> QED  BY <1>1, <1>2, <1>3, <1>4, <1>5, TakeFacts DEF Sound, Kept, TypeOK

LEMMA ForceUnlockSound ==
    ASSUME TypeOK, NEW s \in Visits, Consistent(s), ForceUnlock(s)  PROVE Sound(s)
<1>1. Take(s, "force", "ok") /\ "ok" \in Answers /\ lock' = Null /\ UNCHANGED log
  BY DEF ForceUnlock, Answers
<1>2. TypeOK'  BY <1>1, TakeFacts DEF TypeOK
<1>3. Consistent(s)'
  BY <1>1, TakeFacts DEF TypeOK, Kept, Consistent, GoneWithLock, Visit
<1> QED  BY <1>1, <1>2, <1>3, TakeFacts DEF Sound, Kept, TypeOK

LEMMA EnterSound ==
    ASSUME TypeOK, NEW s \in Visits, NEW u \in Users, Consistent(s), Enter(s, u)
    PROVE  Sound(s)
<1>1. UNCHANGED <<lock, log>>  BY DEF Enter
<1>2. TypeOK'  BY <1>1, EnterFacts DEF TypeOK, Calls
<1>3. Consistent(s)'
  <2>1. visit'[s].answer = visit[s].answer /\ visit[s].answer \in Answers
    BY EnterFacts DEF Kept, TypeOK, Visit, Answers
  <2> QED
    BY <2>1, EnterFacts DEF TypeOK, Kept, Consistent, GoneWithLock, Visit
<1>4. lock # Null => ~Standing(s)
  BY EnterFacts DEF Consistent, Standing
<1> QED  BY <1>1, <1>2, <1>3, <1>4, EnterFacts DEF Sound, Kept, TypeOK

\* The steps of a page that waits for an answer: it calls again or goes on.
LEMMA CallSound ==
    ASSUME TypeOK, NEW s \in Visits, NEW p \in Phases, NEW op \in Calls, Consistent(s),
           CallFrom(s, p, op), UNCHANGED <<lock, log>>, visit[s].phase # "away", p # "away",
           visit[s].phase = "left" => p = "left",
           op = "lock" => p = "locking" \/ (p = "left" /\ GoneWithLock(s)),
           op = "get" => p = "loading" /\ "lock" \notin inbox[s],
           op = "cancel" => p = "editing" /\ visit[s].phase = "editing",
           op = "force" => p = "blocked" /\ visit[s].phase = "blocked",
           Standing(s) => GoneWithLock(s) \/ "save" \in inbox[s] \/ p \in {"loading", "editing"}
    PROVE  Sound(s)
<1>1. TypeOK'  BY CallFromFacts DEF TypeOK
<1>2. Consistent(s)'
  BY CallFromFacts DEF Calls, TypeOK, Kept, Consistent, GoneWithLock, Visit
<1>3. Standing(s) => Standing(s)'
  BY CallFromFacts DEF TypeOK, Kept, Standing, GoneWithLock, Visit
<1> QED  BY <1>1, <1>2, <1>3, CallFromFacts DEF Sound, Kept, TypeOK

LEMMA ProceedSound ==
    ASSUME TypeOK, NEW s \in Visits, NEW p \in Phases, Consistent(s), Proceed(s, p),
           UNCHANGED <<lock, log>>, visit[s].phase # "away", p # "away",
           visit[s].phase = "left" => p = "left",
           "lock" \in inbox[s] => p = "error" \/ GoneWithLock(s) \/ visit[s].phase = "error",
           p = visit[s].phase \/ p = "error" \/ visit[s].phase # "error",
           Standing(s) => GoneWithLock(s) \/ "save" \in inbox[s] \/ p \in {"editing", "error"}
    PROVE  Sound(s)
<1>1. TypeOK'  BY ProceedFacts DEF TypeOK
<1>2. Consistent(s)'
  BY ProceedFacts DEF TypeOK, Kept, Consistent, GoneWithLock, Visit
<1>3. Standing(s) => Standing(s)'
  BY ProceedFacts DEF TypeOK, Kept, Standing, GoneWithLock, Visit
<1> QED  BY <1>1, <1>2, <1>3, ProceedFacts DEF Sound, Kept, TypeOK

LEMMA LockAnsweredSound ==
    ASSUME TypeOK, NEW s \in Visits, Consistent(s), LockAnswered(s)  PROVE Sound(s)
<1>1. UNCHANGED <<lock, log>> /\ visit[s].call = "lock" /\ visit[s].answer # "none"
  BY DEF LockAnswered, Answered
<1>2. CASE visit[s].phase = "left" /\ Proceed(s, "left")
  BY <1>1, <1>2, ProceedSound DEF Phases, Consistent, Standing
<1>3. CASE Open(s) /\ visit[s].answer = "ok" /\ CallFrom(s, "loading", "get")
  <2>1. visit[s].phase = "locking"
    BY <1>1, <1>3 DEF Open, Consistent
  <2>2. "lock" \notin inbox[s]
    BY <1>3, <2>1 DEF Consistent, GoneWithLock
  <2> QED  BY <1>1, <1>3, <2>1, <2>2, CallSound DEF Phases, Calls
<1>4. CASE Open(s) /\ visit[s].answer = "conflict" /\ Proceed(s, "blocked")
  BY <1>1, <1>4, ProceedSound DEF Phases, Consistent, Standing, Open
<1>5. CASE Open(s) /\ visit[s].answer = "failed" /\ Proceed(s, "error")
  BY <1>1, <1>5, ProceedSound DEF Phases, Consistent, Standing, Open
<1> QED  BY <1>2, <1>3, <1>4, <1>5 DEF LockAnswered

LEMMA DocumentLoadedSound ==
    ASSUME TypeOK, NEW s \in Visits, Consistent(s), DocumentLoaded(s)  PROVE Sound(s)
<1>1. UNCHANGED <<lock, log>> /\ visit[s].call = "get" /\ visit[s].answer # "none"
  BY DEF DocumentLoaded, Answered
<1>2. CASE visit[s].phase = "left" /\ Proceed(s, "left")
  BY <1>1, <1>2, ProceedSound DEF Phases, Consistent, Standing
<1>3. CASE Open(s) /\ visit[s].answer = "ok" /\ Proceed(s, "editing")
  BY <1>1, <1>3, ProceedSound DEF Phases, Consistent, Standing, Open
<1>4. CASE Open(s) /\ visit[s].answer = "failed" /\ Proceed(s, "error")
  BY <1>1, <1>4, ProceedSound DEF Phases, Consistent, Standing, Open
<1> QED  BY <1>2, <1>3, <1>4 DEF DocumentLoaded

LEMMA CancelSound ==
    ASSUME TypeOK, NEW s \in Visits, Consistent(s), Cancel(s)  PROVE Sound(s)
BY CallSound DEF Cancel, Phases, Calls, Consistent

LEMMA CancelAnsweredSound ==
    ASSUME TypeOK, NEW s \in Visits, Consistent(s), CancelAnswered(s)  PROVE Sound(s)
<1>1. UNCHANGED <<lock, log>> /\ visit[s].call = "cancel" /\ visit[s].answer # "none"
  BY DEF CancelAnswered, Answered
<1>2. CASE visit[s].phase = "left" /\ Proceed(s, "left")
  BY <1>1, <1>2, ProceedSound DEF Phases, Consistent, Standing
<1>3. CASE Open(s) /\ visit[s].answer = "ok" /\ Proceed(s, "released")
  BY <1>1, <1>3, ProceedSound DEF Phases, Consistent, Standing, Open
<1>4. CASE Open(s) /\ visit[s].answer # "ok" /\ Proceed(s, "editing")
  BY <1>1, <1>4, ProceedSound DEF Phases, Consistent, Standing, Open
<1> QED  BY <1>2, <1>3, <1>4 DEF CancelAnswered

LEMMA ForceClickSound ==
    ASSUME TypeOK, NEW s \in Visits, Consistent(s), ForceClick(s)  PROVE Sound(s)
BY CallSound DEF ForceClick, Phases, Calls, Consistent, Standing

LEMMA ForceAnsweredSound ==
    ASSUME TypeOK, NEW s \in Visits, Consistent(s), ForceAnswered(s)  PROVE Sound(s)
<1>1. UNCHANGED <<lock, log>> /\ visit[s].call = "force" /\ visit[s].answer # "none"
  BY DEF ForceAnswered, Answered
<1>2. visit[s].phase \in {"blocked", "left"}
  BY <1>1 DEF Consistent
<1>3. CASE visit[s].answer = "ok" /\ visit[s].phase = "left" /\ CallFrom(s, "left", "lock")
  BY <1>1, <1>3, CallSound DEF Phases, Calls, Consistent
<1>4. CASE visit[s].answer = "ok" /\ Open(s) /\ CallFrom(s, "locking", "lock")
  BY <1>1, <1>2, <1>4, CallSound DEF Phases, Calls, Standing, Open
<1>5. CASE visit[s].answer = "failed" /\ Proceed(s, visit[s].phase)
  BY <1>1, <1>2, <1>5, ProceedSound DEF Phases, Consistent, Standing
<1> QED  BY <1>3, <1>4, <1>5 DEF ForceAnswered

LEMMA LeaveSound ==
    ASSUME TypeOK, NEW s \in Visits, Consistent(s), Leave(s)  PROVE Sound(s)
<1>1. UNCHANGED <<lock, log>> /\ Open(s)  BY DEF Leave
<1>2. inbox' = [inbox EXCEPT ![s] = IF visit[s].phase = "editing" THEN @ \cup {"save"} ELSE @]
  BY DEF Leave, Send, TypeOK
<1>3. TypeOK'
  BY <1>1, <1>2, LeaveFacts DEF TypeOK
<1>4. visit[s].phase \in {"locking", "loading", "error"} \/
      (visit[s].phase = "blocked" /\ visit[s].call # "none") => GoneWithLock(s)'
  BY LeaveFacts DEF End, GoneWithLock
<1>5. Consistent(s)'
  <2>1. visit[s].phase \notin {"away", "left"} /\ visit'[s].phase = "left"
    BY <1>1, LeaveFacts DEF Open
  <2>2. visit'[s].call = visit[s].call /\ visit'[s].user \in Users
    BY <2>1, LeaveFacts DEF Kept, Consistent, TypeOK, Visit
  <2>3. visit[s].call = "lock" \/ visit[s].call = "force" => GoneWithLock(s)'
    BY <1>4, <2>1 DEF Consistent
  <2>4. "lock" \in inbox'[s] => GoneWithLock(s)'
    BY <1>2, <1>4, <2>1 DEF TypeOK, Consistent, GoneWithLock
  <2> QED  BY <2>1, <2>2, <2>3, <2>4 DEF Consistent
<1>6. Standing(s) => Standing(s)'
  BY <1>1, <1>2, <1>4, LeaveFacts DEF Consistent, TypeOK, Kept, Standing, GoneWithLock, Open, Visit
<1> QED  BY <1>1, <1>2, <1>3, <1>5, <1>6, LeaveFacts DEF Sound, Kept, TypeOK

LEMMA GiveUpSound ==
    ASSUME TypeOK, NEW s \in Visits, Consistent(s), GiveUp(s)  PROVE Sound(s)
<1>1. UNCHANGED <<lock, log>>  BY DEF GiveUp
<1>2. TypeOK'  BY <1>1, GiveUpFacts DEF TypeOK
<1>3. Consistent(s)'
  BY GiveUpFacts DEF TypeOK, Kept, Consistent, GoneWithLock, Visit
<1>4. Standing(s) => Standing(s)'
  BY <1>1, GiveUpFacts DEF TypeOK, Kept, Standing, GoneWithLock, Visit
<1> QED  BY <1>1, <1>2, <1>3, <1>4, GiveUpFacts DEF Sound, Kept, TypeOK

LEMMA LoseSound ==
    ASSUME TypeOK, NEW s \in Visits, NEW op \in Requests, Consistent(s), Lose(s, op)  PROVE Sound(s)
<1>1. UNCHANGED <<lock, log>>  BY DEF Lose
<1>2. TypeOK'  BY <1>1, LoseFacts DEF TypeOK
<1>3. Consistent(s)'
  <2>1. op \in inbox[s] /\ inbox'[s] \subseteq inbox[s]
    BY LoseFacts DEF TypeOK
  <2>2. visit[s].phase # "away" /\ (op = "save" => visit[s].phase = "left")
    BY <2>1 DEF Consistent
  <2>3. GoneWithLock(s) => GoneWithLock(s)'
    BY LoseFacts DEF GoneWithLock
  <2>4. visit'[s].end # "none" => visit[s].phase = "left"
    BY <2>2, LoseFacts DEF Consistent
  <2> QED
    BY <2>1, <2>2, <2>3, <2>4, LoseFacts DEF Kept, Consistent, GoneWithLock
<1>4. Standing(s) => Standing(s)'
  BY <1>1, LoseFacts DEF TypeOK, Kept, Standing, GoneWithLock, Visit
<1> QED  BY <1>1, <1>2, <1>3, <1>4, LoseFacts DEF Sound, Kept, TypeOK

LEMMA InvHolds == Inv /\ [Next]_vars => Inv'
<1> SUFFICES ASSUME Inv, [Next]_vars  PROVE Inv'
  OBVIOUS
<1>1. ASSUME NEW s \in Visits, Sound(s)  PROVE Inv'
  <2>1. TypeOK' /\ Consistent(s)'  BY <1>1 DEF Sound
  <2>2. ASSUME NEW t \in Visits, t # s
        PROVE  Consistent(t)' /\ (lock' = lock /\ Standing(t) => Standing(t)')
    <3>1. visit'[t] = visit[t] /\ inbox'[t] = inbox[t]  BY <1>1, <2>2 DEF Sound
    <3> QED  BY <3>1 DEF Inv, Consistent, Standing, GoneWithLock
  <2>3. ASSUME lock' # Null  PROVE \E t \in Visits : Standing(t)'
    <3>1. CASE Standing(s)'  BY <3>1
    <3>2. CASE lock' = lock /\ ~Standing(s)
      <4>1. PICK t \in Visits : Standing(t)  BY <2>3, <3>2 DEF Inv
      <4>2. t # s  BY <3>2, <4>1
      <4> QED  BY <2>2, <3>2, <4>1, <4>2
    <3> QED  BY <1>1, <2>3, <3>1, <3>2 DEF Sound
  <2>4. \A t \in Visits : Consistent(t)'  BY <2>1, <2>2
  <2> QED  BY <2>1, <2>3, <2>4 DEF Inv
<1>2. CASE UNCHANGED vars
  <2>1. lock' = lock /\ log' = log /\ inbox' = inbox /\ visit' = visit  BY <1>2 DEF vars
  <2> QED  BY <2>1 DEF Inv, TypeOK, Consistent, Standing, GoneWithLock
<1>3. ASSUME NEW s \in Visits, Server(s) \/ Page(s) \/ Network(s)  PROVE Inv'
  <2>1. TypeOK /\ Consistent(s)  BY DEF Inv
  <2>2. CASE Server(s)
    BY <1>1, <2>1, <2>2, StartEditSound, GetDocumentSound, SaveSound, CancelEditSound,
       ForceUnlockSound DEF Server
  <2>3. CASE Page(s)
    BY <1>1, <2>1, <2>3, EnterSound, LockAnsweredSound, DocumentLoadedSound, CancelSound,
       CancelAnsweredSound, ForceClickSound, ForceAnsweredSound, LeaveSound DEF Page
  <2>4. CASE Network(s)
    BY <1>1, <2>1, <2>4, GiveUpSound, LoseSound DEF Network, Requests
  <2> QED  BY <1>3, <2>2, <2>3, <2>4
<1> QED  BY <1>2, <1>3 DEF Next

LEMMA InvAlways == Spec => []Inv
<1>1. Init => Inv
  BY DEF Init, Inv, TypeOK, Visit, Calls, Consistent, Versions
<1> QED  BY <1>1, InvHolds, PTL DEF Spec

---------------------------------------------------------------------------
(***************************************************************************)
(* The theorems.                                                           *)
(***************************************************************************)
\* TypeOK for every number of users, visits and tabs.
THEOREM TypeCorrect == Spec => []TypeOK
<1>1. Inv => TypeOK  BY DEF Inv
<1> QED  BY <1>1, InvAlways, PTL

\* A lock nobody stands behind is always the doing of a page left before its
\* editor opened or of a lost exit save: no other path of LockVersionService and
\* useEditSession forgets a lock.
THEOREM OrphansExplained == Spec => []OrphanExplained
<1>1. Inv => OrphanExplained
  <2> SUFFICES ASSUME Inv, lock # Null, \A s \in VisitsOf(lock) : Settled(s)
               PROVE  \E s \in VisitsOf(lock) : visit[s].end \in {"early", "lost"}
    BY DEF OrphanExplained
  <2>1. PICK s \in Visits : Standing(s)  BY DEF Inv
  <2>2. s \in VisitsOf(lock) /\ Settled(s)  BY <2>1 DEF Standing, VisitsOf
  <2>3. GoneWithLock(s)
    BY <2>1, <2>2 DEF Standing, Settled, Open
  <2> QED  BY <2>2, <2>3 DEF GoneWithLock
<1> QED  BY <1>1, InvAlways, PTL

Authors(l) == [i \in DOMAIN l |-> l[i].by]

\* The authors of a log with one more version.
LEMMA AuthorsAppend ==
    ASSUME NEW l \in Seq(Versions), NEW r \in Versions
    PROVE  Authors(Append(l, r)) = Append(Authors(l), r.by)
BY DEF Authors, Versions

\* The server implements LockedLog: whatever the pages do and however their
\* requests are delayed or lost, only the holder appends a version, which gives
\* the lock up, and no version is changed.
THEOREM ImplementsLockedLog == Spec => FollowsLockedLog
<1>1. Init => Promise!Init
  BY DEF Init, Promise!Init
<1>2. Inv /\ [Next]_vars => [Promise!Next]_Promise!vars
  <2> SUFFICES ASSUME Inv, Next  PROVE [Promise!Next]_Promise!vars
    BY DEF vars, Promise!vars
  <2>1. PICK s \in Visits : Server(s) \/ Page(s) \/ Network(s)  BY DEF Next
  <2>2. TypeOK /\ Consistent(s)  BY DEF Inv
  <2>3. CASE UNCHANGED <<lock, log>>
    BY <2>3 DEF Promise!vars
  <2>4. CASE StartEdit(s)
    <3>1. visit[s].user \in Users  BY <2>2, <2>4 DEF StartEdit, Take, Consistent
    <3> QED  BY <2>4, <3>1 DEF StartEdit, Promise!Next, Promise!Acquire, Promise!vars
  <2>5. CASE Save(s)
    <3>1. visit[s].user \in Users /\ visit[s].basis \in Nat
      BY <2>2, <2>5 DEF Save, Take, Consistent, TypeOK, Visit
    <3>2. CASE lock = visit[s].user
      <4> DEFINE r == [by |-> lock, base |-> visit[s].basis]
      <4>1. r \in Versions /\ log \in Seq(Versions)  BY <2>2, <3>1, <3>2 DEF TypeOK, Versions
      <4>2. log' = Append(log, r) /\ lock' = Null  BY <2>5, <3>2 DEF Save
      <4>3. Authors(log)' = Append(Authors(log), lock)
        BY <4>1, <4>2, AuthorsAppend
      <4> QED  BY <3>1, <3>2, <4>2, <4>3 DEF Authors, Promise!Next, Promise!Save
    <3>3. CASE lock # visit[s].user
      BY <2>3, <2>5, <3>3 DEF Save
    <3> QED  BY <3>2, <3>3
  <2>6. CASE CancelEdit(s) \/ ForceUnlock(s)
    BY <2>6 DEF CancelEdit, ForceUnlock, Promise!Next, Promise!Release, Promise!vars
  <2>7. CASE GetDocument(s) \/ Page(s) \/ Network(s)
    <3>1. UNCHANGED <<lock, log>>
      BY <2>7 DEF GetDocument, Page, Network, Enter, LockAnswered, DocumentLoaded, Cancel,
                  CancelAnswered, ForceClick, ForceAnswered, Leave, GiveUp, Lose
    <3> QED  BY <2>3, <3>1
  <2> QED  BY <2>1, <2>4, <2>5, <2>6, <2>7 DEF Server
<1> QED  BY <1>1, <1>2, InvAlways, PTL DEF Spec, FollowsLockedLog, Promise!Spec

---------------------------------------------------------------------------
(***************************************************************************)
(* One page per user.  Of a user who opens it again when the calls of the  *)
(* last are settled at most one visit can still reach the server           *)
(* (OnePage), and the text it edits or saves is that of the newest version *)
(* as long as the user holds the lock (Fresh).                             *)
(***************************************************************************)
OnePage ==
    \A s, t \in Visits :
        s # t /\ visit[s].user = visit[t].user /\ visit[s].user \in Prompt => Settled(s) \/ Settled(t)

Fresh(s) ==
    /\ "save" \in inbox[s] => visit[s].end = "saving"
    /\ /\ lock = visit[s].user
       /\ \/ visit[s].phase = "editing"
          \/ visit[s].phase = "loading" /\ visit[s].call = "get" /\ visit[s].answer = "ok"
          \/ "save" \in inbox[s]
       => visit[s].basis = Len(log)

\* A step of visit s that is not its mount.
Goes(s) ==
    \/ Server(s) \/ LockAnswered(s) \/ DocumentLoaded(s) \/ Cancel(s) \/ CancelAnswered(s)
    \/ ForceClick(s) \/ ForceAnswered(s) \/ Leave(s) \/ Network(s)

LEMMA StepSound ==
    ASSUME TypeOK, NEW s \in Visits, Consistent(s), Server(s) \/ Page(s) \/ Network(s)
    PROVE  Sound(s)
BY StartEditSound, GetDocumentSound, SaveSound, CancelEditSound, ForceUnlockSound, EnterSound,
   LockAnsweredSound, DocumentLoadedSound, CancelSound, CancelAnsweredSound, ForceClickSound,
   ForceAnsweredSound, LeaveSound, GiveUpSound, LoseSound
DEF Server, Page, Network, Requests

LEMMA SettledRests == \A s \in Visits : Goes(s) => ~Settled(s)
BY DEF Goes, Server, StartEdit, GetDocument, Save, CancelEdit, ForceUnlock, Take, LockAnswered,
   DocumentLoaded, Cancel, CancelAnswered, ForceClick, ForceAnswered, Answered, Leave, Network,
   GiveUp, Lose, Settled, Open, Calls

LEMMA UserKept ==
    ASSUME TypeOK, NEW s \in Visits, Goes(s)
    PROVE  visit'[s].user = visit[s].user
<1>1. CASE Server(s)
  <2>1. {"ok", "conflict"} \subseteq Answers  BY DEF Answers
  <2> QED  BY <1>1, <2>1, TakeFacts, GetFacts
           DEF Server, StartEdit, Save, CancelEdit, ForceUnlock, Kept
<1>2. CASE Cancel(s) \/ ForceClick(s) \/ Leave(s) \/ Network(s)
  BY <1>2, CallFromFacts, LeaveFacts, GiveUpFacts, LoseFacts
  DEF Cancel, ForceClick, Network, Requests, Kept, Phases, Calls
<1>3. CASE LockAnswered(s) \/ DocumentLoaded(s) \/ CancelAnswered(s) \/ ForceAnswered(s)
  <2>1. visit[s].phase \in Phases  BY DEF TypeOK, Visit, Phases
  <2> QED
    BY <1>3, <2>1, CallFromFacts, ProceedFacts
    DEF LockAnswered, DocumentLoaded, CancelAnswered, ForceAnswered, Kept, Phases, Calls
<1> QED  BY <1>1, <1>2, <1>3 DEF Goes

\* With one page per user the page is opened when the user has no other one open.
LEMMA NobodyOpen ==
    ASSUME Tabs = 1, NEW s \in Visits, NEW u \in Users, Enter(s, u)
    PROVE  \A t \in VisitsOf(u) : ~Open(t)
<1> DEFINE O == {t \in VisitsOf(u) : Open(t)}
<1>1. IsFiniteSet(O)  BY VisitsAssumption, FS_Subset DEF VisitsOf
<1>2. Cardinality(O) = 0
  <2>1. Cardinality(O) \in Nat /\ Cardinality(O) < 1
    BY <1>1, FS_CardinalityType DEF Enter
  <2> QED  BY <2>1
<1>3. O = {}  BY <1>1, <1>2, FS_EmptySet
<1> QED  BY <1>3

LEMMA NobodyElse ==
    ASSUME Tabs = 1, NEW s \in Visits, NEW u \in Prompt, Enter(s, u)
    PROVE  \A t \in VisitsOf(u) : Settled(t)
BY NobodyOpen, UsersAssumption DEF Enter

\* Only a mount opens a page.
LEMMA ClosedStays ==
    ASSUME TypeOK, NEW s \in Visits, Consistent(s), Goes(s), ~Open(s)
    PROVE  ~Open(s)'
<1>0. visit[s].phase = "left" /\ "left" \in Phases
  BY SettledRests DEF Open, Consistent, Settled, Phases
<1>1. CASE Server(s)
  <2>1. {"ok", "conflict"} \subseteq Answers  BY DEF Answers
  <2>2. visit'[s].phase = visit[s].phase
    BY <1>1, <2>1, TakeFacts, GetFacts
    DEF Server, StartEdit, Save, CancelEdit, ForceUnlock, Kept
  <2> QED  BY <1>0, <2>2 DEF Open
<1>2. CASE Cancel(s) \/ ForceClick(s) \/ Leave(s)
  BY <1>0, <1>2 DEF Cancel, ForceClick, Leave, Open
<1>3. CASE Network(s)
  BY <1>0, <1>3, GiveUpFacts, LoseFacts DEF Network, Requests, Kept, Open
<1>4. CASE LockAnswered(s) \/ DocumentLoaded(s) \/ CancelAnswered(s)
  BY <1>0, <1>4, ProceedFacts DEF LockAnswered, DocumentLoaded, CancelAnswered, Open
<1>5. CASE ForceAnswered(s)
  BY <1>0, <1>5, CallFromFacts, ProceedFacts DEF ForceAnswered, Open, Calls
<1> QED  BY <1>1, <1>2, <1>3, <1>4, <1>5 DEF Goes

\* With one page per user at most one visit of each is open, however early users return.
OneOpen ==
    \A s, t \in Visits : s # t /\ visit[s].user = visit[t].user => ~Open(s) \/ ~Open(t)

LEMMA OneOpenStep ==
    ASSUME Tabs = 1, Inv, OneOpen, [Next]_vars
    PROVE  OneOpen'
<1>1. CASE UNCHANGED vars
  BY <1>1 DEF vars, OneOpen, Open
<1>2. ASSUME NEW s \in Visits, Server(s) \/ Page(s) \/ Network(s)
      PROVE  OneOpen'
  <2>1. \A t \in Visits \ {s} : visit'[t] = visit[t]
    BY <1>2, StepSound DEF Inv, Sound
  <2>2. \A t \in Visits \ {s} : Open(t)' = Open(t)
    BY <2>1 DEF Open
  <2>3. ASSUME NEW t \in Visits \ {s}, visit'[t].user = visit'[s].user, Open(s)'
        PROVE  ~Open(t)
    <3>1. CASE Goes(s)
      <4>1. visit[t].user = visit[s].user  BY <2>1, <2>3, <3>1, UserKept DEF Inv
      <4>2. Open(s)  BY <2>3, <3>1, ClosedStays DEF Inv
      <4> QED  BY <4>1, <4>2 DEF OneOpen
    <3>2. CASE \E u \in Users : Enter(s, u)
      <4>1. PICK u \in Users : Enter(s, u)  BY <3>2
      <4>2. visit'[s].user = u  BY <4>1, EnterFacts DEF Inv
      <4>3. t \in VisitsOf(u)  BY <2>1, <2>3, <4>2 DEF VisitsOf
      <4> QED  BY <4>1, <4>3, NobodyOpen
    <3> QED  BY <1>2, <3>1, <3>2 DEF Page, Goes
  <2> QED  BY <2>1, <2>2, <2>3 DEF OneOpen
<1> QED  BY <1>1, <1>2 DEF Next

LEMMA OnePageStep ==
    ASSUME Tabs = 1, Inv, OnePage, [Next]_vars
    PROVE  OnePage'
<1>1. CASE UNCHANGED vars
  BY <1>1 DEF vars, OnePage, Settled, Open
<1>2. ASSUME NEW s \in Visits, Server(s) \/ Page(s) \/ Network(s)
      PROVE  OnePage'
  <2>1. \A t \in Visits \ {s} : visit'[t] = visit[t] /\ inbox'[t] = inbox[t]
    BY <1>2, StepSound DEF Inv, Sound
  <2>2. \A t \in Visits \ {s} : Settled(t)' = Settled(t)
    BY <2>1 DEF Settled, Open
  <2>3. ASSUME NEW t \in Visits \ {s}, visit'[t].user = visit'[s].user, visit'[s].user \in Prompt
        PROVE  Settled(t)
    <3>1. CASE Goes(s)
      <4>1. visit[t].user = visit[s].user /\ visit[s].user \in Prompt
        BY <2>1, <2>3, <3>1, UserKept DEF Inv
      <4> QED  BY <3>1, <4>1, SettledRests DEF OnePage
    <3>2. CASE \E u \in Users : Enter(s, u)
      <4>1. PICK u \in Users : Enter(s, u)  BY <3>2
      <4>2. visit'[s].user = u  BY <4>1, EnterFacts DEF Inv
      <4>3. t \in VisitsOf(u) /\ u \in Prompt  BY <2>1, <2>3, <4>2 DEF VisitsOf
      <4> QED  BY <4>1, <4>3, NobodyElse
    <3> QED  BY <1>2, <3>1, <3>2 DEF Page, Goes
  <2> QED  BY <2>1, <2>2, <2>3 DEF OnePage
<1> QED  BY <1>1, <1>2 DEF Next

LEMMA FreshServer ==
    ASSUME TypeOK, NEW s \in Visits, Consistent(s), Fresh(s), Server(s)
    PROVE  Fresh(s)'
<1>0. visit[s].user # Null /\ "ok" \in Answers /\ "conflict" \in Answers
  BY UsersAssumption DEF Server, StartEdit, GetDocument, Save, CancelEdit, ForceUnlock, Take,
                         Consistent, Answers
<1>1. CASE StartEdit(s)
  <2>1. PICK a \in Answers : Take(s, "lock", a)  BY <1>0, <1>1 DEF StartEdit
  <2>2. visit[s].phase \in {"locking", "error"} \/ GoneWithLock(s)
    BY <2>1, TakeFacts DEF Consistent
  <2>3. "save" \notin inbox'[s]
    BY <2>1, <2>2, TakeFacts DEF Consistent, Fresh, GoneWithLock, TypeOK
  <2>4. visit'[s].phase \notin {"loading", "editing"}
    BY <2>1, <2>2, TakeFacts DEF Consistent, GoneWithLock, Kept
  <2> QED  BY <2>3, <2>4 DEF Fresh
<1>2. CASE GetDocument(s)
  BY <1>2, GetFacts DEF GetDocument, Fresh, Kept, TypeOK
<1>3. CASE Save(s)
  <2>1. Take(s, "save", "ok")  BY <1>3 DEF Save
  <2>2. visit[s].call # "save"  BY DEF TypeOK, Visit, Calls
  <2>3. lock' = Null \/ (lock' = lock /\ log' = log)  BY <1>3 DEF Save
  <2> QED  BY <1>0, <2>1, <2>2, <2>3, TakeFacts DEF Fresh, Kept, TypeOK
<1>4. CASE CancelEdit(s) \/ ForceUnlock(s)
  <2>1. PICK op \in {"cancel", "force"}, a \in Answers : Take(s, op, a)
    BY <1>0, <1>4 DEF CancelEdit, ForceUnlock
  <2>2. log' = log /\ (lock' = Null \/ lock' = lock)
    BY <1>4 DEF CancelEdit, ForceUnlock
  <2> QED  BY <1>0, <2>1, <2>2, TakeFacts DEF Fresh, Kept, TypeOK
<1> QED  BY <1>1, <1>2, <1>3, <1>4 DEF Server

LEMMA FreshPage ==
    ASSUME TypeOK, NEW s \in Visits, Consistent(s), Fresh(s), Page(s) \/ Network(s)
    PROVE  Fresh(s)'
<1>0. visit[s].phase \in Phases  BY DEF TypeOK, Visit, Phases
<1>1. lock' = lock /\ log' = log
  BY DEF Page, Network, Enter, LockAnswered, DocumentLoaded, Cancel, CancelAnswered, ForceClick,
         ForceAnswered, Leave, GiveUp, Lose
<1>2. CASE \E u \in Users : Enter(s, u)
  BY <1>2, EnterFacts DEF Consistent, Fresh, TypeOK
\* A call starts, or the page goes on, with the text it had.
<1>3. ASSUME NEW p \in Phases, NEW op \in Calls, CallFrom(s, p, op),
             p = "editing" => visit[s].phase = "editing"
      PROVE  Fresh(s)'
  BY <1>1, <1>3, CallFromFacts DEF Fresh, Kept, TypeOK, Calls
<1>4. ASSUME NEW p \in Phases, Proceed(s, p),
             p = "editing" => \/ visit[s].phase = "editing"
                              \/ visit[s].phase = "loading" /\ visit[s].call = "get" /\ visit[s].answer = "ok"
      PROVE  Fresh(s)'
  BY <1>1, <1>4, ProceedFacts DEF Fresh, Kept, TypeOK
<1>5. CASE LockAnswered(s) \/ ForceAnswered(s)
  <2>1. CASE LockAnswered(s)
    BY <1>3, <1>4, <2>1 DEF LockAnswered, Phases, Calls
  <2>2. CASE ForceAnswered(s)
    BY <1>0, <1>3, <1>4, <2>2 DEF ForceAnswered, Phases, Calls
  <2> QED  BY <1>5, <2>1, <2>2
<1>6. CASE DocumentLoaded(s) \/ CancelAnswered(s)
  <2>1. CASE DocumentLoaded(s)
    <3>1. Open(s) => visit[s].phase = "loading"
      BY <2>1 DEF DocumentLoaded, Answered, Open, Consistent
    <3> QED  BY <1>4, <2>1, <3>1 DEF DocumentLoaded, Answered, Phases
  <2>2. CASE CancelAnswered(s)
    <3>1. Open(s) => visit[s].phase = "editing"
      BY <2>2 DEF CancelAnswered, Answered, Open, Consistent
    <3> QED  BY <1>4, <2>2, <3>1 DEF CancelAnswered, Phases
  <2> QED  BY <1>6, <2>1, <2>2
<1>7. CASE Cancel(s) \/ ForceClick(s)
  BY <1>3, <1>7 DEF Cancel, ForceClick, Phases, Calls
<1>8. CASE Leave(s)
  <2>1. visit[s].phase # "editing" => inbox' = inbox /\ "save" \notin inbox[s]
    BY <1>8 DEF Leave, Consistent, Open
  <2>2. visit[s].phase = "editing" => End(s) = "saving"
    BY DEF End
  <2> HIDE DEF End
  <2> QED  BY <1>1, <1>8, <2>1, <2>2, LeaveFacts DEF Fresh, Kept
<1>9. CASE Network(s)
  <2>1. CASE GiveUp(s)
    BY <1>1, <2>1, GiveUpFacts DEF Fresh, Kept
  <2>2. ASSUME NEW op \in Requests, Lose(s, op)  PROVE Fresh(s)'
    BY <1>1, <2>2, LoseFacts DEF Fresh, Kept, TypeOK
  <2> QED  BY <1>9, <2>1, <2>2 DEF Network, Requests
<1> QED  BY <1>2, <1>5, <1>6, <1>7, <1>8, <1>9 DEF Page

\* Whoever changes the lock or the log leaves no other visit of a user with a
\* text to save.
LEMMA FreshOther ==
    ASSUME Inv, OnePage, NEW s \in Visits, Server(s) \/ Page(s) \/ Network(s),
           NEW t \in Visits, t # s, visit[t].user \in Prompt, Fresh(t)
    PROVE  Fresh(t)'
<1>1. visit'[t] = visit[t] /\ inbox'[t] = inbox[t]
  BY StepSound DEF Inv, Sound
<1>2. Consistent(t) /\ Consistent(s)  BY DEF Inv
<1>3. CASE lock' = lock /\ log' = log
  BY <1>1, <1>3 DEF Fresh
<1>4. CASE lock' = Null
  BY <1>1, <1>2, <1>4, UsersAssumption DEF Fresh, Consistent
<1>5. CASE StartEdit(s) /\ lock' = visit[s].user
  <2>1. CASE visit[t].user = visit[s].user
    <3>1. ~Settled(s)  BY <1>5 DEF StartEdit, Take, Settled
    <3>2. Settled(t)  BY <2>1, <3>1 DEF OnePage
    <3> QED  BY <1>1, <3>2 DEF Settled, Open, Fresh
  <2>2. CASE visit[t].user # visit[s].user
    BY <1>1, <1>5, <2>2 DEF Fresh
  <2> QED  BY <2>1, <2>2
<1>6. lock' = Null \/ (lock' = lock /\ log' = log) \/ (StartEdit(s) /\ lock' = visit[s].user)
  BY DEF Server, StartEdit, GetDocument, Save, CancelEdit, ForceUnlock,
         Page, Network, Enter, LockAnswered, DocumentLoaded, Cancel, CancelAnswered, ForceClick,
         ForceAnswered, Leave, GiveUp, Lose
<1> QED  BY <1>3, <1>4, <1>5, <1>6

AllFresh == \A s \in Visits : visit[s].user \in Prompt => Fresh(s)

\* A user who waits appends a version by a fresh save only.
LEMMA AppendsFresh ==
    ASSUME Inv, AllFresh, NoLostUpdate, [Next]_vars
    PROVE  NoLostUpdate'
<1>1. CASE log' = log
  BY <1>1 DEF NoLostUpdate
<1>2. ASSUME NEW s \in Visits, Save(s), log' # log
      PROVE  NoLostUpdate'
  <2> DEFINE r == [by |-> visit[s].user, base |-> visit[s].basis]
  <2>1. log' = Append(log, r) /\ (visit[s].user \in Prompt => visit[s].basis = Len(log))
    BY <1>2 DEF Save, Take, Fresh, AllFresh
  <2>2. r \in Versions /\ log \in Seq(Versions)
    BY <1>2 DEF Inv, TypeOK, Visit, Versions, Save, Take, Consistent
  <2>3. Len(log') = Len(log) + 1 /\ Len(log) \in Nat
    BY <2>1, <2>2
  <2>4. ASSUME NEW i \in 1..Len(log'), log'[i].by \in Prompt  PROVE log'[i].base = i - 1
    <3>1. CASE i = Len(log) + 1  BY <2>1, <2>2, <2>4, <3>1
    <3>2. CASE i \in 1..Len(log)
      <4>1. log'[i] = log[i]  BY <2>1, <2>2, <3>2
      <4> QED  BY <2>4, <3>2, <4>1 DEF NoLostUpdate
    <3> QED  BY <2>3, <3>1, <3>2
  <2> QED  BY <2>4 DEF NoLostUpdate
<1> QED
  BY <1>1, <1>2
  DEF Next, Server, StartEdit, GetDocument, CancelEdit, ForceUnlock, Page, Network, Enter,
      LockAnswered, DocumentLoaded, Cancel, CancelAnswered, ForceClick, ForceAnswered, Leave,
      GiveUp, Lose, vars

LEMMA FreshStep ==
    ASSUME Inv, OnePage, AllFresh, [Next]_vars
    PROVE  AllFresh'
<1>1. CASE UNCHANGED vars
  BY <1>1 DEF vars, AllFresh, Fresh
<1>2. ASSUME NEW s \in Visits, Server(s) \/ Page(s) \/ Network(s),
             NEW t \in Visits, visit'[t].user \in Prompt
      PROVE  Fresh(t)'
  <2>1. CASE t # s
    <3>1. visit'[t] = visit[t]  BY <1>2, <2>1, StepSound DEF Inv, Sound
    <3> QED  BY <1>2, <2>1, <3>1, FreshOther DEF AllFresh
  <2>2. CASE t = s /\ Goes(s)
    <3>1. visit[s].user \in Prompt  BY <1>2, <2>2, UserKept DEF Inv
    <3> QED  BY <1>2, <2>2, <3>1, FreshServer, FreshPage DEF Inv, AllFresh
  <2>3. ASSUME NEW u \in Users, Enter(s, u) PROVE Fresh(s)'
    BY <2>3, EnterFacts DEF Inv, Consistent, Fresh, TypeOK
  <2> QED  BY <1>2, <2>1, <2>2, <2>3 DEF Page, Goes
<1> QED  BY <1>1, <1>2 DEF Next, AllFresh

PageInv == Inv /\ OnePage /\ AllFresh

LEMMA OnePageAlways ==
    ASSUME Tabs = 1
    PROVE  Spec => []PageInv
<1>1. Init /\ Inv => PageInv
  BY DEF Init, PageInv, OnePage, AllFresh, Settled, Open, Fresh
<1>2. PageInv /\ Inv' /\ [Next]_vars => PageInv'
  BY OnePageStep, FreshStep DEF PageInv
<1> QED  BY <1>1, <1>2, InvAlways, PTL DEF Spec

\* With one page per user no save of a user who opens it again when the earlier calls
\* are settled overwrites a version its editor had not read: forced unlocks, broken
\* connections and whatever the other users do notwithstanding.
THEOREM NoUpdateLost ==
    ASSUME Tabs = 1
    PROVE  Spec => []NoLostUpdate
<1>1. Init => NoLostUpdate
  BY DEF Init, NoLostUpdate
<1>2. PageInv /\ NoLostUpdate /\ [Next]_vars => NoLostUpdate'
  BY AppendsFresh DEF PageInv
<1> QED  BY <1>1, <1>2, OnePageAlways, PTL DEF Spec

\* What is known of the pages of one user, by how many they open and when they return.
OwnPages == Tabs = 1 => OneOpen /\ OnePage

LEMMA OwnPagesAlways == Spec => []OwnPages
<1>1. Init => OwnPages
  BY DEF Init, OwnPages, OneOpen, OnePage, Settled, Open
<1>2. Inv /\ OwnPages /\ [Next]_vars => OwnPages'
  BY OneOpenStep, OnePageStep, TabsAssumption DEF OwnPages
<1> QED  BY <1>1, <1>2, InvAlways, PTL DEF Spec

\* However many pages users open and however early they return: an open editor
\* loses its lock to its own cancel, to a forced unlock, or to a request of another
\* page of its user.  With one page per user that page has been closed, and if the
\* user waits for its calls there is no such request.
THEOREM LockKept == Spec => LockKeptWhileEditing
<1>1. ASSUME Inv, OwnPages, Next, NEW s \in Visits,
             visit[s].phase = "editing", visit'[s].phase = "editing",
             lock = visit[s].user, lock' # lock,
             ~CancelEdit(s), \A t \in Visits : ~ForceUnlock(t)
      PROVE  \E t \in VisitsOf(visit[s].user) \ {s} : UnlockedFrom(t)
  <2>1. lock # Null  BY <1>1, UsersAssumption DEF Inv, Consistent
  <2>2. PICK t \in Visits : StartEdit(t) \/ Save(t) \/ CancelEdit(t)
    BY <1>1
    DEF Next, Server, GetDocument, Page, Network, Enter, LockAnswered, DocumentLoaded, Cancel,
        CancelAnswered, ForceClick, ForceAnswered, Leave, GiveUp, Lose
  <2>3. CASE StartEdit(t)
    BY <1>1, <2>1, <2>3 DEF StartEdit
  <2>4. CASE Save(t) \/ CancelEdit(t)
    <3>1. lock = visit[t].user /\ inbox[t] # {}
      BY <1>1, <2>1, <2>4 DEF Save, CancelEdit, Take
    <3>2. ~Save(s)  BY <1>1 DEF Save, Take, Inv, Consistent
    <3>3. t # s  BY <1>1, <2>4, <3>2
    <3>4. ASSUME Tabs = 1 PROVE visit[t].phase = "left" /\ visit[t].user \notin Prompt
      <4>1. Open(s) /\ ~Settled(s) /\ ~Settled(t)  BY <1>1, <3>1 DEF Open, Settled
      <4>2. ~Open(t)  BY <1>1, <3>1, <3>3, <3>4, <4>1 DEF OwnPages, OneOpen
      <4>3. visit[t].phase # "away"  BY <1>1, <3>1 DEF Inv, Consistent
      <4>4. visit[t].user \notin Prompt  BY <1>1, <3>1, <3>3, <3>4, <4>1 DEF OwnPages, OnePage
      <4> QED  BY <4>2, <4>3, <4>4 DEF Open
    <3> QED  BY <1>1, <2>4, <3>1, <3>3, <3>4 DEF UnlockedFrom, VisitsOf
  <2> QED  BY <2>2, <2>3, <2>4
<1>2. Inv /\ OwnPages /\ [Next]_vars =>
        [\A s \in Visits :
            /\ visit[s].phase = "editing" /\ visit'[s].phase = "editing"
            /\ lock = visit[s].user /\ lock' # lock
            => \/ CancelEdit(s)
               \/ \E t \in Visits : ForceUnlock(t)
               \/ \E t \in VisitsOf(visit[s].user) \ {s} : UnlockedFrom(t)]_vars
  BY <1>1
<1> QED  BY <1>2, InvAlways, OwnPagesAlways, PTL DEF Spec, LockKeptWhileEditing

---------------------------------------------------------------------------
(***************************************************************************)
(* Uploads.  Marks(s) says of the text of visit s what the uploads under   *)
(* way and the state of its page account for.                              *)
(***************************************************************************)
Distinct(t) == \A i, j \in DOMAIN t : t[i] = t[j] => i = j

LEMMA EmptyText == \A t \in Seq(Nat) : Range(t) \subseteq {} => t = <<>>
<1> SUFFICES ASSUME NEW t \in Seq(Nat), Range(t) \subseteq {}  PROVE t = <<>>
  OBVIOUS
<1>1. CASE Len(t) = 0  BY <1>1, EmptySeq
<1>2. CASE Len(t) # 0
  <2>1. 1 \in DOMAIN t  BY <1>2, LenProperties
  <2> QED  BY <2>1 DEF Range
<1> QED  BY <1>1, <1>2

\* A new placeholder joins those of the text.
LEMMA InsertedFacts ==
    ASSUME NEW t \in Seq(Nat), NEW n \in Nat, n \notin Range(t), Distinct(t),
           NEW r \in Inserted(t, n)
    PROVE  r \in Seq(Nat) /\ Range(r) \subseteq Range(t) \cup {n} /\ Distinct(r)
<1>1. PICK at \in 1..(Len(t) + 1) : r = InsertAt(t, at, n)  BY DEF Inserted
<1> DEFINE a == SubSeq(t, 1, at - 1)
           b == SubSeq(t, at, Len(t))
<1>2. Len(t) \in Nat /\ DOMAIN t = 1..Len(t) /\ \A i \in 1..Len(t) : t[i] \in Nat
  BY LenProperties
<1>3. /\ a \in Seq(Nat) /\ Len(a) = at - 1 /\ \A i \in 1..(at - 1) : a[i] = t[i]
  BY <1>2, SubSeqProperties, 1 \in Int, at - 1 \in Int
<1>4. /\ b \in Seq(Nat) /\ Len(b) = Len(t) - at + 1
      /\ \A i \in 1..(Len(t) - at + 1) : b[i] = t[at + i - 1]
  BY <1>2, SubSeqProperties
<1>5. r = a \o <<n>> \o b  BY <1>1 DEF InsertAt
<1> HIDE DEF a, b
<1>6. /\ a \o <<n>> \in Seq(Nat) /\ Len(a \o <<n>>) = at
      /\ \A i \in 1..at : (a \o <<n>>)[i] = IF i < at THEN t[i] ELSE n
  BY <1>3, ConcatProperties
<1>7. /\ r \in Seq(Nat) /\ Len(r) = Len(t) + 1
      /\ \A i \in 1..(Len(t) + 1) :
            (i < at => r[i] = t[i]) /\ (i = at => r[i] = n) /\ (i > at => r[i] = t[i - 1])
  <2> DEFINE c == a \o <<n>>
  <2> HIDE DEF c
  <2>1. c \in Seq(Nat) /\ Len(c) = at /\ \A i \in 1..at : c[i] = IF i < at THEN t[i] ELSE n
    BY <1>6 DEF c
  <2>2. r = c \o b  BY <1>5 DEF c
  <2>3. /\ r \in Seq(Nat) /\ Len(r) = Len(c) + Len(b)
        /\ \A i \in 1..(Len(c) + Len(b)) : r[i] = IF i <= Len(c) THEN c[i] ELSE b[i - Len(c)]
    BY <1>4, <2>1, <2>2, ConcatProperties
  <2>4. Len(c) + Len(b) = Len(t) + 1  BY <1>2, <1>4, <2>1
  <2>5. ASSUME NEW i \in 1..(Len(t) + 1), i > at  PROVE r[i] = t[i - 1]
    <3>1. i - at \in 1..(Len(t) - at + 1) /\ at + (i - at) - 1 = i - 1  BY <1>2, <2>5
    <3>2. i \in Int /\ i \in 1..(Len(c) + Len(b)) /\ ~(i <= Len(c)) /\ Len(c) = at
      BY <1>2, <2>1, <2>4, <2>5
    <3>3. r[i] = b[i - at]  BY <2>3, <3>2
    <3> QED  BY <1>4, <3>1, <3>3
  <2>6. ASSUME NEW i \in 1..(Len(t) + 1), i <= at  PROVE r[i] = IF i < at THEN t[i] ELSE n
    BY <2>1, <2>3, <2>4, <2>6
  <2> QED  BY <2>3, <2>4, <2>5, <2>6
<1>8. DOMAIN r = 1..(Len(t) + 1)  BY <1>7, LenProperties
<1> HIDE DEF Inserted
<1>9. ASSUME NEW i \in DOMAIN r  PROVE r[i] = n \/ \E j \in DOMAIN t : r[i] = t[j]
  <2>1. i \in 1..(Len(t) + 1)  BY <1>8
  <2>2. CASE i < at  BY <1>2, <1>7, <2>1, <2>2
  <2>3. CASE i > at
    <3>1. i - 1 \in DOMAIN t /\ r[i] = t[i - 1]  BY <1>2, <1>7, <2>1, <2>3
    <3> QED  BY <3>1
  <2> QED  BY <1>7, <2>1, <2>2, <2>3
<1>10. ASSUME NEW i \in DOMAIN r, NEW j \in DOMAIN r, r[i] = r[j]  PROVE i = j
  <2>1. \A k \in 1..Len(t) : t[k] # n  BY <1>2 DEF Range
  <2>2. \A k, l \in 1..Len(t) : t[k] = t[l] => k = l  BY <1>2 DEF Distinct
  <2>3. i \in 1..(Len(t) + 1) /\ j \in 1..(Len(t) + 1)  BY <1>8
  <2> DEFINE back(k) == IF k < at THEN k ELSE k - 1
  <2>4. \A k \in 1..(Len(t) + 1) : k # at => back(k) \in 1..Len(t) /\ r[k] = t[back(k)]
    BY <1>2, <1>7
  <2> HIDE DEF back
  <2>5. i = at <=> j = at
    <3>1. at \in 1..(Len(t) + 1) /\ r[at] = n  BY <1>2, <1>7
    <3>2. \A k \in 1..(Len(t) + 1) : k # at => r[k] # n  BY <2>1, <2>4
    <3> QED  BY <1>10, <2>3, <3>1, <3>2
  <2>6. i # at /\ j # at => back(i) = back(j)
    BY <1>10, <2>2, <2>3, <2>4
  <2> QED  BY <1>2, <2>3, <2>5, <2>6 DEF back
<1> QED  BY <1>7, <1>9, <1>10 DEF Range, Distinct

\* A placeholder that is replaced is gone, and no other is.
LEMMA ReplacedFacts ==
    ASSUME NEW t \in Seq(Nat), NEW n \in Nat, Distinct(t)
    PROVE  /\ Replaced(t, n) \in Seq(Nat) /\ Distinct(Replaced(t, n))
           /\ Range(Replaced(t, n)) \subseteq Range(t) \ {n}
           /\ t = <<>> => Replaced(t, n) = <<>>
<1>1. Len(t) \in Nat /\ DOMAIN t = 1..Len(t) /\ \A i \in 1..Len(t) : t[i] \in Nat
  BY LenProperties
<1>2. CASE Located(t, n) = {}
  <2>1. \A i \in DOMAIN t : t[i] # n
    BY <1>1, <1>2 DEF Located, Distinct
  <2> QED  BY <1>2, <2>1 DEF Replaced, Range
<1>3. CASE Located(t, n) # {}
  <2> DEFINE at == CHOOSE i \in Located(t, n) : TRUE
             a == SubSeq(t, 1, at - 1)
             b == SubSeq(t, at + 1, Len(t))
  <2>1. at \in 1..Len(t) /\ t[at] = n  BY <1>1, <1>3 DEF Located
  <2>2. Replaced(t, n) = a \o b  BY <1>3 DEF Replaced, RemoveAt
  <2> HIDE DEF at
  <2>3. a \in Seq(Nat) /\ Len(a) = at - 1 /\ \A i \in 1..(at - 1) : a[i] = t[i]
    BY <1>1, <2>1, SubSeqProperties, 1 \in Int, at - 1 \in Int
  <2>4. /\ b \in Seq(Nat) /\ Len(b) = Len(t) - at
        /\ \A i \in 1..(Len(t) - at) : b[i] = t[at + i]
    <3>1. /\ at + 1 \in Int /\ Len(t) \in Int /\ Len(t) - (at + 1) + 1 = Len(t) - at
          /\ \A i \in (at + 1)..Len(t) : t[i] \in Nat
      BY <1>1, <2>1
    <3>2. /\ b \in Seq(Nat)
          /\ Len(b) = IF at + 1 <= Len(t) THEN Len(t) - (at + 1) + 1 ELSE 0
          /\ \A i \in 1..(Len(t) - (at + 1) + 1) : b[i] = t[at + 1 + i - 1]
      BY <3>1, SubSeqProperties
    <3> HIDE DEF b
    <3>3. \A i \in 1..(Len(t) - at) : at + 1 + i - 1 = at + i  BY <1>1, <2>1
    <3>4. Len(b) = Len(t) - at
      <4>1. at \in Int /\ at >= 1 /\ at <= Len(t) /\ Len(t) \in Int  BY <1>1, <2>1
      <4>2. CASE at + 1 <= Len(t)  BY <3>1, <3>2, <4>1, <4>2
      <4>3. CASE ~(at + 1 <= Len(t))
        <5>1. Len(b) = 0  BY <3>2, <4>3
        <5> QED  BY <4>1, <4>3, <5>1
      <4> QED  BY <4>2, <4>3
    <3>5. ASSUME NEW i \in 1..(Len(t) - at)  PROVE b[i] = t[at + i]
      <4>1. i \in 1..(Len(t) - (at + 1) + 1)  BY <3>1
      <4>2. \A k \in 1..(Len(t) - (at + 1) + 1) : b[k] = t[at + 1 + k - 1]  BY <3>2
      <4>3. b[i] = t[at + 1 + i - 1]  BY <4>1, <4>2
      <4> QED  BY <3>3, <4>3
    <3> QED  BY <3>2, <3>4, <3>5
  <2> HIDE DEF a, b
  <2> DEFINE r == Replaced(t, n)
  <2> HIDE DEF r
  <2> DEFINE old(k) == IF k < at THEN k ELSE k + 1
  <2>5. r \in Seq(Nat) /\ DOMAIN r = 1..(Len(t) - 1)
    <3>1. r = a \o b  BY <2>2 DEF r
    <3>2. r \in Seq(Nat) /\ Len(r) = Len(a) + Len(b)  BY <2>3, <2>4, <3>1, ConcatProperties
    <3>3. Len(a) + Len(b) = Len(t) - 1  BY <1>1, <2>1, <2>3, <2>4
    <3> QED  BY <3>2, <3>3, LenProperties
  <2>6. ASSUME NEW k \in 1..(Len(t) - 1)
        PROVE  old(k) \in 1..Len(t) /\ old(k) # at /\ r[k] = t[old(k)]
    <3>1. r = a \o b  BY <2>2 DEF r
    <3>2. \A i \in 1..(Len(a) + Len(b)) : r[i] = IF i <= Len(a) THEN a[i] ELSE b[i - Len(a)]
      BY <2>3, <2>4, <3>1, ConcatProperties
    <3>3. Len(a) + Len(b) = Len(t) - 1  BY <1>1, <2>1, <2>3, <2>4
    <3>4. r[k] = IF k <= at - 1 THEN a[k] ELSE b[k - (at - 1)]
      BY <2>3, <2>6, <3>2, <3>3
    <3>5. CASE k < at  BY <1>1, <2>1, <2>3, <2>6, <3>4, <3>5
    <3>6. CASE k >= at
      <4>1. k - (at - 1) \in 1..(Len(t) - at) /\ at + (k - (at - 1)) = k + 1
        BY <1>1, <2>1, <2>6, <3>6
      <4>2. r[k] = t[k + 1]  BY <2>1, <2>4, <2>6, <3>4, <3>6, <4>1
      <4> QED  BY <1>1, <2>1, <2>6, <3>6, <4>2
    <3> QED  BY <1>1, <2>1, <2>6, <3>5, <3>6
  <2>7. ASSUME NEW k \in DOMAIN r  PROVE r[k] # n /\ \E j \in DOMAIN t : r[k] = t[j]
    <3>1. old(k) \in DOMAIN t /\ old(k) # at /\ at \in DOMAIN t /\ r[k] = t[old(k)]
      BY <1>1, <2>1, <2>5, <2>6
    <3> HIDE DEF old
    <3> QED  BY <2>1, <3>1 DEF Distinct
  <2>8. Distinct(r)
    <3> SUFFICES ASSUME NEW i \in DOMAIN r, NEW j \in DOMAIN r, r[i] = r[j]  PROVE i = j
      BY DEF Distinct
    <3>1. i \in 1..(Len(t) - 1) /\ j \in 1..(Len(t) - 1)  BY <2>5
    <3>2. /\ old(i) \in DOMAIN t /\ r[i] = t[old(i)]
          /\ old(j) \in DOMAIN t /\ r[j] = t[old(j)]
      BY <1>1, <2>6, <3>1
    <3> HIDE DEF old
    <3>3. old(i) = old(j)  BY <3>2 DEF Distinct
    <3> QED  BY <1>1, <2>1, <3>1, <3>3 DEF old
  <2>9. t # <<>>  BY <1>1, <2>1
  <2> QED  BY <2>5, <2>7, <2>8, <2>9 DEF Range, r
<1> QED  BY <1>2, <1>3

\* A text stays one, whatever is replaced.
LEMMA ReplacedType ==
    ASSUME NEW t \in Seq(Nat), NEW n
    PROVE  Replaced(t, n) \in Seq(Nat) /\ (t = <<>> => Replaced(t, n) = <<>>)
<1>1. CASE Located(t, n) = {}
  BY <1>1 DEF Replaced
<1>2. CASE Located(t, n) # {}
  <2>1. PICK at \in 1..Len(t) : Replaced(t, n) = RemoveAt(t, at)
    BY <1>2, LenProperties DEF Replaced, Located
  <2>2. SubSeq(t, 1, at - 1) \in Seq(Nat) /\ SubSeq(t, at + 1, Len(t)) \in Seq(Nat)
    OBVIOUS
  <2>3. RemoveAt(t, at) \in Seq(Nat)  BY <2>2 DEF RemoveAt
  <2>4. t # <<>>  BY <2>1
  <2> QED  BY <2>1, <2>3, <2>4
<1> QED  BY <1>1, <1>2

TextTypes ==
    /\ text \in [Visits -> Seq(Nat)] /\ saved \in Seq(Nat)
    /\ started \in [Visits -> Nat] /\ uploads \in [Visits -> SUBSET Nat]
    /\ unfinished \in BOOLEAN

\* Until a page is left with an upload under way: the placeholders of an editor
\* are those of its uploads, each once, and a text to save has none.
Marks(s) ==
    /\ uploads[s] \subseteq 1..started[s]
    /\ visit[s].phase \notin {"loading", "editing"} /\ "save" \notin inbox[s] => text[s] = <<>>
    /\ ~unfinished =>
          /\ visit[s].phase \in {"loading", "editing"} => Range(text[s]) \subseteq uploads[s]
          /\ Distinct(text[s])
          /\ "save" \in inbox[s] => text[s] = <<>>

UploadsInv ==
    /\ TextTypes
    /\ \A s \in Visits : Marks(s)
    /\ ~unfinished => saved = <<>>

LEMMA EmptyRange == Range(<<>>) = {} /\ Distinct(<<>>)
BY DEF Range, Distinct

LEMMA EditMarks ==
    ASSUME Inv, UploadsInv, NEW s \in Visits, Edit(s)
    PROVE  UploadsInv'
<1>1. Server(s) \/ Page(s) \/ Network(s)  BY DEF Edit
<1>2. \A t \in Visits \ {s} : visit'[t] = visit[t] /\ inbox'[t] = inbox[t]
  BY <1>1, StepSound DEF Inv, Sound
<1>3. /\ text' = [text EXCEPT ![s] =
              IF visit'[s].phase \notin {"loading", "editing"} /\ "save" \notin inbox'[s] THEN <<>>
              ELSE IF visit[s].answer = "none" /\ "get" \in inbox[s] \ inbox'[s] THEN saved
              ELSE @]
      /\ saved' = IF log' = log THEN saved ELSE text[s]
      /\ IF visit'[s].phase = "left"
         THEN started' = [started EXCEPT ![s] = 0] /\ uploads' = [uploads EXCEPT ![s] = {}]
         ELSE UNCHANGED <<started, uploads>>
      /\ unfinished' = (unfinished \/ ("save" \in inbox'[s] /\ uploads[s] # {}))
  BY DEF Edit
<1>4. TextTypes'
  <2>1. unfinished' \in BOOLEAN  BY <1>3
  <2>2. text' \in [Visits -> Seq(Nat)] /\ saved' \in Seq(Nat)
    <3>1. <<>> \in Seq(Nat) /\ text[s] \in Seq(Nat) /\ saved \in Seq(Nat)
      BY DEF UploadsInv, TextTypes
    <3>2. PICK x \in Seq(Nat) : text' = [text EXCEPT ![s] = x]  BY <1>3, <3>1
    <3> QED  BY <1>3, <3>1, <3>2 DEF UploadsInv, TextTypes
  <2>3. started' \in [Visits -> Nat] /\ uploads' \in [Visits -> SUBSET Nat]
    <3>1. started \in [Visits -> Nat] /\ uploads \in [Visits -> SUBSET Nat]
      BY DEF UploadsInv, TextTypes
    <3>2. \/ started' = [started EXCEPT ![s] = 0] /\ uploads' = [uploads EXCEPT ![s] = {}]
          \/ started' = started /\ uploads' = uploads
      BY <1>3
    <3> QED  BY <3>1, <3>2
  <2> QED  BY <2>1, <2>2, <2>3 DEF TextTypes
<1>5. ASSUME NEW t \in Visits \ {s}  PROVE Marks(t)'
  <2>1. text'[t] = text[t] /\ uploads'[t] = uploads[t] /\ started'[t] = started[t]
    BY <1>3 DEF UploadsInv, TextTypes
  <2>2. ~unfinished' => ~unfinished  BY <1>3
  <2> QED  BY <1>2, <2>1, <2>2 DEF UploadsInv, Marks
<1>6. uploads'[s] \subseteq 1..started'[s]
  BY <1>3 DEF UploadsInv, TextTypes, Marks
<1>7. visit'[s].phase \notin {"loading", "editing"} /\ "save" \notin inbox'[s] => text'[s] = <<>>
  BY <1>3 DEF UploadsInv, TextTypes
<1>8. ASSUME ~unfinished'
      PROVE  /\ visit'[s].phase \in {"loading", "editing"} => Range(text'[s]) \subseteq uploads'[s]
             /\ Distinct(text'[s])
             /\ "save" \in inbox'[s] => text'[s] = <<>>
  <2>1. ~unfinished /\ saved = <<>> /\ ("save" \in inbox'[s] => uploads[s] = {})
    BY <1>3, <1>8 DEF UploadsInv, TextTypes
  <2>2. text'[s] \in {<<>>, text[s]}
    BY <1>3, <2>1 DEF UploadsInv, TextTypes
  <2>3. text[s] = <<>> \/ Range(text[s]) \subseteq uploads[s]
    BY <2>1 DEF UploadsInv, Marks
  <2>4. text[s] \in Seq(Nat) /\ Distinct(text[s])
    BY <2>1 DEF UploadsInv, Marks, TextTypes
  <2>5. visit'[s].phase \in {"loading", "editing"} => uploads'[s] = uploads[s]
    BY <1>3
  <2>6. "save" \in inbox'[s] => text[s] = <<>>
    BY <2>1, <2>3, <2>4, EmptyText
  <2> QED  BY <2>2, <2>3, <2>4, <2>5, <2>6, EmptyRange
<1>9. ~unfinished' => saved' = <<>>
  <2>1. log' # log => "save" \in inbox[s]
    BY <1>1
    DEF Server, StartEdit, GetDocument, Save, CancelEdit, ForceUnlock, Take, Page, Network, Enter,
        LockAnswered, DocumentLoaded, Cancel, CancelAnswered, ForceClick, ForceAnswered, Leave,
        GiveUp, Lose
  <2>2. ~unfinished' => ~unfinished  BY <1>3
  <2> QED  BY <1>3, <2>1, <2>2 DEF UploadsInv, Marks
<1>10. Marks(s)'
  BY <1>6, <1>7, <1>8 DEF Marks
<1> QED  BY <1>4, <1>5, <1>9, <1>10 DEF UploadsInv

\* What an upload changes, its text aside: the page of s.
LEMMA UploadMarks ==
    ASSUME UploadsInv, NEW s \in Visits, UNCHANGED <<vars, saved, unfinished>>, TextTypes',
           \A t \in Visits \ {s} :
               text'[t] = text[t] /\ uploads'[t] = uploads[t] /\ started'[t] = started[t],
           Marks(s)'
    PROVE  UploadsInv'
<1>1. ASSUME NEW t \in Visits \ {s}  PROVE Marks(t)'
  BY DEF vars, UploadsInv, Marks
<1> QED  BY <1>1 DEF UploadsInv

LEMMA StartUploadMarks ==
    ASSUME Inv, UploadsInv, NEW s \in Visits, StartUpload(s)
    PROVE  UploadsInv'
<1> DEFINE n == NextNumber(s)
<1>1. PICK r \in Inserted(text[s], n) : text' = [text EXCEPT ![s] = r]
  BY DEF StartUpload
<1>2. /\ started' = [started EXCEPT ![s] = @ + 1] /\ uploads' = [uploads EXCEPT ![s] = @ \cup {n}]
      /\ UNCHANGED <<vars, saved, unfinished>> /\ visit[s].phase = "editing"
  BY DEF StartUpload, FileGiven
<1>3. /\ n = started[s] + 1 /\ started[s] \in Nat /\ n \in Nat /\ text[s] \in Seq(Nat)
      /\ uploads[s] \subseteq 1..started[s] /\ uploads[s] \subseteq Nat
  BY DEF NextNumber, UploadsInv, TextTypes, Marks
<1>4. "save" \notin inbox[s]  BY <1>2 DEF Inv, Consistent
<1> HIDE DEF n
<1>5. r \in Seq(Nat)
  <2>1. \A t \in Seq(Nat) : \A at \in 1..(Len(t) + 1) : InsertAt(t, at, n) \in Seq(Nat)
    <3> SUFFICES ASSUME NEW t \in Seq(Nat), NEW at \in 1..(Len(t) + 1)
                 PROVE  InsertAt(t, at, n) \in Seq(Nat)
      OBVIOUS
    <3>1. SubSeq(t, 1, at - 1) \in Seq(Nat) /\ SubSeq(t, at, Len(t)) \in Seq(Nat)
      OBVIOUS
    <3>2. <<n>> \in Seq(Nat)  BY <1>3
    <3> QED  BY <3>1, <3>2 DEF InsertAt
  <2> QED  BY <1>1, <1>3, <2>1 DEF Inserted
<1>6. /\ text'[s] = r /\ uploads'[s] = uploads[s] \cup {n} /\ started'[s] = started[s] + 1
      /\ visit' = visit /\ inbox' = inbox /\ unfinished' = unfinished
  BY <1>1, <1>2 DEF UploadsInv, TextTypes, vars
<1>7. TextTypes'
  BY <1>1, <1>2, <1>3, <1>5 DEF UploadsInv, TextTypes
<1>8. ~unfinished => Range(r) \subseteq uploads[s] \cup {n} /\ Distinct(r)
  <2> SUFFICES ASSUME ~unfinished  PROVE Range(r) \subseteq uploads[s] \cup {n} /\ Distinct(r)
    OBVIOUS
  <2>1. Range(text[s]) \subseteq uploads[s] /\ Distinct(text[s])
    BY <1>2 DEF UploadsInv, Marks
  <2>2. n \notin Range(text[s])
    BY <1>3, <2>1
  <2> QED  BY <1>1, <1>3, <2>1, <2>2, InsertedFacts
<1>9. Marks(s)'
  <2>1. uploads'[s] \subseteq 1..started'[s]  BY <1>3, <1>6
  <2> QED  BY <1>2, <1>4, <1>6, <1>8, <2>1 DEF Marks
<1> QED
  <2>1. \A t \in Visits \ {s} :
            text'[t] = text[t] /\ uploads'[t] = uploads[t] /\ started'[t] = started[t]
    BY <1>1, <1>2 DEF UploadsInv, TextTypes
  <2> QED  BY <1>2, <1>7, <1>9, <2>1, UploadMarks

LEMMA UploadAnsweredMarks ==
    ASSUME UploadsInv, NEW s \in Visits, NEW n \in Numbers, UploadAnswered(s, n)
    PROVE  UploadsInv'
<1> DEFINE r == Replaced(text[s], n)
<1>1. /\ uploads' = [uploads EXCEPT ![s] = @ \ {n}] /\ text' = [text EXCEPT ![s] = r]
      /\ UNCHANGED <<vars, saved, started, unfinished>>
  BY DEF UploadAnswered
<1>2. text[s] \in Seq(Nat) /\ n \in Nat  BY UploadsAssumption DEF UploadsInv, TextTypes
<1>3. r \in Seq(Nat) /\ (text[s] = <<>> => r = <<>>)
      /\ (Distinct(text[s]) => Distinct(r) /\ Range(r) \subseteq Range(text[s]) \ {n})
  BY <1>2, ReplacedType, ReplacedFacts
<1> HIDE DEF r
<1>4. /\ text'[s] = r /\ uploads'[s] = uploads[s] \ {n} /\ started' = started
      /\ visit' = visit /\ inbox' = inbox /\ unfinished' = unfinished
  BY <1>1 DEF UploadsInv, TextTypes, vars
<1>5. TextTypes'
  BY <1>1, <1>3 DEF UploadsInv, TextTypes
<1>6. Marks(s)'
  BY <1>3, <1>4 DEF UploadsInv, Marks
<1>7. \A t \in Visits \ {s} :
          text'[t] = text[t] /\ uploads'[t] = uploads[t] /\ started'[t] = started[t]
  BY <1>1 DEF UploadsInv, TextTypes
<1> QED  BY <1>1, <1>5, <1>6, <1>7, UploadMarks

\* Every step of Uploads is one of EditLock or leaves it alone.
LEMMA UploadsImplyEditLock == UploadsSpec => Spec
<1>1. UploadsInit => Init  BY DEF UploadsInit
<1>2. [UploadsNext]_allvars => [Next]_vars
  BY DEF UploadsNext, allvars, vars, Edit, StartUpload, UploadAnswered, Next
<1> QED  BY <1>1, <1>2, PTL DEF UploadsSpec, Spec

\* However the uploads of a page overlap and in whatever order they end: while
\* no page was left with an upload under way, the editor shows placeholders of
\* its own uploads only, and no version holds one.
THEOREM UploadsResolve == UploadsSpec => []PlaceholdersResolved
<1>1. UploadsInit => UploadsInv
  <2> SUFFICES ASSUME UploadsInit  PROVE UploadsInv
    OBVIOUS
  <2>1. TextTypes
    <3>1. <<>> \in Seq(Nat) /\ {} \in SUBSET Nat  OBVIOUS
    <3>2. /\ text = [s \in Visits |-> <<>>] /\ saved = <<>>
          /\ started = [s \in Visits |-> 0] /\ uploads = [s \in Visits |-> {}]
      BY DEF UploadsInit
    <3>3. unfinished \in BOOLEAN  BY DEF UploadsInit
    <3> QED  BY <3>1, <3>2, <3>3 DEF TextTypes
  <2>2. ASSUME NEW s \in Visits  PROVE Marks(s)
    <3>1. text[s] = <<>> /\ uploads[s] = {} /\ "save" \notin inbox[s]
      BY DEF UploadsInit, Init
    <3> QED  BY <3>1, EmptyRange DEF Marks
  <2> QED  BY <2>1, <2>2 DEF UploadsInv, UploadsInit
<1>2. Inv /\ UploadsInv /\ [UploadsNext]_allvars => UploadsInv'
  <2> SUFFICES ASSUME Inv, UploadsInv, [UploadsNext]_allvars  PROVE UploadsInv'
    OBVIOUS
  <2>1. CASE UNCHANGED allvars
    BY <2>1 DEF allvars, vars, texts, UploadsInv, TextTypes, Marks
  <2> QED
    BY <2>1, EditMarks, StartUploadMarks, UploadAnsweredMarks DEF UploadsNext
<1>3. UploadsInv => PlaceholdersResolved
  BY DEF UploadsInv, Marks, PlaceholdersResolved
<1> QED  BY <1>1, <1>2, <1>3, UploadsImplyEditLock, InvAlways, PTL DEF UploadsSpec
=============================================================================
