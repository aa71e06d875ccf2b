--------------------------- MODULE SessionProofs ---------------------------
(***************************************************************************)
(* What holds of the session and the router for every number of users,     *)
(* pages and calls.                                                        *)
(***************************************************************************)
EXTENDS Session, IdsProofs

---------------------------------------------------------------------------
(***************************************************************************)
(* Operators.                                                              *)
(***************************************************************************)
LEMMA NoCallType == NoCall \in Call
BY SessionAssumption DEF NoCall, Call

LEMMA SlotType == ASSUME Slots # {} PROVE Least(Slots) \in Calls /\ call[Least(Slots)].op = "none"
<1>1. Slots \subseteq Nat
  BY SessionAssumption DEF Slots
<1>2. Least(Slots) \in Slots
  BY <1>1, LeastIn
<1> QED  BY <1>2 DEF Slots

LEMMA FaultType == ASSUME faults \in 0..MaxFaults, NEW n \in Nat, Fault(n) PROVE faults' \in 0..MaxFaults
BY SessionAssumption DEF Fault

LEMMA ActType ==
    ASSUME TypeOK, Act
    PROVE  acts' \in 0..MaxActs /\ active' \subseteq Users /\ cookie' \in Users \cup {Null} /\ faults' \in 0..MaxFaults
BY SessionAssumption DEF TypeOK, Act

LEMMA SendType ==
    ASSUME TypeOK, NEW c \in Call, Send(c)
    PROVE  call' \in [Calls -> Call]
<1>1. [c EXCEPT !.sender = cookie] \in Call
  BY DEF TypeOK, Call
<1> QED  BY <1>1 DEF Send, TypeOK

\* A login page stands where it leads; a redirection to it moves nobody.
LEMMA ToLoginStands ==
    ASSUME NEW p \in Pages PROVE ToLogin(p) \in Place /\ Where(ToLogin(p)) = p
BY DEF ToLogin, Place, Where

LEMMA GuardedStands ==
    ASSUME NEW at \in Place, NEW status
    PROVE  Guarded(at, status) \in Place /\ Where(Guarded(at, status)) = Where(at)
<1>1. CASE at.page # "login" /\ status = "unauthenticated"
  <2>1. at.page \in Pages
    BY <1>1 DEF Place
  <2> QED  BY <1>1, <2>1, ToLoginStands DEF Guarded, Where
<1>2. CASE ~(at.page # "login" /\ status = "unauthenticated")
  BY <1>2 DEF Guarded
<1> QED  BY <1>1, <1>2

LEMMA RedirectedStands ==
    ASSUME place \in Place, NEW c \in Call
    PROVE  Redirected(c) \in Place /\ Where(Redirected(c)) = Where(place)
<1>1. CASE c.answer = "refused" /\ c.op \notin {"me", "login"} /\ place.page # "login"
  <2>1. place.page \in Pages
    BY <1>1 DEF Place
  <2> QED  BY <1>1, <2>1, ToLoginStands DEF Redirected, Where
<1>2. CASE ~(c.answer = "refused" /\ c.op \notin {"me", "login"} /\ place.page # "login")
  BY <1>2 DEF Redirected
<1> QED  BY <1>1, <1>2

LEMMA FreedStands ==
    ASSUME NEW at \in Place, NEW t
    PROVE  Freed(t, at) \in Place /\ Where(Freed(t, at)) = Where(at)
BY DEF Freed, Place, Where

\* A login leads to its page, a logout home, anything else nowhere.
LEMMA LedStands ==
    ASSUME place \in Place, NEW c \in Call
    PROVE  /\ Led(c) \in Place
           /\ c.next = "login" => Where(Led(c)) = c.back
           /\ c.next = "logout" => Where(Led(c)) = Home
           /\ c.next = "none" => Where(Led(c)) = Where(place)
<1>1. CASE c.next = "login"
  <2>1. c.back \in Pages /\ c.back # "login"
    BY SessionAssumption DEF Call
  <2> QED  BY <1>1, <2>1, SessionAssumption DEF Led, Place, Where
<1>2. CASE c.next = "logout"
  <2>1. Led(c) = [place EXCEPT !.page = "login", !.back = Home]
    BY <1>2 DEF Led
  <2> QED  BY <1>2, <2>1, SessionAssumption DEF Place, Where
<1>3. CASE c.next = "none"
  BY <1>3, RedirectedStands DEF Led
<1> QED  BY <1>1, <1>2, <1>3 DEF Call

---------------------------------------------------------------------------
(***************************************************************************)
(* Types.                                                                  *)
(***************************************************************************)
LEMMA InitType == ASSUME Init PROVE TypeOK
<1>1. place \in Place /\ asked \in Pages
  <2>1. CASE \E p \in Pages : place = ToLogin(p)
    BY <2>1, ToLoginStands DEF Init
  <2>2. CASE place \in [page : Pages, back : {Home}, busy : {Null}]
    BY <2>2, SessionAssumption DEF Init, Place, Where
  <2> QED  BY <2>1, <2>2 DEF Init
<1>2. call \in [Calls -> Call]
  <2>1. [NoCall EXCEPT !.op = "me", !.sender = cookie] \in Call
    BY NoCallType DEF Init, Call, Ops
  <2> QED  BY <2>1, NoCallType DEF Init
<1>3. Least(Calls) \in Calls
  BY LeastIn, SessionAssumption
<1> QED  BY <1>1, <1>2, <1>3, SessionAssumption DEF Init, TypeOK

LEMMA ServeType == ASSUME TypeOK, NEW t \in Calls, Serve(t) PROVE TypeOK'
<1>1. PICK answer \in {"ok", "refused"} : call' = [call EXCEPT ![t].answer = answer]
  BY DEF Serve
<1>2. call' \in [Calls -> Call]
  BY <1>1 DEF TypeOK, Call
<1> QED  BY <1>2 DEF TypeOK, Serve

LEMMA LoseType == ASSUME TypeOK, NEW t \in Calls, Lose(t) PROVE TypeOK'
<1>1. call' \in [Calls -> Call]
  BY DEF TypeOK, Lose, Call
<1>2. faults' \in 0..MaxFaults
  BY FaultType DEF TypeOK, Lose
<1>3. disturbed' \subseteq Causes
  BY DEF TypeOK, Lose, Note, Causes
<1> QED  BY <1>1, <1>2, <1>3 DEF TypeOK, Lose

LEMMA EndType == ASSUME TypeOK, End PROVE TypeOK'
<1>1. faults' \in 0..MaxFaults
  BY FaultType DEF TypeOK, End
<1>2. disturbed' \subseteq Causes
  BY DEF TypeOK, End, Note, Causes
<1>3. active' \subseteq Users /\ cookie' \in Users \cup {Null}
  BY DEF TypeOK, End
<1> QED  BY <1>1, <1>2, <1>3 DEF TypeOK, End

\* What a step of the client takes for its cookie is one.
LEMMA CookieType ==
    ASSUME TypeOK, NEW t \in Calls, cookie' \in CookiesAfter(call[t])
    PROVE  cookie' \in Users \cup {Null}
<1>1. call[t].sender \in Users \cup {Null} /\ call[t].user \in Users \cup {Null}
  BY DEF TypeOK, Call
<1> QED  BY <1>1 DEF CookiesAfter, TypeOK

\* The end of a bootstrap keeps the types.
LEMMA SettledType ==
    ASSUME TypeOK, NEW t \in Calls, NEW c \in Users \cup {Null}, NEW user \in Users \cup {Null},
           Settled(t, c, user)
    PROVE  /\ session' \in [status: {"loading", "authenticated", "unauthenticated"},
                            user: Users \cup {Null}, run: Calls \cup {Null}]
           /\ place' \in Place
           /\ spaces' \in [of: Users \cup {Null}, run: Calls \cup {Null}]
           /\ call' \in [Calls -> Call]
           /\ asked' \in Pages
<1> DEFINE after == Applied(t, user)
<1>0. call[t] \in Call /\ place \in Place
  BY DEF TypeOK
<1>1. after \in [status: {"loading", "authenticated", "unauthenticated"},
                 user: Users \cup {Null}, run: Calls \cup {Null}]
  BY DEF Applied, TypeOK
<1>2. place' \in Place
  BY <1>0, LedStands, GuardedStands, FreedStands DEF Settled
<1>3. spaces' \in [of: Users \cup {Null}, run: Calls \cup {Null}]
  BY DEF Settled, TypeOK
<1>4. call' \in [Calls -> Call]
  <2>1. [NoCall EXCEPT !.op = "list", !.sender = c] \in Call
    BY NoCallType DEF Call, Ops
  <2> QED  BY <2>1, NoCallType DEF Settled, TypeOK
<1>5. asked' \in Pages
  BY SessionAssumption DEF Settled, TypeOK
<1> QED  BY <1>1, <1>2, <1>3, <1>4, <1>5 DEF Settled

LEMMA AnsweredType == ASSUME TypeOK, NEW t \in Calls, Answered(t) PROVE TypeOK'
<1>0. cookie' \in Users \cup {Null} /\ call[t] \in Call /\ place \in Place
  BY CookieType DEF Answered, TypeOK
<1>1. disturbed' \subseteq Causes
  BY DEF Answered, Arisen, PutRight, Causes, TypeOK
<1>2. /\ session' \in [status: {"loading", "authenticated", "unauthenticated"},
                       user: Users \cup {Null}, run: Calls \cup {Null}]
      /\ place' \in Place
      /\ spaces' \in [of: Users \cup {Null}, run: Calls \cup {Null}]
      /\ call' \in [Calls -> Call]
      /\ asked' \in Pages
  <2>1. CASE MeAnswered(t, cookie')
    <3>1. CASE call[t].answer = "ok"
      <4>1. call' = [call EXCEPT ![t].op = "settings", ![t].user = call[t].sender,
                                 ![t].sender = cookie', ![t].answer = "none"]
        BY <2>1, <3>1 DEF MeAnswered
      <4>2. call' \in [Calls -> Call]
        BY <4>1, <1>0 DEF TypeOK, Call, Ops
      <4> QED  BY <2>1, <3>1, <4>2 DEF MeAnswered, TypeOK
    <3>2. CASE call[t].answer # "ok"
      <4>1. Settled(t, cookie', Null)
        BY <2>1, <3>2 DEF MeAnswered
      <4> QED  BY <4>1, <1>0, SettledType
    <3> QED  BY <3>1, <3>2
  <2>2. CASE SettingsAnswered(t, cookie')
    <3>1. call[t].user \in Users \cup {Null}
      BY <1>0 DEF Call
    <3> QED  BY <2>2, <3>1, <1>0, SettledType DEF SettingsAnswered
  <2>3. CASE AuthAnswered(t, cookie')
    <3>1. CASE call[t].answer = "ok"
      <4>1. call' = [call EXCEPT ![t].op = "me", ![t].sender = cookie', ![t].user = Null,
                                 ![t].answer = "none", ![t].next = call[t].op]
        BY <2>3, <3>1 DEF AuthAnswered
      <4>2. call[t].op \in {"login", "logout"}
        BY <2>3 DEF AuthAnswered
      <4>3. call' \in [Calls -> Call]
        BY <4>1, <4>2, <1>0 DEF TypeOK, Call, Ops
      <4> QED  BY <2>3, <3>1, <4>3 DEF AuthAnswered, TypeOK
    <3>2. CASE call[t].answer # "ok"
      <4>1. place' \in Place
        BY <2>3, <3>2, <1>0, RedirectedStands, FreedStands DEF AuthAnswered
      <4> QED  BY <2>3, <3>2, <4>1, NoCallType DEF AuthAnswered, TypeOK
    <3> QED  BY <3>1, <3>2
  <2>4. CASE PageAnswered(t)
    <3>1. place' \in Place
      BY <2>4, <1>0, RedirectedStands DEF PageAnswered
    <3>2. spaces' \in [of: Users \cup {Null}, run: Calls \cup {Null}]
      BY <2>4, <1>0 DEF PageAnswered, Listed, TypeOK, Call
    <3> QED  BY <2>4, <3>1, <3>2, NoCallType DEF PageAnswered, TypeOK
  <2> QED  BY <2>1, <2>2, <2>3, <2>4 DEF Answered
<1> QED  BY <1>0, <1>1, <1>2 DEF Answered, TypeOK

\* What the user does.
LEMMA VisitType == ASSUME TypeOK, NEW p \in Pages, Visit(p) PROVE TypeOK'
<1>1. [page |-> p, back |-> Home, busy |-> IF place.page = "login" THEN Null ELSE place.busy] \in Place
  BY SessionAssumption DEF TypeOK, Place
<1>2. place' \in Place
  BY <1>1, GuardedStands DEF Visit
<1>3. disturbed' \subseteq Causes
  BY DEF Visit, Note, TypeOK, Causes
<1> QED  BY <1>2, <1>3, ActType DEF Visit, TypeOK

LEMMA UserType == ASSUME TypeOK, User PROVE TypeOK'
<1>0. Act
  BY DEF User, Visit, Login, Logout, Work, Reload
<1>1. ASSUME NEW u \in Users, Login(u) PROVE TypeOK'
  <2>1. [NoCall EXCEPT !.op = "login", !.user = u, !.back = place.back] \in Call
    BY NoCallType DEF Call, Ops, TypeOK, Place
  <2>2. call' \in [Calls -> Call] /\ place' \in Place
    BY <1>1, <2>1, SendType, SlotType DEF Login, Send, TypeOK, Place
  <2> QED  BY <1>0, <1>1, <2>2, ActType DEF Login, TypeOK
<1>2. CASE Logout
  <2>1. [NoCall EXCEPT !.op = "logout"] \in Call
    BY NoCallType DEF Call, Ops
  <2>2. call' \in [Calls -> Call] /\ place' \in Place
    BY <1>2, <2>1, SendType, SlotType DEF Logout, Send, TypeOK, Place
  <2> QED  BY <1>0, <1>2, <2>2, ActType DEF Logout, TypeOK
<1>3. CASE Work
  <2>1. [NoCall EXCEPT !.op = "work"] \in Call
    BY NoCallType DEF Call, Ops
  <2> QED  BY <1>0, <1>3, <2>1, SendType, ActType DEF Work, TypeOK
<1>4. CASE Reload
  <2>1. [NoCall EXCEPT !.op = "list"] \in Call
    BY NoCallType DEF Call, Ops
  <2>2. spaces' \in [of: Users \cup {Null}, run: Calls \cup {Null}]
    BY <1>4, SlotType DEF Reload, Send, TypeOK
  <2>3. disturbed' \subseteq Causes
    BY <1>4 DEF Reload, TypeOK
  <2> QED  BY <1>0, <1>4, <2>1, <2>2, <2>3, SendType, ActType DEF Reload, TypeOK
<1> QED  BY <1>1, <1>2, <1>3, <1>4, VisitType DEF User

\* The types of the session, the router, the list and every call.
THEOREM TypeCorrect == Spec => []TypeOK
<1>1. TypeOK /\ [Next]_vars => TypeOK'
  <2> SUFFICES ASSUME TypeOK, [Next]_vars PROVE TypeOK'
    OBVIOUS
  <2>1. CASE UNCHANGED vars
    BY <2>1 DEF vars, TypeOK
  <2>2. CASE Next
    BY <2>2, UserType, EndType, ServeType, LoseType, AnsweredType DEF Next
  <2> QED  BY <2>1, <2>2
<1> QED  BY <1>1, InitType, PTL DEF Spec

---------------------------------------------------------------------------
(***************************************************************************)
(* The router stands where the user asked to be.                           *)
(***************************************************************************)
\* A function that leads somewhere after a login.
Leads(c) == c.op = "login" \/ c.next = "login"

\* Besides the property itself: whatever a login under way leads to was asked for.
Returns ==
    "turned" \notin disturbed =>
        /\ Where(place) = asked
        /\ \A t \in Calls : Leads(call[t]) => call[t].back = asked

LEMMA InitReturns == ASSUME Init PROVE Returns
BY DEF Init, Returns, Leads, NoCall

\* Handling, loss and the end of a session touch neither pages nor what calls lead to.
LEMMA ServerReturns ==
    ASSUME TypeOK, Returns, End \/ \E t \in Calls : Serve(t) \/ Lose(t)
    PROVE  Returns'
<1>1. place' = place /\ asked' = asked /\ ("turned" \notin disturbed' => "turned" \notin disturbed)
  BY DEF End, Serve, Lose, Note
<1>2. \A x \in Calls : call'[x].op = call[x].op /\ call'[x].next = call[x].next /\ call'[x].back = call[x].back
  <2>1. CASE End
    BY <2>1 DEF End
  <2>2. ASSUME NEW t \in Calls, Serve(t) \/ Lose(t)
        PROVE  \A x \in Calls : /\ call'[x].op = call[x].op
                                /\ call'[x].next = call[x].next /\ call'[x].back = call[x].back
    BY <2>2 DEF Serve, Lose, TypeOK, Call
  <2> QED  BY <2>1, <2>2
<1> QED  BY <1>1, <1>2 DEF Returns, Leads, Where

LEMMA VisitReturns == ASSUME TypeOK, Returns, NEW p \in Pages, Visit(p) PROVE Returns'
<1> DEFINE at == [page |-> p, back |-> Home, busy |-> IF place.page = "login" THEN Null ELSE place.busy]
<1>1. at \in Place /\ Where(at) = p
  BY SessionAssumption DEF TypeOK, Place, Where
<1>2. Where(place') = asked'
  BY <1>1, GuardedStands DEF Visit
<1>3. "turned" \notin disturbed' => \A t \in Calls : ~Leads(call[t])
  BY DEF Visit, Note, LoginOpen, Leads
<1> QED  BY <1>2, <1>3 DEF Visit, Returns, Where

\* A call that is sent leads where the login page would.
LEMMA SendReturns ==
    ASSUME TypeOK, Returns, NEW c \in Call, Send(c), Where(place') = Where(place), asked' = asked,
           "turned" \notin disturbed' => "turned" \notin disturbed,
           Leads(c) => c.back = Where(place)
    PROVE  Returns'
<1>1. Least(Slots) \in Calls
  BY SlotType DEF Send
<1>2. \A x \in Calls \ {Least(Slots)} : call'[x] = call[x]
  BY DEF Send, TypeOK
<1>3. call'[Least(Slots)] = [c EXCEPT !.sender = cookie]
  BY <1>1 DEF Send, TypeOK
<1>4. LET n == call'[Least(Slots)] IN n.op = c.op /\ n.next = c.next /\ n.back = c.back
  BY <1>3 DEF Call
<1>5. SUFFICES ASSUME "turned" \notin disturbed'
      PROVE  Where(place') = asked' /\ \A x \in Calls : Leads(call'[x]) => call'[x].back = asked'
  BY DEF Returns, Where, Leads
<1>6. Where(place) = asked /\ \A x \in Calls : Leads(call[x]) => call[x].back = asked
  BY <1>5 DEF Returns
<1>7. ASSUME NEW x \in Calls, Leads(call'[x]) PROVE call'[x].back = asked
  <2>1. CASE x = Least(Slots)
    BY <2>1, <1>4, <1>6, <1>7 DEF Leads
  <2>2. CASE x # Least(Slots)
    BY <2>2, <1>2, <1>6, <1>7
  <2> QED  BY <2>1, <2>2
<1> QED  BY <1>6, <1>7

LEMMA UserReturns == ASSUME TypeOK, Returns, User PROVE Returns'
<1>1. ASSUME NEW u \in Users, Login(u) PROVE Returns'
  <2> DEFINE c == [NoCall EXCEPT !.op = "login", !.user = u, !.back = place.back]
  <2>1. c \in Call /\ c.back = Where(place)
    BY <1>1, NoCallType DEF Call, Ops, TypeOK, Place, Login, Where
  <2>2. Where(place') = Where(place)
    BY <1>1 DEF Login, Where, TypeOK, Place
  <2>3. Send(c) /\ asked' = asked /\ disturbed' = disturbed
    BY <1>1 DEF Login
  <2> HIDE DEF c
  <2> QED  BY <2>1, <2>2, <2>3, SendReturns
<1>2. CASE Logout
  <2> DEFINE c == [NoCall EXCEPT !.op = "logout"]
  <2>1. c \in Call /\ ~Leads(c)
    BY NoCallType DEF Call, Ops, Leads, NoCall
  <2>2. Where(place') = Where(place)
    BY <1>2 DEF Logout, Where, TypeOK, Place
  <2>3. Send(c) /\ asked' = asked /\ disturbed' = disturbed
    BY <1>2 DEF Logout
  <2> HIDE DEF c
  <2> QED  BY <2>1, <2>2, <2>3, SendReturns
<1>3. CASE Work
  <2> DEFINE c == [NoCall EXCEPT !.op = "work"]
  <2>1. c \in Call /\ ~Leads(c)
    BY NoCallType DEF Call, Ops, Leads, NoCall
  <2>2. Send(c) /\ place' = place /\ asked' = asked /\ disturbed' = disturbed
    BY <1>3 DEF Work
  <2> HIDE DEF c
  <2> QED  BY <2>1, <2>2, SendReturns DEF Where
<1>4. CASE Reload
  <2> DEFINE c == [NoCall EXCEPT !.op = "list"]
  <2>1. c \in Call /\ ~Leads(c)
    BY NoCallType DEF Call, Ops, Leads, NoCall
  <2>2. Send(c) /\ place' = place /\ asked' = asked /\ ("turned" \notin disturbed' => "turned" \notin disturbed)
    BY <1>4 DEF Reload
  <2> HIDE DEF c
  <2> QED  BY <2>1, <2>2, SendReturns DEF Where
<1> QED  BY <1>1, <1>2, <1>3, <1>4, VisitReturns DEF User

\* What an answer leaves: the other calls as they were, this one leading nowhere new.
Kept(t) ==
    /\ \A x \in Calls \ {t} : call'[x] = call[x]
    /\ Leads(call'[t]) => Leads(call[t]) /\ call'[t].back = call[t].back

\* The router stays, or goes where a login leads, or home after a logout.
Gone(t) ==
    \/ Where(place') = Where(place) /\ asked' = asked
    \/ Leads(call[t]) /\ Where(place') = call[t].back /\ asked' = asked
    \/ Where(place') = Home /\ asked' = Home

LEMMA SettledReturns ==
    ASSUME TypeOK, NEW t \in Calls, NEW c \in Users \cup {Null}, NEW user, Settled(t, c, user)
    PROVE  Kept(t) /\ Gone(t)
<1>0. call[t] \in Call /\ place \in Place
  BY DEF TypeOK
<1>1. Led(call[t]) \in Place
  BY <1>0, LedStands
<1>2. Where(place') = Where(Led(call[t]))
  BY <1>1, GuardedStands, FreedStands DEF Settled
<1>3. Gone(t)
  <2>1. CASE call[t].next = "login"
    BY <2>1, <1>0, <1>2, LedStands DEF Settled, Gone, Leads
  <2>2. CASE call[t].next = "logout"
    BY <2>2, <1>0, <1>2, LedStands DEF Settled, Gone
  <2>3. CASE call[t].next = "none"
    BY <2>3, <1>0, <1>2, LedStands DEF Settled, Gone
  <2> QED  BY <1>0, <2>1, <2>2, <2>3 DEF Call
<1>4. Kept(t)
  BY DEF Settled, Kept, Leads, NoCall, TypeOK
<1> QED  BY <1>3, <1>4

LEMMA AnsweredGone == ASSUME TypeOK, NEW t \in Calls, Answered(t) PROVE Kept(t) /\ Gone(t)
<1>0. cookie' \in Users \cup {Null} /\ call[t] \in Call /\ place \in Place
  BY CookieType DEF Answered, TypeOK
<1>1. CASE MeAnswered(t, cookie')
  <2>1. CASE call[t].answer = "ok"
    <3>1. call' = [call EXCEPT ![t].op = "settings", ![t].user = call[t].sender,
                               ![t].sender = cookie', ![t].answer = "none"]
      BY <1>1, <2>1 DEF MeAnswered
    <3>2. call'[t].op = "settings" /\ call'[t].next = call[t].next /\ call'[t].back = call[t].back
      BY <3>1, <1>0 DEF TypeOK, Call
    <3>3. Kept(t)
      BY <3>1, <3>2 DEF Kept, Leads, TypeOK
    <3> QED  BY <1>1, <2>1, <3>3 DEF MeAnswered, Gone, Where
  <2>2. CASE call[t].answer # "ok"
    <3>1. Settled(t, cookie', Null)
      BY <1>1, <2>2 DEF MeAnswered
    <3> QED  BY <3>1, <1>0, SettledReturns
  <2> QED  BY <2>1, <2>2
<1>2. CASE SettingsAnswered(t, cookie')
  BY <1>2, <1>0, SettledReturns DEF SettingsAnswered
<1>3. CASE AuthAnswered(t, cookie')
  <2>1. CASE call[t].answer = "ok"
    <3>1. call' = [call EXCEPT ![t].op = "me", ![t].sender = cookie', ![t].user = Null,
                               ![t].answer = "none", ![t].next = call[t].op]
      BY <1>3, <2>1 DEF AuthAnswered
    <3>2. call'[t].op = "me" /\ call'[t].next = call[t].op /\ call'[t].back = call[t].back
      BY <3>1, <1>0 DEF TypeOK, Call
    <3>3. Kept(t)
      BY <3>1, <3>2 DEF Kept, Leads, TypeOK
    <3> QED  BY <1>3, <2>1, <3>3 DEF AuthAnswered, Gone, Where
  <2>2. CASE call[t].answer # "ok"
    <3>1. Where(place') = Where(place)
      BY <1>3, <2>2, <1>0, RedirectedStands, FreedStands DEF AuthAnswered
    <3>2. Kept(t)
      BY <1>3, <2>2 DEF AuthAnswered, Kept, Leads, NoCall, TypeOK
    <3> QED  BY <1>3, <3>1, <3>2 DEF AuthAnswered, Gone
  <2> QED  BY <2>1, <2>2
<1>4. CASE PageAnswered(t)
  <2>1. Where(place') = Where(place)
    BY <1>4, <1>0, RedirectedStands DEF PageAnswered
  <2>2. Kept(t)
    BY <1>4 DEF PageAnswered, Kept, Leads, NoCall, TypeOK
  <2> QED  BY <1>4, <2>1, <2>2 DEF PageAnswered, Gone
<1> QED  BY <1>1, <1>2, <1>3, <1>4 DEF Answered

LEMMA AnsweredReturns == ASSUME TypeOK, Returns, NEW t \in Calls, Answered(t) PROVE Returns'
<1>1. Kept(t) /\ Gone(t)
  BY AnsweredGone
<1>2. SUFFICES ASSUME "turned" \notin disturbed'
      PROVE  Where(place') = asked' /\ \A x \in Calls : Leads(call'[x]) => call'[x].back = asked'
  BY DEF Returns, Where, Leads
<1>3. "turned" \notin disturbed /\ ~(asked' # asked /\ LoginOpen)
  BY <1>2 DEF Answered, Arisen, PutRight
<1>4. Where(place) = asked /\ \A x \in Calls : Leads(call[x]) => call[x].back = asked
  BY <1>3 DEF Returns
<1>5. Where(place') = asked'
  BY <1>1, <1>4 DEF Gone
<1>6. \A x \in Calls : Leads(call'[x]) => Leads(call[x]) /\ call'[x].back = call[x].back
  BY <1>1 DEF Kept
<1>7. (\E x \in Calls : Leads(call'[x])) => asked' = asked
  BY <1>3, <1>6 DEF LoginOpen, Leads
<1> QED  BY <1>4, <1>5, <1>6, <1>7

\* Whatever is refused, lost or overtaken, the router stands where the user asked to be
\* or at the login page that leads there.
THEOREM ReturnsToAsked == Spec => []ReturnsWhereAsked
<1>1. TypeOK /\ Returns /\ [Next]_vars => Returns'
  <2> SUFFICES ASSUME TypeOK, Returns, [Next]_vars PROVE Returns'
    OBVIOUS
  <2>1. CASE UNCHANGED vars
    BY <2>1 DEF vars, Returns, Leads, Where
  <2>2. CASE Next
    BY <2>2, UserReturns, ServerReturns, AnsweredReturns DEF Next
  <2> QED  BY <2>1, <2>2
<1>2. Returns => ReturnsWhereAsked
  BY DEF Returns, ReturnsWhereAsked, Spared
<1> QED  BY <1>1, <1>2, InitReturns, TypeCorrect, PTL DEF Spec

---------------------------------------------------------------------------
(***************************************************************************)
(* The session shown is the one of the cookie, and the list is its user's. *)
(***************************************************************************)
Usable(c) == IF c \in active THEN c ELSE Null

\* The user the latest bootstrap will find if it finds one, or has found.
Coming ==
    IF session.run = Null THEN session.user
    ELSE IF call[session.run].op = "me" THEN call[session.run].sender
    ELSE call[session.run].user

\* Whose list is shown or, if one is on its way, will be.
Owner == IF spaces.run = Null THEN spaces.of ELSE call[spaces.run].sender

\* The calls whose result counts are under way.
Latest ==
    /\ session.run # Null => call[session.run].op \in {"me", "settings"}
    /\ spaces.run # Null => call[spaces.run].op = "list"
    /\ session.status = "loading" => session.run # Null
    /\ session.user # Null <=> session.status = "authenticated"

\* What bootstrap has learnt so far is true of the cookie.
Booted ==
    Spared({"lost", "ended", "crossed"}) =>
        /\ session.run = Null => session.user = Usable(cookie)
        /\ session.run # Null => LET c == call[session.run] IN
             /\ c.op = "me" => /\ c.sender = cookie /\ c.answer # "lost"
                               /\ c.answer = "ok" => Known(c)
                               /\ c.answer = "refused" => ~Known(c)
             /\ c.op = "settings" => c.user = Usable(cookie)

\* Unless another user logs in over a session, no user but one is about.
OneUser ==
    /\ "mixed" \notin disturbed =>
          (session.run # Null \/ session.user # Null => cookie \in {Null, Coming})
    /\ Spared({"mixed", "relogged"}) /\ session.user # Null =>
          Owner \in {Null, session.user} /\ Coming \in {Null, session.user}

Views == Latest /\ Booted /\ OneUser

LEMMA InitViews == ASSUME Init PROVE Views
<1>1. Least(Calls) \in Calls /\ Least(Calls) # Null
  BY LeastIn, SessionAssumption
<1>2. call[Least(Calls)].op = "me" /\ call[Least(Calls)].sender = cookie /\ call[Least(Calls)].answer = "none"
  BY <1>1 DEF Init, NoCall
<1> QED  BY <1>1, <1>2 DEF Init, Views, Latest, Booted, OneUser, Coming, Owner, Spared

\* A step that leaves session, list, cookie and the calls that count alone.
LEMMA ElsewhereViews ==
    ASSUME Views, session' = session, spaces' = spaces, cookie' = cookie, active' = active,
           disturbed \subseteq disturbed',
           session.run # Null => call'[session.run] = call[session.run],
           spaces.run # Null => call'[spaces.run].op = call[spaces.run].op
                                /\ call'[spaces.run].sender = call[spaces.run].sender
    PROVE  Views'
<1>1. Latest'  BY DEF Views, Latest
<1>2. Coming' = Coming /\ Owner' = Owner  BY DEF Coming, Owner
<1>3. Booted'  BY DEF Views, Booted, Spared, Usable, Known
<1>4. OneUser'  BY <1>2 DEF Views, OneUser, Spared
<1> QED  BY <1>1, <1>3, <1>4 DEF Views

\* A call that is sent takes a slot no call that counts has.
LEMMA SendElsewhere ==
    ASSUME TypeOK, Views, NEW c, Send(c)
    PROVE  /\ session.run # Null => call'[session.run] = call[session.run] /\ session.run # Least(Slots)
           /\ spaces.run # Null => call'[spaces.run] = call[spaces.run]
           /\ call'[Least(Slots)] = [c EXCEPT !.sender = cookie]
<1>1. Least(Slots) \in Calls /\ call[Least(Slots)].op = "none"  BY SlotType DEF Send
<1>2. session.run # Null => session.run # Least(Slots)  BY <1>1 DEF Views, Latest
<1>3. spaces.run # Null => spaces.run # Least(Slots)  BY <1>1 DEF Views, Latest
<1> QED  BY <1>1, <1>2, <1>3 DEF Send, TypeOK

LEMMA UserViews == ASSUME TypeOK, Views, User PROVE Views'
<1>1. CASE \E p \in Pages : Visit(p)
  <2>1. session' = session /\ spaces' = spaces /\ cookie' = cookie /\ active' = active
        /\ call' = call /\ disturbed \subseteq disturbed'
    BY <1>1 DEF Visit, Act, Note
  <2> QED  BY <2>1, ElsewhereViews
<1>2. ASSUME NEW c, Send(c), Act, UNCHANGED <<session, spaces, disturbed>>  PROVE Views'
  <2>1. cookie' = cookie /\ active' = active  BY <1>2 DEF Act
  <2> QED  BY <1>2, <2>1, SendElsewhere, ElsewhereViews
<1>3. CASE Reload
  <2> DEFINE c == [NoCall EXCEPT !.op = "list"]
             t == Least(Slots)
  <2>1. /\ Send(c) /\ session' = session /\ spaces' = [spaces EXCEPT !.run = t]
        /\ cookie' = cookie /\ active' = active /\ session.status = "authenticated"
        /\ disturbed' = IF session.run = Null THEN disturbed \ {"relogged"} ELSE disturbed
    BY <1>3 DEF Reload, Act, Inside
  <2>2. call'[t].op = "list" /\ call'[t].sender = cookie
    <3>1. c \in Call /\ c.op = "list"
      BY NoCallType DEF Call, Ops, NoCall
    <3>2. call'[t] = [c EXCEPT !.sender = cookie]
      <4> HIDE DEF c
      <4> QED  BY <2>1, SendElsewhere
    <3> HIDE DEF c
    <3> QED  BY <3>1, <3>2 DEF Call
  <2>3. t \in Calls /\ t # Null  BY <2>1, SlotType, SessionAssumption DEF Send
  <2>4. session.run # Null => call'[session.run] = call[session.run]
    BY <2>1, SendElsewhere
  <2> HIDE DEF c, t
  <2>5. spaces'.run = t /\ Owner' = cookie /\ Coming' = Coming
    BY <2>1, <2>2, <2>3, <2>4 DEF Owner, Coming, TypeOK
  <2>6. Latest'
    BY <2>1, <2>2, <2>3, <2>4, <2>5 DEF Views, Latest
  <2>7. Booted'
    BY <2>1, <2>4 DEF Views, Booted, Spared, Usable, Known
  <2>8. session.user # Null  BY <2>1 DEF Views, Latest
  <2>9. "mixed" \notin disturbed' => cookie \in {Null, Coming}
    BY <2>1, <2>8 DEF Views, OneUser
  <2>10. Spared({"mixed", "relogged"})' => Coming \in {Null, session.user}
    <3>1. session.run = Null => Coming = session.user  BY DEF Coming
    <3>2. session.run # Null => disturbed' = disturbed  BY <2>1
    <3> QED  BY <2>8, <3>1, <3>2 DEF Views, OneUser, Spared
  <2>11. OneUser'
    BY <2>1, <2>5, <2>9, <2>10 DEF OneUser, Spared
  <2> QED  BY <2>6, <2>7, <2>11 DEF Views
<1> QED  BY <1>1, <1>2, <1>3 DEF User, Login, Logout, Work

LEMMA ServerViews ==
    ASSUME TypeOK, Views, End \/ \E t \in Calls : Serve(t) \/ Lose(t)
    PROVE  Views'
<1>1. ASSUME NEW t \in Calls, Serve(t)  PROVE Views'
  <2>1. PICK a \in IF call[t].op = "login" THEN {"ok", "refused"}
                   ELSE {IF Known(call[t]) THEN "ok" ELSE "refused"} :
            call' = [call EXCEPT ![t].answer = a]
    BY <1>1 DEF Serve
  <2>2. /\ \A x \in Calls \ {t} : call'[x] = call[x]
        /\ call'[t].op = call[t].op /\ call'[t].sender = call[t].sender /\ call'[t].user = call[t].user
        /\ call'[t].answer = a
    BY <2>1 DEF TypeOK, Call
  <2>3. session' = session /\ spaces' = spaces /\ cookie' = cookie /\ active' = active /\ disturbed' = disturbed
    BY <1>1 DEF Serve
  <2>4. session.run # Null => session.run \in Calls  BY DEF TypeOK
  <2>5. spaces.run # Null => spaces.run \in Calls  BY DEF TypeOK
  <2>6. spaces.run # Null => call'[spaces.run].op = call[spaces.run].op
                             /\ call'[spaces.run].sender = call[spaces.run].sender
    BY <2>2, <2>5
  <2>7. CASE t # session.run
    BY <2>2, <2>3, <2>4, <2>6, <2>7, ElsewhereViews
  <2>8. CASE t = session.run
    <3>1. Coming' = Coming /\ Owner' = Owner  BY <2>2, <2>3, <2>6, <2>8 DEF Coming, Owner
    <3>2. Latest'  BY <2>2, <2>3, <2>6, <2>8 DEF Views, Latest
    <3>3. OneUser'  BY <2>3, <3>1 DEF Views, OneUser, Spared
    <3>4. Booted'
      BY <2>1, <2>2, <2>3, <2>8 DEF Views, Booted, Spared, Usable, Known
    <3> QED  BY <3>2, <3>3, <3>4 DEF Views
  <2> QED  BY <2>7, <2>8
<1>2. ASSUME NEW t \in Calls, Lose(t)  PROVE Views'
  <2>1. call' = [call EXCEPT ![t].answer = "lost"]
    BY <1>2 DEF Lose
  <2>2. /\ \A x \in Calls \ {t} : call'[x] = call[x]
        /\ call'[t].op = call[t].op /\ call'[t].sender = call[t].sender /\ call'[t].user = call[t].user
        /\ call'[t].answer = "lost"
    BY <2>1 DEF TypeOK, Call
  <2>3. session' = session /\ spaces' = spaces /\ cookie' = cookie /\ active' = active
        /\ disturbed \subseteq disturbed' /\ (call[t].op = "me" => "lost" \in disturbed')
    BY <1>2 DEF Lose, Note
  <2>4. session.run # Null => session.run \in Calls  BY DEF TypeOK
  <2>5. spaces.run # Null => spaces.run \in Calls  BY DEF TypeOK
  <2>6. spaces.run # Null => call'[spaces.run].op = call[spaces.run].op
                             /\ call'[spaces.run].sender = call[spaces.run].sender
    BY <2>2, <2>5
  <2>7. CASE t # session.run
    BY <2>2, <2>3, <2>4, <2>6, <2>7, ElsewhereViews
  <2>8. CASE t = session.run
    <3>1. Coming' = Coming /\ Owner' = Owner  BY <2>2, <2>3, <2>6, <2>8 DEF Coming, Owner
    <3>2. Latest'  BY <2>2, <2>3, <2>6, <2>8 DEF Views, Latest
    <3>3. OneUser'  BY <2>3, <3>1 DEF Views, OneUser, Spared
    <3>4. Booted'
      BY <2>2, <2>3, <2>8 DEF Views, Booted, Spared, Usable
    <3> QED  BY <3>2, <3>3, <3>4 DEF Views
  <2> QED  BY <2>7, <2>8
<1>3. CASE End
  <2>1. /\ session' = session /\ spaces' = spaces /\ call' = call /\ disturbed' = disturbed \cup {"ended"}
        /\ cookie' \in {Null, cookie}
    BY <1>3 DEF End, Note
  <2>2. Coming' = Coming /\ Owner' = Owner  BY <2>1 DEF Coming, Owner
  <2>3. Latest'  BY <2>1 DEF Views, Latest
  <2>4. Booted'  BY <2>1 DEF Booted, Spared
  <2>5. OneUser'  BY <2>1, <2>2 DEF Views, OneUser, Spared
  <2> QED  BY <2>3, <2>4, <2>5 DEF Views
<1> QED  BY <1>1, <1>2, <1>3

\* An answer that leaves the session alone: the cookie may be another one, which is noted.
LEMMA StayViews ==
    ASSUME Views, session' = session, active' = active, disturbed \subseteq disturbed',
           cookie' = cookie \/ {"crossed", "mixed"} \subseteq disturbed',
           session.run # Null => call'[session.run] = call[session.run],
           Owner' \in {Null, Owner},
           spaces'.run # Null => call'[spaces'.run].op = "list"
    PROVE  Views'
<1>1. Latest'  BY DEF Views, Latest
<1>2. Coming' = Coming  BY DEF Coming
<1>3. Booted'
  <2>1. CASE cookie' = cookie
    BY <2>1 DEF Views, Booted, Spared, Usable, Known
  <2>2. CASE "crossed" \in disturbed'
    BY <2>2 DEF Booted, Spared
  <2> QED  BY <2>1, <2>2
<1>4. OneUser'
  <2>1. Spared({"mixed", "relogged"})' => Spared({"mixed", "relogged"})
    BY DEF Spared
  <2>2. Spared({"mixed", "relogged"})' /\ session.user # Null =>
            Owner' \in {Null, session.user} /\ Coming' \in {Null, session.user}
    BY <1>2, <2>1 DEF Views, OneUser
  <2>3. "mixed" \notin disturbed' /\ (session.run # Null \/ session.user # Null) => cookie' \in {Null, Coming'}
    BY <1>2 DEF Views, OneUser
  <2> QED  BY <2>2, <2>3 DEF OneUser
<1> QED  BY <1>1, <1>3, <1>4 DEF Views

LEMMA AnsweredCookie ==
    ASSUME NEW t \in Calls, Answered(t), ~(call[t].op \in {"login", "logout"} /\ call[t].answer = "ok")
    PROVE  cookie' = cookie \/ {"crossed", "mixed"} \subseteq disturbed'
BY DEF Answered, Arisen

\* The bootstrap that counts ends, having found the user of the cookie or nobody.
LEMMA SettledViews ==
    ASSUME TypeOK, Views, NEW t \in Calls, Answered(t), NEW user \in Users \cup {Null},
           Settled(t, cookie', user), call[t].op \in {"me", "settings"}, session.run = t,
           user \in {Null, Coming},
           Spared({"lost", "ended", "crossed"}) => user = Usable(cookie)
    PROVE  Views'
<1>0. cookie' \in Users \cup {Null} /\ t # Null /\ active' = active
  BY CookieType, SessionAssumption DEF Answered
<1>1. /\ session' = [status |-> IF user = Null THEN "unauthenticated" ELSE "authenticated",
                     user |-> user, run |-> Null]
  BY DEF Settled, Applied
<1>2. cookie' = cookie \/ {"crossed", "mixed"} \subseteq disturbed'
  BY AnsweredCookie
<1>3. Coming' = user  BY <1>1 DEF Coming
<1>4. Arisen(t) \subseteq disturbed' /\ disturbed \subseteq disturbed' \cup {"relogged"}
  BY <1>0, <1>1 DEF Answered, PutRight
<1>5. Booted'
  BY <1>0, <1>1, <1>2, <1>4 DEF Booted, Spared, Usable
<1>6. "mixed" \notin disturbed' => cookie' = cookie /\ cookie \in {Null, Coming}
  BY <1>0, <1>2, <1>4 DEF Views, OneUser
<1>7. spaces.run # t  BY <1>0 DEF Views, Latest
<1>8. CASE user # Null /\ session.status # "authenticated"
  <2>1. spaces' = [spaces EXCEPT !.run = t]
        /\ call' = [call EXCEPT ![t] = [NoCall EXCEPT !.op = "list", !.sender = cookie']]
    BY <1>1, <1>8 DEF Settled
  <2>2. spaces'.run = t /\ call'[t].op = "list" /\ call'[t].sender = cookie'
    BY <2>1 DEF TypeOK, NoCall
  <2>3. Latest'  BY <1>0, <1>1, <1>8, <2>2 DEF Latest
  <2>4. Owner' = cookie'  BY <1>0, <2>2 DEF Owner
  <2>5. OneUser'
    BY <1>1, <1>3, <1>6, <1>8, <2>4 DEF OneUser, Spared
  <2> QED  BY <1>5, <2>3, <2>5 DEF Views
<1>9. CASE user = Null \/ session.status = "authenticated"
  <2>1. spaces' = spaces /\ call' = [call EXCEPT ![t] = NoCall]
    <3>1. Applied(t, user).status = IF user = Null THEN "unauthenticated" ELSE "authenticated"
      BY DEF Applied
    <3>2. ~(Applied(t, user).status = "authenticated" /\ session.status # "authenticated")
      BY <1>9, <3>1
    <3> QED  BY <3>2 DEF Settled
  <2>2. spaces.run # Null => call'[spaces.run] = call[spaces.run]
    BY <1>7, <2>1 DEF TypeOK
  <2>3. Latest'  BY <1>1, <2>1, <2>2 DEF Views, Latest
  <2>4. Owner' = Owner  BY <2>1, <2>2 DEF Owner
  <2>5. Spared({"mixed", "relogged"})' => Spared({"mixed", "relogged"})
    BY <1>0, <2>1 DEF Spared, Answered, PutRight
  <2>6. user # Null => session.user # Null
    BY <1>9 DEF Views, Latest
  <2>7. Spared({"mixed", "relogged"})' /\ user # Null => Owner \in {Null, user}
    BY <2>5, <2>6 DEF Views, OneUser
  <2>8. "mixed" \notin disturbed' /\ user # Null => cookie' \in {Null, user}
    BY <1>6
  <2>9. OneUser'
    BY <1>1, <1>3, <2>4, <2>7, <2>8 DEF OneUser
  <2> QED  BY <1>5, <2>3, <2>9 DEF Views
<1> QED  BY <1>8, <1>9

\* A bootstrap that no longer counts ends, or one that counts goes on.
LEMMA SettledElsewhere ==
    ASSUME TypeOK, Views, NEW t \in Calls, Answered(t), NEW user,
           Settled(t, cookie', user), call[t].op \in {"me", "settings"}, session.run # t
    PROVE  Views'
<1>0. active' = active  BY DEF Answered
<1>1. session' = session /\ spaces' = spaces /\ call' = [call EXCEPT ![t] = NoCall]
  BY DEF Settled, Applied
<1>2. spaces.run # t  BY SessionAssumption DEF Views, Latest
<1>3. session.run # Null => call'[session.run] = call[session.run]  BY <1>1 DEF TypeOK
<1>4. spaces.run # Null => call'[spaces.run] = call[spaces.run]  BY <1>1, <1>2 DEF TypeOK
<1>5. Owner' = Owner  BY <1>1, <1>4 DEF Owner
<1>6. disturbed \subseteq disturbed'  BY <1>1, <1>2 DEF Answered, PutRight
<1>7. spaces'.run # Null => call'[spaces'.run].op = "list"  BY <1>1, <1>4 DEF Views, Latest
<1> QED  BY <1>0, <1>1, <1>3, <1>5, <1>6, <1>7, AnsweredCookie, StayViews


LEMMA AnsweredViews == ASSUME TypeOK, Views, NEW t \in Calls, Answered(t) PROVE Views'
<1> DEFINE c == call[t]
<1>0. /\ cookie' \in Users \cup {Null} /\ active' = active /\ c \in Call /\ c.answer # "none"
      /\ t # Null /\ Null \notin active
  BY CookieType, SessionAssumption DEF Answered, TypeOK
<1>1. CASE MeAnswered(t, cookie')
  <2>1. c.op = "me"  BY <1>1 DEF MeAnswered
  <2>2. CASE c.answer = "ok"
    <3>1. /\ session' = session /\ spaces' = spaces
          /\ call' = [call EXCEPT ![t].op = "settings", ![t].user = call[t].sender,
                                  ![t].sender = cookie', ![t].answer = "none"]
      BY <1>1, <2>2 DEF MeAnswered
    <3>2. /\ \A x \in Calls \ {t} : call'[x] = call[x]
          /\ call'[t].op = "settings" /\ call'[t].user = c.sender /\ call'[t].answer = "none"
      BY <3>1 DEF TypeOK, Call
    <3>3. cookie' = cookie \/ {"crossed", "mixed"} \subseteq disturbed'
      BY <2>1, AnsweredCookie
    <3>4. disturbed \subseteq disturbed'
      BY <3>1 DEF Answered, PutRight
    <3>5. spaces.run # t  BY <1>0, <2>1 DEF Views, Latest
    <3>6. spaces.run # Null => spaces.run \in Calls /\ call'[spaces.run] = call[spaces.run]
      BY <3>2, <3>5 DEF TypeOK
    <3>7. Owner' = Owner
      <4>1. spaces' = spaces  BY <3>1
      <4> QED  BY <3>6, <4>1 DEF Owner
    <3>8. spaces'.run # Null => call'[spaces'.run].op = "list"  BY <3>1, <3>6 DEF Views, Latest
    <3>9. CASE session.run # t
      <4>1. session.run # Null => call'[session.run] = call[session.run]
        BY <3>2, <3>9 DEF TypeOK
      <4> QED  BY <1>0, <3>1, <3>3, <3>4, <3>7, <3>8, <4>1, StayViews
    <3>10. CASE session.run = t
      <4>1. Coming' = Coming  BY <1>0, <2>1, <3>1, <3>2, <3>10 DEF Coming
      <4>2. Latest'  BY <3>1, <3>2, <3>6, <3>10 DEF Views, Latest
      <4>3. Spared({"lost", "ended", "crossed"}) => c.sender = cookie /\ Known(c)
        BY <1>0, <2>1, <2>2, <3>10 DEF Views, Booted
      <4>4. Booted'
        BY <1>0, <3>1, <3>2, <3>3, <3>4, <3>10, <4>3 DEF Booted, Spared, Usable, Known
      <4>5. Spared({"mixed", "relogged"})' => Spared({"mixed", "relogged"})
        BY <3>4 DEF Spared
      <4>6. Spared({"mixed", "relogged"})' /\ session.user # Null =>
                Owner' \in {Null, session.user} /\ Coming' \in {Null, session.user}
        BY <3>7, <4>1, <4>5 DEF Views, OneUser
      <4>7. "mixed" \notin disturbed' => cookie' \in {Null, Coming'}
        BY <1>0, <3>3, <3>4, <3>10, <4>1 DEF Views, OneUser
      <4>8. OneUser'  BY <3>1, <4>6, <4>7 DEF OneUser
      <4> QED  BY <4>2, <4>4, <4>8 DEF Views
    <3> QED  BY <3>9, <3>10
  <2>3. CASE c.answer # "ok"
    <3>1. Settled(t, cookie', Null)  BY <1>1, <2>3 DEF MeAnswered
    <3>2. session.run = t /\ Spared({"lost", "ended", "crossed"}) => Null = Usable(cookie)
      <4>1. session.run = t /\ Spared({"lost", "ended", "crossed"}) =>
                c.sender = cookie /\ c.answer # "lost" /\ (c.answer = "refused" => ~Known(c))
        BY <1>0, <2>1 DEF Views, Booted
      <4>2. c.answer # "lost" => c.answer = "refused"
        BY <1>0, <2>3 DEF Call
      <4> QED  BY <1>0, <4>1, <4>2 DEF Known, Usable
    <3> QED  BY <2>1, <3>1, <3>2, SettledViews, SettledElsewhere
  <2> QED  BY <2>2, <2>3
<1>2. CASE SettingsAnswered(t, cookie')
  <2>1. c.op = "settings" /\ Settled(t, cookie', c.user)  BY <1>2 DEF SettingsAnswered
  <2>2. c.user \in Users \cup {Null}  BY <1>0 DEF Call
  <2>3. session.run = t => Coming = c.user  BY <1>0, <2>1 DEF Coming
  <2>4. session.run = t /\ Spared({"lost", "ended", "crossed"}) => c.user = Usable(cookie)
    BY <1>0, <2>1 DEF Views, Booted
  <2> HIDE DEF c
  <2>5. CASE session.run = t
    <3>1. c.user \in {Null, Coming}  BY <2>3, <2>5
    <3> QED  BY <2>1, <2>2, <2>4, <2>5, <3>1, SettledViews DEF c
  <2>6. CASE session.run # t
    BY <2>1, <2>6, SettledElsewhere DEF c
  <2> QED  BY <2>5, <2>6
<1>3. CASE AuthAnswered(t, cookie')
  <2>1. c.op \in {"login", "logout"} /\ spaces' = spaces  BY <1>3 DEF AuthAnswered
  <2>2. session.run # t /\ spaces.run # t  BY <1>0, <2>1 DEF Views, Latest
  <2>3. CASE c.answer = "ok"
    <3>1. /\ session' = [session EXCEPT !.run = t]
          /\ call' = [call EXCEPT ![t].op = "me", ![t].sender = cookie', ![t].user = Null,
                                  ![t].answer = "none", ![t].next = call[t].op]
      BY <1>3, <2>3 DEF AuthAnswered
    <3>2. /\ \A x \in Calls \ {t} : call'[x] = call[x]
          /\ call'[t].op = "me" /\ call'[t].sender = cookie' /\ call'[t].answer = "none"
      BY <3>1 DEF TypeOK, Call
    <3>3. session'.run = t /\ session'.user = session.user /\ session'.status = session.status
      BY <3>1 DEF TypeOK
    <3>4. spaces.run # Null => call'[spaces.run] = call[spaces.run]
      BY <2>2, <3>2 DEF TypeOK
    <3>5. Coming' = cookie' /\ Owner' = Owner
      <4>1. Coming' = cookie'  BY <1>0, <3>2, <3>3 DEF Coming
      <4>2. spaces' = spaces  BY <2>1
      <4>3. Owner' = Owner  BY <3>4, <4>2 DEF Owner
      <4> QED  BY <4>1, <4>3
    <3>6. Latest'
      <4>1. spaces' = spaces /\ t # Null  BY <1>0, <2>1
      <4> QED  BY <3>2, <3>3, <3>4, <4>1 DEF Views, Latest
    <3>7. Booted'  BY <1>0, <3>2, <3>3 DEF Booted
    <3>8. Spared({"mixed", "relogged"})' => Spared({"mixed", "relogged"})
      BY <2>1 DEF Spared, Answered, PutRight
    <3>9. Spared({"mixed", "relogged"})' /\ session.user # Null => cookie' \in {Null, session.user}
      <4>1. CASE c.op = "login"
        <5>1. session.user # Null => session.status = "authenticated"  BY DEF Views, Latest
        <5> QED  BY <3>3, <4>1, <5>1 DEF Answered, Arisen, Spared
      <4>2. CASE c.op = "logout"
        BY <2>3, <4>2 DEF Answered, CookiesAfter
      <4> QED  BY <2>1, <4>1, <4>2
    <3>10. OneUser'
      BY <3>3, <3>5, <3>8, <3>9 DEF Views, OneUser
    <3> QED  BY <3>6, <3>7, <3>10 DEF Views
  <2>4. CASE c.answer # "ok"
    <3>1. session' = session /\ call' = [call EXCEPT ![t] = NoCall]
      BY <1>3, <2>4 DEF AuthAnswered
    <3>2. session.run # Null => call'[session.run] = call[session.run]  BY <2>2, <3>1 DEF TypeOK
    <3>3. spaces.run # Null => call'[spaces.run] = call[spaces.run]  BY <2>2, <3>1 DEF TypeOK
    <3>4. Owner' = Owner  BY <2>1, <3>3 DEF Owner
    <3>5. disturbed \subseteq disturbed'  BY <2>1, <3>1 DEF Answered, PutRight
    <3>6. spaces'.run # Null => call'[spaces'.run].op = "list"  BY <2>1, <3>3 DEF Views, Latest
    <3>7. cookie' = cookie \/ {"crossed", "mixed"} \subseteq disturbed'
      BY <2>4, AnsweredCookie
    <3> QED  BY <1>0, <3>1, <3>2, <3>4, <3>5, <3>6, <3>7, StayViews
  <2> QED  BY <2>3, <2>4
<1>4. CASE PageAnswered(t)
  <2>1. /\ c.op \in {"list", "work"} /\ session' = session /\ call' = [call EXCEPT ![t] = NoCall]
        /\ spaces' = IF c.op = "list" THEN Listed(t) ELSE spaces
    BY <1>4 DEF PageAnswered
  <2>2. session.run # t  BY <1>0, <2>1 DEF Views, Latest
  <2>3. session.run # Null => call'[session.run] = call[session.run]  BY <2>1, <2>2 DEF TypeOK
  <2>4. spaces'.run # t /\ (spaces'.run # Null => spaces' = spaces)
    BY <1>0, <2>1 DEF Listed, Views, Latest
  <2>5. spaces'.run # Null => call'[spaces'.run] = call[spaces'.run]  BY <2>1, <2>4 DEF TypeOK
  <2>6. spaces'.run # Null => call'[spaces'.run].op = "list"  BY <2>4, <2>5 DEF Views, Latest
  <2>7. Owner' \in {Null, Owner}
    <3>1. CASE spaces' = spaces
      BY <2>5, <3>1 DEF Owner
    <3>2. CASE spaces' # spaces
      BY <1>0, <2>1, <3>2 DEF Owner, Listed
    <3> QED  BY <3>1, <3>2
  <2>8. disturbed \subseteq disturbed'  BY <2>1, <2>4 DEF Answered, PutRight
  <2>9. cookie' = cookie \/ {"crossed", "mixed"} \subseteq disturbed'
    BY <2>1, AnsweredCookie
  <2> QED  BY <1>0, <2>1, <2>3, <2>6, <2>7, <2>8, <2>9, StayViews
<1> QED  BY <1>1, <1>2, <1>3, <1>4 DEF Answered

LEMMA ViewsAlways == Spec => []Views
<1>1. TypeOK /\ Views /\ [Next]_vars => Views'
  <2> SUFFICES ASSUME TypeOK, Views, [Next]_vars PROVE Views'
    OBVIOUS
  <2>1. CASE UNCHANGED vars
    BY <2>1, ElsewhereViews DEF vars
  <2>2. CASE Next
    BY <2>2, UserViews, ServerViews, AnsweredViews DEF Next
  <2> QED  BY <2>1, <2>2
<1> QED  BY <1>1, InitViews, TypeCorrect, PTL DEF Spec

\* In whichever order logins, logouts and bootstraps are answered, when nothing is under
\* way the client takes for logged in the user the server knows by the cookie.
THEOREM ShowsCookie == Spec => []SessionShowsCookie
<1>1. TypeOK /\ Views => SessionShowsCookie
  <2> SUFFICES ASSUME TypeOK, Views, Quiet, Spared({"lost", "ended", "crossed"})
      PROVE  /\ session.user = Usable(cookie)
             /\ session.status = IF session.user = Null THEN "unauthenticated" ELSE "authenticated"
    BY DEF SessionShowsCookie, Usable
  <2>1. session.run = Null  BY DEF TypeOK, Quiet, Views, Latest
  <2>2. session.user = Usable(cookie)  BY <2>1 DEF Views, Booted
  <2>3. session.status \in {"authenticated", "unauthenticated"}  BY <2>1 DEF TypeOK, Views, Latest
  <2> QED  BY <2>2, <2>3 DEF Views, Latest
<1> QED  BY <1>1, ViewsAlways, TypeCorrect, PTL

\* The workspaces listed are those of the user logged in, also after a change of user
\* while an earlier list was on its way.
THEOREM ListsOwn == Spec => []ListOwn
<1>1. TypeOK /\ Views => ListOwn
  <2> SUFFICES ASSUME TypeOK, Views, Quiet, session.user # Null, Spared({"mixed", "relogged"})
      PROVE  spaces.of \in {Null, session.user}
    BY DEF ListOwn
  <2>1. spaces.run = Null  BY DEF TypeOK, Quiet, Views, Latest
  <2> QED  BY <2>1 DEF Views, OneUser, Owner
<1> QED  BY <1>1, ViewsAlways, TypeCorrect, PTL

=============================================================================
