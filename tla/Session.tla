------------------------------ MODULE Session ------------------------------
(***************************************************************************)
(* Who is logged in: the session cookie of a browser, what the client      *)
(* takes the session to be (SessionProvider), where its router stands      *)
(* (ProtectedRoute, the 401 interceptor of apiRequest), login and logout,  *)
(* and the list of workspaces loaded for the user.                         *)
(*                                                                         *)
(* What the client does between two awaits is one step.  A call is one     *)
(* asynchronous function at one of its requests; a request carries the     *)
(* cookie there was when it was sent, and its answer may set the cookie    *)
(* again (the session is kept in the cookie alone).  The client stays      *)
(* loaded in one tab; pages are named by their paths.                      *)
(***************************************************************************)
EXTENDS Integers, FiniteSets, TLC, Ids

CONSTANTS
    Users,
    Pages,        \* protected pages
    Home,         \* the page a login leads to if none was asked for
    Calls,        \* slots for functions in flight, numbers
    MaxActs,      \* bound on what the user starts
    MaxFaults,    \* bound on answers lost, sessions expired and accounts closed
    Null

ASSUME SessionAssumption ==
    /\ Home \in Pages /\ "login" \notin Pages /\ Null \notin Users \cup Pages \cup Calls
    /\ Calls \subseteq Nat /\ Calls # {} /\ MaxActs \in Nat /\ MaxFaults \in Nat

VARIABLES
    active,       \* the accounts that are active and not deleted
    cookie,       \* the user in the session cookie
    session,      \* SessionState, and the call whose result counts (runIdRef)
    place,        \* the page shown or "login", the page to come back to, and the
                  \* call that its form or the logout button waits for
    spaces,       \* whose list CurrentWorkspaceProvider has, and its latest load
    call,
    acts, faults, \* how much the user started, how much went wrong
    asked,        \* history: the page the user asked for last
    disturbed     \* history: what has happened that the properties speak of

vars == <<active, cookie, session, place, spaces, call, acts, faults, asked, disturbed>>

\* The requests of which a function is made; "work" is any request of a page.
Ops == {"me", "settings", "list", "login", "logout", "work"}
\* sender: the cookie sent.  user: who logs in, then whom /auth/me has named.
\* answer: the outcome.  next: what waits for the bootstrap.  back: where login leads.
Call == [op: Ops \cup {"none"}, sender: Users \cup {Null}, user: Users \cup {Null},
         answer: {"none", "ok", "refused", "lost"}, next: {"none", "login", "logout"}, back: Pages]
NoCall == [op |-> "none", sender |-> Null, user |-> Null, answer |-> "none", next |-> "none", back |-> Home]

\* What a property about the session, the list or the router makes an exception for:
\* /auth/me was lost; the session ended by itself; an answer set the cookie although
\* another had set it meanwhile; another user logged in over a session that was not
\* ended; the user went elsewhere while a login was under way.
Causes == {"lost", "ended", "crossed", "mixed", "relogged", "turned"}

Place == [page: Pages \cup {"login"}, back: Pages, busy: Calls \cup {Null}]

Note(causes) == disturbed' = disturbed \cup causes
Fault(n) == faults' = faults + n /\ faults' <= MaxFaults

---------------------------------------------------------------------------
(***************************************************************************)
(* The server.                                                             *)
(***************************************************************************)
\* get_current_user: the user of the cookie, if the account may be used.
Known(c) == c.sender # Null /\ c.sender \in active

\* A request is handled: authenticate looks at the account (and at the password, which
\* may be wrong), the other handlers ask for a current user.
Serve(t) ==
    LET c == call[t] IN
    /\ c.op # "none" /\ c.answer = "none"
    /\ \E answer \in IF c.op = "login" THEN {"refused"} \cup (IF c.user \in active THEN {"ok"} ELSE {})
                     ELSE {IF Known(c) THEN "ok" ELSE "refused"} :
          call' = [call EXCEPT ![t].answer = answer]
    /\ UNCHANGED <<active, cookie, session, place, spaces, acts, faults, asked, disturbed>>

\* The request or its answer is lost.
Lose(t) ==
    /\ call[t].op # "none" /\ call[t].answer # "lost" /\ Fault(1)
    /\ call' = [call EXCEPT ![t].answer = "lost"]
    /\ Note(IF call[t].op = "me" THEN {"lost"} ELSE {})
    /\ UNCHANGED <<active, cookie, session, place, spaces, acts, asked>>

\* The cookies with which an answer can leave the browser: a login sets it, a logout
\* clears it, any other answer may renew the one that was sent (SessionMiddleware).
CookiesAfter(c) ==
    CASE c.answer = "lost" -> {cookie}
      [] c.op = "login" /\ c.answer = "ok" -> {c.user}
      [] c.op = "logout" /\ c.answer = "ok" -> {Null}
      [] OTHER -> {cookie} \cup (IF c.sender = Null THEN {} ELSE {c.sender})

\* A session ends by itself: the cookie expires or the account is closed.
End ==
    /\ Fault(1)
    /\ \/ cookie # Null /\ cookie' = Null /\ UNCHANGED active
       \/ \E u \in active : active' = active \ {u} /\ UNCHANGED cookie
    /\ Note({"ended"})
    /\ UNCHANGED <<session, place, spaces, call, acts, asked>>

---------------------------------------------------------------------------
(***************************************************************************)
(* The client.                                                             *)
(***************************************************************************)
Slots == {t \in Calls : call[t].op = "none"}

\* Where the router stands: at a page, or at the login page that leads there.
Where(at) == IF at.page = "login" THEN at.back ELSE at.page

\* buildLoginPath: the login page, and the page to come back to.
ToLogin(back) == [page |-> "login", back |-> back, busy |-> Null]

\* ProtectedRoute: a protected page turns into the login page when nobody is logged in.
Guarded(at, status) ==
    IF at.page # "login" /\ status = "unauthenticated" THEN ToLogin(at.page) ELSE at

\* Mutant: the page left is noted even on the login page.
RedirectedAgain(c) ==
    IF c.answer = "refused" /\ c.op \notin {"me", "login"}
    THEN ToLogin(IF place.page = "login" THEN Home ELSE place.page) ELSE place

\* The interceptor of apiRequest: a 401 leads to the login page, unless the caller
\* asked otherwise or the page is that one already.
Redirected(c) ==
    IF c.answer = "refused" /\ c.op \notin {"me", "login"} /\ place.page # "login"
    THEN ToLogin(place.page) ELSE place

\* Mutant: any bootstrap counts.
AppliedLate(t, user) ==
    [session EXCEPT !.status = IF user = Null THEN "unauthenticated" ELSE "authenticated", !.user = user]

\* apply of bootstrap: the latest counts.
Applied(t, user) ==
    IF session.run # t THEN session
    ELSE [status |-> IF user = Null THEN "unauthenticated" ELSE "authenticated", user |-> user, run |-> Null]

\* Where a function leads that waited for a bootstrap.
Led(c) ==
    CASE c.next = "login"  -> [page |-> c.back, back |-> Home, busy |-> Null]
      [] c.next = "logout" -> [place EXCEPT !.page = "login", !.back = Home]
      [] OTHER             -> Redirected(c)

\* A call that ends leaves the form or the button that waited for it usable again.
Freed(t, at) == IF at.busy = t THEN [at EXCEPT !.busy = Null] ELSE at

\* The end of a bootstrap, with the user it found.  The list of workspaces is loaded
\* when the status turns to authenticated, not when the user changes.
Settled(t, cookieAfter, user) ==
    LET c == call[t]
        after == Applied(t, user)
        loads == after.status = "authenticated" /\ session.status # "authenticated" IN
    /\ session' = after
    /\ place' = Freed(t, Guarded(Led(c), after.status))
    /\ spaces' = IF loads THEN [spaces EXCEPT !.run = t] ELSE spaces
    /\ call' = [call EXCEPT ![t] = IF loads THEN [NoCall EXCEPT !.op = "list", !.sender = cookieAfter] ELSE NoCall]
    /\ asked' = IF c.next = "logout" THEN Home ELSE asked

\* bootstrap after /auth/me: without a user it ends, else the settings are read.
MeAnswered(t, cookieAfter) ==
    /\ call[t].op = "me"
    /\ IF call[t].answer = "ok"
       THEN /\ call' = [call EXCEPT ![t].op = "settings", ![t].user = call[t].sender,
                                    ![t].sender = cookieAfter, ![t].answer = "none"]
            /\ UNCHANGED <<session, place, spaces, asked>>
       ELSE Settled(t, cookieAfter, Null)

\* ... after the settings, which may fail.
SettingsAnswered(t, cookieAfter) == call[t].op = "settings" /\ Settled(t, cookieAfter, call[t].user)

\* The submit of useLogin and useLogout after their request: bootstrap.
AuthAnswered(t, cookieAfter) ==
    LET c == call[t] IN
    /\ c.op \in {"login", "logout"}
    /\ IF c.answer = "ok"
       THEN /\ call' = [call EXCEPT ![t].op = "me", ![t].sender = cookieAfter, ![t].user = Null,
                                    ![t].answer = "none", ![t].next = c.op]
            /\ session' = [session EXCEPT !.run = t]
            /\ UNCHANGED place
       ELSE /\ call' = [call EXCEPT ![t] = NoCall]
            /\ place' = Freed(t, Redirected(c))
            /\ UNCHANGED session
    /\ UNCHANGED <<spaces, asked>>

\* Mutant: any load of the list counts.
ListedLate(t) == [spaces EXCEPT !.of = IF call[t].answer = "ok" THEN call[t].sender ELSE Null]

\* load of CurrentWorkspaceProvider: the latest counts; one that failed leaves no list.
Listed(t) ==
    IF spaces.run # t THEN spaces
    ELSE [of |-> IF call[t].answer = "ok" THEN call[t].sender ELSE Null, run |-> Null]

\* The list of workspaces or the request of a page is answered.
PageAnswered(t) ==
    LET c == call[t] IN
    /\ c.op \in {"list", "work"}
    /\ spaces' = IF c.op = "list" THEN Listed(t) ELSE spaces
    /\ place' = Redirected(c)
    /\ call' = [call EXCEPT ![t] = NoCall]
    /\ UNCHANGED <<session, asked>>

LoginOpen == \E t \in Calls : call[t].op = "login" \/ call[t].next = "login"

\* What an answer gives rise to, and what its consequences put right: a bootstrap begun
\* after a login or a logout, a list loaded anew.
Arisen(t) ==
    (IF cookie' # cookie /\ ~(call[t].op \in {"login", "logout"} /\ call[t].answer = "ok")
     THEN {"crossed", "mixed"} ELSE {})
    \cup (IF session.status = "authenticated" /\ session'.run = t /\ call[t].op = "login"
              /\ cookie' # session.user
           THEN {"relogged"} ELSE {})
    \cup (IF asked' # asked /\ LoginOpen THEN {"turned"} ELSE {})

PutRight(t) ==
    (IF session'.run = t /\ session.run # t THEN {"lost", "ended", "crossed"} ELSE {})
    \cup (IF spaces'.run = t /\ spaces.run # t THEN {"relogged"} ELSE {})

\* An answer arrives: first the cookie, then the function that waits for it goes on.
Answered(t) ==
    /\ call[t].answer # "none"
    /\ cookie' \in CookiesAfter(call[t])
    /\ \/ MeAnswered(t, cookie') \/ SettingsAnswered(t, cookie')
       \/ AuthAnswered(t, cookie') \/ PageAnswered(t)
    /\ disturbed' = (disturbed \ PutRight(t)) \cup Arisen(t)
    /\ UNCHANGED <<active, acts, faults>>

---------------------------------------------------------------------------
(***************************************************************************)
(* The user.                                                               *)
(***************************************************************************)
Send(c) == Slots # {} /\ call' = [call EXCEPT ![Least(Slots)] = [c EXCEPT !.sender = cookie]]

Act == acts < MaxActs /\ acts' = acts + 1 /\ UNCHANGED <<active, cookie, faults>>

\* A page is asked for, by a link or by going back; the header stays from page to page.
Visit(p) ==
    /\ Act
    /\ place' = Guarded([page |-> p, back |-> Home, busy |-> IF place.page = "login" THEN Null ELSE place.busy],
                        session.status)
    /\ asked' = p
    /\ Note(IF LoginOpen THEN {"turned"} ELSE {})
    /\ UNCHANGED <<session, spaces, call>>

\* LoginForm: its button is disabled while a login is under way.
Login(u) ==
    /\ place.page = "login" /\ place.busy = Null
    /\ Act
    /\ Send([NoCall EXCEPT !.op = "login", !.user = u, !.back = place.back])
    /\ place' = [place EXCEPT !.busy = Least(Slots)]
    /\ UNCHANGED <<session, spaces, asked, disturbed>>

\* What the header and the pages offer to who is logged in.
Inside == place.page # "login" /\ session.status = "authenticated"

\* LogoutButton: one logout at a time.
Logout ==
    /\ Inside /\ place.busy = Null
    /\ Act
    /\ Send([NoCall EXCEPT !.op = "logout"])
    /\ place' = [place EXCEPT !.busy = Least(Slots)]
    /\ UNCHANGED <<session, spaces, asked, disturbed>>

\* Any request of a page, a change of the password among them.
Work ==
    /\ Inside
    /\ Act
    /\ Send([NoCall EXCEPT !.op = "work"])
    /\ UNCHANGED <<session, place, spaces, asked, disturbed>>

\* The list of workspaces is loaded again (refresh).
Reload ==
    /\ Inside
    /\ Act
    /\ Send([NoCall EXCEPT !.op = "list"])
    /\ spaces' = [spaces EXCEPT !.run = Least(Slots)]
    /\ disturbed' = IF session.run = Null THEN disturbed \ {"relogged"} ELSE disturbed
    /\ UNCHANGED <<session, place, asked>>

---------------------------------------------------------------------------
\* The client has just been loaded at some page, with the cookie of an earlier session
\* or none; SessionProvider calls bootstrap.
Init ==
    /\ active = Users
    /\ cookie \in Users \cup {Null}
    /\ place \in {ToLogin(p) : p \in Pages} \cup [page : Pages, back : {Home}, busy : {Null}]
    /\ session = [status |-> "loading", user |-> Null, run |-> Least(Calls)]
    /\ spaces = [of |-> Null, run |-> Null]
    /\ call = [t \in Calls |-> IF t = Least(Calls) THEN [NoCall EXCEPT !.op = "me", !.sender = cookie] ELSE NoCall]
    /\ acts = 0 /\ faults = 0
    /\ asked = Where(place)
    /\ disturbed = {}

User == (\E p \in Pages : Visit(p)) \/ (\E u \in Users : Login(u)) \/ Logout \/ Work \/ Reload

Next == User \/ End \/ \E t \in Calls : Serve(t) \/ Lose(t) \/ Answered(t)

Spec == Init /\ [][Next]_vars

---------------------------------------------------------------------------
(***************************************************************************)
(* Properties.                                                             *)
(***************************************************************************)
TypeOK ==
    /\ active \subseteq Users
    /\ cookie \in Users \cup {Null}
    /\ session \in [status: {"loading", "authenticated", "unauthenticated"},
                    user: Users \cup {Null}, run: Calls \cup {Null}]
    /\ place \in Place
    /\ spaces \in [of: Users \cup {Null}, run: Calls \cup {Null}]
    /\ call \in [Calls -> Call]
    /\ acts \in 0..MaxActs /\ faults \in 0..MaxFaults
    /\ asked \in Pages
    /\ disturbed \subseteq Causes

Quiet == \A t \in Calls : call[t].op = "none"

Spared(causes) == disturbed \cap causes = {}

\* When nothing is under way the client takes for logged in the user whom the server
\* knows by the cookie, and nobody if there is none: bootstraps of overlapping logins
\* and logouts end with the right one (the latest of SessionProvider counts).
SessionShowsCookie ==
    Quiet /\ Spared({"lost", "ended", "crossed"})
        => /\ session.user = IF cookie \in active THEN cookie ELSE Null
           /\ session.status = IF session.user = Null THEN "unauthenticated" ELSE "authenticated"

\* When nothing is under way the workspaces listed are those of the user logged in, also
\* after a change of user while an earlier list was on its way (CurrentWorkspaceProvider).
ListOwn ==
    Quiet /\ session.user # Null /\ Spared({"mixed", "relogged"})
        => spaces.of \in {Null, session.user}

\* However many requests are refused, and in whichever order logins, redirects and
\* bootstraps end, the router stands at the page the user asked for last, or at the
\* login page that leads there (the interceptor of apiRequest, ProtectedRoute, useLogin).
ReturnsWhereAsked ==
    Spared({"turned"}) => Where(place) = asked

\* The users are alike.
UserSymmetry == Permutations(Users)
=============================================================================
