------------------------------- MODULE Browser -------------------------------
(***************************************************************************)
(* The browser's side of a session: the axios instance of api.js with its  *)
(* access token and refresh lock, auth.service.js, the AuthProvider of     *)
(* auth.context.jsx and the socket singleton of socket.js, for tabs that   *)
(* share one cookie jar and one localStorage.                              *)
(*                                                                         *)
(* JavaScript runs one task at a time: an action is a task, from a click,  *)
(* a timer or an answer to the next await, together with the effect React  *)
(* runs after it.  The request interceptor is a microtask, so a call takes *)
(* the token the task that makes it leaves behind.  The server is reduced  *)
(* to one step per call (Sessions has its handlers), and the network may   *)
(* lose a call, or its answer, at any time.                                *)
(*                                                                         *)
(* Left out: toasts, form contents, register (which ends as login does),   *)
(* and the public pages other than the login page.                         *)
(***************************************************************************)
EXTENDS Integers, FiniteSets

CONSTANTS
    Tabs,       \* the tabs open on the application
    Users,      \* the people who use this browser
    NoUser,
    Slots,      \* bound: calls a tab has in flight at one time
    Stamps      \* bound: refresh tokens of a user in use at one time

ASSUME NoUserAssumption == NoUser \notin Users
ASSUME SlotsAssumption == Slots # {}
ASSUME StampsAssumption ==
    /\ Stamps \subseteq Nat \ {0}
    /\ IsFiniteSet(Tabs) /\ IsFiniteSet(Slots)
    /\ IsFiniteSet(Stamps) => Cardinality(Stamps) > Cardinality(Tabs) * Cardinality(Slots) + 2

VARIABLES
    tab,        \* what each tab holds in memory
    call,       \* the calls each tab has in flight
    cookie,     \* the refresh token in the cookie jar
    storedUser, \* localStorage's 'user'
    live        \* the server: the refresh token each user's session stands on

vars == <<tab, call, cookie, storedUser, live>>

\* Refresh tokens; a stamp tells two of one user apart.  Of an access token
\* only its user matters, and whether it has expired where it is kept.
Tokens == [user : Users, stamp : Stamps]
NoToken == [user |-> NoUser, stamp |-> 0]

NoSocket == [user |-> NoUser, connected |-> FALSE]

\* initialState of the context, and the modules' variables after a page load.
BlankTab ==
    [mounted |-> FALSE,       \* AuthProvider has run its first effects
     access  |-> NoUser,      \* whose _accessToken is
     fresh   |-> FALSE,       \* isTokenValid(_accessToken)
     lock    |-> FALSE,       \* _refreshing # null
     user    |-> NoUser,      \* state.user, and NoUser is not isAuthenticated
     loading |-> FALSE,
     timer   |-> FALSE,       \* expiryTimerRef
     socket  |-> NoSocket]    \* _socket and whose token its handshake carries

Free == [phase |-> "free"]

-----------------------------------------------------------------------------
(* Small operators.                                                        *)

Assign(a, set) == [f \in DOMAIN a |-> IF f \in DOMAIN set THEN set[f] ELSE a[f]]

FreeSlots(t) == {c \in Slots : call[t][c] = Free}
InFlight == {x \in Tabs \X Slots : call[x[1]][x[2]] # Free}
The(x) == call[x[1]][x[2]]

InUse ==
    {cookie} \cup {[user |-> u, stamp |-> live[u]] : u \in Users} \cup {The(x).refresh : x \in InFlight}

\* A refresh token unlike those in use (its jti is new).
Fresh(u) ==
    [user |-> u, stamp |-> CHOOSE s \in Stamps : [user |-> u, stamp |-> s] \notin InUse]

\* tokenStore.setAccess and clearAccess; the localStorage half of the latter
\* is next to its uses.
Having(a, user) == Assign(a, [access |-> user, fresh |-> TRUE])
Cleared(a) == Assign(a, [access |-> NoUser, fresh |-> FALSE])

\* The request interceptor: whose token goes into the header.
Header(a) == IF a.fresh THEN a.access ELSE NoUser

\* A call as api() sends it.
Sent(kind, user, header) ==
    [phase |-> "sent", kind |-> kind, user |-> user, header |-> header,
     retried |-> FALSE, refresh |-> NoToken]

\* Calls of the tab after slot c is set to q.
With(t, c, q) == [call EXCEPT ![t][c] = q]

\* socketManager.connect
Connect(s, user) == IF s.connected THEN s ELSE [user |-> user, connected |-> FALSE]

\* Mutant: the timer is only started for a token that has expired.
ClockedTooLate(a) == ~a.fresh

\* scheduleExpiry sets the timer unless the token has expired.
Clocked(a) == a.fresh

\* dispatch LOGIN_SUCCESS and the effect on state.token; scheduleExpiry.
SignedIn(a, user) ==
    Assign(a, [user |-> user, loading |-> FALSE, timer |-> Clocked(a),
               socket |-> Connect(a.socket, a.access)])

\* dispatch LOGOUT or LOGIN_FAILURE.  The effect disconnects the socket only
\* when state.token was not null before.
SignedOut(a) ==
    Assign(a, [user |-> NoUser, loading |-> FALSE,
               socket |-> IF a.user = NoUser THEN a.socket ELSE NoSocket])

-----------------------------------------------------------------------------
(* The person at the browser.                                              *)

\* The page shown when nobody is signed in offers the form; its button is
\* disabled while a login is on its way.
SubmitLogin(t, c) ==
    /\ tab[t].mounted /\ tab[t].user = NoUser /\ ~tab[t].loading
    /\ call[t][c] = Free
    /\ tab' = [tab EXCEPT ![t].loading = TRUE]
    /\ \/ \E u \in Users : call' = With(t, c, Sent("login", u, Header(tab[t])))
       \/ call' = With(t, c, Sent("mistyped", NoUser, Header(tab[t])))
    /\ UNCHANGED <<cookie, storedUser, live>>

\* A page fetches or changes something.  One slot stays free for a logout.
UsePage(t, c) ==
    /\ tab[t].user # NoUser
    /\ call[t][c] = Free /\ Cardinality(FreeSlots(t)) > 1
    /\ call' = With(t, c, Sent("api", NoUser, Header(tab[t])))
    /\ UNCHANGED <<tab, cookie, storedUser, live>>

\* authService.logout, then LOGOUT: the tokens are cleared in the same task,
\* so the interceptor finds none for the call.
SignOut(t, c) ==
    /\ call[t][c] = Free
    /\ tab' = [tab EXCEPT ![t] = Assign(SignedOut(Cleared(@)), [timer |-> FALSE])]
    /\ call' = With(t, c, Sent("logout", NoUser, Header(tab'[t])))
    /\ storedUser' = NoUser
    /\ UNCHANGED <<cookie, live>>

Logout(t, c) == tab[t].user # NoUser /\ SignOut(t, c)

\* The page is loaded anew: memory and calls are gone.
PageLoad(t) ==
    /\ tab' = [tab EXCEPT ![t] = BlankTab]
    /\ call' = [call EXCEPT ![t] = [c \in Slots |-> Free]]

Reload(t) ==
    /\ tab[t].mounted
    /\ PageLoad(t)
    /\ UNCHANGED <<cookie, storedUser, live>>

\* The user kept in localStorage is restored by a call that is bound to be
\* refused and to refresh.
Mount(t) ==
    /\ ~tab[t].mounted
    /\ tab' = [tab EXCEPT ![t].mounted = TRUE]
    /\ call' = IF storedUser = NoUser THEN call
               ELSE With(t, CHOOSE c \in Slots : TRUE, Sent("profile", storedUser, Header(tab[t])))
    /\ UNCHANGED <<cookie, storedUser, live>>

-----------------------------------------------------------------------------
(* The server, one step per call.                                          *)

Answered(t, c, phase, set) ==
    call' = With(t, c, Assign(call[t][c], [f \in DOMAIN set \cup {"phase"} |->
                                             IF f = "phase" THEN phase ELSE set[f]]))

\* A token pair for u: the session stands on its refresh token from here on.
Pair(t, c, phase, u) ==
    LET refresh == Fresh(u)
    IN  /\ Answered(t, c, phase, [refresh |-> refresh])
        /\ live' = [live EXCEPT ![u] = refresh.stamp]

ServeLogin(t, c) ==
    LET q == call[t][c] IN
    /\ q.phase = "sent" /\ q.kind \in {"login", "mistyped"}
    /\ \/ q.kind = "login" /\ Pair(t, c, "ok", q.user)
       \/ q.kind = "mistyped" /\ Answered(t, c, "refused", <<>>) /\ UNCHANGED live
    /\ UNCHANGED <<tab, cookie, storedUser>>

\* authenticate refuses a call without a token, or one that expired on its
\* way, as those just refreshed do not.
Authentic(q) == {q.header # NoUser} \cup (IF q.retried THEN {} ELSE {FALSE})

\* Of the handlers only logout changes the session.
Serve(t, c) ==
    LET q == call[t][c] IN
    /\ q.phase = "sent" /\ q.kind \in {"logout", "profile", "api"}
    /\ \E authentic \in Authentic(q) :
          /\ Answered(t, c, IF authentic THEN "ok" ELSE "refused", <<>>)
          /\ live' = IF authentic /\ q.kind = "logout" THEN [live EXCEPT ![q.header] = 0] ELSE live
    /\ UNCHANGED <<tab, cookie, storedUser>>

\* refreshTokens: a token that is not the session's ends the session.
ServeRefresh(t, c) ==
    LET q == call[t][c] IN
    /\ q.phase = "refresh_sent"
    /\ IF q.refresh # NoToken /\ live[q.refresh.user] = q.refresh.stamp
       THEN Pair(t, c, "refresh_ok", q.refresh.user)
       ELSE /\ Answered(t, c, "refresh_refused", <<>>)
            /\ live' = IF q.refresh = NoToken THEN live ELSE [live EXCEPT ![q.refresh.user] = 0]
    /\ UNCHANGED <<tab, cookie, storedUser>>

-----------------------------------------------------------------------------
(* Answers, and the response interceptor.                                  *)

LoginAnswered(t, c) ==
    LET q == call[t][c] IN
    /\ q.phase = "ok" /\ q.kind = "login"
    /\ cookie' = q.refresh
    /\ storedUser' = q.user
    /\ tab' = [tab EXCEPT ![t] = SignedIn(Having(@, q.user), q.user)]
    /\ call' = With(t, c, Free)
    /\ UNCHANGED live

\* The page load's call: the profile is that of the token's user.
ProfileAnswered(t, c) ==
    LET q == call[t][c] IN
    /\ q.phase = "ok" /\ q.kind = "profile"
    /\ IF tab[t].access = NoUser THEN UNCHANGED <<tab, storedUser>>
       ELSE /\ tab' = [tab EXCEPT ![t] = SignedIn(@, q.header)]
            /\ storedUser' = q.header
    /\ call' = With(t, c, Free)
    /\ UNCHANGED <<cookie, live>>

\* The logout's answer clears the cookie, whosever it is by now.
OtherAnswered(t, c) ==
    LET q == call[t][c] IN
    /\ q.phase = "ok" /\ q.kind \in {"api", "logout"}
    /\ cookie' = IF q.kind = "logout" THEN NoToken ELSE cookie
    /\ call' = With(t, c, Free)
    /\ UNCHANGED <<tab, storedUser, live>>

\* What the callers do with the errors of a set of calls.
Rejected(a, kinds) ==
    IF kinds \cap {"login", "mistyped", "profile"} = {} THEN a ELSE SignedOut(a)

\* Mutant: any call that fails forgets the stored user.
ForgottenAfter(kinds) == NoUser

StoredAfter(kinds) == IF "profile" \in kinds THEN NoUser ELSE storedUser

Reject(t, c) ==
    /\ tab' = [tab EXCEPT ![t] = Rejected(@, {call[t][c].kind})]
    /\ storedUser' = StoredAfter({call[t][c].kind})
    /\ call' = With(t, c, Free)
    /\ UNCHANGED <<cookie, live>>

\* Mutant: every refused call refreshes.
EachRefreshes(t, c) == TRUE

StartsRefresh(t, c) == ~tab[t].lock

\* Mutant: a refused call is always tried again.
AlwaysAgain(q) == TRUE

MayRetry(q) == ~q.retried

\* 401: the first refused call starts the refresh, the others wait for it.
Refused(t, c) ==
    LET q == call[t][c] IN
    /\ q.phase = "refused"
    /\ IF ~MayRetry(q) THEN Reject(t, c)
       ELSE /\ IF StartsRefresh(t, c)
               THEN Answered(t, c, "refresh_sent", [refresh |-> cookie, retried |-> TRUE])
               ELSE Answered(t, c, "waiting", [retried |-> TRUE])
            /\ tab' = [tab EXCEPT ![t].lock = TRUE]
            /\ UNCHANGED <<cookie, storedUser, live>>

\* Those that await _refreshing.
Awaiting(t, c) == {c} \cup {d \in Slots : call[t][d].phase = "waiting"}

\* doRefresh is done: the token is kept, the socket connected, and the calls
\* that await it are sent again.
RefreshAnswered(t, c) ==
    LET q == call[t][c]
        user == q.refresh.user
        again(d) == Assign(call[t][d], [phase |-> "sent", header |-> user, refresh |-> NoToken])
    IN
    /\ q.phase = "refresh_ok"
    /\ cookie' = q.refresh
    /\ tab' = [tab EXCEPT ![t] = Assign(Having(@, user), [lock |-> FALSE,
                                            socket |-> Connect(@.socket, user)])]
    /\ call' = [call EXCEPT ![t] = [d \in Slots |-> IF d \in Awaiting(t, c) THEN again(d) ELSE @[d]]]
    /\ UNCHANGED <<storedUser, live>>

\* The catch of the interceptor: the tokens are cleared, and a page other
\* than the login page is left for it; there, the calls are rejected.
RefreshFails(t, c) ==
    LET kinds == {call[t][d].kind : d \in Awaiting(t, c)} IN
    /\ storedUser' = NoUser
    /\ IF tab[t].user # NoUser THEN PageLoad(t)
       ELSE /\ tab' = [tab EXCEPT ![t] = Assign(Rejected(Cleared(@), kinds), [lock |-> FALSE])]
            /\ call' = [call EXCEPT ![t] = [d \in Slots |-> IF d \in Awaiting(t, c) THEN Free ELSE @[d]]]
    /\ UNCHANGED <<cookie, live>>

RefreshRefused(t, c) == call[t][c].phase = "refresh_refused" /\ RefreshFails(t, c)

\* A timeout or a network error, before or after the server has acted.
Lost(t, c) ==
    \/ call[t][c].phase \in {"sent", "ok", "refused"} /\ Reject(t, c)
    \/ call[t][c].phase \in {"refresh_sent", "refresh_ok", "refresh_refused"} /\ RefreshFails(t, c)

-----------------------------------------------------------------------------
(* Time, the socket's connection, and other devices.                       *)

\* 15 minutes outlast the 10 seconds of a call sent again with a new token; a
\* refresh, and the calls that wait for it, may last longer.
Expire(t) ==
    /\ tab[t].fresh
    /\ \A c \in Slots : call[t][c].phase \in {"sent", "ok", "refused"} => ~call[t][c].retried
    /\ tab' = [tab EXCEPT ![t].fresh = FALSE]
    /\ UNCHANGED <<call, cookie, storedUser, live>>

TimerFires(t, c) == tab[t].timer /\ SignOut(t, c)

\* The handshake ends; a connection may drop, and the library tries again
\* with the same token.
SocketChanges(t) ==
    /\ tab[t].socket # NoSocket
    /\ tab' = [tab EXCEPT ![t].socket.connected = ~@]
    /\ UNCHANGED <<call, cookie, storedUser, live>>

\* The session ends elsewhere: a login or logout on another device, a
\* password reset.
Revoke(u) ==
    /\ live[u] # 0
    /\ live' = [live EXCEPT ![u] = 0]
    /\ UNCHANGED <<tab, call, cookie, storedUser>>

-----------------------------------------------------------------------------

Init ==
    /\ tab = [t \in Tabs |-> BlankTab]
    /\ call = [t \in Tabs |-> [c \in Slots |-> Free]]
    /\ cookie = NoToken /\ storedUser = NoUser
    /\ live = [u \in Users |-> 0]

Answer(t, c) ==
    \/ ServeLogin(t, c) \/ Serve(t, c) \/ ServeRefresh(t, c)
    \/ LoginAnswered(t, c) \/ ProfileAnswered(t, c) \/ OtherAnswered(t, c)
    \/ Refused(t, c) \/ RefreshAnswered(t, c) \/ RefreshRefused(t, c)

Next ==
    \/ \E t \in Tabs, c \in Slots :
          \/ SubmitLogin(t, c)
          \/ UsePage(t, c) \/ Logout(t, c) \/ TimerFires(t, c)
          \/ Answer(t, c) \/ Lost(t, c)
    \/ \E t \in Tabs : Reload(t) \/ Mount(t) \/ Expire(t) \/ SocketChanges(t)
    \/ \E u \in Users : Revoke(u)

Spec == Init /\ [][Next]_vars

\* A call of the axios instance is answered or fails within its 10 seconds.
\* doRefresh posts with axios itself, which has no time-out: a refresh that is
\* not answered may stay on its way for ever, with the lock.  Written out, this
\* is weak fairness of Lost(t, c) \/ Answer(t, c) for the former.
Settles(t, c) ==
    []<>(call[t][c].phase \notin {"sent", "ok", "refused"}) \/ []<><<TRUE>>_(call[t][c])

\* Calls other than refreshes end, by an answer or an error; a timer that is set
\* fires.
Fairness ==
    /\ \A t \in Tabs, c \in Slots : Settles(t, c)
    /\ \A t \in Tabs : WF_vars(\E c \in Slots : TimerFires(t, c))

FairSpec == Spec /\ Fairness
=============================================================================
