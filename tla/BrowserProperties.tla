------------------------- MODULE BrowserProperties -------------------------
(***************************************************************************)
(* What the browser's side of a session promises.                          *)
(***************************************************************************)
EXTENDS Browser

MaybeToken == Tokens \cup {NoToken}

IsSocket(s) == s \in [user : Users \cup {NoUser}, connected : BOOLEAN]

IsTab(a) ==
    /\ DOMAIN a = {"mounted", "access", "fresh", "lock", "user", "loading", "timer", "socket"}
    /\ {a.mounted, a.fresh, a.lock, a.loading, a.timer} \subseteq BOOLEAN
    /\ {a.access, a.user} \subseteq Users \cup {NoUser}
    /\ a.fresh => a.access # NoUser
    /\ IsSocket(a.socket)

IsCall(q) ==
    \/ q = Free
    \/ q \in [phase : {"sent", "ok", "refused", "waiting",
                       "refresh_sent", "refresh_ok", "refresh_refused"},
              kind : {"login", "mistyped", "logout", "profile", "api"},
              user : Users \cup {NoUser}, header : Users \cup {NoUser},
              retried : BOOLEAN, refresh : MaybeToken]

\* Type invariant: the jar, the tabs and their calls hold tokens and users,
\* and what counts as a valid token is one.
TypeOK ==
    /\ DOMAIN tab = Tabs /\ \A t \in Tabs : IsTab(tab[t])
    /\ DOMAIN call = Tabs
    /\ \A t \in Tabs : DOMAIN call[t] = Slots /\ \A c \in Slots : IsCall(call[t][c])
    /\ cookie \in MaybeToken /\ storedUser \in Users \cup {NoUser}
    /\ live \in [Users -> Stamps \cup {0}]

Refreshing(q) == q.phase \in {"refresh_sent", "refresh_ok", "refresh_refused"}

\* Calls refused in parallel share one refresh: a tab never has two on their
\* way, of which the second would carry a token the first has replaced; and
\* the lock is held exactly as long as one is (api.js, _refreshing).
OneRefreshPerTab ==
    \A t \in Tabs :
        /\ \A c, d \in Slots : Refreshing(call[t][c]) /\ Refreshing(call[t][d]) => c = d
        /\ tab[t].lock <=> \E c \in Slots : Refreshing(call[t][c])

\* Nobody submits a login while another call of the tab is under way, and no
\* other call is made before it is answered: a logout, say, has been answered
\* by the time the next user has typed a password.
LoginsAlone ==
    \A t \in Tabs, c, d \in Slots :
        /\ call[t][c] # Free /\ call[t][c].kind \in {"login", "mistyped"}
        /\ call[t][d] # Free
        => c = d

\* A reload keeps who is signed in: it asks for the session if localStorage has
\* a user, and shows the user of the cookie, so both have to be the page's
\* ("On a hard page reload the token is gone, but the silent-refresh flow
\* restores it", api.js).  For a browser with one tab, as two may hold two
\* users, and for LoginsAlone: a logout answered after the next login clears
\* that login's cookie.
ReloadKeepsTheUser ==
    \A t \in Tabs :
        tab[t].user # NoUser => storedUser = tab[t].user /\ cookie.user = tab[t].user

\* Every call ends, or the tab's refresh is never answered, and the lock is
\* held from then on: no refused call is tried again for ever, none waits for
\* a refresh that is over, and one that is refused after it starts another
\* (api.js, the response interceptor; doRefresh alone has no time-out).
CallsSettle ==
    \A t \in Tabs, c \in Slots :
        call[t][c] # Free ~> (call[t][c] = Free \/ []tab[t].lock)

\* A signed-in page signs out in the end, also where the session it had was
\* ended elsewhere, or where it was restored or refreshed in silence: every
\* way of signing in starts the expiry timer (auth.context.jsx).
SignedInPagesSignOut ==
    \A t \in Tabs : tab[t].user # NoUser ~> tab[t].user = NoUser

\* A page on which u is signed in talks to the server as u: with its calls,
\* on its socket, and when it refreshes ("Keep the socket in sync with the
\* auth token", auth.context.jsx).
CredentialsAreTheUsers ==
    \A t \in Tabs : LET a == tab[t] IN
        a.user # NoUser =>
            /\ a.access \in {a.user, NoUser}
            /\ a.socket.connected => a.socket.user = a.user
=============================================================================
