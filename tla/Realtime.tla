------------------------------ MODULE Realtime ------------------------------
(***************************************************************************)
(* The Socket.IO server: socket.js and wsRateLimit.middleware.js.          *)
(*                                                                         *)
(* A connection passes two middlewares - the limiter, at once, and the     *)
(* authentication, which awaits User.findById - before its 'connection'    *)
(* handler registers it and joins it to its rooms; it may be closed        *)
(* before that.  Handlers of a connected socket run in one go.             *)
(*                                                                         *)
(* Left out: typing indicators and the list of connected users, which      *)
(* change nothing; names; the user:<id> and role:<role> rooms are          *)
(* registered sockets of that user or role, as no handler leaves them.     *)
(***************************************************************************)
EXTENDS Integers, FiniteSets

CONSTANTS
    Users,       \* the accounts
    NoUser,
    Role,        \* the role of each account
    Sockets,     \* the connections clients may open
    MaxConn      \* connections an address may open in a window

Roles == {"admin", "manager", "agent", "customer"}

ASSUME NoUserAssumption == NoUser \notin Users
ASSUME RoleAssumption == Role \in [Users -> Roles]
ASSUME MaxConnAssumption == MaxConn \in Nat \ {0}

VARIABLES
    socket,      \* the connections and what the server knows of them
    registry,    \* connectedSockets: the user of each registered socket
    counted,     \* the limiter's count for the clients' address
    told         \* what role:admin and role:manager were told last of each user

realtimeVars == <<socket, registry, counted, told>>

Closed == [phase |-> "closed", user |-> NoUser, inTicket |-> FALSE]

Registered == DOMAIN registry

\* _countUserSockets
CountUserSockets(reg, u) == Cardinality({s \in DOMAIN reg : reg[s] = u})

-----------------------------------------------------------------------------

\* The counter of an address that was refused is deleted.
CountedAfter(n) == IF n > MaxConn THEN 0 ELSE n

\* wsRateLimitMiddleware, and the authentication up to its await.
Handshake(s, u) ==
    LET n == counted + 1 IN
    /\ socket[s] = Closed
    /\ counted' = CountedAfter(n)
    /\ socket' = IF n > MaxConn THEN socket
                 ELSE [socket EXCEPT ![s].phase = "authenticating", ![s].user = u]
    /\ UNCHANGED <<registry, told>>

\* The window of an entry is over: it is removed, or replaced when next used.
WindowEnds ==
    /\ counted > 0
    /\ counted' = 0
    /\ UNCHANGED <<socket, registry, told>>

IsFirst(n) == n = 1

\* The 'connection' handler.
Connection(s) ==
    LET u   == socket[s].user
        reg == [x \in Registered \cup {s} |-> IF x = s THEN u ELSE registry[x]]
    IN
    /\ socket[s].phase = "authenticating"
    /\ socket' = [socket EXCEPT ![s].phase = "connected"]
    /\ registry' = reg
    /\ told' = IF IsFirst(CountUserSockets(reg, u)) THEN [told EXCEPT ![u] = "online"] ELSE told
    /\ UNCHANGED counted

\* Mutant: the entry that goes is counted among those that remain.
RemainingBefore(s, u) == CountUserSockets(registry, u)

Remaining(s, u) ==
    CountUserSockets([x \in Registered \ {s} |-> registry[x]], u)

\* The client, the network or the authentication closes the connection; the
\* 'disconnect' handler is there only if 'connection' has run.
Disconnect(s) ==
    LET u == socket[s].user IN
    /\ socket[s] # Closed
    /\ socket' = [socket EXCEPT ![s] = Closed]
    /\ registry' = [x \in Registered \ {s} |-> registry[x]]
    /\ told' = IF s \in Registered /\ Remaining(s, u) = 0 THEN [told EXCEPT ![u] = "offline"]
               ELSE told
    /\ UNCHANGED counted

\* ticket:join and ticket:leave, for the ticket in view; nothing is checked.
TicketJoin(s) ==
    /\ socket[s].phase = "connected" /\ ~socket[s].inTicket
    /\ socket' = [socket EXCEPT ![s].inTicket = TRUE]
    /\ UNCHANGED <<registry, counted, told>>

TicketLeave(s) ==
    /\ socket[s].inTicket
    /\ socket' = [socket EXCEPT ![s].inTicket = FALSE]
    /\ UNCHANGED <<registry, counted, told>>

\* emitToTicket
TicketRoom == {s \in Sockets : socket[s].inTicket}

RealtimeInit ==
    /\ socket = [s \in Sockets |-> Closed]
    /\ registry = [s \in {} |-> NoUser]
    /\ counted = 0
    /\ told = [u \in Users |-> "offline"]

RealtimeNext ==
    \/ \E s \in Sockets :
          \/ \E u \in Users : Handshake(s, u)
          \/ Connection(s) \/ Disconnect(s)
          \/ TicketJoin(s) \/ TicketLeave(s)
    \/ WindowEnds
=============================================================================
