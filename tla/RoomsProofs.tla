----------------------------- MODULE RoomsProofs -----------------------------
(***************************************************************************)
(* Proofs about the socket server and the comments, for any number of      *)
(* users, connections, comments and requests in flight.                    *)
(***************************************************************************)
EXTENDS RoomsProperties, FiniteSetTheorems, TLAPS

-----------------------------------------------------------------------------
(* The inductive invariant.                                                *)

\* The registry is the connected sockets, each with its user.
RegistryIsConnected ==
    /\ IsFiniteSet(Registered)
    /\ \A s \in Sockets :
          /\ s \in Registered <=> socket[s].phase = "connected"
          /\ s \in Registered => registry[s] = socket[s].user
          /\ IF socket[s].phase = "closed" THEN socket[s] = Closed ELSE socket[s].user \in Users

Presence == RegistryIsConnected /\ PresenceIsTrue

\* A request is about a comment whose id was drawn; of others nothing is heard.
AboutDrawn ==
    /\ \A r \in Requests : creq[r] # Idle => creq[r].id \in drawn
    /\ \A c \in CommentIds \ drawn, s \in Sockets : heard[s][c] = "nothing"

Dealing(r, c) == creq[r] # Idle /\ creq[r].id = c

\* A comment no two requests shared: what the request about it has done to it,
\* and what the room has heard of it.
Settled(c) ==
    /\ \A r, x \in Requests : Dealing(r, c) /\ Dealing(x, c) => r = x
    /\ \A r \in Requests : Dealing(r, c) =>
          /\ creq[r].phase = "insert" => \A s \in Sockets : heard[s][c] = "nothing"
          /\ creq[r].phase \in {"added", "updated"} => c \in Stored
          /\ creq[r].phase = "deleted" => c \notin Stored
    /\ \A s \in TicketRoom :
          /\ heard[s][c] = "deleted" => c \notin Stored
          /\ heard[s][c] \in {"added", "updated"} =>
                c \in Stored \/ \E r \in Requests : Dealing(r, c) /\ creq[r].phase = "deleted"

IInv == TypeOK /\ Presence /\ AboutDrawn /\ \A c \in drawn \ unsettled : Settled(c)

-----------------------------------------------------------------------------
(* Small facts.                                                            *)

\* A user with nobody left among the registered is counted as zero, and only
\* such a user.
LEMMA NobodyIsZero ==
    ASSUME NEW reg, IsFiniteSet(DOMAIN reg), NEW u
    PROVE  CountUserSockets(reg, u) = 0 <=> ~\E s \in DOMAIN reg : reg[s] = u
<1> DEFINE S == {s \in DOMAIN reg : reg[s] = u}
<1>1. IsFiniteSet(S)
  BY FS_Subset
<1>2. Cardinality(S) = 0 <=> S = {}
  BY <1>1, FS_EmptySet
<1> QED
  BY <1>2 DEF CountUserSockets

\* A user who is not counted as one has another socket registered.
LEMMA OneIsAlone ==
    ASSUME NEW reg, NEW s \in DOMAIN reg, ~IsFirst(CountUserSockets(reg, reg[s]))
    PROVE  \E x \in DOMAIN reg \ {s} : reg[x] = reg[s]
<1> SUFFICES ASSUME \A x \in DOMAIN reg \ {s} : reg[x] # reg[s] PROVE FALSE
  OBVIOUS
<1>1. {x \in DOMAIN reg : reg[x] = reg[s]} = {s}
  OBVIOUS
<1>2. Cardinality({s}) = 1
  BY FS_Singleton
<1> QED
  BY <1>1, <1>2 DEF CountUserSockets, IsFirst

-----------------------------------------------------------------------------
(* The steps of the socket server.                                         *)

\* The part of the type invariant that is about the socket server.
RealtimeType ==
    /\ socket \in [Sockets -> [phase : {"closed", "authenticating", "connected"},
                               user : Users \cup {NoUser}, inTicket : BOOLEAN]]
    /\ Registered \subseteq Sockets /\ registry \in [Registered -> Users]
    /\ \A s \in Sockets : socket[s].inTicket => s \in Registered
    /\ counted \in 0 .. MaxConn
    /\ told \in [Users -> {"online", "offline"}]

LEMMA HandshakeKeeps ==
    ASSUME RealtimeType, Presence, NEW s \in Sockets, NEW u \in Users, Handshake(s, u)
    PROVE  RealtimeType' /\ Presence'
<1>1. /\ socket[s] = Closed /\ registry' = registry /\ told' = told
      /\ counted' = CountedAfter(counted + 1)
      /\ \/ socket' = socket
         \/ socket' = [socket EXCEPT ![s].phase = "authenticating", ![s].user = u]
  BY DEF Handshake
<1>2. counted' \in 0 .. MaxConn
  BY <1>1, MaxConnAssumption DEF RealtimeType, CountedAfter
<1>3. CASE socket' = socket
  <2>1. RealtimeType'
    BY <1>1, <1>2, <1>3 DEF RealtimeType, Registered
  <2>2. Presence'
    BY <1>1, <1>3 DEF Presence, RegistryIsConnected, PresenceIsTrue, Registered
  <2> QED
    BY <2>1, <2>2
<1>4. CASE socket' = [socket EXCEPT ![s].phase = "authenticating", ![s].user = u]
  <2> DEFINE Connections == [Sockets -> [phase : {"closed", "authenticating", "connected"},
                                         user : Users \cup {NoUser}, inTicket : BOOLEAN]]
             mid == [socket EXCEPT ![s].phase = "authenticating"]
  <2>1. /\ mid \in Connections /\ mid[s].phase = "authenticating" /\ mid[s].inTicket = socket[s].inTicket
        /\ \A x \in Sockets \ {s} : mid[x] = socket[x]
    BY DEF RealtimeType
  <2>2. /\ socket' \in Connections
        /\ socket'[s].phase = "authenticating" /\ socket'[s].user = u /\ ~socket'[s].inTicket
        /\ \A x \in Sockets \ {s} : socket'[x] = socket[x]
    <3>1. socket' = [mid EXCEPT ![s].user = u]
      BY <1>4
    <3>2. ~mid[s].inTicket
      BY <1>1, <2>1 DEF Closed
    <3> HIDE DEF mid
    <3> QED
      BY <2>1, <3>1, <3>2
  <2>3. socket[s].phase = "closed"
    BY <1>1 DEF Closed
  <2>4. RealtimeType'
    BY <1>1, <1>2, <2>2 DEF RealtimeType, Registered
  <2>5. RegistryIsConnected'
    BY <1>1, <2>2, <2>3 DEF Presence, RegistryIsConnected, Registered
  <2>6. PresenceIsTrue'
    BY <1>1, <2>2, <2>3 DEF Presence, PresenceIsTrue
  <2> QED
    BY <2>4, <2>5, <2>6 DEF Presence
<1> QED
  BY <1>1, <1>3, <1>4

LEMMA ConnectionKeeps ==
    ASSUME RealtimeType, Presence, NEW s \in Sockets, Connection(s)
    PROVE  RealtimeType' /\ Presence'
<1> DEFINE u == socket[s].user
<1>1. /\ socket[s].phase = "authenticating" /\ counted' = counted
      /\ socket' = [socket EXCEPT ![s].phase = "connected"]
      /\ registry' = [x \in Registered \cup {s} |-> IF x = s THEN u ELSE registry[x]]
      /\ told' = IF IsFirst(CountUserSockets(registry', u)) THEN [told EXCEPT ![u] = "online"] ELSE told
  BY DEF Connection
<1>2. u \in Users /\ s \notin Registered
  BY <1>1 DEF Presence, RegistryIsConnected
<1>3. /\ socket' \in [Sockets -> [phase : {"closed", "authenticating", "connected"},
                                  user : Users \cup {NoUser}, inTicket : BOOLEAN]]
      /\ socket'[s].phase = "connected" /\ socket'[s].user = u
      /\ \A x \in Sockets \ {s} : socket'[x] = socket[x]
      /\ socket'[s].inTicket = socket[s].inTicket
  BY <1>1 DEF RealtimeType
<1>4. /\ Registered' = Registered \cup {s} /\ registry'[s] = u
      /\ \A x \in Registered : registry'[x] = registry[x]
  BY <1>1, <1>2 DEF Registered
<1>5. RealtimeType'
  <2>1. registry' \in [Registered' -> Users]
    BY <1>1, <1>2, <1>4 DEF RealtimeType
  <2>2. told' \in [Users -> {"online", "offline"}]
    BY <1>1, <1>2 DEF RealtimeType
  <2>3. \A x \in Sockets : socket'[x].inTicket => x \in Registered'
    BY <1>3, <1>4 DEF RealtimeType
  <2> QED
    BY <1>1, <1>3, <1>4, <2>1, <2>2, <2>3 DEF RealtimeType
<1>6. RegistryIsConnected'
  <2>1. IsFiniteSet(Registered')
    BY <1>4, FS_AddElement DEF Presence, RegistryIsConnected
  <2> QED
    BY <1>2, <1>3, <1>4, <2>1 DEF Presence, RegistryIsConnected, RealtimeType, Closed
<1>7. told'[u] = "online"
  <2>1. CASE IsFirst(CountUserSockets(registry', u))
    BY <1>1, <1>2, <2>1 DEF RealtimeType
  <2>2. CASE ~IsFirst(CountUserSockets(registry', u))
    <3>1. PICK x \in Registered : registry[x] = u
      BY <1>4, <2>2, OneIsAlone DEF Registered
    <3>2. x \in Sockets /\ socket[x].phase = "connected" /\ socket[x].user = u
      BY <3>1 DEF RealtimeType, Presence, RegistryIsConnected
    <3> QED
      BY <1>1, <1>2, <2>2, <3>2 DEF Presence, PresenceIsTrue
  <2> QED
    BY <2>1, <2>2
<1>8. PresenceIsTrue'
  <2>1. \A v \in Users \ {u} : told'[v] = told[v]
    BY <1>1, <1>2 DEF RealtimeType
  <2>2. ASSUME NEW v \in Users \ {u}
        PROVE  (\E x \in Sockets : socket'[x].phase = "connected" /\ socket'[x].user = v)
               <=> \E x \in Sockets : socket[x].phase = "connected" /\ socket[x].user = v
    BY <1>1, <1>3
  <2> QED
    BY <1>3, <1>7, <2>1, <2>2 DEF Presence, PresenceIsTrue
<1> QED
  BY <1>5, <1>6, <1>8 DEF Presence

LEMMA DisconnectKeeps ==
    ASSUME RealtimeType, Presence, NEW s \in Sockets, Disconnect(s)
    PROVE  RealtimeType' /\ Presence'
<1> DEFINE u == socket[s].user
<1>1. /\ socket[s] # Closed /\ counted' = counted
      /\ socket' = [socket EXCEPT ![s] = Closed]
      /\ registry' = [x \in Registered \ {s} |-> registry[x]]
      /\ told' = IF s \in Registered /\ CountUserSockets(registry', u) = 0
                 THEN [told EXCEPT ![u] = "offline"] ELSE told
  BY DEF Disconnect, Remaining
<1>2. u \in Users
  BY <1>1 DEF Presence, RegistryIsConnected
<1>3. /\ socket' \in [Sockets -> [phase : {"closed", "authenticating", "connected"},
                                  user : Users \cup {NoUser}, inTicket : BOOLEAN]]
      /\ socket'[s] = Closed
      /\ \A x \in Sockets \ {s} : socket'[x] = socket[x]
  BY <1>1 DEF RealtimeType, Closed
<1>4. /\ Registered' = Registered \ {s}
      /\ \A x \in Registered' : registry'[x] = registry[x]
  BY <1>1 DEF Registered
<1>5. RealtimeType'
  <2>1. registry' \in [Registered' -> Users]
    BY <1>1, <1>4 DEF RealtimeType
  <2>2. told' \in [Users -> {"online", "offline"}]
    BY <1>1, <1>2 DEF RealtimeType
  <2>3. \A x \in Sockets : socket'[x].inTicket => x \in Registered'
    BY <1>3, <1>4 DEF RealtimeType, Closed
  <2> QED
    BY <1>1, <1>3, <1>4, <2>1, <2>2, <2>3 DEF RealtimeType
<1>6. RegistryIsConnected'
  <2>1. IsFiniteSet(Registered')
    BY <1>4, FS_Subset DEF Presence, RegistryIsConnected
  <2>2. socket'[s].phase = "closed"
    BY <1>3 DEF Closed
  <2> QED
    BY <1>3, <1>4, <2>1, <2>2 DEF Presence, RegistryIsConnected
<1>7. \A v \in Users : (\E x \in Sockets : socket'[x].phase = "connected" /\ socket'[x].user = v)
                       <=> \E x \in Registered' : registry'[x] = v
  BY <1>5, <1>6 DEF RealtimeType, RegistryIsConnected
<1>8. ASSUME NEW v \in Users
      PROVE  told'[v] = "online" <=> \E x \in Registered' : registry'[x] = v
  <2>1. told[v] = "online" <=> \E x \in Registered : registry[x] = v
    BY DEF RealtimeType, Presence, RegistryIsConnected, PresenceIsTrue
  <2>2. CASE s \in Registered /\ v = u
    <3>1. CountUserSockets(registry', u) = 0 <=> ~\E x \in Registered' : registry'[x] = u
      BY <1>6, NobodyIsZero DEF RegistryIsConnected, Registered
    <3>2. registry[s] = u
      BY <2>2 DEF Presence, RegistryIsConnected
    <3> QED
      BY <1>1, <1>2, <2>1, <2>2, <3>1, <3>2 DEF RealtimeType
  <2>3. CASE ~(s \in Registered /\ v = u)
    <3>1. told'[v] = told[v]
      BY <1>1, <1>2, <2>3 DEF RealtimeType
    <3>2. s \in Registered => registry[s] # v
      BY <2>3 DEF Presence, RegistryIsConnected
    <3> QED
      BY <1>4, <2>1, <3>1, <3>2
  <2> QED
    BY <2>2, <2>3
<1>9. PresenceIsTrue'
  BY <1>7, <1>8 DEF PresenceIsTrue
<1> QED
  BY <1>5, <1>6, <1>9 DEF Presence

LEMMA TicketRoomKeeps ==
    ASSUME RealtimeType, Presence, NEW s \in Sockets, TicketJoin(s) \/ TicketLeave(s)
    PROVE  RealtimeType' /\ Presence'
<1>1. UNCHANGED <<registry, counted, told>> /\ socket[s].phase = "connected"
  BY DEF TicketJoin, TicketLeave, RealtimeType, Presence, RegistryIsConnected
<1>2. /\ socket' \in [Sockets -> [phase : {"closed", "authenticating", "connected"},
                                  user : Users \cup {NoUser}, inTicket : BOOLEAN]]
      /\ socket'[s].phase = "connected" /\ socket'[s].user = socket[s].user
      /\ \A x \in Sockets \ {s} : socket'[x] = socket[x]
  <2>1. PICK b \in BOOLEAN : socket' = [socket EXCEPT ![s].inTicket = b]
    BY DEF TicketJoin, TicketLeave
  <2> QED
    BY <1>1, <2>1 DEF RealtimeType
<1>3. s \in Registered
  BY <1>1 DEF Presence, RegistryIsConnected
<1>4. RealtimeType'
  BY <1>1, <1>2, <1>3 DEF RealtimeType, Registered
<1>5. RegistryIsConnected'
  BY <1>1, <1>2 DEF Presence, RegistryIsConnected, Registered
<1>6. PresenceIsTrue'
  <2>1. \A x \in Sockets : socket'[x].phase = socket[x].phase /\ socket'[x].user = socket[x].user
    BY <1>1, <1>2
  <2> QED
    BY <1>1, <2>1 DEF Presence, PresenceIsTrue
<1> QED
  BY <1>4, <1>5, <1>6 DEF Presence

LEMMA RealtimeKeeps ==
    ASSUME RealtimeType, Presence, RealtimeNext
    PROVE  RealtimeType' /\ Presence'
<1>1. CASE WindowEnds
  <2>1. counted' = 0 /\ socket' = socket /\ registry' = registry /\ told' = told
    BY <1>1 DEF WindowEnds
  <2>2. RealtimeType'
    BY <2>1, MaxConnAssumption DEF RealtimeType, Registered
  <2>3. Presence'
    BY <2>1 DEF Presence, RegistryIsConnected, PresenceIsTrue, Registered
  <2> QED
    BY <2>2, <2>3
<1> QED
  BY <1>1, HandshakeKeeps, ConnectionKeeps, DisconnectKeeps, TicketRoomKeeps DEF RealtimeNext

-----------------------------------------------------------------------------
(* The steps of the comments.                                              *)

\* The rest of the type invariant.
CommentsType ==
    /\ drawn \subseteq CommentIds /\ aged \subseteq drawn /\ unsettled \subseteq drawn
    /\ Stored \subseteq drawn /\ comments \in [Stored -> Documents]
    /\ ticketDeleted \in BOOLEAN
    /\ creq \in [Requests -> Working \cup {Idle}]
    /\ heard \in [Sockets -> [CommentIds -> Words]]

LEMMA TypeParts == TypeOK <=> RealtimeType /\ CommentsType
  BY DEF TypeOK, RealtimeType, CommentsType

CommentsInv == CommentsType /\ AboutDrawn /\ \A c \in drawn \ unsettled : Settled(c)

\* What a request carries in each phase.
LEMMA WorkingFields ==
    \A q \in Working :
        /\ q # Idle /\ q.id \in CommentIds
        /\ q.phase \in {"insert", "save", "find", "remove", "added", "updated", "deleted"}
        /\ q.phase = "insert" => q.user \in Users /\ q.internal \in BOOLEAN
        /\ q.phase = "save" => q.copy \in Documents
        /\ q.phase \in {"find", "remove"} => q.user \in Users /\ q.ticket \in BOOLEAN
  BY DEF Working, Idle

\* A request in a phase other than "idle" is about a comment that was drawn.
LEMMA BusyIsWorking ==
    ASSUME CommentsInv, NEW r \in Requests, creq[r].phase # "idle"
    PROVE  creq[r] \in Working /\ creq[r] # Idle /\ creq[r].id \in drawn
  BY DEF CommentsInv, CommentsType, AboutDrawn, Idle

\* A step of a request that emits nothing.  It may store a comment of which
\* nothing was heard, and it goes on to tell of one it removed.
LEMMA QuietStep ==
    ASSUME CommentsInv, NEW r \in Requests, NEW q \in Working \cup {Idle}, Become(r, q),
           UNCHANGED <<socket, heard, aged, ticketDeleted>>,
           creq[r].phase # "deleted",
           drawn \subseteq drawn', drawn' \subseteq CommentIds,
           unsettled \subseteq unsettled', unsettled' \subseteq drawn',
           Stored' \subseteq drawn', comments' \in [Stored' -> Documents],
           q # Idle => q.id \in drawn',
           \A c \in drawn' \ unsettled' :
               /\ q # Idle /\ q.id = c =>
                     /\ \A x \in Requests \ {r} : ~Dealing(x, c)
                     /\ q.phase = "insert" => \A s \in Sockets : heard[s][c] = "nothing"
                     /\ q.phase \in {"added", "updated"} => c \in Stored'
                     /\ q.phase = "deleted" => c \notin Stored'
               /\ c \in Stored' \ Stored => Dealing(r, c) /\ \A s \in Sockets : heard[s][c] = "nothing"
               /\ c \in Stored \ Stored' => Dealing(r, c) /\ q # Idle /\ q.id = c /\ q.phase = "deleted"
    PROVE  CommentsInv'
<1>1. DOMAIN creq = Requests /\ creq' = [creq EXCEPT ![r] = q]
  BY DEF CommentsInv, CommentsType, Become
<1>2. creq'[r] = q /\ \A x \in Requests \ {r} : creq'[x] = creq[x]
  BY <1>1
<1>3. CommentsType'
  BY <1>1 DEF CommentsInv, CommentsType, Stored
<1>4. AboutDrawn'
  BY <1>2 DEF CommentsInv, AboutDrawn
<1>5. ASSUME NEW c \in drawn', c \notin unsettled'
      PROVE  Settled(c)'
  <2>1. \A x \in Requests \ {r} : Dealing(x, c)' <=> Dealing(x, c)
    BY <1>2 DEF Dealing
  <2>2. Dealing(r, c)' <=> q # Idle /\ q.id = c
    BY <1>2 DEF Dealing
  <2>3. CASE c \notin drawn
    <3>1. \A s \in Sockets : heard[s][c] = "nothing"
      BY <2>3 DEF CommentsInv, AboutDrawn
    <3>2. \A x \in Requests : ~Dealing(x, c)
      BY <2>3 DEF CommentsInv, AboutDrawn, Dealing
    <3> QED
      BY <1>2, <1>5, <2>1, <2>2, <3>1, <3>2 DEF Settled, TicketRoom
  <2>4. CASE c \in drawn
    <3>1. Settled(c)
      BY <1>5, <2>4 DEF CommentsInv
    <3>2. \A x, y \in Requests : Dealing(x, c)' /\ Dealing(y, c)' => x = y
      BY <1>5, <2>1, <2>2, <3>1 DEF Settled
    <3>3. ASSUME NEW x \in Requests, Dealing(x, c)'
          PROVE  /\ creq'[x].phase = "insert" => \A s \in Sockets : heard'[s][c] = "nothing"
                 /\ creq'[x].phase \in {"added", "updated"} => c \in Stored'
                 /\ creq'[x].phase = "deleted" => c \notin Stored'
      <4>1. CASE x = r
        BY <1>2, <1>5, <2>2, <3>3, <4>1
      <4>2. CASE x # r
        <5>1. Dealing(x, c) /\ creq'[x] = creq[x]
          BY <1>2, <2>1, <3>3, <4>2
        <5>2. ~Dealing(r, c)
          BY <3>1, <4>2, <5>1 DEF Settled
        <5> QED
          BY <1>5, <3>1, <5>1, <5>2 DEF Settled
      <4> QED
        BY <4>1, <4>2
    <3>4. ASSUME NEW s \in TicketRoom'
          PROVE  /\ heard'[s][c] = "deleted" => c \notin Stored'
                 /\ heard'[s][c] \in {"added", "updated"} =>
                       c \in Stored' \/ \E x \in Requests : Dealing(x, c)' /\ creq'[x].phase = "deleted"
      <4>1. s \in Sockets /\ s \in TicketRoom /\ heard' = heard
        BY <3>4 DEF TicketRoom
      <4>2. heard[s][c] = "deleted" => c \notin Stored'
        BY <1>5, <3>1, <4>1 DEF Settled
      <4>3. ASSUME heard[s][c] \in {"added", "updated"}, c \notin Stored'
            PROVE  \E x \in Requests : Dealing(x, c)' /\ creq'[x].phase = "deleted"
        <5>1. CASE c \in Stored
          BY <1>2, <1>5, <2>2, <4>3, <5>1
        <5>2. CASE c \notin Stored
          <6>1. PICK x \in Requests : Dealing(x, c) /\ creq[x].phase = "deleted"
            BY <3>1, <4>1, <4>3, <5>2 DEF Settled
          <6>2. x # r
            BY <6>1
          <6> QED
            BY <1>2, <2>1, <6>1, <6>2
        <5> QED
          BY <5>1, <5>2
      <4> QED
        BY <4>1, <4>2, <4>3
    <3> QED
      BY <3>2, <3>3, <3>4 DEF Settled
  <2> QED
    BY <2>3, <2>4
<1> QED
  BY <1>3, <1>4, <1>5 DEF CommentsInv

\* A request that only ends.
LEMMA EndKeeps ==
    ASSUME CommentsInv, NEW r \in Requests, Refuse(r), creq[r].phase # "deleted",
           UNCHANGED <<socket, heard, aged, ticketDeleted, comments, drawn>>,
           unsettled \subseteq unsettled', unsettled' \subseteq drawn
    PROVE  CommentsInv'
<1>1. Become(r, Idle) /\ Stored' = Stored /\ drawn' = drawn
  BY DEF Refuse, Stored
<1>2. drawn \subseteq CommentIds /\ Stored \subseteq drawn /\ comments' \in [Stored' -> Documents]
  BY <1>1 DEF CommentsInv, CommentsType
<1> QED
  BY <1>1, <1>2, QuietStep

\* A request that reads or checks: it writes nothing.
LEMMA CheckKeeps ==
    ASSUME CommentsInv, NEW r \in Requests,
           CheckCreate(r) \/ FindForEdit(r) \/ GetForDelete(r) \/ FindForDelete(r),
           UNCHANGED realtimeVars
    PROVE  CommentsInv'
<1>1. UNCHANGED <<socket, heard, aged, ticketDeleted, comments>> /\ Stored' = Stored
  BY DEF CheckCreate, FindForEdit, GetForDelete, FindForDelete, realtimeVars, Stored
<1>2. /\ drawn \subseteq CommentIds /\ Stored \subseteq drawn /\ comments' \in [Stored' -> Documents]
      /\ unsettled \subseteq drawn
  BY <1>1 DEF CommentsInv, CommentsType
<1>3. CASE CheckCreate(r)
  <2>1. PICK u \in Users, internal \in BOOLEAN, c \in CommentIds \ drawn :
            /\ Become(r, [phase |-> "insert", id |-> c, user |-> u, internal |-> internal])
            /\ drawn' = drawn \cup {c}
    BY <1>3 DEF CheckCreate
  <2> DEFINE q == [phase |-> "insert", id |-> c, user |-> u, internal |-> internal]
  <2>2. q \in Working /\ q.id = c /\ q.phase = "insert"
    BY DEF Working
  <2>3. \A x \in Requests : ~Dealing(x, c)
    BY DEF CommentsInv, AboutDrawn, Dealing
  <2>4. \A s \in Sockets : heard[s][c] = "nothing"
    BY DEF CommentsInv, AboutDrawn
  <2>5. creq[r].phase # "deleted" /\ unsettled' = unsettled /\ Become(r, q)
    BY <1>3, <2>1 DEF CheckCreate, Idle
  <2> HIDE DEF q
  <2> QED
    BY <1>1, <1>2, <2>1, <2>2, <2>3, <2>4, <2>5, QuietStep
<1>4. ASSUME NEW c \in Stored, NEW q \in Working, creq[r] = Idle, q.id = c, q.phase \in {"save", "find"},
             Become(r, q), About(r, c), drawn' = drawn
      PROVE  CommentsInv'
  <2>1. /\ unsettled \subseteq unsettled' /\ unsettled' \subseteq drawn'
        /\ c \notin unsettled' => Sharing(r, c) = {}
    BY <1>2, <1>4 DEF About
  <2>2. c \notin unsettled' => \A x \in Requests \ {r} : ~Dealing(x, c)
    BY <2>1 DEF Sharing, Dealing
  <2>3. creq[r].phase # "deleted" /\ c \in drawn
    BY <1>2, <1>4 DEF Idle
  <2> QED
    BY <1>1, <1>2, <1>4, <2>1, <2>2, <2>3, QuietStep
<1>5. CASE FindForEdit(r)
  <2>1. PICK c \in Stored : /\ Become(r, [phase |-> "save", id |-> c, copy |-> comments[c]])
                            /\ About(r, c)
    BY <1>5 DEF FindForEdit
  <2>2. comments[c] \in Documents /\ c \in CommentIds
    BY <1>2 DEF CommentsInv, CommentsType
  <2> DEFINE q == [phase |-> "save", id |-> c, copy |-> comments[c]]
  <2>3. q \in Working /\ q.id = c /\ q.phase = "save"
    BY <2>2 DEF Working
  <2>4. creq[r] = Idle /\ drawn' = drawn /\ Become(r, q)
    BY <1>5, <2>1 DEF FindForEdit
  <2> HIDE DEF q
  <2> QED
    BY <1>4, <2>1, <2>3, <2>4
<1>6. CASE GetForDelete(r)
  <2>1. PICK u \in Users, c \in Stored :
            /\ Become(r, [phase |-> "find", id |-> c, user |-> u, ticket |-> ~ticketDeleted])
            /\ About(r, c)
    BY <1>6 DEF GetForDelete
  <2>2. c \in CommentIds
    BY <1>2
  <2> DEFINE q == [phase |-> "find", id |-> c, user |-> u, ticket |-> ~ticketDeleted]
  <2>3. q \in Working /\ q.id = c /\ q.phase = "find"
    <3> DEFINE there == ~ticketDeleted
    <3>1. there \in BOOLEAN
      BY Zenon
    <3> HIDE DEF there
    <3> QED
      BY <2>2, <3>1 DEF Working
  <2>4. creq[r] = Idle /\ drawn' = drawn /\ Become(r, q)
    BY <1>6, <2>1 DEF GetForDelete
  <2> HIDE DEF q
  <2> QED
    BY <1>4, <2>1, <2>3, <2>4
<1>7. CASE FindForDelete(r)
  <2>1. creq[r].phase = "find" /\ drawn' = drawn /\ unsettled' = unsettled
    BY <1>7 DEF FindForDelete
  <2>2. creq[r] \in Working /\ creq[r].id \in drawn /\ creq[r] # Idle
    BY <2>1, BusyIsWorking
  <2>3. CASE Refuse(r)
    BY <1>1, <1>2, <2>1, <2>3, EndKeeps
  <2>4. CASE Become(r, [creq[r] EXCEPT !.phase = "remove"])
    <3> DEFINE q == [creq[r] EXCEPT !.phase = "remove"]
    <3>1. creq[r] \in [phase : {"find", "remove"}, id : CommentIds, user : Users, ticket : BOOLEAN]
      BY <2>1, <2>2 DEF Working
    <3>2. /\ q \in [phase : {"find", "remove"}, id : CommentIds, user : Users, ticket : BOOLEAN]
          /\ q.phase = "remove" /\ q.id = creq[r].id
      BY <3>1
    <3>3. q \in Working
      BY <3>2 DEF Working
    <3>4. Become(r, q)
      BY <2>4
    <3> HIDE DEF q
    <3>5. \A c \in drawn \ unsettled : q.id = c => \A x \in Requests \ {r} : ~Dealing(x, c)
      <4>1. Dealing(r, q.id)
        BY <2>2, <3>2 DEF Dealing
      <4> QED
        BY <4>1 DEF CommentsInv, Settled
    <3> QED
      BY <1>1, <1>2, <2>1, <2>2, <3>2, <3>3, <3>4, <3>5, QuietStep
  <2> QED
    BY <1>7, <2>3, <2>4 DEF FindForDelete, DeletionRefused
<1> QED
  BY <1>3, <1>5, <1>6, <1>7

\* A request that writes.
LEMMA WriteKeeps ==
    ASSUME CommentsInv, NEW r \in Requests,
           InsertComment(r) \/ SaveEdit(r) \/ RemoveComment(r),
           UNCHANGED realtimeVars
    PROVE  CommentsInv'
<1> DEFINE q == creq[r]
           c == q.id
<1>1. UNCHANGED <<socket, heard, aged, ticketDeleted, drawn>> /\ q.phase \in {"insert", "save", "remove"}
  BY DEF InsertComment, SaveEdit, RemoveComment, realtimeVars
<1>2. /\ drawn \subseteq CommentIds /\ Stored \subseteq drawn /\ unsettled \subseteq drawn
      /\ comments \in [Stored -> Documents]
  BY DEF CommentsInv, CommentsType
<1>3. q \in Working /\ q # Idle /\ c \in drawn
  BY <1>1, BusyIsWorking
<1>4. Dealing(r, c)
  BY <1>3 DEF Dealing
<1>5. c \notin unsettled =>
          /\ \A x \in Requests \ {r} : ~Dealing(x, c)
          /\ q.phase = "insert" => \A s \in Sockets : heard[s][c] = "nothing"
  BY <1>3, <1>4 DEF CommentsInv, Settled
<1> DEFINE t(phase) == [phase |-> phase, id |-> c]
<1>6. \A phase \in {"added", "updated", "deleted"} :
          t(phase) \in Working /\ t(phase).id = c /\ t(phase).phase = phase
  BY <1>2, <1>3 DEF Working
<1>7. ASSUME NEW doc \in Documents, Put(c, doc)
      PROVE  Stored' = Stored \cup {c} /\ comments' \in [Stored' -> Documents]
  <2>1. comments' = [x \in Stored \cup {c} |-> IF x = c THEN doc ELSE comments[x]]
    BY <1>7 DEF Put
  <2>2. Stored' = Stored \cup {c}
    BY <2>1 DEF Stored
  <2> QED
    BY <1>2, <2>1, <2>2
<1>8. CASE InsertComment(r)
  <2> DEFINE doc == [author |-> q.user, internal |-> q.internal, edited |-> FALSE]
  <2>1. q.phase = "insert" /\ Put(c, doc) /\ Become(r, t("added")) /\ unsettled' = unsettled
    BY <1>8 DEF InsertComment
  <2>2. doc \in Documents
    BY <1>3, <2>1, WorkingFields DEF Documents
  <2>3. Stored' = Stored \cup {c} /\ comments' \in [Stored' -> Documents]
    BY <1>7, <2>1, <2>2
  <2> HIDE DEF t
  <2> QED
    BY <1>1, <1>2, <1>3, <1>4, <1>5, <1>6, <2>1, <2>3, QuietStep
<1>9. CASE SaveEdit(r) /\ Meets(c)
  <2> DEFINE doc == [q.copy EXCEPT !.edited = TRUE]
  <2>1. q.phase = "save" /\ Put(c, doc) /\ Become(r, t("updated")) /\ unsettled' = unsettled /\ c \in Stored
    BY <1>9 DEF SaveEdit, Meets
  <2>2. q.copy \in Documents
    BY <1>3, <2>1, WorkingFields
  <2>3. doc \in Documents
    BY <2>2 DEF Documents
  <2>4. Stored' = Stored /\ comments' \in [Stored' -> Documents]
    BY <1>7, <2>1, <2>3
  <2> HIDE DEF t
  <2> QED
    BY <1>1, <1>2, <1>3, <1>4, <1>5, <1>6, <2>1, <2>4, QuietStep
<1>10. CASE SaveEdit(r) /\ ~Meets(c)
  <2>1. Refuse(r) /\ UNCHANGED <<comments, unsettled>>
    BY <1>10 DEF SaveEdit
  <2> QED
    BY <1>1, <1>2, <2>1, EndKeeps
<1>11. CASE RemoveComment(r)
  <2>1. comments' = [x \in Stored \ {c} |-> comments[x]]
    BY <1>11 DEF RemoveComment
  <2>2. Stored' = Stored \ {c} /\ comments' \in [Stored' -> Documents]
    <3>1. Stored' = Stored \ {c}
      BY <2>1 DEF Stored
    <3> QED
      BY <1>2, <2>1, <3>1
  <2>3. CASE q.ticket
    <3>1. Become(r, t("deleted")) /\ unsettled' = unsettled
      BY <1>11, <2>3 DEF RemoveComment
    <3>2. /\ t("deleted") \in Working /\ t("deleted").id = c /\ t("deleted").phase = "deleted"
          /\ t("deleted") # Idle
      BY <1>6, WorkingFields
    <3> HIDE DEF t
    <3>3. c \notin Stored' /\ \A x \in Stored \ Stored' : x = c
      BY <2>2
    <3>4. Stored' \subseteq drawn' /\ Stored' \subseteq Stored /\ drawn' = drawn
      BY <1>1, <1>2, <2>2
    <3> QED
      BY <1>1, <1>2, <1>3, <1>4, <1>5, <2>2, <3>1, <3>2, <3>3, <3>4, QuietStep
  <2>4. CASE ~q.ticket
    <3>1. Become(r, Idle) /\ unsettled' = unsettled \cup {c}
      BY <1>11, <2>4 DEF RemoveComment, Refuse
    <3> QED
      BY <1>1, <1>2, <1>3, <2>2, <3>1, QuietStep
  <2> QED
    BY <2>3, <2>4
<1> QED
  BY <1>8, <1>9, <1>10, <1>11

\* A request that tells the room what it has done.
LEMMA EmitKeeps ==
    ASSUME CommentsInv, NEW r \in Requests, Emit(r), UNCHANGED realtimeVars
    PROVE  CommentsInv'
<1> DEFINE q == creq[r]
           c == q.id
<1>1. /\ UNCHANGED <<socket, comments, aged, drawn, ticketDeleted, unsettled>>
      /\ q.phase \in {"added", "updated", "deleted"} /\ Become(r, Idle)
      /\ heard' = [s \in Sockets |-> IF s \in TicketRoom THEN [heard[s] EXCEPT ![c] = q.phase] ELSE heard[s]]
  BY DEF Emit, realtimeVars
<1>2. Stored' = Stored /\ TicketRoom' = TicketRoom /\ TicketRoom \subseteq Sockets
  BY <1>1 DEF Stored, TicketRoom
<1>3. q \in Working /\ q # Idle /\ c \in drawn /\ c \in CommentIds /\ Dealing(r, c)
  BY <1>1, BusyIsWorking DEF Dealing, CommentsInv, CommentsType
<1>4. /\ creq' \in [Requests -> Working \cup {Idle}]
      /\ creq'[r] = Idle /\ \A x \in Requests \ {r} : creq'[x] = creq[x]
  BY <1>1 DEF Become, CommentsInv, CommentsType
<1>5. \A s \in Sockets : heard[s] \in [CommentIds -> Words]
  BY DEF CommentsInv, CommentsType
<1>6. \A s \in Sockets, d \in CommentIds :
          heard'[s][d] = IF s \in TicketRoom /\ d = c THEN q.phase ELSE heard[s][d]
  BY <1>1, <1>3, <1>5
<1>7. CommentsType'
  <2>1. \A s \in Sockets : heard'[s] \in [CommentIds -> Words]
    BY <1>1, <1>3, <1>5 DEF Words
  <2>2. heard' \in [Sockets -> [CommentIds -> Words]]
    BY <1>1, <2>1
  <2> QED
    BY <1>1, <1>2, <1>4, <2>2 DEF CommentsInv, CommentsType
<1>8. AboutDrawn'
  BY <1>1, <1>3, <1>4, <1>6 DEF CommentsInv, AboutDrawn
<1>9. ASSUME NEW d \in drawn', d \notin unsettled'
      PROVE  Settled(d)'
  <2>1. d \in CommentIds /\ Settled(d)
    BY <1>1, <1>9 DEF CommentsInv, CommentsType
  <2>2. \A x \in Requests : Dealing(x, d)' <=> x # r /\ Dealing(x, d)
    BY <1>4 DEF Dealing
  <2>3. CASE d = c
    <3>1. \A x \in Requests : ~Dealing(x, d)'
      BY <1>3, <2>1, <2>2, <2>3 DEF Settled
    <3>2. \A s \in TicketRoom : heard'[s][d] = q.phase
      BY <1>2, <1>6, <2>1, <2>3
    <3>3. /\ q.phase \in {"added", "updated"} => d \in Stored
          /\ q.phase = "deleted" => d \notin Stored
      BY <1>3, <2>1, <2>3 DEF Settled
    <3> QED
      BY <1>1, <1>2, <3>1, <3>2, <3>3 DEF Settled
  <2>4. CASE d # c
    <3>1. \A x \in Requests : (Dealing(x, d)' <=> Dealing(x, d)) /\ (Dealing(x, d) => creq'[x] = creq[x])
      BY <1>4, <2>2, <2>4 DEF Dealing
    <3>2. \A s \in Sockets : heard'[s][d] = heard[s][d]
      BY <1>6, <2>1, <2>4
    <3> QED
      BY <1>2, <2>1, <3>1, <3>2 DEF Settled
  <2> QED
    BY <2>3, <2>4
<1> QED
  BY <1>7, <1>8, <1>9 DEF CommentsInv

\* The comments' side of every step.
LEMMA CommentsKeeps ==
    ASSUME CommentsInv, CommentsNext, UNCHANGED realtimeVars
    PROVE  CommentsInv'
<1>1. ASSUME NEW r \in Requests, RequestFails(r)
      PROVE  CommentsInv'
  <2>1. /\ creq[r].phase \notin {"idle", "deleted"} /\ Refuse(r)
        /\ UNCHANGED <<socket, heard, aged, ticketDeleted, comments, drawn>>
        /\ unsettled' = unsettled \/ unsettled' = unsettled \cup {creq[r].id}
    BY <1>1 DEF RequestFails, Refuse, realtimeVars
  <2>2. creq[r].id \in drawn /\ unsettled \subseteq drawn
    BY <2>1, BusyIsWorking DEF CommentsInv, CommentsType
  <2> QED
    BY <2>1, <2>2, EndKeeps
<1>2. ASSUME UNCHANGED <<socket, comments, drawn, creq, heard, unsettled>>,
             ticketDeleted' \in BOOLEAN, aged' \subseteq drawn
      PROVE  CommentsInv'
  BY <1>2 DEF CommentsInv, CommentsType, AboutDrawn, Settled, Dealing, TicketRoom, Stored
<1>3. ASSUME NEW c \in CommentIds, FifteenMinutesPass(c)
      PROVE  CommentsInv'
  <2>1. ticketDeleted' \in BOOLEAN /\ aged' \subseteq drawn
    BY <1>3 DEF FifteenMinutesPass, CommentsInv, CommentsType
  <2> QED
    BY <1>2, <1>3, <2>1 DEF FifteenMinutesPass, realtimeVars
<1>4. CASE DeleteTicket
  <2>1. ticketDeleted' \in BOOLEAN /\ aged' \subseteq drawn
    BY <1>4 DEF DeleteTicket, CommentsInv, CommentsType
  <2> QED
    BY <1>2, <1>4, <2>1 DEF DeleteTicket, realtimeVars
<1> QED
  BY <1>1, <1>3, <1>4, CheckKeeps, WriteKeeps, EmitKeeps DEF CommentsNext, Handle

\* A step of the socket server: a socket that enters the room has heard nothing.
LEMMA EnteredKeeps ==
    ASSUME CommentsInv, Entered, UNCHANGED <<comments, aged, drawn, ticketDeleted, creq, unsettled>>
    PROVE  CommentsInv'
<1>1. Stored' = Stored
  BY DEF Stored
<1>2. \A s \in Sockets, c \in CommentIds :
          heard'[s][c] = IF s \in TicketRoom THEN heard[s][c] ELSE "nothing"
  BY DEF Entered, TicketRoom
<1>3. CommentsType'
  <2>1. heard' \in [Sockets -> [CommentIds -> Words]]
    BY DEF Entered, CommentsInv, CommentsType, Words
  <2> QED
    BY <1>1, <2>1 DEF CommentsInv, CommentsType
<1>4. AboutDrawn'
  BY <1>2 DEF CommentsInv, AboutDrawn
<1>5. ASSUME NEW c \in drawn', c \notin unsettled'
      PROVE  Settled(c)'
  <2>1. c \in CommentIds /\ Settled(c) /\ \A x \in Requests : Dealing(x, c)' <=> Dealing(x, c)
    BY <1>5 DEF CommentsInv, CommentsType, Dealing
  <2>2. TicketRoom' \subseteq Sockets
    BY DEF TicketRoom
  <2> QED
    BY <1>1, <1>2, <2>1, <2>2 DEF Settled
<1> QED
  BY <1>3, <1>4, <1>5 DEF CommentsInv

-----------------------------------------------------------------------------
(* The invariant.                                                          *)

LEMMA IInvParts == IInv <=> RealtimeType /\ Presence /\ CommentsInv
  BY TypeParts DEF IInv, CommentsInv

LEMMA InitIInv == Init => IInv
<1> SUFFICES ASSUME Init PROVE IInv
  OBVIOUS
<1>1. Registered = {} /\ Stored = {}
  BY DEF Init, RealtimeInit, Registered, Stored
<1>2. RealtimeType
  BY <1>1, MaxConnAssumption DEF Init, RealtimeInit, RealtimeType, Closed
<1>3. Presence
  <2>1. IsFiniteSet(Registered)
    BY <1>1, FS_EmptySet
  <2> QED
    BY <1>1, <2>1 DEF Init, RealtimeInit, Presence, RegistryIsConnected, PresenceIsTrue, Closed
<1>4. CommentsType
  BY <1>1 DEF Init, CommentsType, Words
<1>5. AboutDrawn
  BY DEF Init, AboutDrawn
<1>6. drawn = {}
  BY DEF Init
<1> QED
  BY <1>2, <1>3, <1>4, <1>5, <1>6, IInvParts DEF CommentsInv

LEMMA NextIInv ==
    ASSUME IInv, [Next]_vars
    PROVE  IInv'
<1>1. RealtimeType /\ Presence /\ CommentsInv
  BY IInvParts
<1>2. ASSUME UNCHANGED realtimeVars
      PROVE  RealtimeType' /\ Presence'
  BY <1>1, <1>2 DEF realtimeVars, RealtimeType, Presence, RegistryIsConnected, PresenceIsTrue, Registered
<1>3. RealtimeType' /\ Presence'
  BY <1>1, <1>2, RealtimeKeeps DEF Next, vars, realtimeVars
<1>4. CommentsInv'
  <2>1. CASE UNCHANGED vars
    BY <1>1, <2>1 DEF vars, CommentsInv, CommentsType, AboutDrawn, Settled, Dealing, TicketRoom, Stored
  <2> QED
    BY <1>1, <2>1, CommentsKeeps, EnteredKeeps DEF Next
<1> QED
  BY <1>3, <1>4, IInvParts, PTL

LEMMA SpecIInv == Spec => []IInv
  BY InitIInv, NextIInv, PTL DEF Spec

-----------------------------------------------------------------------------
(* The theorems.                                                           *)

\* The types; the limiter's counter never passes its limit, only registered
\* sockets are in a room, and a comment stored was drawn.
THEOREM RoomsTypeCorrect == Spec => []TypeOK
<1>1. IInv => TypeOK
  BY DEF IInv
<1> QED
  BY <1>1, SpecIInv, PTL

\* Whatever the order in which the sockets of a user come and go, admins and
\* managers were told last what is so.
THEOREM PresenceIsAlwaysTrue == Spec => []PresenceIsTrue
<1>1. IInv => PresenceIsTrue
  BY DEF IInv, Presence
<1> QED
  BY <1>1, SpecIInv, PTL

\* A comment that was deleted never comes back, not even by the save of an edit
\* that had read it.
THEOREM DeletionsAreFinal == Spec => DeletedCommentsStayDeleted
<1> DEFINE Stay ==
        \A c \in CommentIds :
          c \in drawn \ Stored /\ c \in Stored' =>
              \E r \in Requests : creq[r].phase = "insert" /\ creq[r].id = c
<1>1. ASSUME Next PROVE Stay
  <2> SUFFICES ASSUME NEW c \in CommentIds, c \notin Stored, c \in Stored'
               PROVE  \E r \in Requests : creq[r].phase = "insert" /\ creq[r].id = c
    OBVIOUS
  <2>1. comments' # comments
    BY DEF Stored
  <2>2. PICK r \in Requests : InsertComment(r) \/ SaveEdit(r) \/ RemoveComment(r)
    BY <1>1, <2>1 DEF Next, CommentsNext, Handle, CheckCreate, FindForEdit, GetForDelete, FindForDelete,
       Emit, RequestFails, FifteenMinutesPass, DeleteTicket
  <2>3. CASE InsertComment(r)
    BY <2>3 DEF InsertComment, Put, Stored
  <2>4. CASE SaveEdit(r)
    BY <2>1, <2>4 DEF SaveEdit, Meets, Put, Stored
  <2>5. CASE RemoveComment(r)
    BY <2>5 DEF RemoveComment, Stored
  <2> QED
    BY <2>2, <2>3, <2>4, <2>5
<1>2. ASSUME [Next]_vars PROVE [Stay]_vars
  BY <1>1, <1>2
<1>3. QED
  BY <1>2, PTL DEF Spec, DeletedCommentsStayDeleted

\* Once nothing is in flight about a comment that no two requests shared and
\* whose events were sent, what the ticket's room heard last of it is so.
THEOREM LastWordIsAlwaysTrue == Spec => []LastWordIsTrue
<1>1. IInv => LastWordIsTrue
  <2> SUFFICES ASSUME IInv, NEW s \in TicketRoom, NEW c \in drawn \ unsettled,
                      \A r \in Requests : creq[r] = Idle \/ creq[r].id # c
               PROVE  /\ heard[s][c] \in {"added", "updated"} => c \in Stored
                      /\ heard[s][c] = "deleted" => c \notin Stored
    BY DEF LastWordIsTrue
  <2> QED
    BY DEF IInv, Settled, Dealing
<1> QED
  BY <1>1, SpecIInv, PTL

=============================================================================
