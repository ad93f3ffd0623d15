-------------------------- MODULE RoomsProperties --------------------------
(***************************************************************************)
(* What the socket server and the comments promise, of Comments.           *)
(***************************************************************************)
EXTENDS Comments

Documents == [author : Users, internal : BOOLEAN, edited : BOOLEAN]

Working ==
    [phase : {"insert"}, id : CommentIds, user : Users, internal : BOOLEAN]
        \cup [phase : {"save"}, id : CommentIds, copy : Documents]
        \cup [phase : {"find", "remove"}, id : CommentIds, user : Users, ticket : BOOLEAN]
        \cup [phase : {"added", "updated", "deleted"}, id : CommentIds]

\* The types; the limiter's counter never passes its limit, only registered
\* sockets are in a room, and a comment stored was drawn.
\* Code: socket.js, wsRateLimit.middleware.js, comment.service.js.
TypeOK ==
    /\ socket \in [Sockets -> [phase : {"closed", "authenticating", "connected"},
                               user : Users \cup {NoUser}, inTicket : BOOLEAN]]
    /\ Registered \subseteq Sockets /\ registry \in [Registered -> Users]
    /\ \A s \in Sockets : socket[s].inTicket => s \in Registered
    /\ counted \in 0 .. MaxConn
    /\ told \in [Users -> {"online", "offline"}]
    /\ drawn \subseteq CommentIds /\ aged \subseteq drawn /\ unsettled \subseteq drawn
    /\ Stored \subseteq drawn /\ comments \in [Stored -> Documents]
    /\ ticketDeleted \in BOOLEAN
    /\ creq \in [Requests -> Working \cup {Idle}]
    /\ heard \in [Sockets -> [CommentIds -> Words]]

\* Admins and managers were told last that a user is online exactly when one of
\* the user's sockets is connected, whatever the order in which several sockets
\* of one user - tabs, reconnections - come and go.
\* Code: the announcements of socket.js, made for a first and a last socket.
PresenceIsTrue ==
    \A u \in Users :
        told[u] = "online" <=> \E s \in Sockets : socket[s].phase = "connected"
                                                 /\ socket[s].user = u

\* A comment that was deleted never comes back: not even by the save() of an
\* edit that had read it before the deletion.
\* Code: updateComment and deleteComment of comment.service.js.
DeletedCommentsStayDeleted ==
    [][\A c \in CommentIds :
          c \in drawn \ Stored /\ c \in Stored' =>
              \E r \in Requests : creq[r].phase = "insert" /\ creq[r].id = c]_vars

\* What a page in the ticket's room heard last of a comment is so, once nothing
\* is in flight about that comment: "added" or "updated" and it is there,
\* "deleted" and it is not.  Excepted are the comments that two requests dealt
\* with at once, whose events may cross, and those whose event was never sent.
\* Code: the emissions of comment.controller.js, after the service's answer.
LastWordIsTrue ==
    \A s \in TicketRoom, c \in drawn \ unsettled :
        (\A r \in Requests : creq[r] = Idle \/ creq[r].id # c) =>
            /\ heard[s][c] \in {"added", "updated"} => c \in Stored
            /\ heard[s][c] = "deleted" => c \notin Stored
=============================================================================
