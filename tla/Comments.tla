------------------------------ MODULE Comments ------------------------------
(***************************************************************************)
(* The comments of one ticket - comment.routes.js, comment.controller.js,  *)
(* comment.service.js and comment.model.js - and, by Realtime, the sockets *)
(* in the ticket's room that are told of them.                             *)
(*                                                                         *)
(* A request is a sequence of steps with other requests in between:        *)
(*                                                                         *)
(*   POST    getTicketById -> Comment.create -> populate, emit             *)
(*   PUT     findById and the checks -> save() -> populate, emit           *)
(*   DELETE  getCommentById -> findById and the check -> findByIdAndDelete *)
(*           -> emit                                                       *)
(*                                                                         *)
(* The documents are reduced to their author, isInternal and whether the   *)
(* text has been edited.  A request begins with its first read that is not *)
(* refused; those before, and the GETs, change nothing and are left out.   *)
(***************************************************************************)
EXTENDS Realtime

CONSTANTS
    CommentIds,    \* the _ids Comment.create may draw
    Requests       \* slots for the requests in flight at one time

VARIABLES
    comments,      \* the comments collection: a function on the ids stored
    aged,          \* ids of the comments created over 15 minutes ago
    drawn,         \* ids drawn so far
    ticketDeleted, \* the ticket's isDeleted
    creq,          \* what each comment request in flight is doing
    heard,         \* per socket in the room: what it heard last of each comment
    unsettled      \* history: comments that requests shared, or one left halfway

vars == <<socket, registry, counted, told,
          comments, aged, drawn, ticketDeleted, creq, heard, unsettled>>

Idle == [phase |-> "idle"]
Stored == DOMAIN comments
Words == {"nothing", "added", "updated", "deleted"}

-----------------------------------------------------------------------------
(* Who may do what.                                                        *)

\* getTicketById: find hooks hide a deleted ticket.  canUserAccessTicket lets
\* admins and managers in, the customer who owns the ticket and the agent who
\* has it for now: as that changes, anyone may be let in.
CanSeeTicket == ~ticketDeleted

MayWriteInternal(u, internal) == internal => Role[u] # "customer"

\* canUserUpdateComment
MayEdit(c, u) == comments[c].author = u /\ c \notin aged

\* canUserDeleteComment
MayRemove(c, u) == Role[u] = "admin" \/ comments[c].author = u

-----------------------------------------------------------------------------
(* Requests.                                                               *)

Become(r, q) == creq' = [creq EXCEPT ![r] = q]

\* The other requests that are about comment c.
Sharing(r, c) == {x \in Requests \ {r} : creq[x] # Idle /\ creq[x].id = c}

\* r is about comment c from here on.
About(r, c) == unsettled' = IF Sharing(r, c) = {} THEN unsettled ELSE unsettled \cup {c}

Refuse(r) == Become(r, Idle)

\* createComment: the ticket and the hierarchy.
CheckCreate(r) ==
    /\ creq[r] = Idle
    /\ \E u \in Users, internal \in BOOLEAN, c \in CommentIds \ drawn :
          /\ CanSeeTicket /\ MayWriteInternal(u, internal)
          /\ Become(r, [phase |-> "insert", id |-> c, user |-> u, internal |-> internal])
          /\ drawn' = drawn \cup {c}
    /\ UNCHANGED <<comments, aged, ticketDeleted, heard, unsettled>>

Put(c, doc) == comments' = [x \in Stored \cup {c} |-> IF x = c THEN doc ELSE comments[x]]

InsertComment(r) ==
    LET q == creq[r] IN
    /\ q.phase = "insert"
    /\ Put(q.id, [author |-> q.user, internal |-> q.internal, edited |-> FALSE])
    /\ Become(r, [phase |-> "added", id |-> q.id])
    /\ UNCHANGED <<aged, drawn, ticketDeleted, heard, unsettled>>

\* updateComment up to its save().
FindForEdit(r) ==
    /\ creq[r] = Idle
    /\ \E u \in Users, c \in Stored :
          /\ MayEdit(c, u)
          /\ Become(r, [phase |-> "save", id |-> c, copy |-> comments[c]])
          /\ About(r, c)
    /\ UNCHANGED <<comments, aged, drawn, ticketDeleted, heard>>

\* Mutant: save() stores the comment it has, there or not.
Upserts(c) == TRUE

\* save() is an update by _id and fails when no document is met.
Meets(c) == c \in Stored

SaveEdit(r) ==
    LET q == creq[r] IN
    /\ q.phase = "save"
    /\ IF Meets(q.id)
       THEN /\ Put(q.id, [q.copy EXCEPT !.edited = TRUE])
            /\ Become(r, [phase |-> "updated", id |-> q.id])
       ELSE Refuse(r) /\ UNCHANGED comments
    /\ UNCHANGED <<aged, drawn, ticketDeleted, heard, unsettled>>

\* getCommentById admits admins and managers without a look at the ticket; for
\* others the populated ticket, null when it is deleted, is a TypeError.
MayGet(c, u) ==
    /\ ticketDeleted => Role[u] \in {"admin", "manager"}
    /\ Role[u] = "customer" => ~comments[c].internal

GetForDelete(r) ==
    /\ creq[r] = Idle
    /\ \E u \in Users, c \in Stored :
          /\ MayGet(c, u)
          /\ Become(r, [phase |-> "find", id |-> c, user |-> u, ticket |-> ~ticketDeleted])
          /\ About(r, c)
    /\ UNCHANGED <<comments, aged, drawn, ticketDeleted, heard>>

\* Mutant: the controller does not await deleteComment.
Unawaited(r) == Become(r, [phase |-> "deleted", id |-> creq[r].id])

DeletionRefused(r) == Refuse(r)

FindForDelete(r) ==
    LET q == creq[r] IN
    /\ q.phase = "find"
    /\ IF q.id \in Stored /\ MayRemove(q.id, q.user) THEN Become(r, [q EXCEPT !.phase = "remove"])
       ELSE DeletionRefused(r)
    /\ UNCHANGED <<comments, aged, drawn, ticketDeleted, heard, unsettled>>

\* findByIdAndDelete.  Without the ticket the controller fails on ticket._id,
\* and the deletion is not told.
RemoveComment(r) ==
    LET q == creq[r] IN
    /\ q.phase = "remove"
    /\ comments' = [x \in Stored \ {q.id} |-> comments[x]]
    /\ IF q.ticket THEN Become(r, [phase |-> "deleted", id |-> q.id]) /\ UNCHANGED unsettled
                   ELSE Refuse(r) /\ unsettled' = unsettled \cup {q.id}
    /\ UNCHANGED <<aged, drawn, ticketDeleted, heard>>

\* The controller emits comment:added, :updated or :deleted to the room.
Emit(r) ==
    LET q == creq[r] IN
    /\ q.phase \in {"added", "updated", "deleted"}
    /\ heard' = [s \in Sockets |-> IF s \in TicketRoom THEN [heard[s] EXCEPT ![q.id] = q.phase]
                                                       ELSE heard[s]]
    /\ Become(r, Idle)
    /\ UNCHANGED <<comments, aged, drawn, ticketDeleted, unsettled>>

\* A database call is refused - populate(), if the change is stored: its event
\* is lost.  None comes between a deletion and its event.
RequestFails(r) ==
    LET q == creq[r] IN
    /\ q.phase \notin {"idle", "deleted"}
    /\ Become(r, Idle)
    /\ unsettled' = IF q.phase \in {"added", "updated"} THEN unsettled \cup {q.id} ELSE unsettled
    /\ UNCHANGED <<comments, aged, drawn, ticketDeleted, heard>>

-----------------------------------------------------------------------------
(* The surroundings.                                                       *)

FifteenMinutesPass(c) ==
    /\ c \in Stored \ aged
    /\ aged' = aged \cup {c}
    /\ UNCHANGED <<comments, drawn, ticketDeleted, creq, heard, unsettled>>

DeleteTicket ==
    /\ ~ticketDeleted
    /\ ticketDeleted' = TRUE
    /\ UNCHANGED <<comments, aged, drawn, creq, heard, unsettled>>

Handle(r) ==
    \/ CheckCreate(r) \/ InsertComment(r)
    \/ FindForEdit(r) \/ SaveEdit(r)
    \/ GetForDelete(r) \/ FindForDelete(r) \/ RemoveComment(r)
    \/ Emit(r) \/ RequestFails(r)

CommentsNext ==
    \/ \E r \in Requests : Handle(r)
    \/ \E c \in CommentIds : FifteenMinutesPass(c)
    \/ DeleteTicket

\* A socket has heard nothing of a room it has just entered.
Entered ==
    heard' = [s \in Sockets |-> IF socket[s].inTicket THEN heard[s]
                                ELSE [c \in CommentIds |-> "nothing"]]

Init ==
    /\ RealtimeInit
    /\ comments = [c \in {} |-> Idle]
    /\ aged = {} /\ drawn = {} /\ ticketDeleted = FALSE
    /\ creq = [r \in Requests |-> Idle]
    /\ heard = [s \in Sockets |-> [c \in CommentIds |-> "nothing"]]
    /\ unsettled = {}

Next ==
    \/ CommentsNext /\ UNCHANGED realtimeVars
    \/ /\ RealtimeNext /\ Entered
       /\ UNCHANGED <<comments, aged, drawn, ticketDeleted, creq, unsettled>>

Spec == Init /\ [][Next]_vars
=============================================================================
