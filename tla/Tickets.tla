------------------------------- MODULE Tickets -------------------------------
(***************************************************************************)
(* The ticket component: ticket.routes.js, ticket.controller.js,           *)
(* ticket.service.js and the Mongoose model ticket.model.js.               *)
(*                                                                         *)
(* A request handler is an async function.  Between two of its awaits it   *)
(* runs alone; at each await other requests may run.  A handler therefore  *)
(* is a sequence of steps:                                                 *)
(*                                                                         *)
(*   middleware  -> [getTicketById | User.findOne] -> findById + checks    *)
(*               -> the database applies save() -> AuditLog.create         *)
(*                                                                         *)
(* findById gives the handler a private copy of the document.  Every check *)
(* is made on that copy, and save() sends only the paths that were changed *)
(* on it, as one {$set, $push} update that asks nothing of the stored      *)
(* document but its _id.  What another request wrote in between is neither *)
(* seen nor protected, and an equal value assigned is not a change.        *)
(*                                                                         *)
(* Left out: title, description, tags, dates and texts a ticket carries,   *)
(* assignedBy, rejectedAt, rejectionReason, deletedAt and deletedBy (they  *)
(* are written together with a field the model keeps and read by no        *)
(* check), and the reads that change nothing (lists, statistics, audit     *)
(* log).                                                                   *)
(***************************************************************************)
EXTENDS Integers, Sequences

CONSTANTS
    TicketIds,        \* the _ids Ticket.create may draw
    Users,            \* the accounts
    NoUser,           \* null in a field that refers to a user
    Requests,         \* slots for the requests in flight at one time
    Priorities,       \* the values of priority
    Categories,       \* the values of category
    MaxTime,          \* bound: the last instant the clock shows
    MaxRejections,    \* bound: rejections recorded before no more are asked for
    InitAccounts,     \* role and isActive of each account at the start
    AccountEdits,     \* the <<user, account>> edits user management may make
    UpdateBodies,     \* the bodies of PUT /tickets/:id in use
    AuditedActions    \* the actions whose audit entries are kept in view

Roles == {"admin", "manager", "agent", "customer"}
Statuses == {"open", "in_progress", "resolved", "closed"}
Acceptances == {"pending", "accepted", "rejected"}
Actions == {"created", "updated", "deleted", "assigned", "unassigned", "accepted",
            "rejected", "status_changed", "priority_changed"}

Accounts == [role : Roles, isActive : BOOLEAN]

Never == 0          \* null in a date field
Times == Nat        \* Never, or an instant from 1 on

\* The values each field of a ticket may hold.
FieldType ==
    [createdBy        |-> Users,
     status           |-> Statuses,
     priority         |-> Priorities,
     category         |-> Categories,
     assignedTo       |-> Users \cup {NoUser},
     assignedAt       |-> Times,
     acceptanceStatus |-> Acceptances,
     acceptedAt       |-> Times,
     resolvedAt       |-> Times,
     closedAt         |-> Times,
     isDeleted        |-> BOOLEAN,
     rejectionHistory |-> Seq(Users)]

Fields == DOMAIN FieldType

\* A partial document: some fields with values of their types.
IsPatch(p) ==
    /\ DOMAIN p \subseteq Fields
    /\ \A f \in DOMAIN p : p[f] \in FieldType[f]

IsTicket(d) == IsPatch(d) /\ DOMAIN d = Fields

\* What updateTicketSchema lets through: unknown keys are stripped.
UpdateKeys == {"status", "priority", "category", "assignedTo"}
IsUpdateBody(b) == IsPatch(b) /\ DOMAIN b \subseteq UpdateKeys

ASSUME NoUserAssumption == NoUser \notin Users
ASSUME BoundsAssumption == MaxTime \in Nat \ {0} /\ MaxRejections \in Nat
ASSUME AccountsAssumption ==
    /\ InitAccounts \in [Users -> Accounts]
    /\ AccountEdits \subseteq Users \X Accounts
ASSUME BodiesAssumption == \A b \in UpdateBodies : IsUpdateBody(b)

VARIABLES
    tickets,     \* the tickets collection: a function on the ids created
    accounts,    \* the part of the users collection this component reads
    req,         \* what each request in flight is doing
    audit,       \* the audit log: per ticket, the actions recorded in view
    auditLost,   \* history variable: tickets with an audit entry never written
    now          \* the clock

vars == <<tickets, accounts, req, audit, auditLost, now>>

Stored == DOMAIN tickets

-----------------------------------------------------------------------------
(* Documents: assignment, the save() hook, and what save() sends.          *)

\* Object.assign(ticket, patch), and the plain assignments of the handlers.
Assign(d, patch) ==
    [f \in Fields |-> IF f \in DOMAIN patch THEN patch[f] ELSE d[f]]

\* Mutant: the document is sent whole.
ModifiedWhole(old, new) == [f \in Fields \ {"rejectionHistory"} |-> new[f]]

\* The paths that differ from the document as it was loaded, with the values
\* save() sets them to.
Modified(old, new) == [f \in {g \in Fields : new[g] # old[g]} |-> new[f]]

\* Mutant: closing a ticket does not date its resolution.
PreSaveClosesOnly(old, new) ==
    IF new.status # "closed" \/ old.status = "closed" THEN new
    ELSE Assign(new, [closedAt |-> IF new.closedAt = Never THEN now ELSE new.closedAt])

\* Mutant: a later resolution is dated again.
PreSaveDatesAgain(old, new) ==
    IF new.status = old.status \/ new.status # "resolved" THEN new
    ELSE Assign(new, [resolvedAt |-> now])

\* ticketSchema.pre('save'): dates that go with a new status or assignee.
PreSave(old, new) ==
    LET statusModified == new.status # old.status
        resolving == statusModified /\ new.status \in {"resolved", "closed"}
        closing   == statusModified /\ new.status = "closed"
        assigning == new.assignedTo \notin {old.assignedTo, NoUser}
        stamp(set, at) == IF set /\ at = Never THEN now ELSE at
    IN  Assign(new, [resolvedAt |-> stamp(resolving, new.resolvedAt),
                     closedAt   |-> stamp(closing, new.closedAt),
                     assignedAt |-> stamp(assigning, new.assignedAt)])

\* updateOne({_id}, {$set: set, $push: {rejectionHistory: push}}).
Written(stored, set, push) ==
    [Assign(stored, set) EXCEPT !.rejectionHistory = @ \o push]

\* The document Ticket.create inserts.
NewTicket(user, priority, category) ==
    [createdBy        |-> user,
     status           |-> "open",
     priority         |-> priority,
     category         |-> category,
     assignedTo       |-> NoUser,
     assignedAt       |-> Never,
     acceptanceStatus |-> "pending",
     acceptedAt       |-> Never,
     resolvedAt       |-> Never,
     closedAt         |-> Never,
     isDeleted        |-> FALSE,
     rejectionHistory |-> <<>>]

\* What acceptTicket, rejectTicket and deleteTicket assign.
AcceptanceLeavesStatus ==        \* mutant
    [acceptanceStatus |-> "accepted", acceptedAt |-> now]

Acceptance ==
    [acceptanceStatus |-> "accepted", acceptedAt |-> now, status |-> "in_progress"]

Rejection ==
    [acceptanceStatus |-> "rejected", assignedTo |-> NoUser, status |-> "open"]

Deletion == [isDeleted |-> TRUE]

\* Mutant: the hook is not there.
FoundEvenDeleted(t) == t \in Stored

\* pre(/^find/): queries do not see a soft-deleted ticket.
Found(t) == t \in Stored /\ ~tickets[t].isDeleted

-----------------------------------------------------------------------------
(* Permissions.                                                            *)

\* ROLE_PERMISSIONS, the two permissions the ticket routes ask for.
RolePermissions ==
    [admin    |-> {"create_ticket", "assign_tickets"},
     manager  |-> {"create_ticket", "assign_tickets"},
     agent    |-> {},
     customer |-> {"create_ticket"}]

\* authorize(...) on POST / and PUT /:id/assign; the other routes have none.
Authorized(role, op) ==
    /\ op = "create" => "create_ticket" \in RolePermissions[role]
    /\ op = "assign" => "assign_tickets" \in RolePermissions[role]

Staff == {"admin", "manager"}

CanUserAccessTicket(d, user, role) ==
    \/ role \in Staff
    \/ role = "agent" /\ d.assignedTo = user
    \/ role = "agent" /\ d.assignedTo = NoUser /\ d.status = "open"
    \/ role = "customer" /\ d.createdBy = user

\* Mutant: a customer may send any field.
CustomerUpdatesAnything(d, user, role, keys) ==
    \/ role \in Staff
    \/ role = "customer" /\ d.createdBy = user /\ d.status = "open"

CanUserUpdateTicket(d, user, role, keys) ==
    \/ role \in Staff
    \/ /\ role = "agent"
       /\ d.assignedTo = user
       /\ d.acceptanceStatus = "accepted"
       /\ keys \subseteq {"status"}
    \/ /\ role = "customer"
       /\ d.createdBy = user
       /\ d.status = "open"
       /\ keys \subseteq {"priority"}

\* Mutant: only a finished ticket is kept from its owner.
OwnerDeletesInProgress(d, user, role) ==
    role = "admin" \/ (d.createdBy = user /\ d.status \notin {"resolved", "closed"})

\* The checks at the head of deleteTicket.
CanUserDeleteTicket(d, user, role) ==
    \/ role = "admin"
    \/ d.createdBy = user /\ d.status \notin {"in_progress", "resolved", "closed"}

\* Mutant: a decision may be taken again.
CanUserDecideAgain(d, user) == d.assignedTo = user

\* The checks acceptTicket and rejectTicket share.
CanUserDecide(d, user) ==
    d.assignedTo = user /\ d.acceptanceStatus # "accepted"

-----------------------------------------------------------------------------
(* Requests in flight.  "phase" names the await a request is suspended at. *)

Idle == [phase |-> "idle"]

\* Suspended before the handler has its copy of the ticket: in Ticket.create
\* ("insert"), the controller's getTicketById ("view"), User.findOne
\* ("agent") or the service's findById ("find").  The body of a request is
\* drawn where its handler first reads it; "body" is what assignTicket passes
\* on to updateTicket.
Waiting(phase, op, user, role, t, body) ==
    [phase |-> phase, op |-> op, user |-> user, role |-> role, ticket |-> t,
     body |-> body]

NoBody == [f \in {} |-> NoUser]

\* Suspended in ticket.save(), with what save() sends.
Saving(q, set, push, action) ==
    [phase |-> "save", op |-> q.op, user |-> q.user, role |-> q.role,
     ticket |-> q.ticket, set |-> set, push |-> push, action |-> action]

\* Suspended in AuditLog.create.
Auditing(t, action) == [phase |-> "audit", ticket |-> t, action |-> action]

Become(r, q) == req' = [req EXCEPT ![r] = q]

\* An error response: nothing has been written, and the request is over.
Refuse(r) == Become(r, Idle) /\ UNCHANGED tickets

\* Object.assign, the save() hook, and the call of save().
Save(r, old, patch, push, action) ==
    LET new == PreSave(old, Assign(old, patch))
    IN  /\ Become(r, Saving(req[r], Modified(old, new), push, action))
        /\ UNCHANGED tickets

Unaudited == UNCHANGED <<audit, auditLost>>
Elsewhere == UNCHANGED <<accounts, now>>

-----------------------------------------------------------------------------
(* The middleware: authenticate, authorize, validate.  The user and role   *)
(* are those authenticate loaded; no later step loads them again.          *)

Receive(r, phase, op, t) ==
    /\ req[r] = Idle
    /\ \E u \in Users :
          /\ accounts[u].isActive
          /\ Authorized(accounts[u].role, op)
          /\ Become(r, Waiting(phase, op, u, accounts[u].role, t, NoBody))
    /\ UNCHANGED tickets /\ Unaudited /\ Elsewhere

\* The _id is drawn by the driver, so no two requests have the same.
IsFresh(t) ==
    /\ t \notin Stored
    /\ \A r \in Requests : req[r].phase = "insert" => req[r].ticket # t

ReceiveCreate(r) ==
    \E t \in TicketIds : IsFresh(t) /\ Receive(r, "insert", "create", t)

ReceiveUpdate(r) == \E t \in Stored : Receive(r, "view", "update", t)
ReceiveAssign(r) == \E t \in Stored : Receive(r, "agent", "assign", t)
ReceiveAccept(r) == \E t \in Stored : Receive(r, "find", "accept", t)
ReceiveDelete(r) == \E t \in Stored : Receive(r, "find", "delete", t)

\* rejectTicketSchema has checked the reason, and rejectTicket's own checks of
\* its length repeat the schema's.
ReceiveReject(r) ==
    \E t \in Stored : /\ Len(tickets[t].rejectionHistory) < MaxRejections
                      /\ Receive(r, "find", "reject", t)

-----------------------------------------------------------------------------
(* The handlers, one action per stretch between two awaits.                *)

CreateTicket(r) ==
    LET q == req[r] IN
    /\ q.phase = "insert"
    /\ \E p \in Priorities, c \in Categories :
          tickets' = [t \in Stored \cup {q.ticket} |->
                         IF t = q.ticket THEN NewTicket(q.user, p, c)
                                         ELSE tickets[t]]
    /\ Become(r, Auditing(q.ticket, "created"))
    /\ Unaudited /\ Elsewhere

\* The controller's read ahead of updateTicket, with its own access check.
GetTicketById(r) ==
    LET q == req[r] IN
    /\ q.phase = "view"
    /\ IF Found(q.ticket)
          /\ CanUserAccessTicket(tickets[q.ticket], q.user, q.role)
       THEN /\ Become(r, Waiting("find", "update", q.user, q.role, q.ticket, NoBody))
            /\ UNCHANGED tickets
       ELSE Refuse(r)
    /\ Unaudited /\ Elsewhere

\* Mutant: the decision on the ticket stands.
AssignmentKeepsDecision(agent) == [assignedTo |-> agent, assignedAt |-> now]

Assignment(agent) == [assignedTo |-> agent, acceptanceStatus |-> "pending", assignedAt |-> now]

\* assignTicket up to its call of updateTicket.
AssignTicket(r) ==
    LET q == req[r] IN
    /\ q.phase = "agent"
    /\ \E agent \in Users :
          IF accounts[agent] = [role |-> "agent", isActive |-> TRUE]
          THEN /\ Become(r, Waiting("find", "assign", q.user, q.role, q.ticket,
                                    Assignment(agent)))
               /\ UNCHANGED tickets
          ELSE Refuse(r)
    /\ Unaudited /\ Elsewhere

\* Mutant: a new status is not told from other updates.
UpdateActionByField(old, body) ==
    IF "assignedTo" \in DOMAIN body THEN "assigned" ELSE "updated"

\* The audit action of an update: the first of these that applies.
UpdateAction(old, body) ==
    LET changes(f) == f \in DOMAIN body /\ body[f] # old[f]
        assigns    == "assignedTo" \in DOMAIN body /\ body.assignedTo # NoUser
    IN  CASE changes("status")                             -> "status_changed"
          [] ~changes("status") /\ changes("priority")     -> "priority_changed"
          [] ~changes("status") /\ ~changes("priority")
             /\ assigns                                    -> "assigned"
          [] OTHER                                         -> "updated"

UpdateTicket(r) ==
    LET q   == req[r]
        old == tickets[q.ticket]
    IN
    /\ q.phase = "find" /\ q.op \in {"update", "assign"}
    /\ \E body \in IF q.op = "assign" THEN {q.body} ELSE UpdateBodies :
          IF Found(q.ticket)
             /\ CanUserUpdateTicket(old, q.user, q.role, DOMAIN body)
          THEN Save(r, old, body, <<>>, UpdateAction(old, body))
          ELSE Refuse(r)
    /\ Unaudited /\ Elsewhere

AcceptTicket(r) ==
    LET q   == req[r]
        old == tickets[q.ticket]
    IN
    /\ q.phase = "find" /\ q.op = "accept"
    /\ IF Found(q.ticket) /\ CanUserDecide(old, q.user)
       THEN Save(r, old, Acceptance, <<>>, "accepted")
       ELSE Refuse(r)
    /\ Unaudited /\ Elsewhere

RejectTicket(r) ==
    LET q   == req[r]
        old == tickets[q.ticket]
    IN
    /\ q.phase = "find" /\ q.op = "reject"
    /\ IF Found(q.ticket) /\ CanUserDecide(old, q.user)
       THEN Save(r, old, Rejection, <<q.user>>, "rejected")
       ELSE Refuse(r)
    /\ Unaudited /\ Elsewhere

DeleteTicket(r) ==
    LET q   == req[r]
        old == tickets[q.ticket]
    IN
    /\ q.phase = "find" /\ q.op = "delete"
    /\ IF Found(q.ticket) /\ CanUserDeleteTicket(old, q.user, q.role)
       THEN Save(r, old, Deletion, <<>>, "deleted")
       ELSE Refuse(r)
    /\ Unaudited /\ Elsewhere

\* The database applies the update; the handler goes on to its audit entry.
SaveTicket(r) ==
    LET q == req[r] IN
    /\ q.phase = "save"
    /\ tickets' = [tickets EXCEPT ![q.ticket] = Written(@, q.set, q.push)]
    /\ Become(r, Auditing(q.ticket, q.action))
    /\ Unaudited /\ Elsewhere

\* _audit: the entry is written and the response sent...
Audit(r) ==
    LET q == req[r] IN
    /\ q.phase = "audit"
    /\ audit' = [audit EXCEPT ![q.ticket] = @ \cup ({q.action} \cap AuditedActions)]
    /\ Become(r, Idle)
    /\ UNCHANGED <<tickets, auditLost>> /\ Elsewhere

\* ... or not, and the response is sent all the same.  A process that stops
\* here loses the entry too.
AuditFails(r) ==
    /\ req[r].phase = "audit"
    /\ auditLost' = auditLost \cup {req[r].ticket}
    /\ Become(r, Idle)
    /\ UNCHANGED <<tickets, audit>> /\ Elsewhere

\* A database call before the write is refused, or the process stops: the
\* error handler answers, or nobody does, and nothing was written.
RequestFails(r) ==
    /\ req[r].phase \notin {"idle", "audit"}
    /\ Become(r, Idle)
    /\ UNCHANGED tickets /\ Unaudited /\ Elsewhere

-----------------------------------------------------------------------------
(* The surroundings: user management, and the clock.                       *)

\* updateUser and deleteUser of user.service.js, as far as role and isActive
\* go: an admin may edit any account, a manager those of agents and customers.
ChangeAccount ==
    \E edit \in AccountEdits, actor \in Users :
        LET u == edit[1]
            a == edit[2]
            below == {"agent", "customer"}
        IN  /\ accounts[actor].isActive
            /\ \/ accounts[actor].role = "admin"
               \/ accounts[actor].role = "manager" /\ {accounts[u].role, a.role} \subseteq below
            /\ accounts' = [accounts EXCEPT ![u] = a]
            /\ UNCHANGED <<tickets, req, now>> /\ Unaudited

Tick ==
    /\ now < MaxTime
    /\ now' = now + 1
    /\ UNCHANGED <<tickets, accounts, req>> /\ Unaudited

-----------------------------------------------------------------------------

Init ==
    /\ tickets = [t \in {} |-> NoUser]
    /\ accounts = InitAccounts
    /\ req = [r \in Requests |-> Idle]
    /\ audit = [t \in TicketIds |-> {}]
    /\ auditLost = {}
    /\ now = 1

Arrive(r) ==
    \/ ReceiveCreate(r) \/ ReceiveUpdate(r) \/ ReceiveAssign(r)
    \/ ReceiveAccept(r) \/ ReceiveReject(r) \/ ReceiveDelete(r)

Handle(r) ==
    \/ CreateTicket(r) \/ GetTicketById(r) \/ AssignTicket(r) \/ UpdateTicket(r)
    \/ AcceptTicket(r) \/ RejectTicket(r) \/ DeleteTicket(r) \/ SaveTicket(r)
    \/ Audit(r) \/ AuditFails(r)

Next ==
    \/ \E r \in Requests : Arrive(r) \/ Handle(r) \/ RequestFails(r)
    \/ ChangeAccount
    \/ Tick

Spec == Init /\ [][Next]_vars

\* An awaited database call settles, so a handler that is suspended goes on.
\* Nothing makes a client send, a user be edited or a call fail.
FairSpec == Spec /\ \A r \in Requests : WF_vars(Handle(r))

=============================================================================
