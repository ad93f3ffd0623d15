-------------------------- MODULE TicketProperties --------------------------
(***************************************************************************)
(* What the ticket component promises.  The first part holds however the   *)
(* requests interleave; the second part only while one request is served   *)
(* at a time, because the checks of a handler are made on a copy.          *)
(***************************************************************************)
EXTENDS Tickets

-----------------------------------------------------------------------------
(* Types.                                                                  *)

\* Requests waiting where the routes send their operation; "ids" are the
\* tickets created so far.
IsWaiting(q, ids) ==
    /\ q.phase \in {"insert", "view", "agent", "find"}
    /\ q = Waiting(q.phase, q.op, q.user, q.role, q.ticket, q.body)
    /\ q.user \in Users /\ q.role \in Roles /\ q.ticket \in TicketIds
    /\ <<q.phase, q.op>> \in
          {<<"insert", "create">>, <<"view", "update">>, <<"agent", "assign">>}
              \cup {"find"} \X {"update", "assign", "accept", "reject", "delete"}
    /\ q.phase # "insert" => q.ticket \in ids
    /\ IsPatch(q.body) /\ "rejectionHistory" \notin DOMAIN q.body

IsSaving(q, ids) ==
    /\ q.phase = "save"
    /\ q = [phase |-> "save", op |-> q.op, user |-> q.user, role |-> q.role,
            ticket |-> q.ticket, set |-> q.set, push |-> q.push,
            action |-> q.action]
    /\ q.user \in Users /\ q.role \in Roles /\ q.ticket \in ids
    /\ IsPatch(q.set) /\ "rejectionHistory" \notin DOMAIN q.set
    /\ q.push \in Seq(Users) /\ q.action \in Actions

IsAuditing(q, ids) ==
    /\ q.phase = "audit"
    /\ q = Auditing(q.ticket, q.action)
    /\ q.ticket \in ids /\ q.action \in Actions

IsRequest(q, ids) ==
    \/ q = Idle
    \/ IsWaiting(q, ids)
    \/ IsSaving(q, ids)
    \/ IsAuditing(q, ids)

\* Type invariant: every document keeps the schema's types, and every request
\* in flight carries what its next step needs.
TypeOK ==
    /\ Stored \subseteq TicketIds
    /\ \A t \in Stored : IsTicket(tickets[t])
    /\ accounts \in [Users -> Accounts]
    /\ DOMAIN req = Requests
    /\ \A r \in Requests : IsRequest(req[r], Stored)
    /\ audit \in [TicketIds -> SUBSET Actions]
    /\ auditLost \subseteq TicketIds
    /\ now \in Nat \ {0}

-----------------------------------------------------------------------------
(* Whatever the interleaving.                                              *)

\* A ticket that reached a milestone carries the record of it: a resolved or
\* closed ticket its dates, an accepted one acceptedAt, an assigned one
\* assignedAt, a rejected one an entry of rejectionHistory.  The reports of
\* the monitoring routes divide by these.  The dates and the status may come
\* from the saves of different requests, each of which saw another document.
MilestonesOf(d) ==
    /\ d.status \in {"resolved", "closed"} => d.resolvedAt # Never
    /\ d.status = "closed" => d.closedAt # Never
    /\ d.acceptanceStatus = "accepted" => d.acceptedAt # Never
    /\ d.assignedTo # NoUser => d.assignedAt # Never
    /\ d.acceptanceStatus = "rejected" => d.rejectionHistory # <<>>

MilestonesAreRecorded == \A t \in Stored : MilestonesOf(tickets[t])

\* A patch that takes nothing back: no date is unset, no ticket is given to
\* another creator or restored.
DateFields == {"assignedAt", "acceptedAt", "resolvedAt", "closedAt"}

TakesNothingBack(p) ==
    /\ \A at \in DateFields \cap DOMAIN p : p[at] # Never
    /\ "createdBy" \notin DOMAIN p
    /\ "isDeleted" \in DOMAIN p => p.isDeleted

\* The milestones request q is about to write are recorded by what it sends
\* together with what the stored document d already has.
MilestonesBacked(q, d) ==
    LET sends(f, S) == f \in DOMAIN q.set /\ q.set[f] \in S
        has(at) == at \in DOMAIN q.set \/ d[at] # Never
    IN  /\ sends("status", {"resolved", "closed"}) => has("resolvedAt")
        /\ sends("status", {"closed"}) => has("closedAt")
        /\ sends("acceptanceStatus", {"accepted"}) => has("acceptedAt")
        /\ sends("assignedTo", Users) => has("assignedAt")
        /\ sends("acceptanceStatus", {"rejected"}) =>
               q.push # <<>> \/ d.rejectionHistory # <<>>

\* What is in flight stays right while other requests write: what assignTicket
\* hands to updateTicket and what a save sends take nothing back, a save
\* completes the record of the milestones it sets on whatever document it
\* meets, and the _ids of tickets being created are new.
InFlightIsSound ==
    \A r \in Requests :
        LET q == req[r] IN
        /\ q.phase = "find" => /\ TakesNothingBack(q.body)
                               /\ "acceptanceStatus" \in DOMAIN q.body
                                      => q.body.acceptanceStatus = "pending"
        /\ q.phase = "save" => /\ TakesNothingBack(q.set)
                               /\ MilestonesBacked(q, tickets[q.ticket])
        /\ q.phase = "insert" =>
               /\ q.ticket \notin Stored
               /\ \A x \in Requests \ {r} :
                     req[x].phase = "insert" => req[x].ticket # q.ticket

\* Unless an entry was lost, the log (with the entries about to be written)
\* has an action for every way the ticket differs from a new one: nothing
\* reaches the database that the audit trail does not account for.
AuditTrailAccounts ==
    \A t \in Stored \ auditLost :
        LET d == tickets[t]
            trail == audit[t] \cup {req[r].action : r \in
                        {x \in Requests : req[x].phase = "audit" /\ req[x].ticket = t}}
            explains(S) == (S \cap AuditedActions) # S \/ (S \cap trail) # {}
        IN  /\ explains({"created"})
            /\ d.isDeleted => explains({"deleted"})
            /\ d.acceptanceStatus = "accepted" => explains({"accepted"})
            /\ d.rejectionHistory # <<>> => explains({"rejected"})
            /\ d.status # "open" => explains({"accepted", "status_changed"})
            /\ d.assignedTo # NoUser =>
                   explains({"assigned", "status_changed", "priority_changed"})

IsPrefixOf(s, u) == Len(s) <= Len(u) /\ \A i \in 1..Len(s) : u[i] = s[i]

\* Document e keeps the history document d records: who rejected the ticket,
\* who created it, that it reached a milestone, and that it is deleted.
Keeps(e, d) ==
    /\ IsPrefixOf(d.rejectionHistory, e.rejectionHistory)
    /\ e.createdBy = d.createdBy
    /\ \A at \in DateFields : d[at] # Never => e[at] # Never
    /\ d.isDeleted => e.isDeleted

\* Concurrent saves never erase history, and no ticket is created over
\* another: rejectionHistory is pushed to, the dates are only ever set, and a
\* deletion is not undone by the save of a handler that did not see it.
HistoryIsKept == [][\A t \in Stored : t \in Stored' /\ Keeps(tickets'[t], tickets[t])]_vars

\* The request whose save is applied by this step.
Saves(r) == req[r].phase = "save" /\ req'[r].phase = "audit"

\* What a request may change on a ticket, by its operation and the role it was
\* authenticated with: a customer the priority of its own ticket, an agent the
\* status and the dates that go with it; accepting and rejecting change what a
\* decision is recorded in, and nothing else, whoever decides (of whom that
\* should be, see AgentsDecide); only staff gives a ticket to somebody; only
\* an admin or the creator deletes it.
MayChange(q, t, f) ==
    LET handsBack == tickets'[t].assignedTo = NoUser IN
    \/ q.role = "customer" /\ f = "priority" /\ q.user = tickets[t].createdBy
    \/ q.role = "agent" /\ f \in {"status", "resolvedAt", "closedAt"}
    \/ q.op = "accept" /\ f \in {"acceptanceStatus", "acceptedAt", "status"}
    \/ q.op = "reject" /\ f \in {"acceptanceStatus", "rejectionHistory", "status"}
    \/ q.op = "reject" /\ f = "assignedTo" /\ handsBack
    \/ q.role \in Staff /\ f \notin {"createdBy", "isDeleted", "acceptedAt",
                                     "rejectionHistory"}
    \/ f = "isDeleted" /\ (q.role = "admin" \/ q.user = tickets[t].createdBy)

\* No field of a ticket changes but by the save of a request that may.
RoleBoundaries ==
    [][\A t \in Stored :
          tickets'[t] # tickets[t] =>
              \E r \in Requests :
                  /\ Saves(r) /\ req[r].ticket = t
                  /\ \A f \in Fields : tickets'[t][f] # tickets[t][f] =>
                                           MayChange(req[r], t, f)]_vars

\* What the routes, their documentation and the README say of the decision:
\* "Accept ticket (Agent only - for assigned tickets)", and so of rejecting.
\* The handlers look at the assignee only, and PUT /tickets/:id makes anybody
\* one.
AgentsDecide ==
    [][\A r \in Requests :
          Saves(r) /\ req[r].op \in {"accept", "reject"} => req[r].role = "agent"]_vars

\* A deleted ticket is at last left alone: the saves that were under way when
\* it was deleted run out, and the find hook lets no new one begin.
DeletedTicketsSettle ==
    \A t \in TicketIds :
        (t \in Stored /\ tickets[t].isDeleted)
            ~> [](\A r \in Requests : req[r].phase = "save" => req[r].ticket # t)

-----------------------------------------------------------------------------
(* One request at a time.                                                  *)

\* Comment of deleteTicket: a ticket that has been picked up is deleted by an
\* admin only.
OwnerDeletesOnlyUnpicked ==
    [][\A r \in Requests :
          LET t == req[r].ticket IN
          Saves(r) /\ req[r].op = "delete" /\ req[r].role # "admin"
              => tickets[t].status = "open"]_vars

\* "You can only accept [reject] tickets assigned to you", "Ticket is already
\* accepted": the ticket is the decider's when the decision is written, and
\* still undecided.
AssigneeDecides ==
    [][\A r \in Requests :
          LET d == tickets[req[r].ticket] IN
          Saves(r) /\ req[r].op \in {"accept", "reject"}
              => d.assignedTo = req[r].user /\ d.acceptanceStatus # "accepted"]_vars

\* The dates of the first resolution and the first closing are never moved.
FirstDatesStand ==
    [][\A t \in Stored, at \in {"resolvedAt", "closedAt"} :
          tickets[t][at] # Never => tickets'[t][at] = tickets[t][at]]_vars

\* A soft-deleted ticket does not change.
DeletedTicketsAreFrozen ==
    [][\A t \in Stored : tickets[t].isDeleted => tickets'[t] = tickets[t]]_vars

\* What anyone sees of the tickets, deleted or not.
Life == INSTANCE TicketLifecycle
    WITH life <- [t \in Stored |->
                    [status           |-> tickets[t].status,
                     assignedTo       |-> tickets[t].assignedTo,
                     acceptanceStatus |-> tickets[t].acceptanceStatus,
                     isDeleted        |-> tickets[t].isDeleted]]

\* Every request is one transition of the life of one ticket, checked and made
\* in the same instant, although the code checks in one step and writes in
\* another.
ImplementsLifecycle == Life!Spec

=============================================================================
