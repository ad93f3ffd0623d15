-------------------------- MODULE TicketLifecycle --------------------------
(***************************************************************************)
(* The life of a ticket as its users understand it: each operation of      *)
(* ticket.service.js, applied to a live ticket in one indivisible step.    *)
(* Who may do what, and what is dated and logged, is left to Tickets.      *)
(***************************************************************************)
CONSTANTS TicketIds, Users, NoUser

VARIABLE life    \* the created tickets, with the four fields that decide

Live(t) == t \in DOMAIN life /\ ~life[t].isDeleted

\* createTicket
Create(t) ==
    /\ t \notin DOMAIN life
    /\ life' = [x \in DOMAIN life \cup {t} |->
                  IF x = t THEN [status           |-> "open",
                                 assignedTo       |-> NoUser,
                                 acceptanceStatus |-> "pending",
                                 isDeleted        |-> FALSE]
                           ELSE life[x]]

\* updateTicket: any status, any assignee, whatever was decided stands
Update(t) ==
    /\ Live(t)
    /\ \E s \in {"open", "in_progress", "resolved", "closed"}, u \in Users \cup {NoUser} :
          life' = [life EXCEPT ![t].status = s, ![t].assignedTo = u]

\* assignTicket: to a user who has not decided yet
Assign(t) ==
    /\ Live(t)
    /\ \E u \in Users :
          life' = [life EXCEPT ![t].assignedTo = u, ![t].acceptanceStatus = "pending"]

Undecided(t) ==
    Live(t) /\ life[t].assignedTo # NoUser /\ life[t].acceptanceStatus # "accepted"

\* acceptTicket: work begins
Accept(t) ==
    /\ Undecided(t)
    /\ life' = [life EXCEPT ![t].acceptanceStatus = "accepted", ![t].status = "in_progress"]

\* rejectTicket: back to the pool
Reject(t) ==
    /\ Undecided(t)
    /\ life' = [life EXCEPT ![t].acceptanceStatus = "rejected", ![t].status = "open",
                            ![t].assignedTo = NoUser]

\* deleteTicket: nothing follows
Delete(t) ==
    /\ Live(t)
    /\ life' = [life EXCEPT ![t].isDeleted = TRUE]

Init == DOMAIN life = {}

Next ==
    \E t \in TicketIds :
        Create(t) \/ Update(t) \/ Assign(t) \/ Accept(t) \/ Reject(t) \/ Delete(t)

Spec == Init /\ [][Next]_life

=============================================================================
