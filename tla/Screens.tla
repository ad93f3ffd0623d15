------------------------------ MODULE Screens ------------------------------
(***************************************************************************)
(* The ticket pages of the client, as one signed-in user goes through      *)
(* them: the list of the user's role (TicketRouter), TicketDetailPage and  *)
(* CreateTicketPage, over the query cache of React Query.                  *)
(*                                                                         *)
(* A page shows what its query fetched last and offers what the user may   *)
(* do by that copy.  Meanwhile the ticket changes: the server is reduced   *)
(* to TicketLifecycle for everybody else's requests, and to one step, with *)
(* the checks of Tickets, for the user's own.                              *)
(*                                                                         *)
(* Left out: filters, tabs, search and pages of the lists, statistics,     *)
(* comments, and the texts of the forms but for the length of a reason.    *)
(***************************************************************************)
EXTENDS Integers, FiniteSets

CONSTANTS
    Users, NoUser,
    Role,          \* the role of each user
    TheTicket,     \* the ticket in view
    Owner,         \* the customer who creates it
    MaxEdition     \* bound: changes of the ticket

Agents == {u \in Users : Role[u] = "agent"}
Statuses == {"open", "in_progress", "resolved", "closed"}
Keys == {"list", "ticket"}

ASSUME OwnerAssumption == Owner \in Users /\ Role[Owner] = "customer" /\ NoUser \notin Users
ASSUME RoleAssumption == Role \in [Users -> {"admin", "manager", "agent", "customer"}]
ASSUME BoundAssumption == MaxEdition \in Nat

VARIABLES
    life,        \* the server: the ticket, as in TicketLifecycle
    edition,     \* how often it has changed
    me,          \* the user
    page,        \* where the user is, and the modal that is open
    cache,       \* the query cache: per key, what is shown and the fetch under way
    doing,       \* the mutation in flight
    owed         \* history: the edition of the user's last write on this page

vars == <<life, edition, me, page, cache, doing, owed>>

Life == INSTANCE TicketLifecycle WITH TicketIds <- {TheTicket}, Users <- Agents

Rules == INSTANCE Tickets WITH
    TicketIds <- {TheTicket}, Requests <- {}, Priorities <- {}, Categories <- {},
    MaxTime <- 1, MaxRejections <- 0, InitAccounts <- Role, AccountEdits <- {},
    UpdateBodies <- {}, AuditedActions <- {}, tickets <- life, accounts <- Role,
    req <- {}, audit <- {}, auditLost <- {}, now <- 1

-----------------------------------------------------------------------------
(* What the server answers.                                                *)

Exists == TheTicket \in DOMAIN life

\* The ticket with its owner, which the life cycle does not mention.
Document ==
    [f \in DOMAIN life[TheTicket] \cup {"createdBy"} |->
        IF f = "createdBy" THEN Owner ELSE life[TheTicket][f]]

Visible == Rules!Found(TheTicket) /\ Rules!CanUserAccessTicket(Document, me, Role[me])

NoDoc == [status |-> "open"]

\* getAllTickets lists what the user may see; getTicketById answers 404.
Answer(k) ==
    IF Visible THEN [shows |-> "ticket", doc |-> Document, edition |-> edition]
    ELSE [shows |-> IF k = "list" THEN "empty" ELSE "error", doc |-> NoDoc, edition |-> edition]

\* The checks of the handlers of Tickets.
Allowed(op) ==
    \/ op = "create" /\ Rules!Authorized(Role[me], "create") /\ ~Exists  \* bound: one ticket
    \/ /\ Rules!Found(TheTicket)
       /\ CASE op = "assign" -> Rules!Authorized(Role[me], "assign")
            [] op = "update" -> Visible /\ Rules!CanUserUpdateTicket(Document, me, Role[me], {"status"})
            [] op = "delete" -> Rules!CanUserDeleteTicket(Document, me, Role[me])
            [] op \in {"accept", "reject"} -> Rules!CanUserDecide(Document, me)
            [] op = "create" -> FALSE

\* What the schemas of the bodies want: a status, an agent, a reason of 10 to
\* 500 characters.
ValidArgument(op, arg) ==
    /\ op = "update" => arg \in Statuses
    /\ op = "assign" => arg # NoUser
    /\ op = "reject" => arg = "fits"

\* What the handlers assign to the ticket.
Patch(op, arg) ==
    CASE op = "accept" -> Rules!Acceptance
      [] op = "reject" -> Rules!Rejection
      [] op = "delete" -> Rules!Deletion
      [] op = "update" -> [status |-> arg]
      [] op = "assign" -> [assignedTo |-> arg, acceptanceStatus |-> "pending"]

Applied(op, arg) ==
    IF op = "create" THEN Life!Create(TheTicket)
    ELSE life' = [life EXCEPT ![TheTicket] =
                    [f \in DOMAIN @ |-> IF f \in DOMAIN Patch(op, arg) THEN Patch(op, arg)[f] ELSE @[f]]]

-----------------------------------------------------------------------------
(* What the pages offer, by the copy d they show.                          *)

Mine(d) == d.assignedTo = me
MyPending(d) == Mine(d) /\ d.acceptanceStatus = "pending"
MyAccepted(d) == Mine(d) /\ d.acceptanceStatus = "accepted"

When(condition, ops) == IF condition THEN ops ELSE {}

\* The lists: a quick assignment, or the agent's three buttons.
AdminListOffers(d) == When(d.assignedTo = NoUser, {"assign"})
ManagerListOffers(d) == When(d.assignedTo = NoUser, {"assign"})
AgentListOffers(d) ==
    When(MyPending(d), {"accept", "reject"}) \cup When(MyAccepted(d) /\ d.status = "open", {"update"})
CustomerListOffers(d) == {}

ListOffers(d) ==
    CASE Role[me] = "admin"    -> AdminListOffers(d)
      [] Role[me] = "manager"  -> ManagerListOffers(d)
      [] Role[me] = "agent"    -> AgentListOffers(d)
      [] Role[me] = "customer" -> CustomerListOffers(d)

\* Mutant: any ticket that is the agent's may be worked on.
AgentOffersEarly(d) == When(MyPending(d), {"accept", "reject"}) \cup When(Mine(d), {"update"})

AgentOffers(d) == When(MyPending(d), {"accept", "reject"}) \cup When(MyAccepted(d), {"update"})

CustomerOffers(d) == When(d.createdBy = me /\ d.status = "open", {"update", "delete"})

DetailOffers(d) ==
    CASE Role[me] = "admin"    -> {"update", "assign", "delete"}
      [] Role[me] = "manager"  -> {"update", "assign"}
      [] Role[me] = "agent"    -> AgentOffers(d)
      [] Role[me] = "customer" -> CustomerOffers(d)

\* The copy the page shows.
Shown == cache[page.at]
ShowsTicket == page.at \in Keys /\ Shown.shows = "ticket"

Offers ==
    IF ~ShowsTicket THEN {}
    ELSE IF page.at = "list" THEN ListOffers(Shown.doc) ELSE DetailOffers(Shown.doc)

\* These open a modal first; rejections do on both pages.
InModal(op) == op = "reject" \/ (page.at = "ticket" /\ op \in {"update", "assign"})

\* The status modals.  Their selection is made once, from the first copy shown,
\* and may be any by now; an agent's is of no use where getAvailableStatuses
\* has one answer.
StaffChoices(d) == Statuses \ {d.status}
AgentChoices(d) == IF d.status = "closed" THEN {} ELSE Statuses \ {d.status}

\* handleStartWork, or the modal of the role.
StatusArguments(d) ==
    IF page.at = "list" THEN {"in_progress"}
    ELSE IF Role[me] = "agent" THEN AgentChoices(d) ELSE StaffChoices(d)

\* The select of a list, and AssignTicketModal with its "Unassigned".
AssignArguments == IF page.at = "list" THEN Agents ELSE Agents \cup {NoUser}

\* A reason, by its length.  RejectTicketModal wants one that is not blank, the
\* modal of the list one of 10 characters; neither has an upper limit.
ReasonArguments == IF page.at = "list" THEN {"fits", "long"} ELSE {"short", "fits", "long"}

Arguments(op) ==
    CASE op = "update" -> StatusArguments(Shown.doc)
      [] op = "assign" -> AssignArguments
      [] op = "reject" -> ReasonArguments
      [] OTHER -> {NoUser}

-----------------------------------------------------------------------------
(* The query cache.                                                        *)

NoCall == [phase |-> "none"]
Fetch == [phase |-> "sent"]

\* A query that is mounted fetches, unless a fetch of it is under way.
Mounted(at) ==
    cache' = [k \in Keys |-> IF k = at /\ cache[k].call = NoCall THEN [cache[k] EXCEPT !.call = Fetch]
                             ELSE cache[k]]

\* Mutant: the detail page marks the lists only.
InvalidatesLists(at) == {"list"}

\* The keys the onSuccess of a mutation names, of those two.  Those of
\* CreateTicketPage and the deletion name none of them.
InvalidatedBy(at) == {at} \cap Keys

\* invalidateQueries: a mounted query is fetched anew, even if it was being.
Invalidated(at) ==
    [k \in Keys |-> IF k \in InvalidatedBy(at) /\ page.at = k THEN [cache[k] EXCEPT !.call = Fetch]
                    ELSE cache[k]]

ServeFetch(k) ==
    /\ cache[k].call.phase = "sent"
    /\ cache' = [cache EXCEPT ![k].call = [phase |-> "answered", data |-> Answer(k)]]
    /\ UNCHANGED <<life, edition, me, page, doing, owed>>

FetchAnswered(k) ==
    LET data == cache[k].call.data IN
    /\ cache[k].call.phase = "answered"
    /\ cache' = [cache EXCEPT ![k] = [shows |-> data.shows, doc |-> data.doc,
                                      edition |-> data.edition, call |-> NoCall]]
    /\ UNCHANGED <<life, edition, me, page, doing, owed>>

\* The retries are used up: the page shows an error.
FetchFails(k) ==
    /\ cache[k].call # NoCall
    /\ cache' = [cache EXCEPT ![k].shows = "error", ![k].doc = NoDoc, ![k].call = NoCall]
    /\ UNCHANGED <<life, edition, me, page, doing, owed>>

\* refetchInterval; TicketDetailPage has none.
Poll ==
    /\ page.at = "list" /\ cache["list"].call = NoCall
    /\ Mounted("list")
    /\ UNCHANGED <<life, edition, me, page, doing, owed>>

-----------------------------------------------------------------------------
(* The user.                                                               *)

Idle == [phase |-> "idle"]

At(where) == [at |-> where, modal |-> "none"]

\* Another page is shown; what is in flight goes on.
Leave(where) ==
    /\ page' = At(where)
    /\ Mounted(where)
    /\ owed' = 0

GoTo(where) ==
    /\ page.at # where
    /\ where = "create" => me = Owner
    /\ where = "ticket" => ShowsTicket
    /\ Leave(where)
    /\ doing' = IF doing = Idle THEN doing ELSE [doing EXCEPT !.stayed = FALSE]
    /\ UNCHANGED <<life, edition, me>>

OpenModal(op) ==
    /\ op \in Offers /\ InModal(op) /\ page.modal = "none"
    /\ page' = [page EXCEPT !.modal = op]
    /\ UNCHANGED <<life, edition, me, cache, doing, owed>>

CloseModal ==
    /\ page.modal # "none"
    /\ page' = [page EXCEPT !.modal = "none"]
    /\ UNCHANGED <<life, edition, me, cache, doing, owed>>

Mutation(op, arg) == [phase |-> "sent", op |-> op, arg |-> arg, at |-> page.at, stayed |-> TRUE]

\* A modal stays open whatever becomes of the ticket; where the detail page
\* shows an error it is hidden.  handleRejectSubmit closes the list's modal,
\* the others wait for the answer.
Submit(op) ==
    /\ doing = Idle
    /\ IF InModal(op) THEN page.modal = op /\ (page.at = "list" \/ ShowsTicket)
       ELSE page.modal = "none" /\ op \in Offers
    /\ \E arg \in Arguments(op) : doing' = Mutation(op, arg)
    /\ page' = IF page.at = "list" THEN At("list") ELSE page
    /\ UNCHANGED <<life, edition, me, cache, owed>>

SubmitTicket ==
    /\ page.at = "create" /\ doing = Idle
    /\ doing' = Mutation("create", NoUser)
    /\ UNCHANGED <<life, edition, me, page, cache, owed>>

\* Bound: no change beyond the last edition.
ServeMutation ==
    /\ doing.phase = "sent" /\ edition < MaxEdition
    /\ IF Allowed(doing.op) /\ ValidArgument(doing.op, doing.arg)
       THEN /\ Applied(doing.op, doing.arg)
            /\ edition' = edition + 1
            /\ doing' = [doing EXCEPT !.phase = "ok", !.arg = NoUser]
       ELSE /\ doing' = [doing EXCEPT !.phase = "refused", !.arg = NoUser]
            /\ UNCHANGED <<life, edition>>
    /\ UNCHANGED <<me, page, cache, owed>>

\* onError, also where the answer is lost.
MutationFails ==
    /\ doing # Idle
    /\ doing' = Idle
    /\ UNCHANGED <<life, edition, me, page, cache, owed>>

\* onSuccess.  A creation and a deletion end on the list, wherever the user is
\* by then; the others fetch the page anew and close its modal.
MutationSucceeds ==
    /\ doing.phase = "ok"
    /\ doing' = Idle
    /\ IF doing.op \in {"create", "delete"}
       THEN IF page.at = "list" THEN UNCHANGED <<page, cache, owed>> ELSE Leave("list")
       ELSE /\ cache' = Invalidated(doing.at)
            /\ page' = IF doing.stayed /\ doing.at = "ticket" /\ page.modal = doing.op THEN At("ticket")
                       ELSE page
            /\ owed' = IF doing.stayed THEN edition ELSE owed
    /\ UNCHANGED <<life, edition, me>>

Elsewhere ==
    /\ edition < MaxEdition
    /\ Life!Next /\ life' # life
    /\ edition' = edition + 1
    /\ UNCHANGED <<me, page, cache, doing, owed>>

-----------------------------------------------------------------------------

Init ==
    /\ life = [t \in {} |-> NoDoc] /\ edition = 0
    /\ me \in Users
    /\ page = At("list")
    /\ cache = [k \in Keys |-> [shows |-> "nothing", doc |-> NoDoc, edition |-> 0,
                                call  |-> IF k = "list" THEN Fetch ELSE NoCall]]
    /\ doing = Idle /\ owed = 0

Next ==
    \/ \E k \in Keys : ServeFetch(k) \/ FetchAnswered(k) \/ FetchFails(k)
    \/ \E where \in {"list", "ticket", "create"} : GoTo(where)
    \/ \E op \in {"accept", "reject", "update", "assign", "delete"} : OpenModal(op) \/ Submit(op)
    \/ Poll \/ CloseModal \/ SubmitTicket
    \/ ServeMutation \/ MutationFails \/ MutationSucceeds
    \/ Elsewhere

Spec == Init /\ [][Next]_vars
=============================================================================
